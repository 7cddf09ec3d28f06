------------------------ MODULE BrowserPoolRefinement ------------------------
(***************************************************************************)
(* Proof that the pool implements ApplicationScheduler: its initial state  *)
(* is the scheduler's, and each of its steps is a step of the scheduler or *)
(* invisible to it.                                                        *)
(***************************************************************************)
EXTENDS BrowserPoolProofs

\* What the scheduler sees of the pool.
ItemsIn(items) == {items[i] : i \in DOMAIN items}
Backlog == ItemsIn(queue)
Running == {active[app] : app \in ActiveApps}
Parked  == {deferred[app] : app \in {a \in Apps : deferred[a] # NoItem}}

Unseen == UNCHANGED <<Backlog, Running, Parked, processed>>

\* The scheduler counts as the pool does.
LEMMA SameCardinality ==
    ASSUME NEW S
    PROVE  Scheduler!Cardinality(S) = Cardinality(S)
BY DEF Scheduler!Cardinality, Cardinality

\* The pool leaves what the scheduler sees unchanged when it leaves its slots,
\* its waiting items and its processed actions unchanged.
LEMMA UnchangedUnseen ==
    ASSUME UNCHANGED <<slots, waiting, processed>>
    PROVE  Unseen
BY DEF Unseen, Backlog, ItemsIn, Running, Parked, ActiveApps, IsActive, slots, waiting

\* Which applications the scheduler's sets speak of.
LEMMA AppsSeen ==
    ASSUME PoolInv
    PROVE  /\ Backlog \subseteq Items /\ Running \subseteq Items /\ Parked \subseteq Items
           /\ \A app : app \in AppsIn(queue) <=> \E item \in Backlog : AppOf[item] = app
           /\ \A app \in Apps :
                  IsActive(app) => active[app] \in Running /\ AppOf[active[app]] = app
           /\ \A item \in Running : IsActive(AppOf[item]) /\ active[AppOf[item]] = item
           /\ \A app \in Apps : deferred[app] # NoItem =>
                  deferred[app] \in Parked /\ AppOf[deferred[app]] = app
           /\ \A item \in Parked :
                  deferred[AppOf[item]] # NoItem /\ deferred[AppOf[item]] = item
<1>1. queue \in Seq(Items)
  BY DEF PoolInv, TypeOK
<1>2. Backlog \subseteq Items
  BY <1>1 DEF Backlog, ItemsIn
<1>3. /\ active \in [Apps -> Items \cup {NoItem}]
      /\ deferred \in [Apps -> Items \cup {NoItem}]
  BY DEF PoolInv, TypeOK
<1>4. \A app \in ActiveApps : active[app] \in Items /\ AppOf[active[app]] = app
  BY <1>3 DEF PoolInv, MembershipExact, ActiveApps, IsActive
<1>5. \A app \in Apps : deferred[app] # NoItem =>
          deferred[app] \in Items /\ AppOf[deferred[app]] = app
  BY <1>3 DEF PoolInv, DeferredBehindActive
<1>6. QED
  BY <1>2, <1>4, <1>5 DEF Backlog, ItemsIn, Running, Parked, AppsIn, ActiveApps, IsActive

\* Enqueueing an item adds it to the backlog.
LEMMA AppendSeen ==
    ASSUME NEW items \in Seq(Items), NEW item \in Items
    PROVE  ItemsIn(Append(items, item)) = ItemsIn(items) \cup {item}
<1> DEFINE longer == Append(items, item)
<1>1. /\ Len(items) \in Nat
      /\ DOMAIN items = 1..Len(items)
      /\ DOMAIN longer = 1..(Len(items) + 1)
      /\ \A j \in 1..Len(items) : longer[j] = items[j]
      /\ longer[Len(items) + 1] = item
  OBVIOUS
<1> HIDE DEF longer
<1>2. \A j \in DOMAIN longer : j \in DOMAIN items \/ j = Len(items) + 1
  BY <1>1
<1>3. DOMAIN items \subseteq DOMAIN longer /\ Len(items) + 1 \in DOMAIN longer
  BY <1>1
<1>4. ItemsIn(longer) = ItemsIn(items) \cup {item}
  BY <1>1, <1>2, <1>3 DEF ItemsIn
<1>5. QED
  BY <1>4 DEF longer

\* Removing an entry of the queue removes its item from the backlog.
LEMMA RemoveSeen ==
    ASSUME NEW items \in Seq(Items), OneEntryPerApp(items), NEW i \in DOMAIN items
    PROVE  ItemsIn(RemoveAt(items, i)) = ItemsIn(items) \ {items[i]}
<1> DEFINE rest == RemoveAt(items, i)
           from(j) == IF j < i THEN j ELSE j + 1
<1>1. /\ DOMAIN rest = 1..(Len(items) - 1)
      /\ \A j \in DOMAIN rest : rest[j] = items[from(j)]
  BY RemoveAtElements
<1>2. Len(items) \in Nat /\ DOMAIN items = 1..Len(items) /\ i \in 1..Len(items)
  OBVIOUS
<1>3. \A j \in DOMAIN rest : from(j) \in DOMAIN items \ {i}
  BY <1>1, <1>2
<1>4. ASSUME NEW k \in DOMAIN items \ {i}
      PROVE  \E j \in DOMAIN rest : from(j) = k
  <2>1. CASE k < i
    BY <2>1, <1>1, <1>2
  <2>2. CASE k > i
    <3>1. k - 1 \in DOMAIN rest /\ from(k - 1) = k
      BY <2>2, <1>1, <1>2
    <3>2. QED
      BY <3>1
  <2>3. QED
    BY <2>1, <2>2, <1>2
<1> HIDE DEF rest, from
<1>5. \A k \in DOMAIN items \ {i} : items[k] # items[i]
  BY DEF OneEntryPerApp
<1>6. ASSUME NEW item \in ItemsIn(rest)
      PROVE  item \in ItemsIn(items) \ {items[i]}
  BY <1>1, <1>3, <1>5 DEF ItemsIn
<1>7. ASSUME NEW item \in ItemsIn(items) \ {items[i]}
      PROVE  item \in ItemsIn(rest)
  <2>1. PICK k \in DOMAIN items \ {i} : item = items[k]
    BY DEF ItemsIn
  <2>2. PICK j \in DOMAIN rest : from(j) = k
    BY <1>4
  <2>3. QED
    BY <2>1, <2>2, <1>1 DEF ItemsIn
<1>8. ItemsIn(rest) = ItemsIn(items) \ {items[i]}
  BY <1>6, <1>7
<1>9. QED
  BY <1>8 DEF rest

-----------------------------------------------------------------------------
(* The handlers.                                                           *)

\* acceptApplication submits, parks or absorbs the item, or drops it.
LEMMA AcceptRefines ==
    ASSUME PoolInv, NEW item \in Items, AcceptApplication(item), UNCHANGED slots
    PROVE  Scheduler!Next \/ Unseen
<1> USE ConstantsAssumption
<1> DEFINE app == AppOf[item]
<1>1. UNCHANGED Running
  BY DEF Running, ActiveApps, IsActive, slots
<1>2. app \in Apps /\ queue \in Seq(Items)
  BY DEF PoolInv, TypeOK
<1>3. /\ processed' = processed
      /\ UNCHANGED waiting
      => Unseen
  BY UnchangedUnseen
<1>4. ASSUME EnqueueApplication(item), UNCHANGED deferred, ~IsActive(app),
             app \notin queued, Scheduler!Receive(item)
      PROVE  Scheduler!Submit(item)
  <2>1. app \notin AppsIn(queue)
    BY <1>4 DEF PoolInv, MembershipExact
  <2>2. queue' = Append(queue, item)
    BY <1>4, <2>1 DEF EnqueueApplication, Enqueue
  <2>3. Backlog' = Backlog \cup {item}
    BY <2>2, <1>2, AppendSeen DEF Backlog
  <2>4. \A other \in Backlog \cup Running : AppOf[other] # app
    BY <1>4, <2>1, AppsSeen
  <2>5. UNCHANGED Parked
    BY <1>4 DEF Parked
  <2>6. QED
    BY <1>1, <1>4, <2>3, <2>4, <2>5
       DEF Scheduler!Submit, Scheduler!OfApp, Backlog, ItemsIn, Running, Parked
<1>5. ASSUME IsResume(item), UNCHANGED waiting, Scheduler!Receive(item),
             app \in AppsIn(queue) \/ deferred[app] # NoItem
      PROVE  Scheduler!Absorb(item)
  <2>1. \E other \in Backlog \cup Parked : AppOf[other] = app
    BY <1>2, <1>5, AppsSeen
  <2>2. UNCHANGED <<Backlog, Parked>>
    BY <1>5 DEF waiting, Backlog, Parked
  <2>3. QED
    BY <1>1, <1>5, <2>1, <2>2
       DEF Scheduler!Absorb, Scheduler!OfApp, Scheduler!IsResume, IsResume,
           Backlog, ItemsIn, Running, Parked
<1>6. ASSUME IsResume(item), ResumeOf[item] \notin processed,
             processed' = processed \cup {ResumeOf[item]}
      PROVE  Scheduler!Receive(item)
  BY <1>6 DEF Scheduler!Receive, Scheduler!IsResume, IsResume
<1>7. CASE IsResume(item) /\ ResumeOf[item] \in processed
  BY <1>7, <1>3 DEF AcceptApplication, SeenBefore
<1>8. CASE /\ IsResume(item) /\ ResumeOf[item] \notin processed
           /\ IsActive(app)
  <2>1. /\ processed' = processed \cup {ResumeOf[item]}
        /\ deferred' = IF deferred[app] = NoItem
                       THEN [deferred EXCEPT ![app] = item] ELSE deferred
        /\ UNCHANGED <<queue, queued>>
    BY <1>8 DEF AcceptApplication, SeenBefore
  <2>2. Scheduler!Receive(item)
    BY <1>6, <1>8, <2>1
  <2>3. CASE deferred[app] # NoItem
    <3>1. Scheduler!Absorb(item)
      BY <1>5, <1>8, <2>1, <2>2, <2>3 DEF waiting
    <3>2. QED
      BY <3>1 DEF Scheduler!Next
  <2>4. CASE deferred[app] = NoItem
    <3>1. deferred' = [deferred EXCEPT ![app] = item]
      BY <2>1, <2>4
    <3>2. deferred \in [Apps -> Items \cup {NoItem}] /\ item # NoItem
      BY DEF PoolInv, TypeOK
    <3>3. Parked' = Parked \cup {item}
      BY <1>2, <2>4, <3>1, <3>2 DEF Parked
    <3>4. \A other \in Parked : AppOf[other] # app
      BY <2>4, AppsSeen
    <3>5. \E other \in Running : AppOf[other] = app
      BY <1>2, <1>8, AppsSeen
    <3>6. UNCHANGED Backlog
      BY <2>1 DEF Backlog
    <3>7. Scheduler!Park(item)
      BY <1>1, <1>8, <2>2, <3>3, <3>4, <3>5, <3>6
         DEF Scheduler!Park, Scheduler!OfApp, Scheduler!IsResume, IsResume,
             Backlog, ItemsIn, Running, Parked
    <3>8. QED
      BY <3>7 DEF Scheduler!Next
  <2>5. QED
    BY <2>3, <2>4
<1>9. CASE /\ IsResume(item) /\ ResumeOf[item] \notin processed
           /\ ~IsActive(app)
  <2>1. /\ processed' = processed \cup {ResumeOf[item]}
        /\ EnqueueApplication(item)
        /\ UNCHANGED deferred
    BY <1>9 DEF AcceptApplication, SeenBefore
  <2>2. Scheduler!Receive(item)
    BY <1>6, <1>9, <2>1
  <2>3. CASE app \notin queued
    BY <1>4, <1>9, <2>1, <2>2, <2>3 DEF Scheduler!Next
  <2>4. CASE app \in queued
    <3>1. app \in AppsIn(queue)
      BY <1>9, <2>4 DEF PoolInv, MembershipExact, ActiveApps
    <3>2. UNCHANGED waiting
      BY <2>1, <2>4 DEF EnqueueApplication, waiting
    <3>3. Scheduler!Absorb(item)
      BY <1>5, <1>9, <2>2, <3>1, <3>2
    <3>4. QED
      BY <3>3 DEF Scheduler!Next
  <2>5. QED
    BY <2>3, <2>4
<1>10. CASE ~IsResume(item)
  <2>1. /\ EnqueueApplication(item)
        /\ UNCHANGED <<deferred, processed>>
    BY <1>10 DEF AcceptApplication, SeenBefore
  <2>2. Scheduler!Receive(item)
    BY <1>10, <2>1 DEF Scheduler!Receive, Scheduler!IsResume, IsResume
  <2>3. CASE app \in queued
    BY <1>3, <2>1, <2>3 DEF EnqueueApplication, waiting
  <2>4. CASE app \notin queued
    <3>1. ~IsActive(app)
      BY <1>2, <2>4 DEF PoolInv, MembershipExact, ActiveApps
    <3>2. Scheduler!Submit(item)
      BY <1>4, <2>1, <2>2, <2>4, <3>1
    <3>3. QED
      BY <3>2 DEF Scheduler!Next
  <2>5. QED
    BY <2>3, <2>4
<1>11. QED
  BY <1>7, <1>8, <1>9, <1>10

\* handleApplicationCancellation withdraws a queued item.
LEMMA CancelRefines ==
    ASSUME PoolInv, NEW app \in Apps, HandleCancellation(app),
           UNCHANGED <<slots, deferred, processed>>
    PROVE  Scheduler!Next \/ Unseen
<1>1. CASE UNCHANGED <<queue, queued>>
  BY <1>1, UnchangedUnseen DEF waiting
<1>2. ASSUME NEW i \in DOMAIN queue, queue' = RemoveAt(queue, i)
      PROVE  Scheduler!Next
  <2>1. queue \in Seq(Items) /\ OneEntryPerApp(queue)
    BY DEF PoolInv, TypeOK, MembershipExact
  <2>2. Backlog' = Backlog \ {queue[i]}
    BY <1>2, <2>1, RemoveSeen DEF Backlog
  <2>3. PICK item \in Items : item = queue[i]
    BY <2>1
  <2>4. UNCHANGED <<Running, Parked>>
    BY DEF Running, Parked, ActiveApps, IsActive, slots
  <2>5. Scheduler!Withdraw(item)
    BY <2>2, <2>3, <2>4 DEF Scheduler!Withdraw, Backlog, ItemsIn, Running, Parked
  <2>6. QED
    BY <2>5 DEF Scheduler!Next
<1>3. QED
  BY <1>1, <1>2 DEF HandleCancellation

\* settleApplication releases the active item and submits its deferred resume.
LEMMA SettleRefines ==
    ASSUME PoolInv, NEW app \in Apps, Settle(app), UNCHANGED processed
    PROVE  Scheduler!Next \/ Unseen
<1> USE ConstantsAssumption
<1>1. CASE ~IsActive(app)
  BY <1>1, UnchangedUnseen DEF Settle, FreeSlot, FreeUser, Requeue
<1>2. CASE IsActive(app)
  <2>1. /\ active' = [active EXCEPT ![app] = NoItem]
        /\ deferred' = [deferred EXCEPT ![app] = NoItem]
        /\ queue' = IF deferred[app] = NoItem THEN queue
                    ELSE Enqueue(queue, deferred[app])
    BY <1>2 DEF Settle, FreeSlot, FreeUser, Requeue
  <2>2. /\ queue \in Seq(Items)
        /\ active \in [Apps -> Items \cup {NoItem}]
        /\ deferred \in [Apps -> Items \cup {NoItem}]
    BY DEF PoolInv, TypeOK
  <2>3. PICK item \in Items : item = active[app] /\ item \in Running /\ AppOf[item] = app
    BY <1>2, AppsSeen
  <2>4. Running' = Running \ {item}
    <3>1. \A other \in ActiveApps : active[other] = item => other = app
      BY <2>3 DEF PoolInv, MembershipExact
    <3>2. ActiveApps' = ActiveApps \ {app}
      BY <2>1, <2>2 DEF ActiveApps, IsActive
    <3>3. \A other \in ActiveApps \ {app} : active'[other] = active[other]
      BY <2>1, <2>2 DEF ActiveApps
    <3>4. QED
      BY <2>3, <3>1, <3>2, <3>3, <1>2 DEF Running, ActiveApps
  <2>5. {other \in Parked : AppOf[other] = app}
            = IF deferred[app] = NoItem THEN {} ELSE {deferred[app]}
    BY AppsSeen
  <2>6. Parked' = Parked \ {other \in Parked : AppOf[other] = app}
    <3>1. \A a \in Apps \ {app} : deferred'[a] = deferred[a]
      BY <2>1, <2>2
    <3>2. deferred'[app] = NoItem
      BY <2>1, <2>2
    <3>3. \A a \in Apps : deferred[a] # NoItem => AppOf[deferred[a]] = a
      BY AppsSeen
    <3>4. QED
      BY <3>1, <3>2, <3>3 DEF Parked
  <2>7. Backlog' = Backlog \cup {other \in Parked : AppOf[other] = app}
    <3>1. CASE deferred[app] = NoItem
      BY <2>1, <2>5, <3>1 DEF Backlog
    <3>2. CASE deferred[app] # NoItem
      <4>1. deferred[app] \in Items /\ AppOf[deferred[app]] = app
        BY <2>2, <3>2, AppsSeen
      <4>2. app \notin AppsIn(queue)
        BY <1>2 DEF PoolInv, MembershipExact, ActiveApps
      <4>3. queue' = Append(queue, deferred[app])
        BY <2>1, <3>2, <4>1, <4>2 DEF Enqueue
      <4>4. Backlog' = Backlog \cup {deferred[app]}
        BY <2>2, <4>1, <4>3, AppendSeen DEF Backlog
      <4>5. QED
        BY <2>5, <3>2, <4>4
    <3>3. QED
      BY <3>1, <3>2
  <2>8. Scheduler!Release(item)
    BY <2>3, <2>4, <2>6, <2>7
       DEF Scheduler!Release, Scheduler!OfApp, Backlog, ItemsIn, Running, Parked
  <2>9. QED
    BY <2>8 DEF Scheduler!Next
<1>3. QED
  BY <1>1, <1>2

\* A dispatch starts a waiting item within the capacity.
LEMMA DispatchRefines ==
    ASSUME PoolInv, Dispatch
    PROVE  Scheduler!Next
<1> USE ConstantsAssumption
<1>1. PICK i \in DOMAIN queue :
          /\ FirstEligible(i)
          /\ active' = [active EXCEPT ![AppOf[queue[i]]] = queue[i]]
          /\ queue' = RemoveAt(queue, i)
  BY DEF Dispatch
<1>2. /\ queue \in Seq(Items) /\ OneEntryPerApp(queue)
      /\ active \in [Apps -> Items \cup {NoItem}]
  BY DEF PoolInv, TypeOK, MembershipExact
<1>3. PICK item \in Items : item = queue[i] /\ item \in Backlog
  BY <1>2 DEF Backlog, ItemsIn
<1> DEFINE app == AppOf[item]
<1>4. app \in Apps /\ app \notin ActiveApps
  BY <1>3 DEF PoolInv, MembershipExact, AppsIn
<1>5. Backlog' = Backlog \ {item}
  BY <1>1, <1>2, <1>3, RemoveSeen DEF Backlog
<1>6. Running' = Running \cup {item}
  <2>1. ActiveApps' = ActiveApps \cup {app} /\ active'[app] = item
    BY <1>1, <1>2, <1>3, <1>4 DEF ActiveApps, IsActive
  <2>2. \A other \in ActiveApps : active'[other] = active[other]
    BY <1>1, <1>2, <1>3, <1>4 DEF ActiveApps
  <2>3. QED
    BY <2>1, <2>2 DEF Running
<1>7. Cardinality(Running) < MaxConcurrent
  <2>1. Running = {active[other] : other \in ActiveApps}
    BY DEF Running
  <2>2. IsFiniteSet(ActiveApps) /\ permits > 0 /\ permits \in Nat
        /\ permits + Cardinality(ActiveApps) = MaxConcurrent
    BY DEF PoolInv, TypeOK, SlotAccounting, Dispatch
  <2>3. IsFiniteSet(Running) /\ Cardinality(Running) <= Cardinality(ActiveApps)
    <3>1. active \in [Apps -> Items \cup {NoItem}] /\ ActiveApps \subseteq Apps
      BY <1>2 DEF ActiveApps
    <3>2. Running = {[a \in ActiveApps |-> active[a]][other] : other \in ActiveApps}
      BY <2>1
    <3>3. [a \in ActiveApps |-> active[a]] \in Surjection(ActiveApps, Running)
      BY <3>2 DEF Surjection
    <3>4. QED
      BY <3>3, <2>2, FS_Surjection
  <2>4. Cardinality(ActiveApps) \in Nat /\ Cardinality(Running) \in Nat
    BY <2>2, <2>3, FS_CardinalityType
  <2>5. QED
    BY <2>2, <2>3, <2>4
<1>8. \A other \in Running : UserOf[other] # UserOf[item]
  BY <1>1, <1>3 DEF PoolInv, UsersSerialized, FirstEligible, Running
<1>9. UNCHANGED <<Parked, processed>>
  BY DEF Dispatch, Parked
<1>10. Scheduler!Start(item)
  <2>1. {other \in Running : UserOf[other] = UserOf[item]} = {}
    BY <1>8
  <2>2. item \in {queue[k] : k \in DOMAIN queue}
    BY <1>3 DEF Backlog, ItemsIn
  <2>3. {queue[k] : k \in DOMAIN queue}' = {queue[k] : k \in DOMAIN queue} \ {item}
    BY <1>5 DEF Backlog, ItemsIn
  <2>4. {active[a] : a \in ActiveApps}' = {active[a] : a \in ActiveApps} \cup {item}
    BY <1>6 DEF Running
  <2>5. UNCHANGED {deferred[a] : a \in {b \in Apps : deferred[b] # NoItem}}
    BY <1>9 DEF Parked
  <2>6. Cardinality({active[a] : a \in ActiveApps}) < MaxConcurrent
    BY <1>7 DEF Running
  <2>7. {other \in {active[a] : a \in ActiveApps} : UserOf[other] = UserOf[item]} = {}
    BY <2>1 DEF Running
  <2>8. QED
    BY ONLY <1>9, <2>2, <2>3, <2>4, <2>5, <2>6, <2>7, SameCardinality
       DEF Scheduler!Start, Scheduler!OfUser
<1>11. QED
  BY <1>10 DEF Scheduler!Next

-----------------------------------------------------------------------------
(* The refinement.                                                         *)

\* Every step of the loop.
LEMMA LoopRefines ==
    ASSUME PoolInv, Loop
    PROVE  Scheduler!Next \/ Unseen
<1>1. ASSUME TakeQueueSignal PROVE Scheduler!Next \/ Unseen
  <2>1. queueSignals \in Seq(Items)
    BY DEF PoolInv, TypeOK
  <2>2. PICK item \in Items : item = Head(queueSignals)
    BY <1>1, <2>1, HeadTailProperties DEF TakeQueueSignal
  <2>3. AcceptApplication(item) /\ UNCHANGED slots
    BY <1>1, <2>2 DEF TakeQueueSignal
  <2>4. QED
    BY <2>3, AcceptRefines
<1>2. ASSUME TakeCancelSignal PROVE Scheduler!Next \/ Unseen
  <2>1. cancelSignals \in Seq(Apps)
    BY DEF PoolInv, TypeOK
  <2>2. PICK app \in Apps : app = Head(cancelSignals)
    BY <1>2, <2>1, HeadTailProperties DEF TakeCancelSignal
  <2>3. HandleCancellation(app) /\ UNCHANGED <<slots, deferred, processed>>
    BY <1>2, <2>2 DEF TakeCancelSignal
  <2>4. QED
    BY <2>3, CancelRefines
<1>3. ASSUME TakeSettledSignal \/ TakeCompletion PROVE Scheduler!Next \/ Unseen
  <2>1. settledSignals \in Seq(Apps) /\ completions \in Seq(Apps)
    BY DEF PoolInv, TypeOK
  <2>2. PICK app \in Apps : Settle(app) /\ UNCHANGED processed
    BY <1>3, <2>1, HeadTailProperties DEF TakeSettledSignal, TakeCompletion
  <2>3. QED
    BY <2>2, SettleRefines
<1>4. ASSUME NEW from, NEW to, Goto(from, to) PROVE Unseen
  BY <1>4, UnchangedUnseen DEF Goto
<1>5. CASE Dispatch
  BY <1>5, DispatchRefines
<1>6. CASE ContinueAsNew
  <2>1. UNCHANGED <<slots, waiting>>
    BY <1>6, ContinueRestores, PoolInvSplit
  <2>2. UNCHANGED processed
    BY <1>6 DEF ContinueAsNew
  <2>3. QED
    BY <2>1, <2>2, UnchangedUnseen
<1>7. QED
  BY <1>1, <1>2, <1>3, <1>4, <1>5, <1>6 DEF Loop, BeginRollover, SkipRollover,
     DispatchDone, Select, SelectTimer, DrainQueue, DrainCancel, DrainSettled,
     DrainCompleted

\* The environment's steps are invisible.
LEMMA EnvironmentRefines ==
    ASSUME Environment
    PROVE  Unseen
<1>1. UNCHANGED <<slots, waiting, processed>>
  BY DEF Environment, SignalQueue, ChildReturns, TransferCancel, SignalCancel,
     SignalSettled
<1>2. QED
  BY <1>1, UnchangedUnseen

\* The pool implements the scheduler it is documented to be: drains, rollovers
\* and repeated settlements change nothing the scheduler sees.
THEOREM PoolImplementsScheduler == Spec => SchedulesApplications
<1>1. Init => Scheduler!Init
  BY DEF Init, Scheduler!Init, ActiveApps, IsActive
<1>2. PoolInv /\ [Next]_vars => [Scheduler!Next]_(Scheduler!state)
  <2>1. SUFFICES ASSUME PoolInv, [Next]_vars PROVE Scheduler!Next \/ Unseen
    BY DEF Scheduler!state, Unseen, Backlog, ItemsIn, Running, Parked
  <2>2. CASE UNCHANGED vars
    BY <2>2, UnchangedUnseen DEF vars
  <2>3. QED
    BY <2>1, <2>2, LoopRefines, EnvironmentRefines DEF Next
<1>3. QED
  BY <1>1, <1>2, PoolInvariant, PTL DEF Spec, SchedulesApplications, Scheduler!Spec

-----------------------------------------------------------------------------
(* Each submitted user action is resumed once: an invariant of the         *)
(* scheduler's steps, so of the pool's.                                    *)

Held == Backlog \cup Running \cup Parked

\* What the scheduler holds of resumes: each was received, none twice, and none
\* waits behind itself.
ResumesHeldOnce ==
    /\ \A item \in Held : IsResume(item) => ResumeOf[item] \in processed
    /\ \A item, other \in Held :
           IsResume(item) /\ ResumeOf[item] = ResumeOf[other] => item = other
    /\ \A item \in Running \cap Parked : ~IsResume(item)

\* What waits in the queue neither runs nor is deferred, and waits there once.
LEMMA BacklogApart ==
    ASSUME PoolInv
    PROVE  /\ Backlog \cap (Running \cup Parked) = {}
           /\ \A i, j \in DOMAIN queue : queue[i] = queue[j] => i = j
<1> USE AppsSeen, ConstantsAssumption
<1>1. SUFFICES ASSUME NEW item \in Backlog, item \in Running \cup Parked PROVE FALSE
  BY DEF PoolInv, MembershipExact, OneEntryPerApp
<1>2. AppOf[item] \in AppsIn(queue) /\ AppOf[item] \in Apps
  OBVIOUS
<1>3. item \in Parked => deferred[AppOf[item]] # NoItem
  OBVIOUS
<1>4. IsActive(AppOf[item])
  BY <1>1, <1>2, <1>3 DEF PoolInv, DeferredBehindActive
<1>5. QED
  BY <1>2, <1>4 DEF PoolInv, MembershipExact, ActiveApps

LEMMA SchedulerHoldsOnce ==
    ASSUME PoolInv, ResumesHeldOnce, Scheduler!Next \/ Unseen
    PROVE  ResumesHeldOnce'
<1> USE DEF ResumesHeldOnce, Held, Scheduler!IsResume, IsResume
<1>1. CASE Unseen
  BY <1>1 DEF Unseen
<1>2. ASSUME NEW item \in Items,
             \/ Scheduler!Submit(item) \/ Scheduler!Park(item) \/ Scheduler!Absorb(item)
      PROVE  ResumesHeldOnce'
  <2>1. /\ IsResume(item) => ResumeOf[item] \notin processed
        /\ processed' = IF IsResume(item) THEN processed \cup {ResumeOf[item]} ELSE processed
    BY <1>2 DEF Scheduler!Submit, Scheduler!Park, Scheduler!Absorb, Scheduler!Receive
  <2>2. \/ Backlog' = Backlog \cup {item} /\ UNCHANGED <<Running, Parked>>
        \/ Parked' = Parked \cup {item} /\ UNCHANGED <<Backlog, Running>>
        \/ UNCHANGED <<Backlog, Running, Parked>>
    BY <1>2 DEF Scheduler!Submit, Scheduler!Park, Scheduler!Absorb, Backlog, ItemsIn, Running, Parked
  <2>3. QED
    BY <2>1, <2>2
<1>3. ASSUME NEW item \in Items,
             \/ Scheduler!Start(item) \/ Scheduler!Withdraw(item) \/ Scheduler!Release(item)
      PROVE  ResumesHeldOnce'
  <2>1. UNCHANGED processed /\ Held' \subseteq Held
    BY <1>3 DEF Scheduler!Start, Scheduler!Withdraw, Scheduler!Release, Scheduler!OfApp,
       Backlog, ItemsIn, Running, Parked
  <2>2. Backlog \cap Parked = {}
    BY BacklogApart
  <2>3. \/ Running' = Running \cup {item} /\ UNCHANGED Parked /\ item \in Backlog
        \/ Running' \subseteq Running /\ Parked' \subseteq Parked
    BY <1>3 DEF Scheduler!Start, Scheduler!Withdraw, Scheduler!Release, Scheduler!OfApp,
       Backlog, ItemsIn, Running, Parked
  <2>4. QED
    BY <2>1, <2>2, <2>3
<1>4. QED
  BY <1>1, <1>2, <1>3 DEF Scheduler!Next

\* The pool holds what the scheduler holds, each application in one place.
LEMMA HeldOncePerPlace ==
    ASSUME PoolInv, ResumesHeldOnce
    PROVE  ResumeOnce
<1> DEFINE places == {<<"queue", i, queue[i]>> : i \in DOMAIN queue}
                     \cup {<<"active", app, active[app]>> : app \in ActiveApps}
                     \cup {<<"deferred", app, deferred[app]>> :
                               app \in {a \in Apps : deferred[a] # NoItem}}
<1>1. ASSUME NEW h \in places
      PROVE  /\ h[3] \in Held
             /\ \/ \E i \in DOMAIN queue : h = <<"queue", i, h[3]>> /\ queue[i] = h[3] /\ h[3] \in Backlog
                \/ h = <<"active", AppOf[h[3]], h[3]>> /\ h[3] \in Running
                \/ h = <<"deferred", AppOf[h[3]], h[3]>> /\ h[3] \in Parked
  <2>1. CASE \E i \in DOMAIN queue : h = <<"queue", i, queue[i]>>
    BY <2>1 DEF Held, Backlog, ItemsIn
  <2>2. CASE \E app \in ActiveApps : h = <<"active", app, active[app]>>
    BY <2>2, AppsSeen DEF Held, ActiveApps
  <2>3. CASE \E app \in {a \in Apps : deferred[a] # NoItem} : h = <<"deferred", app, deferred[app]>>
    BY <2>3, AppsSeen DEF Held
  <2>4. QED
    BY <1>1, <2>1, <2>2, <2>3
<1>2. /\ Backlog \cap (Running \cup Parked) = {}
      /\ \A i, j \in DOMAIN queue : queue[i] = queue[j] => i = j
  BY BacklogApart
<1>3. ASSUME NEW h \in places, NEW g \in places, IsResume(h[3]), IsResume(g[3]),
             ResumeOf[h[3]] = ResumeOf[g[3]]
      PROVE  h = g
  <2>1. h[3] = g[3]
    BY <1>1, <1>3 DEF ResumesHeldOnce
  <2>2. h[3] \notin Running \cap Parked
    BY <1>3 DEF ResumesHeldOnce
  <2>3. QED
    BY <1>1, <1>2, <2>1, <2>2
<1>4. \A h \in places : IsResume(h[3]) => ResumeOf[h[3]] \in processed
  BY <1>1 DEF ResumesHeldOnce
<1> HIDE DEF places
<1>5. QED
  BY <1>3, <1>4 DEF ResumeOnce, places

\* However often the resume signal of a user action is repeated, the pool
\* holds one resume for it, queued, active or deferred (acceptApplication).
THEOREM ResumedOnce == Spec => []ResumeOnce
<1>1. Init => ResumesHeldOnce
  BY DEF Init, ResumesHeldOnce, Held, Backlog, ItemsIn, Running, Parked, ActiveApps, IsActive
<1>2. PoolInv /\ ResumesHeldOnce /\ [Next]_vars => ResumesHeldOnce'
  <2>1. SUFFICES ASSUME PoolInv, ResumesHeldOnce, [Next]_vars PROVE ResumesHeldOnce'
    OBVIOUS
  <2>2. Scheduler!Next \/ Unseen
    BY <2>1, LoopRefines, EnvironmentRefines, UnchangedUnseen DEF Next, vars
  <2>3. QED
    BY <2>1, <2>2, SchedulerHoldsOnce
<1>3. PoolInv /\ ResumesHeldOnce => ResumeOnce
  BY HeldOncePerPlace
<1>4. QED
  BY <1>1, <1>2, <1>3, PoolInvariant, PTL DEF Spec
=============================================================================
