-------------------------- MODULE BrowserPoolProofs --------------------------
(***************************************************************************)
(* Proofs that the pool's invariants hold for every value of the constants *)
(* and whatever signals its environment sends; and, from them, that the    *)
(* loop never sleeps on work it could start, that a rollover loses nothing *)
(* and that a user's applications start in order.                          *)
(***************************************************************************)
EXTENDS BrowserPool, FiniteSetTheorems, SequenceTheorems, TLAPS

-----------------------------------------------------------------------------
(* Lemmas about the application queue.                                     *)

\* RemoveAt drops one element and closes the gap (removeEntry in queue.go
\* relinks the neighbours of the removed entry).
LEMMA RemoveAtElements ==
    ASSUME NEW S, NEW items \in Seq(S), NEW i \in DOMAIN items
    PROVE  /\ RemoveAt(items, i) \in Seq(S)
           /\ DOMAIN RemoveAt(items, i) = 1..(Len(items) - 1)
           /\ \A j \in 1..(Len(items) - 1) :
                  RemoveAt(items, i)[j] = IF j < i THEN items[j] ELSE items[j + 1]
<1> DEFINE before == SubSeq(items, 1, i - 1)
           after  == SubSeq(items, i + 1, Len(items))
<1>1. i \in 1..Len(items) /\ Len(items) \in Nat
  OBVIOUS
<1>2. /\ before \in Seq(S) /\ Len(before) = i - 1
      /\ \A j \in 1..(i - 1) : before[j] = items[j]
  BY <1>1
<1>3. /\ after \in Seq(S) /\ Len(after) = Len(items) - i
      /\ \A j \in 1..(Len(items) - i) : after[j] = items[i + j]
  BY <1>1
<1>4. RemoveAt(items, i) = before \o after
  BY DEF RemoveAt
<1> HIDE DEF before, after
<1>5. /\ before \o after \in Seq(S)
      /\ Len(before \o after) = Len(before) + Len(after)
      /\ \A j \in 1..(Len(before) + Len(after)) :
             (before \o after)[j] = IF j <= Len(before) THEN before[j]
                                    ELSE after[j - Len(before)]
  BY <1>2, <1>3, ConcatProperties
<1>6. Len(before) + Len(after) = Len(items) - 1
  BY <1>1, <1>2, <1>3
<1>7. ASSUME NEW j \in 1..(Len(items) - 1)
      PROVE  RemoveAt(items, i)[j] = IF j < i THEN items[j] ELSE items[j + 1]
  <2>1. CASE j < i
    BY <2>1, <1>1, <1>2, <1>4, <1>5, <1>6
  <2>2. CASE j >= i
    <3>1. j - (i - 1) \in 1..(Len(items) - i) /\ i + (j - (i - 1)) = j + 1
      BY <2>2, <1>1
    <3>2. RemoveAt(items, i)[j] = after[j - (i - 1)]
      BY <2>2, <1>1, <1>2, <1>4, <1>5, <1>6
    <3>3. after[j - (i - 1)] = items[i + (j - (i - 1))]
      BY <3>1, <1>3
    <3>4. QED
      BY <2>2, <3>1, <3>2, <3>3, <1>1
  <2>3. QED
    BY <2>1, <2>2, <1>1
<1>8. QED
  BY <1>1, <1>4, <1>5, <1>6, <1>7, LenProperties

\* Removing an application's entry removes that application and no other.
LEMMA RemoveEntry ==
    ASSUME NEW items \in Seq(Items), OneEntryPerApp(items), NEW i \in DOMAIN items
    PROVE  /\ RemoveAt(items, i) \in Seq(Items)
           /\ AppsIn(RemoveAt(items, i)) = AppsIn(items) \ {AppOf[items[i]]}
           /\ OneEntryPerApp(RemoveAt(items, i))
<1> DEFINE rest == RemoveAt(items, i)
           from(j) == IF j < i THEN j ELSE j + 1
<1>1. /\ rest \in Seq(Items)
      /\ DOMAIN rest = 1..(Len(items) - 1)
      /\ \A j \in DOMAIN rest : rest[j] = items[from(j)]
  BY RemoveAtElements
<1>2. Len(items) \in Nat /\ DOMAIN items = 1..Len(items) /\ i \in 1..Len(items)
  OBVIOUS
<1>3. \A j \in DOMAIN rest : from(j) \in DOMAIN items \ {i}
  BY <1>1, <1>2
<1>4. \A k \in DOMAIN items \ {i} : \E j \in DOMAIN rest : from(j) = k
  <2>1. ASSUME NEW k \in DOMAIN items \ {i}
        PROVE  \E j \in DOMAIN rest : from(j) = k
    <3>1. CASE k < i
      BY <3>1, <2>1, <1>1, <1>2
    <3>2. CASE k > i
      <4>1. k - 1 \in DOMAIN rest /\ from(k - 1) = k
        BY <3>2, <2>1, <1>1, <1>2
      <4>2. QED
        BY <4>1
    <3>3. QED
      BY <3>1, <3>2, <2>1, <1>2
  <2>2. QED
    BY <2>1
<1>5. \A j, k \in DOMAIN rest : from(j) = from(k) => j = k
  BY <1>1, <1>2
<1> HIDE DEF rest, from
<1>6. AppsIn(rest) = AppsIn(items) \ {AppOf[items[i]]}
  <2>1. ASSUME NEW app \in AppsIn(rest)
        PROVE  app \in AppsIn(items) \ {AppOf[items[i]]}
    BY <2>1, <1>1, <1>3 DEF AppsIn, OneEntryPerApp
  <2>2. ASSUME NEW app \in AppsIn(items) \ {AppOf[items[i]]}
        PROVE  app \in AppsIn(rest)
    <3>1. PICK k \in DOMAIN items : app = AppOf[items[k]]
      BY <2>2 DEF AppsIn
    <3>2. k # i
      BY <2>2, <3>1
    <3>3. PICK j \in DOMAIN rest : from(j) = k
      BY <3>2, <1>4
    <3>4. QED
      BY <3>1, <3>3, <1>1 DEF AppsIn
  <2>3. QED
    BY <2>1, <2>2
<1>7. OneEntryPerApp(rest)
  BY <1>1, <1>3, <1>5 DEF OneEntryPerApp
<1>8. QED
  BY <1>1, <1>6, <1>7 DEF rest

\* Enqueueing an application without an entry adds it at the end.
LEMMA AddEntry ==
    ASSUME NEW items \in Seq(Items), OneEntryPerApp(items),
           NEW item \in Items, AppOf[item] \notin AppsIn(items)
    PROVE  /\ Enqueue(items, item) \in Seq(Items)
           /\ AppsIn(Enqueue(items, item)) = AppsIn(items) \cup {AppOf[item]}
           /\ OneEntryPerApp(Enqueue(items, item))
           /\ Enqueue(items, item) = Append(items, item)
<1> DEFINE longer == Append(items, item)
<1>1. Enqueue(items, item) = longer
  BY DEF Enqueue
<1>2. /\ longer \in Seq(Items) /\ Len(items) \in Nat
      /\ DOMAIN items = 1..Len(items)
      /\ DOMAIN longer = 1..(Len(items) + 1)
      /\ \A j \in 1..Len(items) : longer[j] = items[j]
      /\ longer[Len(items) + 1] = item
  OBVIOUS
<1> HIDE DEF longer
<1>3. \A j \in DOMAIN longer : j \in DOMAIN items \/ j = Len(items) + 1
  BY <1>2
<1>4. DOMAIN items \subseteq DOMAIN longer /\ Len(items) + 1 \in DOMAIN longer
  BY <1>2
<1>5. AppsIn(longer) = AppsIn(items) \cup {AppOf[item]}
  <2>1. ASSUME NEW app \in AppsIn(longer)
        PROVE  app \in AppsIn(items) \cup {AppOf[item]}
    BY <2>1, <1>2, <1>3 DEF AppsIn
  <2>2. ASSUME NEW app \in AppsIn(items) \cup {AppOf[item]}
        PROVE  app \in AppsIn(longer)
    <3>1. CASE app = AppOf[item]
      BY <3>1, <1>2, <1>4 DEF AppsIn
    <3>2. CASE app \in AppsIn(items)
      BY <3>2, <1>2, <1>4 DEF AppsIn
    <3>3. QED
      BY <2>2, <3>1, <3>2
  <2>3. QED
    BY <2>1, <2>2
<1>6. OneEntryPerApp(longer)
  <2>1. SUFFICES ASSUME NEW j \in DOMAIN longer, NEW k \in DOMAIN longer,
                        AppOf[longer[j]] = AppOf[longer[k]]
                 PROVE  j = k
    BY DEF OneEntryPerApp
  <2>2. CASE j \in DOMAIN items /\ k \in DOMAIN items
    BY <2>1, <2>2, <1>2 DEF OneEntryPerApp
  <2>3. CASE j \in DOMAIN items /\ k = Len(items) + 1
    BY <2>1, <2>3, <1>2 DEF AppsIn
  <2>4. CASE j = Len(items) + 1 /\ k \in DOMAIN items
    BY <2>1, <2>4, <1>2 DEF AppsIn
  <2>5. QED
    BY <2>2, <2>3, <2>4, <1>3
<1>7. QED
  BY <1>1, <1>2, <1>5, <1>6

-----------------------------------------------------------------------------
(* The part of the pool's state that the handlers change, and what they    *)
(* keep true of it.                                                        *)

CoreType ==
    /\ queue \in Seq(Items)
    /\ queued \subseteq Apps
    /\ active \in [Apps -> Items \cup {NoItem}]
    /\ activeUsers \subseteq Users
    /\ deferred \in [Apps -> Items \cup {NoItem}]
    /\ permits \in Nat

CoreInv ==
    /\ CoreType
    /\ IsFiniteSet(ActiveApps)
    /\ SlotAccounting
    /\ UsersSerialized
    /\ MembershipExact
    /\ DeferredBehindActive

\* A step that leaves the slots and the waiting items alone.
LEMMA CoreUnchanged ==
    ASSUME CoreInv, UNCHANGED <<slots, waiting>>
    PROVE  CoreInv'
BY DEF CoreInv, CoreType, SlotAccounting, UsersSerialized, MembershipExact,
       DeferredBehindActive, ActiveApps, IsActive, slots, waiting

\* A step that changes only which items are queued and deferred keeps the
\* slot accounting and the users.
LEMMA SlotsUnchanged ==
    ASSUME CoreInv, UNCHANGED slots
    PROVE  /\ IsFiniteSet(ActiveApps)' /\ SlotAccounting' /\ UsersSerialized'
           /\ ActiveApps' = ActiveApps
           /\ active' \in [Apps -> Items \cup {NoItem}]
           /\ activeUsers' \subseteq Users
           /\ permits' \in Nat
BY DEF CoreInv, CoreType, SlotAccounting, UsersSerialized, ActiveApps, IsActive, slots

\* enqueueApplication keeps queuedApplications exact.
LEMMA EnqueueKeepsCore ==
    ASSUME CoreInv, NEW item \in Items, EnqueueApplication(item),
           UNCHANGED <<slots, deferred>>
    PROVE  CoreInv'
<1> USE ConstantsAssumption
<1>1. CASE AppOf[item] \in queued
  BY <1>1, CoreUnchanged DEF EnqueueApplication, waiting
<1>2. CASE AppOf[item] \notin queued
  <2>1. /\ queued' = queued \cup {AppOf[item]}
        /\ queue' = Enqueue(queue, item)
    BY <1>2 DEF EnqueueApplication
  <2>2. AppOf[item] \in Apps /\ AppOf[item] \notin AppsIn(queue)
        /\ AppOf[item] \notin ActiveApps
    BY <1>2 DEF CoreInv, MembershipExact
  <2>3. /\ queue' \in Seq(Items)
        /\ AppsIn(queue') = AppsIn(queue) \cup {AppOf[item]}
        /\ OneEntryPerApp(queue')
    BY <2>1, <2>2, AddEntry DEF CoreInv, CoreType, MembershipExact
  <2>4. MembershipExact'
    BY <2>1, <2>2, <2>3 DEF CoreInv, MembershipExact, ActiveApps, IsActive, slots
  <2>5. DeferredBehindActive'
    BY DEF CoreInv, DeferredBehindActive, IsActive, slots
  <2>6. CoreType'
    BY <2>1, <2>2, <2>3, SlotsUnchanged DEF CoreInv, CoreType
  <2>7. QED
    BY <2>4, <2>5, <2>6, SlotsUnchanged DEF CoreInv
<1>3. QED
  BY <1>1, <1>2

\* acceptApplication defers a resume only behind an active application.
LEMMA AcceptKeepsCore ==
    ASSUME CoreInv, NEW item \in Items, AcceptApplication(item), UNCHANGED slots
    PROVE  CoreInv'
<1> USE ConstantsAssumption
<1>1. CASE UNCHANGED waiting
  BY <1>1, CoreUnchanged
<1>2. CASE EnqueueApplication(item) /\ UNCHANGED deferred
  BY <1>2, EnqueueKeepsCore
<1>3. CASE /\ IsResume(item) /\ IsActive(AppOf[item])
           /\ deferred[AppOf[item]] = NoItem
           /\ deferred' = [deferred EXCEPT ![AppOf[item]] = item]
           /\ UNCHANGED <<queue, queued>>
  <2>1. AppOf[item] \in Apps
    OBVIOUS
  <2>2. deferred' \in [Apps -> Items \cup {NoItem}]
    BY <1>3, <2>1 DEF CoreInv, CoreType
  <2>3. DeferredBehindActive'
    BY <1>3, <2>1 DEF CoreInv, CoreType, DeferredBehindActive, IsActive, slots, IsResume
  <2>4. MembershipExact'
    BY <1>3 DEF CoreInv, MembershipExact, ActiveApps, IsActive, slots
  <2>5. CoreType'
    BY <1>3, <2>2, SlotsUnchanged DEF CoreInv, CoreType
  <2>6. QED
    BY <2>3, <2>4, <2>5, SlotsUnchanged DEF CoreInv
<1>4. QED
  BY <1>1, <1>2, <1>3 DEF AcceptApplication, SeenBefore, waiting

\* handleApplicationCancellation removes the key together with the entry.
LEMMA CancelKeepsCore ==
    ASSUME CoreInv, NEW app \in Apps, HandleCancellation(app),
           UNCHANGED <<slots, deferred>>
    PROVE  CoreInv'
<1>1. CASE UNCHANGED <<queue, queued>>
  BY <1>1, CoreUnchanged DEF waiting
<1>2. ASSUME NEW i \in DOMAIN queue, AppOf[queue[i]] = app,
             queue' = RemoveAt(queue, i), queued' = queued \ {app}
      PROVE  CoreInv'
  <2>1. /\ queue' \in Seq(Items)
        /\ AppsIn(queue') = AppsIn(queue) \ {app}
        /\ OneEntryPerApp(queue')
    BY <1>2, RemoveEntry DEF CoreInv, CoreType, MembershipExact
  <2>2. app \notin ActiveApps
    BY <1>2 DEF CoreInv, MembershipExact, AppsIn
  <2>3. MembershipExact'
    BY <1>2, <2>1, <2>2 DEF CoreInv, MembershipExact, ActiveApps, IsActive, slots
  <2>4. DeferredBehindActive'
    BY DEF CoreInv, DeferredBehindActive, IsActive, slots
  <2>5. CoreType'
    BY <1>2, <2>1, SlotsUnchanged DEF CoreInv, CoreType
  <2>6. QED
    BY <2>3, <2>4, <2>5, SlotsUnchanged DEF CoreInv
<1>3. QED
  BY <1>1, <1>2 DEF HandleCancellation

\* settleApplication gives back one permit and frees exactly the users
\* without an active application.
LEMMA SettleKeepsCore ==
    ASSUME CoreInv, NEW app \in Apps, Settle(app)
    PROVE  CoreInv'
<1> USE ConstantsAssumption
<1>1. CASE ~IsActive(app)
  BY <1>1, CoreUnchanged DEF Settle, FreeSlot, FreeUser, Requeue
<1>2. CASE IsActive(app)
  <2> DEFINE item == active[app]
             others == ActiveApps \ {app}
  <2>1. /\ active' = [active EXCEPT ![app] = NoItem]
        /\ activeUsers' = IF \E other \in others : UserOf[active[other]] = UserOf[item]
                          THEN activeUsers ELSE activeUsers \ {UserOf[item]}
        /\ permits' = permits + 1
        /\ deferred' = [deferred EXCEPT ![app] = NoItem]
    BY <1>2 DEF Settle, FreeSlot, FreeUser, Requeue
  <2>2. \/ /\ deferred[app] = NoItem
           /\ queued' = queued \ {AppOf[item]}
           /\ queue' = queue
        \/ /\ deferred[app] # NoItem
           /\ queued' = (queued \ {AppOf[item]}) \cup {AppOf[deferred[app]]}
           /\ queue' = Enqueue(queue, deferred[app])
    BY <1>2 DEF Settle, FreeSlot, FreeUser, Requeue
  <2>3. app \in ActiveApps /\ item \in Items /\ AppOf[item] = app
    BY <1>2 DEF CoreInv, CoreType, MembershipExact, ActiveApps, IsActive
  <2>4. ActiveApps' = others /\ \A other \in others : active'[other] = active[other]
    BY <2>1 DEF CoreInv, CoreType, ActiveApps, IsActive
  <2>5. IsFiniteSet(ActiveApps)' /\ SlotAccounting'
    <3>1. /\ IsFiniteSet(others)
          /\ Cardinality(others) = Cardinality(ActiveApps) - 1
          /\ Cardinality(ActiveApps) \in Nat
      BY <2>3, FS_RemoveElement, FS_CardinalityType DEF CoreInv
    <3>2. QED
      BY <2>1, <2>4, <3>1 DEF CoreInv, CoreType, SlotAccounting
  <2>6. UsersSerialized'
    <3>1. \A other \in others : UserOf[active[other]] # UserOf[item]
      BY <2>3 DEF CoreInv, UsersSerialized
    <3>2. activeUsers' = activeUsers \ {UserOf[item]}
      BY <2>1, <3>1
    <3>3. activeUsers = {UserOf[active[other]] : other \in others} \cup {UserOf[item]}
      BY <2>3 DEF CoreInv, UsersSerialized
    <3>4. activeUsers' = {UserOf[active'[other]] : other \in others}
      BY <2>4, <3>1, <3>2, <3>3
    <3>5. QED
      BY <2>4, <3>4 DEF CoreInv, UsersSerialized
  <2>7. app \notin AppsIn(queue)
    BY <2>3 DEF CoreInv, MembershipExact
  <2>8. /\ queue' \in Seq(Items)
        /\ OneEntryPerApp(queue')
        /\ queued' = AppsIn(queue') \cup others
        /\ AppsIn(queue') \cap others = {}
    <3>1. CASE deferred[app] = NoItem
      BY <3>1, <2>2, <2>3, <2>7 DEF CoreInv, CoreType, MembershipExact
    <3>2. CASE deferred[app] # NoItem
      <4>1. deferred[app] \in Items /\ AppOf[deferred[app]] = app
        BY <3>2 DEF CoreInv, CoreType, DeferredBehindActive
      <4>2. /\ queue' \in Seq(Items)
            /\ AppsIn(queue') = AppsIn(queue) \cup {app}
            /\ OneEntryPerApp(queue')
        BY <3>2, <2>2, <2>7, <4>1, AddEntry DEF CoreInv, CoreType, MembershipExact
      <4>3. QED
        BY <3>2, <2>2, <2>3, <4>1, <4>2 DEF CoreInv, MembershipExact
    <3>3. QED
      BY <3>1, <3>2
  <2>9. MembershipExact'
    BY <2>4, <2>8 DEF CoreInv, MembershipExact
  <2>10. DeferredBehindActive'
    BY <2>1 DEF CoreInv, CoreType, DeferredBehindActive, IsActive, IsResume
  <2>11. CoreType'
    BY <2>1, <2>2, <2>3, <2>8 DEF CoreInv, CoreType, MembershipExact, AppsIn, ActiveApps
  <2>12. QED
    BY <2>5, <2>6, <2>9, <2>10, <2>11 DEF CoreInv
<1>3. QED
  BY <1>1, <1>2

\* A dispatch takes a permit for an application that was queued, of a user
\* without an active one.
LEMMA DispatchKeepsCore ==
    ASSUME CoreInv, Dispatch
    PROVE  CoreInv'
<1> USE ConstantsAssumption
<1>1. PICK i \in DOMAIN queue :
          /\ FirstEligible(i)
          /\ active' = [active EXCEPT ![AppOf[queue[i]]] = queue[i]]
          /\ activeUsers' = activeUsers \cup {UserOf[queue[i]]}
          /\ queue' = RemoveAt(queue, i)
  BY DEF Dispatch
<1> DEFINE item == queue[i]
           app  == AppOf[item]
<1>2. permits > 0 /\ permits' = permits - 1 /\ queued' = queued /\ deferred' = deferred
  BY DEF Dispatch
<1>3. item \in Items /\ app \in Apps /\ UserOf[item] \in Users
  BY DEF CoreInv, CoreType
<1>4. app \in AppsIn(queue) /\ app \notin ActiveApps
  BY DEF CoreInv, MembershipExact, AppsIn
<1>5. /\ ActiveApps' = ActiveApps \cup {app}
      /\ active'[app] = item
      /\ \A other \in ActiveApps : active'[other] = active[other]
  BY <1>1, <1>3, <1>4 DEF CoreInv, CoreType, ActiveApps, IsActive
<1>6. IsFiniteSet(ActiveApps)' /\ SlotAccounting'
  <2>1. /\ IsFiniteSet(ActiveApps \cup {app})
        /\ Cardinality(ActiveApps \cup {app}) = Cardinality(ActiveApps) + 1
        /\ Cardinality(ActiveApps) \in Nat
    BY <1>4, FS_AddElement, FS_CardinalityType DEF CoreInv
  <2>2. QED
    BY <1>2, <1>5, <2>1 DEF CoreInv, CoreType, SlotAccounting
<1>7. UsersSerialized'
  <2>1. UserOf[item] \notin activeUsers
    BY <1>1 DEF FirstEligible
  <2>2. \A other \in ActiveApps : UserOf[active[other]] # UserOf[item]
    BY <2>1 DEF CoreInv, UsersSerialized
  <2>3. activeUsers' = {UserOf[active'[other]] : other \in ActiveApps \cup {app}}
    BY <1>1, <1>4, <1>5 DEF CoreInv, UsersSerialized
  <2>4. QED
    BY <1>5, <2>2, <2>3 DEF CoreInv, UsersSerialized
<1>8. /\ queue' \in Seq(Items)
      /\ AppsIn(queue') = AppsIn(queue) \ {app}
      /\ OneEntryPerApp(queue')
  BY <1>1, RemoveEntry DEF CoreInv, CoreType, MembershipExact
<1>9. MembershipExact'
  <2>1. \A other \in ActiveApps' : AppOf[active'[other]] = other
    BY <1>4, <1>5 DEF CoreInv, MembershipExact
  <2>2. queued' = AppsIn(queue') \cup ActiveApps' /\ AppsIn(queue') \cap ActiveApps' = {}
    BY <1>2, <1>4, <1>5, <1>8 DEF CoreInv, MembershipExact
  <2>3. QED
    BY <1>8, <2>1, <2>2 DEF MembershipExact
<1>10. DeferredBehindActive'
  BY <1>1, <1>2, <1>3, <1>4 DEF CoreInv, CoreType, DeferredBehindActive, IsActive, ActiveApps
<1>11. CoreType'
  BY <1>1, <1>2, <1>3, <1>8 DEF CoreInv, CoreType
<1>12. QED
  BY <1>6, <1>7, <1>9, <1>10, <1>11 DEF CoreInv

\* What the new run rebuilds at a rollover is what the old run maintained.
LEMMA ContinueRestores ==
    ASSUME CoreInv, ContinueAsNew
    PROVE  /\ UNCHANGED <<slots, waiting>>
           /\ pc' = "top"
<1> USE ConstantsAssumption
<1>1. queue' = queue
  BY DEF ContinueAsNew, RestoreSlots, NewApplicationQueue, CoreInv, MembershipExact
<1>2. {AppOf[active[app]] : app \in ActiveApps} = ActiveApps
  BY DEF CoreInv, MembershipExact
<1>3. queued' = queued
  BY <1>2 DEF ContinueAsNew, RestoreSlots, CoreInv, MembershipExact
<1>4. Cardinality(ActiveApps) \in Nat
  BY FS_CardinalityType DEF CoreInv
<1>5. permits' = permits /\ ~(Cardinality(ActiveApps) > MaxConcurrent)
  BY <1>4 DEF ContinueAsNew, RestoreSlots, CoreInv, CoreType, SlotAccounting
<1>6. activeUsers' = activeUsers
  BY DEF ContinueAsNew, RestoreSlots, CoreInv, UsersSerialized
<1>7. QED
  BY <1>1, <1>3, <1>5, <1>6 DEF ContinueAsNew, RestoreSlots, slots, waiting

-----------------------------------------------------------------------------
(* Every step of the pool and of its environment keeps the invariant.      *)

\* A fresh pool holds every permit and no work (NewWorkflowQueue,
\* NewWorkflowSemaphore and the workflow's input without pending work).
LEMMA InitPoolInv == Init => PoolInv
<1> SUFFICES ASSUME Init PROVE PoolInv
  OBVIOUS
<1> USE ConstantsAssumption
<1>1. ActiveApps = {} /\ AppsIn(queue) = {} /\ OneEntryPerApp(queue)
  BY DEF Init, ActiveApps, IsActive, AppsIn, OneEntryPerApp
<1>2. IsFiniteSet(ActiveApps) /\ Cardinality(ActiveApps) = 0
  BY <1>1, FS_EmptySet
<1>3. TypeOK
  BY DEF Init, TypeOK, Positions
<1>4. SlotAccounting /\ UsersSerialized /\ MembershipExact /\ DeferredBehindActive
  BY <1>1, <1>2 DEF Init, SlotAccounting, UsersSerialized, MembershipExact,
     DeferredBehindActive
<1>5. QED
  BY <1>2, <1>3, <1>4 DEF PoolInv

\* The conjuncts of the type invariant that the core does not hold.
RestType ==
    /\ pc \in Positions
    /\ processed \subseteq UserActions
    /\ executing \in [Items -> Nat]
    /\ queueSignals \in Seq(Items)
    /\ cancelSignals \in Seq(Apps)
    /\ settledSignals \in Seq(Apps)
    /\ completions \in Seq(Apps)
    /\ cancelOutbox \subseteq Items
    /\ sent \in [Items -> Nat]
    /\ rollovers \in Nat

\* The invariant is the types of the channels and the core facts, so that a
\* step is checked against the half it can disturb.
LEMMA PoolInvSplit == PoolInv <=> RestType /\ CoreInv
BY DEF PoolInv, CoreInv, CoreType, TypeOK, RestType

\* Receiving a queue signal keeps the types and accepts the application.
LEMMA TakeQueueSignalKeeps ==
    ASSUME PoolInv, TakeQueueSignal, pc' \in Positions
    PROVE  PoolInv'
<1> USE ConstantsAssumption
<1>1. queueSignals \in Seq(Items) /\ queueSignals # <<>>
  BY DEF PoolInv, TypeOK, TakeQueueSignal
<1>2. Head(queueSignals) \in Items /\ Tail(queueSignals) \in Seq(Items)
  BY <1>1, HeadTailProperties
<1>3. CoreInv'
  BY <1>2, AcceptKeepsCore, PoolInvSplit DEF TakeQueueSignal
<1>4. processed' \subseteq UserActions
  BY <1>2 DEF TakeQueueSignal, AcceptApplication, SeenBefore, IsResume, PoolInv, TypeOK
<1>5. RestType'
  BY <1>2, <1>4 DEF RestType, PoolInv, TypeOK, TakeQueueSignal, bounds
<1>6. QED
  BY <1>3, <1>5, PoolInvSplit DEF PoolInv, RestType, CoreInv, CoreType, TypeOK

\* Receiving a cancel signal keeps the types and drops the queued entry.
LEMMA TakeCancelSignalKeeps ==
    ASSUME PoolInv, TakeCancelSignal, pc' \in Positions
    PROVE  PoolInv'
<1>1. cancelSignals \in Seq(Apps) /\ cancelSignals # <<>>
  BY DEF PoolInv, TypeOK, TakeCancelSignal
<1>2. Head(cancelSignals) \in Apps /\ Tail(cancelSignals) \in Seq(Apps)
  BY <1>1, HeadTailProperties
<1>3. CoreInv'
  BY <1>2, CancelKeepsCore, PoolInvSplit DEF TakeCancelSignal
<1>4. cancelOutbox' \subseteq Items
  BY <1>2 DEF TakeCancelSignal, HandleCancellation, IsActive, PoolInv, TypeOK
<1>5. RestType'
  BY <1>2, <1>4 DEF RestType, PoolInv, TypeOK, TakeCancelSignal, bounds
<1>6. QED
  BY <1>3, <1>5 DEF PoolInv, RestType, CoreInv, CoreType, TypeOK

\* Receiving a settlement signal keeps the types and settles the application.
LEMMA TakeSettledSignalKeeps ==
    ASSUME PoolInv, TakeSettledSignal, pc' \in Positions
    PROVE  PoolInv'
<1>1. settledSignals \in Seq(Apps) /\ settledSignals # <<>>
  BY DEF PoolInv, TypeOK, TakeSettledSignal
<1>2. Head(settledSignals) \in Apps /\ Tail(settledSignals) \in Seq(Apps)
  BY <1>1, HeadTailProperties
<1>3. CoreInv'
  BY <1>2, SettleKeepsCore, PoolInvSplit DEF TakeSettledSignal
<1>4. RestType'
  BY <1>2 DEF RestType, PoolInv, TypeOK, TakeSettledSignal, bounds
<1>5. QED
  BY <1>3, <1>4 DEF PoolInv, RestType, CoreInv, CoreType, TypeOK

\* Receiving a child's completion settles its application as a signal does.
LEMMA TakeCompletionKeeps ==
    ASSUME PoolInv, TakeCompletion, pc' \in Positions
    PROVE  PoolInv'
<1>1. completions \in Seq(Apps) /\ completions # <<>>
  BY DEF PoolInv, TypeOK, TakeCompletion
<1>2. Head(completions) \in Apps /\ Tail(completions) \in Seq(Apps)
  BY <1>1, HeadTailProperties
<1>3. CoreInv'
  BY <1>2, SettleKeepsCore, PoolInvSplit DEF TakeCompletion
<1>4. RestType'
  BY <1>2 DEF RestType, PoolInv, TypeOK, TakeCompletion, bounds
<1>5. QED
  BY <1>3, <1>4 DEF PoolInv, RestType, CoreInv, CoreType, TypeOK

\* A step that touches neither slots nor waiting items needs its types only.
LEMMA OutsideCoreKeeps ==
    ASSUME PoolInv, UNCHANGED <<slots, waiting>>, RestType'
    PROVE  PoolInv'
BY CoreUnchanged, PoolInvSplit DEF PoolInv, RestType, CoreInv, CoreType, TypeOK

\* A step of the workflow loop.
LEMMA LoopKeepsPoolInv ==
    ASSUME PoolInv, Loop
    PROVE  PoolInv'
<1> USE ConstantsAssumption
<1>0. RestType
  BY PoolInvSplit
<1>1. CASE BeginRollover
  <2>1. RestType'
    BY <1>0, <1>1 DEF RestType, BeginRollover, Goto, Positions, channels
  <2>2. QED
    BY <1>1, <2>1, OutsideCoreKeeps DEF BeginRollover, Goto
<1>2. CASE SkipRollover
  <2>1. RestType'
    BY <1>0, <1>2 DEF RestType, SkipRollover, Goto, Positions, channels, bounds
  <2>2. QED
    BY <1>2, <2>1, OutsideCoreKeeps DEF SkipRollover, Goto
<1>3. CASE Dispatch
  <2>1. CoreInv'
    BY <1>3, DispatchKeepsCore, PoolInvSplit
  <2>2. RestType'
    BY <1>0, <1>3 DEF RestType, Dispatch, channels, bounds, PoolInv, TypeOK
  <2>3. QED
    BY <2>1, <2>2 DEF PoolInv, RestType, CoreInv, CoreType, TypeOK
<1>4. CASE DispatchDone
  <2>1. RestType'
    BY <1>0, <1>4 DEF RestType, DispatchDone, Goto, Positions, channels, bounds
  <2>2. QED
    BY <1>4, <2>1, OutsideCoreKeeps DEF DispatchDone, Goto
<1>5. CASE Select
  <2>1. pc' \in Positions
    BY <1>5 DEF Select, Positions
  <2>2. TakeQueueSignal \/ TakeCancelSignal \/ TakeSettledSignal \/ TakeCompletion
    BY <1>5 DEF Select
  <2>3. QED
    BY <2>1, <2>2, TakeQueueSignalKeeps, TakeCancelSignalKeeps,
       TakeSettledSignalKeeps, TakeCompletionKeeps
<1>6. CASE SelectTimer
  <2>1. RestType'
    BY <1>0, <1>6 DEF RestType, SelectTimer, Goto, Positions, channels
  <2>2. QED
    BY <1>6, <2>1, OutsideCoreKeeps DEF SelectTimer, Goto
<1>7. CASE DrainQueue
  <2>1. CASE TakeQueueSignal /\ UNCHANGED pc
    BY <1>0, <2>1, TakeQueueSignalKeeps DEF RestType
  <2>2. CASE Goto("drainQueue", "drainCancel") /\ UNCHANGED bounds
    <3>1. RestType'
      BY <1>0, <2>2 DEF RestType, Goto, Positions, channels, bounds
    <3>2. QED
      BY <2>2, <3>1, OutsideCoreKeeps DEF Goto
  <2>3. QED
    BY <1>7, <2>1, <2>2 DEF DrainQueue
<1>8. CASE DrainCancel
  <2>1. CASE TakeCancelSignal /\ UNCHANGED pc
    BY <1>0, <2>1, TakeCancelSignalKeeps DEF RestType
  <2>2. CASE Goto("drainCancel", "drainSettled") /\ UNCHANGED bounds
    <3>1. RestType'
      BY <1>0, <2>2 DEF RestType, Goto, Positions, channels, bounds
    <3>2. QED
      BY <2>2, <3>1, OutsideCoreKeeps DEF Goto
  <2>3. QED
    BY <1>8, <2>1, <2>2 DEF DrainCancel
<1>9. CASE DrainSettled
  <2>1. CASE TakeSettledSignal /\ UNCHANGED pc
    BY <1>0, <2>1, TakeSettledSignalKeeps DEF RestType
  <2>2. CASE Goto("drainSettled", "drainCompleted") /\ UNCHANGED bounds
    <3>1. RestType'
      BY <1>0, <2>2 DEF RestType, Goto, Positions, channels, bounds
    <3>2. QED
      BY <2>2, <3>1, OutsideCoreKeeps DEF Goto
  <2>3. QED
    BY <1>9, <2>1, <2>2 DEF DrainSettled
<1>10. CASE DrainCompleted
  <2>1. CASE TakeCompletion /\ UNCHANGED pc
    BY <1>0, <2>1, TakeCompletionKeeps DEF RestType
  <2>2. CASE Goto("drainCompleted", "continue") /\ UNCHANGED bounds
    <3>1. RestType'
      BY <1>0, <2>2 DEF RestType, Goto, Positions, channels, bounds
    <3>2. QED
      BY <2>2, <3>1, OutsideCoreKeeps DEF Goto
  <2>3. QED
    BY <1>10, <2>1, <2>2 DEF DrainCompleted
<1>11. CASE ContinueAsNew
  <2>1. UNCHANGED <<slots, waiting>> /\ pc' = "top"
    BY <1>11, ContinueRestores, PoolInvSplit
  <2>2. RestType'
    BY <1>0, <1>11, <2>1 DEF RestType, ContinueAsNew, Positions, channels, bounds
  <2>3. QED
    BY <2>1, <2>2, OutsideCoreKeeps
<1>12. QED
  BY <1>1, <1>2, <1>3, <1>4, <1>5, <1>6, <1>7, <1>8, <1>9, <1>10, <1>11 DEF Loop

\* A step of the environment touches only channels.
LEMMA EnvironmentKeepsPoolInv ==
    ASSUME PoolInv, Environment
    PROVE  PoolInv'
<1> USE ConstantsAssumption
<1>0. RestType
  BY PoolInvSplit
<1>1. ASSUME NEW item \in Items, SignalQueue(item) PROVE PoolInv'
  <2>1. RestType'
    BY <1>0, <1>1 DEF RestType, SignalQueue
  <2>2. QED
    BY <1>1, <2>1, OutsideCoreKeeps DEF SignalQueue
<1>2. ASSUME NEW item \in Items, ChildReturns(item) PROVE PoolInv'
  <2>1. executing' \in [Items -> Nat]
    BY <1>0, <1>2 DEF RestType, ChildReturns
  <2>2. completions' \in Seq(Apps)
    BY <1>0, <1>2 DEF RestType, ChildReturns
  <2>3. RestType'
    BY <1>0, <1>2, <2>1, <2>2 DEF RestType, ChildReturns, bounds
  <2>4. QED
    BY <1>2, <2>3, OutsideCoreKeeps DEF ChildReturns
<1>3. ASSUME NEW item \in Items, TransferCancel(item) PROVE PoolInv'
  <2>1. RestType'
    BY <1>0, <1>3 DEF RestType, TransferCancel, channels, bounds
  <2>2. QED
    BY <1>3, <2>1, OutsideCoreKeeps DEF TransferCancel
<1>4. ASSUME NEW app \in Apps, SignalCancel(app) PROVE PoolInv'
  <2>1. RestType'
    BY <1>0, <1>4 DEF RestType, SignalCancel, bounds
  <2>2. QED
    BY <1>4, <2>1, OutsideCoreKeeps DEF SignalCancel
<1>5. ASSUME NEW app \in Apps, SignalSettled(app) PROVE PoolInv'
  <2>1. RestType'
    BY <1>0, <1>5 DEF RestType, SignalSettled, bounds
  <2>2. QED
    BY <1>5, <2>1, OutsideCoreKeeps DEF SignalSettled
<1>6. QED
  BY <1>1, <1>2, <1>3, <1>4, <1>5 DEF Environment

\* A stuttering step keeps the invariant.
LEMMA StutterKeepsPoolInv ==
    ASSUME PoolInv, UNCHANGED vars
    PROVE  PoolInv'
<1>1. RestType'
  BY PoolInvSplit DEF RestType, vars, channels, bounds
<1>2. QED
  BY <1>1, OutsideCoreKeeps DEF vars

-----------------------------------------------------------------------------
(* The theorems.                                                           *)

\* The inductive invariant of the pool holds in every reachable state.
THEOREM PoolInvariant == Spec => []PoolInv
<1>1. Init => PoolInv
  BY InitPoolInv
<1>2. PoolInv /\ [Next]_vars => PoolInv'
  BY LoopKeepsPoolInv, EnvironmentKeepsPoolInv, StutterKeepsPoolInv DEF Next
<1>3. QED
  BY <1>1, <1>2, PTL DEF Spec

\* The pool's variables keep their types.
THEOREM TypeCorrect == Spec => []TypeOK
<1>1. PoolInv => TypeOK
  BY DEF PoolInv
<1>2. QED
  BY <1>1, PoolInvariant, PTL

\* Whatever signals arrive, and however often a settlement is repeated, free
\* permits and active applications add up to the capacity: no slot leaks and
\* none is released twice (workflow.go settleApplication).
THEOREM SlotsAccounted == Spec => []SlotAccounting
<1>1. PoolInv => SlotAccounting
  BY DEF PoolInv
<1>2. QED
  BY <1>1, PoolInvariant, PTL

\* At most one active application per user, and activeUsers says exactly which
\* users have one (workflow.go dispatch loop and settleApplication).
THEOREM OneActivePerUser == Spec => []UsersSerialized
<1>1. PoolInv => UsersSerialized
  BY DEF PoolInv
<1>2. QED
  BY <1>1, PoolInvariant, PTL

\* The duplicate check of enqueueApplication is exact, and no application is
\* both queued and active or queued twice.
THEOREM MembershipIsExact == Spec => []MembershipExact
<1>1. PoolInv => MembershipExact
  BY DEF PoolInv
<1>2. QED
  BY <1>1, PoolInvariant, PTL

\* No deferred resume is stranded: each waits for the settlement of an active
\* application, which enqueues it.
THEOREM DeferredNotStranded == Spec => []DeferredBehindActive
<1>1. PoolInv => DeferredBehindActive
  BY DEF PoolInv
<1>2. QED
  BY <1>1, PoolInvariant, PTL

-----------------------------------------------------------------------------
(* The dispatch loop.                                                      *)

\* The loop enters Select only from a dispatch that found nothing to start,
\* and nothing that happens while it sleeps there makes anything startable.
LEMMA NoMissedDispatchStep ==
    ASSUME NoMissedDispatch, [Next]_vars
    PROVE  NoMissedDispatch'
<1>1. CASE pc' # "select"
  BY <1>1 DEF NoMissedDispatch
<1>2. CASE DispatchDone
  BY <1>2 DEF NoMissedDispatch, DispatchDone, Goto, slots, waiting
<1>3. CASE Environment
  <2>1. UNCHANGED <<pc, slots, waiting>>
    BY <1>3 DEF Environment, SignalQueue, ChildReturns, TransferCancel, SignalCancel,
       SignalSettled
  <2>2. QED
    BY <2>1 DEF NoMissedDispatch, slots, waiting
<1>4. CASE UNCHANGED vars
  BY <1>4 DEF NoMissedDispatch, vars, slots, waiting
<1>5. ASSUME Loop, pc' = "select" PROVE DispatchDone
  BY <1>5 DEF Loop, BeginRollover, SkipRollover, Dispatch, Select, SelectTimer,
     DrainQueue, DrainCancel, DrainSettled, DrainCompleted, ContinueAsNew, Goto
<1>6. QED
  BY <1>1, <1>2, <1>3, <1>4, <1>5 DEF Next

\* The workflow never blocks with a free permit and an eligible application.
THEOREM NothingMissed == Spec => []NoMissedDispatch
<1>1. Init => NoMissedDispatch
  BY DEF Init, NoMissedDispatch
<1>2. NoMissedDispatch /\ [Next]_vars => NoMissedDispatch'
  BY NoMissedDispatchStep
<1>3. QED
  BY <1>1, <1>2, PTL DEF Spec

-----------------------------------------------------------------------------
(* The rollover.                                                           *)

\* The channels drained so far are still empty: no signal is applied between
\* the drain and the Continue-As-New error.
Drained ==
    /\ pc \in {"drainCancel", "drainSettled", "drainCompleted", "continue"}
           => queueSignals = <<>>
    /\ pc \in {"drainSettled", "drainCompleted", "continue"} => cancelSignals = <<>>
    /\ pc \in {"drainCompleted", "continue"} => settledSignals = <<>>
    /\ pc = "continue" => completions = <<>>

\* Each drain step leaves the channels before it alone.
LEMMA DrainedStep ==
    ASSUME Drained, [Next]_vars
    PROVE  Drained'
<1>1. CASE pc' \in {"top", "dispatch", "select", "drainQueue", "failed"}
  BY <1>1 DEF Drained
<1>2. CASE DrainQueue
  BY <1>2 DEF DrainQueue, Drained, Goto, TakeQueueSignal, channels
<1>3. CASE DrainCancel
  BY <1>3 DEF DrainCancel, Drained, Goto, TakeCancelSignal, channels
<1>4. CASE DrainSettled
  BY <1>4 DEF DrainSettled, Drained, Goto, TakeSettledSignal, channels
<1>5. CASE DrainCompleted
  BY <1>5 DEF DrainCompleted, Drained, Goto, TakeCompletion, channels
<1>6. CASE UNCHANGED vars
  BY <1>6 DEF Drained, vars, channels
<1>7. ASSUME Environment PROVE pc' = "select"
  BY <1>7 DEF Environment, SignalQueue, ChildReturns, TransferCancel, SignalCancel,
     SignalSettled
<1>8. ASSUME BeginRollover \/ SkipRollover \/ Dispatch \/ DispatchDone \/ Select
             \/ SelectTimer \/ ContinueAsNew
      PROVE  pc' \in {"top", "dispatch", "select", "drainQueue", "failed"}
  BY <1>8 DEF BeginRollover, SkipRollover, Dispatch, DispatchDone, Select, SelectTimer,
     ContinueAsNew, Goto
<1>9. QED
  BY <1>1, <1>2, <1>3, <1>4, <1>5, <1>6, <1>7, <1>8 DEF Next, Loop

\* A rollover hands every signal, completion, queued, active and deferred
\* item, processed action and permit of the old run to the new one
\* (continueAsNewBrowserPool and the restore at the start of the workflow).
THEOREM RolloverLosesNothing == Spec => RolloverLossless
<1>1. Init => Drained
  BY DEF Init, Drained
<1>2. Drained /\ [Next]_vars => Drained'
  BY DrainedStep
<1>3. PoolInv /\ Drained /\ [Next]_vars => [RolloverStep]_vars
  <2>1. SUFFICES ASSUME PoolInv, Drained, Next, pc = "continue" PROVE RolloverStep
    BY DEF RolloverStep
  <2>2. ContinueAsNew
    BY <2>1 DEF Next, Loop, Environment, BeginRollover, SkipRollover, Dispatch,
       DispatchDone, Select, SelectTimer, DrainQueue, DrainCancel, DrainSettled,
       DrainCompleted, Goto, SignalQueue, ChildReturns, TransferCancel, SignalCancel,
       SignalSettled
  <2>3. UNCHANGED <<slots, waiting>> /\ pc' = "top"
    BY <2>1, <2>2, ContinueRestores, PoolInvSplit
  <2>4. channels = <<<<>>, <<>>, <<>>, <<>>>>
    BY <2>1 DEF Drained, channels
  <2>5. UNCHANGED processed
    BY <2>2 DEF ContinueAsNew
  <2>6. QED
    BY <2>3, <2>4, <2>5 DEF RolloverStep, slots, waiting
<1>4. QED
  BY <1>1, <1>2, <1>3, PoolInvariant, PTL DEF Spec, RolloverLossless

-----------------------------------------------------------------------------
(* The order of a user's applications.                                     *)

\* A dispatch starts one item, the first of its user in the queue; no other
\* step makes an item active.
LEMMA StartsInOrderStep ==
    ASSUME PoolInv, Next
    PROVE  StartsInOrder
<1> USE ConstantsAssumption
<1>1. SUFFICES ASSUME NEW i \in DOMAIN queue, NEW j \in DOMAIN queue, i < j,
                      UserOf[queue[i]] = UserOf[queue[j]],
                      active'[AppOf[queue[j]]] = queue[j]
               PROVE  active[AppOf[queue[j]]] = queue[j]
  BY DEF StartsInOrder
<1> DEFINE app == AppOf[queue[j]]
<1>2. /\ queue[j] \in Items /\ app \in Apps /\ queue[j] # NoItem
      /\ active \in [Apps -> Items \cup {NoItem}]
      /\ OneEntryPerApp(queue)
  <2>1. /\ queue \in Seq(Items) /\ active \in [Apps -> Items \cup {NoItem}]
        /\ OneEntryPerApp(queue)
    BY DEF PoolInv, TypeOK, MembershipExact
  <2>2. QED
    BY <2>1
<1>3. CASE Dispatch
  <2>1. PICK k \in DOMAIN queue :
            /\ FirstEligible(k)
            /\ active' = [active EXCEPT ![AppOf[queue[k]]] = queue[k]]
    BY <1>3 DEF Dispatch
  <2>2. CASE AppOf[queue[k]] # app
    BY <2>1, <2>2, <1>1, <1>2
  <2>3. CASE AppOf[queue[k]] = app
    <3>1. k = j
      BY <2>3, <1>2 DEF OneEntryPerApp
    <3>2. QED
      BY <3>1, <2>1, <1>1 DEF FirstEligible
  <2>4. QED
    BY <2>2, <2>3
<1>4. ASSUME NEW other \in Apps, Settle(other) PROVE active[app] = queue[j]
  <2>1. active' = active \/ active' = [active EXCEPT ![other] = NoItem]
    BY <1>4 DEF Settle, FreeSlot, FreeUser, Requeue, slots
  <2>2. QED
    BY <2>1, <1>1, <1>2
<1>5. CASE TakeSettledSignal \/ TakeCompletion
  <2>1. settledSignals \in Seq(Apps) /\ completions \in Seq(Apps)
    BY DEF PoolInv, TypeOK
  <2>2. PICK other \in Apps : Settle(other)
    BY <1>5, <2>1, HeadTailProperties DEF TakeSettledSignal, TakeCompletion
  <2>3. QED
    BY <2>2, <1>4
<1>6. CASE UNCHANGED active
  BY <1>6, <1>1
<1>7. UNCHANGED active \/ Dispatch \/ TakeSettledSignal \/ TakeCompletion
  <2>1. ASSUME TakeQueueSignal \/ TakeCancelSignal PROVE UNCHANGED active
    BY <2>1 DEF TakeQueueSignal, TakeCancelSignal, slots
  <2>2. ASSUME NEW from, NEW to, Goto(from, to) PROVE UNCHANGED active
    BY <2>2 DEF Goto, slots
  <2>3. ASSUME Environment PROVE UNCHANGED active
    BY <2>3 DEF Environment, SignalQueue, ChildReturns, TransferCancel, SignalCancel,
       SignalSettled, slots
  <2>4. QED
    BY <2>1, <2>2, <2>3 DEF Next, Loop, BeginRollover, SkipRollover, DispatchDone,
       Select, SelectTimer, DrainQueue, DrainCancel, DrainSettled, DrainCompleted,
       ContinueAsNew
<1>8. QED
  BY <1>3, <1>5, <1>6, <1>7

\* Applications of one user start in the order they were queued.
THEOREM UserOrderKept == Spec => UserFIFO
<1>1. PoolInv /\ [Next]_vars => [StartsInOrder]_vars
  BY StartsInOrderStep
<1>2. QED
  BY <1>1, PoolInvariant, PTL DEF Spec, UserFIFO
=============================================================================
