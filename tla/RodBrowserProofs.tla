-------------------------- MODULE RodBrowserProofs --------------------------
(***************************************************************************)
(* Proofs about RodBrowser, for any number of session objects, provider    *)
(* ids, tabs and operations in flight.  One fact carries all of it: the    *)
(* only session object that is not closed is the one the worker's session  *)
(* map holds.  A relaunch, which any operation may cause on the object it  *)
(* looked up earlier, is refused on a closed object; so whatever it opens  *)
(* is behind the handle, where the next close finds it.                    *)
(***************************************************************************)
EXTENDS RodBrowser, TLAPS

\* The absent handle is no session object.
NoneIsNoObject == None \notin Objects

\* Only the object behind the handle is open, and only an open one lives.
OpenIsHandle ==
    \A o \in Objects : /\ ~object[o].closed => o = handle
                       /\ object[o].live => ~object[o].closed

\* An operation under way holds a session object.
HoldsObject == \A c \in Calls : operation[c].step # "idle" => operation[c].object \in Objects

RodInv == TypeOK /\ HoldsObject /\ OpenIsHandle /\ RowNamesIncarnation /\ TagsOfThisTab

-----------------------------------------------------------------------------
(* One session object at a time is replaced by another.                    *)

\* What an object may become without harm to the others: it is of its type,
\* it is behind the handle or closed, and its tags are of its tab.
Sound(new) ==
    /\ new \in Object
    /\ new.live => ~new.closed
    /\ ~new.closed /\ ~new.adrift =>
         new.tags \in {None, new.tab} /\ new.files \in {None, new.tab}

\* A gone object, and one just opened, are sound.
LEMMA GoneIsSound == Sound(Gone) /\ Gone.closed
BY DEF Sound, Gone, Object

LEMMA OpenedIsSound ==
    ASSUME NEW id \in Ids, NEW p \in Tabs
    PROVE  Sound(Opened(id, p)) /\ ~Opened(id, p).closed /\ Opened(id, p).id = id
BY DEF Sound, Opened, Object

\* The objects of the invariant are sound.
LEMMA ObjectsSound ==
    ASSUME RodInv, NEW o \in Objects
    PROVE  Sound(object[o])
BY DEF RodInv, TypeOK, OpenIsHandle, TagsOfThisTab, Sound

\* The invariant after the object behind the handle was replaced, and the row
\* saved to match it.
LEMMA ReplacedObject ==
    ASSUME RodInv, NEW o \in Objects, NEW new, Sound(new),
           object' = [object EXCEPT ![o] = new],
           o = handle \/ new.closed,
           UNCHANGED handle,
           session' \in [id : Ids \cup {None}, active : BOOLEAN, pending : BOOLEAN],
           session' = session \/ o = handle,
           o = handle /\ ~new.closed => session'.active /\ session'.id = new.id
    PROVE  /\ object' \in [Objects -> Object]
           /\ (OpenIsHandle /\ RowNamesIncarnation /\ TagsOfThisTab)'
<1>1. object' \in [Objects -> Object]
  BY DEF RodInv, TypeOK, Sound
<1>2. \A x \in Objects : object'[x] = IF x = o THEN new ELSE object[x]
  BY DEF RodInv, TypeOK
<1>3. OpenIsHandle'
  BY <1>2 DEF RodInv, OpenIsHandle, Sound
<1>4. TagsOfThisTab'
  BY <1>2 DEF RodInv, TagsOfThisTab, Sound
<1>5. RowNamesIncarnation'
  <2>1. CASE handle = o
    BY <2>1, <1>2 DEF RowNamesIncarnation
  <2>2. CASE handle # o
    <3>1. handle' # None => handle' \in Objects /\ object'[handle'] = object[handle]
      BY <2>2, <1>2 DEF RodInv, TypeOK
    <3> QED
      BY <3>1, <2>2 DEF RodInv, RowNamesIncarnation
  <2> QED
    BY <2>1, <2>2
<1> QED
  BY <1>1, <1>3, <1>4, <1>5

\* Sound replacements keep the whole invariant, if the operations stay sound.
OperationsSound ==
    /\ operation \in [Calls -> [step : {"idle", "check", "act"}, object : Objects \cup {None}]]
    /\ HoldsObject

LEMMA InvariantKept ==
    ASSUME RodInv, NEW o \in Objects, NEW new, Sound(new),
           object' = [object EXCEPT ![o] = new],
           o = handle \/ new.closed,
           UNCHANGED handle, OperationsSound',
           session' \in [id : Ids \cup {None}, active : BOOLEAN, pending : BOOLEAN],
           session' = session \/ o = handle,
           o = handle /\ ~new.closed => session'.active /\ session'.id = new.id
    PROVE  RodInv'
<1>1. object' \in [Objects -> Object] /\ (OpenIsHandle /\ RowNamesIncarnation /\ TagsOfThisTab)'
  BY ReplacedObject
<1>2. TypeOK' /\ HoldsObject'
  BY <1>1 DEF RodInv, TypeOK, OperationsSound
<1> QED
  BY <1>1, <1>2 DEF RodInv

\* Nothing but the operations changes.
LEMMA OperationsOnly ==
    ASSUME RodInv, UNCHANGED <<session, handle, object>>, OperationsSound'
    PROVE  RodInv'
<1>1. TypeOK' /\ HoldsObject'
  BY DEF RodInv, TypeOK, OperationsSound
<1>2. (OpenIsHandle /\ RowNamesIncarnation /\ TagsOfThisTab)'
  BY DEF RodInv, OpenIsHandle, RowNamesIncarnation, TagsOfThisTab
<1> QED
  BY <1>1, <1>2 DEF RodInv

LEMMA OperationsNow ==
    ASSUME RodInv
    PROVE  OperationsSound
BY DEF RodInv, TypeOK, OperationsSound

LEMMA OperationDone ==
    ASSUME RodInv, NEW c \in Calls, Done(c)
    PROVE  OperationsSound'
BY DEF RodInv, TypeOK, HoldsObject, OperationsSound, Done, NoOperation

-----------------------------------------------------------------------------
(* What a health check may do to an object it finds open.                  *)

\* The three outcomes of ensureHealthy on a browser that does not answer: in
\* each the object was open, and so is the one behind the handle.
LEMMA HealthCheck ==
    ASSUME RodInv, NEW o \in Objects, UNCHANGED handle, OperationsSound',
           Relaunch(o) \/ RelaunchFails(o) \/ SaveRelaunchedFails(o)
    PROVE  RodInv'
<1>1. o = handle
  BY DEF RodInv, OpenIsHandle, Relaunch, RelaunchFails, SaveRelaunchedFails
<1>2. session.pending \in BOOLEAN /\ session.id \in Ids \cup {None} /\ session.active \in BOOLEAN
      /\ session \in [id : Ids \cup {None}, active : BOOLEAN, pending : BOOLEAN]
  BY DEF RodInv, TypeOK
<1>3. CASE Relaunch(o)
  <2>1. PICK id \in Ids, p \in Tabs :
            object' = [object EXCEPT ![o] = Opened(id, p)] /\ Save(id, FALSE)
    BY <1>3 DEF Relaunch
  <2>2. session' = [id |-> id, active |-> TRUE, pending |-> FALSE]
    BY <2>1 DEF Save
  <2> QED
    BY <1>1, <2>1, <2>2, OpenedIsSound, InvariantKept
<1>4. CASE RelaunchFails(o)
  <2> DEFINE new == [object[o] EXCEPT !.live = FALSE, !.closed = TRUE, !.tab = None]
  <2>1. Sound(new) /\ new.closed
    BY ObjectsSound DEF Sound, Object
  <2>2. object' = [object EXCEPT ![o] = new] /\ session' = session
    BY <1>4 DEF RelaunchFails
  <2> HIDE DEF new
  <2> QED
    BY <1>1, <1>2, <2>1, <2>2, InvariantKept
<1>5. CASE SaveRelaunchedFails(o)
  <2>1. object' = [object EXCEPT ![o] = Gone]
    BY <1>5 DEF SaveRelaunchedFails
  <2>2. session' \in [id : Ids \cup {None}, active : BOOLEAN, pending : BOOLEAN]
    BY <1>5, <1>2 DEF SaveRelaunchedFails, ClearActive
  <2> QED
    BY <1>1, <2>1, <2>2, GoneIsSound, InvariantKept
<1> QED
  BY <1>3, <1>4, <1>5

-----------------------------------------------------------------------------
(* One lemma per action.                                                   *)

LEMMA StartExistingKeeps ==
    ASSUME RodInv, NoneIsNoObject, StartExisting
    PROVE  RodInv'
<1>1. handle \in Objects /\ UNCHANGED <<handle, operation>>
  BY DEF StartExisting, RodInv, TypeOK
<1>2. OperationsSound'
  BY <1>1, OperationsNow DEF OperationsSound, HoldsObject
<1>3. CASE UNCHANGED <<session, object>>
  BY <1>1, <1>2, <1>3, OperationsOnly
<1>4. CASE Relaunch(handle) \/ RelaunchFails(handle) \/ SaveRelaunchedFails(handle)
  BY <1>1, <1>2, <1>4, HealthCheck
<1> QED
  BY <1>3, <1>4 DEF StartExisting

LEMMA StartFreshKeeps ==
    ASSUME RodInv, NoneIsNoObject, StartFresh
    PROVE  RodInv'
<1>1. PICK o \in Objects, id \in Ids, p \in Tabs :
          /\ object' = [object EXCEPT ![o] = Opened(id, p)]
          /\ Save(id, TRUE)
          /\ handle' = o
  BY DEF StartFresh
<1>2. handle = None /\ UNCHANGED operation
  BY DEF StartFresh
<1>3. Sound(Opened(id, p)) /\ ~Opened(id, p).closed /\ Opened(id, p).id = id
  BY OpenedIsSound
<1>4. \A x \in Objects : object'[x] = IF x = o THEN Opened(id, p) ELSE object[x]
  BY <1>1 DEF RodInv, TypeOK
<1>5. session' = [id |-> id, active |-> TRUE, pending |-> TRUE]
  BY <1>1 DEF Save
<1>6. TypeOK' /\ HoldsObject'
  BY <1>1, <1>2, <1>3, <1>5 DEF RodInv, TypeOK, HoldsObject, Sound
<1>7. \A x \in Objects : object[x].closed /\ ~object[x].live
  BY <1>2 DEF RodInv, OpenIsHandle, NoneIsNoObject
<1>8. OpenIsHandle' /\ TagsOfThisTab'
  BY <1>1, <1>3, <1>4, <1>7 DEF OpenIsHandle, TagsOfThisTab, Sound
<1>9. RowNamesIncarnation'
  BY <1>1, <1>3, <1>4, <1>5 DEF RowNamesIncarnation
<1> QED
  BY <1>6, <1>8, <1>9 DEF RodInv

\* The close, whatever it finds, leaves every object closed.
LEMMA CloseKeeps ==
    ASSUME RodInv, NoneIsNoObject, Close
    PROVE  RodInv'
<1>1. session' \in [id : Ids \cup {None}, active : BOOLEAN, pending : BOOLEAN]
  BY DEF Close, ClearActive, RodInv, TypeOK
<1>2. handle' = None /\ UNCHANGED operation
  BY DEF Close
<1>3. /\ object' \in [Objects -> Object]
      /\ \A x \in Objects : object'[x].closed /\ ~object'[x].live
  <2>1. CASE handle = None
    BY <2>1 DEF Close, RodInv, TypeOK, OpenIsHandle, NoneIsNoObject
  <2>2. CASE handle # None
    <3>1. handle \in Objects /\ object' = [object EXCEPT ![handle] = Gone]
      BY <2>2 DEF Close, RodInv, TypeOK
    <3>2. Gone \in Object /\ Gone.closed /\ ~Gone.live
      BY GoneIsSound DEF Sound
    <3> QED
      BY <3>1, <3>2 DEF RodInv, TypeOK, OpenIsHandle
  <2> QED
    BY <2>1, <2>2
<1>4. TypeOK' /\ HoldsObject'
  BY <1>1, <1>2, <1>3 DEF RodInv, TypeOK, HoldsObject
<1>5. (OpenIsHandle /\ RowNamesIncarnation /\ TagsOfThisTab)'
  BY <1>2, <1>3 DEF OpenIsHandle, RowNamesIncarnation, TagsOfThisTab
<1> QED
  BY <1>4, <1>5 DEF RodInv

LEMMA FetchKeeps ==
    ASSUME RodInv, NEW c \in Calls, Fetch(c)
    PROVE  RodInv'
<1>1. OperationsSound'
  BY DEF Fetch, RodInv, TypeOK, HoldsObject, OperationsSound
<1> QED
  BY <1>1, OperationsOnly DEF Fetch

LEMMA CheckKeeps ==
    ASSUME RodInv, NEW c \in Calls, Check(c)
    PROVE  RodInv'
<1> DEFINE o == operation[c].object
<1>1. o \in Objects /\ UNCHANGED handle
  BY DEF Check, RodInv, HoldsObject
<1>2. OperationsSound'
  <2>1. CASE Done(c)
    BY <2>1, OperationDone
  <2>2. CASE operation' = [operation EXCEPT ![c].step = "act"]
    BY <2>2, <1>1 DEF RodInv, TypeOK, HoldsObject, OperationsSound
  <2> QED
    BY <2>1, <2>2 DEF Check
<1>3. \/ UNCHANGED <<session, object>>
      \/ Relaunch(o) \/ RelaunchFails(o) \/ SaveRelaunchedFails(o)
  BY DEF Check
<1> HIDE DEF o
<1> QED
  BY <1>1, <1>2, <1>3, OperationsOnly, HealthCheck

\* An object that replaces the one acted on, and differs from it in what is
\* followed and tagged only.
Retagged(old, new) ==
    /\ new \in Object
    /\ new.live = old.live /\ new.closed = old.closed /\ new.id = old.id
    /\ ~new.closed /\ ~new.adrift =>
         new.tags \in {None, new.tab} /\ new.files \in {None, new.tab}

LEMMA UpdateKeeps ==
    ASSUME RodInv, NoneIsNoObject, NEW c \in Calls, Usable(c),
           NEW new, Retagged(object[operation[c].object], new), Update(c, new)
    PROVE  RodInv'
<1> DEFINE o == operation[c].object
<1>1. o \in Objects /\ o = handle /\ ~object[o].closed
  BY DEF Usable, Acting, Healthy, RodInv, HoldsObject, OpenIsHandle
<1>2. Sound(new) /\ OperationsSound' /\ new.id = object[o].id
  BY <1>1, OperationDone, ObjectsSound DEF Update, Retagged, Sound
<1>3. object' = [object EXCEPT ![o] = new] /\ UNCHANGED <<session, handle>>
  BY DEF Update
<1>4. /\ session \in [id : Ids \cup {None}, active : BOOLEAN, pending : BOOLEAN]
      /\ session.active /\ session.id = object[o].id
  BY <1>1 DEF RodInv, TypeOK, RowNamesIncarnation, NoneIsNoObject
<1> HIDE DEF o
<1> QED
  BY <1>1, <1>2, <1>3, <1>4, InvariantKept

\* Another tab is followed, or the page is tagged: either way the object stays
\* the same but for that.
LEMMA TurnedIsRetagged ==
    ASSUME NEW o \in Objects, NEW p \in Tabs, object[o] \in Object
    PROVE  Retagged(object[o], Turned(o, p))
BY DEF Retagged, Turned, Object

\* A page that moved while its navigation failed is set adrift.
LEMMA DriftedIsRetagged ==
    ASSUME NEW o \in Objects, NEW p \in Tabs, object[o] \in Object
    PROVE  Retagged(object[o], [object[o] EXCEPT !.tab = p, !.adrift = TRUE])
BY DEF Retagged, Object

LEMMA TaggedIsRetagged ==
    ASSUME RodInv, NEW o \in Objects
    PROVE  /\ object[o] \in Object /\ Retagged(object[o], object[o])
           /\ Retagged(object[o], Tagged(o))
           /\ Retagged(object[o], [object[o] EXCEPT !.files =
                                      IF object[o].files = None THEN object[o].tab ELSE @])
<1>1. object[o] \in Object /\ Sound(object[o])
  BY ObjectsSound DEF RodInv, TypeOK
<1> QED
  BY <1>1 DEF Retagged, Sound, Object, Tagged

\* Every operation on the page.
LEMMA ActKeeps ==
    ASSUME RodInv, NoneIsNoObject, NEW c \in Calls, Act(c)
    PROVE  RodInv'
<1> DEFINE o == operation[c].object
           filed == [object[o] EXCEPT !.files = IF object[o].files = None THEN object[o].tab ELSE @]
<1>1. Acting(c) => o \in Objects
  BY DEF Acting, RodInv, HoldsObject
<1>2. ASSUME Usable(c)
      PROVE  /\ \A p \in Tabs : Retagged(object[o], Turned(o, p))
             /\ \A p \in Tabs : Retagged(object[o], [object[o] EXCEPT !.tab = p, !.adrift = TRUE])
             /\ Retagged(object[o], object[o]) /\ Retagged(object[o], Tagged(o))
             /\ Retagged(object[o], filed)
  BY <1>1, <1>2, TurnedIsRetagged, DriftedIsRetagged, TaggedIsRetagged DEF Usable
<1>3. CASE NoEffect(c)
  BY <1>3, OperationDone, OperationsOnly DEF NoEffect
<1>4. CASE Navigate(c)
  <2>1. PICK p \in Tabs : \/ Update(c, Turned(o, p))
                           \/ Update(c, [object[o] EXCEPT !.tab = p, !.adrift = TRUE])
    BY <1>4 DEF Navigate
  <2> QED
    BY <1>2, <1>4, <2>1, UpdateKeeps DEF Navigate
<1>5. CASE Screenshot(c)
  BY <1>2, <1>5, UpdateKeeps DEF Screenshot
<1>6. CASE Click(c)
  BY <1>2, <1>6, UpdateKeeps DEF Click
<1>7. CASE Type(c)
  BY <1>2, <1>7, UpdateKeeps DEF Type
<1>8. CASE ClickSubmit(c)
  BY <1>2, <1>8, UpdateKeeps DEF ClickSubmit
<1>9. CASE UploadFile(c)
  BY <1>2, <1>9, UpdateKeeps DEF UploadFile
<1> QED
  BY <1>3, <1>4, <1>5, <1>6, <1>7, <1>8, <1>9 DEF Act

LEMMA CompleteReplayKeeps ==
    ASSUME RodInv, CompleteReplay
    PROVE  RodInv'
<1>1. /\ session' \in [id : Ids \cup {None}, active : BOOLEAN, pending : BOOLEAN]
      /\ session'.id = session.id /\ session'.active = session.active
  BY DEF CompleteReplay, RodInv, TypeOK
<1>2. UNCHANGED <<handle, object, operation>>
  BY DEF CompleteReplay
<1> QED
  BY <1>1, <1>2 DEF RodInv, TypeOK, HoldsObject, OpenIsHandle, RowNamesIncarnation, TagsOfThisTab

\* The browser behind an open object dies: the object stays open.
LEMMA ChromiumDiesKeeps ==
    ASSUME RodInv, NoneIsNoObject, NEW o \in Objects, ChromiumDies(o)
    PROVE  RodInv'
<1> DEFINE new == [object[o] EXCEPT !.live = FALSE]
<1>1. object[o] \in Object /\ Sound(object[o]) /\ ~object[o].closed /\ o = handle
  BY ObjectsSound DEF RodInv, TypeOK, OpenIsHandle, ChromiumDies
<1>2. Sound(new) /\ new.id = object[o].id
  BY <1>1 DEF Sound, Object
<1>3. object' = [object EXCEPT ![o] = new] /\ UNCHANGED <<session, handle, operation>>
  BY DEF ChromiumDies
<1>4. /\ session \in [id : Ids \cup {None}, active : BOOLEAN, pending : BOOLEAN]
      /\ session.active /\ session.id = object[o].id
  BY <1>1 DEF RodInv, TypeOK, RowNamesIncarnation, NoneIsNoObject
<1>5. OperationsSound'
  BY <1>3, OperationsNow DEF OperationsSound, HoldsObject
<1> HIDE DEF new
<1> QED
  BY <1>1, <1>2, <1>3, <1>4, <1>5, InvariantKept

LEMMA CrashKeeps ==
    ASSUME RodInv, Crash
    PROVE  RodInv'
<1>1. \A o \in Objects : object'[o] = Gone
  BY DEF Crash
<1>2. TypeOK' /\ HoldsObject'
  BY GoneIsSound DEF Crash, RodInv, TypeOK, HoldsObject, NoOperation, Sound
<1>3. (OpenIsHandle /\ RowNamesIncarnation /\ TagsOfThisTab)'
  BY <1>1 DEF Crash, OpenIsHandle, RowNamesIncarnation, TagsOfThisTab, Gone
<1> QED
  BY <1>2, <1>3 DEF RodInv

-----------------------------------------------------------------------------
(* The theorems.                                                           *)

LEMMA InitiallyRodInv ==
    ASSUME Init
    PROVE  RodInv
<1>1. \A o \in Objects : object[o] = Gone
  BY DEF Init
<1>2. TypeOK /\ HoldsObject
  BY GoneIsSound DEF Init, TypeOK, HoldsObject, NoOperation, Sound
<1>3. OpenIsHandle /\ RowNamesIncarnation /\ TagsOfThisTab
  BY <1>1 DEF Init, OpenIsHandle, RowNamesIncarnation, TagsOfThisTab, Gone
<1> QED
  BY <1>2, <1>3 DEF RodInv

LEMMA StepKeepsRodInv ==
    ASSUME RodInv, NoneIsNoObject, [Next]_vars
    PROVE  RodInv'
<1>1. CASE UNCHANGED vars
  <2>1. OperationsSound'
    BY <1>1, OperationsNow DEF OperationsSound, HoldsObject, vars
  <2> QED
    BY <1>1, <2>1, OperationsOnly DEF vars
<1>2. CASE Next
  BY <1>2, StartExistingKeeps, StartFreshKeeps, CloseKeeps, CompleteReplayKeeps, CrashKeeps,
     FetchKeeps, CheckKeeps, ActKeeps, ChromiumDiesKeeps DEF Next
<1> QED
  BY <1>1, <1>2

\* The invariant of every behaviour of the Rod client.
THEOREM RodInvariant == NoneIsNoObject => (Spec => []RodInv)
<1> SUFFICES ASSUME NoneIsNoObject PROVE Spec => []RodInv
  OBVIOUS
<1>1. Init => RodInv
  BY InitiallyRodInv
<1>2. RodInv /\ [Next]_vars => RodInv'
  BY StepKeepsRodInv
<1> QED
  BY <1>1, <1>2, PTL DEF Spec
=============================================================================
