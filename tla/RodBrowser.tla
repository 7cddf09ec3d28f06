----------------------------- MODULE RodBrowser -----------------------------
(***************************************************************************)
(* The Rod browser client (src/browser/rod): a Chromium process of this    *)
(* worker behind each application.  Applications share nothing but the     *)
(* client's mutex, so the module follows one of them: its row, the handle  *)
(* the worker's session map holds, and every session object a call still   *)
(* points to.                                                              *)
(*                                                                         *)
(* A start and a close hold the client's mutex throughout and are one step *)
(* each.  An operation fetches its session object under that mutex, checks *)
(* the browser's health under the object's own mutex, gives that up, takes *)
(* it again and acts: three steps, between which anything else may run.    *)
(***************************************************************************)
EXTENDS Naturals

CONSTANTS
    Objects,  \* applicationSession objects; one is used again once unreachable
    Ids,      \* provider session ids, used again once nothing names them
    Tabs,     \* tabs, told apart by what the client last loaded into them; a
              \* document that replaces itself is not, for its elements are dead
    Calls,    \* operations in flight at once
    None

VARIABLES
    session,   \* browser_session row: id, active, replay_pending
    handle,    \* the object the worker's session map holds, or None
    object,    \* the session objects
    operation  \* operations in flight: their step and the object they hold

vars == <<session, handle, object, operation>>

Object == [live : BOOLEAN, closed : BOOLEAN, id : Ids \cup {None},
           tab : Tabs \cup {None}, tags : Tabs \cup {None}, files : Tabs \cup {None},
           adrift : BOOLEAN]  \* history: its last navigation moved the page and failed

Gone == [live |-> FALSE, closed |-> TRUE, id |-> None,
         tab |-> None, tags |-> None, files |-> None, adrift |-> FALSE]
Opened(id, p) == [live |-> TRUE, closed |-> FALSE, id |-> id,
                  tab |-> p, tags |-> None, files |-> None, adrift |-> FALSE]

NoOperation == [step |-> "idle", object |-> None]
Done(c) == operation' = [operation EXCEPT ![c] = NoOperation]

Unreachable(o) == handle # o /\ \A c \in Calls : operation[c].object # o
FreshId(id) == id # session.id /\ \A o \in Objects : object[o].id # id

Init ==
    /\ session = [id |-> None, active |-> FALSE, pending |-> FALSE]
    /\ handle = None
    /\ object = [o \in Objects |-> Gone]
    /\ operation = [c \in Calls |-> NoOperation]

Save(id, pending) == session' = [id |-> id, active |-> TRUE, pending |-> pending]
ClearActive == session' = [session EXCEPT !.id = None, !.active = FALSE]

-----------------------------------------------------------------------------
(* ensureHealthy, under the object's mutex.  A check may time out on a     *)
(* browser that is well; the browser is replaced all the same.             *)

Healthy(o) == ~object[o].closed /\ object[o].live

\* Mutants of Relaunch: a closed object is brought back; the tagged elements
\* are kept; the new incarnation is not recorded.
RelaunchClosed(o) ==
    \E id \in Ids, p \in Tabs :
       /\ FreshId(id)
       /\ object' = [object EXCEPT ![o] = Opened(id, p)]
       /\ Save(id, FALSE)
RelaunchKeepingTags(o) ==
    /\ ~object[o].closed
    /\ \E id \in Ids, p \in Tabs :
         /\ FreshId(id)
         /\ object' = [object EXCEPT ![o].live = TRUE, ![o].id = id, ![o].tab = p]
         /\ Save(id, FALSE)
RelaunchUnsaved(o) ==
    /\ ~object[o].closed
    /\ \E id \in Ids, p \in Tabs :
         /\ FreshId(id)
         /\ object' = [object EXCEPT ![o] = Opened(id, p)]
         /\ UNCHANGED session

Relaunch(o) ==
    /\ ~object[o].closed
    /\ \E id \in Ids, p \in Tabs :
         /\ FreshId(id)
         /\ object' = [object EXCEPT ![o] = Opened(id, p)]
         /\ Save(id, FALSE)

RelaunchFails(o) ==
    /\ ~object[o].closed
    /\ object' = [object EXCEPT ![o] = [@ EXCEPT !.live = FALSE, !.closed = TRUE, !.tab = None]]
    /\ UNCHANGED session

SaveRelaunchedFails(o) ==
    /\ ~object[o].closed
    /\ object' = [object EXCEPT ![o] = Gone]
    /\ ClearActive \/ UNCHANGED session

-----------------------------------------------------------------------------
(* StartBrowser and CloseBrowser.                                          *)

StartExisting ==
    /\ handle # None
    /\ \/ Healthy(handle) /\ UNCHANGED <<session, object>>
       \/ Relaunch(handle)
       \/ RelaunchFails(handle)
       \/ SaveRelaunchedFails(handle)
    /\ UNCHANGED <<handle, operation>>

\* An active row without a handle belongs to another process: the start fails.
\* A failed launch or save leaves nothing behind.
StartFresh ==
    /\ handle = None /\ ~session.active
    /\ \E o \in Objects, id \in Ids, p \in Tabs :
         /\ Unreachable(o) /\ FreshId(id)
         /\ object' = [object EXCEPT ![o] = Opened(id, p)]
         /\ Save(id, TRUE)
         /\ handle' = o
    /\ UNCHANGED operation

Close ==
    /\ handle' = None
    /\ object' = IF handle = None THEN object ELSE [object EXCEPT ![handle] = Gone]
    /\ ClearActive \/ UNCHANGED session
    /\ UNCHANGED operation

-----------------------------------------------------------------------------
(* Operations on the page.                                                 *)

Fetch(c) ==
    /\ operation[c].step = "idle" /\ handle # None
    /\ operation' = [operation EXCEPT ![c] = [step |-> "check", object |-> handle]]
    /\ UNCHANGED <<session, handle, object>>

\* Only a healthy or relaunched object is acted on; a closed one, and a call
\* whose context has ended, are refused.
Check(c) ==
    /\ operation[c].step = "check"
    /\ LET o == operation[c].object IN
         \/ /\ (Healthy(o) /\ UNCHANGED <<session, object>>) \/ Relaunch(o)
            /\ operation' = [operation EXCEPT ![c].step = "act"]
         \/ Done(c) /\ UNCHANGED <<session, object>>
         \/ (RelaunchFails(o) \/ SaveRelaunchedFails(o)) /\ Done(c)
    /\ UNCHANGED handle

Acting(c) == operation[c].step = "act"
Usable(c) == Acting(c) /\ Healthy(operation[c].object)
Update(c, new) ==
    /\ object' = [object EXCEPT ![operation[c].object] = new]
    /\ Done(c)
    /\ UNCHANGED <<session, handle>>

\* Another tab, or another document loaded into it: the tagged elements are dropped.
Turned(o, p) ==
    [object[o] EXCEPT !.tab = p, !.tags = None, !.files = None, !.adrift = FALSE]

\* The page and its elements, as a screenshot has just tagged them.
Tagged(o) ==
    [object[o] EXCEPT !.tags = object[o].tab, !.files = object[o].tab, !.adrift = FALSE]

\* A navigation whose wait for the load fails has moved the page already, and
\* leaves what was tagged before.
Navigate(c) ==
    /\ Usable(c)
    /\ LET o == operation[c].object IN
         \E p \in Tabs : \/ Update(c, Turned(o, p))
                        \/ Update(c, [object[o] EXCEPT !.tab = p, !.adrift = TRUE])

Screenshot(c) ==
    /\ Usable(c)
    /\ Update(c, Tagged(operation[c].object))

\* A click needs tagged elements, and may open a tab.
Click(c) ==
    /\ Usable(c)
    /\ LET o == operation[c].object IN
         /\ object[o].tags # None
         /\ \/ Update(c, object[o])
            \/ \E p \in Tabs \ {object[o].tab} : Update(c, Turned(o, p))

\* Typing needs a tagged element too, and leaves the page where it is.
Type(c) ==
    /\ Usable(c)
    /\ object[operation[c].object].tags # None
    /\ Update(c, object[operation[c].object])

\* The submit click tags the page itself when no elements are tagged.
ClickSubmit(c) ==
    /\ Usable(c)
    /\ LET o == operation[c].object
           tagged == IF object[o].tags = None THEN Tagged(o) ELSE object[o]
       IN \/ Update(c, tagged)
          \/ \E p \in Tabs \ {object[o].tab} : Update(c, Turned(o, p))

\* An upload tags the file inputs itself when none are tagged.
UploadFile(c) ==
    /\ Usable(c)
    /\ LET o == operation[c].object IN
         Update(c, [object[o] EXCEPT !.files =
                     IF object[o].files = None THEN object[o].tab ELSE @])

\* Scrolling and scraping leave the tagged elements alone, and so does every
\* operation that fails before it could act.
NoEffect(c) ==
    /\ Acting(c)
    /\ Done(c)
    /\ UNCHANGED <<session, handle, object>>

-----------------------------------------------------------------------------
(* The replay of accepted actions ends: the call names the recorded        *)
(* browser, and changes nothing for any other.                             *)

CompleteReplay ==
    /\ session.active /\ session.pending
    /\ session' = [session EXCEPT !.pending = FALSE]
    /\ UNCHANGED <<handle, object, operation>>

ChromiumDies(o) ==
    /\ object[o].live
    /\ object' = [object EXCEPT ![o].live = FALSE]
    /\ UNCHANGED <<session, handle, operation>>

\* The worker process dies with its Chromium processes; the row stays.
Crash ==
    /\ handle # None
    /\ handle' = None
    /\ object' = [o \in Objects |-> Gone]
    /\ operation' = [c \in Calls |-> NoOperation]
    /\ UNCHANGED <<session>>

Act(c) == \/ Navigate(c) \/ Screenshot(c) \/ Click(c) \/ Type(c) \/ ClickSubmit(c)
          \/ UploadFile(c) \/ NoEffect(c)

Next ==
    \/ StartExisting \/ StartFresh \/ Close \/ CompleteReplay \/ Crash
    \/ \E c \in Calls : Fetch(c) \/ Check(c) \/ Act(c)
    \/ \E o \in Objects : ChromiumDies(o)

Spec == Init /\ [][Next]_vars

-----------------------------------------------------------------------------
(* Properties.                                                             *)

\* Types of the row, the handle, the objects and the operations.
TypeOK ==
    /\ session \in [id : Ids \cup {None}, active : BOOLEAN, pending : BOOLEAN]
    /\ handle \in Objects \cup {None}
    /\ object \in [Objects -> Object]
    /\ operation \in [Calls -> [step : {"idle", "check", "act"},
                                object : Objects \cup {None}]]

\* A Chromium process that runs is the one behind the worker's handle: no
\* operation that still holds a closed session object brings its browser
\* back, where no close would ever reach it.
NoChromiumSurvivesClose == \A o \in Objects : object[o].live => o = handle

\* The row of an application with an open handle names the incarnation the
\* handle drives, whether the browser was launched or relaunched under it.
RowNamesIncarnation ==
    handle # None /\ ~object[handle].closed =>
        session.active /\ session.id = object[handle].id

\* An element that an index can reach is in the tab that is followed: tags
\* never outlive the tab, a load by the client or the browser they were made in.
\* The one exception is a navigation that moved the page and then failed to
\* wait for it, until the next screenshot, load, tab or browser makes up for it.
TagsOfThisTab ==
    \A o \in Objects : ~object[o].closed /\ ~object[o].adrift =>
        /\ object[o].tags \in {None, object[o].tab}
        /\ object[o].files \in {None, object[o].tab}
=============================================================================
