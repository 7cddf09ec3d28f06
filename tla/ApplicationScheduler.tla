------------------------- MODULE ApplicationScheduler ------------------------
(* What the browser pool promises to those who queue applications, without *)
(* the queue, the semaphore, the maps, the channels or the rollovers that  *)
(* workflow/browserpool keeps the promise with.                            *)
EXTENDS Naturals, FiniteSets

CONSTANTS Items, UserActions, NoAction, AppOf, UserOf, ResumeOf, Capacity

VARIABLES
    backlog,  \* items waiting for a slot
    running,  \* items holding one
    parked,   \* resumes waiting for the run they resume to release its slot
    seen      \* user actions whose resume was received

state == <<backlog, running, parked, seen>>

IsResume(item) == ResumeOf[item] # NoAction
OfApp(items, app) == {item \in items : AppOf[item] = app}
OfUser(items, user) == {item \in items : UserOf[item] = user}

\* A resume is received once per user action.
Receive(item) ==
    /\ IsResume(item) => ResumeOf[item] \notin seen
    /\ seen' = IF IsResume(item) THEN seen \cup {ResumeOf[item]} ELSE seen

\* An application has one item in the backlog or running.
Submit(item) ==
    /\ OfApp(backlog \cup running, AppOf[item]) = {}
    /\ Receive(item)
    /\ backlog' = backlog \cup {item}
    /\ UNCHANGED <<running, parked>>

\* A resume that overtook its application's settlement waits for it.
Park(item) ==
    /\ IsResume(item)
    /\ OfApp(running, AppOf[item]) # {}
    /\ OfApp(parked, AppOf[item]) = {}
    /\ Receive(item)
    /\ parked' = parked \cup {item}
    /\ UNCHANGED <<backlog, running>>

\* A resume of an application that already waits is only remembered.
Absorb(item) ==
    /\ IsResume(item)
    /\ OfApp(backlog \cup parked, AppOf[item]) # {}
    /\ Receive(item)
    /\ UNCHANGED <<backlog, running, parked>>

Start(item) ==
    /\ item \in backlog
    /\ Cardinality(running) < Capacity
    /\ OfUser(running, UserOf[item]) = {}
    /\ backlog' = backlog \ {item}
    /\ running' = running \cup {item}
    /\ UNCHANGED <<parked, seen>>

\* Only an item that waits can be withdrawn; a running one must release.
Withdraw(item) ==
    /\ item \in backlog
    /\ backlog' = backlog \ {item}
    /\ UNCHANGED <<running, parked, seen>>

Release(item) ==
    /\ item \in running
    /\ running' = running \ {item}
    /\ backlog' = backlog \cup OfApp(parked, AppOf[item])
    /\ parked' = parked \ OfApp(parked, AppOf[item])
    /\ UNCHANGED seen

Init == backlog = {} /\ running = {} /\ parked = {} /\ seen = {}

Next == \E item \in Items :
            \/ Submit(item) \/ Park(item) \/ Absorb(item)
            \/ Start(item) \/ Withdraw(item) \/ Release(item)

Spec == Init /\ [][Next]_state
=============================================================================
