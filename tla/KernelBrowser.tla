---------------------------- MODULE KernelBrowser ----------------------------
(***************************************************************************)
(* The Kernel browser client (src/browser/kernel) with the rows it keeps   *)
(* in the browser store: one cloud browser per application, all of one     *)
(* user's applications writing to the same Kernel profile, and the lease   *)
(* on that profile that admits one writer at a time.                       *)
(*                                                                         *)
(* Every database or Kernel call of an operation is a step of its own.     *)
(* An operation runs in a slot of its application: an activity that the    *)
(* workflow no longer waits for keeps running in its slot (activities do   *)
(* not heartbeat) until its deadline, so that the close issued by a        *)
(* cancelled workflow meets it.  A slot belongs to a worker process, and   *)
(* the mutex that keeps the starts and closes of an application apart is   *)
(* in that process's memory: across workers nothing does.  A run pins its  *)
(* calls to the worker of its session, but for the closes, which any       *)
(* worker may run; Colocated is where the mutex is enough nevertheless.    *)
(* A call that waits for the mutex has not begun: waiters are taken to be  *)
(* served in the order in which they came.                                 *)
(*                                                                         *)
(* Time is counted down: the idle time left to a browser, the time left to *)
(* the lease, the time left to a call.  Abstracted away: the page and its  *)
(* elements, the vault, the live view URL, the replay columns of the row   *)
(* (MutationJournal has them).  A failed database call has no effect; a    *)
(* failed Kernel call may have had one.                                    *)
(***************************************************************************)
EXTENDS Integers

CONSTANTS
    Apps,        \* applications of one user, by application browser id
    Slots,       \* calls of one application that may be in flight together
    Workers,     \* worker processes
    Host,        \* the worker of a slot
    Browsers,    \* Kernel session ids; one is used again once nothing names it
    IdleLimit,   \* inactivity after which Kernel ends a browser (2 minutes)
    Buffer,      \* what the lease outlasts the idle limit by (5 minutes)
    Deadline,    \* longest run of one activity attempt (at most 5 minutes)
    None

ASSUME KernelAssumption ==
    /\ IdleLimit \in Nat \ {0}
    /\ Buffer \in Nat
    /\ Deadline \in 0..Buffer
    /\ Host \in [Slots -> Workers]
    /\ None \notin Apps
    /\ None \notin Browsers

VARIABLES
    row,      \* browser_session row of an application: its active session and
              \* whether it names the profile (status is active iff session is set)
    lease,    \* lease columns of the user's browser_profile row
    browser,  \* idle time left to each Kernel browser, 0 once it is gone
    call,     \* the calls in flight
    run,      \* the workflow's use of its browser: open, closing or closed
    home,     \* the worker of the run's session
    lost      \* live browsers whose creation or cleanup was lost to a fault

vars == <<row, lease, browser, call, run, home, lost>>

LeaseLength == IdleLimit + Buffer

Row == [session : Browsers \cup {None}, profile : BOOLEAN]
Lease == [owner : Apps \cup {None}, left : 0..LeaseLength]

Steps == {"idle", "connect", "clear", "acquire", "create", "save", "delete",
          "scrub", "release", "load", "renew", "execute"}
Call == [kind : {"none", "start", "operation", "close"}, step : Steps,
         browser : Browsers \cup {None}, left : 0..Deadline]

Idle == [kind |-> "none", step |-> "idle", browser |-> None, left |-> 0]
Begin(kind, step, left) ==
    [kind |-> kind, step |-> step, browser |-> None, left |-> left]

Alive(b) == browser[b] > 0
At(a, i, kind, step) == call[a][i].kind = kind /\ call[a][i].step = step
Busy(a, i) == call[a][i].step # "idle"
Set(a, i, record) == call' = [call EXCEPT ![a][i] = record]
Return(a, i) == Set(a, i, Idle)
To(a, i, step) == Set(a, i, [call[a][i] EXCEPT !.step = step])
ToWith(a, i, step, b) ==
    Set(a, i, [call[a][i] EXCEPT !.step = step, !.browser = b])
\* Cleanup runs detached from its activity's deadline.
Detach(a, i, step) ==
    Set(a, i, [call[a][i] EXCEPT !.step = step, !.left = 0])

\* The application's mutex on the worker of slot i, held by a start and by a
\* close until they return.
Unlocked(a, i) ==
    \A j \in Slots : Host[j] = Host[i] => call[a][j].kind \notin {"start", "close"}

Unnamed(b) == /\ \A a \in Apps : row[a].session # b
              /\ \A a \in Apps, i \in Slots : call[a][i].browser # b

Init ==
    /\ row = [a \in Apps |-> [session |-> None, profile |-> FALSE]]
    /\ lease = [owner |-> None, left |-> 0]
    /\ browser = [b \in Browsers |-> 0]
    /\ call = [a \in Apps |-> [i \in Slots |-> Idle]]
    /\ run = [a \in Apps |-> "closed"]
    /\ home \in [Apps -> Workers]
    /\ lost = {}

-----------------------------------------------------------------------------
(* The profile lease and the session row.                                  *)

Acquirable(a) == lease.owner \in {None, a} \/ lease.left = 0
AcquireLease(a) ==
    Acquirable(a) /\ lease' = [owner |-> a, left |-> LeaseLength]
ReleaseLease(a) ==
    lease.owner = a /\ lease' = [owner |-> None, left |-> 0]
SaveActive(a, b) == row' = [row EXCEPT ![a] = [session |-> b, profile |-> TRUE]]
ClearActive(a) == row' = [row EXCEPT ![a].session = None]

-----------------------------------------------------------------------------
(* The workflow's use of the client: it starts and uses the browser while  *)
(* it runs, and closes it when it ends, pauses or is cancelled, which may  *)
(* be while a call is still in flight.  A run goes on, or the next begins, *)
(* after a close that failed or that it no longer waits for.               *)

BeginRun(a, w) ==
    /\ run[a] # "open"
    /\ home' = [home EXCEPT ![a] = w]
    /\ run' = [run EXCEPT ![a] = "open"]
    /\ UNCHANGED <<row, lease, browser, call, lost>>

CallStart(a, i) ==
    /\ run[a] = "open" /\ ~Busy(a, i) /\ Host[i] = home[a] /\ Unlocked(a, i)
    /\ Set(a, i, Begin("start", "connect", Deadline))
    /\ UNCHANGED <<row, lease, browser, run, lost>>

CallOperation(a, i) ==
    /\ run[a] = "open" /\ ~Busy(a, i) /\ Host[i] = home[a]
    /\ Set(a, i, Begin("operation", "load", Deadline))
    /\ UNCHANGED <<row, lease, browser, run, lost>>

\* Mutant of CallClose: a close does not take the mutex.
CloseAtOnce(a, i) ==
    /\ run[a] # "closed" /\ ~Busy(a, i)
    /\ Set(a, i, Begin("close", "delete", 0))
    /\ run' = [run EXCEPT ![a] = "closing"]
    /\ UNCHANGED <<row, lease, browser, lost>>

CallClose(a, i) ==
    /\ run[a] # "closed" /\ ~Busy(a, i) /\ Unlocked(a, i)
    /\ Set(a, i, Begin("close", "delete", 0))
    /\ run' = [run EXCEPT ![a] = "closing"]
    /\ UNCHANGED <<row, lease, browser, lost>>

\* The close that a run waits for has succeeded.
Closed(a) == run' = [run EXCEPT ![a] = IF @ = "closing" THEN "closed" ELSE @]

-----------------------------------------------------------------------------
(* StartBrowser: reconnect to the recorded browser if it still lives, or   *)
(* take the lease, create a browser and record it.                         *)

Connect(a, i) ==
    /\ At(a, i, "start", "connect")
    /\ LET s == row[a].session IN
         \/ s = None /\ To(a, i, "acquire")
         \/ s # None /\ Alive(s) /\ To(a, i, "load")
         \/ s # None /\ ~Alive(s) /\ To(a, i, "clear")
    /\ UNCHANGED <<row, lease, browser, run, lost>>

ClearExpired(a, i) ==
    /\ At(a, i, "start", "clear")
    /\ ClearActive(a)
    /\ To(a, i, "acquire")
    /\ UNCHANGED <<lease, browser, run, lost>>

\* Mutant of AcquireProfile: a browser is created whoever holds the lease.
SkipAcquire(a, i) ==
    /\ At(a, i, "start", "acquire")
    /\ To(a, i, "create")
    /\ UNCHANGED <<row, lease, browser, run, lost>>

AcquireProfile(a, i) ==
    /\ At(a, i, "start", "acquire")
    /\ AcquireLease(a)
    /\ To(a, i, "create")
    /\ UNCHANGED <<row, browser, run, lost>>

CreateBrowser(a, i) ==
    /\ At(a, i, "start", "create")
    /\ \E b \in Browsers :
         /\ ~Alive(b) /\ Unnamed(b)
         /\ browser' = [browser EXCEPT ![b] = IdleLimit]
         /\ \/ ToWith(a, i, "save", b) /\ UNCHANGED lost
            \/ Detach(a, i, "release") /\ lost' = lost \cup {b}
    /\ UNCHANGED <<row, lease, run>>

\* ensureKernelResources, SaveKernelProfileVault or the creation failed.
CreateFails(a, i) ==
    /\ At(a, i, "start", "create")
    /\ Detach(a, i, "release")
    /\ UNCHANGED <<row, lease, browser, run, lost>>

SaveSession(a, i) ==
    /\ At(a, i, "start", "save")
    /\ SaveActive(a, call[a][i].browser)
    /\ ToWith(a, i, "load", None)
    /\ UNCHANGED <<lease, browser, run, lost>>

\* Mutant of SaveFails: returns without deleting the browser it created.
SaveFailsQuietly(a, i) ==
    /\ At(a, i, "start", "save")
    /\ To(a, i, "release")
    /\ UNCHANGED <<row, lease, browser, run, lost>>

SaveFails(a, i) ==
    /\ At(a, i, "start", "save")
    /\ Detach(a, i, "delete")
    /\ UNCHANGED <<row, lease, browser, run, lost>>

DeleteUnsaved(a, i) ==
    /\ At(a, i, "start", "delete")
    /\ LET b == call[a][i].browser IN
         \/ browser' = [browser EXCEPT ![b] = 0] /\ UNCHANGED lost
         \/ /\ UNCHANGED browser
            /\ lost' = IF Alive(b) THEN lost \cup {b} ELSE lost
    /\ ToWith(a, i, "scrub", None)
    /\ UNCHANGED <<row, lease, run>>

\* ClearActive of an unsaved session, whose error is only reported.
ScrubRow(a, i) ==
    /\ At(a, i, "start", "scrub")
    /\ ClearActive(a) \/ UNCHANGED row
    /\ To(a, i, "release")
    /\ UNCHANGED <<lease, browser, run, lost>>

\* The deferred release of a start that keeps no browser; it may fail.
ReleaseUnused(a, i) ==
    /\ At(a, i, "start", "release")
    /\ ReleaseLease(a) \/ UNCHANGED lease
    /\ Return(a, i)
    /\ UNCHANGED <<row, browser, run, lost>>

-----------------------------------------------------------------------------
(* Every operation on the page, and the navigation a start ends with.      *)

\* Mutant of LoadSession: an operation goes on without a recorded browser.
LoadUnchecked(a, i) ==
    /\ call[a][i].step = "load"
    /\ ToWith(a, i, "renew", row[a].session)
    /\ UNCHANGED <<row, lease, browser, run, lost>>

LoadSession(a, i) ==
    /\ call[a][i].step = "load"
    /\ row[a].session # None
    /\ ToWith(a, i, "renew", row[a].session)
    /\ UNCHANGED <<row, lease, browser, run, lost>>

\* Mutant of RenewLease: the lease is checked, not renewed.
CheckLease(a, i) ==
    /\ call[a][i].step = "renew"
    /\ Acquirable(a)
    /\ To(a, i, "execute")
    /\ UNCHANGED <<row, lease, browser, run, lost>>

RenewLease(a, i) ==
    /\ call[a][i].step = "renew"
    /\ \/ row[a].profile /\ AcquireLease(a)
       \/ ~row[a].profile /\ UNCHANGED lease
    /\ To(a, i, "execute")
    /\ UNCHANGED <<row, browser, run, lost>>

\* The operation reaches a live browser and counts as activity, whether or
\* not its answer does; a browser that is gone answers 404.
Execute(a, i) ==
    /\ call[a][i].step = "execute"
    /\ LET b == call[a][i].browser IN
         browser' = IF Alive(b) THEN [browser EXCEPT ![b] = IdleLimit] ELSE browser
    /\ Return(a, i)
    /\ UNCHANGED <<row, lease, run, lost>>

\* A step that fails, or finds nothing to work on, ends its call.
Fail(a, i) ==
    /\ call[a][i].step \in {"connect", "clear", "acquire", "load", "renew", "execute"}
    /\ Return(a, i)
    /\ UNCHANGED <<row, lease, browser, run, lost>>

-----------------------------------------------------------------------------
(* CloseBrowser: delete the browser, clear the row, release the lease.     *)

DeleteBrowser(a, i) ==
    /\ At(a, i, "close", "delete")
    /\ LET s == row[a].session IN
         \/ s = None /\ To(a, i, "scrub") /\ UNCHANGED browser
         \/ /\ s # None
            /\ browser' = [browser EXCEPT ![s] = 0]
            /\ To(a, i, "scrub") \/ Return(a, i)
         \/ s # None /\ Return(a, i) /\ UNCHANGED browser
    /\ UNCHANGED <<row, lease, run, lost>>

ClearClosed(a, i) ==
    /\ At(a, i, "close", "scrub")
    /\ ClearActive(a)
    /\ IF row[a].profile
         THEN To(a, i, "release") /\ UNCHANGED run
         ELSE Return(a, i) /\ Closed(a)
    /\ UNCHANGED <<lease, browser, lost>>

ReleaseProfile(a, i) ==
    /\ At(a, i, "close", "release")
    /\ ReleaseLease(a)
    /\ Return(a, i)
    /\ Closed(a)
    /\ UNCHANGED <<row, browser, lost>>

\* A database error, or a lease that is no longer owned: the close fails.
CloseFails(a, i) ==
    /\ call[a][i].kind = "close"
    /\ call[a][i].step \in {"scrub", "release"}
    /\ Return(a, i)
    /\ UNCHANGED <<row, lease, browser, run, lost>>

-----------------------------------------------------------------------------
(* A worker process dies with the calls it runs; time passes.              *)

Crash(w) ==
    /\ \E a \in Apps, i \in Slots : Host[i] = w /\ Busy(a, i)
    /\ call' = [a \in Apps |-> [i \in Slots |-> IF Host[i] = w THEN Idle ELSE call[a][i]]]
    /\ lost' = lost \cup {b \in Browsers : Alive(b) /\ \E a \in Apps, i \in Slots :
                   /\ Host[i] = w /\ call[a][i].step \in {"save", "delete"}
                   /\ call[a][i].browser = b}
    /\ UNCHANGED <<row, lease, browser, run>>

Bounded(a, i) == /\ call[a][i].kind \in {"start", "operation"}
                 /\ call[a][i].step \notin {"delete", "scrub", "release"}

Less(n) == IF n > 0 THEN n - 1 ELSE 0

Tick ==
    /\ \A a \in Apps, i \in Slots : Bounded(a, i) => call[a][i].left > 0
    /\ lease' = [lease EXCEPT !.left = Less(@)]
    /\ browser' = [b \in Browsers |-> Less(browser[b])]
    /\ call' = [a \in Apps |-> [i \in Slots |->
                  [call[a][i] EXCEPT !.left = Less(@)]]]
    /\ lost' = {b \in lost : browser[b] > 1}
    /\ UNCHANGED <<row, run>>

StartStep(a, i) ==
    \/ Connect(a, i) \/ ClearExpired(a, i) \/ AcquireProfile(a, i)
    \/ CreateBrowser(a, i) \/ CreateFails(a, i)
    \/ SaveSession(a, i) \/ SaveFails(a, i)
    \/ DeleteUnsaved(a, i) \/ ScrubRow(a, i) \/ ReleaseUnused(a, i)
OperationStep(a, i) ==
    LoadSession(a, i) \/ RenewLease(a, i) \/ Execute(a, i) \/ Fail(a, i)
CloseStep(a, i) ==
    \/ DeleteBrowser(a, i) \/ ClearClosed(a, i)
    \/ ReleaseProfile(a, i) \/ CloseFails(a, i)

RunStep ==
    \/ \E a \in Apps, i \in Slots :
         \/ CallStart(a, i) \/ CallOperation(a, i) \/ CallClose(a, i)
         \/ StartStep(a, i) \/ OperationStep(a, i) \/ CloseStep(a, i)
    \/ \E w \in Workers : Crash(w)
    \/ Tick

Next ==
    \/ \E a \in Apps, w \in Workers : BeginRun(a, w)
    \/ RunStep /\ UNCHANGED home

Spec == Init /\ [][Next]_vars

-----------------------------------------------------------------------------
(* Properties.                                                             *)

\* Types of the rows, the lease, the browsers and the calls in flight; a call
\* that is about to record, delete or use a browser has one.
WorldOK ==
    /\ row \in [Apps -> Row]
    /\ lease \in Lease
    /\ browser \in [Browsers -> 0..IdleLimit]
    /\ call \in [Apps -> [Slots -> Call]]
    /\ \A a \in Apps, i \in Slots :
         call[a][i].step \in {"save", "renew", "execute"} \/ At(a, i, "start", "delete")
            => call[a][i].browser # None
    /\ run \in [Apps -> {"open", "closing", "closed"}]
    /\ lost \subseteq Browsers

TypeOK == WorldOK /\ home \in [Apps -> Workers]

\* The deployments the mutex is made for: a start or a close in flight meets
\* no start or close of the same application on another worker.  One worker is
\* enough for it.  The code does not see to it (a close is not pinned to the
\* session's worker), and without it none of the next three holds.
Colocated ==
    \A a \in Apps, i, j \in Slots :
        /\ call[a][i].kind \in {"start", "close"}
        /\ call[a][j].kind \in {"start", "close"}
        => Host[i] = Host[j]

\* A recorded browser never outlives the lease of its application: whoever
\* finds the lease free or expired finds no recorded browser still writing
\* to the profile.  It rests on the renewal before every operation, on the
\* buffer being no shorter than an activity, on the order in which a close
\* deletes, clears and releases, and, where starts and closes of one
\* application share a worker, on the mutex that keeps a close out of a start.
WriterHoldsLease ==
    \A a \in Apps : row[a].session # None /\ Alive(row[a].session) =>
        /\ lease.owner = a
        /\ lease.left >= browser[row[a].session]

\* After a close that reported success the application has no recorded
\* browser until its next run, whatever calls the cancelled workflow left
\* in flight on the worker that closed it.
CleanClose == \A a \in Apps : run[a] = "closed" => row[a].session = None

\* A live browser is always somebody's: a row names it, a call is about to
\* record or delete it, or a fault lost the only reference to it.  No error
\* path forgets a browser that it could still delete.
NoBrowserForgotten ==
    \A b \in Browsers : Alive(b) =>
        \/ \E a \in Apps : row[a].session = b
        \/ \E a \in Apps, i \in Slots :
              call[a][i].step \in {"save", "delete"} /\ call[a][i].browser = b
        \/ b \in lost

=============================================================================
