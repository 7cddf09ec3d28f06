-------------------------- MODULE MutationJournal ---------------------------
(***************************************************************************)
(* The journal of browser mutations of one application                     *)
(* (browser_mutation_changelog) and everything that writes it: the runs of *)
(* the application's workflow, which open a Kernel browser, replay the     *)
(* journal into it and then act on the page; the activity attempts that    *)
(* record, execute and settle each mutation, or reconcile what an earlier  *)
(* attempt left; the session row; and the provider's browser with its      *)
(* page.  Attempts are lost and time out, stores fail, browsers expire,    *)
(* and a cancelled run leaves its attempt behind.                          *)
(*                                                                         *)
(* An action on the page is identified by <<call, field>>: the call is one *)
(* activity the workflow schedules, with one field unless it is            *)
(* TypeMultiple.  The data of a call is its kinds, one per field.          *)
(***************************************************************************)
EXTENDS Naturals, Sequences, FiniteSets

CONSTANTS
    Calls,        \* what a call may be: sequences of kinds
    RunIds,       \* activity IDs mutations may get, for each run
    MaxAttempts,  \* attempts of an activity (3 in the code)
    MaxRuns, MaxCalls, MaxSessions, \* bounds: runs, calls and browsers
    MaxTimeouts,  \* bound: attempts that are lost or time out
    MaxCancels,   \* bound: runs cancelled
    MaxLosses,    \* bound: browsers that expire at the provider
    MaxStoreFailures, \* bound: settlements the store does not take
    MaxCloseFailures  \* bound: runs that end without closing their browser

Kinds == {"input", "click", "secret", "submit"}
MaxFields == 2

ASSUME JournalAssumption ==
    /\ \A call \in Calls : call \in [DOMAIN call -> Kinds] /\ DOMAIN call \in {1..1, 1..MaxFields}
    /\ \A call \in Calls : Len(call) > 1 => \A i \in 1..Len(call) : call[i] \in {"input", "secret"}
    /\ \A bound \in {MaxAttempts, MaxRuns, MaxCalls, MaxSessions, MaxTimeouts, MaxCancels,
                     MaxLosses, MaxStoreFailures, MaxCloseFailures} : bound \in Nat
    /\ RunIds \in [1..MaxRuns -> SUBSET Nat]

VARIABLES
    journal,   \* rows of browser_mutation_changelog, in their order; history in
               \* "done": how often a call's attempt performed the row
    session,   \* the application's row of browser_session
    alive,     \* whether the session's provider browser still exists
    page,      \* what happened on that browser since it was created
    attempts,  \* the run's current activity attempt, and one left behind
    run,       \* the application's workflow run
    todo,      \* rows the run has still to replay
    flying,    \* executions whose attempt is gone and that may still land
    evident,   \* history: recorded actions performed on their call's behalf, or
               \* whose effect a reconciliation found on the page
    assumed,   \* history: those it found there although they were not the cause
    submits,   \* history: how often each unrecorded click was made
    spent      \* what is used up of the bounds

vars == <<journal, session, alive, page, attempts, run, todo, flying, evident, assumed, submits, spent>>

Ops == (1..MaxCalls) \X (1..MaxFields)
Start == <<0, 0>>  \* the page is (re)loaded at the starting URL

Statuses == {"pending", "applied", "failed", "reconcile_required"}
Phases == {"idle", "open", "list", "replay", "act", "ending"}

\* isReplaySafeTarget, isReplaySafeFileTarget: neither secrets nor submits.
ReplaySafe(kind) == kind \in {"input", "click"}
\* isExcludedFromReplay: clicks on what looks like a submit control.
Excluded(kind) == kind = "submit"
\* reconcileBrowserMutation can only inspect the effect of inputs.
Inspectable(kind) == kind = "input"

NoAttempt == [job |-> "none", pc |-> "idle", call |-> 0, id |-> 0, kinds |-> <<>>, field |-> 0,
              row |-> 0, try |-> 0, outcome |-> "none", errors |-> "none", on |-> 0]

JournalRow == [key : Nat \X Nat, gen : Nat, op : Ops, kind : Kinds, status : Statuses, on : Nat, done : Nat]

\* An activity attempt: the run's own, or one left behind by a cancelled run.
Whose == {"own", "left"}
AttemptRecord ==
    [job : {"none", "mutate", "replay"},
     pc : {"idle", "record", "reconcile", "claim", "execute", "settle", "report"},
     call : 0..MaxCalls, id : Nat, kinds : Seq(Kinds), field : 0..MaxFields, row : Nat,
     try : Nat, outcome : {"none", "done", "refused", "uncertain"},
     errors : {"none", "retry", "fatal"}, on : Nat]

SessionRow == [status : {"starting", "active", "closed"}, id : Nat, gen : Nat, pending : BOOLEAN]
RunRecord == [no : 0..MaxRuns, phase : Phases, calls : 0..MaxCalls, id : Nat, tries : Nat]
Execution == [op : Ops, row : Nat, on : Nat, replayed : BOOLEAN]
Bounded == {"sessions", "timeouts", "cancels", "losses", "stores", "closes"}

JournalTypeOK ==
    /\ journal \in Seq(JournalRow)
    /\ session \in SessionRow
    /\ alive \in BOOLEAN
    /\ page \in Seq(Ops \cup {Start})
    /\ attempts \in [Whose -> AttemptRecord]
    /\ run \in RunRecord
    /\ todo \subseteq [row : Nat, ok : BOOLEAN]
    /\ flying \subseteq Execution
    /\ evident \subseteq Ops
    /\ assumed \subseteq evident
    /\ submits \in [Ops -> Nat]
    /\ spent \in [Bounded -> Nat]

Init ==
    /\ journal = <<>>
    /\ session = [status |-> "starting", id |-> 0, gen |-> 1, pending |-> FALSE]
    /\ alive = FALSE
    /\ page = <<>>
    /\ attempts = [w \in Whose |-> NoAttempt]
    /\ run = [no |-> 0, phase |-> "idle", calls |-> 0, id |-> 0, tries |-> 0]
    /\ todo = {}
    /\ flying = {}
    /\ evident = {}
    /\ assumed = {}
    /\ submits = [op \in Ops |-> 0]
    /\ spent = [bound \in Bounded |-> 0]

-----------------------------------------------------------------------------
(***************************************************************************)
(* The journal, the browser and the attempts.                              *)
(***************************************************************************)
Spend(what, max) ==
    /\ spent[what] < max
    /\ spent' = [spent EXCEPT ![what] = @ + 1]

\* The row an idempotency key stands for: keys are unique in a generation.
RowsOf(key) == {r \in DOMAIN journal : journal[r].gen = session.gen /\ journal[r].key = key}

SetStatus(row, status, on) ==
    journal' = [journal EXCEPT ![row].status = status, ![row].on = on]

\* What Record finds: mutants first.
FinishedOrPending(row) == journal[row].status \in {"applied", "pending"}
Finished(row) == journal[row].status = "applied"

\* PrepareBrowserMutationRetry's condition, and a mutant.
RetriableAfterCrash(row) == journal[row].status \in {"failed", "pending"}
Retriable(row) == journal[row].status = "failed"

\* setBrowserMutationStatus settles what is not settled yet.
Settleable(row) == journal[row].status \in {"pending", "reconcile_required"}

\* The browser client looks the session up by the application, at each call.
Reachable == session.status = "active" /\ session.id # 0 /\ alive

\* The effect of an action is on the page until the page is loaded again.
Shown(op) == \E i \in DOMAIN page :
                 page[i] = op /\ \A j \in DOMAIN page : page[j] = Start => j < i

Put(w, attempt) == attempts' = [attempts EXCEPT ![w] = attempt]
Goto(w, pc) == Put(w, [attempts[w] EXCEPT !.pc = pc])
Fail(w) == Put(w, [attempts[w] EXCEPT !.pc = "report", !.errors = "fatal"])

At(w, job, pc) == attempts[w].job = job /\ attempts[w].pc = pc
Op(w) == <<attempts[w].call, attempts[w].field>>
Kind(w) == attempts[w].kinds[attempts[w].field]
Several(w) == Len(attempts[w].kinds) > 1

Worse(one, other) == IF one = "none" THEN other ELSE IF other = "none" THEN one
                     ELSE IF "fatal" \in {one, other} THEN "fatal" ELSE "retry"

\* TypeMultiple goes on after an error and collects it; an error that must not
\* be retried survives only as the planner's mistake.
FieldOver(w, error) ==
    LET errors == Worse(attempts[w].errors, error)
        last == attempts[w].field = Len(attempts[w].kinds)
    IN  Put(w, IF last THEN [attempts[w] EXCEPT !.pc = "report", !.errors = errors]
               ELSE [attempts[w] EXCEPT !.pc = "record", !.errors = errors,
                                        !.field = @ + 1, !.row = 0, !.outcome = "none"])

\* What an attempt's failure with this outcome is to its activity.
ErrorsOf(w, outcome) ==
    CASE outcome = "done" -> {"none"}
      [] outcome = "refused" /\ Several(w) -> {"retry", "fatal"}
      [] OTHER -> {"retry"}

-----------------------------------------------------------------------------
(***************************************************************************)
(* A run of JobApplicationWorkflow, as far as its browser goes.            *)
(***************************************************************************)
world == <<page, alive, flying, evident, assumed, submits>>

\* BeginBrowserReplayGeneration, when the run is an explicit retry.
BeginRun(newGeneration) ==
    /\ run.phase = "idle" /\ run.no < MaxRuns
    /\ run' = [run EXCEPT !.no = @ + 1, !.phase = "open", !.id = 0, !.tries = 1]
    /\ session' = [session EXCEPT !.gen = IF newGeneration THEN @ + 1 ELSE @]
    /\ UNCHANGED <<journal, attempts, todo, spent, world>>

\* StartBrowser reconnects to a browser that still exists: Kernel navigates it
\* to the starting URL again, Rod leaves it as it is ...
Reconnect ==
    /\ Reachable
    /\ page' \in {page, Append(page, Start)}
    /\ UNCHANGED <<session, alive, flying>>

\* ... or creates one, whose replay is pending.
Create ==
    /\ ~Reachable
    /\ spent["sessions"] < MaxSessions
    /\ session' = [session EXCEPT !.status = "active", !.id = spent["sessions"] + 1, !.pending = TRUE]
    /\ alive' = TRUE
    /\ page' = <<Start>>
    /\ flying' = {}

\* OpenWebpage, which tells whether a replay is required; its answer may be
\* lost, and then it is tried again.
OpenWebpage(answered) ==
    /\ run.phase = "open"
    /\ Reconnect \/ Create
    /\ spent["timeouts"] < MaxTimeouts \/ answered
    /\ spent' = [spent EXCEPT !["sessions"] = session'.id,
                              !["timeouts"] = IF answered THEN @ ELSE @ + 1]
    /\ run' = IF answered THEN [run EXCEPT !.phase = IF session'.pending THEN "list" ELSE "act"]
              ELSE IF run.tries < MaxAttempts THEN [run EXCEPT !.tries = @ + 1]
              ELSE [run EXCEPT !.phase = "ending"]
    /\ UNCHANGED <<journal, attempts, todo, evident, assumed, submits>>

\* recoverInterruptedBrowserReplays: a replay that was interrupted on another
\* browser is undone.
Recovered(row) ==
    IF row.gen = session.gen /\ row.status = "pending" /\ row.on \notin {0, session.id}
    THEN [row EXCEPT !.status = "applied", !.on = 0]
    ELSE row

\* The generation's rows.  Mutant: only those that are applied.
ListedApplied ==
    {r \in DOMAIN journal : journal[r].gen = session.gen /\ journal[r].status = "applied"}
ListedRows == {r \in DOMAIN journal : journal[r].gen = session.gen}

ListBrowserMutationsForReplay ==
    /\ run.phase = "list" /\ session.status = "active"
    /\ journal' = [r \in DOMAIN journal |-> Recovered(journal[r])]
    /\ todo' = {[row |-> r, ok |-> journal'[r].status = "applied" /\ ReplaySafe(journal[r].kind)] :
                    r \in ListedRows}
    /\ run' = [run EXCEPT !.phase = "replay"]
    /\ UNCHANGED <<session, attempts, spent, world>>

\* Rows are replayed in the order of their creation.  Mutant: the newest first.
Latest == CHOOSE listed \in todo : \A other \in todo : listed.row >= other.row
Earliest == CHOOSE listed \in todo : \A other \in todo : listed.row <= other.row

\* replayBrowserMutations stops at the first row that is not applied and safe.
ReplayNext ==
    /\ run.phase = "replay" /\ todo # {} /\ attempts["own"].job = "none"
    /\ IF Earliest.ok
       THEN /\ Put("own", [NoAttempt EXCEPT !.job = "replay", !.pc = "claim",
                                            !.row = Earliest.row, !.try = 1])
            /\ UNCHANGED run
       ELSE /\ run' = [run EXCEPT !.phase = "ending"]
            /\ UNCHANGED attempts
    /\ UNCHANGED <<journal, session, todo, spent, world>>

CompleteBrowserReplay ==
    /\ run.phase = "replay" /\ todo = {}
    /\ session.status = "active" /\ session.id # 0
    /\ session' = [session EXCEPT !.pending = FALSE]
    /\ run' = [run EXCEPT !.phase = "act"]
    /\ UNCHANGED <<journal, attempts, todo, spent, world>>

\* The agent loop schedules the activity of its next tool call.
StartCall(kinds) ==
    /\ run.phase = "act" /\ attempts["own"].job = "none"
    /\ run.calls < MaxCalls
    /\ \E id \in {id \in RunIds[run.no] : id > run.id} :
           /\ run' = [run EXCEPT !.calls = @ + 1, !.id = id]
           /\ Put("own", [NoAttempt EXCEPT
                   !.job = "mutate", !.pc = "record", !.call = run.calls + 1,
                   !.id = id, !.kinds = kinds, !.field = 1, !.try = 1])
    /\ UNCHANGED <<journal, session, todo, spent, world>>

\* The run is over, or an activity it depends on has failed for good.
Leave ==
    /\ run.phase \in {"open", "list", "replay", "act"} /\ attempts["own"].job = "none"
    /\ run' = [run EXCEPT !.phase = "ending"]
    /\ UNCHANGED <<journal, session, attempts, todo, spent, world>>

\* The run is cancelled: it no longer waits for its activity, which does not
\* heartbeat and so goes on.
CancelRun ==
    /\ run.phase \in {"open", "list", "replay", "act"}
    /\ Spend("cancels", MaxCancels)
    /\ attempts["left"].job = "none" \/ attempts["own"].job = "none"
    /\ attempts' = IF attempts["own"].job = "none" THEN attempts
                   ELSE [attempts EXCEPT !["left"] = attempts["own"], !["own"] = NoAttempt]
    /\ run' = [run EXCEPT !.phase = "ending"]
    /\ UNCHANGED <<journal, session, todo, world>>

\* The deferred closeApplicationBrowser deletes the browser and clears the
\* session; if it gives up in between or before, the run ends all the same.
CloseBrowser(deleted, cleared) ==
    /\ run.phase = "ending"
    /\ cleared => deleted
    /\ IF cleared THEN UNCHANGED spent ELSE Spend("closes", MaxCloseFailures)
    /\ session' = IF cleared THEN [session EXCEPT !.status = "closed", !.id = 0] ELSE session
    /\ IF deleted THEN alive' = FALSE /\ page' = <<>> /\ flying' = {}
       ELSE UNCHANGED <<alive, page, flying>>
    /\ run' = [run EXCEPT !.phase = "idle"]
    /\ todo' = {}
    /\ UNCHANGED <<journal, attempts, evident, assumed, submits>>

-----------------------------------------------------------------------------
(***************************************************************************)
(* An activity attempt that mutates the page (mutate in activity.go); w is *)
(* the run's own or the one left behind by a cancelled run.                *)
(***************************************************************************)
\* RecordBrowserMutation and, for a row that failed, PrepareBrowserMutationRetry.
Record(w) ==
    /\ At(w, "mutate", "record")
    /\ LET key == <<attempts[w].id, attempts[w].field>>
           Perform(row) == Put(w, [attempts[w] EXCEPT !.pc = "execute", !.row = row])
       IN  \/ /\ Excluded(Kind(w))
              /\ Perform(0)
              /\ UNCHANGED journal
           \/ /\ ~Excluded(Kind(w)) /\ ~(session.status = "active" /\ session.id # 0)
              /\ FieldOver(w, "retry")
              /\ UNCHANGED journal
           \/ /\ ~Excluded(Kind(w)) /\ session.status = "active" /\ session.id # 0
              /\ RowsOf(key) = {}
              /\ journal' = Append(journal, [key |-> key, gen |-> session.gen, op |-> Op(w),
                                             kind |-> Kind(w), status |-> "pending", on |-> 0, done |-> 0])
              /\ Perform(Len(journal) + 1)
           \/ /\ ~Excluded(Kind(w)) /\ session.status = "active" /\ session.id # 0
              /\ \E row \in RowsOf(key) :
                     \/ /\ Finished(row)
                        /\ FieldOver(w, "none")
                        /\ UNCHANGED journal
                     \/ /\ Retriable(row)
                        /\ SetStatus(row, "pending", 0)
                        /\ Perform(row)
                     \/ /\ Settleable(row)
                        /\ Put(w, [attempts[w] EXCEPT !.pc = "reconcile", !.row = row])
                        /\ UNCHANGED journal
    /\ UNCHANGED <<session, run, todo, spent, world>>

\* reconcileBrowserMutation: an uncertain action is never repeated, and counts
\* as done if the page shows its effect: the field has the text, the tab the
\* URL.  An earlier call, a prefill or the page itself may have put it there.
Reconcile(w) ==
    /\ At(w, "mutate", "reconcile")
    /\ \/ /\ Reachable /\ Inspectable(Kind(w)) /\ Inspectable(journal[attempts[w].row].kind)
          /\ Settleable(attempts[w].row)
          /\ SetStatus(attempts[w].row, "applied", 0)
          /\ evident' = evident \cup {Op(w)}
          /\ assumed' = IF Shown(Op(w)) THEN assumed ELSE assumed \cup {Op(w)}
          /\ FieldOver(w, "none")
       \/ /\ Reachable /\ Inspectable(Kind(w)) /\ Inspectable(journal[attempts[w].row].kind)
          /\ ~Settleable(attempts[w].row)
          /\ FieldOver(w, "retry")
          /\ UNCHANGED <<journal, evident, assumed>>
       \/ /\ FieldOver(w, IF Several(w) THEN "retry" ELSE "fatal")
          /\ UNCHANGED <<journal, evident, assumed>>
    /\ UNCHANGED <<session, run, todo, spent, page, alive, flying, submits>>

\* The browser client performs the action, refuses to, or leaves it uncertain.
Performed(row, op) ==
    /\ page' = Append(page, op)
    /\ evident' = evident \cup {op}
    /\ journal' = [journal EXCEPT ![row].done = @ + 1]

Replayed(op) ==
    /\ page' = Append(page, op)
    /\ UNCHANGED <<evident, journal>>

Execute(w, outcome, lands) ==
    LET row == attempts[w].row
    IN  /\ attempts[w].pc = "execute"
        /\ outcome = "done" => lands
        /\ outcome = "refused" => ~lands
        /\ ~Reachable => outcome = "refused"
        /\ \/ ~lands /\ UNCHANGED <<page, evident, journal, submits>>
           \/ /\ lands /\ row = 0
              /\ submits' = [submits EXCEPT ![Op(w)] = @ + 1]
              /\ UNCHANGED <<page, evident, journal>>
           \/ /\ lands /\ row # 0
              /\ IF attempts[w].job = "replay" THEN Replayed(journal[row].op)
                 ELSE Performed(row, Op(w))
              /\ UNCHANGED submits
        /\ IF row # 0 THEN Put(w, [attempts[w] EXCEPT !.pc = "settle", !.outcome = outcome])
           ELSE \E error \in ErrorsOf(w, outcome) : FieldOver(w, error)
        /\ UNCHANGED <<session, run, todo, spent, alive, flying, assumed>>

\* MarkBrowserMutationApplied, ...Failed, ...ReconcileRequired; mutants: the
\* outcome taken for the status, and an uncertain action taken for applied.
SettlementByOutcome(outcome) == outcome
SettlementHopeful(outcome) == IF outcome = "refused" THEN "failed" ELSE "applied"
Settlement(outcome) == CASE outcome = "done" -> "applied"
                         [] outcome = "refused" -> "failed"
                         [] OTHER -> "reconcile_required"

Settle(w, stored) ==
    LET taken == stored /\ Settleable(attempts[w].row)
    IN  /\ At(w, "mutate", "settle")
        /\ IF stored THEN UNCHANGED spent ELSE Spend("stores", MaxStoreFailures)
        /\ IF taken THEN SetStatus(attempts[w].row, Settlement(attempts[w].outcome), 0)
           ELSE UNCHANGED journal
        /\ \E error \in ErrorsOf(w, attempts[w].outcome) :
               FieldOver(w, IF taken THEN error ELSE Worse("retry", error))
        /\ UNCHANGED <<session, run, todo, world>>

-----------------------------------------------------------------------------
(***************************************************************************)
(* An attempt of ReplayBrowserMutation; all its errors are final.          *)
(***************************************************************************)
Replayable(row) ==
    /\ journal[row].status = "applied" /\ ReplaySafe(journal[row].kind)
    /\ journal[row].gen = session.gen

\* The row was replayed on this browser already; mutant: not looked at.
NeverReplayed(row) == FALSE
AlreadyReplayed(row) == journal[row].on = session.id

\* GetBrowserMutationForReplay, the target's resolution and
\* MarkBrowserMutationReplayPending.
Claim(w) ==
    LET row == attempts[w].row
    IN  /\ At(w, "replay", "claim")
        /\ \/ Fail(w) /\ UNCHANGED journal
           \/ /\ Replayable(row) /\ session.id # 0 /\ AlreadyReplayed(row)
              /\ Goto(w, "report")
              /\ UNCHANGED journal
           \/ /\ Replayable(row) /\ session.id # 0 /\ ~AlreadyReplayed(row)
              /\ SetStatus(row, "pending", session.id)
              /\ Put(w, [attempts[w] EXCEPT !.pc = "execute", !.on = session.id])
        /\ UNCHANGED <<session, run, todo, spent, world>>

SettleReplay(w, stored) ==
    LET done == attempts[w].outcome = "done"
        taken == stored /\ Settleable(attempts[w].row)
    IN  /\ At(w, "replay", "settle")
        /\ IF stored THEN UNCHANGED spent ELSE Spend("stores", MaxStoreFailures)
        /\ IF taken
           THEN SetStatus(attempts[w].row, IF done THEN "applied" ELSE "reconcile_required",
                          attempts[w].on)
           ELSE UNCHANGED journal
        /\ IF done /\ taken THEN Goto(w, "report") ELSE Fail(w)
        /\ UNCHANGED <<session, run, todo, world>>

-----------------------------------------------------------------------------
(***************************************************************************)
(* The end of an attempt.                                                  *)
(***************************************************************************)
Retried(attempt) == [attempt EXCEPT !.try = @ + 1, !.outcome = "none", !.errors = "none",
                        !.pc = IF attempt.job = "replay" THEN "claim" ELSE "record",
                        !.field = IF attempt.job = "replay" THEN 0 ELSE 1,
                        !.row = IF attempt.job = "replay" THEN @ ELSE 0, !.on = 0]

\* The workflow goes on after a failed tool call, never after a failed replay.
GiveUp ==
    /\ Put("own", NoAttempt)
    /\ run' = IF attempts["own"].job = "replay" THEN [run EXCEPT !.phase = "ending"] ELSE run
    /\ UNCHANGED todo

Report ==
    /\ attempts["own"].pc = "report"
    /\ \/ /\ attempts["own"].errors = "none"
          /\ Put("own", NoAttempt)
          /\ todo' = IF attempts["own"].job = "replay" THEN todo \ {Earliest} ELSE todo
          /\ UNCHANGED run
       \/ /\ attempts["own"].errors = "retry" /\ attempts["own"].try < MaxAttempts
          /\ Put("own", Retried(attempts["own"]))
          /\ UNCHANGED <<run, todo>>
       \/ /\ \/ attempts["own"].errors = "fatal"
             \/ attempts["own"].errors = "retry" /\ attempts["own"].try >= MaxAttempts
          /\ GiveUp
    /\ UNCHANGED <<journal, session, spent, world>>

\* Nobody waits for an attempt that was left behind.
ReportInVain ==
    /\ attempts["left"].pc = "report"
    /\ Put("left", NoAttempt)
    /\ UNCHANGED <<journal, session, run, todo, spent, world>>

\* The worker dies or the attempt reaches its timeout, after which its calls
\* to the store fail; what it had asked of the browser may still happen.
InFlight(w) ==
    LET row == attempts[w].row
        replayed == attempts[w].job = "replay"
    IN  [op |-> IF replayed THEN journal[row].op ELSE Op(w), row |-> row,
         on |-> session.id, replayed |-> replayed]

Timeout(w, inFlight) ==
    /\ attempts[w].job # "none"
    /\ Spend("timeouts", MaxTimeouts)
    /\ IF inFlight
       THEN /\ attempts[w].pc = "execute" /\ attempts[w].row # 0 /\ Reachable
            /\ flying' = flying \cup {InFlight(w)}
       ELSE UNCHANGED flying
    /\ IF w = "left" THEN Put(w, NoAttempt) /\ UNCHANGED <<run, todo>>
       ELSE IF attempts[w].try < MaxAttempts
            THEN Put(w, Retried(attempts[w])) /\ UNCHANGED <<run, todo>>
            ELSE GiveUp
    /\ UNCHANGED <<journal, session, page, alive, evident, assumed, submits>>

-----------------------------------------------------------------------------
(***************************************************************************)
(* The provider.                                                           *)
(***************************************************************************)
LandLate ==
    \E late \in flying :
        /\ alive /\ late.on = session.id
        /\ IF late.replayed THEN Replayed(late.op) ELSE Performed(late.row, late.op)
        /\ flying' = flying \ {late}
        /\ UNCHANGED <<session, alive, attempts, run, todo, assumed, submits, spent>>

Expire ==
    /\ alive
    /\ Spend("losses", MaxLosses)
    /\ alive' = FALSE /\ page' = <<>> /\ flying' = {}
    /\ UNCHANGED <<journal, session, attempts, run, todo, evident, assumed, submits>>

-----------------------------------------------------------------------------
Workflow ==
    \/ \E newGeneration \in BOOLEAN : BeginRun(newGeneration)
    \/ \E answered \in BOOLEAN : OpenWebpage(answered)
    \/ ListBrowserMutationsForReplay
    \/ ReplayNext
    \/ CompleteBrowserReplay
    \/ \E kinds \in Calls : StartCall(kinds)
    \/ Leave
    \/ CancelRun
    \/ \E deleted, cleared \in BOOLEAN : CloseBrowser(deleted, cleared)
    \/ Report

Attempt(w) ==
    \/ Record(w)
    \/ Reconcile(w)
    \/ \E outcome \in {"done", "refused", "uncertain"}, lands \in BOOLEAN : Execute(w, outcome, lands)
    \/ \E stored \in BOOLEAN : Settle(w, stored)
    \/ Claim(w)
    \/ \E stored \in BOOLEAN : SettleReplay(w, stored)
    \/ \E inFlight \in BOOLEAN : Timeout(w, inFlight)

Next ==
    \/ Workflow
    \/ \E w \in Whose : Attempt(w)
    \/ ReportInVain
    \/ LandLate
    \/ Expire

Spec == Init /\ [][Next]_vars

-----------------------------------------------------------------------------
(***************************************************************************)
(* What must hold.                                                         *)
(***************************************************************************)
\* A row stands for one action: whatever attempts are lost, time out, are left
\* behind or meet at one row, at most one of them performs it (mutate).
ActedOnce == \A r \in DOMAIN journal : journal[r].done <= 1

\* The journal keeps what MutationLog promises: beside an action happening once,
\* a failure is only noted of an action nobody performed or may still perform
\* (MarkBrowserMutationFailed, PrepareBrowserMutationRetry), and no row is
\* removed or comes to stand for another action.
Entry(row) == [action |-> row.op, performed |-> row.done,
               verdict |-> IF row.status = "failed" THEN "failed" ELSE "none"]
Entries == [r \in DOMAIN journal |-> Entry(journal[r])]
Log == INSTANCE MutationLog WITH Actions <- Ops, log <- Entries
KeepsTheLog == Log!Spec

\* No action happens twice on one browser: a replay does not repeat what was
\* done or replayed there (ReplayBrowserMutation).
OncePerBrowser ==
    \A i, j \in DOMAIN page : page[i] = page[j] /\ page[i] # Start => i = j

\* A call that reports success has performed each of its actions, or has found
\* its effect on the page after an attempt whose outcome was lost (mutate).
NothingSkipped ==
    At("own", "mutate", "report") /\ attempts["own"].errors = "none" =>
        \A i \in DOMAIN attempts["own"].kinds :
            LET op == <<attempts["own"].call, i>> IN op \in evident \/ submits[op] > 0

\* A row is applied only if the action it describes was performed at some time,
\* or a reconciliation found its effect: never for an outcome nobody knows, nor
\* for a call that met the row of another (MarkBrowserMutationApplied, replays of the row).
AppliedWasDone ==
    \A r \in DOMAIN journal : journal[r].status = "applied" => journal[r].op \in evident

\* Rows that are applied keep the order in which their actions happened.  What
\* was taken for done may still land, behind the actions of later rows.
BothApplied(r, q) ==
    /\ journal[r].gen = session.gen /\ journal[q].gen = session.gen
    /\ journal[r].status = "applied" /\ journal[q].status = "applied"
HappenedBefore(r, q) ==
    \A i, j \in DOMAIN page : page[i] = journal[r].op /\ page[j] = journal[q].op => i < j
AppliedInOrder ==
    \A r, q \in DOMAIN journal :
        r < q /\ BothApplied(r, q) /\ journal[r].op \notin assumed => HappenedBefore(r, q)

\* The agent starts to act on a page that shows every action of the journal's
\* generation, in the journal's order, and nothing else (openApplicationPage).
Restored ==
    LET last == CHOOSE i \in DOMAIN page : page[i] = Start /\ \A j \in DOMAIN page : page[j] = Start => j <= i
        rows == {r \in DOMAIN journal : journal[r].gen = session.gen}
    IN  \E order \in [1..(Len(page) - last) -> rows] :
            /\ \A i \in DOMAIN order : page[last + i] = journal[order[i]].op
            /\ \A i, j \in DOMAIN order : i < j => order[i] < order[j]
            /\ \A r \in rows : \E i \in DOMAIN order : order[i] = r
RestoredBeforeActing ==
    [][run.phase # "act" /\ run'.phase = "act" /\ alive' => Restored']_vars

\* A click that submits the application happens once for its call.
SubmitClickedOnce == \A op \in Ops : submits[op] <= 1

=============================================================================
