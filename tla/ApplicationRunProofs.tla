------------------------ MODULE ApplicationRunProofs ------------------------
(***************************************************************************)
(* Proofs about ApplicationRun, for any number of user actions, rounds,    *)
(* failures, retries and abandoned writes.  The inductive invariant says   *)
(* where the child is in step with its parent, how the clicks of a run     *)
(* relate to the failures and the planner's choices counted so far, and    *)
(* what each step of a pause has made durable, whatever lands meanwhile.   *)
(***************************************************************************)
EXTENDS ApplicationRun, TLAPS

\* Only a run in step "child" has a child, in one of the child's own steps.
ChildInStep ==
    /\ child.kind = "none" <=> run.step # "child"
    /\ child.kind = "none" => child.step = "none"
    /\ child.kind = "pause" => child.step \in PauseSteps \cup {"paused", "failed"}
    /\ child.kind = "submit" => child.step \in SubmitSteps \cup {"submitted", "rejected", "failed"}

\* A click of its own is counted as a failure, or is the last one of its run.
Allowed(pressed) == ClickAttempts * pressed
ClickDue ==
    \/ run.step \notin {"child", "close", "report", "settle", "settled"}
    \/ run.step = "child" /\ (child.kind = "pause" \/ child.step = "click")
ClicksCounted ==
    /\ run.clicks <= run.failures + 1 + Allowed(run.pressed)
    /\ ClickDue => run.clicks <= run.failures + Allowed(run.pressed)

\* What a pause has established of its row holds for as long as there is one:
\* an abandoned deletion may take it away.
Current(a) == Stored(a) => action[a].generation = session.generation
Told(a) == Stored(a) => action[a].notified
PauseProgress ==
    child.kind = "pause" =>
        /\ child.step \in {"notify", "close", "commit", "paused"} =>
              child.action \in Actions /\ Current(child.action)
        /\ child.step \in {"close", "commit", "paused"} => Told(child.action)
        /\ child.step = "paused" =>
              /\ ~session.open
              /\ run.robbed \/ (Stored(child.action) /\ action[child.action].committed)
        /\ child.step \notin {"block", "failed"} /\ row.writer = "run" => row.status = "blocked"

\* From the report on, the row says how the run ended.
RowReported ==
    /\ run.step \in {"settle", "settled"} /\ run.recorded /\ row.writer = "run" =>
          row.status = IF run.outcome = "paused" THEN "blocked" ELSE run.outcome
    /\ run.outcome = "paused" => run.step \in {"settle", "settled"}
    /\ run.step \in {"close", "report"} => run.outcome \in Terminal

IInv ==
    /\ RunTypeOK /\ ChildInStep /\ ClicksCounted /\ PauseProgress
    /\ RowReported /\ PausedIsDurable /\ BelievedWasAccepted

-----------------------------------------------------------------------------
(* What the operators that move a run do to its fields.                    *)

Counted(next) ==
    /\ next.clicks = run.clicks /\ next.failures = run.failures
    /\ next.pressed = run.pressed
    /\ next.accepted = run.accepted /\ next.believed = run.believed
Cleared(next) ==
    /\ next.clicks = 0 /\ next.failures = 0 /\ next.pressed = 0
    /\ next.accepted = FALSE /\ next.believed = FALSE
Flagged(next) == next.recorded = run.recorded /\ next.robbed = run.robbed
Kept(next) == Counted(next) /\ Flagged(next)
RunMoves(step, outcome) ==
    /\ run' \in Run /\ Flagged(run') /\ (Counted(run') \/ Cleared(run'))
    /\ run'.step = step /\ run'.outcome = outcome

\* What the planner's choices allow is a number, and grows with them.
LEMMA AllowedGrows ==
    ASSUME NEW n \in Nat
    PROVE  /\ Allowed(n) \in Nat /\ Allowed(0) = 0
           /\ Allowed(n + 1) = Allowed(n) + ClickAttempts
  BY RunAssumption, SMT DEF Allowed, RunAssumption

\* A step that keeps the counters of a run, or starts them again, leaves its
\* clicks bounded, where it may still click as much as where it came from.
LEMMA CountsKept ==
    ASSUME run \in Run, run' \in Run, ClicksCounted, BelievedWasAccepted,
           Counted(run') \/ Cleared(run'),
           ClickDue' => run.clicks <= run.failures + Allowed(run.pressed)
    PROVE  ClicksCounted' /\ BelievedWasAccepted'
  <1>1. CASE Counted(run')
    BY <1>1 DEF Counted, ClicksCounted, BelievedWasAccepted
  <1>2. CASE Cleared(run')
    <2>1. BelievedWasAccepted'
      BY <1>2 DEF Cleared, BelievedWasAccepted
    <2>2. Allowed(run'.pressed) = 0
      BY <1>2, AllowedGrows DEF Cleared
    <2>3. ClicksCounted'
      BY <1>2, <2>2, SMT DEF Cleared, ClicksCounted
    <2> QED
      BY <2>1, <2>3
  <1> QED
    BY <1>1, <1>2

\* Goto moves a run to a step and changes nothing else of it.
LEMMA Gone ==
    ASSUME run \in Run, NEW step \in RunSteps, Goto(step)
    PROVE  RunMoves(step, run.outcome) /\ Kept(run')
  <1>1. run' = [run EXCEPT !.step = step]
    BY DEF Goto
  <1>2. run' \in Run
    BY <1>1, SMT DEF Run
  <1>3. Kept(run')
    BY <1>1, SMT DEF Run, Kept, Counted, Flagged
  <1>4. run'.step = step /\ run'.outcome = run.outcome
    BY <1>1, SMT DEF Run
  <1> QED
    BY <1>2, <1>3, <1>4 DEF RunMoves, Kept

\* The flags of a run may be set at any time.
LEMMA Flags ==
    ASSUME NEW r \in Run, NEW b \in BOOLEAN
    PROVE  /\ [r EXCEPT !.cancelling = b] \in Run /\ [r EXCEPT !.cancelled = b] \in Run
           /\ [r EXCEPT !.timedOut = b] \in Run /\ [r EXCEPT !.recorded = b] \in Run
           /\ [r EXCEPT !.believed = b] \in Run /\ [r EXCEPT !.accepted = b] \in Run
  <1>1. [r EXCEPT !.cancelling = b] \in Run
    BY SMT DEF Run
  <1>2. [r EXCEPT !.cancelled = b] \in Run
    BY SMT DEF Run
  <1>3. [r EXCEPT !.timedOut = b] \in Run
    BY SMT DEF Run
  <1>4. [r EXCEPT !.recorded = b] \in Run
    BY SMT DEF Run
  <1>5. [r EXCEPT !.believed = b] \in Run
    BY SMT DEF Run
  <1>6. [r EXCEPT !.accepted = b] \in Run
    BY SMT DEF Run
  <1> QED
    BY <1>1, <1>2, <1>3, <1>4, <1>5, <1>6

Outcomes == Terminal \cup {"paused"}
\* End moves a run to a step and gives it its outcome.
LEMMA Ended ==
    ASSUME run \in Run, NEW step \in RunSteps, NEW outcome \in Outcomes, End(step, outcome)
    PROVE  RunMoves(step, outcome)
  <1>0. outcome \in Terminal \cup {"paused", None} /\ 0 \in 0..MaxAgentIterations
        /\ 0 \in 0..(MaxSubmitFailures - 1)
    BY RunAssumption, SMT DEF Outcomes, RunAssumption
  <1> DEFINE r1 == [run EXCEPT !.step = step]
             r2 == [r1 EXCEPT !.outcome = outcome]
             r3 == [r2 EXCEPT !.rounds = 0]
             r4 == [r3 EXCEPT !.failures = 0]
             r5 == [r4 EXCEPT !.clicks = 0]
             r6 == [r5 EXCEPT !.pressed = 0]
             r7 == [r6 EXCEPT !.accepted = FALSE]
  <1>1. run' = [r7 EXCEPT !.believed = FALSE]
    BY SMT DEF End, Run
  <1>2. r1 \in Run /\ Flagged(r1) /\ r1.step = step
    BY SMT DEF Run, Flagged
  <1> HIDE DEF r1
  <1>3. r2 \in Run /\ Flagged(r2) /\ r2.step = step /\ r2.outcome = outcome
    BY <1>0, <1>2, SMT DEF Run, Flagged
  <1> HIDE DEF r2
  <1>4. /\ r3 \in Run /\ Flagged(r3) /\ r3.step = step /\ r3.outcome = outcome
        /\ r3.rounds = 0
    <2>1. r3 \in Run
      BY <1>0, <1>3, SMT DEF Run
    <2>2. /\ Flagged(r3) /\ r3.step = step /\ r3.outcome = outcome
          /\ r3.rounds = 0
      BY <1>3, SMT DEF Run, Flagged
    <2> QED
      BY <2>1, <2>2
  <1> HIDE DEF r3
  <1>5. /\ r4 \in Run /\ Flagged(r4) /\ r4.step = step /\ r4.outcome = outcome
        /\ r4.rounds = 0 /\ r4.failures = 0
    <2>1. r4 \in Run
      BY <1>0, <1>4, SMT DEF Run
    <2>2. /\ Flagged(r4) /\ r4.step = step /\ r4.outcome = outcome
          /\ r4.rounds = 0 /\ r4.failures = 0
      BY <1>4, SMT DEF Run, Flagged
    <2> QED
      BY <2>1, <2>2
  <1> HIDE DEF r4
  <1>6. /\ r5 \in Run /\ Flagged(r5) /\ r5.step = step /\ r5.outcome = outcome
        /\ r5.rounds = 0 /\ r5.failures = 0 /\ r5.clicks = 0
    <2>1. r5 \in Run
      BY <1>0, <1>5, SMT DEF Run
    <2>2. /\ Flagged(r5) /\ r5.step = step /\ r5.outcome = outcome
          /\ r5.rounds = 0 /\ r5.failures = 0 /\ r5.clicks = 0
      BY <1>5, SMT DEF Run, Flagged
    <2> QED
      BY <2>1, <2>2
  <1> HIDE DEF r5
  <1>7. /\ r6 \in Run /\ Flagged(r6) /\ r6.step = step /\ r6.outcome = outcome
        /\ r6.rounds = 0 /\ r6.failures = 0 /\ r6.clicks = 0 /\ r6.pressed = 0
    <2>1. r6 \in Run
      BY <1>0, <1>6, SMT DEF Run
    <2>2. /\ Flagged(r6) /\ r6.step = step /\ r6.outcome = outcome
          /\ r6.rounds = 0 /\ r6.failures = 0 /\ r6.clicks = 0 /\ r6.pressed = 0
      BY <1>6, SMT DEF Run, Flagged
    <2> QED
      BY <2>1, <2>2
  <1> HIDE DEF r6
  <1>8. /\ r7 \in Run /\ Flagged(r7) /\ r7.step = step /\ r7.outcome = outcome
        /\ r7.rounds = 0 /\ r7.failures = 0 /\ r7.clicks = 0 /\ r7.pressed = 0 /\ r7.accepted = FALSE
    <2>1. r7 \in Run
      BY <1>7, Flags
    <2>2. /\ Flagged(r7) /\ r7.step = step /\ r7.outcome = outcome
          /\ r7.rounds = 0 /\ r7.failures = 0 /\ r7.clicks = 0 /\ r7.pressed = 0 /\ r7.accepted = FALSE
      BY <1>7, SMT DEF Run, Flagged
    <2> QED
      BY <2>1, <2>2
  <1> HIDE DEF r7
  <1>9. run' \in Run
    BY <1>1, <1>8, Flags
  <1>10. Flagged(run') /\ Cleared(run') /\ run'.step = step /\ run'.outcome = outcome
    BY <1>1, <1>8, SMT DEF Run, Flagged, Cleared
  <1> QED
    BY <1>9, <1>10 DEF RunMoves

\* However a call ends, the faults left stay within their bound.
LEMMA FaultsLeft ==
    ASSUME faults \in 0..MaxFaults, Exhausted \/ CallFails \/ UNCHANGED faults
    PROVE  faults' \in 0..MaxFaults
  BY RunAssumption, SMT DEF RunAssumption, Exhausted, CallFails

-----------------------------------------------------------------------------
(* Two kinds of steps that need no look at the child.                      *)

Early == {"load", "generation", "mark", "session", "inputs", "open", "setup",
          "observe", "decide", "plan"}

\* Before it has a child, a run goes on or leaves; whatever it writes, the
\* invariant says nothing of a row that is not final yet.
LEMMA Advances ==
    ASSUME IInv, run.step \in Early,
           NEW step, NEW outcome, RunMoves(step, outcome),
           \/ step \in Early /\ outcome = run.outcome
           \/ step \in {"close", "report"} /\ outcome \in Terminal,
           row' \in Row, session' \in Session, faults' \in 0..MaxFaults,
           UNCHANGED <<action, child, orphans, pool, initiation, retries>>
    PROVE  IInv'
  <1>1. child.kind = "none" /\ child.step = "none"
    BY SMT DEF IInv, ChildInStep, Early
  <1>3. run.outcome # "paused" /\ outcome # "paused"
    BY SMT DEF IInv, RowReported, Early, Terminal
  <1>4. /\ run'.step = step /\ step \notin {"child", "settle", "settled"}
        /\ run'.outcome = outcome /\ run' \in Run
        /\ Flagged(run') /\ (Counted(run') \/ Cleared(run'))
    BY SMT DEF RunMoves, Early
  <1>5. RunTypeOK'
    BY <1>4, SMT DEF IInv, RunTypeOK
  <1>6. ChildInStep'
    BY <1>1, <1>4, SMT DEF ChildInStep
  <1>7. run.clicks <= run.failures + Allowed(run.pressed)
    BY DEF IInv, ClicksCounted, ClickDue, Early
  <1>8. ClicksCounted' /\ BelievedWasAccepted'
    BY <1>4, <1>7, CountsKept DEF IInv, RunTypeOK
  <1>9. PauseProgress'
    BY <1>1 DEF PauseProgress
  <1>10. RowReported' /\ PausedIsDurable'
    BY <1>3, <1>4 DEF RowReported, PausedIsDurable, Early
  <1> QED
    BY <1>5, <1>6, <1>8, <1>9, <1>10 DEF IInv

\* What happens outside the run leaves it as it is, and the row to its
\* writer; a user can only answer what is pending.
AnsweredOnly ==
    \A a \in Actions :
        \/ action'[a] = action[a]
        \/ action[a].state = "pending" /\ action'[a] = [action[a] EXCEPT !.state = "answered"]

\* A step that leaves the run where it is, and at most answers an action or
\* has somebody other than the run write the row, preserves the invariant.
LEMMA Outside ==
    ASSUME IInv, UNCHANGED <<session, child, orphans>>,
           run' \in Run, run'.step = run.step, run'.outcome = run.outcome, Kept(run'),
           row' \in Row, row' = row \/ row'.writer # "run",
           action' \in [Actions -> UserAction], AnsweredOnly,
           pool' \subseteq Start,
           initiation' \in {"reading", "queueing", "marking", "failing", "done"},
           faults' \in 0..MaxFaults, retries' \in 0..MaxRetries
    PROVE  IInv'
  <1>1. RunTypeOK'
    BY SMT DEF IInv, RunTypeOK
  <1>2. ChildInStep' /\ BelievedWasAccepted'
    BY DEF IInv, ChildInStep, BelievedWasAccepted, Kept, Counted
  <1>3. ClicksCounted'
    BY DEF IInv, ClicksCounted, ClickDue, Kept, Counted
  <1>5. \A a \in Actions :
            /\ \/ action'[a].state = action[a].state
               \/ action[a].state = "pending" /\ action'[a].state = "answered"
            /\ action'[a].generation = action[a].generation
            /\ action'[a].notified = action[a].notified
            /\ action'[a].committed = action[a].committed
    <2> TAKE a \in Actions
    <2>1. action[a] \in UserAction
      BY DEF IInv, RunTypeOK
    <2>2. CASE action'[a] = action[a]
      BY <2>2
    <2>3. CASE /\ action[a].state = "pending"
               /\ action'[a] = [action[a] EXCEPT !.state = "answered"]
      BY <2>1, <2>3, SMT DEF UserAction
    <2> QED
      BY <2>2, <2>3 DEF AnsweredOnly
  <1>6. \A a \in Actions : Stored(a) <=> Stored(a)'
    BY <1>5, SMT DEF Stored
  <1>7. PauseProgress'
    <2> SUFFICES ASSUME child.kind = "pause"
                 PROVE  PauseProgress'
      BY DEF PauseProgress
    <2>1. child.step \in {"notify", "close", "commit", "paused"} =>
              child.action \in Actions /\ Current(child.action)'
      BY <1>5, <1>6 DEF IInv, PauseProgress, Current
    <2>2. child.step \in {"close", "commit", "paused"} => Told(child.action)'
      BY <1>5, <1>6 DEF IInv, PauseProgress, Told
    <2>3. child.step = "paused" =>
            /\ ~session'.open
            /\ run'.robbed \/ (Stored(child.action)' /\ action'[child.action].committed)
      BY <1>5, <1>6 DEF IInv, PauseProgress, Kept, Flagged
    <2>4. child.step \notin {"block", "failed"} /\ row'.writer = "run" => row'.status = "blocked"
      BY DEF IInv, PauseProgress
    <2> QED
      BY <2>1, <2>2, <2>3, <2>4 DEF PauseProgress, Current, Told, Stored
  <1>8. RowReported'
    BY DEF IInv, RowReported, Kept, Flagged
  <1>9. PausedIsDurable'
    <2> SUFFICES ASSUME run.step \in {"settle", "settled"}, run.outcome = "paused", ~run.robbed
                 PROVE  PausedIsDurable'
      BY DEF IInv, PausedIsDurable, Kept, Flagged
    <2>1. PICK a \in Actions : /\ action[a].notified /\ action[a].committed
                               /\ action[a].state \in {"pending", "answered"}
                               /\ action[a].generation = session.generation
      BY DEF IInv, PausedIsDurable
    <2>2. ~session'.open
      BY DEF IInv, PausedIsDurable
    <2>3. /\ action'[a].notified /\ action'[a].committed
          /\ action'[a].state \in {"pending", "answered"}
          /\ action'[a].generation = session'.generation
      BY <1>5, <2>1
    <2> QED
      BY <2>2, <2>3 DEF PausedIsDurable
  <1> QED
    BY <1>1, <1>2, <1>3, <1>7, <1>8, <1>9 DEF IInv

\* A step that does not touch the run at all preserves it.
LEMMA Elsewhere ==
    ASSUME IInv, UNCHANGED <<session, child, orphans, run, action>>,
           row' \in Row, row' = row \/ row'.writer # "run",
           pool' \subseteq Start,
           initiation' \in {"reading", "queueing", "marking", "failing", "done"},
           faults' \in 0..MaxFaults, retries' \in 0..MaxRetries
    PROVE  IInv'
  <1>1. run' \in Run /\ action' \in [Actions -> UserAction]
    BY DEF IInv, RunTypeOK
  <1>2. AnsweredOnly /\ Kept(run')
    BY DEF AnsweredOnly, Kept, Counted, Flagged
  <1> QED
    BY <1>1, <1>2, Outside

Statuses == Terminal \cup {"pending", "queued", "processing", "blocked"}
\* Write leaves a row.
LEMMA Written ==
    ASSUME NEW status \in Statuses, NEW writer \in Writers, Write(status, writer)
    PROVE  row' \in Row /\ row'.writer = writer /\ row'.status = status
  BY DEF Write, Row, Statuses

\* The conjuncts of the typing, for the leaves that need one.
LEMMA TypesNow ==
    ASSUME IInv
    PROVE  /\ row \in Row /\ session \in Session /\ action \in [Actions -> UserAction]
           /\ run \in Run /\ child \in Child /\ pool \subseteq Start
           /\ initiation \in {"reading", "queueing", "marking", "failing", "done"}
           /\ orphans \subseteq Orphan
           /\ faults \in 0..MaxFaults /\ retries \in 0..MaxRetries
  BY DEF IInv, RunTypeOK

\* InitiateApplicationWorkflow writes the row beside the run, never as the run.
LEMMA InitiatePreserves == ASSUME IInv, Initiate PROVE IInv'
  <1>1. CASE ReadPosting
    <2>1. UNCHANGED <<session, child, orphans, run, action, row, pool, faults, retries>>
      BY <1>1 DEF ReadPosting, initiationOnly
    <2>2. initiation' \in {"queueing", "failing"}
      BY <1>1 DEF ReadPosting
    <2> QED
      BY <2>1, <2>2, TypesNow, Elsewhere
  <1>2. CASE QueueApplication
    <2>1. UNCHANGED <<session, child, orphans, run, action, row, retries>>
      BY <1>2 DEF QueueApplication, initiationOnly
    <2>2. initiation' \in {"marking", "failing"} /\ (UNCHANGED faults \/ Exhausted)
      BY <1>2 DEF QueueApplication
    <2>3. [resume |-> None, fresh |-> FALSE] \in Start
      BY DEF Start
    <2>4. pool' \subseteq Start
      BY <1>2, <2>3, TypesNow DEF QueueApplication
    <2>5. faults' \in 0..MaxFaults
      BY <2>2, TypesNow, FaultsLeft
    <2> QED
      BY <2>1, <2>2, <2>4, <2>5, TypesNow, Elsewhere
  <1>3. CASE MarkQueued
    <2>1. UNCHANGED <<session, child, orphans, run, action, pool, retries>>
      BY <1>3 DEF MarkQueued, initiationOnly
    <2>2. initiation' \in {"done", "failing"} /\ (UNCHANGED faults \/ Exhausted)
      BY <1>3 DEF MarkQueued
    <2>3. UNCHANGED row \/ Write("queued", "initiation")
      BY <1>3 DEF MarkQueued
    <2>4. row' \in Row /\ (row' = row \/ row'.writer # "run")
      BY <2>3, TypesNow, Written DEF Statuses, Writers
    <2>5. faults' \in 0..MaxFaults
      BY <2>2, TypesNow, FaultsLeft
    <2> QED
      BY <2>1, <2>2, <2>4, <2>5, TypesNow, Elsewhere
  <1>4. CASE MarkFailed
    <2>1. UNCHANGED <<session, child, orphans, run, action, pool, retries>>
      BY <1>4 DEF MarkFailed, initiationOnly
    <2>2. initiation' = "done" /\ (UNCHANGED faults \/ Exhausted)
      BY <1>4 DEF MarkFailed
    <2>3. UNCHANGED row \/ Write("failed", "initiation")
      BY <1>4 DEF MarkFailed
    <2>4. row' \in Row /\ (row' = row \/ row'.writer # "run")
      BY <2>3, TypesNow, Written DEF Statuses, Terminal, Writers
    <2>5. faults' \in 0..MaxFaults
      BY <2>2, TypesNow, FaultsLeft
    <2> QED
      BY <2>1, <2>2, <2>4, <2>5, TypesNow, Elsewhere
  <1> QED
    BY <1>1, <1>2, <1>3, <1>4 DEF Initiate

\* A cancellation, the timer or nothing at all, as seen by the run.
LEMMA Disturbed ==
    ASSUME run \in Run,
           \/ run' = run
           \/ run' = [run EXCEPT !.cancelling = TRUE]
           \/ run' = [run EXCEPT !.cancelled = TRUE, !.cancelling = FALSE]
           \/ run' = [run EXCEPT !.timedOut = TRUE]
    PROVE  /\ run' \in Run /\ Kept(run')
           /\ run'.step = run.step /\ run'.outcome = run.outcome
  <1>1. CASE run' = run
    BY <1>1 DEF Kept, Counted, Flagged
  <1>2. CASE run' = [run EXCEPT !.cancelling = TRUE]
    <2>1. run' \in Run
      BY <1>2, Flags
    <2>2. Kept(run') /\ run'.step = run.step /\ run'.outcome = run.outcome
      BY <1>2, SMT DEF Run, Kept, Counted, Flagged
    <2> QED
      BY <2>1, <2>2
  <1>3. CASE run' = [run EXCEPT !.cancelled = TRUE, !.cancelling = FALSE]
    <2> DEFINE middle == [run EXCEPT !.cancelled = TRUE]
    <2>1. middle \in Run
      BY Flags
    <2>2. run' = [middle EXCEPT !.cancelling = FALSE]
      BY <1>3, SMT DEF Run
    <2> HIDE DEF middle
    <2>3. run' \in Run
      BY <2>1, <2>2, Flags
    <2>4. Kept(run') /\ run'.step = run.step /\ run'.outcome = run.outcome
      BY <1>3, SMT DEF Run, Kept, Counted, Flagged
    <2> QED
      BY <2>3, <2>4
  <1>4. CASE run' = [run EXCEPT !.timedOut = TRUE]
    <2>1. run' \in Run
      BY <1>4, Flags
    <2>2. Kept(run') /\ run'.step = run.step /\ run'.outcome = run.outcome
      BY <1>4, SMT DEF Run, Kept, Counted, Flagged
    <2> QED
      BY <2>1, <2>2
  <1> QED
    BY <1>1, <1>2, <1>3, <1>4

\* Cancelling, receiving the cancellation and the soft timer.
LEMMA InterruptionPreserves ==
    ASSUME IInv, Cancel \/ ReceiveCancel \/ TimeOut PROVE IInv'
  <1>1. UNCHANGED <<session, action, initiation, child, orphans, faults, retries>>
    BY DEF Cancel, ReceiveCancel, TimeOut
  <1>2. \/ run' = run
        \/ run' = [run EXCEPT !.cancelling = TRUE]
        \/ run' = [run EXCEPT !.cancelled = TRUE, !.cancelling = FALSE]
        \/ run' = [run EXCEPT !.timedOut = TRUE]
    BY DEF Cancel, ReceiveCancel, TimeOut
  <1>3. UNCHANGED row \/ Write("cancelled", "api")
    BY DEF Cancel, ReceiveCancel, TimeOut
  <1>4. row' \in Row /\ (row' = row \/ row'.writer # "run")
    BY <1>3, TypesNow, Written DEF Statuses, Terminal, Writers
  <1>5. pool' = pool \/ pool' = {}
    BY DEF Cancel, ReceiveCancel, TimeOut
  <1>6. pool' \subseteq Start
    BY <1>5, TypesNow
  <1>7. AnsweredOnly
    BY <1>1 DEF AnsweredOnly
  <1> QED
    BY <1>1, <1>2, <1>4, <1>6, <1>7, TypesNow, Disturbed, Outside

\* An answer changes the state of an action that stays there to be answered.
LEMMA AnswerPreserves == ASSUME IInv, NEW a \in Actions, Answer(a) PROVE IInv'
  <1>1. UNCHANGED <<row, session, initiation, run, child, orphans, faults, retries>>
    BY DEF Answer
  <1>2. action[a].state = "pending" /\ action' = [action EXCEPT ![a].state = "answered"]
    BY DEF Answer
  <1>3. action[a] \in UserAction /\ action \in [Actions -> UserAction]
    BY TypesNow
  <1>4. [action[a] EXCEPT !.state = "answered"] \in UserAction
    BY <1>3, SMT DEF UserAction
  <1>5. action' = [action EXCEPT ![a] = [action[a] EXCEPT !.state = "answered"]]
    BY <1>2
  <1>6. action' \in [Actions -> UserAction] /\ AnsweredOnly
    BY <1>2, <1>3, <1>4, <1>5 DEF AnsweredOnly
  <1>7. [resume |-> a, fresh |-> FALSE] \in Start
    BY DEF Start
  <1>8. pool' \subseteq Start
    BY <1>7, TypesNow DEF Answer
  <1>9. Kept(run')
    BY <1>1 DEF Kept, Counted, Flagged
  <1> QED
    BY <1>1, <1>6, <1>8, <1>9, TypesNow, Outside

\* A retry queues a new run and writes the row for the user.
LEMMA RetryPreserves == ASSUME IInv, Retry PROVE IInv'
  <1>1. UNCHANGED <<session, action, initiation, run, child, orphans, faults>>
    BY DEF Retry
  <1>2. row' \in Row /\ row'.writer = "api"
    BY Written DEF Retry, Statuses, Writers
  <1>3. retries' \in 0..MaxRetries
    BY RunAssumption, TypesNow, SMT DEF Retry, RunAssumption
  <1>4. [resume |-> None, fresh |-> TRUE] \in Start
    BY DEF Start
  <1>5. pool' \subseteq Start
    BY <1>4, TypesNow DEF Retry
  <1> QED
    BY <1>1, <1>2, <1>3, <1>5, TypesNow, Elsewhere

\* The pool starts a run afresh: nothing of the last one is left in it.
LEMMA StartRunPreserves == ASSUME IInv, NEW start \in Start, StartRun(start) PROVE IInv'
  <1>1. UNCHANGED <<row, session, action, initiation, child, orphans, faults, retries>>
    BY DEF StartRun
  <1>2. run' = NewRun(start, "load") /\ pool' = pool \ {start} /\ run.step \in {"none", "settled"}
    BY DEF StartRun, Live
  <1>3. run' \in Run
    BY <1>2, RunAssumption, SMT DEF NewRun, Run, RunSteps, RunAssumption
  <1>4. /\ run'.step = "load" /\ run'.clicks = 0 /\ run'.failures = 0
        /\ run'.pressed = 0 /\ run'.outcome = None /\ run'.believed = FALSE
    BY <1>2 DEF NewRun
  <1>5. Allowed(run'.pressed) = 0
    BY <1>4, AllowedGrows
  <1>6. child.kind = "none" /\ child.step = "none"
    BY <1>2, SMT DEF IInv, ChildInStep
  <1>7. RunTypeOK'
    BY <1>1, <1>2, <1>3, TypesNow DEF RunTypeOK
  <1>8. ChildInStep' /\ ClicksCounted' /\ PauseProgress'
    BY <1>1, <1>4, <1>5, <1>6, SMT DEF ChildInStep, ClicksCounted, PauseProgress
  <1>9. BelievedWasAccepted' /\ PausedIsDurable'
    BY <1>4 DEF BelievedWasAccepted, PausedIsDurable
  <1>10. RowReported'
    BY <1>4, RunAssumption DEF RowReported, RunAssumption
  <1> QED
    BY <1>7, <1>8, <1>9, <1>10 DEF IInv

-----------------------------------------------------------------------------
(* The run before it has a child.                                          *)

\* What opening, closing and a new generation make of a session.
LEMMA SessionBecomes ==
    ASSUME NEW s \in Session, NEW b \in BOOLEAN
    PROVE  /\ [s EXCEPT !.open = b] \in Session
           /\ [s EXCEPT !.generation = @ + 1] \in Session
           /\ [s EXCEPT !.open = b].open = b
           /\ [s EXCEPT !.open = b].generation = s.generation
  BY SMT DEF Session

\* A run that returns before it could report records nothing.
LEMMA GivesUp ==
    ASSUME IInv, run.step \in Early, GiveUp, faults' \in 0..MaxFaults,
           UNCHANGED <<row, session, action, child, orphans, pool, initiation, retries>>
    PROVE  IInv'
  <1> DEFINE middle == [run EXCEPT !.step = "settle"]
             failed == [middle EXCEPT !.outcome = "failed"]
  <1>1. run \in Run
    BY TypesNow
  <1>2. middle \in Run /\ Kept(middle) /\ middle.step = "settle"
    <2>1. "settle" \in RunSteps
      BY DEF RunSteps
    <2>2. middle \in Run
      BY <1>1, <2>1, SMT DEF Run
    <2>3. Kept(middle) /\ middle.step = "settle"
      BY <1>1, SMT DEF Run, Kept, Counted, Flagged
    <2> QED
      BY <2>2, <2>3
  <1> HIDE DEF middle
  <1>3. failed \in Run /\ Kept(failed) /\ failed.step = "settle" /\ failed.outcome = "failed"
    <2>1. "failed" \in Terminal \cup {"paused", None}
      BY DEF Terminal
    <2>2. failed \in Run
      BY <1>2, <2>1, SMT DEF Run
    <2>3. Kept(failed) /\ failed.step = "settle" /\ failed.outcome = "failed"
      BY <1>2, SMT DEF Run, Kept, Counted, Flagged
    <2> QED
      BY <2>2, <2>3
  <1>4. run' = [failed EXCEPT !.recorded = FALSE]
    BY <1>1, SMT DEF GiveUp, middle, Run
  <1> HIDE DEF failed
  <1>5. run' \in Run
    BY <1>3, <1>4, Flags
  <1>6. /\ run'.step = "settle" /\ run'.outcome = "failed" /\ run'.recorded = FALSE
        /\ Counted(run')
    BY <1>3, <1>4, SMT DEF Run, Kept, Counted, Flagged
  <1>7. child.kind = "none" /\ child.step = "none"
    BY SMT DEF IInv, ChildInStep, Early
  <1>8. RunTypeOK'
    BY <1>5, TypesNow DEF RunTypeOK
  <1>9. ChildInStep' /\ PauseProgress'
    BY <1>6, <1>7 DEF ChildInStep, PauseProgress
  <1>10. ClicksCounted' /\ BelievedWasAccepted'
    BY <1>1, <1>5, <1>6, CountsKept DEF IInv, ClickDue
  <1>11. RowReported' /\ PausedIsDurable'
    BY <1>6 DEF RowReported, PausedIsDurable
  <1> QED
    BY <1>8, <1>9, <1>10, <1>11 DEF IInv

\* A run that starts a child goes with the first step of that child.
LEMMA Begins ==
    ASSUME IInv, run.step \in Early, RunMoves("child", run.outcome), Kept(run'),
           Begin("submit", "click") \/ Begin("pause", "block"), faults' \in 0..MaxFaults,
           UNCHANGED <<row, session, action, orphans, pool, initiation, retries>>
    PROVE  IInv'
  <1>1. /\ \/ child'.kind = "submit" /\ child'.step = "click"
           \/ child'.kind = "pause" /\ child'.step = "block"
        /\ child' \in Child
    <2>1. \/ child' = [kind |-> "submit", step |-> "click", action |-> None]
          \/ child' = [kind |-> "pause", step |-> "block", action |-> None]
      BY DEF Begin
    <2>2. "click" \in ChildSteps /\ "block" \in ChildSteps
      BY DEF ChildSteps, SubmitSteps, PauseSteps
    <2> QED
      BY <2>1, <2>2 DEF Child
  <1>2. run.outcome # "paused" /\ run.clicks <= run.failures + Allowed(run.pressed)
    BY DEF IInv, RowReported, ClicksCounted, ClickDue, Early
  <1>3. run' \in Run /\ run'.step = "child" /\ run'.outcome # "paused"
    BY <1>2 DEF RunMoves
  <1>4. RunTypeOK'
    BY <1>1, <1>3, TypesNow DEF RunTypeOK
  <1>5. ChildInStep'
    BY <1>1, <1>3 DEF ChildInStep, SubmitSteps, PauseSteps
  <1>6. ClicksCounted' /\ BelievedWasAccepted'
    BY <1>2, <1>3, TypesNow, CountsKept DEF IInv, Kept
  <1>7. PauseProgress'
    BY <1>1 DEF PauseProgress
  <1>8. RowReported' /\ PausedIsDurable'
    BY <1>3 DEF RowReported, PausedIsDurable
  <1> QED
    BY <1>4, <1>5, <1>6, <1>7, <1>8 DEF IInv

\* GetJobApplication and resolveApplicationBrowserID.
LEMMA LoadApplicationPreserves == ASSUME IInv, LoadApplication PROVE IInv'
  <1>1. /\ run.step = "load"
        /\ UNCHANGED <<row, session, action, child, orphans, pool, initiation, retries>>
    BY DEF LoadApplication, outside
  <1>2. CASE Goto("generation") /\ UNCHANGED faults
    BY <1>1, <1>2, TypesNow, Gone, Advances DEF Early, RunSteps
  <1>3. CASE Exhausted /\ GiveUp
    BY <1>1, <1>3, TypesNow, FaultsLeft, GivesUp DEF Early
  <1> QED
    BY <1>2, <1>3 DEF LoadApplication

\* A new replay generation.
LEMMA BeginGenerationPreserves == ASSUME IInv, BeginGeneration PROVE IInv'
  <1>1. run.step = "generation" /\ UNCHANGED <<row, action, child, orphans, pool, initiation, retries>>
    BY DEF BeginGeneration, outside
  <1>2. CASE /\ Goto("mark") /\ UNCHANGED faults
             /\ session' = IF run.start.fresh
                           THEN [session EXCEPT !.generation = @ + 1] ELSE session
    <2>1. session' \in Session
      BY <1>2, TypesNow, SessionBecomes
    <2> QED
      BY <1>1, <1>2, <2>1, TypesNow, Gone, Advances DEF Early, RunSteps
  <1>3. CASE Exhausted /\ GiveUp /\ UNCHANGED session
    BY <1>1, <1>3, TypesNow, FaultsLeft, GivesUp DEF Early
  <1> QED
    BY <1>2, <1>3 DEF BeginGeneration

\* The status processing, whose failure is only logged.
LEMMA MarkProcessingPreserves == ASSUME IInv, MarkProcessing PROVE IInv'
  <1>1. /\ run.step = "mark" /\ Goto("session")
        /\ UNCHANGED <<session, action, child, orphans, pool, initiation, retries>>
    BY DEF MarkProcessing, outside
  <1>2. UNCHANGED row \/ Write("processing", "run")
    BY DEF MarkProcessing
  <1>3. row' \in Row
    BY <1>2, TypesNow, Written DEF Statuses, Writers
  <1>4. faults' \in 0..MaxFaults
    BY TypesNow, FaultsLeft DEF MarkProcessing
  <1> QED
    BY <1>1, <1>3, <1>4, TypesNow, Gone, Advances DEF Early, RunSteps

\* CreateSession and loadApplicationInputs.
LEMMA PreparePreserves == ASSUME IInv, CreateSession \/ LoadInputs PROVE IInv'
  <1>1. /\ run.step \in {"session", "inputs"}
        /\ UNCHANGED <<row, session, action, child, orphans, pool, initiation, retries>>
    BY DEF CreateSession, LoadInputs, Prepare, outside
  <1>2. \/ UNCHANGED faults /\ (Goto("inputs") \/ Goto("open"))
        \/ CallFails /\ End("report", "failed")
    BY DEF CreateSession, LoadInputs, Prepare
  <1>3. faults' \in 0..MaxFaults
    BY <1>2, TypesNow, FaultsLeft
  <1>4. CASE Goto("inputs")
    BY <1>1, <1>3, <1>4, TypesNow, Gone, Advances DEF Early, RunSteps
  <1>5. CASE Goto("open")
    BY <1>1, <1>3, <1>5, TypesNow, Gone, Advances DEF Early, RunSteps
  <1>6. CASE End("report", "failed")
    BY <1>1, <1>3, <1>6, TypesNow, Ended, Advances DEF Early, RunSteps, Outcomes, Terminal
  <1> QED
    BY <1>2, <1>4, <1>5, <1>6

\* A run that leaves executeJobApplication with an outcome.
LEMMA Leaves ==
    ASSUME IInv, run.step \in Early, NEW outcome \in Terminal, Leave(outcome),
           session' \in Session, faults' \in 0..MaxFaults,
           UNCHANGED <<row, action, child, orphans, pool, initiation, retries>>
    PROVE  IInv'
  <1>1. RunMoves("close", outcome)
    BY TypesNow, Ended DEF Leave, RunSteps, Outcomes
  <1> QED
    BY <1>1, TypesNow, Advances

\* openApplicationPage.
LEMMA OpenPagePreserves == ASSUME IInv, OpenPage PROVE IInv'
  <1>1. run.step = "open" /\ UNCHANGED <<row, action, child, orphans, pool, initiation, retries>>
    BY DEF OpenPage, outside
  <1>2. session' = session \/ session' = [session EXCEPT !.open = TRUE]
    BY DEF OpenPage
  <1>3. session' \in Session
    BY <1>2, TypesNow, SessionBecomes
  <1>4. faults' \in 0..MaxFaults
    BY TypesNow, FaultsLeft DEF OpenPage
  <1>5. CASE Goto("setup")
    BY <1>1, <1>3, <1>4, <1>5, TypesNow, Gone, Advances DEF Early, RunSteps
  <1>6. CASE Leave("failed")
    BY <1>1, <1>3, <1>4, <1>6, Leaves DEF Early, Terminal
  <1> QED
    BY <1>5, <1>6 DEF OpenPage

\* finishSessionSetup.
LEMMA FinishSetupPreserves == ASSUME IInv, FinishSetup PROVE IInv'
  <1>1. /\ run.step = "setup"
        /\ UNCHANGED <<row, session, action, child, orphans, pool, initiation, retries>>
    BY DEF FinishSetup, outside
  <1>2. faults' \in 0..MaxFaults
    BY TypesNow, FaultsLeft DEF FinishSetup
  <1>3. CASE Goto("observe")
    BY <1>1, <1>2, <1>3, TypesNow, Gone, Advances DEF Early, RunSteps
  <1>4. CASE Leave("failed")
    BY <1>1, <1>2, <1>4, TypesNow, Leaves DEF Early, Terminal
  <1> QED
    BY <1>3, <1>4 DEF FinishSetup

\* captureSolvedScreenshot and runJevFlow; a round is counted only below the limit.
LEMMA ObservePreserves == ASSUME IInv, Observe PROVE IInv'
  <1>1. /\ run.step = "observe"
        /\ UNCHANGED <<row, session, action, child, orphans, pool, initiation, retries>>
    BY DEF Observe, outside
  <1>2. faults' \in 0..MaxFaults
    BY TypesNow, FaultsLeft DEF Observe
  <1>3. CASE /\ run.rounds < MaxAgentIterations
             /\ run' = [run EXCEPT !.step = "decide", !.rounds = @ + 1]
    <2> DEFINE middle == [run EXCEPT !.step = "decide"]
    <2>2. middle \in Run /\ Kept(middle) /\ middle.step = "decide"
          /\ middle.rounds = run.rounds /\ middle.outcome = run.outcome
      <3>1. run \in Run /\ "decide" \in RunSteps
        BY TypesNow DEF RunSteps
      <3>2. middle \in Run
        BY <3>1, SMT DEF Run
      <3>3. Kept(middle) /\ middle.step = "decide"
            /\ middle.rounds = run.rounds /\ middle.outcome = run.outcome
        BY <3>1, SMT DEF Run, Kept, Counted, Flagged
      <3> QED
        BY <3>2, <3>3
    <2>3. run' = [middle EXCEPT !.rounds = run.rounds + 1]
      BY <1>3, TypesNow, SMT DEF Run
    <2> HIDE DEF middle
    <2>4. run.rounds + 1 \in 0..MaxAgentIterations
      BY <1>3, TypesNow, RunAssumption, SMT DEF Run, RunAssumption
    <2>5. run' \in Run
      BY <2>2, <2>3, <2>4, SMT DEF Run
    <2>6. Kept(run') /\ run'.step = "decide" /\ run'.outcome = run.outcome
      BY <2>2, <2>3, SMT DEF Run, Kept, Counted, Flagged
    <2> QED
      BY <1>1, <1>2, <2>5, <2>6, TypesNow, Advances DEF Early, RunMoves, Kept
  <1>4. CASE Leave("failed")
    BY <1>1, <1>2, <1>4, TypesNow, Leaves DEF Early, Terminal
  <1> QED
    BY <1>3, <1>4 DEF Observe

\* decideSubmit starts the submit child or leaves it to the planner.
LEMMA DecideSubmitPreserves == ASSUME IInv, DecideSubmit PROVE IInv'
  <1>1. /\ run.step = "decide"
        /\ UNCHANGED <<row, session, action, orphans, faults, pool, initiation, retries>>
    BY DEF DecideSubmit, outside
  <1>2. CASE Goto("child") /\ Begin("submit", "click")
    BY <1>1, <1>2, TypesNow, Gone, Begins DEF Early, RunSteps
  <1>3. CASE Goto("plan") /\ UNCHANGED child
    BY <1>1, <1>3, TypesNow, Gone, Advances DEF Early, RunSteps
  <1> QED
    BY <1>2, <1>3 DEF DecideSubmit

\* However often the planner's click is tried, it is allowed for.
LEMMA Pressed ==
    ASSUME IInv, run.step = "plan", PressSubmit, faults' \in 0..MaxFaults,
           UNCHANGED <<row, session, action, child, orphans, pool, initiation, retries>>
    PROVE  IInv'
  <1>1. PICK attempts \in 1..ClickAttempts, accepted \in {run.accepted, TRUE} :
            run' = [run EXCEPT !.step = "observe", !.clicks = @ + attempts,
                               !.pressed = @ + 1, !.accepted = accepted]
    BY DEF PressSubmit
  <1> DEFINE start == [run EXCEPT !.step = "observe"]
             first == [start EXCEPT !.clicks = @ + attempts]
             second == [first EXCEPT !.pressed = @ + 1]
  <1>2. run \in Run /\ "observe" \in RunSteps /\ run.clicks \in Nat /\ run.pressed \in Nat
        /\ run.failures \in Nat /\ run.clicks + attempts \in Nat
        /\ accepted \in BOOLEAN /\ (run.accepted => accepted)
    <2>1. run \in Run /\ "observe" \in RunSteps
      BY TypesNow DEF RunSteps
    <2>2. accepted \in BOOLEAN /\ (run.accepted => accepted)
      BY <2>1 DEF Run
    <2>3. run.clicks \in Nat /\ run.pressed \in Nat /\ run.failures \in Nat
      BY <2>1, RunAssumption, SMT DEF Run, RunAssumption
    <2>4. attempts \in Nat
      BY RunAssumption, SMT DEF RunAssumption
    <2>5. run.clicks + attempts \in Nat
      BY <2>3, <2>4, SMT
    <2> QED
      BY <2>1, <2>2, <2>3, <2>5
  <1>4. run' = [second EXCEPT !.accepted = accepted]
    BY <1>1, <1>2, SMT DEF Run
  <1>15. start \in Run /\ start.step = "observe" /\ start.clicks = run.clicks
         /\ start.pressed = run.pressed /\ start.failures = run.failures
         /\ start.outcome = run.outcome /\ start.believed = run.believed
    <2>1. start \in Run
      BY <1>2, SMT DEF Run
    <2> QED
      BY <1>2, <2>1, SMT DEF Run
  <1> HIDE DEF start
  <1>3. first \in Run /\ first.step = "observe" /\ first.clicks = run.clicks + attempts
        /\ first.pressed = run.pressed /\ first.failures = run.failures
        /\ first.outcome = run.outcome /\ first.believed = run.believed
    <2>1. first \in Run
      BY <1>2, <1>15, SMT DEF Run
    <2> QED
      BY <1>2, <1>15, <2>1, SMT DEF Run
  <1> HIDE DEF first
  <1>5. second \in Run /\ second.step = first.step /\ second.clicks = first.clicks
        /\ second.pressed = run.pressed + 1 /\ second.failures = first.failures
        /\ second.outcome = first.outcome /\ second.believed = first.believed
    BY <1>2, <1>3, SMT DEF Run
  <1> HIDE DEF second
  <1>6. run' \in Run
    BY <1>2, <1>4, <1>5, Flags
  <1>7. /\ run'.step = second.step /\ run'.clicks = second.clicks
        /\ run'.pressed = second.pressed /\ run'.failures = second.failures
        /\ run'.outcome = second.outcome /\ run'.believed = second.believed
        /\ run'.accepted = accepted
    BY <1>4, <1>5, SMT DEF Run
  <1>8. child.kind = "none" /\ child.step = "none" /\ run.outcome # "paused"
    BY SMT DEF IInv, ChildInStep, RowReported
  <1>9. run.clicks <= run.failures + Allowed(run.pressed)
    BY DEF IInv, ClicksCounted, ClickDue
  <1>10. ClicksCounted'
    <2>1. /\ Allowed(run.pressed) \in Nat
          /\ Allowed(run'.pressed) = Allowed(run.pressed) + ClickAttempts
      BY <1>2, <1>5, <1>7, AllowedGrows
    <2>2. run'.clicks = run.clicks + attempts /\ run'.failures = run.failures
      BY <1>3, <1>5, <1>7
    <2>3. attempts <= ClickAttempts /\ attempts \in Nat /\ ClickAttempts \in Nat
      BY RunAssumption, SMT DEF RunAssumption
    <2>4. run'.clicks <= run'.failures + Allowed(run'.pressed)
      BY <1>2, <1>9, <2>1, <2>2, <2>3, SMT
    <2>5. run'.clicks <= run'.failures + 1 + Allowed(run'.pressed)
      BY <1>2, <1>9, <2>1, <2>2, <2>3, SMT
    <2> QED
      BY <2>4, <2>5 DEF ClicksCounted
  <1>11. BelievedWasAccepted'
    BY <1>2, <1>3, <1>5, <1>7 DEF IInv, BelievedWasAccepted
  <1>12. RunTypeOK'
    BY <1>6, TypesNow DEF RunTypeOK
  <1>13. ChildInStep' /\ PauseProgress'
    BY <1>3, <1>5, <1>7, <1>8 DEF ChildInStep, PauseProgress
  <1>14. RowReported' /\ PausedIsDurable'
    BY <1>3, <1>5, <1>7, <1>8 DEF RowReported, PausedIsDurable
  <1> QED
    BY <1>10, <1>11, <1>12, <1>13, <1>14 DEF IInv

\* planAndAct ends the run, starts the pause or goes round again.
LEMMA PlanAndActPreserves == ASSUME IInv, PlanAndAct PROVE IInv'
  <1>1. run.step = "plan" /\ UNCHANGED <<row, session, action, orphans, pool, initiation, retries>>
    BY DEF PlanAndAct, outside
  <1>2. faults' \in 0..MaxFaults
    BY TypesNow, FaultsLeft DEF PlanAndAct
  <1>3. CASE UNCHANGED child /\ \E outcome \in {"applied", "failed", "halted"} : Leave(outcome)
    <2>1. PICK outcome \in {"applied", "failed", "halted"} : Leave(outcome)
      BY <1>3
    <2>2. outcome \in Terminal
      BY <2>1 DEF Terminal
    <2> QED
      BY <1>1, <1>2, <1>3, <2>1, <2>2, TypesNow, Leaves DEF Early
  <1>4. CASE UNCHANGED child /\ Goto("observe")
    BY <1>1, <1>2, <1>4, TypesNow, Gone, Advances DEF Early, RunSteps
  <1>5. CASE Goto("child") /\ Begin("pause", "block")
    BY <1>1, <1>2, <1>5, TypesNow, Gone, Begins DEF Early, RunSteps
  <1>6. CASE UNCHANGED child /\ PressSubmit
    BY <1>1, <1>2, <1>6, Pressed
  <1>7. CASE UNCHANGED child /\ Leave("failed")
    BY <1>1, <1>2, <1>7, TypesNow, Leaves DEF Early, Terminal
  <1> QED
    BY <1>3, <1>4, <1>5, <1>6, <1>7 DEF PlanAndAct

-----------------------------------------------------------------------------
(* The submit child, and what its verdicts rest on.                        *)

\* The best request is one of the captured ones, or none.
LEMMA BestIsOne ==
    ASSUME NEW requests \in BoundedSeq(Request, 2)
    PROVE  \/ BestSubmitRequest(requests) = NoRequest
           \/ \E i \in DOMAIN requests : BestSubmitRequest(requests) = requests[i]
  <1> DEFINE answered == {i \in DOMAIN requests : requests[i].status # 0}
             documents == {i \in answered : requests[i].document}
             candidates == IF documents # {} THEN documents ELSE answered
  <1>1. DOMAIN requests \subseteq {1, 2}
    <2>1. PICK n \in 0..2 : requests \in [1..n -> Request]
      BY DEF BoundedSeq, SeqOf
    <2> QED
      BY <2>1, SMT
  <1>2. CASE candidates = {}
    BY <1>2 DEF BestSubmitRequest
  <1>3. CASE candidates # {}
    <2>1. candidates \subseteq {1, 2} /\ candidates \subseteq DOMAIN requests
      BY <1>1
    <2> HIDE DEF candidates
    <2>2. \E i \in candidates : \A j \in candidates : j <= i
      <3>1. CASE 2 \in candidates
        <4>1. \A j \in candidates : j <= 2
          BY <2>1, SMT
        <4> QED
          BY <3>1, <4>1
      <3>2. CASE 2 \notin candidates
        <4>1. 1 \in candidates /\ \A j \in candidates : j = 1
          BY <1>3, <2>1, <3>2
        <4>2. \A j \in candidates : j <= 1
          BY <4>1, SMT
        <4> QED
          BY <4>1, <4>2
      <3> QED
        BY <3>1, <3>2
    <2>3. (CHOOSE i \in candidates : \A j \in candidates : j <= i) \in candidates
      BY <2>2
    <2> QED
      BY <1>3, <2>1, <2>3 DEF BestSubmitRequest, candidates
  <1> QED
    BY <1>2, <1>3

\* A form that was refused, and shows it, is not taken for a submitted one.
LEMMA RefusalSeen == "submitted" \notin Verdicts[FALSE]
  <1> SUFFICES ASSUME NEW e \in Evidence, ShownByRejection(e)
               PROVE  Decide(e) # "submitted"
    BY DEF Verdicts
  <1> DEFINE best == BestSubmitRequest(e.requests)
  <1>1. e.requests \in BoundedSeq(Request, 2)
    BY DEF Evidence
  <1>2. CASE e.errors
    <2>1. Succeeded(best) => Decide(e) = "ask"
      BY <1>2 DEF Decide, Rejected, Succeeded
    <2>2. ~Succeeded(best) => Decide(e) = "not submitted"
      BY <1>2 DEF Decide
    <2> QED
      BY <2>1, <2>2
  <1>3. CASE ~e.errors
    <2>1. /\ ~e.text
          /\ \A i \in DOMAIN e.requests : ~Succeeded(e.requests[i])
      BY <1>3 DEF ShownByRejection
    <2>2. ~Succeeded(NoRequest)
      BY SMT DEF Succeeded, NoRequest
    <2>3. ~Succeeded(best)
      BY <1>1, <2>1, <2>2, BestIsOne
    <2>4. Decide(e) = IF Rejected(best) THEN "not submitted" ELSE "ask"
      BY <1>3, <2>1, <2>3 DEF Decide
    <2> QED
      BY <2>4
  <1> QED
    BY <1>2, <1>3

\* ChildGoes moves a child to a step and changes nothing else of it.
LEMMA ChildBecomes ==
    ASSUME child \in Child, NEW step \in ChildSteps, ChildGoes(step)
    PROVE  /\ child' \in Child /\ child'.step = step
           /\ child'.kind = child.kind /\ child'.action = child.action
  BY SMT DEF ChildGoes, Child

\* A step of the submit child that has not clicked yet, or has.
LEMMA SubmitMoves ==
    ASSUME IInv, child.kind = "submit", child.step \in SubmitSteps,
           NEW step \in {"verify", "submitted", "rejected", "failed"}, ChildGoes(step),
           run' \in Run, run'.step = run.step, run'.outcome = run.outcome,
           run'.failures = run.failures, run'.recorded = run.recorded,
           run'.pressed = run.pressed,
           \/ run'.clicks = run.clicks
           \/ child.step = "click" /\ run'.clicks = run.clicks + 1,
           run'.believed => run'.accepted,
           faults' \in 0..MaxFaults,
           UNCHANGED <<row, session, action, orphans, pool, initiation, retries>>
    PROVE  IInv'
  <1>1. run.step = "child"
    BY DEF IInv, ChildInStep
  <1>2. child' \in Child /\ child'.step = step /\ child'.kind = "submit"
    BY TypesNow, ChildBecomes DEF ChildSteps, SubmitSteps
  <1>3. run.outcome # "paused"
    BY <1>1 DEF IInv, RowReported
  <1>4. RunTypeOK'
    BY <1>2, TypesNow DEF RunTypeOK
  <1>5. ChildInStep'
    BY <1>1, <1>2 DEF ChildInStep, SubmitSteps
  <1>6. run.clicks \in Nat /\ run.failures \in Nat /\ Allowed(run.pressed) \in Nat
    <2>1. run.clicks \in Nat /\ run.failures \in Nat /\ run.pressed \in Nat
      BY RunAssumption, TypesNow, SMT DEF Run, RunAssumption
    <2> QED
      BY <2>1, AllowedGrows
  <1>7. /\ run.clicks <= run.failures + 1 + Allowed(run.pressed)
        /\ child.step = "click" => run.clicks <= run.failures + Allowed(run.pressed)
    BY <1>1 DEF IInv, ClicksCounted, ClickDue
  <1>8. ClicksCounted'
    <2>1. run'.clicks <= run'.failures + 1 + Allowed(run'.pressed)
      BY <1>6, <1>7, SMT
    <2>2. ~ClickDue'
      BY <1>1, <1>2 DEF ClickDue
    <2> QED
      BY <2>1, <2>2 DEF ClicksCounted
  <1>9. PauseProgress'
    BY <1>2 DEF PauseProgress
  <1>10. RowReported' /\ PausedIsDurable' /\ BelievedWasAccepted'
    BY <1>1, <1>3 DEF RowReported, PausedIsDurable, BelievedWasAccepted
  <1> QED
    BY <1>4, <1>5, <1>8, <1>9, <1>10 DEF IInv

\* A click counts, and cannot take back what the site accepted.
LEMMA Clicked ==
    ASSUME run \in Run, BelievedWasAccepted, NEW accepted \in {run.accepted, TRUE},
           run' = [run EXCEPT !.clicks = @ + 1, !.accepted = accepted]
    PROVE  /\ run' \in Run /\ run'.step = run.step /\ run'.outcome = run.outcome
           /\ run'.failures = run.failures /\ run'.recorded = run.recorded
           /\ run'.pressed = run.pressed /\ run'.clicks = run.clicks + 1
           /\ run'.believed => run'.accepted
  <1> DEFINE middle == [run EXCEPT !.clicks = @ + 1]
  <1>1. accepted \in BOOLEAN /\ (run.accepted => accepted)
    BY DEF Run
  <1>2. /\ middle \in Run /\ middle.step = run.step /\ middle.outcome = run.outcome
        /\ middle.failures = run.failures /\ middle.recorded = run.recorded
        /\ middle.pressed = run.pressed
        /\ middle.clicks = run.clicks + 1 /\ middle.believed = run.believed
    BY SMT DEF Run
  <1>3. run' = [middle EXCEPT !.accepted = accepted]
    BY SMT DEF Run
  <1> HIDE DEF middle
  <1>4. run' \in Run
    BY <1>1, <1>2, <1>3, Flags
  <1>5. /\ run'.step = middle.step /\ run'.outcome = middle.outcome
        /\ run'.failures = middle.failures /\ run'.recorded = middle.recorded
        /\ run'.pressed = middle.pressed
        /\ run'.clicks = middle.clicks /\ run'.believed = middle.believed
    BY <1>2, <1>3, SMT DEF Run
  <1>6. run'.accepted = accepted
    BY <1>2, <1>3, SMT DEF Run
  <1>7. run'.believed => run'.accepted
    BY <1>1, <1>2, <1>5, <1>6 DEF BelievedWasAccepted
  <1> QED
    BY <1>2, <1>4, <1>5, <1>7

\* The click, whose answer may be lost.
LEMMA ClickSubmitPreserves == ASSUME IInv, ClickSubmit PROVE IInv'
  <1>1. /\ child.kind = "submit" /\ child.step = "click"
        /\ UNCHANGED <<row, session, action, orphans, pool, initiation, retries>>
    BY DEF ClickSubmit, At, outside
  <1>2. faults' \in 0..MaxFaults
    BY TypesNow, FaultsLeft DEF ClickSubmit
  <1>3. ChildGoes("verify") \/ ChildGoes("failed")
    BY DEF ClickSubmit
  <1>4. \/ run' = run
        \/ \E accepted \in {run.accepted, TRUE} :
              run' = [run EXCEPT !.clicks = @ + 1, !.accepted = accepted]
    BY SMT DEF ClickSubmit
  <1>5. /\ run' \in Run /\ run'.step = run.step /\ run'.outcome = run.outcome
        /\ run'.failures = run.failures /\ run'.recorded = run.recorded
        /\ run'.pressed = run.pressed
        /\ run'.clicks = run.clicks \/ run'.clicks = run.clicks + 1
        /\ run'.believed => run'.accepted
    <2>1. CASE run' = run
      BY <2>1, TypesNow DEF IInv, BelievedWasAccepted
    <2>2. ASSUME NEW accepted \in {run.accepted, TRUE},
                 run' = [run EXCEPT !.clicks = @ + 1, !.accepted = accepted]
          PROVE  /\ run' \in Run /\ run'.step = run.step /\ run'.outcome = run.outcome
                 /\ run'.failures = run.failures /\ run'.recorded = run.recorded
                 /\ run'.pressed = run.pressed
                 /\ run'.clicks = run.clicks \/ run'.clicks = run.clicks + 1
                 /\ run'.believed => run'.accepted
      BY <2>2, TypesNow, Clicked DEF IInv
    <2> QED
      BY <1>4, <2>1, <2>2
  <1> QED
    BY <1>1, <1>2, <1>3, <1>5, SubmitMoves DEF SubmitSteps

\* The verdict; one that believes needs a form that was taken.
LEMMA VerifyPreserves == ASSUME IInv, Verify PROVE IInv'
  <1>1. /\ child.kind = "submit" /\ child.step = "verify"
        /\ UNCHANGED <<row, session, action, orphans, pool, initiation, retries>>
    BY DEF Verify, At, outside
  <1>2. faults' \in 0..MaxFaults
    BY TypesNow, FaultsLeft DEF Verify
  <1>3. ChildGoes("submitted") \/ ChildGoes("rejected") \/ ChildGoes("failed")
    BY DEF Verify
  <1>4. CASE run' = run
    BY <1>1, <1>2, <1>3, <1>4, TypesNow, SubmitMoves DEF SubmitSteps, IInv, BelievedWasAccepted
  <1>5. CASE \E verdict \in Verdicts[run.accepted] :
                run' = [run EXCEPT !.believed = (verdict = "submitted")]
    <2>1. PICK verdict \in Verdicts[run.accepted] :
              run' = [run EXCEPT !.believed = (verdict = "submitted")]
      BY <1>5
    <2> DEFINE flag == verdict = "submitted"
    <2>2. run \in Run /\ flag \in BOOLEAN /\ run.accepted \in BOOLEAN
      BY TypesNow DEF Run
    <2>3. flag => run.accepted
      BY <2>1, <2>2, RefusalSeen
    <2>4. run' = [run EXCEPT !.believed = flag]
      BY <2>1
    <2> HIDE DEF flag
    <2>5. run' \in Run
      BY <2>2, <2>4, Flags
    <2>6. /\ run'.step = run.step /\ run'.outcome = run.outcome
          /\ run'.failures = run.failures /\ run'.recorded = run.recorded
          /\ run'.pressed = run.pressed /\ run'.clicks = run.clicks
          /\ run'.believed = flag /\ run'.accepted = run.accepted
      BY <2>2, <2>4, SMT DEF Run
    <2> QED
      BY <1>1, <1>2, <1>3, <2>3, <2>5, <2>6, SubmitMoves DEF SubmitSteps
  <1> QED
    BY <1>4, <1>5 DEF Verify

\* What is left when the child is gone and the run goes on or leaves.
LEMMA ChildDone ==
    ASSUME IInv, child' = NoChild, run' \in Run, ClicksCounted', BelievedWasAccepted',
           run'.step = "observe" \/ (run'.step = "close" /\ run'.outcome \in Terminal),
           run'.outcome # "paused",
           UNCHANGED <<row, session, action, orphans, faults, pool, initiation, retries>>
    PROVE  IInv'
  <1>1. child' \in Child /\ child'.kind = "none" /\ child'.step = "none"
    BY DEF NoChild, Child, ChildSteps
  <1>2. RunTypeOK'
    BY <1>1, TypesNow DEF RunTypeOK
  <1>3. ChildInStep' /\ PauseProgress'
    BY <1>1 DEF ChildInStep, PauseProgress
  <1>4. RowReported' /\ PausedIsDurable'
    BY DEF RowReported, PausedIsDurable
  <1> QED
    BY <1>2, <1>3, <1>4 DEF IInv

\* submitIfReady: every click that did not submit counts as a failure.
LEMMA SubmitReturnsPreserves == ASSUME IInv, SubmitReturns PROVE IInv'
  <1>1. /\ run.step = "child" /\ child.kind = "submit" /\ child' = NoChild
        /\ UNCHANGED <<row, session, action, orphans, faults, pool, initiation, retries>>
    BY DEF SubmitReturns, outside
  <1>2. run.outcome # "paused" /\ run.clicks <= run.failures + 1 + Allowed(run.pressed)
    BY <1>1 DEF IInv, RowReported, ClicksCounted
  <1>3. run \in Run /\ run.failures \in Nat /\ run.clicks \in Nat /\ Allowed(run.pressed) \in Nat
    <2>1. run \in Run /\ run.failures \in Nat /\ run.clicks \in Nat /\ run.pressed \in Nat
      BY TypesNow, RunAssumption, SMT DEF Run, RunAssumption
    <2> QED
      BY <2>1, AllowedGrows
  <1>5. CASE Leave("applied") \/ Leave("failed")
    <2>1. PICK outcome \in Terminal : RunMoves("close", outcome)
      BY <1>3, <1>5, Ended DEF Leave, RunSteps, Outcomes, Terminal
    <2>2. outcome # "paused" /\ run'.step = "close" /\ run'.outcome = outcome
          /\ run' \in Run /\ (Counted(run') \/ Cleared(run'))
      BY <2>1 DEF RunMoves, Terminal
    <2>3. ClicksCounted' /\ BelievedWasAccepted'
      BY <1>3, <2>2, CountsKept DEF IInv, ClickDue
    <2> QED
      BY <1>1, <2>2, <2>3, ChildDone
  <1>6. CASE /\ ~(run.failures + 1 >= MaxSubmitFailures)
             /\ run' = [run EXCEPT !.step = "observe", !.failures = @ + 1]
    <2> DEFINE middle == [run EXCEPT !.step = "observe"]
    <2>1. /\ middle \in Run /\ Kept(middle) /\ middle.step = "observe"
          /\ middle.outcome = run.outcome
      <3>1. "observe" \in RunSteps
        BY DEF RunSteps
      <3>2. middle \in Run
        BY <1>3, <3>1, SMT DEF Run
      <3>3. Kept(middle) /\ middle.step = "observe" /\ middle.outcome = run.outcome
        BY <1>3, SMT DEF Run, Kept, Counted, Flagged
      <3> QED
        BY <3>2, <3>3
    <2>2. run' = [middle EXCEPT !.failures = run.failures + 1]
      BY <1>3, <1>6, SMT DEF Run
    <2> HIDE DEF middle
    <2>3. run.failures + 1 \in 0..(MaxSubmitFailures - 1)
      BY <1>3, <1>6, RunAssumption, SMT DEF RunAssumption
    <2>4. run' \in Run
      BY <2>1, <2>2, <2>3, SMT DEF Run
    <2>5. /\ run'.step = "observe" /\ run'.outcome = run.outcome
          /\ run'.failures = run.failures + 1 /\ run'.clicks = run.clicks
          /\ run'.pressed = run.pressed
          /\ run'.accepted = run.accepted /\ run'.believed = run.believed
      BY <2>1, <2>2, SMT DEF Run, Kept, Counted, Flagged
    <2>6. ClicksCounted'
      BY <1>2, <1>3, <2>5, SMT DEF ClicksCounted
    <2>7. run'.outcome # "paused" /\ BelievedWasAccepted'
      BY <1>2, <2>5 DEF IInv, BelievedWasAccepted
    <2> QED
      BY <1>1, <2>4, <2>5, <2>6, <2>7, ChildDone
  <1> QED
    BY <1>5, <1>6 DEF SubmitReturns

-----------------------------------------------------------------------------
(* The pause.                                                              *)

\* What notifying and committing make of an action.
LEMMA ActionBecomes ==
    ASSUME NEW u \in UserAction, NEW b \in BOOLEAN
    PROVE  /\ [u EXCEPT !.notified = b] \in UserAction
           /\ [u EXCEPT !.committed = b] \in UserAction
           /\ [u EXCEPT !.notified = b].notified = b
           /\ [u EXCEPT !.committed = b].committed = b
           /\ [u EXCEPT !.notified = b].state = u.state
           /\ [u EXCEPT !.committed = b].state = u.state
           /\ [u EXCEPT !.notified = b].generation = u.generation
           /\ [u EXCEPT !.committed = b].generation = u.generation
           /\ [u EXCEPT !.committed = b].notified = u.notified
  <1>1. [u EXCEPT !.notified = b] \in UserAction /\ [u EXCEPT !.committed = b] \in UserAction
    BY SMT DEF UserAction
  <1> QED
    BY <1>1, SMT DEF UserAction

\* What the activities of a pause write is of its type.
LEMMA EffectTypes ==
    ASSUME IInv, NEW step \in PauseSteps, NEW a \in Actions, NEW writer \in Writers,
           Effect(step, a, writer)
    PROVE  row' \in Row /\ session' \in Session /\ action' \in [Actions -> UserAction]
  <1>1. row' \in Row
    <2>1. row' = row \/ Write("blocked", writer)
      BY DEF Effect
    <2> QED
      BY <2>1, TypesNow, Written DEF Statuses
  <1>2. session' \in Session
    <2>1. session' = session \/ session' = [session EXCEPT !.open = FALSE]
      BY DEF Effect
    <2> QED
      BY <2>1, TypesNow, SessionBecomes
  <1>3. action' \in [Actions -> UserAction]
    <2>1. action \in [Actions -> UserAction] /\ session.generation \in Nat
      BY TypesNow DEF Session
    <2>2. NoAction \in UserAction
      BY DEF NoAction, UserAction
    <2>3. CASE step = "delete"
      <3>1. action' = [b \in Actions |-> IF action[b].state = "pending" THEN NoAction ELSE action[b]]
        BY <2>3 DEF Effect
      <3> QED
        BY <2>1, <2>2, <3>1
    <2>4. CASE step = "create"
      <3>1. action' = [action EXCEPT ![a] = [state |-> "pending",
                 generation |-> session.generation, notified |-> FALSE, committed |-> FALSE]]
        BY <2>4 DEF Effect
      <3>2. [state |-> "pending", generation |-> session.generation,
             notified |-> FALSE, committed |-> FALSE] \in UserAction
        BY <2>1 DEF UserAction
      <3> QED
        BY <2>1, <3>1, <3>2
    <2>5. CASE step = "notify" /\ Stored(a)
      <3>1. action' = [action EXCEPT ![a].notified = TRUE]
        BY <2>5 DEF Effect
      <3>2. [action[a] EXCEPT !.notified = TRUE] \in UserAction
        BY <2>1, ActionBecomes
      <3> QED
        BY <2>1, <3>1, <3>2
    <2>6. CASE step = "commit"
      <3>1. action' = [action EXCEPT ![a].committed = ~session.open]
        BY <2>6 DEF Effect
      <3>2. [action[a] EXCEPT !.committed = ~session.open] \in UserAction
        BY <2>1, ActionBecomes
      <3> QED
        BY <2>1, <3>1, <3>2
    <2>7. CASE step \notin {"delete", "create", "notify", "commit"} \/ (step = "notify" /\ ~Stored(a))
      BY <2>1, <2>7 DEF Effect
    <2> QED
      BY <2>3, <2>4, <2>5, <2>6, <2>7
  <1> QED
    BY <1>1, <1>2, <1>3

\* An activity of a pause leaves every other row as it is, and of a row that
\* is there takes nothing back, unless it deletes the pending ones.
Taken(b) == action[b].state = "pending" /\ action'[b].state = "none"
Held(b) == /\ action'[b].state = action[b].state
           /\ action'[b].generation = action[b].generation
           /\ action[b].notified => action'[b].notified
           /\ action[b].committed => action'[b].committed
LEMMA EffectKeeps ==
    ASSUME IInv, NEW step \in PauseSteps, NEW a \in Actions, NEW writer \in Writers,
           Effect(step, a, writer), step = "commit" => ~session.open,
           NEW b \in Actions, step = "create" => b # a
    PROVE  Held(b) \/ (step = "delete" /\ Taken(b))
  <1>1. action \in [Actions -> UserAction] /\ action[b] \in UserAction /\ action[a] \in UserAction
    BY TypesNow
  <1>2. CASE step = "delete"
    <2>1. action' = [c \in Actions |-> IF action[c].state = "pending" THEN NoAction ELSE action[c]]
      BY <1>2 DEF Effect
    <2>2. action'[b] = IF action[b].state = "pending" THEN NoAction ELSE action[b]
      BY <2>1
    <2>3. NoAction.state = "none"
      BY DEF NoAction
    <2> QED
      BY <1>2, <2>2, <2>3 DEF Held, Taken
  <1>3. CASE step = "create"
    <2>1. action' = [action EXCEPT ![a] = [state |-> "pending",
               generation |-> session.generation, notified |-> FALSE, committed |-> FALSE]]
      BY <1>3 DEF Effect
    <2>2. action'[b] = action[b]
      BY <1>1, <1>3, <2>1
    <2> QED
      BY <2>2 DEF Held
  <1>4. CASE step = "notify" /\ Stored(a)
    <2>1. action' = [action EXCEPT ![a].notified = TRUE]
      BY <1>4 DEF Effect
    <2>2. action'[b] = IF b = a THEN [action[b] EXCEPT !.notified = TRUE] ELSE action[b]
      BY <1>1, <2>1
    <2>3. /\ [action[b] EXCEPT !.notified = TRUE].notified
          /\ [action[b] EXCEPT !.notified = TRUE].state = action[b].state
          /\ [action[b] EXCEPT !.notified = TRUE].generation = action[b].generation
      BY <1>1, ActionBecomes
    <2>4. [action[b] EXCEPT !.notified = TRUE].committed = action[b].committed
      BY <1>1, SMT DEF UserAction
    <2> QED
      BY <2>2, <2>3, <2>4 DEF Held
  <1>5. CASE step = "commit"
    <2>1. action' = [action EXCEPT ![a].committed = ~session.open] /\ ~session.open
      BY <1>5 DEF Effect
    <2>2. action'[b] = IF b = a THEN [action[b] EXCEPT !.committed = ~session.open] ELSE action[b]
      BY <1>1, <2>1
    <2>3. session.open \in BOOLEAN
      BY TypesNow DEF Session
    <2>4. LET u == [action[b] EXCEPT !.committed = ~session.open] IN
            /\ u.committed = ~session.open /\ u.state = action[b].state
            /\ u.generation = action[b].generation /\ u.notified = action[b].notified
      BY <1>1, <2>3, ActionBecomes
    <2> QED
      BY <2>1, <2>2, <2>4 DEF Held
  <1>6. CASE step \notin {"delete", "create", "notify", "commit"} \/ (step = "notify" /\ ~Stored(a))
    <2>1. action' = action
      BY <1>6 DEF Effect
    <2> QED
      BY <2>1 DEF Held
  <1> QED
    BY <1>2, <1>3, <1>4, <1>5, <1>6

\* A pause that goes on leaves the run waiting; what it has made durable is
\* for the step to show.
LEMMA PauseGoesOn ==
    ASSUME IInv, child.kind = "pause", child.step \in PauseSteps,
           child' \in Child, child'.kind = "pause",
           child'.step \in PauseSteps \cup {"paused", "failed"},
           PauseProgress', row' \in Row, session' \in Session, action' \in [Actions -> UserAction],
           orphans' \subseteq Orphan, faults' \in 0..MaxFaults,
           UNCHANGED <<run, pool, initiation, retries>>
    PROVE  IInv'
  <1>1. run.step = "child"
    BY DEF IInv, ChildInStep
  <1>2. run.outcome # "paused"
    BY <1>1 DEF IInv, RowReported
  <1>3. RunTypeOK'
    BY TypesNow DEF RunTypeOK
  <1>4. ChildInStep'
    BY <1>1 DEF ChildInStep
  <1>5. ClicksCounted'
    BY <1>1 DEF IInv, ClicksCounted, ClickDue
  <1>6. RowReported' /\ PausedIsDurable' /\ BelievedWasAccepted'
    BY <1>1, <1>2 DEF IInv, RowReported, PausedIsDurable, BelievedWasAccepted
  <1> QED
    BY <1>3, <1>4, <1>5, <1>6 DEF IInv

\* A step of the pause establishes what the next one relies on.
LEMMA PauseStepPreserves == ASSUME IInv, NEW a \in Actions, PauseStep(a) PROVE IInv'
  <1>1. /\ child.kind = "pause" /\ child.step \in PauseSteps
        /\ Subject(a, child.step, child.action)
        /\ Effect(child.step, a, "run")
        /\ child.step = "commit" => Stored(a) /\ ~session.open
        /\ UNCHANGED <<run, orphans, faults, pool, initiation, retries>>
    BY DEF PauseStep, outside
  <1>2. row' \in Row /\ session' \in Session /\ action' \in [Actions -> UserAction]
    BY <1>1, EffectTypes DEF Writers
  <1>4. /\ child \in Child /\ action \in [Actions -> UserAction]
        /\ action[a] \in UserAction /\ session.open \in BOOLEAN
    BY TypesNow DEF Session
  <1>5. child.step # "block" /\ row.writer = "run" => row.status = "blocked"
    BY <1>1 DEF IInv, PauseProgress, PauseSteps
  <1>6. child.step \in {"notify", "close", "commit"} => child.action = a /\ Current(a)
    BY <1>1, RunAssumption DEF IInv, PauseProgress, Subject, RunAssumption
  <1>7. child.step \in {"close", "commit"} => Told(a)
    BY <1>1, <1>6 DEF IInv, PauseProgress
  <1>8. \/ child.step = "commit" /\ ChildGoes("paused")
        \/ /\ child.step # "commit"
           /\ child' = [child EXCEPT !.step = NextStep[child.step],
                                     !.action = IF child.step = "create" THEN a ELSE @]
    BY <1>1 DEF PauseStep
  <1>9. /\ child' \in Child /\ child'.kind = "pause"
        /\ child'.step = IF child.step = "commit" THEN "paused" ELSE NextStep[child.step]
        /\ child'.action = IF child.step = "create" THEN a ELSE child.action
    <2>1. CASE child.step = "commit"
      BY <1>1, <1>4, <1>8, <2>1, ChildBecomes DEF ChildSteps
    <2>2. CASE child.step # "commit"
      <3> DEFINE middle == [child EXCEPT !.step = NextStep[child.step]]
      <3>1. NextStep[child.step] \in ChildSteps
        BY <1>1, <2>2 DEF NextStep, PauseSteps, ChildSteps
      <3>2. middle \in Child
        BY <1>4, <3>1, SMT DEF Child
      <3>3. /\ middle.step = NextStep[child.step] /\ middle.kind = child.kind
            /\ middle.action = child.action
        BY <1>4, SMT DEF Child
      <3>4. child' = [middle EXCEPT !.action = IF child.step = "create" THEN a ELSE child.action]
        BY <1>4, <1>8, <2>2, SMT DEF Child
      <3>5. (IF child.step = "create" THEN a ELSE child.action) \in Actions \cup {None}
        BY <1>4 DEF Child
      <3> HIDE DEF middle
      <3>6. child' \in Child
        BY <3>2, <3>4, <3>5, SMT DEF Child
      <3>7. /\ child'.step = middle.step /\ child'.kind = middle.kind
            /\ child'.action = IF child.step = "create" THEN a ELSE child.action
        BY <3>2, <3>4, SMT DEF Child
      <3> QED
        BY <1>1, <2>2, <3>3, <3>6, <3>7
    <2> QED
      BY <2>1, <2>2
  <1>10. child'.step \in PauseSteps \cup {"paused"}
    BY <1>1, <1>9 DEF NextStep, PauseSteps
  <1>11. PauseProgress'
    <2>1. CASE child.step = "block"
      <3>1. child'.step = "layout" /\ Write("blocked", "run")
        BY <1>1, <1>9, <2>1 DEF NextStep, Effect
      <3> QED
        BY <3>1 DEF PauseProgress, Write
    <2>2. CASE child.step \in {"layout", "delete"}
      <3>1. child'.step \in {"delete", "create"} /\ row' = row
        BY <1>1, <1>9, <2>2 DEF NextStep, Effect
      <3> QED
        BY <1>5, <2>2, <3>1 DEF PauseProgress
    <2>3. CASE child.step = "create"
      <3>1. child'.step = "notify" /\ child'.action = a /\ row' = row /\ session' = session
        BY <1>1, <1>9, <2>3 DEF NextStep, Effect
      <3>2. action' = [action EXCEPT ![a] = [state |-> "pending",
                 generation |-> session.generation, notified |-> FALSE, committed |-> FALSE]]
        BY <1>1, <2>3 DEF Effect
      <3>3. action'[a].state = "pending" /\ action'[a].generation = session.generation
        BY <1>4, <3>2
      <3> QED
        BY <1>5, <2>3, <3>1, <3>3 DEF PauseProgress, Current
    <2>4. CASE child.step = "notify"
      <3>1. child'.step = "close" /\ child'.action = a /\ row' = row /\ session' = session
        BY <1>1, <1>6, <1>9, <2>4 DEF NextStep, Effect
      <3>2. CASE ~Stored(a)
        <4>1. action' = action
          BY <1>1, <2>4, <3>2 DEF Effect
        <4> QED
          BY <1>5, <1>6, <2>4, <3>1, <3>2, <4>1 DEF PauseProgress, Current, Told, Stored
      <3>3. CASE Stored(a)
        <4>1. action' = [action EXCEPT ![a].notified = TRUE]
          BY <1>1, <2>4, <3>3 DEF Effect
        <4>2. action'[a] = [action[a] EXCEPT !.notified = TRUE]
          BY <1>4, <4>1
        <4>3. action'[a].notified /\ action'[a].state = action[a].state
              /\ action'[a].generation = action[a].generation
          BY <1>4, <4>2, ActionBecomes
        <4> QED
          BY <1>5, <1>6, <2>4, <3>1, <4>3 DEF PauseProgress, Current, Told, Stored
      <3> QED
        BY <3>2, <3>3
    <2>5. CASE child.step = "close"
      <3>1. child'.step = "commit" /\ child'.action = a /\ row' = row /\ action' = action
        BY <1>1, <1>6, <1>9, <2>5 DEF NextStep, Effect
      <3>2. session' = [session EXCEPT !.open = FALSE]
        BY <1>1, <2>5 DEF Effect
      <3>3. session'.generation = session.generation
        BY <3>2, TypesNow, SessionBecomes
      <3> QED
        BY <1>5, <1>6, <1>7, <2>5, <3>1, <3>3 DEF PauseProgress, Current, Told, Stored
    <2>6. CASE child.step = "commit"
      <3>1. /\ child'.step = "paused" /\ child'.action = a /\ row' = row
            /\ session' = session /\ ~session.open /\ Stored(a)
        BY <1>1, <1>6, <1>9, <2>6 DEF Effect
      <3>2. action' = [action EXCEPT ![a].committed = ~session.open]
        BY <1>1, <2>6 DEF Effect
      <3>3. action'[a] = [action[a] EXCEPT !.committed = ~session.open]
        BY <1>4, <3>2
      <3>4. /\ action'[a].committed = ~session.open /\ action'[a].notified = action[a].notified
            /\ action'[a].state = action[a].state
            /\ action'[a].generation = action[a].generation
        BY <1>4, <3>3, ActionBecomes
      <3> QED
        BY <1>5, <1>6, <1>7, <2>6, <3>1, <3>4 DEF PauseProgress, Current, Told, Stored
    <2> QED
      BY <1>1, <2>1, <2>2, <2>3, <2>4, <2>5, <2>6 DEF PauseSteps
  <1> QED
    BY <1>1, <1>2, <1>9, <1>10, <1>11, TypesNow, PauseGoesOn

\* A failed step of the pause ends it without a pause.
LEMMA PauseFailsPreserves == ASSUME IInv, PauseFails PROVE IInv'
  <1>1. /\ child.kind = "pause" /\ child.step \in PauseSteps /\ ChildGoes("failed")
        /\ UNCHANGED <<row, session, action, run, orphans, pool, initiation, retries>>
    BY DEF PauseFails, outside
  <1>2. faults' \in 0..MaxFaults
    BY TypesNow, FaultsLeft DEF PauseFails
  <1>3. child' \in Child /\ child'.step = "failed" /\ child'.kind = "pause"
    BY <1>1, TypesNow, ChildBecomes DEF ChildSteps
  <1>4. PauseProgress'
    BY <1>3 DEF PauseProgress
  <1> QED
    BY <1>1, <1>2, <1>3, <1>4, TypesNow, PauseGoesOn

\* An abandoned pause leaves its write to land, but not a paused run.
LEMMA AbandonPausePreserves == ASSUME IInv, AbandonPause PROVE IInv'
  <1>1. /\ child.kind = "pause" /\ child.step \in PauseSteps
        /\ ChildGoes("failed")
        /\ UNCHANGED <<row, session, action, run, faults, pool, initiation, retries>>
    BY DEF AbandonPause, outside
  <1>2. child' \in Child /\ child'.step = "failed" /\ child'.kind = "pause"
    BY <1>1, TypesNow, ChildBecomes DEF ChildSteps
  <1>3. PauseProgress'
    BY <1>2 DEF PauseProgress
  <1>4. [step |-> child.step, action |-> child.action] \in Orphan
    BY <1>1, TypesNow DEF Orphan, Child
  <1>5. \/ orphans' = orphans
        \/ orphans' = orphans \cup {[step |-> child.step, action |-> child.action]}
    BY DEF AbandonPause
  <1>6. orphans' \subseteq Orphan
    BY <1>4, <1>5, TypesNow
  <1> QED
    BY <1>1, <1>2, <1>3, <1>6, TypesNow, PauseGoesOn

\* An abandoned write lands at any time.  What it may take from a pause is
\* the action itself, and a run that has paused knows of that.
LEMMA LandPreserves ==
    ASSUME IInv, NEW orphan \in orphans, NEW a \in Actions, Land(orphan, a) PROVE IInv'
  <1>1. /\ UNCHANGED <<child, faults, pool, initiation, retries>>
        /\ orphans' = orphans \ {orphan} /\ Effect(orphan.step, a, "orphan")
        /\ orphan.step = "commit" => ~session.open
        /\ orphan.step = "create" => Unused(a)
    BY DEF Land, outside, Subject
  <1> DEFINE robbed == run.robbed \/ (orphan.step = "delete" /\ Asked)
  <1>2. run \in Run /\ robbed \in BOOLEAN /\ run' = [run EXCEPT !.robbed = robbed]
    BY TypesNow DEF Land, Run
  <1>3. /\ run' \in Run /\ run'.robbed = robbed /\ Counted(run')
        /\ run'.step = run.step /\ run'.outcome = run.outcome /\ run'.recorded = run.recorded
    <2> HIDE DEF robbed
    <2>1. run' \in Run /\ run'.robbed = robbed
      BY <1>2, SMT DEF Run
    <2>2. /\ Counted(run')
          /\ run'.step = run.step /\ run'.outcome = run.outcome /\ run'.recorded = run.recorded
      BY <1>2, SMT DEF Run, Counted
    <2> QED
      BY <2>1, <2>2
  <1>4. orphan.step \in PauseSteps
    BY TypesNow DEF Orphan
  <1>5. row' \in Row /\ session' \in Session /\ action' \in [Actions -> UserAction]
    BY <1>1, <1>4, EffectTypes DEF Writers
  <1>6. row' = row \/ row'.writer = "orphan"
    BY <1>1 DEF Effect, Write
  <1>7. session'.generation = session.generation /\ (~session.open => ~session'.open)
    <2>1. session' = session \/ session' = [session EXCEPT !.open = FALSE]
      BY <1>1 DEF Effect
    <2> QED
      BY <2>1, TypesNow, SessionBecomes
  <1>8. \A b \in Actions : (orphan.step = "create" => b # a) =>
            Held(b) \/ (orphan.step = "delete" /\ Taken(b))
    BY <1>1, <1>4, EffectKeeps DEF Writers
  <1>9. RunTypeOK'
    BY <1>1, <1>3, <1>5, TypesNow DEF RunTypeOK
  <1>10. ChildInStep'
    BY <1>1, <1>3 DEF IInv, ChildInStep
  <1>11. ClicksCounted' /\ BelievedWasAccepted'
    BY <1>1, <1>3 DEF IInv, ClicksCounted, ClickDue, BelievedWasAccepted, Counted
  <1>12. RowReported'
    BY <1>3, <1>6 DEF IInv, RowReported
  <1>13. PauseProgress'
    <2> SUFFICES ASSUME child.kind = "pause" PROVE PauseProgress'
      BY <1>1 DEF PauseProgress
    <2> DEFINE c == child.action
    <2>1. CASE child.step \in {"notify", "close", "commit", "paused"}
      <3>1. c \in Actions /\ Current(c)
            /\ (child.step \in {"close", "commit", "paused"} => Told(c))
        BY <2>1 DEF IInv, PauseProgress
      <3>2. orphan.step = "create" => c # a
        BY <1>1 DEF Unused
      <3>3. Held(c) \/ (orphan.step = "delete" /\ Taken(c))
        BY <1>8, <3>1, <3>2
      <3>4. Current(c)' /\ (child.step \in {"close", "commit", "paused"} => Told(c)')
        BY <1>1, <1>7, <3>1, <3>3 DEF Current, Told, Stored, Held, Taken
      <3>5. child.step = "paused" =>
                /\ ~session'.open
                /\ run'.robbed \/ (Stored(c)' /\ action'[c].committed)
        <4> SUFFICES ASSUME child.step = "paused"
                     PROVE  /\ ~session'.open
                            /\ run'.robbed \/ (Stored(c)' /\ action'[c].committed)
          OBVIOUS
        <4>1. ~session.open /\ (run.robbed \/ (Stored(c) /\ action[c].committed))
          BY DEF IInv, PauseProgress
        <4>2. CASE Held(c)
          BY <1>1, <1>3, <1>7, <4>1, <4>2 DEF Held, Stored
        <4>3. CASE orphan.step = "delete" /\ Taken(c)
          BY <1>3, <1>7, <3>1, <4>1, <4>3 DEF Taken, Asked
        <4> QED
          BY <3>3, <4>2, <4>3
      <3>6. row'.writer = "run" => row'.status = "blocked"
        BY <1>6, <2>1 DEF IInv, PauseProgress
      <3> QED
        BY <1>1, <3>1, <3>4, <3>5, <3>6 DEF PauseProgress, Current, Told, Stored
    <2>2. CASE child.step \notin {"notify", "close", "commit", "paused"}
      <3>1. child.step \notin {"block", "failed"} /\ row'.writer = "run" => row'.status = "blocked"
        BY <1>6 DEF IInv, PauseProgress
      <3> QED
        BY <1>1, <2>2, <3>1 DEF PauseProgress
    <2> QED
      BY <2>1, <2>2
  <1>14. PausedIsDurable'
    <2> SUFFICES ASSUME run'.step \in {"settle", "settled"}, run'.outcome = "paused"
                 PROVE  /\ ~session'.open
                        /\ run'.robbed \/ \E b \in Actions :
                              /\ action'[b].notified /\ action'[b].committed
                              /\ action'[b].state \in {"pending", "answered"}
                              /\ action'[b].generation = session'.generation
      BY DEF PausedIsDurable
    <2>0. run.step \in {"settle", "settled"} /\ run.outcome = "paused"
      BY <1>3
    <2>3. ~session'.open
      BY <1>7, <2>0 DEF IInv, PausedIsDurable
    <2> SUFFICES ASSUME ~run'.robbed
                 PROVE  \E b \in Actions :
                              /\ action'[b].notified /\ action'[b].committed
                              /\ action'[b].state \in {"pending", "answered"}
                              /\ action'[b].generation = session'.generation
      BY <2>3
    <2>1. ~run.robbed /\ ~(orphan.step = "delete" /\ Asked)
      BY <1>3
    <2>2. PICK b \in Actions : /\ action[b].notified /\ action[b].committed
                               /\ action[b].state \in {"pending", "answered"}
                               /\ action[b].generation = session.generation
      BY <2>0, <2>1 DEF IInv, PausedIsDurable
    <2>4. orphan.step = "create" => b # a
      BY <1>1, <2>2 DEF Unused, Stored
    <2>5. Held(b)
      BY <1>8, <2>0, <2>1, <2>4 DEF Taken, Asked
    <2>6. /\ action'[b].notified /\ action'[b].committed
          /\ action'[b].state \in {"pending", "answered"}
          /\ action'[b].generation = session'.generation
      BY <1>7, <2>2, <2>5 DEF Held
    <2> QED
      BY <2>6
  <1> QED
    BY <1>9, <1>10, <1>11, <1>12, <1>13, <1>14 DEF IInv

\* runToolCall with the result of the pause.
LEMMA PauseReturnsPreserves == ASSUME IInv, PauseReturns PROVE IInv'
  <1>1. /\ run.step = "child" /\ child.kind = "pause" /\ child' = NoChild
        /\ UNCHANGED <<row, session, action, orphans, faults, pool, initiation, retries>>
    BY DEF PauseReturns, outside
  <1>2. run.outcome # "paused" /\ run.clicks <= run.failures + Allowed(run.pressed)
    BY <1>1 DEF IInv, RowReported, ClicksCounted, ClickDue
  <1>4. child' \in Child /\ child'.kind = "none" /\ child'.step = "none"
    BY <1>1 DEF NoChild, Child, ChildSteps
  <1>5. CASE child.step = "paused" /\ End("settle", "paused")
    <2>1. RunMoves("settle", "paused")
      BY <1>5, TypesNow, Ended DEF RunSteps, Outcomes
    <2>2. RunTypeOK'
      BY <1>1, <1>4, <2>1, TypesNow DEF RunTypeOK, RunMoves
    <2>3. ChildInStep' /\ PauseProgress'
      BY <1>1, <1>4, <2>1 DEF ChildInStep, PauseProgress, RunMoves
    <2>4. ClicksCounted' /\ BelievedWasAccepted'
      BY <1>2, <2>1, TypesNow, CountsKept DEF IInv, RunMoves
    <2>5. /\ child.action \in Actions /\ Current(child.action) /\ Told(child.action)
          /\ ~session.open
          /\ run.robbed \/ (Stored(child.action) /\ action[child.action].committed)
          /\ row.writer = "run" => row.status = "blocked"
      BY <1>1, <1>5 DEF IInv, PauseProgress
    <2>6. RowReported'
      BY <1>1, <2>1, <2>5 DEF RowReported, RunMoves
    <2>7. Stored(child.action) => action[child.action].state \in {"pending", "answered"}
      BY <2>5, TypesNow, SMT DEF UserAction, Stored
    <2>8. PausedIsDurable'
      BY <1>1, <2>1, <2>5, <2>7 DEF PausedIsDurable, RunMoves, Flagged, Current, Told
    <2> QED
      BY <2>2, <2>3, <2>4, <2>6, <2>8 DEF IInv
  <1>6. CASE child.step = "failed" /\ Interrupted /\ Leave("failed")
    <2>1. RunMoves("close", "failed")
      BY <1>6, TypesNow, Ended DEF Leave, RunSteps, Outcomes, Terminal
    <2>2. /\ run' \in Run /\ run'.step = "close" /\ run'.outcome = "failed"
          /\ Counted(run') \/ Cleared(run')
          /\ "failed" \in Terminal
      BY <2>1 DEF RunMoves, Terminal
    <2>3. ClicksCounted' /\ BelievedWasAccepted'
      BY <1>2, <2>2, TypesNow, CountsKept DEF IInv
    <2> QED
      BY <1>1, <2>2, <2>3, ChildDone
  <1>7. CASE child.step = "failed" /\ ~Interrupted /\ Goto("observe")
    <2>1. RunMoves("observe", run.outcome)
      BY <1>7, TypesNow, Gone DEF RunSteps
    <2>2. /\ run' \in Run /\ run'.step = "observe" /\ run'.outcome = run.outcome
          /\ Counted(run') \/ Cleared(run')
      BY <2>1 DEF RunMoves
    <2>3. ClicksCounted' /\ BelievedWasAccepted'
      BY <1>2, <2>2, TypesNow, CountsKept DEF IInv
    <2> QED
      BY <1>1, <1>2, <2>2, <2>3, ChildDone
  <1> QED
    BY <1>5, <1>6, <1>7 DEF PauseReturns

-----------------------------------------------------------------------------
(* The end of a run, and the theorems.                                     *)

\* A step of the end of a run has no child to mind and clicks no more.
LEMMA EndMoves ==
    ASSUME IInv, run.step \in {"close", "report", "settle"}, run' \in Run,
           Counted(run') \/ Cleared(run'),
           run'.step \in {"report", "settle", "settled"},
           row' \in Row, session' \in Session, faults' \in 0..MaxFaults,
           RowReported', PausedIsDurable',
           UNCHANGED <<action, child, orphans, pool, initiation, retries>>
    PROVE  IInv'
  <1>1. child.kind = "none" /\ child.step = "none"
    BY SMT DEF IInv, ChildInStep
  <1>2. RunTypeOK'
    BY TypesNow DEF RunTypeOK
  <1>3. ChildInStep' /\ PauseProgress'
    BY <1>1 DEF ChildInStep, PauseProgress
  <1>4. ClicksCounted' /\ BelievedWasAccepted'
    BY TypesNow, CountsKept DEF IInv, ClickDue
  <1> QED
    BY <1>2, <1>3, <1>4 DEF IInv

\* The deferred close of a run that did not pause.
LEMMA CloseBrowserPreserves == ASSUME IInv, CloseBrowser PROVE IInv'
  <1>1. /\ run.step = "close" /\ Goto("report")
        /\ UNCHANGED <<row, action, child, orphans, pool, initiation, retries>>
    BY DEF CloseBrowser, outside
  <1>2. session' = session \/ session' = [session EXCEPT !.open = FALSE]
    BY DEF CloseBrowser
  <1>3. session' \in Session /\ faults' \in 0..MaxFaults
    BY <1>2, TypesNow, SessionBecomes, FaultsLeft DEF CloseBrowser
  <1>4. RunMoves("report", run.outcome)
    BY <1>1, TypesNow, Gone DEF RunSteps
  <1>5. RowReported' /\ PausedIsDurable'
    BY <1>1, <1>4 DEF IInv, RowReported, PausedIsDurable, RunMoves
  <1> QED
    BY <1>1, <1>3, <1>4, <1>5, TypesNow, EndMoves DEF RunMoves

\* The row takes the outcome that is reported, or is not recorded.
LEMMA ReportPreserves == ASSUME IInv, Report PROVE IInv'
  <1>1. /\ run.step = "report"
        /\ UNCHANGED <<session, action, child, orphans, pool, initiation, retries>>
    BY DEF Report, outside
  <1>2. run.outcome \in Terminal /\ Reported \in Terminal
    BY <1>1 DEF IInv, RowReported, Reported, Terminal
  <1>3. Reported # "paused" /\ run.outcome # "paused"
    BY <1>2 DEF Terminal
  <1>4. faults' \in 0..MaxFaults
    BY TypesNow, FaultsLeft DEF Report
  <1>5. CASE Write(Reported, "run") /\ End("settle", Reported)
    <2>1. RunMoves("settle", Reported)
      BY <1>2, <1>5, TypesNow, Ended DEF RunSteps, Outcomes
    <2>2. row' \in Row /\ row'.status = Reported
      BY <1>2, <1>5, Written DEF Statuses, Writers
    <2>3. RowReported' /\ PausedIsDurable'
      BY <1>3, <2>1, <2>2 DEF RowReported, PausedIsDurable, RunMoves
    <2> QED
      BY <1>1, <1>4, <2>1, <2>2, <2>3, TypesNow, EndMoves DEF RunMoves
  <1>6. CASE /\ UNCHANGED row
             /\ run' = [run EXCEPT !.step = "settle", !.outcome = Reported, !.recorded = FALSE]
    <2> DEFINE first == [run EXCEPT !.step = "settle"]
               second == [first EXCEPT !.outcome = Reported]
    <2>1. run \in Run /\ "settle" \in RunSteps /\ Reported \in Terminal \cup {"paused", None}
      BY <1>2, TypesNow DEF RunSteps
    <2>2. first \in Run /\ Kept(first) /\ first.step = "settle"
      <3>1. first \in Run
        BY <2>1, SMT DEF Run
      <3>2. Kept(first) /\ first.step = "settle"
        BY <2>1, SMT DEF Run, Kept, Counted, Flagged
      <3> QED
        BY <3>1, <3>2
    <2> HIDE DEF first
    <2>3. second \in Run /\ Kept(second) /\ second.step = "settle" /\ second.outcome = Reported
      <3>1. second \in Run
        BY <2>1, <2>2, SMT DEF Run
      <3>2. Kept(second) /\ second.step = "settle" /\ second.outcome = Reported
        BY <2>2, SMT DEF Run, Kept, Counted, Flagged
      <3> QED
        BY <3>1, <3>2
    <2>4. run' = [second EXCEPT !.recorded = FALSE]
      BY <1>6, <2>1, SMT DEF Run, first
    <2> HIDE DEF second
    <2>5. run' \in Run
      BY <2>3, <2>4, Flags
    <2>6. /\ run'.step = "settle" /\ run'.outcome = Reported /\ run'.recorded = FALSE
          /\ Counted(run')
      BY <2>3, <2>4, SMT DEF Run, Kept, Counted, Flagged
    <2>7. RowReported' /\ PausedIsDurable'
      BY <1>3, <2>6 DEF RowReported, PausedIsDurable
    <2> QED
      BY <1>1, <1>3, <1>4, <1>6, <2>5, <2>6, <2>7, TypesNow, EndMoves
  <1> QED
    BY <1>5, <1>6 DEF Report

\* The settlement changes nothing the row depends on.
LEMMA SettlePreserves == ASSUME IInv, Settle PROVE IInv'
  <1>1. /\ run.step = "settle"
        /\ UNCHANGED <<row, session, action, child, orphans, faults, pool, initiation, retries>>
    BY DEF Settle, outside
  <1>2. run \in Run /\ "settled" \in RunSteps
    BY TypesNow DEF RunSteps
  <1> DEFINE start == [run EXCEPT !.step = "settled"]
             first == [start EXCEPT !.cancelling = FALSE]
             second == [first EXCEPT !.cancelled = FALSE]
  <1>4. run' = [second EXCEPT !.timedOut = FALSE]
    BY <1>2, SMT DEF Settle, Run
  <1>9. start \in Run /\ Kept(start) /\ start.step = "settled" /\ start.outcome = run.outcome
    <2>1. start \in Run
      BY <1>2, SMT DEF Run
    <2> QED
      BY <1>2, <2>1, SMT DEF Run, Kept, Counted, Flagged
  <1> HIDE DEF start
  <1>3. first \in Run /\ Kept(first) /\ first.step = "settled" /\ first.outcome = run.outcome
    <2>1. first \in Run
      BY <1>9, Flags
    <2> QED
      BY <1>9, <2>1, SMT DEF Run, Kept, Counted, Flagged
  <1> HIDE DEF first
  <1>5. second \in Run /\ Kept(second) /\ second.step = "settled" /\ second.outcome = run.outcome
    <2>1. second \in Run
      BY <1>3, Flags
    <2> QED
      BY <1>3, <2>1, SMT DEF Run, Kept, Counted, Flagged
  <1> HIDE DEF second
  <1>6. run' \in Run
    BY <1>4, <1>5, Flags
  <1>7. Kept(run') /\ run'.step = "settled" /\ run'.outcome = run.outcome
    BY <1>4, <1>5, SMT DEF Run, Kept, Counted, Flagged
  <1>8. RowReported' /\ PausedIsDurable'
    BY <1>1, <1>7 DEF IInv, RowReported, PausedIsDurable, Kept, Flagged
  <1> QED
    BY <1>1, <1>6, <1>7, <1>8, TypesNow, EndMoves DEF Kept

\* The initial state satisfies the invariant.
LEMMA InitiallyIInv == Init => IInv
  <1> SUFFICES ASSUME Init PROVE IInv
    OBVIOUS
  <1>1. run = NewRun([resume |-> None, fresh |-> FALSE], "none")
    BY DEF Init
  <1>2. run \in Run
    BY <1>1, RunAssumption, SMT DEF NewRun, Run, RunSteps, Start, RunAssumption
  <1>3. /\ run.step = "none" /\ run.clicks = 0 /\ run.failures = 0
        /\ run.pressed = 0 /\ Allowed(run.pressed) = 0
        /\ run.outcome = None /\ run.believed = FALSE
    BY <1>1, AllowedGrows DEF NewRun
  <1>4. child = NoChild /\ child \in Child /\ child.kind = "none" /\ child.step = "none"
    BY DEF Init, NoChild, Child, ChildSteps
  <1>5. row \in Row /\ session \in Session
    BY SMT DEF Init, Row, Session, Writers
  <1>6. action \in [Actions -> UserAction]
    BY DEF Init, NoAction, UserAction
  <1>7. faults \in 0..MaxFaults /\ retries \in 0..MaxRetries
    BY RunAssumption, SMT DEF Init, RunAssumption
  <1>8. pool = {} /\ orphans = {} /\ initiation = "reading"
    BY DEF Init
  <1>9. RunTypeOK
    BY <1>2, <1>4, <1>5, <1>6, <1>7, <1>8 DEF RunTypeOK
  <1>10. ChildInStep /\ ClicksCounted /\ PauseProgress
    BY <1>3, <1>4, SMT DEF ChildInStep, ClicksCounted, PauseProgress
  <1>11. RowReported /\ PausedIsDurable /\ BelievedWasAccepted
    BY <1>3, RunAssumption DEF RowReported, PausedIsDurable, BelievedWasAccepted, RunAssumption
  <1> QED
    BY <1>9, <1>10, <1>11 DEF IInv

\* A stuttering step preserves it.
LEMMA StutterPreserves == ASSUME IInv, UNCHANGED vars PROVE IInv'
  <1>1. UNCHANGED <<row, session, action, pool, initiation, run, child, orphans, faults, retries>>
    BY DEF vars
  <1> QED
    BY <1>1, TypesNow, Elsewhere

\* Every step preserves it, one case for each action.
LEMMA NextPreserves == ASSUME IInv, [Next]_vars PROVE IInv'
  <1>1. CASE Initiate
    BY <1>1, InitiatePreserves
  <1>2. CASE User
    BY <1>2, InterruptionPreserves, RetryPreserves, AnswerPreserves DEF User
  <1>3. CASE ReceiveCancel \/ TimeOut
    BY <1>3, InterruptionPreserves
  <1>4. CASE RunStep
    BY <1>4, LoadApplicationPreserves, BeginGenerationPreserves, MarkProcessingPreserves,
       PreparePreserves, OpenPagePreserves, FinishSetupPreserves, ObservePreserves,
       DecideSubmitPreserves, PlanAndActPreserves, SubmitReturnsPreserves,
       PauseReturnsPreserves, CloseBrowserPreserves, ReportPreserves, SettlePreserves
       DEF RunStep
  <1>5. CASE ChildStep
    BY <1>5, ClickSubmitPreserves, VerifyPreserves, PauseFailsPreserves, PauseStepPreserves,
       AbandonPausePreserves DEF ChildStep
  <1>6. CASE \E start \in Start : StartRun(start)
    BY <1>6, StartRunPreserves
  <1>7. CASE \E orphan \in orphans, a \in Actions : Land(orphan, a)
    BY <1>7, LandPreserves
  <1>8. CASE UNCHANGED vars
    BY <1>8, StutterPreserves
  <1> QED
    BY <1>1, <1>2, <1>3, <1>4, <1>5, <1>6, <1>7, <1>8 DEF Next

\* The inductive invariant: which step goes with which child, what a pause has
\* done at each of its steps, what clicks were counted, and whose write the row shows.
THEOREM RunInvariant == Spec => []IInv
  <1>1. Init => IInv
    BY InitiallyIInv
  <1>2. IInv /\ [Next]_vars => IInv'
    BY NextPreserves
  <1> QED
    BY <1>1, <1>2, PTL DEF Spec

\* The state of an application and of its run stays of its type.
THEOREM RunTypes == Spec => []RunTypeOK
  <1>1. IInv => RunTypeOK
    BY DEF IInv
  <1> QED
    BY <1>1, RunInvariant, PTL

\* However many rounds it has, no run clicks the submit control of its own
\* accord more often than it may fail to submit, nor more often than an
\* ordinary tool is tried for each time the planner chose to click it.
THEOREM ClicksBounded == Spec => []SubmitsBounded
  <1>1. IInv => SubmitsBounded
    <2> SUFFICES ASSUME IInv PROVE SubmitsBounded
      OBVIOUS
    <2>1. /\ run.clicks \in Nat /\ run.pressed \in Nat
          /\ run.failures \in 0..(MaxSubmitFailures - 1)
      BY TypesNow, SMT DEF Run
    <2>2. run.clicks <= run.failures + 1 + Allowed(run.pressed) /\ Allowed(run.pressed) \in Nat
      BY <2>1, AllowedGrows DEF IInv, ClicksCounted
    <2>3. run.clicks <= MaxSubmitFailures + Allowed(run.pressed)
      BY <2>1, <2>2, RunAssumption, SMT DEF RunAssumption
    <2> QED
      BY <2>3 DEF SubmitsBounded, Allowed
  <1> QED
    BY <1>1, RunInvariant, PTL

\* A submission that the evidence decides was taken by the site.
THEOREM BelievedSubmissions == Spec => []BelievedWasAccepted
  <1>1. IInv => BelievedWasAccepted
    BY DEF IInv
  <1> QED
    BY <1>1, RunInvariant, PTL

\* A run that ends paused has made its pause durable, whatever earlier runs
\* left behind: only their deletion of the pending actions can take it away.
THEOREM PausesAreDurable == Spec => []PausedIsDurable
  <1>1. IInv => PausedIsDurable
    BY DEF IInv
  <1> QED
    BY <1>1, RunInvariant, PTL

\* The row of a settled run says how it ended.
THEOREM SettledRows == Spec => []SettledRowFinal
  <1>1. IInv => SettledRowFinal
    BY DEF IInv, RowReported, SettledRowFinal
  <1> QED
    BY <1>1, RunInvariant, PTL
==============================================================================
