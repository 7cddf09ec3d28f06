------------------------ MODULE MutationJournalProofs ------------------------
(***************************************************************************)
(* Proofs, for every value of the constants, that the journal is well      *)
(* typed, that no recorded action is performed twice by the calls that     *)
(* share its row, that the journal tells of nothing that was not done as   *)
(* long as no two calls have the same key, that nothing happens twice on a *)
(* browser as long as no cancelled run leaves an attempt behind, that rows *)
(* of single fields keep the order of their actions, and that a replay     *)
(* restores the page as long as every run closes its browser.              *)
(***************************************************************************)
EXTENDS MutationJournal, SequenceTheorems, WellFoundedInduction, TLAPS

-----------------------------------------------------------------------------
(* The inductive invariants.                                               *)

\* What an attempt holds at each of its steps, with n rows in the journal.
AttemptShape(attempt, n) ==
    /\ attempt.job = "none" => attempt.pc = "idle"
    /\ attempt.job = "mutate" =>
           /\ attempt.pc \in {"record", "reconcile", "execute", "settle", "report"}
           /\ attempt.call \in 1..MaxCalls
           /\ attempt.kinds \in Calls
           /\ attempt.field \in 1..Len(attempt.kinds)
           /\ attempt.pc = "execute" => attempt.row \in 0..n
           /\ attempt.pc \in {"reconcile", "settle"} => attempt.row \in 1..n
    /\ attempt.job = "replay" =>
           /\ attempt.pc \in {"claim", "execute", "settle", "report"}
           /\ attempt.row \in 1..n

Shapes ==
    /\ \A w \in Whose : AttemptShape(attempts[w], Len(journal))
    /\ \A listed \in todo : listed.row \in 1..Len(journal)
    /\ \A late \in flying : late.row \in 1..Len(journal)
    /\ run.phase \in {"open", "list", "replay", "act"} => run.no # 0

Typed == JournalTypeOK /\ Shapes

\* The attempt has the row in hand, to perform and settle it for its call.
Holds(attempt, row) ==
    attempt.job = "mutate" /\ attempt.pc \in {"execute", "settle"} /\ attempt.row = row

\* It has not performed it: it is about to, or the client refused to.
Unperformed(attempt) ==
    attempt.pc = "execute" \/ attempt.outcome = "refused"

\* A late execution of the row, on behalf of a call.
Late(late, row) == late.row = row /\ ~late.replayed

\* Whoever may still perform a row is alone with it, finds it unperformed, and
\* leaves it out of reach of the others: not failed.
RowGuarded(r) ==
    /\ journal[r].status = "failed" =>
           /\ journal[r].done = 0
           /\ \A w \in Whose : ~Holds(attempts[w], r)
           /\ \A late \in flying : ~Late(late, r)
    /\ \A w \in Whose : Holds(attempts[w], r) =>
           /\ Unperformed(attempts[w]) => journal[r].done = 0
           /\ \A late \in flying : ~Late(late, r)
    /\ Holds(attempts["own"], r) => ~Holds(attempts["left"], r)
    /\ \A late \in flying : Late(late, r) =>
           /\ journal[r].done = 0
           /\ \A other \in flying : Late(other, r) => other = late
    /\ journal[r].done <= 1

Guarded == \A r \in 1..Len(journal) : RowGuarded(r)

-----------------------------------------------------------------------------
(* Lemmas about the operators of the journal.                              *)

\* A call is a sequence of one or two kinds (the fields of TypeMultiple).
LEMMA CallsAreSequences ==
    ASSUME NEW call \in Calls
    PROVE  /\ call \in Seq(Kinds)
           /\ Len(call) \in Nat /\ Len(call) >= 1 /\ Len(call) <= MaxFields
<1>1. call \in [DOMAIN call -> Kinds] /\ DOMAIN call \in {1..1, 1..2}
  BY JournalAssumption DEF MaxFields
<1>2. PICK n \in 1..2 : DOMAIN call = 1..n
  BY <1>1
<1>3. call \in [1..n -> Kinds]
  BY <1>1, <1>2
<1>4. call \in Seq(Kinds)
  BY <1>3, SeqDef
<1>5. Len(call) \in Nat /\ 1..Len(call) = 1..n
  BY <1>2, <1>4, LenProperties
<1>6. Len(call) = n /\ n \in Nat /\ n >= 1 /\ n <= 2
  BY <1>2, <1>5
<1>7. QED
  BY <1>4, <1>6 DEF MaxFields

\* The bounds are natural numbers.
LEMMA BoundsAreNatural ==
    /\ MaxAttempts \in Nat /\ MaxRuns \in Nat /\ MaxCalls \in Nat /\ MaxSessions \in Nat
    /\ MaxTimeouts \in Nat /\ MaxCancels \in Nat /\ MaxLosses \in Nat
    /\ MaxStoreFailures \in Nat /\ MaxCloseFailures \in Nat
BY JournalAssumption

\* Setting a row's status changes that row's status and session and no more.
LEMMA StatusSet ==
    ASSUME journal \in Seq(JournalRow), NEW row \in 1..Len(journal),
           NEW status \in Statuses, NEW on \in Nat, SetStatus(row, status, on)
    PROVE  /\ journal' \in Seq(JournalRow) /\ Len(journal') = Len(journal)
           /\ \A r \in 1..Len(journal) :
                  /\ journal'[r].done = journal[r].done
                  /\ journal'[r].status = IF r = row THEN status ELSE journal[r].status
<1> DEFINE updated == [journal[row] EXCEPT !.status = status, !.on = on]
<1>1. journal[row] \in JournalRow
  BY ElementOfSeq
<1>2. /\ updated \in JournalRow /\ updated.status = status /\ updated.done = journal[row].done
  BY <1>1 DEF JournalRow
<1>3. journal' = [journal EXCEPT ![row] = updated]
  BY DEF SetStatus
<1> HIDE DEF updated
<1>4. journal' \in Seq(JournalRow) /\ Len(journal') = Len(journal)
  BY <1>2, <1>3, ExceptSeq
<1>5. \A r \in 1..Len(journal) : journal'[r] = IF r = row THEN updated ELSE journal[r]
  BY <1>3
<1>6. QED
  BY <1>2, <1>4, <1>5

\* The field after this one, or the end of the attempt.
LEMMA FieldOverMoves ==
    ASSUME Typed, NEW w \in Whose, attempts[w].job = "mutate",
           NEW error \in {"none", "retry", "fatal"}, FieldOver(w, error), NEW n \in Nat
    PROVE  /\ attempts' \in [Whose -> AttemptRecord]
           /\ attempts'[w].job = "mutate" /\ attempts'[w].pc \in {"record", "report"}
           /\ AttemptShape(attempts'[w], n)
           /\ \A v \in Whose \ {w} : attempts'[v] = attempts[v]
<1> DEFINE attempt == attempts[w]
           errors == Worse(attempt.errors, error)
<1>1. /\ attempts \in [Whose -> AttemptRecord] /\ attempt \in AttemptRecord
      /\ AttemptShape(attempt, Len(journal))
  BY DEF Typed, JournalTypeOK, Shapes
<1>2. Len(attempt.kinds) \in Nat /\ Len(attempt.kinds) >= 1 /\ Len(attempt.kinds) <= MaxFields
  BY <1>1, CallsAreSequences DEF AttemptShape
<1>3. errors \in {"none", "retry", "fatal"}
  BY <1>1 DEF Worse, AttemptRecord
<1> HIDE DEF errors
<1>4. CASE attempt.field = Len(attempt.kinds)
  <2>1. attempts' = [attempts EXCEPT ![w] = [attempt EXCEPT !.pc = "report", !.errors = errors]]
    BY <1>4 DEF FieldOver, Put, errors
  <2>2. QED
    BY <1>1, <1>3, <2>1 DEF AttemptRecord, AttemptShape
<1>5. CASE attempt.field # Len(attempt.kinds)
  <2>1. attempts' = [attempts EXCEPT ![w] = [attempt EXCEPT !.pc = "record", !.errors = errors,
                                                !.field = @ + 1, !.row = 0, !.outcome = "none"]]
    BY <1>5 DEF FieldOver, Put, errors
  <2>2. attempt.field \in 1..Len(attempt.kinds)
    BY <1>1 DEF AttemptShape
  <2>3. attempt.field + 1 \in 1..Len(attempt.kinds) /\ attempt.field + 1 \in 0..MaxFields
    <3>1. attempt.field \in Nat
      BY <1>2, <2>2
    <3>2. QED
      BY <1>2, <1>5, <2>2, <3>1 DEF MaxFields
  <2>4. QED
    BY <1>1, <1>2, <1>3, <2>1, <2>3 DEF AttemptRecord, AttemptShape
<1>6. QED
  BY <1>4, <1>5

\* An attempt that is retried starts from the beginning of its call.
LEMMA RetriedShape ==
    ASSUME NEW attempt \in AttemptRecord, NEW n \in Nat, AttemptShape(attempt, n),
           attempt.job # "none"
    PROVE  /\ Retried(attempt) \in AttemptRecord /\ AttemptShape(Retried(attempt), n)
           /\ Retried(attempt).job = attempt.job
           /\ Retried(attempt).pc \in {"record", "claim"}
<1>1. CASE attempt.job = "replay"
  <2> DEFINE again == [attempt EXCEPT !.try = attempt.try + 1, !.outcome = "none",
                          !.errors = "none", !.pc = "claim", !.field = 0, !.on = 0]
  <2>1. 0 \in 0..MaxFields /\ attempt.try + 1 \in Nat
    BY DEF MaxFields, AttemptRecord
  <2>2. again \in AttemptRecord
    BY <2>1 DEF AttemptRecord
  <2>3. AttemptShape(again, n) /\ again.job = "replay" /\ again.pc = "claim"
    BY <1>1 DEF AttemptRecord, AttemptShape
  <2>4. Retried(attempt) = again
    BY <1>1 DEF Retried, AttemptRecord
  <2>5. QED
    BY <1>1, <2>2, <2>3, <2>4
<1>2. CASE attempt.job = "mutate"
  <2>1. Len(attempt.kinds) \in Nat /\ Len(attempt.kinds) >= 1
    BY <1>2, CallsAreSequences DEF AttemptShape
  <2> DEFINE again == [attempt EXCEPT !.try = attempt.try + 1, !.outcome = "none",
                          !.errors = "none", !.pc = "record", !.field = 1, !.row = 0, !.on = 0]
  <2>2. 1 \in 0..MaxFields /\ 1 \in 1..Len(attempt.kinds) /\ attempt.try + 1 \in Nat
    BY <2>1 DEF MaxFields, AttemptRecord
  <2>3. again \in AttemptRecord
    BY <2>2 DEF AttemptRecord
  <2>4. AttemptShape(again, n) /\ again.job = "mutate" /\ again.pc = "record"
    BY <1>2, <2>2 DEF AttemptRecord, AttemptShape
  <2>5. Retried(attempt) = again
    BY <1>2 DEF Retried, AttemptRecord
  <2>6. QED
    BY <1>2, <2>3, <2>4, <2>5
<1>3. QED
  BY <1>1, <1>2 DEF AttemptRecord

\* No attempt at all.
LEMMA NoAttemptShape ==
    ASSUME NEW n \in Nat
    PROVE  NoAttempt \in AttemptRecord /\ AttemptShape(NoAttempt, n)
<1>1. <<>> \in Seq(Kinds) /\ 0 \in 0..MaxCalls /\ 0 \in 0..MaxFields
  BY BoundsAreNatural DEF MaxFields
<1>2. QED
  BY <1>1 DEF NoAttempt, AttemptRecord, AttemptShape

\* A set of rows has a first one.
LEMMA FirstOfRows ==
    ASSUME NEW rows, rows \subseteq Nat, rows # {}
    PROVE  \E row \in rows : \A other \in rows : row <= other
<1>1. PICK row \in rows : \A other \in rows : ~(<<other, row>> \in OpToRel(<, Nat))
  BY NatLessThanWellFounded, WFMin, Zenon
<1>2. ASSUME NEW other \in rows
      PROVE  ~(other < row)
  <2>1. <<other, row>> \in Nat \X Nat
    OBVIOUS
  <2>2. ASSUME other < row
        PROVE  <<other, row>> \in OpToRel(<, Nat)
    <3>1. <<other, row>>[1] < <<other, row>>[2]
      BY <2>2
    <3>2. QED
      BY <2>1, <3>1, Zenon DEF OpToRel
  <2>3. QED
    BY <1>1, <2>2, Zenon
<1>3. \A other \in rows : row <= other
  BY <1>2
<1>4. QED
  BY <1>3, Zenon

\* The earliest row that is listed exists.
LEMMA EarliestListed ==
    ASSUME JournalTypeOK, todo # {}
    PROVE  Earliest \in todo
<1> DEFINE rows == {listed.row : listed \in todo}
<1>1. rows \subseteq Nat /\ rows # {}
  BY DEF JournalTypeOK
<1> HIDE DEF rows
<1>2. \E row \in rows : \A other \in rows : row <= other
  BY <1>1, FirstOfRows
<1>3. \E listed \in todo : \A other \in todo : listed.row <= other.row
  BY <1>2 DEF rows
<1>4. QED
  BY <1>3 DEF Earliest

-----------------------------------------------------------------------------
(* Type correctness: what the workflow and the provider do.                *)

\* What an attempt holds remains right when rows are added.
LEMMA ShapeKept ==
    ASSUME NEW attempt \in AttemptRecord, NEW n \in Nat, NEW m \in Nat, n <= m,
           AttemptShape(attempt, n)
    PROVE  AttemptShape(attempt, m)
BY DEF AttemptShape, AttemptRecord

\* One attempt replaced by another that is in shape.
LEMMA PutShapes ==
    ASSUME Typed, NEW w \in Whose, NEW attempt \in AttemptRecord, NEW n \in Nat,
           AttemptShape(attempt, n), Len(journal) <= n, Put(w, attempt)
    PROVE  /\ attempts' \in [Whose -> AttemptRecord]
           /\ \A v \in Whose : AttemptShape(attempts'[v], n)
           /\ \A v \in Whose : attempts'[v] = IF v = w THEN attempt ELSE attempts[v]
<1>1. attempts \in [Whose -> AttemptRecord] /\ journal \in Seq(JournalRow)
  BY DEF Typed, JournalTypeOK
<1>2. \A v \in Whose : attempts'[v] = IF v = w THEN attempt ELSE attempts[v]
  BY <1>1 DEF Put
<1>3. attempts' \in [Whose -> AttemptRecord]
  BY <1>1 DEF Put
<1>4. ASSUME NEW v \in Whose
      PROVE  AttemptShape(attempts[v], n)
  <2>1. attempts[v] \in AttemptRecord /\ AttemptShape(attempts[v], Len(journal))
    BY <1>1 DEF Typed, Shapes
  <2>2. Len(journal) \in Nat
    BY <1>1
  <2>3. QED
    BY <2>1, <2>2, ShapeKept
<1>5. QED
  BY <1>2, <1>3, <1>4

\* Steps that leave the journal, the attempts and the list as they are.
LEMMA ShapesKept ==
    ASSUME Typed, UNCHANGED <<journal, attempts>>, todo' \subseteq todo, flying' \subseteq flying,
           run'.phase \in {"open", "list", "replay", "act"} => run'.no # 0
    PROVE  Shapes'
BY DEF Typed, Shapes

\* A run that begins, in the same or a new generation
\* (BeginBrowserReplayGeneration), keeps the types.
LEMMA BeginRunTyped ==
    ASSUME Typed, NEW newGeneration \in BOOLEAN, BeginRun(newGeneration)
    PROVE  Typed'
<1>1. run.no + 1 \in 0..MaxRuns /\ run.no + 1 # 0
  <2>1. run.no \in 0..MaxRuns /\ run.no < MaxRuns /\ MaxRuns \in Nat
    BY BoundsAreNatural DEF Typed, JournalTypeOK, BeginRun, RunRecord
  <2>2. QED
    BY <2>1
<1>2. run' \in RunRecord /\ run'.no = run.no + 1
  BY <1>1 DEF Typed, JournalTypeOK, BeginRun, Phases, RunRecord
<1>3. session' \in SessionRow
  <2>1. session.gen + 1 \in Nat
    BY DEF Typed, JournalTypeOK, SessionRow
  <2>2. \/ session' = [session EXCEPT !.gen = session.gen + 1]
        \/ session' = session
    BY DEF BeginRun, Typed, JournalTypeOK, SessionRow
  <2>3. QED
    BY <2>1, <2>2 DEF Typed, JournalTypeOK, SessionRow
<1>4. JournalTypeOK'
  BY <1>2, <1>3 DEF Typed, JournalTypeOK, BeginRun, world
<1>5. Shapes'
  BY <1>1, <1>2, ShapesKept DEF BeginRun, world
<1>6. QED
  BY <1>4, <1>5 DEF Typed

\* Reconnecting to a browser or creating one (StartBrowser) keeps the types.
LEMMA OpenWebpageTyped ==
    ASSUME Typed, NEW answered \in BOOLEAN, OpenWebpage(answered)
    PROVE  Typed'
<1>1. /\ page' \in Seq(Ops \cup {Start}) /\ alive' \in BOOLEAN
      /\ session' \in SessionRow
      /\ flying' \subseteq Execution
  <2>1. CASE Reconnect
    <3>1. page \in Seq(Ops \cup {Start}) /\ Start \in Ops \cup {Start}
      BY DEF Typed, JournalTypeOK
    <3>2. Append(page, Start) \in Seq(Ops \cup {Start})
      BY <3>1, AppendProperties
    <3>3. page' \in Seq(Ops \cup {Start})
      BY <2>1, <3>1, <3>2 DEF Reconnect
    <3>4. UNCHANGED <<session, alive, flying>>
      BY <2>1 DEF Reconnect
    <3>5. alive \in BOOLEAN /\ session \in SessionRow /\ flying \subseteq Execution
      BY DEF Typed, JournalTypeOK
    <3>6. QED
      BY <3>3, <3>4, <3>5
  <2>2. CASE Create
    <3>1. spent["sessions"] + 1 \in Nat
      BY DEF Typed, JournalTypeOK, Bounded
    <3>2. <<Start>> \in Seq(Ops \cup {Start})
      OBVIOUS
    <3>3. QED
      BY <2>2, <3>1, <3>2 DEF Typed, JournalTypeOK, Create, SessionRow
  <2>3. QED
    BY <2>1, <2>2 DEF OpenWebpage
<1>2. /\ run' \in RunRecord
      /\ run'.no = run.no /\ run.phase = "open"
  <2>1. /\ run.tries + 1 \in Nat /\ run \in RunRecord
        /\ {"list", "act", "ending"} \subseteq Phases
    BY DEF Typed, JournalTypeOK, RunRecord, Phases
  <2>2. \/ \E phase \in {"list", "act", "ending"} : run' = [run EXCEPT !.phase = phase]
        \/ run' = [run EXCEPT !.tries = run.tries + 1]
    BY DEF OpenWebpage
  <2>3. run.phase = "open"
    BY DEF OpenWebpage
  <2>4. QED
    BY <2>1, <2>2, <2>3 DEF RunRecord
<1>3. spent' \in [Bounded -> Nat]
  <2>1. session'.id \in Nat
    BY <1>1 DEF SessionRow
  <2>2. spent["timeouts"] + 1 \in Nat
    BY DEF Typed, JournalTypeOK, Bounded
  <2>3. QED
    BY <2>1, <2>2 DEF Typed, JournalTypeOK, OpenWebpage, Bounded
<1>4. JournalTypeOK'
  BY <1>1, <1>2, <1>3 DEF Typed, JournalTypeOK, OpenWebpage
<1>5. Shapes'
  BY <1>2, ShapesKept DEF OpenWebpage, Reconnect, Create, Typed, Shapes
<1>6. QED
  BY <1>4, <1>5 DEF Typed

\* The list changes neither the number of rows nor what is done.
LEMMA RowsListed ==
    ASSUME JournalTypeOK, ListBrowserMutationsForReplay
    PROVE  /\ journal' \in Seq(JournalRow) /\ Len(journal') = Len(journal)
           /\ \A r \in 1..Len(journal) :
                  /\ journal'[r].done = journal[r].done
                  /\ journal'[r].status \in {journal[r].status, "applied"}
<1>1. journal \in Seq(JournalRow) /\ Len(journal) \in Nat /\ DOMAIN journal = 1..Len(journal)
  BY DEF JournalTypeOK
<1>2. ASSUME NEW r \in 1..Len(journal)
      PROVE  /\ Recovered(journal[r]) \in JournalRow
             /\ Recovered(journal[r]).done = journal[r].done
             /\ Recovered(journal[r]).status \in {journal[r].status, "applied"}
  <2>1. journal[r] \in JournalRow
    BY <1>1, <1>2, ElementOfSeq
  <2>2. [journal[r] EXCEPT !.status = "applied", !.on = 0] \in JournalRow
    BY <2>1 DEF JournalRow, Statuses
  <2>3. QED
    BY <2>1, <2>2 DEF Recovered, JournalRow
<1>3. journal' = [r \in 1..Len(journal) |-> Recovered(journal[r])]
  BY <1>1 DEF ListBrowserMutationsForReplay
<1>4. journal' \in Seq(JournalRow) /\ DOMAIN journal' = 1..Len(journal)
  <2>1. journal' \in [1..Len(journal) -> JournalRow]
    BY <1>2, <1>3
  <2>2. QED
    BY <1>1, <2>1, SeqDef
<1>5. Len(journal') = Len(journal)
  BY <1>1, <1>4, LenProperties
<1>6. QED
  BY <1>2, <1>3, <1>4, <1>5

\* The list of rows to replay names rows of the journal only.
LEMMA ListTyped ==
    ASSUME Typed, ListBrowserMutationsForReplay
    PROVE  Typed'
<1>1. journal' \in Seq(JournalRow) /\ Len(journal') = Len(journal)
  BY RowsListed DEF Typed
<1>2. ASSUME NEW listed \in todo'
      PROVE  listed \in [row : Nat, ok : BOOLEAN] /\ listed.row \in 1..Len(journal)
  <2>1. PICK r \in ListedRows :
            listed = [row |-> r, ok |-> journal'[r].status = "applied" /\ ReplaySafe(journal[r].kind)]
    BY <1>2, Zenon DEF ListBrowserMutationsForReplay
  <2>2. r \in 1..Len(journal) /\ r \in Nat
    BY <2>1 DEF ListedRows, Typed, JournalTypeOK
  <2>3. (journal'[r].status = "applied" /\ ReplaySafe(journal[r].kind)) \in BOOLEAN
    BY Zenon
  <2>4. QED
    BY <2>1, <2>2, <2>3
<1>3. /\ run' \in RunRecord
      /\ run'.no = run.no /\ run.phase = "list"
  BY DEF Typed, JournalTypeOK, ListBrowserMutationsForReplay, Phases, RunRecord
<1>4. JournalTypeOK'
  BY <1>1, <1>2, <1>3 DEF Typed, JournalTypeOK, ListBrowserMutationsForReplay, world
<1>5. Shapes'
  BY <1>1, <1>2, <1>3 DEF Typed, Shapes, ListBrowserMutationsForReplay, world
<1>6. QED
  BY <1>4, <1>5 DEF Typed

\* Using up one of the bounds.
LEMMA SpendTyped ==
    ASSUME JournalTypeOK, NEW what \in Bounded, NEW max, Spend(what, max)
    PROVE  spent' \in [Bounded -> Nat]
<1>1. spent[what] + 1 \in Nat /\ spent \in [Bounded -> Nat]
  BY DEF JournalTypeOK
<1>2. QED
  BY <1>1 DEF Spend

\* The attempt that replays the next row has a row of the journal.
LEMMA ReplayNextTyped ==
    ASSUME Typed, ReplayNext
    PROVE  Typed'
<1> DEFINE attempt == [NoAttempt EXCEPT !.job = "replay", !.pc = "claim",
                                        !.row = Earliest.row, !.try = 1]
<1>1. Earliest.row \in 1..Len(journal) /\ Earliest.row \in Nat /\ Len(journal) \in Nat
  <2>1. Earliest \in todo /\ Len(journal) \in Nat
    BY EarliestListed DEF ReplayNext, Typed, JournalTypeOK
  <2>2. Earliest.row \in 1..Len(journal)
    BY <2>1 DEF Typed, Shapes
  <2>3. QED
    BY <2>1, <2>2
<1>2. attempt \in AttemptRecord /\ AttemptShape(attempt, Len(journal))
  <2>1. NoAttempt \in AttemptRecord
    BY <1>1, NoAttemptShape
  <2>2. attempt \in AttemptRecord
    BY <1>1, <2>1 DEF AttemptRecord
  <2>3. attempt.job = "replay" /\ attempt.pc = "claim" /\ attempt.row = Earliest.row
    BY DEF NoAttempt
  <2>4. QED
    BY <1>1, <2>2, <2>3 DEF AttemptShape
<1> HIDE DEF attempt
<1>3. /\ attempts' \in [Whose -> AttemptRecord]
      /\ \A v \in Whose : AttemptShape(attempts'[v], Len(journal))
  <2>1. CASE Put("own", attempt)
    BY <1>1, <1>2, <2>1, PutShapes DEF Whose
  <2>2. CASE UNCHANGED attempts
    BY <2>2 DEF Typed, JournalTypeOK, Shapes
  <2>3. QED
    BY <2>1, <2>2 DEF ReplayNext, attempt
<1>4. run' \in RunRecord /\ run'.no = run.no /\ run.phase = "replay"
  BY DEF Typed, JournalTypeOK, ReplayNext, RunRecord, Phases
<1>5. JournalTypeOK'
  BY <1>3, <1>4 DEF Typed, JournalTypeOK, ReplayNext, world
<1>6. Shapes'
  BY <1>3, <1>4 DEF Typed, Shapes, ReplayNext, world
<1>7. QED
  BY <1>5, <1>6 DEF Typed

\* CompleteBrowserReplay keeps the types.
LEMMA CompleteTyped ==
    ASSUME Typed, CompleteBrowserReplay
    PROVE  Typed'
<1>1. run' \in RunRecord /\ run'.no = run.no /\ run.phase = "replay"
  BY DEF Typed, JournalTypeOK, CompleteBrowserReplay, RunRecord, Phases
<1>2. session' \in SessionRow
  BY DEF Typed, JournalTypeOK, CompleteBrowserReplay, SessionRow
<1>3. JournalTypeOK'
  BY <1>1, <1>2 DEF Typed, JournalTypeOK, CompleteBrowserReplay, world
<1>4. Shapes'
  BY <1>1, ShapesKept DEF Typed, Shapes, CompleteBrowserReplay, world
<1>5. QED
  BY <1>3, <1>4 DEF Typed

\* The attempt of a new tool call starts with its first field.
LEMMA StartCallTyped ==
    ASSUME Typed, NEW kinds \in Calls, StartCall(kinds)
    PROVE  Typed'
<1>1. PICK id \in RunIds[run.no] :
          /\ run' = [run EXCEPT !.calls = @ + 1, !.id = id]
          /\ Put("own", [NoAttempt EXCEPT !.job = "mutate", !.pc = "record", !.call = run.calls + 1,
                                          !.id = id, !.kinds = kinds, !.field = 1, !.try = 1])
  BY DEF StartCall
<1>2. run \in RunRecord /\ run.phase = "act" /\ run.no # 0 /\ run.calls < MaxCalls
  BY DEF Typed, JournalTypeOK, Shapes, StartCall
<1>3. id \in Nat
  <2>1. run.no \in 1..MaxRuns
    BY <1>2, BoundsAreNatural DEF RunRecord
  <2>2. QED
    BY <1>1, <2>1, JournalAssumption
<1>4. run.calls + 1 \in 1..MaxCalls /\ run.calls + 1 \in 0..MaxCalls
  <2>1. run.calls \in 0..MaxCalls /\ run.calls < MaxCalls /\ MaxCalls \in Nat
    BY <1>2, BoundsAreNatural DEF RunRecord
  <2>2. QED
    BY <2>1
<1>5. /\ kinds \in Seq(Kinds) /\ Len(kinds) \in Nat /\ Len(kinds) >= 1
      /\ 1 \in 0..MaxFields /\ 1 \in 1..Len(kinds)
  BY CallsAreSequences DEF MaxFields
<1>6. Len(journal) \in Nat
  BY DEF Typed, JournalTypeOK
<1> DEFINE attempt == [NoAttempt EXCEPT !.job = "mutate", !.pc = "record", !.call = run.calls + 1,
                                        !.id = id, !.kinds = kinds, !.field = 1, !.try = 1]
<1>7. attempt \in AttemptRecord /\ AttemptShape(attempt, Len(journal))
  <2>1. NoAttempt \in AttemptRecord
    BY <1>6, NoAttemptShape
  <2>2. attempt \in AttemptRecord
    BY <1>3, <1>4, <1>5, <2>1 DEF AttemptRecord
  <2>3. /\ attempt.job = "mutate" /\ attempt.pc = "record" /\ attempt.call = run.calls + 1
        /\ attempt.kinds = kinds /\ attempt.field = 1
    BY DEF NoAttempt
  <2>4. QED
    BY <1>4, <1>5, <2>2, <2>3 DEF AttemptShape
<1>8. Put("own", attempt)
  BY <1>1
<1> HIDE DEF attempt
<1>9. /\ attempts' \in [Whose -> AttemptRecord]
      /\ \A v \in Whose : AttemptShape(attempts'[v], Len(journal))
  BY <1>6, <1>7, <1>8, PutShapes DEF Whose
<1>10. run' \in RunRecord /\ run'.no = run.no
  BY <1>1, <1>2, <1>3, <1>4 DEF RunRecord
<1>11. JournalTypeOK'
  BY <1>9, <1>10 DEF Typed, JournalTypeOK, StartCall, world
<1>12. Shapes'
  BY <1>2, <1>9, <1>10 DEF Typed, Shapes, StartCall, world
<1>13. QED
  BY <1>11, <1>12 DEF Typed

\* Leaving the loop keeps the types.
LEMMA LeaveTyped ==
    ASSUME Typed, Leave
    PROVE  Typed'
<1>1. run' \in RunRecord /\ run'.no = run.no /\ run.phase # "idle"
  BY DEF Typed, JournalTypeOK, Leave, RunRecord, Phases
<1>2. JournalTypeOK'
  BY <1>1 DEF Typed, JournalTypeOK, Leave, world
<1>3. Shapes'
  BY <1>1, ShapesKept DEF Typed, Shapes, Leave, world
<1>4. QED
  BY <1>2, <1>3 DEF Typed

\* What CancelRun does to the attempts: all that were there are still there.
LEMMA LeftBehind ==
    ASSUME Typed, CancelRun
    PROVE  /\ attempts' \in [Whose -> AttemptRecord]
           /\ \A v \in Whose : attempts'[v] = NoAttempt \/ \E w \in Whose : attempts'[v] = attempts[w]
           /\ attempts'["own"] = NoAttempt \/ attempts' = attempts
<1>1. attempts \in [Whose -> AttemptRecord] /\ NoAttempt \in AttemptRecord
  BY NoAttemptShape DEF Typed, JournalTypeOK
<1>2. \/ attempts' = attempts
      \/ attempts' = [attempts EXCEPT !["left"] = attempts["own"], !["own"] = NoAttempt]
  BY DEF CancelRun
<1>3. QED
  BY <1>1, <1>2 DEF Whose

\* Leaving an attempt behind keeps the types.
LEMMA CancelRunTyped ==
    ASSUME Typed, CancelRun
    PROVE  Typed'
<1>1. run' \in RunRecord /\ run'.no = run.no /\ run.phase # "idle"
  BY DEF Typed, JournalTypeOK, CancelRun, RunRecord, Phases
<1>2. /\ attempts' \in [Whose -> AttemptRecord]
      /\ \A v \in Whose : AttemptShape(attempts'[v], Len(journal))
  <2>1. Len(journal) \in Nat
    BY DEF Typed, JournalTypeOK
  <2>2. QED
    BY <2>1, LeftBehind, NoAttemptShape DEF Typed, Shapes
<1>3. spent' \in [Bounded -> Nat]
  BY SpendTyped DEF CancelRun, Bounded, Typed
<1>4. JournalTypeOK'
  BY <1>1, <1>2, <1>3 DEF Typed, JournalTypeOK, CancelRun, world
<1>5. Shapes'
  BY <1>1, <1>2 DEF Typed, Shapes, CancelRun, world
<1>6. QED
  BY <1>4, <1>5 DEF Typed

\* The page of a browser that is gone.
LEMMA EmptyPage == <<>> \in Seq(Ops \cup {Start})
BY EmptySeq

\* Closing the browser, or failing to, keeps the types.
LEMMA CloseBrowserTyped ==
    ASSUME Typed, NEW deleted \in BOOLEAN, NEW cleared \in BOOLEAN, CloseBrowser(deleted, cleared)
    PROVE  Typed'
<1>1. run' \in RunRecord /\ run'.phase = "idle"
  BY DEF Typed, JournalTypeOK, CloseBrowser, RunRecord, Phases
<1>2. spent' \in [Bounded -> Nat]
  BY SpendTyped DEF CloseBrowser, Bounded, Typed, JournalTypeOK
<1>3. session' \in SessionRow
  BY DEF Typed, JournalTypeOK, CloseBrowser, SessionRow
<1>4. /\ alive' \in BOOLEAN /\ page' \in Seq(Ops \cup {Start}) /\ flying' \subseteq Execution
  <2>1. CASE alive' = FALSE /\ page' = <<>> /\ flying' = {}
    BY <2>1, EmptyPage
  <2>2. CASE UNCHANGED <<alive, page, flying>>
    BY <2>2 DEF Typed, JournalTypeOK
  <2>3. QED
    BY <2>1, <2>2 DEF CloseBrowser
<1>5. JournalTypeOK'
  BY <1>1, <1>2, <1>3, <1>4 DEF Typed, JournalTypeOK, CloseBrowser
<1>6. Shapes'
  BY <1>1, ShapesKept DEF CloseBrowser
<1>7. QED
  BY <1>5, <1>6 DEF Typed

\* The loss of the browser keeps the types.
LEMMA ExpireTyped ==
    ASSUME Typed, Expire
    PROVE  Typed'
<1>1. spent' \in [Bounded -> Nat]
  BY SpendTyped DEF Expire, Bounded, Typed
<1>2. JournalTypeOK'
  BY <1>1, EmptyPage DEF Typed, JournalTypeOK, Expire
<1>3. Shapes'
  BY ShapesKept DEF Typed, Shapes, Expire
<1>4. QED
  BY <1>2, <1>3 DEF Typed

-----------------------------------------------------------------------------
(* Type correctness: what the attempts do.                                 *)

\* The action an attempt has in hand.
LEMMA OpTyped ==
    ASSUME Typed, NEW w \in Whose, attempts[w].job = "mutate"
    PROVE  Op(w) \in Ops /\ Kind(w) \in Kinds /\ attempts[w].id \in Nat /\ attempts[w].field \in Nat
<1>1. /\ attempts[w].call \in 1..MaxCalls /\ attempts[w].kinds \in Calls
      /\ attempts[w].field \in 1..Len(attempts[w].kinds)
      /\ attempts[w] \in AttemptRecord
  BY DEF Typed, JournalTypeOK, Shapes, AttemptShape
<1>2. /\ attempts[w].kinds \in Seq(Kinds) /\ Len(attempts[w].kinds) \in Nat
      /\ Len(attempts[w].kinds) <= MaxFields
  BY <1>1, CallsAreSequences
<1>3. attempts[w].field \in 1..MaxFields
  <2>1. attempts[w].field \in Nat /\ MaxFields \in Nat
    BY <1>1, <1>2 DEF MaxFields
  <2>2. QED
    BY <1>1, <1>2, <2>1
<1>4. Kind(w) \in Kinds
  BY <1>1, <1>2, ElementOfSeq DEF Kind
<1>5. QED
  BY <1>1, <1>3, <1>4 DEF Op, Ops, AttemptRecord

\* Performing a row counts in that row and nowhere else.
LEMMA RowPerformed ==
    ASSUME journal \in Seq(JournalRow), NEW row \in 1..Len(journal), NEW op, Performed(row, op)
    PROVE  /\ journal' \in Seq(JournalRow) /\ Len(journal') = Len(journal)
           /\ \A r \in 1..Len(journal) :
                  /\ journal'[r].status = journal[r].status
                  /\ journal'[r].done = IF r = row THEN journal[r].done + 1 ELSE journal[r].done
<1> DEFINE updated == [journal[row] EXCEPT !.done = journal[row].done + 1]
<1>1. journal[row] \in JournalRow
  BY ElementOfSeq
<1>2. journal[row].done + 1 \in Nat
  <2>1. journal[row].done \in Nat
    BY <1>1 DEF JournalRow
  <2>2. QED
    BY <2>1
<1>3. /\ updated \in JournalRow /\ updated.status = journal[row].status
      /\ updated.done = journal[row].done + 1
  BY <1>1, <1>2 DEF JournalRow
<1>4. journal' = [journal EXCEPT ![row] = updated]
  BY DEF Performed
<1> HIDE DEF updated
<1>5. journal' \in Seq(JournalRow) /\ Len(journal') = Len(journal)
  BY <1>3, <1>4, ExceptSeq
<1>6. \A r \in 1..Len(journal) : journal'[r] = IF r = row THEN updated ELSE journal[r]
  BY <1>4
<1>7. QED
  BY <1>3, <1>5, <1>6

\* The attempts after one has come to the end of a field.
LEMMA FieldOverShapes ==
    ASSUME Typed, NEW w \in Whose, attempts[w].job = "mutate",
           NEW error \in {"none", "retry", "fatal"}, FieldOver(w, error)
    PROVE  /\ attempts' \in [Whose -> AttemptRecord]
           /\ \A v \in Whose : AttemptShape(attempts'[v], Len(journal))
<1>1. Len(journal) \in Nat
  BY DEF Typed, JournalTypeOK
<1>2. \A v \in Whose \ {w} : attempts'[v] = attempts[v]
  BY <1>1, FieldOverMoves
<1>3. attempts' \in [Whose -> AttemptRecord] /\ AttemptShape(attempts'[w], Len(journal))
  BY <1>1, FieldOverMoves
<1>4. QED
  BY <1>2, <1>3 DEF Typed, Shapes

\* A step of an attempt that only touches the journal, the attempts and the counters.
LEMMA StoreStepTyped ==
    ASSUME Typed, UNCHANGED <<session, run, todo, world>>,
           journal' \in Seq(JournalRow), Len(journal) <= Len(journal'),
           attempts' \in [Whose -> AttemptRecord],
           \A v \in Whose : AttemptShape(attempts'[v], Len(journal')),
           spent' \in [Bounded -> Nat]
    PROVE  Typed'
<1>1. JournalTypeOK'
  BY DEF Typed, JournalTypeOK, world
<1>2. Len(journal) \in Nat /\ Len(journal') \in Nat
  BY DEF Typed, JournalTypeOK
<1>3. \A row \in 1..Len(journal) : row \in 1..Len(journal')
  BY <1>2
<1>4. Shapes'
  BY <1>3 DEF Typed, Shapes, world
<1>5. QED
  BY <1>1, <1>4 DEF Typed

\* The row that Record takes in hand is one of the journal, which it may
\* extend.
LEMMA RecordTyped ==
    ASSUME Typed, NEW w \in Whose, Record(w)
    PROVE  Typed'
<1> DEFINE key == <<attempts[w].id, attempts[w].field>>
           Executing(row) == [attempts[w] EXCEPT !.pc = "execute", !.row = row]
<1>1. /\ attempts[w].job = "mutate" /\ attempts[w].pc = "record" /\ attempts[w] \in AttemptRecord
      /\ AttemptShape(attempts[w], Len(journal))
      /\ journal \in Seq(JournalRow) /\ Len(journal) \in Nat /\ DOMAIN journal = 1..Len(journal)
  <2>1. attempts[w].job = "mutate" /\ attempts[w].pc = "record"
    BY DEF Record, At
  <2>2. attempts[w] \in AttemptRecord /\ AttemptShape(attempts[w], Len(journal))
    BY DEF Typed, JournalTypeOK, Shapes
  <2>3. journal \in Seq(JournalRow)
    BY DEF Typed, JournalTypeOK
  <2>4. QED
    BY <2>1, <2>2, <2>3, LenProperties
<1>2. UNCHANGED <<session, run, todo, spent, world>> /\ spent' \in [Bounded -> Nat]
  BY DEF Record, Typed, JournalTypeOK
<1>3. ASSUME NEW row \in Nat, NEW n \in Nat, row <= n, Len(journal) <= n
      PROVE  Executing(row) \in AttemptRecord /\ AttemptShape(Executing(row), n)
  <2>1. Executing(row) \in AttemptRecord
    BY <1>1 DEF AttemptRecord
  <2>2. /\ Executing(row).job = "mutate" /\ Executing(row).pc = "execute" /\ Executing(row).row = row
        /\ Executing(row).call = attempts[w].call /\ Executing(row).kinds = attempts[w].kinds
        /\ Executing(row).field = attempts[w].field
    BY <1>1 DEF AttemptRecord
  <2>3. QED
    BY <1>1, <1>3, <2>1, <2>2 DEF AttemptShape
<1> HIDE DEF Executing
<1>4. CASE \/ Put(w, Executing(0)) /\ UNCHANGED journal
           \/ FieldOver(w, "retry") /\ UNCHANGED journal
           \/ FieldOver(w, "none") /\ UNCHANGED journal
  <2>1. CASE Put(w, Executing(0)) /\ UNCHANGED journal
    BY <1>1, <1>2, <1>3, <2>1, PutShapes, StoreStepTyped
  <2>2. ASSUME NEW error \in {"none", "retry"}, FieldOver(w, error), UNCHANGED journal
        PROVE  Typed'
    BY <1>1, <1>2, <2>2, FieldOverShapes, StoreStepTyped
  <2>3. QED
    BY <1>4, <2>1, <2>2
<1>5. CASE /\ journal' = Append(journal, [key |-> key, gen |-> session.gen, op |-> Op(w),
                              kind |-> Kind(w), status |-> "pending", on |-> 0, done |-> 0])
           /\ Put(w, Executing(Len(journal) + 1))
  <2>1. [key |-> key, gen |-> session.gen, op |-> Op(w), kind |-> Kind(w), status |-> "pending",
         on |-> 0, done |-> 0] \in JournalRow
    <3>1. session.gen \in Nat /\ "pending" \in Statuses
      BY DEF Typed, JournalTypeOK, SessionRow, Statuses
    <3>2. key \in Nat \X Nat /\ Op(w) \in Ops /\ Kind(w) \in Kinds
      BY <1>1, OpTyped
    <3>3. QED
      BY <3>1, <3>2 DEF JournalRow
  <2>2. journal' \in Seq(JournalRow) /\ Len(journal') = Len(journal) + 1
    BY <1>1, <1>5, <2>1, AppendProperties
  <2>3. Len(journal) + 1 \in Nat /\ Len(journal) <= Len(journal) + 1
    BY <1>1
  <2>4. /\ attempts' \in [Whose -> AttemptRecord]
        /\ \A v \in Whose : AttemptShape(attempts'[v], Len(journal) + 1)
    BY <1>1, <1>3, <1>5, <2>3, PutShapes
  <2>5. QED
    BY <1>2, <2>2, <2>3, <2>4, StoreStepTyped
<1>6. CASE \E row \in RowsOf(key) :
              /\ Retriable(row)
              /\ SetStatus(row, "pending", 0)
              /\ Put(w, Executing(row))
  <2>1. PICK row \in RowsOf(key) : SetStatus(row, "pending", 0) /\ Put(w, Executing(row))
    BY <1>6
  <2>2. row \in 1..Len(journal) /\ row \in Nat /\ row <= Len(journal)
    BY <1>1 DEF RowsOf
  <2>3. journal' \in Seq(JournalRow) /\ Len(journal') = Len(journal)
    BY <1>1, <2>1, <2>2, StatusSet DEF Statuses
  <2>4. QED
    BY <1>1, <1>2, <1>3, <2>1, <2>2, <2>3, PutShapes, StoreStepTyped
<1>7. CASE \E row \in RowsOf(key) :
              /\ Settleable(row)
              /\ Put(w, [attempts[w] EXCEPT !.pc = "reconcile", !.row = row])
              /\ UNCHANGED journal
  <2>1. PICK row \in RowsOf(key) :
            Put(w, [attempts[w] EXCEPT !.pc = "reconcile", !.row = row]) /\ UNCHANGED journal
    BY <1>7
  <2> DEFINE attempt == [attempts[w] EXCEPT !.pc = "reconcile", !.row = row]
  <2>2. row \in 1..Len(journal) /\ row \in Nat
    BY <1>1 DEF RowsOf
  <2>3. attempt \in AttemptRecord
    BY <1>1, <2>2 DEF AttemptRecord
  <2>4. /\ attempt.job = "mutate" /\ attempt.pc = "reconcile" /\ attempt.row = row
        /\ attempt.call = attempts[w].call /\ attempt.kinds = attempts[w].kinds
        /\ attempt.field = attempts[w].field
    BY <1>1 DEF AttemptRecord
  <2>5. AttemptShape(attempt, Len(journal))
    BY <1>1, <2>2, <2>4 DEF AttemptShape
  <2>6. Put(w, attempt)
    BY <2>1
  <2> HIDE DEF attempt
  <2>7. QED
    BY <1>1, <1>2, <2>1, <2>3, <2>5, <2>6, PutShapes, StoreStepTyped
<1>8. QED
  BY <1>4, <1>5, <1>6, <1>7 DEF Record, Executing

\* An attempt that has a row in hand, and the journal's shape.
LEMMA RowInHand ==
    ASSUME Typed, NEW w \in Whose, attempts[w].job # "none"
    PROVE  /\ attempts[w] \in AttemptRecord /\ AttemptShape(attempts[w], Len(journal))
           /\ attempts[w].pc \in {"reconcile", "settle"} => attempts[w].row \in 1..Len(journal)
           /\ attempts[w].pc = "execute" => attempts[w].row \in 0..Len(journal)
           /\ attempts[w].job = "replay" => attempts[w].row \in 1..Len(journal)
           /\ journal \in Seq(JournalRow) /\ Len(journal) \in Nat
<1>1. attempts[w] \in AttemptRecord /\ AttemptShape(attempts[w], Len(journal))
  BY DEF Typed, JournalTypeOK, Shapes
<1>2. journal \in Seq(JournalRow) /\ Len(journal) \in Nat
  BY DEF Typed, JournalTypeOK
<1>3. \A row \in 1..Len(journal) : row \in 0..Len(journal)
  BY <1>2
<1>4. attempts[w].job \in {"mutate", "replay"}
  BY <1>1 DEF AttemptRecord
<1>5. CASE attempts[w].job = "mutate"
  BY <1>1, <1>2, <1>5 DEF AttemptShape
<1>6. CASE attempts[w].job = "replay"
  BY <1>1, <1>2, <1>3, <1>6 DEF AttemptShape
<1>7. QED
  BY <1>4, <1>5, <1>6

\* Reconciling a row keeps the types.
LEMMA ReconcileTyped ==
    ASSUME Typed, NEW w \in Whose, Reconcile(w)
    PROVE  Typed'
<1>1. attempts[w].job = "mutate" /\ attempts[w].pc = "reconcile"
  BY DEF Reconcile, At
<1>2. UNCHANGED <<session, run, todo, spent, page, alive, flying, submits>>
  BY DEF Reconcile
<1>3. /\ journal \in Seq(JournalRow) /\ Len(journal) \in Nat
      /\ attempts[w].row \in 1..Len(journal)
  BY <1>1, RowInHand
<1>4. PICK error \in {"none", "retry", "fatal"} : FieldOver(w, error)
  BY DEF Reconcile
<1>5. journal' = journal \/ SetStatus(attempts[w].row, "applied", 0)
  BY DEF Reconcile
<1>6. journal' \in Seq(JournalRow) /\ Len(journal') = Len(journal)
  BY <1>3, <1>5, StatusSet DEF Statuses
<1>7. /\ attempts' \in [Whose -> AttemptRecord]
      /\ \A v \in Whose : AttemptShape(attempts'[v], Len(journal))
  BY <1>1, <1>4, FieldOverShapes
<1>8. evident' \subseteq Ops /\ assumed' \subseteq evident'
  <2>1. Op(w) \in Ops /\ evident \subseteq Ops /\ assumed \subseteq evident
    BY <1>1, OpTyped DEF Typed, JournalTypeOK
  <2>2. \/ evident' = evident /\ assumed' = assumed
        \/ evident' = evident \cup {Op(w)} /\ assumed' \in {assumed, assumed \cup {Op(w)}}
    BY DEF Reconcile
  <2>3. QED
    BY <2>1, <2>2
<1>9. JournalTypeOK'
  BY <1>2, <1>6, <1>7, <1>8 DEF Typed, JournalTypeOK
<1>10. Shapes'
  BY <1>2, <1>6, <1>7 DEF Typed, Shapes
<1>11. QED
  BY <1>9, <1>10 DEF Typed

\* Errors of an attempt.
LEMMA ErrorsTyped ==
    ASSUME NEW w, NEW outcome, NEW error \in ErrorsOf(w, outcome)
    PROVE  error \in {"none", "retry", "fatal"} /\ Worse("retry", error) \in {"none", "retry", "fatal"}
BY DEF ErrorsOf, Worse

\* Settling a row keeps the types.
LEMMA SettleTyped ==
    ASSUME Typed, NEW w \in Whose, NEW stored \in BOOLEAN, Settle(w, stored)
    PROVE  Typed'
<1>1. attempts[w].job = "mutate" /\ attempts[w].pc = "settle"
  BY DEF Settle, At
<1>2. UNCHANGED <<session, run, todo, world>>
  BY DEF Settle
<1>3. spent' \in [Bounded -> Nat]
  <2>1. CASE stored
    BY <2>1 DEF Settle, Typed, JournalTypeOK
  <2>2. CASE ~stored
    BY <2>2, SpendTyped DEF Settle, Typed, Bounded
  <2>3. QED
    BY <2>1, <2>2
<1>4. /\ journal \in Seq(JournalRow) /\ Len(journal) \in Nat
      /\ attempts[w].row \in 1..Len(journal)
  BY <1>1, RowInHand
<1>5. PICK error \in {"none", "retry", "fatal"} : FieldOver(w, error)
  BY ErrorsTyped DEF Settle
<1>6. journal' = journal \/ SetStatus(attempts[w].row, Settlement(attempts[w].outcome), 0)
  BY DEF Settle
<1>7. journal' \in Seq(JournalRow) /\ Len(journal') = Len(journal)
  BY <1>4, <1>6, StatusSet DEF Statuses, Settlement
<1>8. /\ attempts' \in [Whose -> AttemptRecord]
      /\ \A v \in Whose : AttemptShape(attempts'[v], Len(journal))
  BY <1>1, <1>5, FieldOverShapes
<1>9. QED
  BY <1>2, <1>3, <1>4, <1>7, <1>8, StoreStepTyped

\* An attempt that moves on with the row it has in hand.
LEMMA MovedShape ==
    ASSUME NEW attempt \in AttemptRecord, NEW n \in Nat, AttemptShape(attempt, n),
           attempt.job # "none", attempt.row \in 1..n,
           NEW next \in AttemptRecord, next.job = attempt.job, next.row = attempt.row,
           next.call = attempt.call, next.kinds = attempt.kinds, next.field = attempt.field,
           next.pc \in {"execute", "settle", "report"}
    PROVE  AttemptShape(next, n)
<1>1. attempt.row \in 0..n
  OBVIOUS
<1>2. QED
  BY <1>1 DEF AttemptShape

\* What Execute does to the attempt that executes.
LEMMA ExecutedAttempt ==
    ASSUME Typed, NEW w \in Whose, NEW outcome \in {"done", "refused", "uncertain"},
           NEW lands \in BOOLEAN, Execute(w, outcome, lands)
    PROVE  /\ attempts[w].job # "none" /\ attempts[w].pc = "execute"
           /\ attempts' \in [Whose -> AttemptRecord]
           /\ \A v \in Whose : AttemptShape(attempts'[v], Len(journal))
           /\ \A v \in Whose \ {w} : attempts'[v] = attempts[v]
           /\ attempts[w].row = 0 =>
                  attempts[w].job = "mutate" /\ attempts'[w].pc \in {"record", "report"}
           /\ attempts[w].row # 0 =>
                  /\ attempts'[w].job = attempts[w].job /\ attempts'[w].pc = "settle"
                  /\ attempts'[w].row = attempts[w].row /\ attempts'[w].outcome = outcome
<1>1. attempts[w].pc = "execute"
  BY DEF Execute
<1>2. attempts[w].job # "none"
  BY <1>1 DEF Typed, Shapes, AttemptShape
<1>3. /\ attempts[w] \in AttemptRecord /\ Len(journal) \in Nat
      /\ attempts[w].row \in 0..Len(journal)
      /\ attempts[w].job = "replay" => attempts[w].row \in 1..Len(journal)
  BY <1>1, <1>2, RowInHand
<1>4. CASE attempts[w].row = 0
  <2>1. attempts[w].job = "mutate"
    BY <1>2, <1>3, <1>4 DEF AttemptRecord
  <2>2. PICK error \in {"none", "retry", "fatal"} : FieldOver(w, error)
    BY <1>4, ErrorsTyped DEF Execute
  <2>3. QED
    BY <1>1, <1>2, <1>3, <1>4, <2>1, <2>2, FieldOverMoves, FieldOverShapes
<1>5. CASE attempts[w].row # 0
  <2> DEFINE next == [attempts[w] EXCEPT !.pc = "settle", !.outcome = outcome,
                          !.errors = attempts[w].errors, !.on = attempts[w].on]
  <2>1. attempts[w].row \in 1..Len(journal)
    BY <1>3, <1>5
  <2>2. /\ attempts[w].errors \in {"none", "retry", "fatal"} /\ attempts[w].on \in Nat
        /\ outcome \in {"none", "done", "refused", "uncertain"}
        /\ "settle" \in {"execute", "settle", "report"}
    BY <1>3 DEF AttemptRecord
  <2>3. next = [attempts[w] EXCEPT !.pc = "settle", !.outcome = outcome]
    BY <1>3 DEF AttemptRecord
  <2>4. next = [attempts[w] EXCEPT !.pc = "settle", !.outcome = outcome,
                    !.errors = attempts[w].errors, !.on = attempts[w].on]
    OBVIOUS
  <2>5. Put(w, next)
    BY <1>5, <2>3 DEF Execute
  <2> HIDE DEF next
  <2>6. /\ next \in AttemptRecord /\ AttemptShape(next, Len(journal))
        /\ next.job = attempts[w].job /\ next.pc = "settle" /\ next.row = attempts[w].row
        /\ next.outcome = outcome
    <3>1. /\ next \in AttemptRecord
          /\ next.job = attempts[w].job /\ next.pc = "settle" /\ next.row = attempts[w].row
          /\ next.call = attempts[w].call /\ next.kinds = attempts[w].kinds
          /\ next.field = attempts[w].field /\ next.outcome = outcome
      BY <1>3, <2>2, <2>4 DEF AttemptRecord
    <3>2. AttemptShape(attempts[w], Len(journal))
      BY <1>2, RowInHand
    <3>3. QED
      BY <1>2, <1>3, <2>1, <3>1, <3>2, MovedShape
  <2>7. QED
    BY <1>1, <1>2, <1>3, <1>5, <2>5, <2>6, PutShapes
<1>6. QED
  BY <1>4, <1>5

\* What Execute does to the journal: it performs the row in hand, or nothing.
LEMMA ExecutedRow ==
    ASSUME Typed, NEW w \in Whose, NEW outcome \in {"done", "refused", "uncertain"},
           NEW lands \in BOOLEAN, Execute(w, outcome, lands)
    PROVE  \/ /\ UNCHANGED journal
              /\ page' = page \/ \E op \in Ops : page' = Append(page, op)
              /\ evident' = evident
              /\ submits' \in [Ops -> Nat]
           \/ /\ attempts[w].job = "mutate" /\ attempts[w].row \in 1..Len(journal)
              /\ outcome # "refused"
              /\ Op(w) \in Ops
              /\ Performed(attempts[w].row, Op(w))
              /\ submits' = submits
<1>1. /\ attempts[w].pc = "execute" /\ attempts[w].job # "none"
  BY ExecutedAttempt
<1>2. /\ attempts[w] \in AttemptRecord /\ Len(journal) \in Nat /\ journal \in Seq(JournalRow)
      /\ attempts[w].row \in 0..Len(journal)
      /\ attempts[w].job = "replay" => attempts[w].row \in 1..Len(journal)
  BY <1>1, RowInHand
<1>3. submits \in [Ops -> Nat]
  BY DEF Typed, JournalTypeOK
<1>4. CASE ~lands
  BY <1>3, <1>4 DEF Execute
<1>5. CASE lands /\ attempts[w].row = 0
  <2>1. attempts[w].job = "mutate"
    BY <1>1, <1>2, <1>5 DEF AttemptRecord
  <2>2. Op(w) \in Ops
    BY <2>1, OpTyped
  <2>3. submits[Op(w)] + 1 \in Nat
    BY <1>3, <2>2
  <2>4. /\ submits' = [submits EXCEPT ![Op(w)] = submits[Op(w)] + 1]
        /\ UNCHANGED <<page, evident, journal>>
    BY <1>5 DEF Execute
  <2>5. QED
    BY <1>3, <2>3, <2>4
<1>6. CASE lands /\ attempts[w].row # 0 /\ attempts[w].job = "replay"
  <2>1. journal[attempts[w].row].op \in Ops
    <3>1. journal[attempts[w].row] \in JournalRow
      BY <1>2, <1>6, ElementOfSeq
    <3>2. QED
      BY <3>1 DEF JournalRow
  <2>2. Replayed(journal[attempts[w].row].op) /\ UNCHANGED submits
    BY <1>6 DEF Execute
  <2>3. QED
    BY <1>3, <2>1, <2>2 DEF Replayed
<1>7. CASE lands /\ attempts[w].row # 0 /\ attempts[w].job # "replay"
  <2>1. attempts[w].job = "mutate"
    BY <1>1, <1>2, <1>7 DEF AttemptRecord
  <2>2. attempts[w].row \in 1..Len(journal)
    BY <1>2, <1>7
  <2>3. Performed(attempts[w].row, Op(w)) /\ UNCHANGED submits /\ outcome # "refused"
    BY <1>7 DEF Execute
  <2>4. Op(w) \in Ops
    BY <2>1, OpTyped
  <2>5. QED
    BY <2>1, <2>2, <2>3, <2>4
<1>8. QED
  BY <1>4, <1>5, <1>6, <1>7

\* A step after which some action may have been added to the page.
LEMMA PageStepTyped ==
    ASSUME Typed, UNCHANGED <<session, run, todo, spent, alive>>, flying' \subseteq flying,
           journal' \in Seq(JournalRow), Len(journal') = Len(journal),
           attempts' \in [Whose -> AttemptRecord],
           \A v \in Whose : AttemptShape(attempts'[v], Len(journal)),
           page' = page \/ \E op \in Ops : page' = Append(page, op),
           evident' \subseteq Ops, assumed' \subseteq evident', submits' \in [Ops -> Nat]
    PROVE  Typed'
<1>1. page' \in Seq(Ops \cup {Start})
  <2>1. page \in Seq(Ops \cup {Start})
    BY DEF Typed, JournalTypeOK
  <2>2. ASSUME NEW op \in Ops
        PROVE  Append(page, op) \in Seq(Ops \cup {Start})
    BY <2>1, AppendProperties
  <2>3. QED
    BY <2>1, <2>2
<1>2. JournalTypeOK'
  BY <1>1 DEF Typed, JournalTypeOK
<1>3. Shapes'
  BY DEF Typed, Shapes
<1>4. QED
  BY <1>2, <1>3 DEF Typed

\* Executing a row, or an action without one, keeps the types.
LEMMA ExecuteTyped ==
    ASSUME Typed, NEW w \in Whose, NEW outcome \in {"done", "refused", "uncertain"},
           NEW lands \in BOOLEAN, Execute(w, outcome, lands)
    PROVE  Typed'
<1>1. /\ attempts' \in [Whose -> AttemptRecord]
      /\ \A v \in Whose : AttemptShape(attempts'[v], Len(journal))
  BY ExecutedAttempt
<1>2. UNCHANGED <<session, run, todo, spent, alive>> /\ UNCHANGED <<flying, assumed>>
  BY DEF Execute
<1>3. /\ journal \in Seq(JournalRow) /\ evident \subseteq Ops /\ submits \in [Ops -> Nat]
      /\ assumed \subseteq evident
  BY DEF Typed, JournalTypeOK
<1>4. CASE /\ UNCHANGED journal
           /\ page' = page \/ \E op \in Ops : page' = Append(page, op)
           /\ evident' = evident
           /\ submits' \in [Ops -> Nat]
  BY <1>1, <1>2, <1>3, <1>4, PageStepTyped
<1>5. CASE /\ attempts[w].row \in 1..Len(journal) /\ Op(w) \in Ops
           /\ Performed(attempts[w].row, Op(w)) /\ submits' = submits
  <2>1. journal' \in Seq(JournalRow) /\ Len(journal') = Len(journal)
    BY <1>3, <1>5, RowPerformed
  <2>2. page' = Append(page, Op(w)) /\ evident' \subseteq Ops /\ assumed' \subseteq evident'
    BY <1>2, <1>3, <1>5 DEF Performed
  <2>3. QED
    BY <1>1, <1>2, <1>3, <1>5, <2>1, <2>2, PageStepTyped
<1>6. QED
  BY <1>4, <1>5, ExecutedRow

\* A late execution finds its row in the journal.
LEMMA LandLateTyped ==
    ASSUME Typed, LandLate
    PROVE  Typed'
<1>1. PICK late \in flying :
          /\ IF late.replayed THEN Replayed(late.op) ELSE Performed(late.row, late.op)
          /\ flying' = flying \ {late}
          /\ UNCHANGED <<session, alive, attempts, run, todo, assumed, submits, spent>>
  BY DEF LandLate
<1>2. late.op \in Ops /\ late.row \in 1..Len(journal)
  BY DEF Typed, JournalTypeOK, Shapes, Execution
<1>3. /\ journal \in Seq(JournalRow) /\ evident \subseteq Ops /\ assumed \subseteq evident
      /\ attempts' \in [Whose -> AttemptRecord] /\ submits' \in [Ops -> Nat]
      /\ \A v \in Whose : AttemptShape(attempts'[v], Len(journal))
  BY <1>1 DEF Typed, JournalTypeOK, Shapes
<1>4. /\ journal' \in Seq(JournalRow) /\ Len(journal') = Len(journal)
      /\ page' = Append(page, late.op) /\ evident' \subseteq Ops /\ assumed' \subseteq evident'
  <2>1. CASE late.replayed
    BY <1>1, <1>3, <2>1 DEF Replayed
  <2>2. CASE ~late.replayed
    <3>1. Performed(late.row, late.op)
      BY <1>1, <2>2
    <3>2. journal' \in Seq(JournalRow) /\ Len(journal') = Len(journal)
      BY <1>2, <1>3, <3>1, RowPerformed
    <3>3. page' = Append(page, late.op) /\ evident' = evident \cup {late.op}
      BY <3>1 DEF Performed
    <3>4. assumed' = assumed
      BY <1>1
    <3>5. evident' \subseteq Ops /\ assumed' \subseteq evident'
      BY <1>2, <1>3, <3>3, <3>4
    <3>6. QED
      BY <3>2, <3>3, <3>5
  <2>3. QED
    BY <2>1, <2>2
<1>5. flying' \subseteq flying
  BY <1>1
<1>6. QED
  BY <1>1, <1>2, <1>3, <1>4, <1>5, PageStepTyped

\* Claiming a row for its replay keeps the types.
LEMMA ClaimTyped ==
    ASSUME Typed, NEW w \in Whose, Claim(w)
    PROVE  Typed'
<1>1. attempts[w].job = "replay" /\ attempts[w].pc = "claim"
  BY DEF Claim, At
<1>2. UNCHANGED <<session, run, todo, spent, world>> /\ spent' \in [Bounded -> Nat]
  BY DEF Claim, Typed, JournalTypeOK
<1>3. /\ attempts[w] \in AttemptRecord /\ attempts[w].row \in 1..Len(journal)
      /\ journal \in Seq(JournalRow) /\ Len(journal) \in Nat
  BY <1>1, RowInHand
<1>4. PICK pc \in {"execute", "report"}, errors \in {"none", "retry", "fatal"}, on \in Nat :
          Put(w, [attempts[w] EXCEPT !.pc = pc, !.outcome = attempts[w].outcome,
                                     !.errors = errors, !.on = on])
  <2>1. /\ attempts[w].outcome \in {"none", "done", "refused", "uncertain"}
        /\ attempts[w].errors \in {"none", "retry", "fatal"}
        /\ attempts[w].on \in Nat
        /\ session.id \in Nat
    BY <1>3 DEF AttemptRecord, Typed, JournalTypeOK, SessionRow
  <2>2. CASE Fail(w)
    <3>1. Put(w, [attempts[w] EXCEPT !.pc = "report", !.outcome = attempts[w].outcome,
                                     !.errors = "fatal", !.on = attempts[w].on])
      BY <1>3, <2>2 DEF Fail, AttemptRecord
    <3>2. QED
      BY <2>1, <3>1
  <2>3. CASE Goto(w, "report")
    <3>1. Put(w, [attempts[w] EXCEPT !.pc = "report", !.outcome = attempts[w].outcome,
                                     !.errors = attempts[w].errors, !.on = attempts[w].on])
      BY <1>3, <2>3 DEF Goto, AttemptRecord
    <3>2. QED
      BY <2>1, <3>1
  <2>4. CASE Put(w, [attempts[w] EXCEPT !.pc = "execute", !.on = session.id])
    <3>1. Put(w, [attempts[w] EXCEPT !.pc = "execute", !.outcome = attempts[w].outcome,
                                     !.errors = attempts[w].errors, !.on = session.id])
      BY <1>3, <2>4 DEF AttemptRecord
    <3>2. QED
      BY <2>1, <3>1
  <2>5. QED
    BY <2>2, <2>3, <2>4 DEF Claim
<1> DEFINE next == [attempts[w] EXCEPT !.pc = pc, !.outcome = attempts[w].outcome,
                                       !.errors = errors, !.on = on]
<1>5. /\ Put(w, next)
      /\ next = [attempts[w] EXCEPT !.pc = pc, !.outcome = attempts[w].outcome,
                                    !.errors = errors, !.on = on]
  BY <1>4
<1> HIDE DEF next
<1>6. next \in AttemptRecord /\ AttemptShape(next, Len(journal))
  <2>1. /\ attempts[w].outcome \in {"none", "done", "refused", "uncertain"}
        /\ pc \in {"execute", "settle", "report"} /\ attempts[w].job # "none"
    BY <1>1, <1>3 DEF AttemptRecord
  <2>2. /\ next \in AttemptRecord
        /\ next.job = attempts[w].job /\ next.pc = pc /\ next.row = attempts[w].row
        /\ next.call = attempts[w].call /\ next.kinds = attempts[w].kinds
        /\ next.field = attempts[w].field
    BY <1>3, <1>5, <2>1 DEF AttemptRecord
  <2>3. AttemptShape(attempts[w], Len(journal))
    BY <2>1, RowInHand
  <2>4. QED
    BY <1>3, <2>1, <2>2, <2>3, MovedShape
<1>7. /\ attempts' \in [Whose -> AttemptRecord]
      /\ \A v \in Whose : AttemptShape(attempts'[v], Len(journal))
  BY <1>3, <1>5, <1>6, PutShapes
<1>8. journal' = journal \/ SetStatus(attempts[w].row, "pending", session.id)
  BY DEF Claim
<1>9. journal' \in Seq(JournalRow) /\ Len(journal') = Len(journal)
  <2>1. session.id \in Nat
    BY DEF Typed, JournalTypeOK, SessionRow
  <2>2. QED
    BY <1>3, <1>8, <2>1, StatusSet DEF Statuses
<1>10. QED
  BY <1>2, <1>3, <1>7, <1>9, StoreStepTyped

\* Settling a replay keeps the types.
LEMMA SettleReplayTyped ==
    ASSUME Typed, NEW w \in Whose, NEW stored \in BOOLEAN, SettleReplay(w, stored)
    PROVE  Typed'
<1>1. attempts[w].job = "replay" /\ attempts[w].pc = "settle"
  BY DEF SettleReplay, At
<1>2. UNCHANGED <<session, run, todo, world>>
  BY DEF SettleReplay
<1>3. spent' \in [Bounded -> Nat]
  <2>1. CASE stored
    BY <2>1 DEF SettleReplay, Typed, JournalTypeOK
  <2>2. CASE ~stored
    BY <2>2, SpendTyped DEF SettleReplay, Typed, Bounded
  <2>3. QED
    BY <2>1, <2>2
<1>4. /\ attempts[w] \in AttemptRecord /\ attempts[w].row \in 1..Len(journal)
      /\ journal \in Seq(JournalRow) /\ Len(journal) \in Nat
  BY <1>1, RowInHand
<1>5. /\ attempts[w].outcome \in {"none", "done", "refused", "uncertain"}
      /\ attempts[w].errors \in {"none", "retry", "fatal"} /\ attempts[w].on \in Nat
  BY <1>4 DEF AttemptRecord
<1>6. PICK errors \in {"none", "retry", "fatal"} :
          Put(w, [attempts[w] EXCEPT !.pc = "report", !.outcome = attempts[w].outcome,
                                     !.errors = errors, !.on = attempts[w].on])
  <2>1. CASE Fail(w)
    <3>1. Put(w, [attempts[w] EXCEPT !.pc = "report", !.outcome = attempts[w].outcome,
                                     !.errors = "fatal", !.on = attempts[w].on])
      BY <1>4, <2>1 DEF Fail, AttemptRecord
    <3>2. QED
      BY <3>1
  <2>2. CASE Goto(w, "report")
    <3>1. Put(w, [attempts[w] EXCEPT !.pc = "report", !.outcome = attempts[w].outcome,
                                     !.errors = attempts[w].errors, !.on = attempts[w].on])
      BY <1>4, <2>2 DEF Goto, AttemptRecord
    <3>2. QED
      BY <1>5, <3>1
  <2>3. QED
    BY <2>1, <2>2 DEF SettleReplay
<1> DEFINE next == [attempts[w] EXCEPT !.pc = "report", !.outcome = attempts[w].outcome,
                                       !.errors = errors, !.on = attempts[w].on]
<1>7. /\ Put(w, next)
      /\ next = [attempts[w] EXCEPT !.pc = "report", !.outcome = attempts[w].outcome,
                                    !.errors = errors, !.on = attempts[w].on]
  BY <1>6
<1> HIDE DEF next
<1>8. next \in AttemptRecord /\ AttemptShape(next, Len(journal))
  <2>1. "report" \in {"execute", "settle", "report"} /\ attempts[w].job # "none"
    BY <1>1
  <2>2. /\ next \in AttemptRecord
        /\ next.job = attempts[w].job /\ next.pc = "report" /\ next.row = attempts[w].row
        /\ next.call = attempts[w].call /\ next.kinds = attempts[w].kinds
        /\ next.field = attempts[w].field
    BY <1>4, <1>5, <1>7, <2>1 DEF AttemptRecord
  <2>3. AttemptShape(attempts[w], Len(journal))
    BY <2>1, RowInHand
  <2>4. QED
    BY <1>4, <2>1, <2>2, <2>3, MovedShape
<1>9. /\ attempts' \in [Whose -> AttemptRecord]
      /\ \A v \in Whose : AttemptShape(attempts'[v], Len(journal))
  BY <1>4, <1>7, <1>8, PutShapes
<1>10. journal' = journal \/ \E status \in Statuses : SetStatus(attempts[w].row, status, attempts[w].on)
  BY DEF SettleReplay, Statuses
<1>11. journal' \in Seq(JournalRow) /\ Len(journal') = Len(journal)
  BY <1>4, <1>5, <1>10, StatusSet
<1>12. QED
  BY <1>2, <1>3, <1>4, <1>9, <1>11, StoreStepTyped

\* The end of an attempt, or its retry, keeps the types.
LEMMA ReportTyped ==
    ASSUME Typed, Report
    PROVE  Typed'
<1>1. attempts["own"] \in AttemptRecord /\ attempts["own"].pc = "report" /\ attempts["own"].job # "none"
  BY DEF Report, Typed, JournalTypeOK, Shapes, AttemptShape, Whose
<1>2. AttemptShape(attempts["own"], Len(journal)) /\ Len(journal) \in Nat /\ "own" \in Whose
  BY DEF Typed, JournalTypeOK, Shapes, Whose
<1>3. Put("own", NoAttempt) \/ Put("own", Retried(attempts["own"]))
  BY DEF Report, GiveUp
<1>4. /\ attempts' \in [Whose -> AttemptRecord]
      /\ \A v \in Whose : AttemptShape(attempts'[v], Len(journal))
  BY <1>1, <1>2, <1>3, NoAttemptShape, RetriedShape, PutShapes
<1>5. /\ run' \in RunRecord /\ run'.no = run.no
      /\ run'.phase = "ending" \/ run' = run
  <2>1. run' = run \/ run' = [run EXCEPT !.phase = "ending"]
    BY DEF Report, GiveUp
  <2>2. QED
    BY <2>1 DEF Typed, JournalTypeOK, RunRecord, Phases
<1>6. todo' \subseteq todo
  BY DEF Report, GiveUp
<1>7. UNCHANGED <<journal, session, spent, world>>
  BY DEF Report
<1>8. JournalTypeOK'
  BY <1>4, <1>5, <1>6, <1>7 DEF Typed, JournalTypeOK, world
<1>9. Shapes'
  BY <1>4, <1>5, <1>6, <1>7 DEF Typed, Shapes, world
<1>10. QED
  BY <1>8, <1>9 DEF Typed

\* An attempt that nobody waits for ends.
LEMMA ReportInVainTyped ==
    ASSUME Typed, ReportInVain
    PROVE  Typed'
<1>1. Len(journal) \in Nat /\ "left" \in Whose /\ journal \in Seq(JournalRow)
  BY DEF Typed, JournalTypeOK, Whose
<1>2. /\ attempts' \in [Whose -> AttemptRecord]
      /\ \A v \in Whose : AttemptShape(attempts'[v], Len(journal))
  BY <1>1, NoAttemptShape, PutShapes DEF ReportInVain
<1>3. UNCHANGED <<journal, session, run, todo, spent, world>> /\ spent' \in [Bounded -> Nat]
  BY DEF ReportInVain, Typed, JournalTypeOK
<1>4. QED
  BY <1>1, <1>2, <1>3, StoreStepTyped

\* The execution an attempt may leave in flight.
LEMMA InFlightTyped ==
    ASSUME Typed, NEW w \in Whose, attempts[w].pc = "execute", attempts[w].row # 0
    PROVE  /\ InFlight(w) \in Execution /\ InFlight(w).row = attempts[w].row
           /\ InFlight(w).row \in 1..Len(journal)
           /\ InFlight(w).replayed <=> attempts[w].job = "replay"
<1>1. attempts[w].job # "none"
  BY DEF Typed, Shapes, AttemptShape
<1>2. /\ attempts[w] \in AttemptRecord /\ Len(journal) \in Nat /\ journal \in Seq(JournalRow)
      /\ attempts[w].row \in 1..Len(journal) /\ attempts[w].row \in Nat
  <2>1. attempts[w].row \in 0..Len(journal) /\ Len(journal) \in Nat
    BY <1>1, RowInHand
  <2>2. attempts[w].row \in 1..Len(journal) /\ attempts[w].row \in Nat
    BY <2>1
  <2>3. QED
    BY <1>1, <2>1, <2>2, RowInHand
<1>3. (IF attempts[w].job = "replay" THEN journal[attempts[w].row].op ELSE Op(w)) \in Ops
  <2>1. CASE attempts[w].job = "replay"
    <3>1. journal[attempts[w].row] \in JournalRow
      BY <1>2, ElementOfSeq
    <3>2. QED
      BY <2>1, <3>1 DEF JournalRow
  <2>2. CASE attempts[w].job # "replay"
    <3>1. attempts[w].job = "mutate"
      BY <1>1, <1>2, <2>2 DEF AttemptRecord
    <3>2. QED
      BY <2>2, <3>1, OpTyped
  <2>3. QED
    BY <2>1, <2>2
<1>4. session.id \in Nat
  BY DEF Typed, JournalTypeOK, SessionRow
<1>5. (attempts[w].job = "replay") \in BOOLEAN
  OBVIOUS
<1>6. QED
  BY <1>2, <1>3, <1>4, <1>5 DEF InFlight, Execution

\* What a timeout leaves of the attempt and of what it had in flight.
LEMMA TimedOut ==
    ASSUME Typed, NEW w \in Whose, NEW inFlight \in BOOLEAN, Timeout(w, inFlight)
    PROVE  /\ attempts[w].job # "none"
           /\ Put(w, NoAttempt) \/ Put(w, Retried(attempts[w]))
           /\ run' = run \/ run' = [run EXCEPT !.phase = "ending"]
           /\ todo' = todo
           /\ \/ flying' = flying
              \/ /\ attempts[w].pc = "execute" /\ attempts[w].row # 0
                 /\ flying' = flying \cup {InFlight(w)}
<1>1. w = "left" \/ w = "own"
  BY DEF Whose
<1>2. QED
  BY <1>1 DEF Timeout, GiveUp

\* A timeout leaves at most an execution of a row of the journal in flight.
LEMMA TimeoutTyped ==
    ASSUME Typed, NEW w \in Whose, NEW inFlight \in BOOLEAN, Timeout(w, inFlight)
    PROVE  Typed'
<1>1. /\ attempts[w] \in AttemptRecord /\ AttemptShape(attempts[w], Len(journal))
      /\ Len(journal) \in Nat /\ attempts[w].job # "none"
  BY TimedOut, RowInHand
<1>2. /\ attempts' \in [Whose -> AttemptRecord]
      /\ \A v \in Whose : AttemptShape(attempts'[v], Len(journal))
  <2>1. CASE Put(w, NoAttempt)
    BY <1>1, <2>1, NoAttemptShape, PutShapes
  <2>2. CASE Put(w, Retried(attempts[w]))
    BY <1>1, <2>2, RetriedShape, PutShapes
  <2>3. QED
    BY <2>1, <2>2, TimedOut
<1>3. run' \in RunRecord /\ run'.no = run.no /\ (run'.phase = "ending" \/ run' = run)
  <2>1. run' = run \/ run' = [run EXCEPT !.phase = "ending"]
    BY TimedOut
  <2>2. QED
    BY <2>1 DEF Typed, JournalTypeOK, RunRecord, Phases
<1>4. flying' \subseteq Execution /\ \A late \in flying' : late.row \in 1..Len(journal)
  <2>1. flying \subseteq Execution /\ \A late \in flying : late.row \in 1..Len(journal)
    BY DEF Typed, JournalTypeOK, Shapes
  <2>2. QED
    BY <2>1, TimedOut, InFlightTyped
<1>5. UNCHANGED <<journal, session, page, alive, evident, assumed, submits>>
  BY DEF Timeout
<1>6. spent' \in [Bounded -> Nat]
  BY SpendTyped DEF Timeout, Typed, Bounded
<1>7. todo' = todo
  BY TimedOut
<1>8. JournalTypeOK'
  BY <1>2, <1>3, <1>4, <1>5, <1>6, <1>7 DEF Typed, JournalTypeOK
<1>9. Shapes'
  BY <1>2, <1>3, <1>4, <1>5, <1>7 DEF Typed, Shapes
<1>10. QED
  BY <1>8, <1>9 DEF Typed

\* The initial state is well typed.
LEMMA InitTyped ==
    ASSUME Init
    PROVE  Typed
<1>1. 0 \in 0..MaxRuns /\ 0 \in 0..MaxCalls
  BY BoundsAreNatural
<1>2. journal \in Seq(JournalRow) /\ Len(journal) = 0 /\ page \in Seq(Ops \cup {Start})
  BY EmptySeq, EmptyPage DEF Init
<1>3. NoAttempt \in AttemptRecord /\ AttemptShape(NoAttempt, 0)
  BY NoAttemptShape
<1>4. session \in SessionRow /\ run \in RunRecord
  BY <1>1 DEF Init, SessionRow, RunRecord, Phases
<1>5. JournalTypeOK
  BY <1>2, <1>3, <1>4 DEF Init, JournalTypeOK
<1>6. Shapes
  BY <1>2, <1>3 DEF Init, Shapes
<1>7. QED
  BY <1>5, <1>6 DEF Typed

\* Every step keeps the types and the shapes.
LEMMA StepTyped ==
    ASSUME Typed, [Next]_vars
    PROVE  Typed'
<1>1. CASE Workflow
  BY <1>1, BeginRunTyped, OpenWebpageTyped, ListTyped, ReplayNextTyped, CompleteTyped,
     StartCallTyped, LeaveTyped, CancelRunTyped, CloseBrowserTyped, ReportTyped DEF Workflow
<1>2. ASSUME NEW w \in Whose, Attempt(w)
      PROVE  Typed'
  BY <1>2, RecordTyped, ReconcileTyped, ExecuteTyped, SettleTyped, ClaimTyped,
     SettleReplayTyped, TimeoutTyped DEF Attempt
<1>3. CASE ReportInVain
  BY <1>3, ReportInVainTyped
<1>4. CASE LandLate
  BY <1>4, LandLateTyped
<1>5. CASE Expire
  BY <1>5, ExpireTyped
<1>6. CASE UNCHANGED vars
  BY <1>6 DEF vars, Typed, JournalTypeOK, Shapes
<1>7. QED
  BY <1>1, <1>2, <1>3, <1>4, <1>5, <1>6 DEF Next

\* The journal, the attempts and what flies are well typed, and rows in hand exist.
THEOREM TypingInvariant == Spec => []Typed
<1>1. Init => Typed
  BY InitTyped
<1>2. Typed /\ [Next]_vars => Typed'
  BY StepTyped
<1>3. QED
  BY <1>1, <1>2, PTL DEF Spec

\* The state is always of its type (the structures of sqldb, browser and
\* workflow/jobapplication).
THEOREM TypeCorrect == Spec => []JournalTypeOK
<1>1. Typed => JournalTypeOK
  BY DEF Typed
<1>2. QED
  BY <1>1, TypingInvariant, PTL

-----------------------------------------------------------------------------
(* No row is performed twice by the calls that share it.                   *)

\* An attempt that holds no row.
Free(attempt) == ~(attempt.job = "mutate" /\ attempt.pc \in {"execute", "settle"})

\* Steps that perform nothing, fail nothing and take no row in hand.
LEMMA QuietStep ==
    ASSUME Guarded, Len(journal') = Len(journal), flying' \subseteq flying,
           \A v \in Whose : attempts'[v] = attempts[v] \/ Free(attempts'[v]),
           \A r \in 1..Len(journal) :
               /\ journal'[r].done = journal[r].done
               /\ journal'[r].status = "failed" => journal[r].status = "failed"
    PROVE  Guarded'
<1>1. SUFFICES ASSUME NEW r \in 1..Len(journal)
               PROVE  RowGuarded(r)'
  BY DEF Guarded
<1>2. RowGuarded(r)
  BY DEF Guarded
<1>3. \A v \in Whose : Holds(attempts'[v], r) => attempts'[v] = attempts[v] /\ Holds(attempts[v], r)
  BY DEF Holds, Free
<1>4. QED
  BY <1>2, <1>3 DEF RowGuarded, Whose

\* ... among them the steps that only move one attempt on.
LEMMA QuietAttempt ==
    ASSUME Typed, Guarded, NEW w \in Whose, Free(attempts'[w]),
           \A v \in Whose \ {w} : attempts'[v] = attempts[v],
           UNCHANGED flying,
           \/ UNCHANGED journal
           \/ \E row \in 1..Len(journal), status \in Statuses \ {"failed"}, on \in Nat :
                  SetStatus(row, status, on)
    PROVE  Guarded'
<1>1. journal \in Seq(JournalRow)
  BY DEF Typed, JournalTypeOK
<1>2. CASE UNCHANGED journal
  BY <1>2, QuietStep
<1>3. ASSUME NEW row \in 1..Len(journal), NEW status \in Statuses \ {"failed"}, NEW on \in Nat,
             SetStatus(row, status, on)
      PROVE  Guarded'
  <2>1. /\ Len(journal') = Len(journal)
        /\ \A r \in 1..Len(journal) :
               /\ journal'[r].done = journal[r].done
               /\ journal'[r].status = IF r = row THEN status ELSE journal[r].status
    BY <1>1, <1>3, StatusSet
  <2>2. QED
    BY <2>1, QuietStep
<1>4. QED
  BY <1>2, <1>3

\* Replacing one attempt by another leaves the other one alone.
LEMMA PutOne ==
    ASSUME Typed, NEW w \in Whose, NEW attempt, Put(w, attempt)
    PROVE  /\ attempts'[w] = attempt
           /\ \A v \in Whose \ {w} : attempts'[v] = attempts[v]
BY DEF Typed, JournalTypeOK, Put

\* No attempt holds nothing.
LEMMA NoAttemptFree == Free(NoAttempt)
BY DEF Free, NoAttempt

\* The workflow itself never takes a row in hand nor performs or fails one.
LEMMA WorkflowGuarded ==
    ASSUME Typed, Guarded, Workflow
    PROVE  Guarded'
<1> USE DEF Workflow
<1>1. ASSUME NEW newGeneration \in BOOLEAN, BeginRun(newGeneration)
      PROVE  Guarded'
  BY <1>1, QuietStep DEF BeginRun, world
<1>2. ASSUME NEW answered \in BOOLEAN, OpenWebpage(answered)
      PROVE  Guarded'
  BY <1>2, QuietStep DEF OpenWebpage, Reconnect, Create
<1>3. CASE ListBrowserMutationsForReplay
  <2>1. /\ Len(journal') = Len(journal)
        /\ \A r \in 1..Len(journal) :
               /\ journal'[r].done = journal[r].done
               /\ journal'[r].status \in {journal[r].status, "applied"}
    BY <1>3, RowsListed DEF Typed
  <2>2. UNCHANGED <<attempts, flying>>
    BY <1>3 DEF ListBrowserMutationsForReplay, world
  <2>3. QED
    BY <2>1, <2>2, QuietStep
<1>4. CASE ReplayNext
  <2>1. UNCHANGED <<journal, flying>> /\ "own" \in Whose
    BY <1>4 DEF ReplayNext, world, Whose
  <2>2. CASE UNCHANGED attempts
    BY <2>1, <2>2, QuietStep
  <2>3. CASE Put("own", [NoAttempt EXCEPT !.job = "replay", !.pc = "claim",
                                          !.row = Earliest.row, !.try = 1])
    <3>1. Free(attempts'["own"])
      <4>1. attempts'["own"] = [NoAttempt EXCEPT !.job = "replay", !.pc = "claim",
                                                 !.row = Earliest.row, !.try = 1]
        BY <2>1, <2>3, PutOne
      <4>2. attempts'["own"].pc = "claim"
        BY <4>1 DEF NoAttempt
      <4>3. QED
        BY <4>2 DEF Free
    <3>2. QED
      BY <2>1, <2>3, <3>1, PutOne, QuietAttempt
  <2>4. QED
    BY <1>4, <2>2, <2>3 DEF ReplayNext
<1>5. CASE CompleteBrowserReplay \/ Leave
  BY <1>5, QuietStep DEF CompleteBrowserReplay, Leave, world
<1>6. ASSUME NEW kinds \in Calls, StartCall(kinds)
      PROVE  Guarded'
  <2>1. UNCHANGED <<journal, flying>> /\ "own" \in Whose
    BY <1>6 DEF StartCall, world, Whose
  <2>2. PICK id \in RunIds[run.no] :
            Put("own", [NoAttempt EXCEPT !.job = "mutate", !.pc = "record", !.call = run.calls + 1,
                                         !.id = id, !.kinds = kinds, !.field = 1, !.try = 1])
    BY <1>6 DEF StartCall
  <2>3. Free(attempts'["own"])
    <3>1. attempts'["own"] = [NoAttempt EXCEPT !.job = "mutate", !.pc = "record",
              !.call = run.calls + 1, !.id = id, !.kinds = kinds, !.field = 1, !.try = 1]
      BY <2>1, <2>2, PutOne
    <3>2. attempts'["own"].pc = "record"
      BY <3>1 DEF NoAttempt
    <3>3. QED
      BY <3>2 DEF Free
  <2>4. QED
    BY <2>1, <2>2, <2>3, PutOne, QuietAttempt
<1>7. CASE CancelRun
  <2>1. UNCHANGED <<journal, flying>>
    BY <1>7 DEF CancelRun, world
  <2>2. attempts \in [Whose -> AttemptRecord]
    BY DEF Typed, JournalTypeOK
  <2>3. CASE UNCHANGED attempts
    BY <2>1, <2>3, QuietStep
  <2>4. CASE /\ attempts["left"].job = "none"
             /\ attempts' = [attempts EXCEPT !["left"] = attempts["own"], !["own"] = NoAttempt]
    <3>1. attempts'["left"] = attempts["own"] /\ attempts'["own"] = NoAttempt
      BY <2>2, <2>4 DEF Whose
    <3>2. ASSUME NEW r \in 1..Len(journal)
          PROVE  RowGuarded(r)'
      <4>1. RowGuarded(r)
        BY DEF Guarded
      <4>2. ~Holds(attempts'["own"], r)
        BY <3>1 DEF Holds, NoAttempt
      <4>3. QED
        BY <2>1, <3>1, <4>1, <4>2 DEF RowGuarded, Whose
    <3>3. QED
      BY <2>1, <3>2 DEF Guarded
  <2>5. QED
    BY <1>7, <2>3, <2>4 DEF CancelRun
<1>8. ASSUME NEW deleted \in BOOLEAN, NEW cleared \in BOOLEAN, CloseBrowser(deleted, cleared)
      PROVE  Guarded'
  BY <1>8, QuietStep DEF CloseBrowser
<1>9. CASE Report
  <2>1. UNCHANGED <<journal, flying>> /\ "own" \in Whose
    BY <1>9 DEF Report, world, Whose
  <2>2. attempts["own"].pc = "report" /\ attempts["own"].job # "none"
    BY <1>9, <2>1 DEF Report, Typed, Shapes, AttemptShape
  <2>3. Put("own", NoAttempt) \/ Put("own", Retried(attempts["own"]))
    BY <1>9 DEF Report, GiveUp
  <2>4. Free(Retried(attempts["own"]))
    BY <2>1, <2>2, RowInHand, RetriedShape DEF Free
  <2>5. QED
    BY <2>1, <2>3, <2>4, NoAttemptFree, PutOne, QuietAttempt
<1>10. QED
  BY <1>1, <1>2, <1>3, <1>4, <1>5, <1>6, <1>7, <1>8, <1>9

\* The end of a field holds no row.
LEMMA FieldOverFree ==
    ASSUME Typed, NEW w \in Whose, attempts[w].job = "mutate",
           NEW error \in {"none", "retry", "fatal"}, FieldOver(w, error)
    PROVE  /\ Free(attempts'[w])
           /\ \A v \in Whose \ {w} : attempts'[v] = attempts[v]
<1>1. 0 \in Nat
  OBVIOUS
<1>2. attempts'[w].pc \in {"record", "report"}
  BY <1>1, FieldOverMoves
<1>3. \A v \in Whose \ {w} : attempts'[v] = attempts[v]
  BY <1>1, FieldOverMoves
<1>4. QED
  BY <1>2, <1>3 DEF Free

\* Taking a row in hand that nobody holds, nobody performed and nothing is in
\* flight for.
LEMMA TakeRow ==
    ASSUME Guarded, NEW w \in Whose, NEW row \in 1..Len(journal'),
           \A r \in 1..Len(journal') : r # row =>
               /\ r \in 1..Len(journal)
               /\ journal'[r].done = journal[r].done /\ journal'[r].status = journal[r].status,
           journal'[row].done = 0, journal'[row].status # "failed",
           \A v \in Whose : ~Holds(attempts[v], row),
           \A late \in flying : ~Late(late, row),
           UNCHANGED flying,
           \A v \in Whose \ {w} : attempts'[v] = attempts[v],
           attempts'[w].row = row
    PROVE  Guarded'
<1>1. SUFFICES ASSUME NEW r \in 1..Len(journal')
               PROVE  RowGuarded(r)'
  BY DEF Guarded
<1>2. CASE r = row
  <2>1. \A v \in Whose \ {w} : ~Holds(attempts'[v], row)
    OBVIOUS
  <2>2. ~(Holds(attempts'["own"], row) /\ Holds(attempts'["left"], row))
    BY <2>1 DEF Whose
  <2>3. QED
    BY <1>2, <2>1, <2>2 DEF RowGuarded
<1>3. CASE r # row
  <2>1. r \in 1..Len(journal) /\ journal'[r].done = journal[r].done /\ journal'[r].status = journal[r].status
    BY <1>3
  <2>2. RowGuarded(r)
    BY <2>1 DEF Guarded
  <2>3. ~Holds(attempts'[w], r)
    BY <1>3 DEF Holds
  <2>4. QED
    BY <2>1, <2>2, <2>3 DEF RowGuarded, Whose
<1>4. QED
  BY <1>2, <1>3

\* Record takes a row in hand only if it is new or failed, so that nobody else
\* may perform it.
LEMMA RecordGuarded ==
    ASSUME Typed, Guarded, NEW w \in Whose, Record(w)
    PROVE  Guarded'
<1> DEFINE key == <<attempts[w].id, attempts[w].field>>
           Executing(row) == [attempts[w] EXCEPT !.pc = "execute", !.row = row]
<1>1. /\ attempts[w].job = "mutate" /\ attempts[w].pc = "record" /\ attempts[w] \in AttemptRecord
      /\ journal \in Seq(JournalRow) /\ Len(journal) \in Nat
  BY RowInHand DEF Record, At
<1>2. UNCHANGED flying /\ \A r \in RowsOf(key) : r \in 1..Len(journal)
  <2>1. UNCHANGED flying
    BY DEF Record, world
  <2>2. DOMAIN journal = 1..Len(journal)
    BY <1>1, LenProperties
  <2>3. QED
    BY <2>1, <2>2 DEF RowsOf
<1>3. CASE Put(w, Executing(0)) /\ UNCHANGED journal
  <2>1. attempts'[w] = Executing(0) /\ \A v \in Whose \ {w} : attempts'[v] = attempts[v]
    BY <1>3, PutOne
  <2>2. Executing(0).row = 0
    BY <1>1 DEF AttemptRecord
  <2>3. ASSUME NEW r \in 1..Len(journal)
        PROVE  RowGuarded(r)'
    <3>1. ~Holds(attempts'[w], r)
      BY <2>1, <2>2, <2>3 DEF Holds
    <3>2. RowGuarded(r)
      BY DEF Guarded
    <3>3. QED
      BY <1>2, <1>3, <2>1, <3>1, <3>2 DEF RowGuarded, Whose
  <2>4. QED
    BY <1>3, <2>3 DEF Guarded
<1>4. ASSUME NEW error \in {"none", "retry"}, FieldOver(w, error), UNCHANGED journal
      PROVE  Guarded'
  BY <1>1, <1>2, <1>4, FieldOverFree, QuietAttempt
<1>5. CASE \E added :
              /\ added.status = "pending" /\ added.done = 0
              /\ added \in JournalRow
              /\ journal' = Append(journal, added)
              /\ Put(w, Executing(Len(journal) + 1))
  <2>1. PICK added \in JournalRow :
            /\ added.status = "pending" /\ added.done = 0
            /\ journal' = Append(journal, added)
            /\ Put(w, Executing(Len(journal) + 1))
    BY <1>5
  <2> DEFINE row == Len(journal) + 1
  <2>2. /\ row \in 1..Len(journal') /\ journal'[row] = added
        /\ \A r \in 1..Len(journal') : r # row => r \in 1..Len(journal) /\ journal'[r] = journal[r]
    BY <1>1, <2>1, AppendProperties
  <2>3. attempts'[w].row = row /\ \A v \in Whose \ {w} : attempts'[v] = attempts[v]
    <3>1. attempts'[w] = Executing(row) /\ \A v \in Whose \ {w} : attempts'[v] = attempts[v]
      BY <2>1, PutOne
    <3>2. Executing(row).row = row
      BY <1>1 DEF AttemptRecord
    <3>3. QED
      BY <3>1, <3>2
  <2>4. \A v \in Whose : ~Holds(attempts[v], row)
    <3>1. ASSUME NEW v \in Whose, Holds(attempts[v], row)
          PROVE  FALSE
      <4>1. attempts[v].row \in 0..Len(journal) \/ attempts[v].row \in 1..Len(journal)
        BY <3>1, RowInHand DEF Holds
      <4>2. attempts[v].row = row
        BY <3>1 DEF Holds
      <4>3. QED
        BY <1>1, <4>1, <4>2
    <3>2. QED
      BY <3>1
  <2>5. \A late \in flying : ~Late(late, row)
    BY <1>1 DEF Late, Typed, Shapes
  <2> HIDE DEF row
  <2>6. QED
    BY <1>2, <2>1, <2>2, <2>3, <2>4, <2>5, TakeRow
<1>6. CASE \E row \in RowsOf(key) :
              /\ Retriable(row)
              /\ SetStatus(row, "pending", 0)
              /\ Put(w, Executing(row))
  <2>1. PICK row \in 1..Len(journal) :
            Retriable(row) /\ SetStatus(row, "pending", 0) /\ Put(w, Executing(row))
    BY <1>2, <1>6
  <2>2. /\ Len(journal') = Len(journal)
        /\ \A r \in 1..Len(journal) :
               /\ journal'[r].done = journal[r].done
               /\ journal'[r].status = IF r = row THEN "pending" ELSE journal[r].status
    BY <1>1, <2>1, StatusSet DEF Statuses
  <2>3. attempts'[w].row = row /\ \A v \in Whose \ {w} : attempts'[v] = attempts[v]
    <3>1. attempts'[w] = Executing(row) /\ \A v \in Whose \ {w} : attempts'[v] = attempts[v]
      BY <2>1, PutOne
    <3>2. Executing(row).row = row
      BY <1>1 DEF AttemptRecord
    <3>3. QED
      BY <3>1, <3>2
  <2>4. /\ journal[row].done = 0 /\ \A v \in Whose : ~Holds(attempts[v], row)
        /\ \A late \in flying : ~Late(late, row)
    BY <2>1 DEF Retriable, Guarded, RowGuarded
  <2>5. QED
    BY <1>2, <2>1, <2>2, <2>3, <2>4, TakeRow
<1>7. CASE \E row \in RowsOf(key) :
              /\ Settleable(row)
              /\ Put(w, [attempts[w] EXCEPT !.pc = "reconcile", !.row = row])
              /\ UNCHANGED journal
  <2>1. PICK row \in RowsOf(key) :
            Put(w, [attempts[w] EXCEPT !.pc = "reconcile", !.row = row]) /\ UNCHANGED journal
    BY <1>7
  <2>2. /\ attempts'[w] = [attempts[w] EXCEPT !.pc = "reconcile", !.row = row]
        /\ \A v \in Whose \ {w} : attempts'[v] = attempts[v]
    BY <2>1, PutOne
  <2>3. attempts'[w].pc = "reconcile"
    BY <1>1, <2>2 DEF AttemptRecord
  <2>4. Free(attempts'[w])
    BY <2>3 DEF Free
  <2>5. QED
    BY <1>2, <2>1, <2>2, <2>4, QuietAttempt
<1>8. QED
  <2>1. ASSUME journal' = Append(journal, [key |-> key, gen |-> session.gen, op |-> Op(w),
                              kind |-> Kind(w), status |-> "pending", on |-> 0, done |-> 0]),
               Put(w, Executing(Len(journal) + 1))
        PROVE  Guarded'
    <3>1. session.gen \in Nat /\ "pending" \in Statuses
      BY DEF Typed, JournalTypeOK, SessionRow, Statuses
    <3>2. key \in Nat \X Nat /\ Op(w) \in Ops /\ Kind(w) \in Kinds
      BY <1>1, OpTyped
    <3>3. [key |-> key, gen |-> session.gen, op |-> Op(w), kind |-> Kind(w), status |-> "pending",
           on |-> 0, done |-> 0] \in JournalRow
      BY <3>1, <3>2 DEF JournalRow
    <3>4. QED
      BY <1>5, <2>1, <3>3
  <2>2. QED
    BY <1>3, <1>4, <1>6, <1>7, <2>1 DEF Record

\* Reconciling never performs and never fails a row.
LEMMA ReconcileGuarded ==
    ASSUME Typed, Guarded, NEW w \in Whose, Reconcile(w)
    PROVE  Guarded'
<1>1. attempts[w].job = "mutate" /\ attempts[w].pc = "reconcile" /\ UNCHANGED flying
  BY DEF Reconcile, At, world
<1>2. attempts[w].row \in 1..Len(journal)
  BY <1>1, RowInHand
<1>3. PICK error \in {"none", "retry", "fatal"} : FieldOver(w, error)
  BY DEF Reconcile
<1>4. journal' = journal \/ SetStatus(attempts[w].row, "applied", 0)
  BY DEF Reconcile
<1>5. "applied" \in Statuses \ {"failed"} /\ 0 \in Nat
  BY DEF Statuses
<1>6. QED
  BY <1>1, <1>2, <1>3, <1>4, <1>5, FieldOverFree, QuietAttempt

\* Claiming a row for a replay does not hold it for a call.
LEMMA ClaimGuarded ==
    ASSUME Typed, Guarded, NEW w \in Whose, Claim(w)
    PROVE  Guarded'
<1>1. attempts[w].job = "replay" /\ UNCHANGED flying
  BY DEF Claim, At, world
<1>2. attempts[w].row \in 1..Len(journal) /\ attempts[w] \in AttemptRecord
  BY <1>1, RowInHand
<1>3. /\ attempts'[w].job = "replay"
      /\ \A v \in Whose \ {w} : attempts'[v] = attempts[v]
  <2>1. attempts \in [Whose -> AttemptRecord]
    BY DEF Typed, JournalTypeOK
  <2>2. CASE Fail(w)
    BY <1>1, <1>2, <2>1, <2>2 DEF Fail, Put, AttemptRecord
  <2>3. CASE Goto(w, "report")
    BY <1>1, <1>2, <2>1, <2>3 DEF Goto, Put, AttemptRecord
  <2>4. CASE Put(w, [attempts[w] EXCEPT !.pc = "execute", !.on = session.id])
    BY <1>1, <1>2, <2>1, <2>4 DEF Put, AttemptRecord
  <2>5. QED
    BY <2>2, <2>3, <2>4 DEF Claim
<1>4. journal' = journal \/ SetStatus(attempts[w].row, "pending", session.id)
  BY DEF Claim
<1>5. "pending" \in Statuses \ {"failed"} /\ session.id \in Nat
  BY DEF Statuses, Typed, JournalTypeOK, SessionRow
<1>6. Free(attempts'[w])
  BY <1>3 DEF Free
<1>7. QED
  BY <1>1, <1>2, <1>3, <1>4, <1>5, <1>6, QuietAttempt

\* Settling a replay never fails a row.
LEMMA SettleReplayGuarded ==
    ASSUME Typed, Guarded, NEW w \in Whose, NEW stored \in BOOLEAN, SettleReplay(w, stored)
    PROVE  Guarded'
<1>1. attempts[w].job = "replay" /\ UNCHANGED flying
  BY DEF SettleReplay, At, world
<1>2. /\ attempts[w].row \in 1..Len(journal) /\ attempts[w] \in AttemptRecord
      /\ attempts[w].on \in Nat
  BY <1>1, RowInHand DEF AttemptRecord
<1>3. /\ attempts'[w].job = "replay"
      /\ \A v \in Whose \ {w} : attempts'[v] = attempts[v]
  <2>1. attempts \in [Whose -> AttemptRecord]
    BY DEF Typed, JournalTypeOK
  <2>2. CASE Fail(w)
    BY <1>1, <1>2, <2>1, <2>2 DEF Fail, Put, AttemptRecord
  <2>3. CASE Goto(w, "report")
    BY <1>1, <1>2, <2>1, <2>3 DEF Goto, Put, AttemptRecord
  <2>4. QED
    BY <2>2, <2>3 DEF SettleReplay
<1>4. \/ journal' = journal
      \/ SetStatus(attempts[w].row, "applied", attempts[w].on)
      \/ SetStatus(attempts[w].row, "reconcile_required", attempts[w].on)
  BY DEF SettleReplay
<1>5. {"applied", "reconcile_required"} \subseteq Statuses \ {"failed"}
  BY DEF Statuses
<1>6. Free(attempts'[w])
  BY <1>3 DEF Free
<1>7. QED
  BY <1>1, <1>2, <1>3, <1>4, <1>5, <1>6, QuietAttempt

\* A row fails only when the attempt that held it alone was refused.
LEMMA SettleGuarded ==
    ASSUME Typed, Guarded, NEW w \in Whose, NEW stored \in BOOLEAN, Settle(w, stored)
    PROVE  Guarded'
<1>1. attempts[w].job = "mutate" /\ attempts[w].pc = "settle" /\ UNCHANGED flying
  BY DEF Settle, At, world
<1>2. /\ attempts[w].row \in 1..Len(journal) /\ attempts[w] \in AttemptRecord
      /\ journal \in Seq(JournalRow)
  BY <1>1, RowInHand
<1>3. PICK error \in {"none", "retry", "fatal"} : FieldOver(w, error)
  BY ErrorsTyped DEF Settle
<1>4. Free(attempts'[w]) /\ \A v \in Whose \ {w} : attempts'[v] = attempts[v]
  BY <1>1, <1>3, FieldOverFree
<1>5. journal' = journal \/ SetStatus(attempts[w].row, Settlement(attempts[w].outcome), 0)
  BY DEF Settle
<1>6. CASE journal' = journal \/ attempts[w].outcome # "refused"
  <2>1. Settlement(attempts[w].outcome) \in Statuses
    BY DEF Settlement, Statuses
  <2>2. CASE journal' = journal
    BY <1>1, <1>4, <2>2, QuietAttempt
  <2>3. CASE attempts[w].outcome # "refused"
    <3>1. Settlement(attempts[w].outcome) \in Statuses \ {"failed"} /\ 0 \in Nat
      BY <2>1, <2>3 DEF Settlement
    <3>2. QED
      BY <1>1, <1>2, <1>4, <1>5, <3>1, QuietAttempt
  <2>4. QED
    BY <1>6, <2>2, <2>3
\* The row fails: its attempt did not perform it, and nothing else holds it.
<1>7. CASE attempts[w].outcome = "refused" /\ SetStatus(attempts[w].row, "failed", 0)
  <2> DEFINE row == attempts[w].row
  <2>1. /\ Len(journal') = Len(journal)
        /\ \A r \in 1..Len(journal) :
               /\ journal'[r].done = journal[r].done
               /\ journal'[r].status = IF r = row THEN "failed" ELSE journal[r].status
    BY <1>2, <1>7, StatusSet DEF Statuses
  <2>2. Holds(attempts[w], row) /\ Unperformed(attempts[w])
    BY <1>1, <1>7 DEF Holds, Unperformed
  <2>3. RowGuarded(row)
    BY <1>2 DEF Guarded
  <2>4. /\ journal[row].done = 0 /\ \A late \in flying : ~Late(late, row)
        /\ \A v \in Whose \ {w} : ~Holds(attempts[v], row)
    BY <2>2, <2>3 DEF RowGuarded, Whose
  <2>5. ASSUME NEW r \in 1..Len(journal)
        PROVE  RowGuarded(r)'
    <3>1. ~Holds(attempts'[w], r)
      BY <1>4 DEF Holds, Free
    <3>2. CASE r = row
      <4>1. \A v \in Whose : ~Holds(attempts'[v], row)
        BY <1>4, <2>4, <3>1, <3>2
      <4>2. journal'[row].done = 0
        BY <1>2, <2>1, <2>4
      <4>3. QED
        BY <1>1, <2>4, <3>2, <4>1, <4>2 DEF RowGuarded, Whose
    <3>3. CASE r # row
      <4>1. RowGuarded(r) /\ journal'[r].done = journal[r].done /\ journal'[r].status = journal[r].status
        BY <2>1, <3>3 DEF Guarded
      <4>2. QED
        BY <1>1, <1>4, <3>1, <4>1 DEF RowGuarded, Whose
    <3>4. QED
      BY <3>2, <3>3
  <2>6. QED
    BY <2>1, <2>5 DEF Guarded
<1>8. QED
  BY <1>5, <1>6, <1>7 DEF Settlement

\* A row is performed by the attempt that holds it alone, for the first time.
LEMMA ExecuteGuarded ==
    ASSUME Typed, Guarded, NEW w \in Whose, NEW outcome \in {"done", "refused", "uncertain"},
           NEW lands \in BOOLEAN, Execute(w, outcome, lands)
    PROVE  Guarded'
<1>1. UNCHANGED flying
  BY DEF Execute
<1>2. /\ attempts[w].job # "none" /\ attempts[w].pc = "execute"
      /\ \A v \in Whose \ {w} : attempts'[v] = attempts[v]
  BY ExecutedAttempt
<1>3. ASSUME NEW r \in 1..Len(journal), Holds(attempts'[w], r)
      PROVE  Holds(attempts[w], r) /\ attempts'[w].outcome = outcome /\ attempts'[w].pc = "settle"
  <2>1. attempts[w].row # 0
    BY <1>3, ExecutedAttempt DEF Holds
  <2>2. QED
    BY <1>2, <1>3, <2>1, ExecutedAttempt DEF Holds
<1>4. journal \in Seq(JournalRow)
  BY DEF Typed, JournalTypeOK
<1>5. CASE UNCHANGED journal
  <2>1. ASSUME NEW r \in 1..Len(journal)
        PROVE  RowGuarded(r)'
    <3>1. RowGuarded(r)
      BY DEF Guarded
    <3>2. CASE Holds(attempts'[w], r)
      <4>1. journal[r].done = 0 /\ Holds(attempts[w], r)
        BY <1>2, <1>3, <3>1, <3>2 DEF RowGuarded, Unperformed
      <4>2. QED
        BY <1>1, <1>2, <1>5, <3>1, <4>1 DEF RowGuarded, Whose
    <3>3. CASE ~Holds(attempts'[w], r)
      BY <1>1, <1>2, <1>5, <3>1, <3>3 DEF RowGuarded, Whose
    <3>4. QED
      BY <3>2, <3>3
  <2>2. QED
    BY <1>5, <2>1 DEF Guarded
\* The row is performed: for the first time, and by who alone holds it.
<1>6. CASE /\ attempts[w].job = "mutate" /\ attempts[w].row \in 1..Len(journal)
           /\ outcome # "refused" /\ Performed(attempts[w].row, Op(w))
  <2> DEFINE row == attempts[w].row
  <2>1. /\ Len(journal') = Len(journal)
        /\ \A r \in 1..Len(journal) :
               /\ journal'[r].status = journal[r].status
               /\ journal'[r].done = IF r = row THEN journal[r].done + 1 ELSE journal[r].done
    BY <1>4, <1>6, RowPerformed
  <2>2. Holds(attempts[w], row) /\ Unperformed(attempts[w])
    BY <1>2, <1>6 DEF Holds, Unperformed
  <2>3. RowGuarded(row)
    BY <1>6 DEF Guarded
  <2>4. /\ journal[row].done = 0 /\ journal[row].status # "failed"
        /\ \A late \in flying : ~Late(late, row)
        /\ \A v \in Whose \ {w} : ~Holds(attempts[v], row)
    BY <2>2, <2>3 DEF RowGuarded, Whose
  <2>5. ASSUME NEW r \in 1..Len(journal)
        PROVE  RowGuarded(r)'
    <3>1. CASE r = row
      <4>1. journal'[row].done = 1 /\ journal'[row].status # "failed"
        BY <1>6, <2>1, <2>4
      <4>2. \A v \in Whose \ {w} : ~Holds(attempts'[v], row)
        BY <1>2, <2>4
      <4>3. ~Unperformed(attempts'[w]) \/ ~Holds(attempts'[w], row)
        BY <1>3, <1>6 DEF Unperformed
      <4>4. QED
        BY <1>1, <2>4, <3>1, <4>1, <4>2, <4>3 DEF RowGuarded, Whose
    <3>2. CASE r # row
      <4>1. RowGuarded(r) /\ journal'[r].done = journal[r].done /\ journal'[r].status = journal[r].status
        BY <2>1, <3>2 DEF Guarded
      <4>2. ~Holds(attempts'[w], r)
        BY <1>3, <3>2 DEF Holds
      <4>3. QED
        BY <1>1, <1>2, <4>1, <4>2 DEF RowGuarded, Whose
    <3>3. QED
      BY <3>1, <3>2
  <2>6. QED
    BY <2>1, <2>5 DEF Guarded
<1>7. QED
  BY <1>5, <1>6, ExecutedRow

\* What a timeout leaves in flight takes the place of the attempt that held
\* the row.
LEMMA TimeoutGuarded ==
    ASSUME Typed, Guarded, NEW w \in Whose, NEW inFlight \in BOOLEAN, Timeout(w, inFlight)
    PROVE  Guarded'
<1>1. UNCHANGED journal /\ attempts[w].job # "none"
  BY TimedOut DEF Timeout
<1>2. /\ attempts[w] \in AttemptRecord /\ AttemptShape(attempts[w], Len(journal))
      /\ Len(journal) \in Nat
  BY <1>1, RowInHand
<1>3. Free(attempts'[w]) /\ \A v \in Whose \ {w} : attempts'[v] = attempts[v]
  <2>1. Free(Retried(attempts[w]))
    BY <1>1, <1>2, RetriedShape DEF Free
  <2>2. QED
    BY <2>1, TimedOut, NoAttemptFree, PutOne
<1>4. CASE UNCHANGED flying
  BY <1>1, <1>3, <1>4, QuietAttempt
<1>5. CASE /\ attempts[w].pc = "execute" /\ attempts[w].row # 0
           /\ flying' = flying \cup {InFlight(w)}
  <2>1. /\ InFlight(w).row = attempts[w].row
        /\ InFlight(w).replayed <=> attempts[w].job = "replay"
    BY <1>5, InFlightTyped
  <2>2. ASSUME NEW r \in 1..Len(journal)
        PROVE  RowGuarded(r)'
    <3>1. RowGuarded(r) /\ ~Holds(attempts'[w], r)
      BY <1>3 DEF Guarded, Holds, Free
    <3>2. CASE Late(InFlight(w), r)
      <4>1. attempts[w].job = "mutate"
        BY <1>1, <1>2, <2>1, <3>2 DEF Late, AttemptRecord
      <4>2. Holds(attempts[w], r) /\ Unperformed(attempts[w])
        BY <1>5, <2>1, <3>2, <4>1 DEF Late, Holds, Unperformed
      <4>3. /\ journal[r].done = 0 /\ journal[r].status # "failed"
            /\ \A late \in flying : ~Late(late, r)
            /\ \A v \in Whose \ {w} : ~Holds(attempts[v], r)
        BY <3>1, <4>2 DEF RowGuarded, Whose
      <4>4. \A v \in Whose : ~Holds(attempts'[v], r)
        BY <1>3, <3>1, <4>3
      <4>5. \A late \in flying' : Late(late, r) => late = InFlight(w)
        BY <1>5, <4>3
      <4>6. QED
        BY <1>1, <4>3, <4>4, <4>5 DEF RowGuarded, Whose
    <3>3. CASE ~Late(InFlight(w), r)
      <4>1. \A late \in flying' : Late(late, r) => late \in flying
        BY <1>5, <3>3
      <4>2. QED
        BY <1>1, <1>3, <3>1, <4>1 DEF RowGuarded, Whose
    <3>4. QED
      BY <3>2, <3>3
  <2>3. QED
    BY <1>1, <2>2 DEF Guarded
<1>6. QED
  BY <1>4, <1>5, TimedOut

\* A late execution performs its row for the first time.
LEMMA LandLateGuarded ==
    ASSUME Typed, Guarded, LandLate
    PROVE  Guarded'
<1>1. PICK late \in flying :
          /\ IF late.replayed THEN Replayed(late.op) ELSE Performed(late.row, late.op)
          /\ flying' = flying \ {late}
          /\ UNCHANGED attempts
  BY DEF LandLate
<1>2. late.row \in 1..Len(journal) /\ journal \in Seq(JournalRow)
  BY DEF Typed, Shapes, JournalTypeOK
<1>3. CASE late.replayed
  <2>1. UNCHANGED journal
    BY <1>1, <1>3 DEF Replayed
  <2>2. QED
    BY <1>1, <2>1, QuietStep
<1>4. CASE ~late.replayed
  <2> DEFINE row == late.row
  <2>1. /\ Len(journal') = Len(journal)
        /\ \A r \in 1..Len(journal) :
               /\ journal'[r].status = journal[r].status
               /\ journal'[r].done = IF r = row THEN journal[r].done + 1 ELSE journal[r].done
    BY <1>1, <1>2, <1>4, RowPerformed
  <2>2. Late(late, row) /\ RowGuarded(row)
    BY <1>2, <1>4 DEF Late, Guarded
  <2>3. /\ journal[row].done = 0 /\ journal[row].status # "failed"
        /\ \A v \in Whose : ~Holds(attempts[v], row)
        /\ \A other \in flying : Late(other, row) => other = late
    BY <2>2 DEF RowGuarded
  <2>4. ASSUME NEW r \in 1..Len(journal)
        PROVE  RowGuarded(r)'
    <3>1. CASE r = row
      <4>1. journal'[row].done = 1 /\ journal'[row].status # "failed"
        BY <1>2, <2>1, <2>3
      <4>2. \A other \in flying' : ~Late(other, row)
        BY <1>1, <2>3
      <4>3. QED
        BY <1>1, <2>3, <3>1, <4>1, <4>2 DEF RowGuarded, Whose
    <3>2. CASE r # row
      <4>1. RowGuarded(r) /\ journal'[r].done = journal[r].done /\ journal'[r].status = journal[r].status
        BY <2>1, <3>2 DEF Guarded
      <4>2. flying' \subseteq flying
        BY <1>1
      <4>3. QED
        BY <1>1, <4>1, <4>2 DEF RowGuarded, Whose
    <3>3. QED
      BY <3>1, <3>2
  <2>5. QED
    BY <2>1, <2>4 DEF Guarded
<1>5. QED
  BY <1>3, <1>4

\* Every step keeps the rows guarded.
LEMMA StepGuarded ==
    ASSUME Typed, Guarded, [Next]_vars
    PROVE  Guarded'
<1>1. CASE Workflow
  BY <1>1, WorkflowGuarded
<1>2. ASSUME NEW w \in Whose, Attempt(w)
      PROVE  Guarded'
  BY <1>2, RecordGuarded, ReconcileGuarded, ExecuteGuarded, SettleGuarded, ClaimGuarded,
     SettleReplayGuarded, TimeoutGuarded DEF Attempt
<1>3. CASE ReportInVain
  <2>1. UNCHANGED <<journal, flying>> /\ "left" \in Whose /\ Put("left", NoAttempt)
    BY <1>3 DEF ReportInVain, world, Whose
  <2>2. QED
    BY <2>1, NoAttemptFree, PutOne, QuietAttempt
<1>4. CASE LandLate
  BY <1>4, LandLateGuarded
<1>5. CASE Expire
  BY <1>5, QuietStep DEF Expire
<1>6. CASE UNCHANGED vars
  BY <1>6, QuietStep DEF vars
<1>7. QED
  BY <1>1, <1>2, <1>3, <1>4, <1>5, <1>6 DEF Next

\* Whoever may still perform a row is alone with it and finds it unperformed.
THEOREM GuardInvariant == Spec => []Guarded
<1>1. Init => Guarded
  BY EmptySeq DEF Init, Guarded
<1>2. Typed /\ Guarded /\ [Next]_vars => Guarded'
  BY StepGuarded
<1>3. QED
  BY <1>1, <1>2, TypingInvariant, PTL DEF Spec

\* A recorded action is performed at most once for the calls that share its
\* row, whatever is lost, times out, is retried or is left behind (mutate and
\* PrepareBrowserMutationRetry).
THEOREM ActedAtMostOnce == Spec => []ActedOnce
<1>1. Typed /\ Guarded => ActedOnce
  <2>1. SUFFICES ASSUME Typed, Guarded, NEW r \in DOMAIN journal
                 PROVE  journal[r].done <= 1
    BY DEF ActedOnce
  <2>2. r \in 1..Len(journal)
    BY <2>1, LenProperties DEF Typed, JournalTypeOK
  <2>3. QED
    BY <2>1, <2>2 DEF Guarded, RowGuarded
<1>2. QED
  BY <1>1, TypingInvariant, GuardInvariant, PTL


-----------------------------------------------------------------------------
(* What is settled was done.  Activity IDs start again with every run, so  *)
(* that a key may stand for the call of an earlier one; where none does,   *)
(* the journal tells the truth.                                            *)

\* The row that an attempt finds under its key is the row of its own call.
KeysUnambiguous ==
    \A w \in Whose : At(w, "mutate", "record") =>
        \A row \in RowsOf(<<attempts[w].id, attempts[w].field>>) : journal[row].op = Op(w)

Reached(op, did, clicked) == op \in did \/ clicked[op] > 0

\* An attempt works on the row of its own action, has performed what it says
\* is done, replays what is evident, and has reached, without an error, the
\* fields that it has left behind.
AttemptTruthful(attempt, rows, did, clicked) ==
    /\ attempt.job = "mutate" =>
           /\ attempt.pc \in {"reconcile", "execute", "settle"} /\ attempt.row # 0 =>
                  rows[attempt.row].op = <<attempt.call, attempt.field>>
           /\ attempt.pc = "settle" /\ attempt.outcome = "done" =>
                  <<attempt.call, attempt.field>> \in did
           /\ attempt.errors = "none" =>
                  \A i \in 1..Len(attempt.kinds) :
                      i < attempt.field \/ attempt.pc = "report" =>
                          Reached(<<attempt.call, i>>, did, clicked)
    /\ attempt.job = "replay" /\ attempt.pc \in {"execute", "settle"} =>
           rows[attempt.row].op \in did

\* A row that is applied, or was replayed somewhere, is evident: its action was
\* performed, or its effect found on the page.
RowsTruthful ==
    \A r \in 1..Len(journal) :
        journal[r].status = "applied" \/ journal[r].on # 0 => journal[r].op \in evident

\* The page shows what is evident, and late replays repeat it.
PageTruthful ==
    /\ \A i \in 1..Len(page) : page[i] # Start => page[i] \in evident
    /\ \A late \in flying : late.replayed => late.op \in evident

AttemptsTruthful ==
    \A w \in Whose : AttemptTruthful(attempts[w], journal, evident, submits)

Truthful == RowsTruthful /\ PageTruthful /\ AttemptsTruthful

\* Nothing that was done is undone, and rows are added, never taken away.
Grows ==
    /\ evident \subseteq evident'
    /\ \A op \in Ops : submits[op] > 0 => submits'[op] > 0
    /\ Len(journal) <= Len(journal')
    /\ \A r \in 1..Len(journal) : journal'[r].op = journal[r].op

\* The fields of a call are actions.
LEMMA FieldsAreOps ==
    ASSUME NEW attempt \in AttemptRecord, NEW n \in Nat, AttemptShape(attempt, n), attempt.job = "mutate"
    PROVE  /\ Len(attempt.kinds) \in Nat /\ attempt.field \in Nat
           /\ \A i \in 1..Len(attempt.kinds) : <<attempt.call, i>> \in Ops
<1>1. /\ attempt.call \in 1..MaxCalls /\ attempt.kinds \in Calls
      /\ attempt.field \in 1..Len(attempt.kinds)
  BY DEF AttemptShape
<1>2. Len(attempt.kinds) \in Nat /\ Len(attempt.kinds) <= MaxFields
  BY <1>1, CallsAreSequences
<1>3. \A i \in 1..Len(attempt.kinds) : i \in 1..MaxFields
  BY <1>2 DEF MaxFields
<1>4. QED
  BY <1>1, <1>2, <1>3 DEF Ops

\* What is true of an attempt stays true while it waits.
LEMMA AttemptStaysTruthful ==
    ASSUME Typed, Grows, NEW attempt \in AttemptRecord, AttemptShape(attempt, Len(journal)),
           AttemptTruthful(attempt, journal, evident, submits)
    PROVE  AttemptTruthful(attempt, journal', evident', submits')
<1>1. Len(journal) \in Nat
  BY DEF Typed, JournalTypeOK
<1>2. CASE attempt.job = "mutate"
  <2>1. \A i \in 1..Len(attempt.kinds) :
            Reached(<<attempt.call, i>>, evident, submits) => Reached(<<attempt.call, i>>, evident', submits')
    BY <1>1, <1>2, FieldsAreOps DEF Grows, Reached
  <2>2. attempt.pc \in {"reconcile", "execute", "settle"} /\ attempt.row # 0 => attempt.row \in 1..Len(journal)
    BY <1>1, <1>2 DEF AttemptShape
  <2>3. QED
    BY <1>2, <2>1, <2>2 DEF AttemptTruthful, Grows
<1>3. CASE attempt.job # "mutate"
  BY <1>3 DEF AttemptTruthful, AttemptShape, Grows
<1>4. QED
  BY <1>2, <1>3

\* An attempt that has done nothing yet, or is none.
LEMMA FreshTruthful ==
    ASSUME NEW attempt \in AttemptRecord, NEW rows, NEW did, NEW clicked,
           \/ attempt.job = "none"
           \/ attempt.job = "replay" /\ attempt.pc \in {"claim", "report"}
           \/ attempt.job = "mutate" /\ attempt.pc = "record" /\ attempt.field = 1
    PROVE  AttemptTruthful(attempt, rows, did, clicked)
<1>1. attempt.field = 1 => \A i \in 1..Len(attempt.kinds) : ~(i < attempt.field)
  OBVIOUS
<1>2. QED
  BY <1>1 DEF AttemptTruthful

\* Rows keep what they were, or change within what was performed.
LEMMA RowsStayTruthful ==
    ASSUME RowsTruthful, evident \subseteq evident',
           \A r \in 1..Len(journal') :
               \/ /\ r \in 1..Len(journal) /\ journal'[r].op = journal[r].op
                  /\ journal'[r].status = journal[r].status /\ journal'[r].on = journal[r].on
               \/ journal'[r].status # "applied" /\ journal'[r].on = 0
               \/ journal'[r].op \in evident'
    PROVE  RowsTruthful'
BY DEF RowsTruthful

\* Setting a status leaves every row the action it describes.
LEMMA StatusSetRows ==
    ASSUME journal \in Seq(JournalRow), NEW row \in 1..Len(journal),
           NEW status \in Statuses, NEW on \in Nat, SetStatus(row, status, on)
    PROVE  /\ Len(journal') = Len(journal)
           /\ \A r \in 1..Len(journal) :
                  /\ journal'[r].op = journal[r].op
                  /\ r = row => journal'[r].status = status /\ journal'[r].on = on
                  /\ r # row => journal'[r] = journal[r]
<1> DEFINE updated == [journal[row] EXCEPT !.status = status, !.on = on]
<1>1. journal[row] \in JournalRow
  BY ElementOfSeq
<1>2. /\ updated \in JournalRow /\ updated.status = status /\ updated.on = on
      /\ updated.op = journal[row].op
  BY <1>1 DEF JournalRow
<1>3. journal' = [journal EXCEPT ![row] = updated]
  BY DEF SetStatus
<1> HIDE DEF updated
<1>4. Len(journal') = Len(journal)
  BY <1>2, <1>3, ExceptSeq
<1>5. \A r \in 1..Len(journal) : journal'[r] = IF r = row THEN updated ELSE journal[r]
  BY <1>3
<1>6. QED
  BY <1>2, <1>4, <1>5

\* A step that performs nothing, and settles a row only within what was
\* performed.
LEMMA StoreStepTruthful ==
    ASSUME Typed, Truthful, UNCHANGED <<page, flying, evident, submits>>,
           \/ UNCHANGED journal
           \/ \E row \in 1..Len(journal), status \in Statuses, on \in Nat :
                  /\ SetStatus(row, status, on)
                  /\ status = "applied" \/ on # 0 => journal[row].op \in evident
    PROVE  Grows /\ RowsTruthful' /\ PageTruthful'
<1>1. journal \in Seq(JournalRow) /\ Len(journal) \in Nat
  BY DEF Typed, JournalTypeOK
<1>2. PageTruthful'
  BY DEF Truthful, PageTruthful
<1>3. CASE UNCHANGED journal
  BY <1>1, <1>2, <1>3 DEF Truthful, RowsTruthful, Grows
<1>4. ASSUME NEW row \in 1..Len(journal), NEW status \in Statuses, NEW on \in Nat,
             SetStatus(row, status, on), status = "applied" \/ on # 0 => journal[row].op \in evident
      PROVE  Grows /\ RowsTruthful'
  <2>1. /\ Len(journal') = Len(journal)
        /\ \A r \in 1..Len(journal) :
               /\ journal'[r].op = journal[r].op
               /\ r = row => journal'[r].status = status /\ journal'[r].on = on
               /\ r # row => journal'[r] = journal[r]
    BY <1>1, <1>4, StatusSetRows
  <2>2. RowsTruthful'
    BY <1>4, <2>1, RowsStayTruthful DEF Truthful
  <2>3. QED
    BY <1>1, <2>1, <2>2 DEF Grows
<1>5. QED
  BY <1>2, <1>3, <1>4

\* The others' attempts, when one moves.
LEMMA OneAttemptMoves ==
    ASSUME Typed, Truthful, Grows, NEW w \in Whose,
           \A v \in Whose \ {w} : attempts'[v] = attempts[v],
           AttemptTruthful(attempts'[w], journal', evident', submits')
    PROVE  AttemptsTruthful'
<1>1. ASSUME NEW v \in Whose \ {w}
      PROVE  AttemptTruthful(attempts'[v], journal', evident', submits')
  <2>1. attempts[v] \in AttemptRecord /\ AttemptShape(attempts[v], Len(journal))
    BY DEF Typed, JournalTypeOK, Shapes
  <2>2. AttemptTruthful(attempts[v], journal, evident, submits)
    BY DEF Truthful, AttemptsTruthful
  <2>3. QED
    BY <2>1, <2>2, AttemptStaysTruthful
<1>2. QED
  BY <1>1 DEF AttemptsTruthful

\* The end of a field: what it leaves behind without an error was reached.
LEMMA FieldOverTruthful ==
    ASSUME Typed, Truthful, Grows, NEW w \in Whose, attempts[w].job = "mutate",
           NEW error \in {"none", "retry", "fatal"}, FieldOver(w, error),
           error = "none" => Reached(Op(w), evident', submits')
    PROVE  AttemptsTruthful'
<1> DEFINE attempt == attempts[w]
           errors == Worse(attempt.errors, error)
<1>1. /\ attempts \in [Whose -> AttemptRecord] /\ attempt \in AttemptRecord
      /\ AttemptShape(attempt, Len(journal)) /\ Len(journal) \in Nat
  BY DEF Typed, JournalTypeOK, Shapes
<1>2. /\ Len(attempt.kinds) \in Nat /\ attempt.field \in Nat
      /\ attempt.field \in 1..Len(attempt.kinds)
  BY <1>1, FieldsAreOps DEF AttemptShape
<1>3. errors = "none" => attempt.errors = "none" /\ error = "none"
  BY <1>1 DEF Worse, AttemptRecord
<1>4. AttemptTruthful(attempt, journal', evident', submits')
  BY <1>1, AttemptStaysTruthful DEF Truthful, AttemptsTruthful
<1>5. errors = "none" =>
          \A i \in 1..Len(attempt.kinds) :
              i <= attempt.field => Reached(<<attempt.call, i>>, evident', submits')
  <2>1. \A i \in 1..Len(attempt.kinds) : i <= attempt.field => i < attempt.field \/ i = attempt.field
    BY <1>2
  <2>2. QED
    BY <1>3, <1>4, <2>1 DEF AttemptTruthful, Op
<1>6. AttemptTruthful(attempts'[w], journal', evident', submits')
  <2> HIDE DEF errors
  <2>1. CASE attempt.field = Len(attempt.kinds)
    <3>1. attempts'[w] = [attempt EXCEPT !.pc = "report", !.errors = errors]
      BY <1>1, <2>1 DEF FieldOver, Put, errors
    <3>2. /\ attempts'[w].job = "mutate" /\ attempts'[w].pc = "report" /\ attempts'[w].errors = errors
          /\ attempts'[w].kinds = attempt.kinds /\ attempts'[w].call = attempt.call
      BY <1>1, <3>1 DEF AttemptRecord
    <3>3. \A i \in 1..Len(attempt.kinds) : i <= attempt.field
      BY <1>2, <2>1
    <3>4. QED
      BY <1>5, <3>2, <3>3 DEF AttemptTruthful
  <2>2. CASE attempt.field # Len(attempt.kinds)
    <3>1. attempts'[w] = [attempt EXCEPT !.pc = "record", !.errors = errors,
                                         !.field = attempt.field + 1, !.row = 0, !.outcome = "none"]
      BY <1>1, <2>2 DEF FieldOver, Put, errors
    <3>2. /\ attempts'[w].job = "mutate" /\ attempts'[w].pc = "record" /\ attempts'[w].errors = errors
          /\ attempts'[w].kinds = attempt.kinds /\ attempts'[w].call = attempt.call
          /\ attempts'[w].field = attempt.field + 1
      BY <1>1, <3>1 DEF AttemptRecord
    <3>3. \A i \in 1..Len(attempt.kinds) : i < attempt.field + 1 => i <= attempt.field
      BY <1>2
    <3>4. QED
      BY <1>5, <3>2, <3>3 DEF AttemptTruthful
  <2>3. QED
    BY <2>1, <2>2
<1>7. \A v \in Whose \ {w} : attempts'[v] = attempts[v]
  BY <1>1, FieldOverMoves
<1>8. QED
  BY <1>6, <1>7, OneAttemptMoves

\* An attempt takes the row of its own action in hand, or acts without one.
LEMMA TakenTruthful ==
    ASSUME Typed, Truthful, Grows, NEW w \in Whose, attempts[w].job = "mutate", attempts[w].pc = "record",
           NEW row \in Nat, row = 0 \/ journal'[row].op = Op(w),
           NEW pc \in {"execute", "reconcile"},
           Put(w, [attempts[w] EXCEPT !.pc = pc, !.row = row])
    PROVE  AttemptsTruthful'
<1> DEFINE attempt == attempts[w]
<1>1. attempt \in AttemptRecord /\ AttemptShape(attempt, Len(journal))
  BY DEF Typed, JournalTypeOK, Shapes
<1>2. /\ attempts'[w] = [attempt EXCEPT !.pc = pc, !.row = row]
      /\ \A v \in Whose \ {w} : attempts'[v] = attempts[v]
  BY PutOne
<1>3. /\ attempts'[w].job = "mutate" /\ attempts'[w].pc = pc /\ attempts'[w].row = row
      /\ attempts'[w].errors = attempt.errors /\ attempts'[w].kinds = attempt.kinds
      /\ attempts'[w].call = attempt.call /\ attempts'[w].field = attempt.field
  BY <1>1, <1>2 DEF AttemptRecord
<1>4. AttemptTruthful(attempt, journal', evident', submits')
  BY <1>1, AttemptStaysTruthful DEF Truthful, AttemptsTruthful
<1>5. AttemptTruthful(attempts'[w], journal', evident', submits')
  BY <1>3, <1>4 DEF AttemptTruthful, Op
<1>6. QED
  BY <1>2, <1>5, OneAttemptMoves

\* Record takes up the row of the attempt's own action, or finds it applied.
LEMMA RecordTruthful ==
    ASSUME Typed, Truthful, KeysUnambiguous, NEW w \in Whose, Record(w)
    PROVE  Truthful'
<1> DEFINE key == <<attempts[w].id, attempts[w].field>>
           Executing(row) == [attempts[w] EXCEPT !.pc = "execute", !.row = row]
           added == [key |-> key, gen |-> session.gen, op |-> Op(w), kind |-> Kind(w),
                     status |-> "pending", on |-> 0, done |-> 0]
<1>1. /\ attempts[w].job = "mutate" /\ attempts[w].pc = "record" /\ attempts[w] \in AttemptRecord
      /\ journal \in Seq(JournalRow) /\ Len(journal) \in Nat /\ DOMAIN journal = 1..Len(journal)
  BY RowInHand, LenProperties DEF Record, At
<1>2. UNCHANGED <<page, flying, evident, submits>>
  BY DEF Record, world
<1>3. \A row \in RowsOf(key) : row \in 1..Len(journal) /\ row \in Nat /\ journal[row].op = Op(w)
  BY <1>1 DEF KeysUnambiguous, At, RowsOf
<1>4. UNCHANGED journal => Grows /\ RowsTruthful' /\ PageTruthful'
  BY <1>2, StoreStepTruthful
<1>5. CASE Put(w, Executing(0)) /\ UNCHANGED journal
  BY <1>1, <1>4, <1>5, TakenTruthful DEF Truthful
<1>6. CASE FieldOver(w, "retry") /\ UNCHANGED journal
  BY <1>1, <1>4, <1>6, FieldOverTruthful DEF Truthful
<1>7. CASE journal' = Append(journal, added) /\ Put(w, Executing(Len(journal) + 1))
  <2>1. /\ Len(journal') = Len(journal) + 1 /\ journal'[Len(journal) + 1] = added
        /\ \A r \in 1..Len(journal) : journal'[r] = journal[r]
        /\ \A r \in 1..Len(journal') : r \in 1..Len(journal) \/ r = Len(journal) + 1
    <3>1. added \in JournalRow
      <4>1. session.gen \in Nat /\ "pending" \in Statuses
        BY DEF Typed, JournalTypeOK, SessionRow, Statuses
      <4>2. key \in Nat \X Nat /\ Op(w) \in Ops /\ Kind(w) \in Kinds
        BY <1>1, OpTyped
      <4>3. QED
        BY <4>1, <4>2 DEF JournalRow
    <3> HIDE DEF added
    <3>2. QED
      BY <1>1, <1>7, <3>1, AppendProperties
  <2>2. added.op = Op(w) /\ added.status = "pending" /\ added.on = 0
    OBVIOUS
  <2> HIDE DEF added
  <2>3. Grows
    BY <1>1, <1>2, <2>1 DEF Grows
  <2>4. RowsTruthful'
    BY <1>2, <2>1, <2>2, RowsStayTruthful DEF Truthful
  <2>5. PageTruthful'
    BY <1>2 DEF Truthful, PageTruthful
  <2>6. Len(journal) + 1 \in Nat /\ journal'[Len(journal) + 1].op = Op(w)
    BY <1>1, <2>1, <2>2
  <2>7. AttemptsTruthful'
    BY <1>1, <1>7, <2>3, <2>6, TakenTruthful
  <2>8. QED
    BY <2>4, <2>5, <2>7 DEF Truthful
<1>8. ASSUME NEW row \in RowsOf(key), Finished(row), FieldOver(w, "none"), UNCHANGED journal
      PROVE  Truthful'
  <2>1. Op(w) \in evident
    BY <1>3, <1>8 DEF Finished, Truthful, RowsTruthful
  <2>2. Reached(Op(w), evident', submits')
    BY <1>2, <2>1 DEF Reached
  <2>3. QED
    BY <1>1, <1>4, <1>8, <2>2, FieldOverTruthful DEF Truthful
<1>9. ASSUME NEW row \in RowsOf(key), SetStatus(row, "pending", 0), Put(w, Executing(row))
      PROVE  Truthful'
  <2>1. row \in 1..Len(journal) /\ row \in Nat /\ journal[row].op = Op(w)
    BY <1>3
  <2>2. Grows /\ RowsTruthful' /\ PageTruthful'
    BY <1>2, <1>9, <2>1, StoreStepTruthful DEF Statuses
  <2>3. journal'[row].op = Op(w)
    BY <2>1, <2>2 DEF Grows
  <2>4. AttemptsTruthful'
    BY <1>1, <1>9, <2>1, <2>2, <2>3, TakenTruthful
  <2>5. QED
    BY <2>2, <2>4 DEF Truthful
<1>10. ASSUME NEW row \in RowsOf(key),
              Put(w, [attempts[w] EXCEPT !.pc = "reconcile", !.row = row]), UNCHANGED journal
       PROVE  Truthful'
  <2>1. AttemptsTruthful'
    BY <1>1, <1>3, <1>4, <1>10, TakenTruthful
  <2>2. QED
    BY <1>4, <1>10, <2>1 DEF Truthful
<1>11. QED
  BY <1>5, <1>6, <1>7, <1>8, <1>9, <1>10 DEF Record

\* Reconciling settles a row as applied on the evidence of the page.
LEMMA ReconcileTruthful ==
    ASSUME Typed, Truthful, NEW w \in Whose, Reconcile(w)
    PROVE  Truthful'
<1>1. /\ attempts[w].job = "mutate" /\ attempts[w].pc = "reconcile"
      /\ UNCHANGED <<page, flying, submits>>
  BY DEF Reconcile, At
<1>2. attempts[w].row \in 1..Len(journal) /\ Len(journal) \in Nat /\ Op(w) \in Ops
  BY <1>1, RowInHand, OpTyped
<1>3. journal[attempts[w].row].op = Op(w)
  BY <1>1, <1>2 DEF Truthful, AttemptsTruthful, AttemptTruthful, Op
<1>4. ASSUME evident' = evident \cup {Op(w)}, SetStatus(attempts[w].row, "applied", 0), FieldOver(w, "none")
      PROVE  Truthful'
  <2>1. /\ Len(journal') = Len(journal)
        /\ \A r \in 1..Len(journal) :
               /\ journal'[r].op = journal[r].op
               /\ r # attempts[w].row => journal'[r] = journal[r]
    BY <1>2, <1>4, StatusSetRows DEF Typed, JournalTypeOK, Statuses
  <2>2. Grows
    BY <1>1, <1>2, <1>4, <2>1 DEF Grows
  <2>3. RowsTruthful'
    <3>1. \A r \in 1..Len(journal') :
              \/ /\ r \in 1..Len(journal) /\ journal'[r].op = journal[r].op
                 /\ journal'[r].status = journal[r].status /\ journal'[r].on = journal[r].on
              \/ journal'[r].op \in evident'
      BY <1>3, <1>4, <2>1
    <3>2. QED
      BY <1>4, <3>1, RowsStayTruthful DEF Truthful
  <2>4. PageTruthful'
    BY <1>1, <1>4 DEF Truthful, PageTruthful
  <2>5. Reached(Op(w), evident', submits')
    BY <1>4 DEF Reached
  <2>6. QED
    BY <1>1, <1>4, <2>2, <2>3, <2>4, <2>5, FieldOverTruthful DEF Truthful
<1>5. ASSUME NEW error \in {"retry", "fatal"}, FieldOver(w, error), UNCHANGED <<journal, evident>>
      PROVE  Truthful'
  <2>1. Grows /\ RowsTruthful' /\ PageTruthful'
    BY <1>1, <1>5, StoreStepTruthful
  <2>2. QED
    BY <1>1, <1>5, <2>1, FieldOverTruthful DEF Truthful
<1>6. QED
  BY <1>4, <1>5 DEF Reconcile

\* Settling says that an action was applied only of one that is evident.
LEMMA SettleTruthful ==
    ASSUME Typed, Truthful, NEW w \in Whose, NEW stored \in BOOLEAN, Settle(w, stored)
    PROVE  Truthful'
<1> DEFINE outcome == attempts[w].outcome
<1>1. /\ attempts[w].job = "mutate" /\ attempts[w].pc = "settle"
      /\ UNCHANGED <<page, flying, evident, submits>>
  BY DEF Settle, At, world
<1>2. attempts[w].row \in 1..Len(journal) /\ Len(journal) \in Nat /\ Op(w) \in Ops
  BY <1>1, RowInHand, OpTyped
<1>3. /\ journal[attempts[w].row].op = Op(w)
      /\ outcome = "done" => Op(w) \in evident
  BY <1>1, <1>2 DEF Truthful, AttemptsTruthful, AttemptTruthful, Op
<1>4. UNCHANGED journal \/ SetStatus(attempts[w].row, Settlement(outcome), 0)
  BY DEF Settle
<1>5. Settlement(outcome) \in Statuses /\ (Settlement(outcome) = "applied" => outcome = "done")
  BY DEF Settlement, Statuses
<1>6. Grows /\ RowsTruthful' /\ PageTruthful'
  BY <1>1, <1>2, <1>3, <1>4, <1>5, StoreStepTruthful
<1>7. PICK error \in {"none", "retry", "fatal"} : FieldOver(w, error) /\ (error = "none" => outcome = "done")
  <2>1. PICK error \in ErrorsOf(w, outcome), settled \in BOOLEAN :
            FieldOver(w, IF settled THEN error ELSE Worse("retry", error))
    BY DEF Settle
  <2>2. error = "none" => outcome = "done"
    BY <2>1 DEF ErrorsOf
  <2>3. Worse("retry", error) # "none"
    BY <2>1 DEF Worse, ErrorsOf
  <2>4. QED
    BY <2>1, <2>2, <2>3, ErrorsTyped
<1>8. error = "none" => Reached(Op(w), evident', submits')
  BY <1>1, <1>3, <1>7 DEF Reached
<1>9. AttemptsTruthful'
  BY <1>1, <1>6, <1>7, <1>8, FieldOverTruthful
<1>10. QED
  BY <1>6, <1>9 DEF Truthful

\* Performing a row leaves what is recorded of it and of the others.
LEMMA RowPerformedRows ==
    ASSUME journal \in Seq(JournalRow), NEW row \in 1..Len(journal), NEW op, Performed(row, op)
    PROVE  /\ Len(journal') = Len(journal)
           /\ \A r \in 1..Len(journal) :
                  /\ journal'[r].op = journal[r].op
                  /\ journal'[r].status = journal[r].status
                  /\ journal'[r].on = journal[r].on
<1> DEFINE updated == [journal[row] EXCEPT !.done = journal[row].done + 1]
<1>1. journal[row] \in JournalRow
  BY ElementOfSeq
<1>2. /\ updated.op = journal[row].op /\ updated.status = journal[row].status
      /\ updated.on = journal[row].on
  BY <1>1 DEF JournalRow
<1>3. journal' = [journal EXCEPT ![row] = updated]
  BY DEF Performed
<1> HIDE DEF updated
<1>4. \A r \in 1..Len(journal) : journal'[r] = IF r = row THEN updated ELSE journal[r]
  BY <1>3
<1>5. Len(journal') = Len(journal)
  BY RowPerformed
<1>6. QED
  BY <1>2, <1>4, <1>5

\* An action is added to the page: a recorded one, that counts as performed, or
\* the replay of one that was.
LEMMA ActionTruthful ==
    ASSUME Typed, Truthful, NEW op \in Ops, flying' \subseteq flying, UNCHANGED submits,
           \/ Replayed(op) /\ op \in evident
           \/ \E row \in 1..Len(journal) : Performed(row, op)
    PROVE  Grows /\ RowsTruthful' /\ PageTruthful' /\ op \in evident'
<1>1. journal \in Seq(JournalRow) /\ Len(journal) \in Nat /\ page \in Seq(Ops \cup {Start})
  BY DEF Typed, JournalTypeOK
<1>2. /\ evident \subseteq evident' /\ op \in evident' /\ page' = Append(page, op)
  BY DEF Replayed, Performed
<1>3. /\ Len(journal') = Len(journal)
      /\ \A r \in 1..Len(journal) :
             /\ journal'[r].op = journal[r].op
             /\ journal'[r].status = journal[r].status
             /\ journal'[r].on = journal[r].on
  <2>1. CASE Replayed(op)
    BY <2>1 DEF Replayed
  <2>2. ASSUME NEW row \in 1..Len(journal), Performed(row, op)
        PROVE  /\ Len(journal') = Len(journal)
               /\ \A r \in 1..Len(journal) :
                      /\ journal'[r].op = journal[r].op
                      /\ journal'[r].status = journal[r].status
                      /\ journal'[r].on = journal[r].on
    BY <1>1, <2>2, RowPerformedRows
  <2>3. QED
    BY <2>1, <2>2
<1>4. Grows
  BY <1>1, <1>2, <1>3 DEF Grows
<1>5. RowsTruthful'
  BY <1>2, <1>3, RowsStayTruthful DEF Truthful
<1>6. \A i \in 1..Len(page') : page'[i] # Start => page'[i] \in evident'
  <2>1. /\ Len(page') = Len(page) + 1 /\ page'[Len(page) + 1] = op /\ Len(page) \in Nat
        /\ \A i \in 1..Len(page) : page'[i] = page[i]
    BY <1>1, <1>2, AppendProperties
  <2>2. \A i \in 1..Len(page') : i \in 1..Len(page) \/ i = Len(page) + 1
    BY <2>1
  <2>3. QED
    BY <1>2, <2>1, <2>2 DEF Truthful, PageTruthful
<1>7. PageTruthful'
  BY <1>2, <1>6 DEF Truthful, PageTruthful
<1>8. QED
  BY <1>2, <1>4, <1>5, <1>7

\* An attempt that has executed its row reports as done what it performed.
LEMMA ExecutedTruthful ==
    ASSUME Typed, Truthful, Grows, NEW w \in Whose,
           attempts[w].job # "none", attempts[w].pc = "execute", attempts[w].row # 0,
           NEW outcome \in {"done", "refused", "uncertain"},
           Put(w, [attempts[w] EXCEPT !.pc = "settle", !.outcome = outcome]),
           attempts[w].job = "mutate" /\ outcome = "done" => Op(w) \in evident'
    PROVE  AttemptsTruthful'
<1> DEFINE attempt == attempts[w]
<1>1. attempt \in AttemptRecord /\ AttemptShape(attempt, Len(journal))
  BY DEF Typed, JournalTypeOK, Shapes
<1>2. /\ attempts'[w] = [attempt EXCEPT !.pc = "settle", !.outcome = outcome]
      /\ \A v \in Whose \ {w} : attempts'[v] = attempts[v]
  BY PutOne
<1>3. /\ attempts'[w].job = attempt.job /\ attempts'[w].pc = "settle" /\ attempts'[w].row = attempt.row
      /\ attempts'[w].outcome = outcome
      /\ attempts'[w].errors = attempt.errors /\ attempts'[w].kinds = attempt.kinds
      /\ attempts'[w].call = attempt.call /\ attempts'[w].field = attempt.field
  BY <1>1, <1>2 DEF AttemptRecord
<1>4. AttemptTruthful(attempt, journal', evident', submits')
  BY <1>1, AttemptStaysTruthful DEF Truthful, AttemptsTruthful
<1>5. AttemptTruthful(attempts'[w], journal', evident', submits')
  BY <1>3, <1>4 DEF AttemptTruthful, Op
<1>6. QED
  BY <1>2, <1>5, OneAttemptMoves

\* The click that nobody records is counted where it is made.
LEMMA ClickTruthful ==
    ASSUME Typed, Truthful, NEW w \in Whose, NEW outcome \in {"done", "refused", "uncertain"},
           NEW lands \in BOOLEAN, Execute(w, outcome, lands), attempts[w].row = 0
    PROVE  Truthful'
<1>1. attempts[w].job = "mutate" /\ attempts[w].pc = "execute"
  BY ExecutedAttempt
<1>2. Op(w) \in Ops
  BY <1>1, OpTyped
<1>3. UNCHANGED <<page, evident, journal, flying>>
  BY DEF Execute
<1>4. submits \in [Ops -> Nat] /\ journal \in Seq(JournalRow) /\ Len(journal) \in Nat
  BY DEF Typed, JournalTypeOK
<1>5. submits[Op(w)] + 1 > 0 /\ submits[Op(w)] \in Nat
  BY <1>2, <1>4
<1>6. lands => submits' = [submits EXCEPT ![Op(w)] = submits[Op(w)] + 1]
  BY DEF Execute
<1>7. ~lands => submits' = submits
  BY DEF Execute
<1>8. \A op \in Ops : submits[op] > 0 => submits'[op] > 0
  <2>1. CASE lands
    BY <1>4, <1>5, <1>6, <2>1
  <2>2. CASE ~lands
    BY <1>7, <2>2
  <2>3. QED
    BY <2>1, <2>2
<1>9. Grows
  BY <1>3, <1>4, <1>8 DEF Grows
<1>10. RowsTruthful' /\ PageTruthful'
  BY <1>3 DEF Truthful, RowsTruthful, PageTruthful
<1>11. PICK error \in {"none", "retry", "fatal"} : FieldOver(w, error) /\ (error = "none" => outcome = "done")
  <2>1. PICK error \in ErrorsOf(w, outcome) : FieldOver(w, error)
    BY DEF Execute
  <2>2. error = "none" => outcome = "done"
    BY <2>1 DEF ErrorsOf
  <2>3. QED
    BY <2>1, <2>2, ErrorsTyped
<1>12. outcome = "done" => submits'[Op(w)] > 0
  <2>1. outcome = "done" => lands
    BY DEF Execute
  <2>2. lands => submits'[Op(w)] > 0
    BY <1>2, <1>4, <1>5, <1>6
  <2>3. QED
    BY <2>1, <2>2
<1>13. AttemptsTruthful'
  BY <1>1, <1>9, <1>11, <1>12, FieldOverTruthful DEF Reached
<1>14. QED
  BY <1>10, <1>13 DEF Truthful

\* The browser client performs what it says is done.
LEMMA ExecuteTruthful ==
    ASSUME Typed, Truthful, NEW w \in Whose, NEW outcome \in {"done", "refused", "uncertain"},
           NEW lands \in BOOLEAN, Execute(w, outcome, lands)
    PROVE  Truthful'
<1> DEFINE row == attempts[w].row
<1>1. attempts[w].job # "none" /\ attempts[w].pc = "execute"
  BY ExecutedAttempt
<1>2. /\ attempts[w] \in AttemptRecord /\ Len(journal) \in Nat /\ journal \in Seq(JournalRow)
      /\ row \in 0..Len(journal)
  BY <1>1, RowInHand
<1>3. CASE row = 0
  BY <1>3, ClickTruthful
<1>4. CASE row # 0
  <2>1. /\ row \in 1..Len(journal)
        /\ Put(w, [attempts[w] EXCEPT !.pc = "settle", !.outcome = outcome])
        /\ UNCHANGED <<flying, submits>>
        /\ outcome = "done" => lands
    BY <1>2, <1>4 DEF Execute
  <2>2. CASE ~lands
    <3>1. UNCHANGED <<page, flying, evident, submits>> /\ UNCHANGED journal
      BY <2>1, <2>2 DEF Execute
    <3>2. Grows /\ RowsTruthful' /\ PageTruthful'
      BY <3>1, StoreStepTruthful
    <3>3. AttemptsTruthful'
      BY <1>1, <1>4, <2>1, <2>2, <3>2, ExecutedTruthful
    <3>4. QED
      BY <3>2, <3>3 DEF Truthful
  <2>3. CASE lands /\ attempts[w].job = "replay"
    <3>1. Replayed(journal[row].op)
      BY <1>4, <2>3 DEF Execute
    <3>2. journal[row].op \in evident
      BY <1>1, <2>3 DEF Truthful, AttemptsTruthful, AttemptTruthful
    <3>3. journal[row].op \in Ops
      <4>1. journal[row] \in JournalRow
        BY <1>2, <2>1, ElementOfSeq
      <4>2. QED
        BY <4>1 DEF JournalRow
    <3>4. Grows /\ RowsTruthful' /\ PageTruthful'
      BY <2>1, <3>1, <3>2, <3>3, ActionTruthful
    <3>5. AttemptsTruthful'
      BY <1>1, <1>4, <2>1, <2>3, <3>4, ExecutedTruthful
    <3>6. QED
      BY <3>4, <3>5 DEF Truthful
  <2>4. CASE lands /\ attempts[w].job # "replay"
    <3>1. attempts[w].job = "mutate"
      BY <1>1, <1>2, <2>4 DEF AttemptRecord
    <3>2. Performed(row, Op(w)) /\ Op(w) \in Ops
      BY <1>4, <2>4, <3>1, OpTyped DEF Execute
    <3>3. Grows /\ RowsTruthful' /\ PageTruthful' /\ Op(w) \in evident'
      BY <2>1, <3>2, ActionTruthful
    <3>4. AttemptsTruthful'
      BY <1>1, <1>4, <2>1, <3>3, ExecutedTruthful
    <3>5. QED
      BY <3>3, <3>4 DEF Truthful
  <2>5. QED
    BY <2>2, <2>3, <2>4
<1>5. QED
  BY <1>3, <1>4

\* An attempt that replays, on the row of an action that is evident.
LEMMA ReplayTruthful ==
    ASSUME Typed, Truthful, Grows, NEW w \in Whose, NEW next, Put(w, next), next.job = "replay",
           next.pc \in {"execute", "settle"} => journal'[next.row].op \in evident'
    PROVE  AttemptsTruthful'
<1>1. attempts'[w] = next /\ \A v \in Whose \ {w} : attempts'[v] = attempts[v]
  BY PutOne
<1>2. AttemptTruthful(attempts'[w], journal', evident', submits')
  BY <1>1 DEF AttemptTruthful
<1>3. QED
  BY <1>1, <1>2, OneAttemptMoves

\* Only what was applied, and so is evident, is claimed for a replay.
LEMMA ClaimTruthful ==
    ASSUME Typed, Truthful, NEW w \in Whose, Claim(w)
    PROVE  Truthful'
<1> DEFINE row == attempts[w].row
<1>1. /\ attempts[w].job = "replay"
      /\ UNCHANGED <<page, flying, evident, submits>>
  BY DEF Claim, At, world
<1>2. /\ attempts[w] \in AttemptRecord /\ row \in 1..Len(journal) /\ Len(journal) \in Nat
  BY <1>1, RowInHand
<1>3. ASSUME UNCHANGED journal, Fail(w) \/ Goto(w, "report")
      PROVE  Truthful'
  <2>1. Grows /\ RowsTruthful' /\ PageTruthful'
    BY <1>1, <1>3, StoreStepTruthful
  <2>2. PICK next : Put(w, next) /\ next.job = "replay" /\ next.pc = "report"
    <3>1. \A errors : [attempts[w] EXCEPT !.pc = "report", !.errors = errors].job = "replay"
                      /\ [attempts[w] EXCEPT !.pc = "report", !.errors = errors].pc = "report"
      BY <1>1, <1>2 DEF AttemptRecord
    <3>2. /\ [attempts[w] EXCEPT !.pc = "report"].job = "replay"
          /\ [attempts[w] EXCEPT !.pc = "report"].pc = "report"
      BY <1>1, <1>2 DEF AttemptRecord
    <3>3. QED
      BY <1>3, <3>1, <3>2 DEF Fail, Goto
  <2>3. AttemptsTruthful'
    BY <2>1, <2>2, ReplayTruthful
  <2>4. QED
    BY <2>1, <2>3 DEF Truthful
<1>4. ASSUME Replayable(row), SetStatus(row, "pending", session.id),
             Put(w, [attempts[w] EXCEPT !.pc = "execute", !.on = session.id])
      PROVE  Truthful'
  <2>1. journal[row].op \in evident
    BY <1>2, <1>4 DEF Replayable, Truthful, RowsTruthful
  <2>2. session.id \in Nat /\ "pending" \in Statuses
    BY DEF Typed, JournalTypeOK, SessionRow, Statuses
  <2>3. Grows /\ RowsTruthful' /\ PageTruthful'
    BY <1>1, <1>2, <1>4, <2>1, <2>2, StoreStepTruthful
  <2> DEFINE next == [attempts[w] EXCEPT !.pc = "execute", !.on = session.id]
  <2>4. next.job = "replay" /\ next.row = row /\ Put(w, next)
    BY <1>1, <1>2, <1>4 DEF AttemptRecord
  <2> HIDE DEF next
  <2>5. journal'[row].op \in evident'
    BY <1>2, <2>1, <2>3 DEF Grows
  <2>6. AttemptsTruthful'
    BY <2>3, <2>4, <2>5, ReplayTruthful
  <2>7. QED
    BY <2>3, <2>6 DEF Truthful
<1>5. QED
  BY <1>3, <1>4 DEF Claim

\* Settling a replay repeats what its row said.
LEMMA SettleReplayTruthful ==
    ASSUME Typed, Truthful, NEW w \in Whose, NEW stored \in BOOLEAN, SettleReplay(w, stored)
    PROVE  Truthful'
<1> DEFINE row == attempts[w].row
<1>1. /\ attempts[w].job = "replay" /\ attempts[w].pc = "settle"
      /\ UNCHANGED <<page, flying, evident, submits>>
  BY DEF SettleReplay, At, world
<1>2. /\ attempts[w] \in AttemptRecord /\ row \in 1..Len(journal) /\ attempts[w].on \in Nat
  BY <1>1, RowInHand DEF AttemptRecord
<1>3. journal[row].op \in evident
  BY <1>1 DEF Truthful, AttemptsTruthful, AttemptTruthful
<1>4. \/ UNCHANGED journal
      \/ \E status \in Statuses : SetStatus(row, status, attempts[w].on)
  BY DEF SettleReplay, Statuses
<1>5. Grows /\ RowsTruthful' /\ PageTruthful'
  BY <1>1, <1>2, <1>3, <1>4, StoreStepTruthful
<1>6. PICK next : Put(w, next) /\ next.job = "replay" /\ next.pc = "report"
  <2>1. \A errors : [attempts[w] EXCEPT !.pc = "report", !.errors = errors].job = "replay"
                    /\ [attempts[w] EXCEPT !.pc = "report", !.errors = errors].pc = "report"
    BY <1>1, <1>2 DEF AttemptRecord
  <2>2. /\ [attempts[w] EXCEPT !.pc = "report"].job = "replay"
        /\ [attempts[w] EXCEPT !.pc = "report"].pc = "report"
    BY <1>1, <1>2 DEF AttemptRecord
  <2>3. Fail(w) \/ Goto(w, "report")
    BY DEF SettleReplay
  <2>4. QED
    BY <2>1, <2>2, <2>3 DEF Fail, Goto
<1>7. AttemptsTruthful'
  BY <1>5, <1>6, ReplayTruthful
<1>8. QED
  BY <1>5, <1>7 DEF Truthful

\* An attempt that starts over, or is gone, claims nothing.
LEMMA RestartTruthful ==
    ASSUME Typed, Truthful, Grows, NEW w \in Whose, attempts[w].job # "none",
           Put(w, NoAttempt) \/ Put(w, Retried(attempts[w]))
    PROVE  AttemptsTruthful'
<1>1. attempts[w] \in AttemptRecord /\ AttemptShape(attempts[w], Len(journal)) /\ Len(journal) \in Nat
  BY RowInHand
<1>2. PICK next \in AttemptRecord :
          /\ Put(w, next)
          /\ \/ next.job = "none"
             \/ next.job = "replay" /\ next.pc \in {"claim", "report"}
             \/ next.job = "mutate" /\ next.pc = "record" /\ next.field = 1
  <2>1. CASE Put(w, NoAttempt)
    BY <1>1, <2>1, NoAttemptShape DEF NoAttempt
  <2>2. CASE Put(w, Retried(attempts[w]))
    <3>1. Retried(attempts[w]) \in AttemptRecord /\ Retried(attempts[w]).job = attempts[w].job
      BY <1>1, RetriedShape
    <3>2. CASE attempts[w].job = "replay"
      <4>1. Retried(attempts[w]).pc = "claim"
        BY <1>1, <3>2 DEF Retried, AttemptRecord
      <4>2. QED
        BY <2>2, <3>1, <3>2, <4>1
    <3>3. CASE attempts[w].job = "mutate"
      <4>1. Retried(attempts[w]).pc = "record" /\ Retried(attempts[w]).field = 1
        BY <1>1, <3>3 DEF Retried, AttemptRecord
      <4>2. QED
        BY <2>2, <3>1, <3>3, <4>1
    <3>4. QED
      BY <1>1, <3>2, <3>3 DEF AttemptRecord
  <2>3. QED
    BY <2>1, <2>2
<1>3. attempts'[w] = next /\ \A v \in Whose \ {w} : attempts'[v] = attempts[v]
  BY <1>2, PutOne
<1>4. AttemptTruthful(attempts'[w], journal', evident', submits')
  BY <1>2, <1>3, FreshTruthful
<1>5. QED
  BY <1>3, <1>4, OneAttemptMoves

\* What an attempt leaves in flight repeats what was performed, or performs.
LEMMA TimeoutTruthful ==
    ASSUME Typed, Truthful, NEW w \in Whose, NEW inFlight \in BOOLEAN, Timeout(w, inFlight)
    PROVE  Truthful'
<1>1. UNCHANGED <<journal, page, evident, submits>>
  BY DEF Timeout
<1>2. Grows /\ RowsTruthful'
  <2>1. journal \in Seq(JournalRow) /\ Len(journal) \in Nat
    BY DEF Typed, JournalTypeOK
  <2>2. QED
    BY <1>1, <2>1 DEF Grows, Truthful, RowsTruthful
<1>3. \A late \in flying' : late.replayed => late.op \in evident
  <2>1. CASE flying' = flying
    BY <2>1 DEF Truthful, PageTruthful
  <2>2. CASE /\ attempts[w].pc = "execute" /\ attempts[w].row # 0
             /\ flying' = flying \cup {InFlight(w)}
    <3>1. InFlight(w).replayed => InFlight(w).op = journal[attempts[w].row].op /\ attempts[w].job = "replay"
      BY DEF InFlight
    <3>2. InFlight(w).replayed => InFlight(w).op \in evident
      BY <2>2, <3>1 DEF Truthful, AttemptsTruthful, AttemptTruthful
    <3>3. QED
      BY <2>2, <3>2 DEF Truthful, PageTruthful
  <2>3. QED
    BY <2>1, <2>2, TimedOut
<1>4. PageTruthful'
  BY <1>1, <1>3 DEF Truthful, PageTruthful
<1>5. AttemptsTruthful'
  BY <1>2, TimedOut, RestartTruthful
<1>6. QED
  BY <1>2, <1>4, <1>5 DEF Truthful

\* The others' attempts, when none moves.
LEMMA AttemptsWaitTruthful ==
    ASSUME Typed, Truthful, Grows, UNCHANGED attempts
    PROVE  AttemptsTruthful'
<1>1. ASSUME NEW v \in Whose
      PROVE  AttemptTruthful(attempts'[v], journal', evident', submits')
  <2>1. attempts[v] \in AttemptRecord /\ AttemptShape(attempts[v], Len(journal))
    BY DEF Typed, JournalTypeOK, Shapes
  <2>2. AttemptTruthful(attempts[v], journal, evident, submits)
    BY DEF Truthful, AttemptsTruthful
  <2>3. QED
    BY <2>1, <2>2, AttemptStaysTruthful
<1>2. QED
  BY <1>1 DEF AttemptsTruthful

\* A late execution performs its row's action, or repeats one that was.
LEMMA LandLateTruthful ==
    ASSUME Typed, Truthful, LandLate
    PROVE  Truthful'
<1>1. PICK late \in flying :
          /\ IF late.replayed THEN Replayed(late.op) ELSE Performed(late.row, late.op)
          /\ flying' = flying \ {late}
          /\ UNCHANGED <<attempts, submits>>
  BY DEF LandLate
<1>2. late.op \in Ops /\ late.row \in 1..Len(journal)
  BY DEF Typed, JournalTypeOK, Shapes, Execution
<1>3. late.replayed => late.op \in evident
  BY DEF Truthful, PageTruthful
<1>4. Grows /\ RowsTruthful' /\ PageTruthful'
  BY <1>1, <1>2, <1>3, ActionTruthful
<1>5. AttemptsTruthful'
  BY <1>1, <1>4, AttemptsWaitTruthful
<1>6. QED
  BY <1>4, <1>5 DEF Truthful

\* Loading the page, or losing it, shows nothing that is not evident.
LEMMA PageLoadedTruthful ==
    ASSUME Typed, Truthful, UNCHANGED <<journal, evident, submits>>, flying' \subseteq flying,
           page' \in {page, <<>>, <<Start>>, Append(page, Start)}
    PROVE  Grows /\ RowsTruthful' /\ PageTruthful'
<1>1. journal \in Seq(JournalRow) /\ Len(journal) \in Nat /\ page \in Seq(Ops \cup {Start})
  BY DEF Typed, JournalTypeOK
<1>2. Grows /\ RowsTruthful'
  BY <1>1 DEF Grows, Truthful, RowsTruthful
<1>3. \A i \in 1..Len(page') : page'[i] # Start => page'[i] \in evident
  <2>1. CASE page' = page
    BY <2>1 DEF Truthful, PageTruthful
  <2>2. CASE page' = <<>> \/ page' = <<Start>>
    <3>1. CASE page' = <<>>
      <4>1. Len(page') = 0
        BY <3>1, EmptySeq
      <4>2. QED
        BY <4>1
    <3>2. CASE page' = <<Start>>
      <4>1. Len(page') = 1 /\ page'[1] = Start
        BY <3>2
      <4>2. QED
        BY <4>1
    <3>3. QED
      BY <2>2, <3>1, <3>2
  <2>3. CASE page' = Append(page, Start)
    <3>1. /\ Len(page') = Len(page) + 1 /\ page'[Len(page) + 1] = Start /\ Len(page) \in Nat
          /\ \A i \in 1..Len(page) : page'[i] = page[i]
      BY <1>1, <2>3, AppendProperties
    <3>2. \A i \in 1..Len(page') : i \in 1..Len(page) \/ i = Len(page) + 1
      BY <3>1
    <3>3. QED
      BY <3>1, <3>2 DEF Truthful, PageTruthful
  <2>4. QED
    BY <2>1, <2>2, <2>3
<1>4. PageTruthful'
  BY <1>3 DEF Truthful, PageTruthful
<1>5. QED
  BY <1>2, <1>4

\* An attempt that begins.
LEMMA BegunTruthful ==
    ASSUME Typed, Truthful, Grows, NEW next \in AttemptRecord, Put("own", next),
           \/ next.job = "replay" /\ next.pc = "claim"
           \/ next.job = "mutate" /\ next.pc = "record" /\ next.field = 1
    PROVE  AttemptsTruthful'
<1>1. "own" \in Whose /\ attempts'["own"] = next /\ \A v \in Whose \ {"own"} : attempts'[v] = attempts[v]
  BY PutOne DEF Whose
<1>2. AttemptTruthful(attempts'["own"], journal', evident', submits')
  BY <1>1, FreshTruthful
<1>3. QED
  BY <1>1, <1>2, OneAttemptMoves

\* A run that opens its page leaves the records as they are.
LEMMA OpenTruthful ==
    ASSUME Typed, Truthful, NEW answered \in BOOLEAN, OpenWebpage(answered)
    PROVE  Truthful'
<1>1. UNCHANGED <<journal, attempts, evident, submits>>
  BY DEF OpenWebpage
<1>2. page' \in {page, <<Start>>, Append(page, Start)} /\ flying' \subseteq flying
  BY DEF OpenWebpage, Reconnect, Create
<1>3. Grows /\ RowsTruthful' /\ PageTruthful'
  BY <1>1, <1>2, PageLoadedTruthful
<1>4. AttemptsTruthful'
  BY <1>1, <1>3, AttemptsWaitTruthful
<1>5. QED
  BY <1>3, <1>4 DEF Truthful

\* An interrupted replay that is taken back was of an action that is evident.
LEMMA ListTruthful ==
    ASSUME Typed, Truthful, ListBrowserMutationsForReplay
    PROVE  Truthful'
<1>1. /\ UNCHANGED <<attempts, page, flying, evident, submits>>
      /\ journal' = [r \in DOMAIN journal |-> Recovered(journal[r])]
  BY DEF ListBrowserMutationsForReplay, world
<1>2. /\ journal \in Seq(JournalRow) /\ Len(journal) \in Nat /\ DOMAIN journal = 1..Len(journal)
      /\ Len(journal') = Len(journal)
  BY RowsListed DEF Typed, JournalTypeOK
<1>3. ASSUME NEW r \in 1..Len(journal)
      PROVE  /\ journal'[r].op = journal[r].op
             /\ \/ journal'[r].status = journal[r].status /\ journal'[r].on = journal[r].on
                \/ journal[r].on # 0
  <2>1. journal[r] \in JournalRow
    BY <1>2, <1>3, ElementOfSeq
  <2>2. [journal[r] EXCEPT !.status = "applied", !.on = 0].op = journal[r].op
    BY <2>1 DEF JournalRow
  <2>3. journal'[r] = Recovered(journal[r])
    BY <1>1, <1>2, <1>3
  <2>4. QED
    BY <2>2, <2>3 DEF Recovered
<1>4. Grows
  BY <1>1, <1>2, <1>3 DEF Grows
<1>5. RowsTruthful'
  <2>1. \A r \in 1..Len(journal) : journal[r].on # 0 => journal[r].op \in evident
    BY DEF Truthful, RowsTruthful
  <2>2. QED
    BY <1>1, <1>2, <1>3, <2>1, RowsStayTruthful DEF Truthful
<1>6. PageTruthful'
  BY <1>1 DEF Truthful, PageTruthful
<1>7. AttemptsTruthful'
  BY <1>1, <1>4, AttemptsWaitTruthful
<1>8. QED
  BY <1>5, <1>6, <1>7 DEF Truthful

\* Whatever the workflow does, it performs nothing and settles nothing anew.
LEMMA WorkflowTruthful ==
    ASSUME Typed, Truthful, Workflow
    PROVE  Truthful'
<1>1. ASSUME UNCHANGED <<journal, page, flying, evident, submits>>
      PROVE  Grows /\ RowsTruthful' /\ PageTruthful'
  BY <1>1, StoreStepTruthful
<1>2. ASSUME UNCHANGED <<journal, page, flying, evident, submits, attempts>>
      PROVE  Truthful'
  <2>1. Grows /\ RowsTruthful' /\ PageTruthful'
    BY <1>1, <1>2
  <2>2. QED
    BY <1>2, <2>1, AttemptsWaitTruthful DEF Truthful
<1>3. ASSUME NEW newGeneration \in BOOLEAN, BeginRun(newGeneration)
      PROVE  Truthful'
  BY <1>2, <1>3 DEF BeginRun, world
<1>4. ASSUME NEW answered \in BOOLEAN, OpenWebpage(answered)
      PROVE  Truthful'
  BY <1>4, OpenTruthful
<1>5. CASE ListBrowserMutationsForReplay
  BY <1>5, ListTruthful
<1>6. CASE ReplayNext
  <2> DEFINE next == [NoAttempt EXCEPT !.job = "replay", !.pc = "claim",
                                       !.row = Earliest.row, !.try = 1]
  <2>1. UNCHANGED <<journal, page, flying, evident, submits>> /\ Typed'
    BY <1>6, ReplayNextTyped DEF ReplayNext, world
  <2>2. next.job = "replay" /\ next.pc = "claim"
    BY DEF NoAttempt
  <2>3. UNCHANGED attempts \/ Put("own", next)
    BY <1>6 DEF ReplayNext
  <2> HIDE DEF next
  <2>4. CASE UNCHANGED attempts
    BY <1>2, <2>1, <2>4
  <2>5. CASE Put("own", next)
    <3>1. next \in AttemptRecord
      <4>1. "own" \in Whose /\ attempts'["own"] = next
        BY <2>5, PutOne DEF Whose
      <4>2. QED
        BY <2>1, <4>1 DEF Typed, JournalTypeOK
    <3>2. AttemptsTruthful'
      BY <1>1, <2>1, <2>2, <2>5, <3>1, BegunTruthful
    <3>3. QED
      BY <1>1, <2>1, <3>2 DEF Truthful
  <2>6. QED
    BY <2>3, <2>4, <2>5
<1>7. CASE CompleteBrowserReplay \/ Leave
  BY <1>2, <1>7 DEF CompleteBrowserReplay, Leave, world
<1>8. ASSUME NEW kinds \in Calls, StartCall(kinds)
      PROVE  Truthful'
  <2>1. UNCHANGED <<journal, page, flying, evident, submits>> /\ Typed'
    BY <1>8, StartCallTyped DEF StartCall, world
  <2>2. PICK id \in RunIds[run.no] :
            Put("own", [NoAttempt EXCEPT !.job = "mutate", !.pc = "record", !.call = run.calls + 1,
                                         !.id = id, !.kinds = kinds, !.field = 1, !.try = 1])
    BY <1>8 DEF StartCall
  <2> DEFINE next == [NoAttempt EXCEPT !.job = "mutate", !.pc = "record", !.call = run.calls + 1,
                                       !.id = id, !.kinds = kinds, !.field = 1, !.try = 1]
  <2>3. next.job = "mutate" /\ next.pc = "record" /\ next.field = 1 /\ Put("own", next)
    BY <2>2 DEF NoAttempt
  <2> HIDE DEF next
  <2>4. next \in AttemptRecord
    <3>1. "own" \in Whose /\ attempts'["own"] = next
      BY <2>3, PutOne DEF Whose
    <3>2. QED
      BY <2>1, <3>1 DEF Typed, JournalTypeOK
  <2>5. AttemptsTruthful'
    BY <1>1, <2>1, <2>3, <2>4, BegunTruthful
  <2>6. QED
    BY <1>1, <2>1, <2>5 DEF Truthful
<1>9. CASE CancelRun
  <2>1. UNCHANGED <<journal, page, flying, evident, submits>>
    BY <1>9 DEF CancelRun, world
  <2>2. ASSUME NEW v \in Whose
        PROVE  AttemptTruthful(attempts'[v], journal', evident', submits')
    <3>1. CASE attempts'[v] = NoAttempt
      BY <3>1, NoAttemptShape, FreshTruthful DEF NoAttempt, AttemptTruthful
    <3>2. ASSUME NEW w \in Whose, attempts'[v] = attempts[w]
          PROVE  AttemptTruthful(attempts'[v], journal', evident', submits')
      BY <2>1, <3>2 DEF Truthful, AttemptsTruthful
    <3>3. QED
      BY <1>9, <3>1, <3>2, LeftBehind
  <2>3. AttemptsTruthful'
    BY <2>2 DEF AttemptsTruthful
  <2>4. QED
    BY <1>1, <2>1, <2>3 DEF Truthful
<1>10. ASSUME NEW deleted \in BOOLEAN, NEW cleared \in BOOLEAN, CloseBrowser(deleted, cleared)
       PROVE  Truthful'
  <2>1. /\ UNCHANGED <<journal, attempts, evident, submits>>
        /\ page' \in {page, <<>>} /\ flying' \subseteq flying
    BY <1>10 DEF CloseBrowser
  <2>2. Grows /\ RowsTruthful' /\ PageTruthful'
    BY <2>1, PageLoadedTruthful
  <2>3. QED
    BY <2>1, <2>2, AttemptsWaitTruthful DEF Truthful
<1>11. CASE Report
  <2>1. UNCHANGED <<journal, page, flying, evident, submits>> /\ "own" \in Whose
    BY <1>11 DEF Report, world, Whose
  <2>2. attempts["own"].job # "none"
    BY <1>11, <2>1 DEF Report, Typed, Shapes, AttemptShape
  <2>3. Put("own", NoAttempt) \/ Put("own", Retried(attempts["own"]))
    BY <1>11 DEF Report, GiveUp
  <2>4. AttemptsTruthful'
    BY <1>1, <2>1, <2>2, <2>3, RestartTruthful
  <2>5. QED
    BY <1>1, <2>1, <2>4 DEF Truthful
<1>12. QED
  BY <1>3, <1>4, <1>5, <1>6, <1>7, <1>8, <1>9, <1>10, <1>11 DEF Workflow

\* Initially nothing is claimed.
LEMMA InitTruthful ==
    ASSUME Init
    PROVE  Truthful
<1>1. Len(journal) = 0 /\ Len(page) = 0 /\ flying = {}
  BY EmptySeq DEF Init
<1>2. AttemptsTruthful
  BY DEF Init, AttemptsTruthful, AttemptTruthful, NoAttempt
<1>3. QED
  BY <1>1, <1>2 DEF Truthful, RowsTruthful, PageTruthful

\* Every step keeps the journal truthful, if no key stands for two calls.
LEMMA StepTruthful ==
    ASSUME Typed, Truthful, KeysUnambiguous, [Next]_vars
    PROVE  Truthful'
<1>1. CASE Workflow
  BY <1>1, WorkflowTruthful
<1>2. ASSUME NEW w \in Whose, Attempt(w)
      PROVE  Truthful'
  BY <1>2, RecordTruthful, ReconcileTruthful, ExecuteTruthful, SettleTruthful, ClaimTruthful,
     SettleReplayTruthful, TimeoutTruthful DEF Attempt
<1>3. CASE ReportInVain
  <2>1. UNCHANGED <<journal, page, flying, evident, submits>> /\ "left" \in Whose
    BY <1>3 DEF ReportInVain, world, Whose
  <2>2. attempts["left"].job # "none" /\ Put("left", NoAttempt)
    BY <1>3, <2>1 DEF ReportInVain, Typed, Shapes, AttemptShape
  <2>3. Grows /\ RowsTruthful' /\ PageTruthful'
    BY <2>1, StoreStepTruthful
  <2>4. AttemptsTruthful'
    BY <2>1, <2>2, <2>3, RestartTruthful
  <2>5. QED
    BY <2>3, <2>4 DEF Truthful
<1>4. CASE LandLate
  BY <1>4, LandLateTruthful
<1>5. CASE Expire
  <2>1. /\ UNCHANGED <<journal, attempts, evident, submits>>
        /\ page' = <<>> /\ flying' = {}
    BY <1>5 DEF Expire
  <2>2. Grows /\ RowsTruthful' /\ PageTruthful'
    BY <2>1, PageLoadedTruthful
  <2>3. QED
    BY <2>1, <2>2, AttemptsWaitTruthful DEF Truthful
<1>6. CASE UNCHANGED vars
  <2>1. UNCHANGED <<journal, page, flying, evident, submits, attempts>>
    BY <1>6 DEF vars
  <2>2. QED
    BY <2>1, StoreStepTruthful, AttemptsWaitTruthful DEF Truthful
<1>7. QED
  BY <1>1, <1>2, <1>3, <1>4, <1>5, <1>6 DEF Next

\* Where no key ever stands for two calls, the journal, the page and every
\* attempt's account of itself only tell of what was performed, or whose effect a
\* reconciliation found on the page.
THEOREM JournalIsTruthful == Spec /\ []KeysUnambiguous => []Truthful
<1>1. Init => Truthful
  BY InitTruthful
<1>2. Typed /\ Truthful /\ KeysUnambiguous /\ [Next]_vars => Truthful'
  BY StepTruthful
<1>3. QED
  BY <1>1, <1>2, TypingInvariant, PTL DEF Spec

-----------------------------------------------------------------------------
(* Activity IDs start again with every run, and keys are looked up in the   *)
(* row's generation: no key is ambiguous when every run of the application  *)
(* begins a generation of its own, as its first one and explicit retries do *)
(* and the resumption of a paused one does not, and no cancelled run has    *)
(* left an attempt behind.                                                  *)

\* No cancelled run has an attempt that still goes on.
NobodyLeftBehind == attempts["left"].job = "none"

\* A run after the first begins a generation (BeginBrowserReplayGeneration).
FreshGeneration == run'.no # run.no /\ run.no # 0 => session'.gen # session.gen

\* The IDs in a generation are those of its run: each stands for one call, and
\* a field's row for that field.
IdsOfCalls ==
    /\ run.no = 0 => Len(journal) = 0
    /\ \A r \in 1..Len(journal) : journal[r].gen <= session.gen
    /\ \A r \in 1..Len(journal) : journal[r].gen = session.gen =>
           /\ journal[r].key[1] <= run.id
           /\ journal[r].key[2] = journal[r].op[2]
           /\ \A w \in Whose : attempts[w].job = "mutate" /\ attempts[w].id = journal[r].key[1] =>
                  attempts[w].call = journal[r].op[1]
    /\ \A w \in Whose : attempts[w].job = "mutate" => run.phase = "act" /\ attempts[w].id = run.id

\* The calls in hand are calls that were in hand.
AttemptsCarryOn ==
    \A v \in Whose : attempts'[v].job = "mutate" =>
        \E w \in Whose : /\ attempts[w].job = "mutate"
                         /\ attempts'[v].id = attempts[w].id /\ attempts'[v].call = attempts[w].call

\* Rows keep what they are named after, and a new one is named after a call in hand.
RowsCarryOn ==
    \A r \in 1..Len(journal') :
        \/ /\ r \in 1..Len(journal) /\ journal'[r].gen = journal[r].gen
           /\ journal'[r].key = journal[r].key /\ journal'[r].op = journal[r].op
        \/ \E w \in Whose : /\ attempts[w].job = "mutate" /\ journal'[r].gen = session.gen
                            /\ journal'[r].key = <<attempts[w].id, attempts[w].field>>
                            /\ journal'[r].op = Op(w)

\* As long as no call and no run starts, IDs go on to stand for the calls they
\* stood for.
LEMMA IdsCarryOn ==
    ASSUME Typed, Typed', NobodyLeftBehind, IdsOfCalls, AttemptsCarryOn, RowsCarryOn,
           run'.no = run.no, run'.id = run.id, session'.gen = session.gen,
           \A w \in Whose : attempts'[w].job = "mutate" => run'.phase = "act"
    PROVE  IdsOfCalls'
<1>1. run.id \in Nat /\ session.gen \in Nat
  BY DEF Typed, JournalTypeOK, RunRecord, SessionRow
<1>2. ASSUME NEW w \in Whose, attempts'[w].job = "mutate"
      PROVE  run'.phase = "act" /\ attempts'[w].id = run'.id
  BY <1>2 DEF AttemptsCarryOn, IdsOfCalls
<1>3. ASSUME NEW u \in Whose, attempts[u].job = "mutate"
      PROVE  run.no # 0 /\ attempts[u].id = run.id
  BY <1>3 DEF IdsOfCalls, Typed, Shapes
<1>4. ASSUME NEW r \in 1..Len(journal')
      PROVE  /\ run'.no # 0
             /\ journal'[r].gen <= session'.gen
             /\ journal'[r].gen = session'.gen =>
                    /\ journal'[r].key[1] <= run'.id
                    /\ journal'[r].key[2] = journal'[r].op[2]
                    /\ \A w \in Whose : attempts'[w].job = "mutate" /\ attempts'[w].id = journal'[r].key[1] =>
                           attempts'[w].call = journal'[r].op[1]
  <2>1. CASE /\ r \in 1..Len(journal) /\ journal'[r].gen = journal[r].gen
             /\ journal'[r].key = journal[r].key /\ journal'[r].op = journal[r].op
    <3>1. run'.no # 0
      <4>1. Len(journal) # 0
        BY <2>1 DEF Typed, JournalTypeOK
      <4>2. QED
        BY <4>1 DEF IdsOfCalls
    <3>2. QED
      BY <2>1, <3>1 DEF IdsOfCalls, AttemptsCarryOn
  <2>2. ASSUME NEW u \in Whose, attempts[u].job = "mutate", journal'[r].gen = session.gen,
               journal'[r].key = <<attempts[u].id, attempts[u].field>>, journal'[r].op = Op(u)
        PROVE  /\ run'.no # 0
               /\ journal'[r].gen <= session'.gen
               /\ journal'[r].key[1] <= run'.id
               /\ journal'[r].key[2] = journal'[r].op[2]
               /\ \A w \in Whose : attempts'[w].job = "mutate" /\ attempts'[w].id = journal'[r].key[1] =>
                      attempts'[w].call = journal'[r].op[1]
    <3>1. run.no # 0 /\ attempts[u].id = run.id
      BY <1>3, <2>2
    <3>2. \A w \in Whose : attempts[w].job = "mutate" => attempts[w].call = attempts[u].call
      BY <2>2 DEF NobodyLeftBehind, Whose
    <3>3. QED
      BY <1>1, <2>2, <3>1, <3>2 DEF AttemptsCarryOn, Op
  <2>3. QED
    BY <2>1, <2>2 DEF RowsCarryOn
<1>5. run'.no = 0 => Len(journal') = 0
  <2>1. Len(journal') \in Nat
    BY DEF Typed, JournalTypeOK
  <2>2. ASSUME Len(journal') # 0
        PROVE  run'.no # 0
    <3>1. 1 \in 1..Len(journal')
      BY <2>1, <2>2
    <3>2. QED
      BY <1>4, <3>1
  <2>3. QED
    BY <2>2
<1>6. QED
  BY <1>2, <1>4, <1>5 DEF IdsOfCalls

\* One attempt moves on with its call, or without one.
LEMMA PutCarriesOn ==
    ASSUME Typed, NEW w \in Whose, NEW next, Put(w, next),
           next.job = "mutate" =>
               attempts[w].job = "mutate" /\ next.id = attempts[w].id /\ next.call = attempts[w].call
    PROVE  AttemptsCarryOn
BY PutOne DEF AttemptsCarryOn

\* The end of a field leaves the call as it is.
LEMMA FieldOverCarriesOn ==
    ASSUME Typed, NEW w \in Whose, NEW error, FieldOver(w, error)
    PROVE  AttemptsCarryOn
<1>1. attempts[w] \in AttemptRecord
  BY DEF Typed, JournalTypeOK
<1>2. ASSUME NEW next, Put(w, next), next.job = attempts[w].job,
             next.id = attempts[w].id, next.call = attempts[w].call
      PROVE  AttemptsCarryOn
  BY <1>2, PutCarriesOn
<1>3. PICK errors : \/ Put(w, [attempts[w] EXCEPT !.pc = "report", !.errors = errors])
                    \/ Put(w, [attempts[w] EXCEPT !.pc = "record", !.errors = errors,
                                                  !.field = @ + 1, !.row = 0, !.outcome = "none"])
  BY Zenon DEF FieldOver
<1>4. QED
  BY <1>1, <1>2, <1>3 DEF AttemptRecord

\* An attempt that starts over or ends.
LEMMA RestartCarriesOn ==
    ASSUME Typed, NEW w \in Whose, Put(w, NoAttempt) \/ Put(w, Retried(attempts[w]))
    PROVE  AttemptsCarryOn
<1>1. attempts[w] \in AttemptRecord
  BY DEF Typed, JournalTypeOK
<1>2. NoAttempt.job # "mutate"
  BY DEF NoAttempt
<1>3. /\ Retried(attempts[w]).job = attempts[w].job /\ Retried(attempts[w]).id = attempts[w].id
      /\ Retried(attempts[w]).call = attempts[w].call
  BY <1>1 DEF Retried, AttemptRecord
<1>4. QED
  BY <1>2, <1>3, PutCarriesOn

\* Neither a status nor an execution changes what a row is named after.
LEMMA NamesKept ==
    ASSUME Typed, NEW row \in 1..Len(journal),
           \/ \E status \in Statuses, on \in Nat : SetStatus(row, status, on)
           \/ \E op : Performed(row, op)
    PROVE  RowsCarryOn
<1>1. journal \in Seq(JournalRow) /\ journal[row] \in JournalRow
  BY ElementOfSeq DEF Typed, JournalTypeOK
<1>2. ASSUME NEW updated, journal' = [journal EXCEPT ![row] = updated], Len(journal') = Len(journal),
             updated.key = journal[row].key, updated.op = journal[row].op, updated.gen = journal[row].gen
      PROVE  RowsCarryOn
  <2>1. \A r \in 1..Len(journal) : journal'[r] = IF r = row THEN updated ELSE journal[r]
    BY <1>1, <1>2
  <2>2. QED
    BY <1>2, <2>1 DEF RowsCarryOn
<1>3. ASSUME NEW status \in Statuses, NEW on \in Nat, SetStatus(row, status, on)
      PROVE  RowsCarryOn
  <2> DEFINE updated == [journal[row] EXCEPT !.status = status, !.on = on]
  <2>1. updated.key = journal[row].key /\ updated.op = journal[row].op /\ updated.gen = journal[row].gen
    BY <1>1 DEF JournalRow
  <2>2. journal' = [journal EXCEPT ![row] = updated]
    BY <1>3 DEF SetStatus
  <2> HIDE DEF updated
  <2>3. Len(journal') = Len(journal)
    BY <1>1, <1>3, StatusSet
  <2>4. QED
    BY <1>2, <2>1, <2>2, <2>3
<1>4. ASSUME NEW op, Performed(row, op)
      PROVE  RowsCarryOn
  <2> DEFINE updated == [journal[row] EXCEPT !.done = journal[row].done + 1]
  <2>1. updated.key = journal[row].key /\ updated.op = journal[row].op /\ updated.gen = journal[row].gen
    BY <1>1 DEF JournalRow
  <2>2. journal' = [journal EXCEPT ![row] = updated]
    BY <1>4 DEF Performed
  <2> HIDE DEF updated
  <2>3. Len(journal') = Len(journal)
    BY <1>1, <1>4, RowPerformed
  <2>4. QED
    BY <1>2, <2>1, <2>2, <2>3
<1>5. QED
  BY <1>3, <1>4

\* A run that begins a generation finds no row in it.
LEMMA BeginRunIds ==
    ASSUME Typed, Typed', NobodyLeftBehind, IdsOfCalls, FreshGeneration,
           NEW newGeneration \in BOOLEAN, BeginRun(newGeneration)
    PROVE  IdsOfCalls'
<1>1. /\ run \in RunRecord /\ run.no \in Nat /\ session \in SessionRow /\ session.gen \in Nat
      /\ journal \in Seq(JournalRow) /\ Len(journal) \in Nat
  BY BoundsAreNatural DEF Typed, JournalTypeOK, RunRecord, SessionRow
<1>2. /\ UNCHANGED <<journal, attempts>> /\ run.phase = "idle"
      /\ run'.no = run.no + 1 /\ (session'.gen = session.gen \/ session'.gen = session.gen + 1)
  BY <1>1 DEF BeginRun, RunRecord, SessionRow
<1>3. \A w \in Whose : attempts[w].job # "mutate"
  BY <1>2 DEF IdsOfCalls
<1>4. run'.no # 0 /\ run'.no # run.no
  BY <1>1, <1>2
<1>5. ASSUME NEW r \in 1..Len(journal)
      PROVE  journal[r].gen <= session'.gen /\ journal[r].gen # session'.gen
  <2>1. run.no # 0
    BY <1>1 DEF IdsOfCalls
  <2>2. session'.gen = session.gen + 1
    BY <1>2, <1>4, <2>1 DEF FreshGeneration
  <2>3. journal[r].gen <= session.gen /\ journal[r].gen \in Nat
    <3>1. journal[r] \in JournalRow
      BY <1>1, ElementOfSeq
    <3>2. QED
      BY <3>1 DEF IdsOfCalls, JournalRow
  <2>4. QED
    BY <1>1, <2>2, <2>3
<1>6. QED
  BY <1>2, <1>3, <1>4, <1>5 DEF IdsOfCalls

\* A call that starts gets an ID that no call of the run has had.
LEMMA StartCallIds ==
    ASSUME Typed, NobodyLeftBehind, IdsOfCalls, NEW kinds \in Calls, StartCall(kinds)
    PROVE  IdsOfCalls'
<1>1. PICK id \in RunIds[run.no] :
          /\ id > run.id
          /\ run' = [run EXCEPT !.calls = @ + 1, !.id = id]
          /\ Put("own", [NoAttempt EXCEPT !.job = "mutate", !.pc = "record", !.call = run.calls + 1,
                                          !.id = id, !.kinds = kinds, !.field = 1, !.try = 1])
  BY DEF StartCall
<1>2. /\ run \in RunRecord /\ run.no \in 1..MaxRuns /\ run.no \in Nat /\ run.id \in Nat
      /\ run.phase = "act"
  <2>1. run \in RunRecord /\ run.no # 0 /\ MaxRuns \in Nat
    BY BoundsAreNatural DEF Typed, JournalTypeOK, Shapes, StartCall
  <2>2. QED
    BY <2>1 DEF RunRecord, StartCall
<1>3. id \in Nat
  BY <1>1, <1>2, JournalAssumption
<1>4. run'.no = run.no /\ run'.id = id /\ run'.phase = "act"
  BY <1>1, <1>2 DEF RunRecord
<1>5. /\ attempts'["own"].id = id /\ attempts'["left"].job # "mutate"
      /\ \A w \in Whose : w = "own" \/ w = "left"
  <2>1. NoAttempt \in AttemptRecord /\ "own" \in Whose /\ "left" \in Whose \ {"own"}
    BY NoAttemptShape DEF Whose
  <2>2. attempts'["own"] = [NoAttempt EXCEPT !.job = "mutate", !.pc = "record", !.call = run.calls + 1,
                                !.id = id, !.kinds = kinds, !.field = 1, !.try = 1]
    BY <1>1, <2>1, PutOne
  <2>3. attempts'["own"].id = id
    BY <2>2 DEF NoAttempt
  <2>4. attempts'["left"] = attempts["left"]
    BY <1>1, <2>1, PutOne
  <2>5. QED
    BY <2>3, <2>4 DEF Whose, NobodyLeftBehind
<1>6. UNCHANGED <<journal, session>>
  BY DEF StartCall
<1>7. ASSUME NEW r \in 1..Len(journal), journal[r].gen = session.gen
      PROVE  journal[r].key[1] <= id /\ journal[r].key[1] # id
  <2>1. journal[r] \in JournalRow
    BY ElementOfSeq DEF Typed, JournalTypeOK
  <2>2. journal[r].key[1] \in Nat /\ journal[r].key[1] <= run.id
    BY <1>7, <2>1 DEF IdsOfCalls, JournalRow
  <2>3. QED
    BY <1>1, <1>2, <1>3, <2>2
<1>8. QED
  BY <1>4, <1>5, <1>6, <1>7 DEF IdsOfCalls

\* The workflow's other steps go on with the calls and the rows there are.
LEMMA WorkflowIds ==
    ASSUME Typed, Typed', NobodyLeftBehind, NobodyLeftBehind', IdsOfCalls, FreshGeneration, Workflow
    PROVE  IdsOfCalls'
<1>1. run \in RunRecord /\ session \in SessionRow /\ Whose = {"own", "left"}
  BY DEF Typed, JournalTypeOK, Whose
<1>2. UNCHANGED journal => RowsCarryOn
  BY DEF RowsCarryOn
<1>3. UNCHANGED attempts => AttemptsCarryOn
  BY DEF AttemptsCarryOn
<1>4. ASSUME NEW newGeneration \in BOOLEAN, BeginRun(newGeneration)
      PROVE  IdsOfCalls'
  BY <1>4, BeginRunIds
<1>5. ASSUME NEW kinds \in Calls, StartCall(kinds)
      PROVE  IdsOfCalls'
  BY <1>5, StartCallIds
<1>6. ASSUME AttemptsCarryOn, RowsCarryOn, session'.gen = session.gen,
             run'.no = run.no, run'.id = run.id, run' = run \/ attempts'["own"].job # "mutate"
      PROVE  IdsOfCalls'
  <2>1. attempts'["left"].job # "mutate"
    BY DEF NobodyLeftBehind
  <2>2. \A w \in Whose : attempts'[w].job = "mutate" => w = "own" /\ run' = run
    BY <1>1, <1>6, <2>1
  <2>3. \A w \in Whose : attempts'[w].job = "mutate" => run.phase = "act"
    BY <1>6 DEF AttemptsCarryOn, IdsOfCalls
  <2>4. \A w \in Whose : attempts'[w].job = "mutate" => run'.phase = "act"
    BY <2>2, <2>3
  <2>5. QED
    BY <1>6, <2>4, IdsCarryOn
<1>7. ASSUME NEW phase, run' = [run EXCEPT !.phase = phase]
      PROVE  run'.no = run.no /\ run'.id = run.id
  BY <1>1, <1>7 DEF RunRecord
<1>8. ASSUME NEW tries, run' = [run EXCEPT !.tries = tries]
      PROVE  run'.no = run.no /\ run'.id = run.id
  BY <1>1, <1>8 DEF RunRecord
<1>9. run.phase # "act" => attempts["own"].job # "mutate"
  BY <1>1 DEF IdsOfCalls
<1>10. ASSUME NEW answered \in BOOLEAN, OpenWebpage(answered)
       PROVE  IdsOfCalls'
  <2>1. session'.gen = session.gen
    BY <1>1, <1>10 DEF OpenWebpage, Reconnect, Create, SessionRow
  <2>2. UNCHANGED <<journal, attempts>> /\ attempts["own"].job # "mutate"
    BY <1>9, <1>10 DEF OpenWebpage
  <2>3. run'.no = run.no /\ run'.id = run.id
    BY <1>7, <1>8, <1>10 DEF OpenWebpage
  <2>4. QED
    BY <1>2, <1>3, <1>6, <2>1, <2>2, <2>3
<1>11. CASE ListBrowserMutationsForReplay
  <2>1. ASSUME NEW r \in 1..Len(journal)
        PROVE  /\ journal'[r].key = journal[r].key /\ journal'[r].op = journal[r].op
               /\ journal'[r].gen = journal[r].gen
    <3>1. journal \in Seq(JournalRow) /\ DOMAIN journal = 1..Len(journal) /\ journal[r] \in JournalRow
      BY ElementOfSeq, LenProperties DEF Typed, JournalTypeOK
    <3>2. /\ [journal[r] EXCEPT !.status = "applied", !.on = 0].op = journal[r].op
          /\ [journal[r] EXCEPT !.status = "applied", !.on = 0].key = journal[r].key
          /\ [journal[r] EXCEPT !.status = "applied", !.on = 0].gen = journal[r].gen
      BY <3>1 DEF JournalRow
    <3>3. journal'[r] = Recovered(journal[r])
      BY <1>11, <3>1 DEF ListBrowserMutationsForReplay
    <3>4. QED
      BY <3>2, <3>3 DEF Recovered
  <2>2. RowsCarryOn
    BY <1>11, <2>1, RowsListed DEF RowsCarryOn, Typed
  <2>3. /\ UNCHANGED <<attempts, session>> /\ run.phase = "list"
        /\ run' = [run EXCEPT !.phase = "replay"]
    BY <1>11 DEF ListBrowserMutationsForReplay
  <2>4. attempts'["own"].job # "mutate"
    BY <1>9, <2>3
  <2>5. QED
    BY <1>3, <1>6, <1>7, <2>2, <2>3, <2>4
<1>12. CASE ReplayNext
  <2>1. UNCHANGED <<journal, session>> /\ "own" \in Whose /\ run.phase = "replay"
    BY <1>12 DEF ReplayNext, Whose
  <2>2. [NoAttempt EXCEPT !.job = "replay", !.pc = "claim", !.row = Earliest.row, !.try = 1].job = "replay"
    BY DEF NoAttempt
  <2>3. AttemptsCarryOn
    BY <1>3, <1>12, <2>1, <2>2, PutCarriesOn DEF ReplayNext
  <2>4. run' = run \/ (run' = [run EXCEPT !.phase = "ending"] /\ UNCHANGED attempts)
    BY <1>12 DEF ReplayNext
  <2>5. run'.no = run.no /\ run'.id = run.id
    BY <1>7, <2>4
  <2>6. run' = run \/ attempts'["own"].job # "mutate"
    BY <1>9, <2>1, <2>4
  <2>7. QED
    BY <1>2, <1>6, <2>1, <2>3, <2>5, <2>6
<1>13. CASE CompleteBrowserReplay
  <2>1. /\ UNCHANGED <<journal, attempts>> /\ run.phase = "replay"
        /\ session'.gen = session.gen /\ run' = [run EXCEPT !.phase = "act"]
    BY <1>1, <1>13 DEF CompleteBrowserReplay, SessionRow
  <2>2. QED
    BY <1>2, <1>3, <1>6, <1>7, <1>9, <2>1
<1>14. CASE Leave
  <2>1. /\ UNCHANGED <<journal, attempts, session>> /\ attempts["own"].job = "none"
        /\ run' = [run EXCEPT !.phase = "ending"]
    BY <1>14 DEF Leave
  <2>2. QED
    BY <1>2, <1>3, <1>6, <1>7, <2>1
<1>15. CASE CancelRun
  <2>1. UNCHANGED <<journal, session>> /\ run' = [run EXCEPT !.phase = "ending"]
    BY <1>15 DEF CancelRun
  <2>2. UNCHANGED attempts /\ attempts["own"].job = "none"
    <3>1. attempts["own"].job = "none"
      <4>1. attempts["own"].job # "none" => attempts'["left"] = attempts["own"]
        BY <1>1, <1>15 DEF CancelRun, Typed, JournalTypeOK
      <4>2. QED
        BY <4>1 DEF NobodyLeftBehind
    <3>2. QED
      BY <1>15, <3>1 DEF CancelRun
  <2>3. QED
    BY <1>2, <1>3, <1>6, <1>7, <2>1, <2>2
<1>16. ASSUME NEW deleted \in BOOLEAN, NEW cleared \in BOOLEAN, CloseBrowser(deleted, cleared)
       PROVE  IdsOfCalls'
  <2>1. /\ UNCHANGED <<journal, attempts>> /\ run.phase = "ending"
        /\ session'.gen = session.gen /\ run' = [run EXCEPT !.phase = "idle"]
    BY <1>1, <1>16 DEF CloseBrowser, SessionRow
  <2>2. QED
    BY <1>2, <1>3, <1>6, <1>7, <1>9, <2>1
<1>17. CASE Report
  <2>1. UNCHANGED <<journal, session>> /\ "own" \in Whose
    BY <1>17 DEF Report, Whose
  <2>2. AttemptsCarryOn
    BY <1>17, <2>1, RestartCarriesOn DEF Report, GiveUp
  <2>3. run' = run \/ (run' = [run EXCEPT !.phase = "ending"] /\ Put("own", NoAttempt))
    BY <1>17 DEF Report, GiveUp
  <2>4. Put("own", NoAttempt) => attempts'["own"].job # "mutate"
    <3>1. attempts["own"] \in AttemptRecord /\ NoAttempt.job # "mutate"
      BY <2>1 DEF Typed, JournalTypeOK, NoAttempt
    <3>2. ASSUME Put("own", NoAttempt)
          PROVE  attempts'["own"] = NoAttempt
      BY <2>1, <3>2, PutOne
    <3>3. QED
      BY <3>1, <3>2
  <2>5. run'.no = run.no /\ run'.id = run.id
    BY <1>7, <2>3
  <2>6. run' = run \/ attempts'["own"].job # "mutate"
    BY <2>3, <2>4
  <2>7. QED
    BY <1>2, <1>6, <2>1, <2>2, <2>5, <2>6
<1>18. QED
  BY <1>4, <1>5, <1>10, <1>11, <1>12, <1>13, <1>14, <1>15, <1>16, <1>17 DEF Workflow

\* An attempt goes on with its own call, and names a row it adds after it.
LEMMA AttemptIds ==
    ASSUME Typed, NEW w \in Whose, Attempt(w)
    PROVE  AttemptsCarryOn /\ RowsCarryOn
<1>1. UNCHANGED journal => RowsCarryOn
  BY DEF RowsCarryOn
<1>2. ASSUME NEW next, Put(w, next), next.job = attempts[w].job, next.id = attempts[w].id,
             next.call = attempts[w].call
      PROVE  AttemptsCarryOn
  BY <1>2, PutCarriesOn
<1>3. attempts[w] \in AttemptRecord /\ journal \in Seq(JournalRow) /\ Len(journal) \in Nat
  BY DEF Typed, JournalTypeOK
<1>4. \A pc, row, on, outcome, errors :
          /\ Put(w, [attempts[w] EXCEPT !.pc = pc]) => AttemptsCarryOn
          /\ Put(w, [attempts[w] EXCEPT !.pc = pc, !.row = row]) => AttemptsCarryOn
          /\ Put(w, [attempts[w] EXCEPT !.pc = pc, !.on = on]) => AttemptsCarryOn
          /\ Put(w, [attempts[w] EXCEPT !.pc = pc, !.outcome = outcome]) => AttemptsCarryOn
          /\ Put(w, [attempts[w] EXCEPT !.pc = pc, !.errors = errors]) => AttemptsCarryOn
  BY <1>2, <1>3 DEF AttemptRecord
<1>5. ASSUME Record(w)
      PROVE  AttemptsCarryOn /\ RowsCarryOn
  <2> DEFINE key == <<attempts[w].id, attempts[w].field>>
             added == [key |-> key, gen |-> session.gen, op |-> Op(w), kind |-> Kind(w),
                       status |-> "pending", on |-> 0, done |-> 0]
  <2>1. attempts[w].job = "mutate"
    BY <1>5 DEF Record, At
  <2>2. AttemptsCarryOn
    BY <1>4, <1>5, FieldOverCarriesOn DEF Record
  <2>3. ASSUME journal' = Append(journal, added)
        PROVE  RowsCarryOn
    <3>1. added \in JournalRow /\ added.key = key /\ added.op = Op(w) /\ added.gen = session.gen
      <4>1. session.gen \in Nat /\ "pending" \in Statuses
        BY DEF Typed, JournalTypeOK, SessionRow, Statuses
      <4>2. key \in Nat \X Nat /\ Op(w) \in Ops /\ Kind(w) \in Kinds
        BY <2>1, OpTyped
      <4>3. QED
        BY <4>1, <4>2 DEF JournalRow
    <3> HIDE DEF added
    <3>2. /\ Len(journal') = Len(journal) + 1 /\ journal'[Len(journal) + 1] = added
          /\ \A r \in 1..Len(journal) : journal'[r] = journal[r]
          /\ \A r \in 1..Len(journal') : r \in 1..Len(journal) \/ r = Len(journal) + 1
      BY <1>3, <2>3, <3>1, AppendProperties
    <3>3. QED
      BY <2>1, <3>1, <3>2 DEF RowsCarryOn
  <2>4. ASSUME NEW row \in RowsOf(key), SetStatus(row, "pending", 0)
        PROVE  RowsCarryOn
    <3>1. row \in 1..Len(journal)
      BY <1>3, LenProperties DEF RowsOf
    <3>2. QED
      BY <2>4, <3>1, NamesKept DEF Statuses
  <2>5. RowsCarryOn
    BY <1>1, <1>5, <2>3, <2>4 DEF Record
  <2>6. QED
    BY <2>2, <2>5
<1>6. ASSUME attempts[w].job # "none", attempts[w].pc \in {"reconcile", "settle", "claim"},
             NEW status \in Statuses, NEW on \in Nat, SetStatus(attempts[w].row, status, on)
      PROVE  RowsCarryOn
  <2>1. attempts[w].row \in 1..Len(journal)
    <3>1. attempts[w].pc = "claim" => attempts[w].job = "replay"
      BY <1>3, <1>6, RowInHand DEF AttemptShape, AttemptRecord
    <3>2. QED
      BY <1>6, <3>1, RowInHand
  <2>2. QED
    BY <1>6, <2>1, NamesKept
<1>7. ASSUME Reconcile(w)
      PROVE  AttemptsCarryOn /\ RowsCarryOn
  <2>1. AttemptsCarryOn
    BY <1>7, FieldOverCarriesOn DEF Reconcile
  <2>2. attempts[w].job # "none" /\ attempts[w].pc = "reconcile"
    BY <1>7 DEF Reconcile, At
  <2>3. UNCHANGED journal \/ SetStatus(attempts[w].row, "applied", 0)
    BY <1>7 DEF Reconcile
  <2>4. QED
    BY <1>1, <1>6, <2>1, <2>2, <2>3 DEF Statuses
<1>8. ASSUME NEW outcome \in {"done", "refused", "uncertain"}, NEW lands \in BOOLEAN,
             Execute(w, outcome, lands)
      PROVE  AttemptsCarryOn /\ RowsCarryOn
  <2>1. AttemptsCarryOn
    BY <1>4, <1>8, FieldOverCarriesOn DEF Execute
  <2>2. RowsCarryOn
    BY <1>1, <1>8, ExecutedRow, NamesKept
  <2>3. QED
    BY <2>1, <2>2
<1>9. ASSUME NEW stored \in BOOLEAN, Settle(w, stored)
      PROVE  AttemptsCarryOn /\ RowsCarryOn
  <2>1. AttemptsCarryOn
    BY <1>9, FieldOverCarriesOn DEF Settle
  <2>2. attempts[w].job # "none" /\ attempts[w].pc = "settle"
    BY <1>9 DEF Settle, At
  <2>3. UNCHANGED journal \/ SetStatus(attempts[w].row, Settlement(attempts[w].outcome), 0)
    BY <1>9 DEF Settle
  <2>4. Settlement(attempts[w].outcome) \in Statuses
    BY DEF Settlement, Statuses
  <2>5. QED
    BY <1>1, <1>6, <2>1, <2>2, <2>3, <2>4
<1>10. ASSUME Claim(w)
       PROVE  AttemptsCarryOn /\ RowsCarryOn
  <2>1. AttemptsCarryOn
    BY <1>4, <1>10 DEF Claim, Fail, Goto
  <2>2. attempts[w].job # "none" /\ attempts[w].pc = "claim"
    BY <1>10 DEF Claim, At
  <2>3. session.id \in Nat /\ "pending" \in Statuses
    BY DEF Typed, JournalTypeOK, SessionRow, Statuses
  <2>4. UNCHANGED journal \/ SetStatus(attempts[w].row, "pending", session.id)
    BY <1>10 DEF Claim
  <2>5. QED
    BY <1>1, <1>6, <2>1, <2>2, <2>3, <2>4
<1>11. ASSUME NEW stored \in BOOLEAN, SettleReplay(w, stored)
       PROVE  AttemptsCarryOn /\ RowsCarryOn
  <2>1. AttemptsCarryOn
    <3>1. Fail(w) \/ Goto(w, "report")
      BY <1>11 DEF SettleReplay
    <3>2. QED
      BY <1>4, <3>1 DEF Fail, Goto
  <2>2. attempts[w].job # "none" /\ attempts[w].pc = "settle" /\ attempts[w].on \in Nat
    BY <1>3, <1>11 DEF SettleReplay, At, AttemptRecord
  <2>3. UNCHANGED journal \/ \E status \in Statuses : SetStatus(attempts[w].row, status, attempts[w].on)
    BY <1>11 DEF SettleReplay, Statuses
  <2>4. QED
    BY <1>1, <1>6, <2>1, <2>2, <2>3
<1>12. ASSUME NEW inFlight \in BOOLEAN, Timeout(w, inFlight)
       PROVE  AttemptsCarryOn /\ RowsCarryOn
  <2>1. UNCHANGED journal
    BY <1>12 DEF Timeout
  <2>2. AttemptsCarryOn
    BY <1>12, TimedOut, RestartCarriesOn
  <2>3. QED
    BY <1>1, <2>1, <2>2
<1>13. QED
  BY <1>5, <1>7, <1>8, <1>9, <1>10, <1>11, <1>12 DEF Attempt

\* Every step leaves an ID to the call that got it.
LEMMA StepIds ==
    ASSUME Typed, NobodyLeftBehind, NobodyLeftBehind', IdsOfCalls, [FreshGeneration]_vars, [Next]_vars
    PROVE  IdsOfCalls'
<1>1. Typed'
  BY StepTyped
<1>2. run \in RunRecord /\ Whose = {"own", "left"}
  BY DEF Typed, JournalTypeOK, Whose
<1>3. UNCHANGED journal => RowsCarryOn
  BY DEF RowsCarryOn
<1>4. UNCHANGED attempts => AttemptsCarryOn
  BY DEF AttemptsCarryOn
<1>5. ASSUME AttemptsCarryOn, RowsCarryOn, UNCHANGED <<run, session>>
      PROVE  IdsOfCalls'
  <2>1. \A w \in Whose : attempts'[w].job = "mutate" => run'.phase = "act"
    BY <1>5 DEF AttemptsCarryOn, IdsOfCalls
  <2>2. QED
    BY <1>1, <1>5, <2>1, IdsCarryOn
<1>6. CASE UNCHANGED vars
  BY <1>3, <1>4, <1>5, <1>6 DEF vars
<1>7. CASE Workflow /\ ~UNCHANGED vars
  BY <1>1, <1>7, WorkflowIds
<1>8. ASSUME NEW w \in Whose, Attempt(w)
      PROVE  IdsOfCalls'
  <2>1. AttemptsCarryOn /\ RowsCarryOn
    BY <1>8, AttemptIds
  <2>2. UNCHANGED session
    BY <1>8 DEF Attempt, Record, Reconcile, Execute, Settle, Claim, SettleReplay, Timeout
  <2>3. run' = run \/ (run' = [run EXCEPT !.phase = "ending"] /\ Put("own", NoAttempt))
    BY <1>8 DEF Attempt, Record, Reconcile, Execute, Settle, Claim, SettleReplay, Timeout, GiveUp
  <2>4. CASE run' = [run EXCEPT !.phase = "ending"] /\ Put("own", NoAttempt)
    <3>1. attempts'["own"].job # "mutate" /\ attempts'["left"].job # "mutate"
      BY <1>2, <2>4, PutOne DEF NoAttempt, NobodyLeftBehind
    <3>2. run'.no = run.no /\ run'.id = run.id
      BY <1>2, <2>4 DEF RunRecord
    <3>3. QED
      BY <1>1, <1>2, <2>1, <2>2, <3>1, <3>2, IdsCarryOn
  <2>5. QED
    BY <1>5, <2>1, <2>2, <2>3, <2>4
<1>9. CASE ReportInVain
  <2>1. UNCHANGED <<journal, run, session>> /\ "left" \in Whose /\ Put("left", NoAttempt)
    BY <1>9 DEF ReportInVain, Whose
  <2>2. AttemptsCarryOn
    BY <2>1, RestartCarriesOn
  <2>3. QED
    BY <1>3, <1>5, <2>1, <2>2
<1>10. CASE LandLate
  <2>1. UNCHANGED <<attempts, run, session>>
    BY <1>10 DEF LandLate
  <2>2. PICK late \in flying : IF late.replayed THEN Replayed(late.op) ELSE Performed(late.row, late.op)
    BY <1>10 DEF LandLate
  <2>3. late.row \in 1..Len(journal)
    BY DEF Typed, Shapes
  <2>4. RowsCarryOn
    BY <1>3, <2>2, <2>3, NamesKept DEF Replayed
  <2>5. QED
    BY <1>4, <1>5, <2>1, <2>4
<1>11. CASE Expire
  BY <1>3, <1>4, <1>5, <1>11 DEF Expire
<1>12. QED
  BY <1>6, <1>7, <1>8, <1>9, <1>10, <1>11 DEF Next

\* In a generation the IDs name the calls apart.
LEMMA IdsNameCalls ==
    ASSUME Typed, IdsOfCalls
    PROVE  KeysUnambiguous
<1>1. SUFFICES ASSUME NEW w \in Whose, At(w, "mutate", "record"),
                      NEW row \in RowsOf(<<attempts[w].id, attempts[w].field>>)
               PROVE  journal[row].op = Op(w)
  BY DEF KeysUnambiguous
<1>2. /\ journal \in Seq(JournalRow) /\ row \in 1..Len(journal)
      /\ journal[row].key = <<attempts[w].id, attempts[w].field>> /\ journal[row].gen = session.gen
  BY <1>1, LenProperties DEF Typed, JournalTypeOK, RowsOf
<1>3. journal[row].op \in Ops
  <2>1. journal[row] \in JournalRow
    BY <1>2, ElementOfSeq
  <2>2. QED
    BY <2>1 DEF JournalRow
<1>4. journal[row].op[1] = attempts[w].call /\ journal[row].op[2] = attempts[w].field
  BY <1>1, <1>2 DEF IdsOfCalls, At
<1>5. QED
  BY <1>3, <1>4 DEF Ops, Op

\* Where every run of the application begins its own generation, as its first run
\* and its explicit retries do, and no cancelled run leaves an attempt behind, the
\* key of a mutation is never the key of another call's, although activity IDs
\* start again with every run (the activity ID in idempotency_key).
THEOREM FreshGenerationsKeepKeysApart ==
    Spec /\ [][FreshGeneration]_vars /\ []NobodyLeftBehind => []KeysUnambiguous
<1>1. Init => IdsOfCalls
  <2>1. SUFFICES ASSUME Init
                 PROVE  IdsOfCalls
    OBVIOUS
  <2>2. Len(journal) = 0 /\ \A w \in Whose : attempts[w].job = "none"
    BY <2>1, EmptySeq DEF Init, NoAttempt
  <2>3. QED
    BY <2>2 DEF IdsOfCalls
<1>2. /\ Typed /\ IdsOfCalls /\ NobodyLeftBehind /\ NobodyLeftBehind'
      /\ [FreshGeneration]_vars /\ [Next]_vars
      => IdsOfCalls'
  BY StepIds
<1>3. Typed /\ IdsOfCalls => KeysUnambiguous
  BY IdsNameCalls
<1>4. QED
  BY <1>1, <1>2, <1>3, TypingInvariant, PTL DEF Spec

\* A row is applied only if its action was performed, or its effect found on the
\* page after an outcome was lost, where no key stands for two calls
\* (MarkBrowserMutationApplied, reconcileBrowserMutation).
THEOREM AppliedRowsWereDone == Spec /\ []KeysUnambiguous => []AppliedWasDone
<1>1. Typed /\ Truthful => AppliedWasDone
  <2>1. SUFFICES ASSUME Typed, Truthful, NEW r \in DOMAIN journal, journal[r].status = "applied"
                 PROVE  journal[r].op \in evident
    BY DEF AppliedWasDone
  <2>2. r \in 1..Len(journal)
    BY <2>1, LenProperties DEF Typed, JournalTypeOK
  <2>3. QED
    BY <2>1, <2>2 DEF Truthful, RowsTruthful
<1>2. QED
  BY <1>1, TypingInvariant, JournalIsTruthful, PTL

\* A call that reports success has performed each of its actions, or found its
\* effect on the page, where no key stands for two calls
\* (mutate, and TypeMultiple's collected errors).
THEOREM SuccessIsEarned == Spec /\ []KeysUnambiguous => []NothingSkipped
<1>1. Typed /\ Truthful => NothingSkipped
  <2>1. SUFFICES ASSUME Typed, Truthful, At("own", "mutate", "report"), attempts["own"].errors = "none",
                        NEW i \in DOMAIN attempts["own"].kinds
                 PROVE  LET op == <<attempts["own"].call, i>> IN op \in evident \/ submits[op] > 0
    BY DEF NothingSkipped
  <2>2. "own" \in Whose /\ attempts["own"].kinds \in Seq(Kinds)
    BY <2>1 DEF Typed, JournalTypeOK, AttemptRecord, Whose
  <2>3. i \in 1..Len(attempts["own"].kinds)
    BY <2>1, <2>2, LenProperties
  <2>4. Reached(<<attempts["own"].call, i>>, evident, submits)
    BY <2>1, <2>2, <2>3 DEF At, Truthful, AttemptsTruthful, AttemptTruthful
  <2>5. QED
    BY <2>4 DEF Reached
<1>2. QED
  BY <1>1, TypingInvariant, JournalIsTruthful, PTL

\* In an application that never pauses, every run of which begins its own
\* generation, and that leaves no attempt behind, both hold.
COROLLARY FreshGenerationsSuffice ==
    Spec /\ [][FreshGeneration]_vars /\ []NobodyLeftBehind => [](AppliedWasDone /\ NothingSkipped)
BY FreshGenerationsKeepKeysApart, AppliedRowsWereDone, SuccessIsEarned, PTL

-----------------------------------------------------------------------------
(* No action happens twice on a browser.  An attempt that a cancelled run   *)
(* left behind may act on the next run's browser before that run lists what *)
(* it has to replay, and the replay then repeats the action; as long as     *)
(* nobody is left behind, replays and calls keep out of each other's way.   *)

Own == attempts["own"]

\* The actions that are on the browser's page, or on their way to it.
Seen == {op \in Ops : (\E i \in 1..Len(page) : page[i] = op) \/ \E late \in flying : late.op = op}

\* Nothing is on the page, or on its way to it, twice.
PageOnce ==
    /\ \A i, j \in 1..Len(page) : page[i] = page[j] /\ page[i] # Start => i = j
    /\ \A late \in flying : \A i \in 1..Len(page) : page[i] # late.op
    /\ \A late, other \in flying : late.op = other.op => late = other

\* A run calls only once its browser needs no replay, and replays before that.
Stages ==
    /\ Own.job = "mutate" => run.phase = "act" /\ Own.call = run.calls
    /\ Own.job = "replay" => run.phase = "replay" /\ todo # {}
    /\ run.phase \in {"list", "replay"} => session.pending
    /\ run.phase = "act" => ~session.pending

\* Rows are told apart by their actions, and by their keys in a generation.
RowsApart ==
    \A r, q \in 1..Len(journal) :
        \/ journal[r].op = journal[q].op
        \/ journal[r].key = journal[q].key /\ journal[r].gen = journal[q].gen
        => r = q

\* The row of a field of the run's current call, by its key.
RowOf(r, field) == journal[r].gen = session.gen /\ journal[r].key = <<Own.id, field>>

NamedAfterCall ==
    Own.job = "mutate" =>
        /\ \A r \in 1..Len(journal) : journal[r].op[1] = Own.call => RowOf(r, journal[r].op[2])
        /\ Own.pc = "execute" /\ Own.row # 0 => RowOf(Own.row, Own.field)

\* Calls that have not started have no rows, and nothing of them is seen.
CallsSoFar ==
    /\ \A r \in 1..Len(journal) : journal[r].op[1] <= run.calls
    /\ \A op \in Seen : op[1] <= run.calls

\* Until the replay is complete, only what is marked as replayed is seen.
ReplayedHere ==
    session.pending =>
        \A op \in Seen : \E r \in 1..Len(journal) : journal[r].op = op /\ journal[r].on = session.id

\* A row that is about to be replayed is marked, and not seen yet.
ClaimedHere ==
    Own.job = "replay" =>
        /\ Own.pc \in {"execute", "settle"} => Own.on = session.id
        /\ Own.pc = "execute" => journal[Own.row].on = session.id /\ journal[Own.row].op \notin Seen

\* The row has been performed, or will be by a late execution.
Accounted(r) == journal[r].done # 0 \/ \E late \in flying : Late(late, r)

\* What is seen of the current call is accounted for in the row that it finds
\* when it is tried again.
CallAccounted ==
    Own.job = "mutate" =>
        \A field \in 1..MaxFields : <<Own.call, field>> \in Seen =>
            \E r \in 1..Len(journal) : RowOf(r, field) /\ Accounted(r)

Once == /\ PageOnce /\ Stages /\ RowsApart /\ NamedAfterCall /\ CallsSoFar
        /\ ReplayedHere /\ ClaimedHere /\ CallAccounted

-----------------------------------------------------------------------------
\* The page's loading is not an action.
LEMMA StartIsNoAction == Start \notin Ops
BY DEF Start, Ops

\* A page that stays, or is loaded again, shows the actions it showed.
LEMMA PageStays ==
    ASSUME Typed, PageOnce, page' = page \/ page' = Append(page, Start), UNCHANGED flying
    PROVE  PageOnce' /\ Seen' = Seen
<1>1. CASE page' = page
  BY <1>1 DEF PageOnce, Seen
<1>2. CASE page' = Append(page, Start)
  <2>1. /\ page \in Seq(Ops \cup {Start}) /\ flying \subseteq Execution
    BY DEF Typed, JournalTypeOK
  <2>2. /\ Len(page') = Len(page) + 1 /\ page'[Len(page) + 1] = Start /\ Len(page) \in Nat
        /\ \A i \in 1..Len(page) : page'[i] = page[i]
    BY <1>2, <2>1, AppendProperties
  <2>3. \A i \in 1..Len(page') : i \in 1..Len(page) \/ i = Len(page) + 1
    BY <2>2
  <2>4. \A i \in 1..Len(page) : i \in 1..Len(page')
    BY <2>2
  <2>5. \A late \in flying : late.op # Start
    BY <2>1, StartIsNoAction DEF Execution
  <2>6. PageOnce'
    BY <2>2, <2>3, <2>5 DEF PageOnce
  <2>7. \A op \in Ops : (\E i \in 1..Len(page') : page'[i] = op) <=> \E i \in 1..Len(page) : page[i] = op
    BY <2>2, <2>3, <2>4, StartIsNoAction
  <2>8. Seen' = Seen
    BY <2>7 DEF Seen
  <2>9. QED
    BY <2>6, <2>8
<1>3. QED
  BY <1>1, <1>2

\* A browser that is gone, or new, shows nothing.
LEMMA PageGone ==
    ASSUME page' = <<>> \/ page' = <<Start>>, flying' = {}
    PROVE  PageOnce' /\ Seen' = {}
<1>1. Len(page') \in {0, 1} /\ \A i \in 1..Len(page') : i = 1 /\ page'[i] = Start
  <2>1. CASE page' = <<>>
    <3>1. Len(page') = 0
      BY <2>1, EmptySeq
    <3>2. QED
      BY <3>1
  <2>2. CASE page' = <<Start>>
    <3>1. Len(page') = 1 /\ page'[1] = Start
      BY <2>2
    <3>2. QED
      BY <3>1
  <2>3. QED
    BY <2>1, <2>2
<1>2. PageOnce'
  BY <1>1 DEF PageOnce
<1>3. Seen' = {}
  BY <1>1, StartIsNoAction DEF Seen
<1>4. QED
  BY <1>2, <1>3

\* An action that was not seen may happen.
LEMMA PageActs ==
    ASSUME Typed, PageOnce, NEW op \in Ops, op \notin Seen, page' = Append(page, op), UNCHANGED flying
    PROVE  PageOnce' /\ Seen' = Seen \cup {op}
<1>1. page \in Seq(Ops \cup {Start})
  BY DEF Typed, JournalTypeOK
<1>2. /\ Len(page') = Len(page) + 1 /\ page'[Len(page) + 1] = op /\ Len(page) \in Nat
      /\ \A i \in 1..Len(page) : page'[i] = page[i]
  BY <1>1, AppendProperties
<1>3. \A i \in 1..Len(page') : i \in 1..Len(page) \/ i = Len(page) + 1
  BY <1>2
<1>4. \A i \in 1..Len(page) : i \in 1..Len(page')
  BY <1>2
<1>5. Len(page) + 1 \in 1..Len(page')
  BY <1>2
<1>6. /\ \A i \in 1..Len(page) : page[i] # op
      /\ \A late \in flying : late.op # op
  BY DEF Seen
<1>7. PageOnce'
  BY <1>2, <1>3, <1>6 DEF PageOnce
<1>8. \A o : (\E i \in 1..Len(page') : page'[i] = o) <=> (o = op \/ \E i \in 1..Len(page) : page[i] = o)
  BY <1>2, <1>3, <1>4, <1>5
<1>9. Seen' = Seen \cup {op}
  BY <1>8 DEF Seen
<1>10. QED
  BY <1>7, <1>9

\* A late action lands on the page and is no longer on its way.
LEMMA LateLands ==
    ASSUME Typed, PageOnce, NEW late \in flying, page' = Append(page, late.op), flying' = flying \ {late}
    PROVE  PageOnce' /\ Seen' = Seen
<1>1. page \in Seq(Ops \cup {Start}) /\ late.op \in Ops
  BY DEF Typed, JournalTypeOK, Execution
<1>2. /\ Len(page') = Len(page) + 1 /\ page'[Len(page) + 1] = late.op /\ Len(page) \in Nat
      /\ \A i \in 1..Len(page) : page'[i] = page[i]
  BY <1>1, AppendProperties
<1>3. \A i \in 1..Len(page') : i \in 1..Len(page) \/ i = Len(page) + 1
  BY <1>2
<1>4. \A i \in 1..Len(page) : i \in 1..Len(page')
  BY <1>2
<1>5. Len(page) + 1 \in 1..Len(page')
  BY <1>2
<1>6. \A other \in flying' : other \in flying /\ other.op # late.op
  BY DEF PageOnce
<1>7. PageOnce'
  BY <1>2, <1>3, <1>6 DEF PageOnce
<1>8. \A o : (\E i \in 1..Len(page') : page'[i] = o) <=> (o = late.op \/ \E i \in 1..Len(page) : page[i] = o)
  BY <1>2, <1>3, <1>4, <1>5
<1>9. \A o : (\E other \in flying : other.op = o) <=> (o = late.op \/ \E other \in flying' : other.op = o)
  OBVIOUS
<1>10. Seen' = Seen
  BY <1>8, <1>9 DEF Seen
<1>11. QED
  BY <1>7, <1>10

\* An action that was not seen is under way when its attempt is lost.
LEMMA LateFlies ==
    ASSUME PageOnce, NEW late \in Execution, late.op \notin Seen, UNCHANGED page,
           flying' = flying \cup {late}
    PROVE  PageOnce' /\ Seen' = Seen \cup {late.op}
<1>1. late.op \in Ops
  BY DEF Execution
<1>2. /\ \A i \in 1..Len(page) : page[i] # late.op
      /\ \A other \in flying : other.op # late.op
  BY <1>1 DEF Seen
<1>3. PageOnce'
  BY <1>2 DEF PageOnce
<1>4. Seen' = Seen \cup {late.op}
  BY <1>1 DEF Seen
<1>5. QED
  BY <1>3, <1>4
-----------------------------------------------------------------------------
\* Rows keep what they are and what has been done; where they were replayed is
\* another matter.
RowsKept ==
    /\ Len(journal') = Len(journal)
    /\ \A r \in 1..Len(journal) :
           /\ journal'[r].op = journal[r].op
           /\ journal'[r].key = journal[r].key /\ journal'[r].gen = journal[r].gen
           /\ journal[r].done # 0 => journal'[r].done # 0

\* A row may be settled, claimed or performed.
LEMMA RowChanges ==
    ASSUME Typed, NEW row \in 1..Len(journal),
           \/ \E status \in Statuses, on \in Nat : SetStatus(row, status, on)
           \/ \E op : Performed(row, op)
    PROVE  RowsKept
<1>1. journal \in Seq(JournalRow) /\ journal[row] \in JournalRow
  BY ElementOfSeq DEF Typed, JournalTypeOK
<1>2. ASSUME NEW updated, journal' = [journal EXCEPT ![row] = updated], Len(journal') = Len(journal),
             updated.key = journal[row].key, updated.op = journal[row].op,
             updated.gen = journal[row].gen, journal[row].done # 0 => updated.done # 0
      PROVE  RowsKept
  <2>1. \A r \in 1..Len(journal) : journal'[r] = IF r = row THEN updated ELSE journal[r]
    BY <1>1, <1>2
  <2>2. QED
    BY <1>2, <2>1 DEF RowsKept
<1>3. ASSUME NEW status \in Statuses, NEW on \in Nat, SetStatus(row, status, on)
      PROVE  RowsKept
  <2> DEFINE updated == [journal[row] EXCEPT !.status = status, !.on = on]
  <2>1. /\ updated.key = journal[row].key /\ updated.op = journal[row].op
        /\ updated.gen = journal[row].gen /\ updated.done = journal[row].done
    BY <1>1 DEF JournalRow
  <2>2. journal' = [journal EXCEPT ![row] = updated]
    BY <1>3 DEF SetStatus
  <2> HIDE DEF updated
  <2>3. Len(journal') = Len(journal)
    BY <1>1, <1>3, StatusSet
  <2>4. QED
    BY <1>2, <2>1, <2>2, <2>3
<1>4. ASSUME NEW op, Performed(row, op)
      PROVE  RowsKept
  <2> DEFINE updated == [journal[row] EXCEPT !.done = journal[row].done + 1]
  <2>1. /\ updated.key = journal[row].key /\ updated.op = journal[row].op
        /\ updated.gen = journal[row].gen /\ updated.done = journal[row].done + 1
    BY <1>1 DEF JournalRow
  <2>2. journal[row].done # 0 => updated.done # 0
    <3>1. journal[row].done \in Nat
      BY <1>1 DEF JournalRow
    <3>2. QED
      BY <2>1, <3>1
  <2>3. journal' = [journal EXCEPT ![row] = updated]
    BY <1>4 DEF Performed
  <2> HIDE DEF updated
  <2>4. Len(journal') = Len(journal)
    BY <1>1, <1>4, RowPerformed
  <2>5. QED
    BY <1>2, <2>1, <2>2, <2>3, <2>4
<1>5. QED
  BY <1>3, <1>4

\* Rows that keep what they are stay apart.
LEMMA StayApart ==
    ASSUME RowsApart, RowsKept
    PROVE  RowsApart'
BY DEF RowsApart, RowsKept

\* Only the run's own attempt takes steps when nobody is left behind.
LEMMA NobodyElse ==
    ASSUME Typed, NobodyLeftBehind, NEW w \in Whose, Attempt(w)
    PROVE  w = "own" /\ Own.job # "none"
<1>1. attempts["left"].pc = "idle"
  BY DEF NobodyLeftBehind, Typed, Shapes, AttemptShape, Whose
<1>2. attempts[w].job # "none"
  <2>1. attempts[w].job = "none" => attempts[w].pc = "idle"
    BY DEF Typed, Shapes, AttemptShape
  <2>2. QED
    BY <2>1 DEF Attempt, Record, Reconcile, Execute, Settle, Claim, SettleReplay, Timeout, At
<1>3. w # "left"
  BY <1>2 DEF NobodyLeftBehind
<1>4. QED
  BY <1>2, <1>3 DEF Whose, Own

\* A step of the attempt of a call, which has no effect on the page but that of
\* its own action, and then accounts for it.
LEMMA CallStep ==
    ASSUME Typed, Once, Own.job = "mutate", UNCHANGED session, run'.calls = run.calls,
           run'.phase \in {run.phase, "ending"},
           Own'.job \in {"mutate", "none"},
           Own'.job = "mutate" => run' = run /\ Own'.id = Own.id /\ Own'.call = Own.call,
           Own'.job = "mutate" /\ Own'.pc = "execute" /\ Own'.row # 0 =>
               /\ Own'.row \in 1..Len(journal)
               /\ journal[Own'.row].gen = session.gen /\ journal[Own'.row].key = <<Own.id, Own'.field>>,
           RowsKept, PageOnce', Seen' \subseteq Seen \cup {Op("own")},
           Op("own") \in Seen' \ Seen =>
               \E r \in 1..Len(journal) : RowOf(r, Own.field) /\ Accounted(r)',
           \A late \in flying : late \in flying'
    PROVE  Once'
<1>1. Stages'
  BY DEF Once, Stages
<1>2. RowsApart'
  BY StayApart DEF Once
<1>3. NamedAfterCall'
  BY DEF Once, NamedAfterCall, RowsKept, RowOf
<1>4. CallsSoFar'
  <2>1. /\ \A r \in 1..Len(journal) : journal[r].op[1] <= run.calls
        /\ \A op \in Seen : op[1] <= run.calls
    BY DEF Once, CallsSoFar
  <2>2. Op("own")[1] <= run.calls
    <3>1. Op("own")[1] = run.calls /\ run.calls \in Nat
      BY DEF Once, Stages, Op, Own, Typed, JournalTypeOK, RunRecord
    <3>2. QED
      BY <3>1
  <2>3. QED
    BY <2>1, <2>2 DEF CallsSoFar, RowsKept
<1>5. ReplayedHere'
  BY DEF Once, Stages, ReplayedHere
<1>6. ClaimedHere'
  BY DEF ClaimedHere
<1>7. CallAccounted'
  <2>1. SUFFICES ASSUME Own'.job = "mutate", NEW field \in 1..MaxFields, <<Own'.call, field>> \in Seen'
                 PROVE  \E r \in 1..Len(journal') :
                            /\ journal'[r].gen = session'.gen /\ journal'[r].key = <<Own'.id, field>>
                            /\ Accounted(r)'
    BY DEF CallAccounted, RowOf
  <2>2. <<Own.call, field>> \in Seen \cup {Op("own")} /\ Own'.id = Own.id
    BY <2>1
  <2>3. \A r \in 1..Len(journal) : Accounted(r) => Accounted(r)'
    BY DEF Accounted, RowsKept
  <2>4. CASE <<Own.call, field>> \in Seen
    <3>1. PICK r \in 1..Len(journal) : RowOf(r, field) /\ Accounted(r)
      BY <2>4 DEF Once, CallAccounted
    <3>2. QED
      BY <2>2, <2>3, <3>1 DEF RowOf, RowsKept
  <2>5. CASE <<Own.call, field>> \notin Seen
    <3>1. <<Own.call, field>> = Op("own") /\ <<Own.call, field>> \in Seen' \ Seen
      BY <2>1, <2>2, <2>5
    <3>2. field = Own.field
      BY <3>1 DEF Op, Own
    <3>3. PICK r \in 1..Len(journal) : RowOf(r, Own.field) /\ Accounted(r)'
      BY <3>1
    <3>4. QED
      BY <2>2, <3>2, <3>3 DEF RowOf, RowsKept
  <2>6. QED
    BY <2>4, <2>5
<1>8. QED
  BY <1>1, <1>2, <1>3, <1>4, <1>5, <1>6, <1>7 DEF Once

\* ... among them the steps that leave the page alone.
LEMMA QuietCallStep ==
    ASSUME Typed, Once, Own.job = "mutate", UNCHANGED <<session, run, page, flying>>,
           Own'.job = "mutate", Own'.id = Own.id, Own'.call = Own.call,
           Own'.pc = "execute" /\ Own'.row # 0 =>
               /\ Own'.row \in 1..Len(journal)
               /\ journal[Own'.row].gen = session.gen /\ journal[Own'.row].key = <<Own.id, Own'.field>>,
           RowsKept
    PROVE  Once'
<1>1. PageOnce' /\ Seen' = Seen
  BY PageStays DEF Once
<1>2. QED
  BY <1>1, CallStep

\* An attempt stays with its call when a field is over.
LEMMA OwnFieldOver ==
    ASSUME Typed, NobodyLeftBehind, Own.job = "mutate",
           NEW error \in {"none", "retry", "fatal"}, FieldOver("own", error)
    PROVE  /\ Own'.job = "mutate" /\ Own'.pc \in {"record", "report"}
           /\ Own'.id = Own.id /\ Own'.call = Own.call
<1>1. "own" \in Whose /\ 0 \in Nat
  BY DEF Whose
<1>2. Own'.job = "mutate" /\ Own'.pc \in {"record", "report"}
  BY <1>1, FieldOverMoves DEF Own
<1>3. AttemptsCarryOn
  BY <1>1, FieldOverCarriesOn
<1>4. QED
  BY <1>1, <1>2, <1>3 DEF AttemptsCarryOn, NobodyLeftBehind, Own, Whose

\* A field may be over after any change of its row.
LEMMA FieldOverOnce ==
    ASSUME Typed, Once, NobodyLeftBehind, Own.job = "mutate",
           UNCHANGED <<session, run, page, flying>>, RowsKept,
           NEW error \in {"none", "retry", "fatal"}, FieldOver("own", error)
    PROVE  Once'
BY OwnFieldOver, QuietCallStep

\* A row that is recorded has an action and a key of its own.
LEMMA RecordedApart ==
    ASSUME Typed, Once, NobodyLeftBehind, Own.job = "mutate", Own.pc = "record",
           UNCHANGED <<session, run, page, flying, todo>>,
           RowsOf(<<Own.id, Own.field>>) = {}, NEW added \in JournalRow,
           added.key = <<Own.id, Own.field>>, added.gen = session.gen, added.op = Op("own"),
           journal' = Append(journal, added),
           Put("own", [Own EXCEPT !.pc = "execute", !.row = Len(journal) + 1])
    PROVE  Once'
<1> DEFINE n == Len(journal) + 1
<1>1. /\ journal \in Seq(JournalRow) /\ Len(journal) \in Nat /\ DOMAIN journal = 1..Len(journal)
      /\ run.calls \in Nat /\ Own \in AttemptRecord /\ "own" \in Whose
  BY DEF Typed, JournalTypeOK, RunRecord, Own, Whose
<1>2. /\ Len(journal') = n /\ journal'[n] = added
      /\ \A r \in 1..Len(journal) : journal'[r] = journal[r]
      /\ \A r \in 1..Len(journal') : r \in 1..Len(journal) \/ r = n
      /\ \A r \in 1..Len(journal) : r \in 1..Len(journal') /\ r # n
  BY <1>1, AppendProperties
<1>3. /\ Own'.job = "mutate" /\ Own'.pc = "execute" /\ Own'.row = n
      /\ Own'.id = Own.id /\ Own'.call = Own.call /\ Own'.field = Own.field
  <2>1. Own' = [Own EXCEPT !.pc = "execute", !.row = n]
    BY <1>1, PutOne DEF Own
  <2>2. QED
    BY <1>1, <2>1 DEF AttemptRecord
<1> HIDE DEF n
<1>4. PageOnce' /\ Seen' = Seen
  BY PageStays DEF Once
<1>5. Stages'
  BY <1>3 DEF Once, Stages
<1>6. /\ added.op[1] = Own.call /\ added.op[2] = Own.field
      /\ \A r \in 1..Len(journal) : ~RowOf(r, Own.field)
  BY <1>1 DEF Op, Own, RowsOf, RowOf
<1>7. \A r \in 1..Len(journal) : journal[r].op[1] = Own.call => RowOf(r, journal[r].op[2])
  BY DEF Once, NamedAfterCall
<1>8. \A r \in 1..Len(journal) :
          journal[r].op # added.op /\ ~(journal[r].key = added.key /\ journal[r].gen = added.gen)
  BY <1>6, <1>7 DEF RowOf
<1>9. RowsApart'
  BY <1>2, <1>8 DEF Once, RowsApart
<1>10. NamedAfterCall'
  BY <1>2, <1>3, <1>6, <1>7 DEF NamedAfterCall, RowOf
<1>11. CallsSoFar'
  <2>1. added.op[1] <= run.calls
    <3>1. added.op[1] = run.calls
      BY <1>6 DEF Once, Stages
    <3>2. QED
      BY <1>1, <3>1
  <2>2. QED
    BY <1>2, <1>4, <2>1 DEF Once, CallsSoFar
<1>12. ReplayedHere' /\ ClaimedHere'
  BY <1>3 DEF Once, Stages, ReplayedHere, ClaimedHere
<1>13. CallAccounted'
  <2>1. SUFFICES ASSUME NEW field \in 1..MaxFields, <<Own.call, field>> \in Seen
                 PROVE  \E r \in 1..Len(journal') :
                            /\ journal'[r].gen = session'.gen /\ journal'[r].key = <<Own'.id, field>>
                            /\ Accounted(r)'
    BY <1>3, <1>4 DEF CallAccounted, RowOf
  <2>2. PICK r \in 1..Len(journal) : RowOf(r, field) /\ Accounted(r)
    BY <2>1 DEF Once, CallAccounted
  <2>3. QED
    BY <1>2, <1>3, <2>2 DEF RowOf, Accounted
<1>14. QED
  BY <1>4, <1>5, <1>9, <1>10, <1>11, <1>12, <1>13 DEF Once

\* Record takes a row in hand that its key names.
LEMMA RecordOnce ==
    ASSUME Typed, Once, NobodyLeftBehind, Record("own")
    PROVE  Once'
<1> DEFINE key == <<Own.id, Own.field>>
           Taken(pc, row) == [Own EXCEPT !.pc = pc, !.row = row]
<1>1. /\ Own.job = "mutate" /\ Own.pc = "record" /\ Own \in AttemptRecord /\ "own" \in Whose
      /\ UNCHANGED <<session, run, page, flying, todo>>
      /\ journal \in Seq(JournalRow) /\ Len(journal) \in Nat /\ DOMAIN journal = 1..Len(journal)
  <2>1. Own.job = "mutate" /\ Own.pc = "record" /\ UNCHANGED <<session, run, page, flying, todo>>
    BY DEF Record, At, Own, world
  <2>2. QED
    BY <2>1, LenProperties DEF Typed, JournalTypeOK, Own, Whose
<1>2. ASSUME NEW pc \in {"execute", "reconcile"}, NEW row, Put("own", Taken(pc, row)), RowsKept,
             row = 0 \/ row \in RowsOf(key)
      PROVE  Once'
  <2>1. Own' = Taken(pc, row)
    BY <1>1, <1>2, PutOne DEF Own
  <2>2. /\ Own'.job = "mutate" /\ Own'.id = Own.id /\ Own'.call = Own.call
        /\ Own'.row = row /\ Own'.field = Own.field
    BY <1>1, <2>1 DEF AttemptRecord
  <2>3. row # 0 => row \in 1..Len(journal) /\ journal[row].gen = session.gen /\ journal[row].key = key
    BY <1>1, <1>2 DEF RowsOf
  <2>4. QED
    BY <1>1, <1>2, <2>2, <2>3, QuietCallStep
<1>3. ASSUME NEW error \in {"none", "retry"}, FieldOver("own", error), UNCHANGED journal
      PROVE  Once'
  BY <1>1, <1>3, FieldOverOnce DEF RowsKept
<1>4. ASSUME RowsOf(key) = {},
             journal' = Append(journal, [key |-> key, gen |-> session.gen, op |-> Op("own"),
                              kind |-> Kind("own"), status |-> "pending", on |-> 0, done |-> 0]),
             Put("own", Taken("execute", Len(journal) + 1))
      PROVE  Once'
  <2> DEFINE added == [key |-> key, gen |-> session.gen, op |-> Op("own"),
                       kind |-> Kind("own"), status |-> "pending", on |-> 0, done |-> 0]
  <2>1. session.gen \in Nat /\ "pending" \in Statuses
    BY DEF Typed, JournalTypeOK, SessionRow, Statuses
  <2>2. key \in Nat \X Nat /\ Op("own") \in Ops /\ Kind("own") \in Kinds
    BY <1>1, OpTyped DEF Own
  <2>3. added \in JournalRow /\ added.key = key /\ added.gen = session.gen /\ added.op = Op("own")
    BY <2>1, <2>2 DEF JournalRow
  <2>4. journal' = Append(journal, added)
    BY <1>4
  <2> HIDE DEF added
  <2>5. QED
    BY <1>1, <1>4, <2>3, <2>4, RecordedApart
<1>5. UNCHANGED journal => RowsKept
  BY DEF RowsKept
<1>6. ASSUME NEW row \in RowsOf(key), SetStatus(row, "pending", 0), Put("own", Taken("execute", row))
      PROVE  Once'
  <2>1. row \in 1..Len(journal)
    BY <1>1 DEF RowsOf
  <2>2. RowsKept
    BY <1>6, <2>1, RowChanges DEF Statuses
  <2>3. QED
    BY <1>2, <1>6, <2>2
<1>7. QED
  BY <1>2, <1>3, <1>4, <1>5, <1>6 DEF Record, Own

\* Reconciling and settling a call's row leave the page alone.
LEMMA ReconcileOnce ==
    ASSUME Typed, Once, NobodyLeftBehind, Reconcile("own")
    PROVE  Once'
<1>1. /\ Own.job = "mutate" /\ Own.row \in 1..Len(journal)
      /\ UNCHANGED <<session, run, page, flying>>
  <2>1. Own.job = "mutate" /\ Own.pc = "reconcile" /\ UNCHANGED <<session, run, page, flying>>
    BY DEF Reconcile, At, Own, world
  <2>2. QED
    BY <2>1, RowInHand DEF Own, Whose
<1>2. UNCHANGED journal \/ SetStatus(Own.row, "applied", 0)
  BY DEF Reconcile, Own
<1>3. RowsKept
  <2>1. UNCHANGED journal => RowsKept
    BY DEF RowsKept
  <2>2. QED
    BY <1>1, <1>2, <2>1, RowChanges DEF Statuses
<1>4. PICK error \in {"none", "retry", "fatal"} : FieldOver("own", error)
  BY DEF Reconcile
<1>5. QED
  BY <1>1, <1>3, <1>4, FieldOverOnce

\* ... and so does settling it.
LEMMA SettleOnce ==
    ASSUME Typed, Once, NobodyLeftBehind, NEW stored \in BOOLEAN, Settle("own", stored)
    PROVE  Once'
<1>1. /\ Own.job = "mutate" /\ Own.row \in 1..Len(journal)
      /\ UNCHANGED <<session, run, page, flying>>
  <2>1. Own.job = "mutate" /\ Own.pc = "settle" /\ UNCHANGED <<session, run, page, flying>>
    BY DEF Settle, At, Own, world
  <2>2. QED
    BY <2>1, RowInHand DEF Own, Whose
<1>2. UNCHANGED journal \/ SetStatus(Own.row, Settlement(Own.outcome), 0)
  BY DEF Settle, Own
<1>3. RowsKept
  <2>1. UNCHANGED journal => RowsKept
    BY DEF RowsKept
  <2>2. Settlement(Own.outcome) \in Statuses
    BY DEF Settlement, Statuses
  <2>3. QED
    BY <1>1, <1>2, <2>1, <2>2, RowChanges
<1>4. PICK error \in {"none", "retry", "fatal"} : FieldOver("own", error)
  <2>1. PICK error \in ErrorsOf("own", Own.outcome), taken \in BOOLEAN :
            FieldOver("own", IF taken THEN error ELSE Worse("retry", error))
    BY DEF Settle, Own
  <2>2. error \in {"none", "retry", "fatal"}
    BY <2>1, ErrorsTyped DEF Whose, Own
  <2>3. Worse("retry", error) \in {"none", "retry", "fatal"}
    BY <2>2 DEF Worse
  <2>4. QED
    BY <2>1, <2>2, <2>3
<1>5. QED
  BY <1>1, <1>3, <1>4, FieldOverOnce

\* A call that is about to perform a row has not performed it yet, so that
\* nothing of it is seen.
LEMMA AboutToAct ==
    ASSUME Typed, Guarded, Once, Own.job = "mutate", Own.pc = "execute", Own.row # 0
    PROVE  /\ Op("own") \in Ops /\ Op("own") \notin Seen
           /\ Own.row \in 1..Len(journal) /\ RowOf(Own.row, Own.field)
<1>1. Op("own") \in Ops /\ Op("own") = <<Own.call, Own.field>>
  BY OpTyped DEF Own, Op, Whose
<1>2. Own.field \in 1..MaxFields
  BY <1>1 DEF Ops
<1>3. Own.row \in 1..Len(journal)
  <2>1. Own.row \in 0..Len(journal) /\ Len(journal) \in Nat
    BY RowInHand DEF Own, Whose
  <2>2. QED
    BY <2>1
<1>4. RowOf(Own.row, Own.field)
  BY DEF Once, NamedAfterCall
<1>5. ~Accounted(Own.row)
  <2>1. RowGuarded(Own.row)
    BY <1>3 DEF Guarded
  <2>2. Holds(attempts["own"], Own.row) /\ Unperformed(attempts["own"])
    BY DEF Own, Holds, Unperformed
  <2>3. QED
    BY <2>1, <2>2 DEF RowGuarded, Accounted, Whose
<1>6. ASSUME Op("own") \in Seen
      PROVE  FALSE
  <2>1. PICK r \in 1..Len(journal) : RowOf(r, Own.field) /\ Accounted(r)
    BY <1>1, <1>2, <1>6 DEF Once, CallAccounted
  <2>2. r = Own.row
    BY <1>3, <1>4, <2>1 DEF RowOf, Once, RowsApart
  <2>3. QED
    BY <1>5, <2>1, <2>2
<1>7. QED
  BY <1>1, <1>3, <1>4, <1>6

\* A call performs its action where nothing of it was seen, and then accounts
\* for it.
LEMMA ExecuteCallOnce ==
    ASSUME Typed, Guarded, Once, NobodyLeftBehind, Own.job = "mutate",
           NEW outcome \in {"done", "refused", "uncertain"}, NEW lands \in BOOLEAN,
           Execute("own", outcome, lands)
    PROVE  Once'
<1>1. Own.pc = "execute" /\ Own \in AttemptRecord /\ "own" \in Whose /\ UNCHANGED <<session, run, flying>>
  BY DEF Execute, Own, Typed, JournalTypeOK, Whose
<1>2. UNCHANGED journal => RowsKept
  BY DEF RowsKept
<1>3. CASE Own.row = 0
  <2>1. UNCHANGED <<page, journal>>
    BY <1>3 DEF Execute, Own
  <2>2. PICK error \in {"none", "retry", "fatal"} : FieldOver("own", error)
    BY <1>3, ErrorsTyped DEF Execute, Own
  <2>3. QED
    BY <1>1, <1>2, <2>1, <2>2, FieldOverOnce
<1>4. CASE Own.row # 0
  <2>1. /\ Own'.job = "mutate" /\ Own'.pc = "settle" /\ Own'.id = Own.id /\ Own'.call = Own.call
    <3>1. Own' = [Own EXCEPT !.pc = "settle", !.outcome = outcome]
      BY <1>1, <1>4, PutOne DEF Execute, Own
    <3>2. QED
      BY <1>1, <3>1 DEF AttemptRecord
  <2>2. CASE ~lands
    <3>1. UNCHANGED <<page, journal>>
      BY <2>2 DEF Execute
    <3>2. QED
      BY <1>1, <1>2, <2>1, <3>1, QuietCallStep
  <2>3. CASE lands
    <3>1. Performed(Own.row, Op("own"))
      BY <1>4, <2>3 DEF Execute, Own
    <3>2. /\ Op("own") \in Ops /\ Op("own") \notin Seen
          /\ Own.row \in 1..Len(journal) /\ RowOf(Own.row, Own.field)
      BY <1>1, <1>4, AboutToAct
    <3>3. PageOnce' /\ Seen' = Seen \cup {Op("own")}
      BY <1>1, <3>1, <3>2, PageActs DEF Performed, Once
    <3>4. RowsKept
      BY <3>1, <3>2, RowChanges
    <3>5. ASSUME NEW r, r = Own.row
          PROVE  Accounted(r)'
      <4>1. journal \in Seq(JournalRow) /\ journal[Own.row] \in JournalRow
        BY <3>2, ElementOfSeq DEF Typed, JournalTypeOK
      <4>2. journal'[Own.row].done = journal[Own.row].done + 1 /\ journal[Own.row].done \in Nat
        BY <3>1, <3>2, <4>1, RowPerformed DEF JournalRow
      <4>3. journal'[Own.row].done # 0
        BY <4>2
      <4>4. QED
        BY <3>5, <4>3 DEF Accounted
    <3>6. \E r \in 1..Len(journal) : RowOf(r, Own.field) /\ Accounted(r)'
      BY <3>2, <3>5
    <3>7. QED
      BY <1>1, <2>1, <3>3, <3>4, <3>6, CallStep
  <2>4. QED
    BY <2>2, <2>3
<1>5. QED
  BY <1>3, <1>4

\* What the run's attempt and the run come to when the attempt is lost.
LEMMA OwnTimedOut ==
    ASSUME Typed, NEW inFlight \in BOOLEAN, Timeout("own", inFlight)
    PROVE  /\ \/ /\ Own'.job = Own.job /\ Own'.id = Own.id /\ Own'.call = Own.call
                 /\ Own'.pc = IF Own.job = "replay" THEN "claim" ELSE "record"
                 /\ run' = run
              \/ Own'.job = "none" /\ run'.phase \in {run.phase, "ending"}
           /\ run'.calls = run.calls
           /\ UNCHANGED <<todo, journal, session, page>>
           /\ \/ UNCHANGED flying
              \/ /\ Own.pc = "execute" /\ Own.row # 0
                 /\ flying' = flying \cup {InFlight("own")}
<1>1. Own \in AttemptRecord /\ run \in RunRecord /\ "own" \in Whose
  BY DEF Typed, JournalTypeOK, Own, Whose
<1>2. \/ Put("own", Retried(Own)) /\ UNCHANGED <<run, todo>>
      \/ /\ Put("own", NoAttempt) /\ UNCHANGED todo
         /\ run' = run \/ run' = [run EXCEPT !.phase = "ending"]
  BY DEF Timeout, GiveUp, Own
<1>3. CASE Put("own", Retried(Own)) /\ UNCHANGED <<run, todo>>
  <2>1. Own' = Retried(Own)
    BY <1>1, <1>3, PutOne DEF Own
  <2>2. QED
    BY <1>1, <1>3, <2>1 DEF Retried, AttemptRecord, Timeout, Own
<1>4. CASE /\ Put("own", NoAttempt) /\ UNCHANGED todo
           /\ run' = run \/ run' = [run EXCEPT !.phase = "ending"]
  <2>1. Own' = NoAttempt
    BY <1>1, <1>4, PutOne DEF Own
  <2>2. QED
    BY <1>1, <1>4, <2>1 DEF NoAttempt, RunRecord, Timeout, Own
<1>5. QED
  BY <1>2, <1>3, <1>4

\* What a call's lost attempt had asked for is accounted for while it flies.
LEMMA TimeoutCallOnce ==
    ASSUME Typed, Guarded, Once, NobodyLeftBehind, Own.job = "mutate",
           NEW inFlight \in BOOLEAN, Timeout("own", inFlight)
    PROVE  Once'
<1>1. /\ \/ /\ Own'.job = Own.job /\ Own'.id = Own.id /\ Own'.call = Own.call
            /\ Own'.pc = "record" /\ run' = run
         \/ Own'.job = "none" /\ run'.phase \in {run.phase, "ending"}
      /\ run'.calls = run.calls
      /\ UNCHANGED <<todo, journal, session, page>>
      /\ \/ UNCHANGED flying
         \/ /\ Own.pc = "execute" /\ Own.row # 0
            /\ flying' = flying \cup {InFlight("own")}
  BY OwnTimedOut
<1>2. RowsKept
  BY <1>1 DEF RowsKept
<1>3. CASE UNCHANGED flying
  <2>1. PageOnce' /\ Seen' = Seen
    BY <1>1, <1>3, PageStays DEF Once
  <2>2. QED
    BY <1>1, <1>2, <1>3, <2>1, CallStep
<1>4. CASE Own.pc = "execute" /\ Own.row # 0 /\ flying' = flying \cup {InFlight("own")}
  <2>1. /\ Op("own") \in Ops /\ Op("own") \notin Seen
        /\ Own.row \in 1..Len(journal) /\ RowOf(Own.row, Own.field)
    BY <1>4, AboutToAct
  <2>2. /\ InFlight("own") \in Execution /\ InFlight("own").op = Op("own")
        /\ InFlight("own").row = Own.row /\ ~InFlight("own").replayed
    BY <1>4, InFlightTyped DEF InFlight, Own, Whose
  <2>3. PageOnce' /\ Seen' = Seen \cup {Op("own")}
    BY <1>1, <1>4, <2>1, <2>2, LateFlies DEF Once
  <2>4. \E late \in flying' : Late(late, Own.row)
    BY <1>4, <2>2 DEF Late
  <2>5. \E r \in 1..Len(journal) : RowOf(r, Own.field) /\ Accounted(r)'
    <3>1. ASSUME NEW r, r = Own.row
          PROVE  Accounted(r)'
      BY <2>4, <3>1 DEF Accounted
    <3>2. QED
      BY <2>1, <3>1
  <2>6. QED
    BY <1>1, <1>2, <1>4, <2>3, <2>5, CallStep
<1>5. QED
  BY <1>1, <1>3, <1>4

-----------------------------------------------------------------------------
\* A step of an attempt that replays a row, which has no effect on the page but
\* that of the row's action, and then has the row marked.
LEMMA ReplayStep ==
    ASSUME Typed, Once, Own.job = "replay", Own.row \in 1..Len(journal),
           UNCHANGED session, run'.calls = run.calls,
           run'.phase \in {run.phase, "ending"},
           Own'.job \in {"replay", "none"},
           Own'.job = "replay" => run' = run /\ todo' = todo,
           RowsKept, PageOnce', Seen' \subseteq Seen \cup {journal[Own.row].op},
           journal[Own.row].op \in Seen' \ Seen => journal[Own.row].on = session.id,
           \A r \in 1..Len(journal) : journal[r].on = session.id => journal'[r].on = session.id,
           ClaimedHere'
    PROVE  Once'
<1>1. Stages'
  BY DEF Once, Stages
<1>2. RowsApart'
  BY StayApart DEF Once
<1>3. NamedAfterCall' /\ CallAccounted'
  BY DEF NamedAfterCall, CallAccounted
<1>4. CallsSoFar'
  BY DEF Once, CallsSoFar, RowsKept
<1>5. ReplayedHere'
  <2>1. SUFFICES ASSUME session.pending, NEW op \in Seen'
                 PROVE  \E r \in 1..Len(journal') : journal'[r].op = op /\ journal'[r].on = session.id
    BY DEF ReplayedHere
  <2>2. \E r \in 1..Len(journal) : journal[r].op = op /\ journal[r].on = session.id
    BY <2>1 DEF Once, ReplayedHere
  <2>3. QED
    BY <2>2 DEF RowsKept
<1>6. QED
  BY <1>1, <1>2, <1>3, <1>4, <1>5 DEF Once

\* The row of a replay that is claimed was not replayed on this browser.
LEMMA ClaimOnce ==
    ASSUME Typed, Once, Claim("own")
    PROVE  Once'
<1>1. /\ Own.job = "replay" /\ Own.pc = "claim" /\ Own \in AttemptRecord /\ "own" \in Whose
      /\ Own.row \in 1..Len(journal) /\ journal \in Seq(JournalRow)
      /\ UNCHANGED <<session, run, todo, page, flying>>
  <2>1. /\ Own.job = "replay" /\ Own.pc = "claim" /\ "own" \in Whose
        /\ UNCHANGED <<session, run, todo, page, flying>>
    BY DEF Claim, At, Own, world, Whose
  <2>2. QED
    BY <2>1, RowInHand DEF Own
<1>2. PageOnce' /\ Seen' = Seen
  BY <1>1, PageStays DEF Once
<1>3. CASE Put("own", [Own EXCEPT !.pc = "report", !.errors = "fatal"]) /\ UNCHANGED journal
  <2>1. Own' = [Own EXCEPT !.pc = "report", !.errors = "fatal"]
    BY <1>1, <1>3, PutOne DEF Own
  <2>2. Own'.job = "replay" /\ Own'.pc = "report"
    BY <1>1, <2>1 DEF AttemptRecord
  <2>3. QED
    BY <1>1, <1>2, <1>3, <2>2, ReplayStep DEF RowsKept, ClaimedHere
<1>4. CASE Put("own", [Own EXCEPT !.pc = "report"]) /\ UNCHANGED journal
  <2>1. Own' = [Own EXCEPT !.pc = "report"]
    BY <1>1, <1>4, PutOne DEF Own
  <2>2. Own'.job = "replay" /\ Own'.pc = "report"
    BY <1>1, <2>1 DEF AttemptRecord
  <2>3. QED
    BY <1>1, <1>2, <1>4, <2>2, ReplayStep DEF RowsKept, ClaimedHere
<1>5. CASE /\ journal[Own.row].on # session.id
           /\ SetStatus(Own.row, "pending", session.id)
           /\ Put("own", [Own EXCEPT !.pc = "execute", !.on = session.id])
  <2>1. Own' = [Own EXCEPT !.pc = "execute", !.on = session.id]
    BY <1>1, <1>5, PutOne DEF Own
  <2>2. /\ Own'.job = "replay" /\ Own'.pc = "execute" /\ Own'.on = session.id
        /\ Own'.row = Own.row
    BY <1>1, <2>1 DEF AttemptRecord
  <2>3. session.id \in Nat /\ "pending" \in Statuses
    BY DEF Typed, JournalTypeOK, SessionRow, Statuses
  <2>4. RowsKept
    BY <1>1, <1>5, <2>3, RowChanges
  <2>5. \A r \in 1..Len(journal) :
            /\ r = Own.row => journal'[r].on = session.id
            /\ r # Own.row => journal'[r] = journal[r]
    BY <1>1, <1>5, <2>3, StatusSetRows
  <2>6. journal[Own.row].op \notin Seen
    <3>1. SUFFICES ASSUME journal[Own.row].op \in Seen
                   PROVE  FALSE
      OBVIOUS
    <3>2. PICK r \in 1..Len(journal) : journal[r].op = journal[Own.row].op /\ journal[r].on = session.id
      BY <1>1, <3>1 DEF Once, Stages, ReplayedHere
    <3>3. r = Own.row
      BY <1>1, <3>2 DEF Once, RowsApart
    <3>4. QED
      BY <1>5, <3>2, <3>3
  <2>7. ClaimedHere'
    BY <1>1, <1>2, <2>2, <2>4, <2>5, <2>6 DEF ClaimedHere, RowsKept
  <2>8. QED
    BY <1>1, <1>2, <2>2, <2>4, <2>5, <2>7, ReplayStep
<1>6. QED
  BY <1>3, <1>4, <1>5 DEF Claim, Fail, Goto, AlreadyReplayed, Own

\* A claimed row is replayed where its action was not seen.
LEMMA ExecuteReplayOnce ==
    ASSUME Typed, Once, Own.job = "replay",
           NEW outcome \in {"done", "refused", "uncertain"}, NEW lands \in BOOLEAN,
           Execute("own", outcome, lands)
    PROVE  Once'
<1>1. /\ Own.pc = "execute" /\ Own \in AttemptRecord /\ "own" \in Whose
      /\ Own.row \in 1..Len(journal) /\ Own.row # 0
      /\ UNCHANGED <<session, run, todo, flying>>
      /\ journal \in Seq(JournalRow) /\ journal[Own.row] \in JournalRow
  <2>1. /\ Own.pc = "execute" /\ "own" \in Whose /\ UNCHANGED <<session, run, todo, flying>>
    BY DEF Execute, Own, Whose
  <2>2. /\ Own \in AttemptRecord /\ Own.row \in 1..Len(journal) /\ journal \in Seq(JournalRow)
        /\ Len(journal) \in Nat
    BY <2>1, RowInHand DEF Own
  <2>3. QED
    BY <2>1, <2>2, ElementOfSeq
<1>2. /\ Own'.job = "replay" /\ Own'.pc = "settle" /\ Own'.on = Own.on
  <2>1. Own' = [Own EXCEPT !.pc = "settle", !.outcome = outcome]
    BY <1>1, PutOne DEF Execute, Own
  <2>2. QED
    BY <1>1, <2>1 DEF AttemptRecord
<1>3. /\ Own.on = session.id /\ journal[Own.row].on = session.id
      /\ journal[Own.row].op \notin Seen /\ journal[Own.row].op \in Ops
  BY <1>1 DEF Once, ClaimedHere, JournalRow
<1>4. ClaimedHere'
  BY <1>1, <1>2, <1>3 DEF ClaimedHere
<1>5. CASE ~lands
  <2>1. UNCHANGED <<page, journal>>
    BY <1>5 DEF Execute
  <2>2. PageOnce' /\ Seen' = Seen
    BY <1>1, <2>1, PageStays DEF Once
  <2>3. QED
    BY <1>1, <1>2, <1>4, <2>1, <2>2, ReplayStep DEF RowsKept
<1>6. CASE lands
  <2>1. page' = Append(page, journal[Own.row].op) /\ UNCHANGED journal
    BY <1>1, <1>6 DEF Execute, Own, Replayed
  <2>2. PageOnce' /\ Seen' = Seen \cup {journal[Own.row].op}
    BY <1>1, <1>3, <2>1, PageActs DEF Once
  <2>3. QED
    BY <1>1, <1>2, <1>3, <1>4, <2>1, <2>2, ReplayStep DEF RowsKept
<1>7. QED
  BY <1>5, <1>6

\* A replay that is settled leaves its row marked for this browser.
LEMMA SettleReplayOnce ==
    ASSUME Typed, Once, NEW stored \in BOOLEAN, SettleReplay("own", stored)
    PROVE  Once'
<1>1. /\ Own.job = "replay" /\ Own.pc = "settle" /\ Own \in AttemptRecord /\ "own" \in Whose
      /\ Own.row \in 1..Len(journal) /\ journal \in Seq(JournalRow)
      /\ UNCHANGED <<session, run, todo, page, flying>>
  <2>1. /\ Own.job = "replay" /\ Own.pc = "settle" /\ "own" \in Whose
        /\ UNCHANGED <<session, run, todo, page, flying>>
    BY DEF SettleReplay, At, Own, world, Whose
  <2>2. QED
    BY <2>1, RowInHand DEF Own
<1>2. PageOnce' /\ Seen' = Seen
  BY <1>1, PageStays DEF Once
<1>3. Own'.job = "replay" /\ Own'.pc = "report"
  <2>1. \/ Put("own", [Own EXCEPT !.pc = "report", !.errors = "fatal"])
        \/ Put("own", [Own EXCEPT !.pc = "report"])
    BY DEF SettleReplay, Fail, Goto, Own
  <2>2. \/ Own' = [Own EXCEPT !.pc = "report", !.errors = "fatal"]
        \/ Own' = [Own EXCEPT !.pc = "report"]
    BY <1>1, <2>1, PutOne DEF Own
  <2>3. QED
    BY <1>1, <2>2 DEF AttemptRecord
<1>4. ClaimedHere'
  BY <1>3 DEF ClaimedHere
<1>5. Own.on = session.id /\ session.id \in Nat
  BY <1>1 DEF Once, ClaimedHere, Typed, JournalTypeOK, SessionRow
<1>6. CASE UNCHANGED journal
  BY <1>1, <1>2, <1>3, <1>4, <1>6, ReplayStep DEF RowsKept
<1>7. ASSUME NEW status \in Statuses, SetStatus(Own.row, status, Own.on)
      PROVE  Once'
  <2>1. RowsKept
    BY <1>1, <1>5, <1>7, RowChanges
  <2>2. \A r \in 1..Len(journal) :
            /\ r = Own.row => journal'[r].on = Own.on
            /\ r # Own.row => journal'[r] = journal[r]
    BY <1>1, <1>5, <1>7, StatusSetRows
  <2>3. QED
    BY <1>1, <1>2, <1>3, <1>4, <1>5, <2>1, <2>2, ReplayStep
<1>8. QED
  BY <1>6, <1>7 DEF SettleReplay, Own, Statuses

\* A replay's lost attempt had claimed what it has in flight.
LEMMA TimeoutReplayOnce ==
    ASSUME Typed, Once, Own.job = "replay", NEW inFlight \in BOOLEAN, Timeout("own", inFlight)
    PROVE  Once'
<1>1. /\ \/ Own'.job = "replay" /\ Own'.pc = "claim" /\ run' = run
         \/ Own'.job = "none" /\ run'.phase \in {run.phase, "ending"}
      /\ run'.calls = run.calls
      /\ UNCHANGED <<todo, journal, session, page>>
      /\ \/ UNCHANGED flying
         \/ /\ Own.pc = "execute" /\ Own.row # 0
            /\ flying' = flying \cup {InFlight("own")}
  BY OwnTimedOut
<1>2. RowsKept /\ ClaimedHere' /\ Own.row \in 1..Len(journal)
  BY <1>1, RowInHand DEF RowsKept, ClaimedHere, Own, Whose
<1>3. CASE UNCHANGED flying
  <2>1. PageOnce' /\ Seen' = Seen
    BY <1>1, <1>3, PageStays DEF Once
  <2>2. QED
    BY <1>1, <1>2, <2>1, ReplayStep
<1>4. CASE Own.pc = "execute" /\ Own.row # 0 /\ flying' = flying \cup {InFlight("own")}
  <2>1. InFlight("own") \in Execution /\ InFlight("own").op = journal[Own.row].op
    BY <1>4, InFlightTyped DEF InFlight, Own, Whose
  <2>2. journal[Own.row].on = session.id /\ journal[Own.row].op \notin Seen
    BY <1>4 DEF Once, ClaimedHere
  <2>3. PageOnce' /\ Seen' = Seen \cup {journal[Own.row].op}
    BY <1>1, <1>4, <2>1, <2>2, LateFlies DEF Once
  <2>4. QED
    BY <1>1, <1>2, <2>2, <2>3, ReplayStep
<1>5. QED
  BY <1>1, <1>3, <1>4

\* Every step of the run's own attempt.
LEMMA AttemptOnce ==
    ASSUME Typed, Guarded, Once, NobodyLeftBehind, NEW w \in Whose, Attempt(w)
    PROVE  Once'
<1>1. w = "own" /\ Own.job \in {"mutate", "replay"}
  <2>1. Own \in AttemptRecord
    BY DEF Typed, JournalTypeOK, Own, Whose
  <2>2. QED
    BY <2>1, NobodyElse DEF AttemptRecord
<1>2. CASE Own.job = "mutate"
  BY <1>1, <1>2, RecordOnce, ReconcileOnce, ExecuteCallOnce, SettleOnce, ClaimOnce, SettleReplayOnce,
     TimeoutCallOnce DEF Attempt
<1>3. CASE Own.job = "replay"
  BY <1>1, <1>3, RecordOnce, ReconcileOnce, SettleOnce, ClaimOnce, ExecuteReplayOnce, SettleReplayOnce,
     TimeoutReplayOnce DEF Attempt
<1>4. QED
  BY <1>1, <1>2, <1>3

\* A late action that lands was seen coming.
LEMMA LandLateOnce ==
    ASSUME Typed, Once, LandLate
    PROVE  Once'
<1>1. PICK late \in flying :
          /\ IF late.replayed THEN Replayed(late.op) ELSE Performed(late.row, late.op)
          /\ flying' = flying \ {late}
          /\ UNCHANGED <<session, attempts, run, todo>>
  BY DEF LandLate
<1>2. PageOnce' /\ Seen' = Seen
  BY <1>1, LateLands DEF Once, Replayed, Performed
<1>3. late.row \in 1..Len(journal) /\ journal \in Seq(JournalRow) /\ UNCHANGED Own
  BY <1>1 DEF Typed, Shapes, JournalTypeOK, Own
<1>4. RowsKept /\ \A r \in 1..Len(journal) : journal'[r].on = journal[r].on
  <2>1. CASE late.replayed
    BY <1>1, <2>1 DEF Replayed, RowsKept
  <2>2. CASE ~late.replayed
    BY <1>1, <1>3, <2>2, RowChanges, RowPerformedRows
  <2>3. QED
    BY <2>1, <2>2
<1>5. \A r \in 1..Len(journal) : Accounted(r) => Accounted(r)'
  <2>1. SUFFICES ASSUME NEW r \in 1..Len(journal), journal[r].done = 0, Late(late, r)
                 PROVE  journal'[r].done # 0
    BY <1>1, <1>4 DEF Accounted, RowsKept
  <2>2. Performed(r, late.op)
    BY <1>1, <2>1 DEF Late
  <2>3. journal'[r].done = 0 + 1
    BY <1>3, <2>1, <2>2, RowPerformed
  <2>4. QED
    BY <2>3
<1>6. Stages'
  BY <1>1, <1>3 DEF Once, Stages
<1>7. RowsApart'
  BY <1>4, StayApart DEF Once
<1>8. NamedAfterCall'
  <2>1. Own.job = "mutate" /\ Own.pc = "execute" => Own.row \in 0..Len(journal)
    BY RowInHand DEF Own, Whose
  <2>2. Own.job = "mutate" /\ Own.pc = "execute" /\ Own.row # 0 => Own.row \in 1..Len(journal)
    BY <1>3, <2>1
  <2>3. QED
    BY <1>1, <1>3, <1>4, <2>2 DEF Once, NamedAfterCall, RowOf, RowsKept
<1>9. CallsSoFar'
  BY <1>1, <1>2, <1>4 DEF Once, CallsSoFar, RowsKept
<1>10. ReplayedHere'
  BY <1>1, <1>2, <1>4 DEF Once, ReplayedHere, RowsKept
<1>11. ClaimedHere'
  <2>1. Own.job = "replay" => Own.row \in 1..Len(journal)
    BY RowInHand DEF Own, Whose
  <2>2. QED
    BY <1>1, <1>2, <1>3, <1>4, <2>1 DEF Once, ClaimedHere, RowsKept
<1>12. CallAccounted'
  BY <1>1, <1>2, <1>3, <1>4, <1>5 DEF Once, CallAccounted, RowOf, RowsKept
<1>13. QED
  BY <1>2, <1>6, <1>7, <1>8, <1>9, <1>10, <1>11, <1>12 DEF Once

-----------------------------------------------------------------------------
\* A step of the workflow while it waits for no attempt.
LEMMA RestStep ==
    ASSUME Typed, Once, Own'.job = "none", Stages', run'.calls = run.calls, RowsKept, PageOnce',
           \/ Seen' = {}
           \/ /\ Seen' = Seen
              /\ session'.pending => session.pending /\ session'.id = session.id
              /\ \A r \in 1..Len(journal) : journal[r].on = session.id => journal'[r].on = session.id
    PROVE  Once'
<1>1. RowsApart'
  BY StayApart DEF Once
<1>2. NamedAfterCall' /\ ClaimedHere' /\ CallAccounted'
  BY DEF NamedAfterCall, ClaimedHere, CallAccounted
<1>3. CallsSoFar'
  BY DEF Once, CallsSoFar, RowsKept
<1>4. ReplayedHere'
  <2>1. CASE Seen' = {}
    BY <2>1 DEF ReplayedHere
  <2>2. CASE /\ Seen' = Seen
             /\ session'.pending => session.pending /\ session'.id = session.id
             /\ \A r \in 1..Len(journal) : journal[r].on = session.id => journal'[r].on = session.id
    <3>1. SUFFICES ASSUME session'.pending, NEW op \in Seen'
                   PROVE  \E r \in 1..Len(journal') : journal'[r].op = op /\ journal'[r].on = session'.id
      BY DEF ReplayedHere
    <3>2. PICK r \in 1..Len(journal) : journal[r].op = op /\ journal[r].on = session.id
      BY <2>2, <3>1 DEF Once, ReplayedHere
    <3>3. QED
      BY <2>2, <3>1, <3>2 DEF RowsKept
  <2>3. QED
    BY <2>1, <2>2
<1>5. QED
  BY <1>1, <1>2, <1>3, <1>4 DEF Once

\* Outside its replay and its calls a run waits for no attempt.
LEMMA NoneInHand ==
    ASSUME Typed, Once, run.phase \notin {"replay", "act"}
    PROVE  Own.job = "none"
BY DEF Once, Stages, Own, Typed, JournalTypeOK, AttemptRecord, Whose

\* Opening the page reloads it, or has a new browser that needs a replay.
LEMMA OpenOnce ==
    ASSUME Typed, Once, NEW answered \in BOOLEAN, OpenWebpage(answered)
    PROVE  Once'
<1>1. /\ run.phase = "open" /\ run \in RunRecord /\ UNCHANGED <<journal, attempts, todo>>
      /\ session \in SessionRow
  BY DEF OpenWebpage, Typed, JournalTypeOK
<1>2. Own.job = "none" /\ Own'.job = "none" /\ RowsKept
  BY <1>1, NoneInHand DEF Own, RowsKept
<1>3. /\ run'.calls = run.calls /\ run'.phase \in {"open", "list", "act", "ending"}
      /\ run'.phase = "list" => session'.pending
      /\ run'.phase = "act" => ~session'.pending
  <2>1. \/ run' = [run EXCEPT !.phase = IF session'.pending THEN "list" ELSE "act"]
        \/ run' = [run EXCEPT !.tries = @ + 1]
        \/ run' = [run EXCEPT !.phase = "ending"]
    BY DEF OpenWebpage
  <2>2. QED
    BY <1>1, <2>1 DEF RunRecord
<1>4. Stages'
  BY <1>2, <1>3 DEF Stages
<1>5. CASE Reconnect
  <2>1. PageOnce' /\ Seen' = Seen /\ session' = session
    BY <1>5, PageStays DEF Reconnect, Once
  <2>2. QED
    BY <1>1, <1>2, <1>3, <1>4, <2>1, RestStep
<1>6. CASE Create
  <2>1. PageOnce' /\ Seen' = {}
    BY <1>6, PageGone DEF Create
  <2>2. QED
    BY <1>2, <1>3, <1>4, <2>1, RestStep
<1>7. QED
  BY <1>5, <1>6 DEF OpenWebpage

\* The list takes back the replays on other browsers, and no other.
LEMMA ListOnce ==
    ASSUME Typed, Once, ListBrowserMutationsForReplay
    PROVE  Once'
<1>1. /\ run.phase = "list" /\ UNCHANGED <<session, attempts, page, flying>>
      /\ run' = [run EXCEPT !.phase = "replay"] /\ run \in RunRecord
      /\ journal' = [r \in DOMAIN journal |-> Recovered(journal[r])]
  BY DEF ListBrowserMutationsForReplay, world, Typed, JournalTypeOK
<1>2. /\ journal \in Seq(JournalRow) /\ Len(journal) \in Nat /\ DOMAIN journal = 1..Len(journal)
      /\ Len(journal') = Len(journal)
  BY RowsListed DEF Typed, JournalTypeOK
<1>3. \A r \in 1..Len(journal) :
          /\ journal'[r].op = journal[r].op /\ journal'[r].key = journal[r].key
          /\ journal'[r].gen = journal[r].gen /\ journal'[r].done = journal[r].done
          /\ journal[r].on = session.id => journal'[r].on = session.id
  <2>1. SUFFICES ASSUME NEW r \in 1..Len(journal)
                 PROVE  /\ journal'[r].op = journal[r].op /\ journal'[r].key = journal[r].key
                        /\ journal'[r].gen = journal[r].gen /\ journal'[r].done = journal[r].done
                        /\ journal[r].on = session.id => journal'[r].on = session.id
    OBVIOUS
  <2>2. journal[r] \in JournalRow /\ journal'[r] = Recovered(journal[r])
    BY <1>1, <1>2, ElementOfSeq
  <2>3. QED
    BY <2>2 DEF Recovered, JournalRow
<1>4. RowsKept
  BY <1>2, <1>3 DEF RowsKept
<1>5. Own.job = "none" /\ Own'.job = "none"
  BY <1>1, NoneInHand DEF Own
<1>6. run'.calls = run.calls /\ run'.phase = "replay"
  BY <1>1 DEF RunRecord
<1>7. Stages'
  BY <1>1, <1>5, <1>6 DEF Once, Stages
<1>8. PageOnce' /\ Seen' = Seen
  BY <1>1, PageStays DEF Once
<1>9. QED
  BY <1>1, <1>3, <1>4, <1>5, <1>6, <1>7, <1>8, RestStep

\* The next row to replay is marked before it is replayed.
LEMMA ReplayNextOnce ==
    ASSUME Typed, Once, ReplayNext
    PROVE  Once'
<1>1. /\ run.phase = "replay" /\ todo # {} /\ Own.job = "none" /\ "own" \in Whose
      /\ UNCHANGED <<journal, session, todo, page, flying>> /\ run \in RunRecord
  BY DEF ReplayNext, world, Own, Whose, Typed, JournalTypeOK
<1>2. PageOnce' /\ Seen' = Seen
  BY <1>1, PageStays DEF Once
<1>3. CASE run' = [run EXCEPT !.phase = "ending"] /\ UNCHANGED attempts
  <2>1. run'.calls = run.calls /\ run'.phase = "ending" /\ Own'.job = "none"
    BY <1>1, <1>3 DEF RunRecord, Own
  <2>2. Stages'
    BY <2>1 DEF Stages
  <2>3. QED
    BY <1>1, <1>2, <2>1, <2>2, RestStep DEF RowsKept
<1>4. CASE /\ Put("own", [NoAttempt EXCEPT !.job = "replay", !.pc = "claim",
                                           !.row = Earliest.row, !.try = 1])
           /\ UNCHANGED run
  <2>1. Own' = [NoAttempt EXCEPT !.job = "replay", !.pc = "claim", !.row = Earliest.row, !.try = 1]
    BY <1>1, <1>4, PutOne DEF Own
  <2>2. Own'.job = "replay" /\ Own'.pc = "claim"
    BY <2>1 DEF NoAttempt
  <2>3. Stages'
    BY <1>1, <1>4, <2>2 DEF Once, Stages
  <2>4. NamedAfterCall' /\ ClaimedHere' /\ CallAccounted'
    BY <2>2 DEF NamedAfterCall, ClaimedHere, CallAccounted
  <2>5. RowsApart' /\ CallsSoFar' /\ ReplayedHere'
    BY <1>1, <1>2, <1>4 DEF Once, RowsApart, CallsSoFar, ReplayedHere
  <2>6. QED
    BY <1>2, <2>3, <2>4, <2>5 DEF Once
<1>5. QED
  BY <1>3, <1>4 DEF ReplayNext

\* A call that starts has no row, and nothing of it is seen.
LEMMA StartCallOnce ==
    ASSUME Typed, Once, NEW kinds \in Calls, StartCall(kinds)
    PROVE  Once'
<1>1. /\ run.phase = "act" /\ "own" \in Whose /\ UNCHANGED <<journal, session, todo, page, flying>>
      /\ run \in RunRecord /\ run.calls \in Nat
  BY DEF StartCall, world, Whose, Typed, JournalTypeOK, RunRecord
<1>2. PICK id : /\ run' = [run EXCEPT !.calls = @ + 1, !.id = id]
                /\ Put("own", [NoAttempt EXCEPT
                       !.job = "mutate", !.pc = "record", !.call = run.calls + 1,
                       !.id = id, !.kinds = kinds, !.field = 1, !.try = 1])
  BY DEF StartCall
<1>3. run'.phase = "act" /\ run'.calls = run.calls + 1
  BY <1>1, <1>2 DEF RunRecord
<1>4. Own'.job = "mutate" /\ Own'.pc = "record" /\ Own'.call = run.calls + 1
  <2>1. Own' = [NoAttempt EXCEPT !.job = "mutate", !.pc = "record", !.call = run.calls + 1,
                                 !.id = id, !.kinds = kinds, !.field = 1, !.try = 1]
    BY <1>1, <1>2, PutOne DEF Own
  <2>2. QED
    BY <2>1 DEF NoAttempt
<1>5. PageOnce' /\ Seen' = Seen
  BY <1>1, PageStays DEF Once
<1>6. /\ \A r \in 1..Len(journal) : journal[r].op[1] <= run.calls /\ journal[r].op[1] \in Nat
      /\ \A op \in Seen : op[1] <= run.calls /\ op[1] \in Nat
  <2>1. \A op \in Ops : op[1] \in Nat
    BY DEF Ops
  <2>2. \A r \in 1..Len(journal) : journal[r].op \in Ops
    <3>1. \A r \in 1..Len(journal) : journal[r] \in JournalRow
      BY ElementOfSeq DEF Typed, JournalTypeOK
    <3>2. QED
      BY <3>1 DEF JournalRow
  <2>3. QED
    BY <2>1, <2>2 DEF Once, CallsSoFar, Seen
<1>7. Stages'
  BY <1>1, <1>3, <1>4 DEF Once, Stages
<1>8. RowsApart' /\ ReplayedHere' /\ ClaimedHere'
  BY <1>1, <1>4, <1>5 DEF Once, RowsApart, ReplayedHere, ClaimedHere
<1>9. \A n \in Nat : n <= run.calls => n <= run.calls + 1 /\ n # run.calls + 1
  BY <1>1
<1>10. NamedAfterCall'
  BY <1>1, <1>4, <1>6, <1>9 DEF NamedAfterCall
<1>11. CallsSoFar'
  BY <1>1, <1>3, <1>5, <1>6, <1>9 DEF CallsSoFar
<1>12. CallAccounted'
  <2>1. ASSUME NEW field, <<run.calls + 1, field>> \in Seen
        PROVE  FALSE
    <3>1. <<run.calls + 1, field>>[1] = run.calls + 1
      OBVIOUS
    <3>2. QED
      BY <1>1, <1>6, <2>1, <3>1
  <2>2. QED
    BY <1>4, <1>5, <2>1 DEF CallAccounted
<1>13. QED
  BY <1>5, <1>7, <1>8, <1>10, <1>11, <1>12 DEF Once

\* The answer of an attempt ends it, or has it tried again.
LEMMA ReportOnce ==
    ASSUME Typed, Once, Report
    PROVE  Once'
<1>1. /\ Own.pc = "report" /\ Own \in AttemptRecord /\ "own" \in Whose /\ run \in RunRecord
      /\ UNCHANGED <<journal, session, page, flying>>
  BY DEF Report, world, Own, Typed, JournalTypeOK, Whose
<1>2. Own.job \in {"mutate", "replay"}
  BY <1>1 DEF AttemptRecord, Typed, Shapes, AttemptShape, Own
<1>3. \/ Put("own", Retried(Own)) /\ UNCHANGED <<run, todo>>
      \/ Put("own", NoAttempt) /\ (run' = run \/ run' = [run EXCEPT !.phase = "ending"])
  BY DEF Report, GiveUp, Own
<1>4. /\ \/ /\ Own'.job = Own.job /\ Own'.id = Own.id /\ Own'.call = Own.call
            /\ Own'.pc = IF Own.job = "replay" THEN "claim" ELSE "record"
            /\ run' = run /\ todo' = todo
         \/ Own'.job = "none" /\ run'.phase \in {run.phase, "ending"}
      /\ run'.calls = run.calls
  <2>1. CASE Put("own", Retried(Own)) /\ UNCHANGED <<run, todo>>
    <3>1. Own' = Retried(Own)
      BY <1>1, <2>1, PutOne DEF Own
    <3>2. QED
      BY <1>1, <2>1, <3>1 DEF Retried, AttemptRecord
  <2>2. CASE Put("own", NoAttempt) /\ (run' = run \/ run' = [run EXCEPT !.phase = "ending"])
    <3>1. Own' = NoAttempt
      BY <1>1, <2>2, PutOne DEF Own
    <3>2. QED
      BY <1>1, <2>2, <3>1 DEF NoAttempt, RunRecord
  <2>3. QED
    BY <1>3, <2>1, <2>2
<1>5. RowsKept /\ PageOnce' /\ Seen' = Seen
  BY <1>1, PageStays DEF RowsKept, Once
<1>6. CASE Own.job = "mutate"
  BY <1>1, <1>4, <1>5, <1>6, CallStep
<1>7. CASE Own.job = "replay"
  <2>1. ClaimedHere' /\ Own.row \in 1..Len(journal)
    BY <1>4, <1>7, RowInHand DEF ClaimedHere, Own, Whose
  <2>2. QED
    BY <1>1, <1>4, <1>5, <1>7, <2>1, ReplayStep
<1>8. QED
  BY <1>2, <1>6, <1>7

\* Every step of the workflow.
LEMMA WorkflowOnce ==
    ASSUME Typed, Once, NobodyLeftBehind', Workflow
    PROVE  Once'
<1>1. run \in RunRecord /\ session \in SessionRow
  BY DEF Typed, JournalTypeOK
<1>2. ASSUME Own.job = "none", UNCHANGED <<journal, attempts, page, flying>>, Stages',
             run'.calls = run.calls, session'.pending => session.pending /\ session'.id = session.id
      PROVE  Once'
  <2>1. PageOnce' /\ Seen' = Seen /\ RowsKept /\ Own'.job = "none"
    BY <1>2, PageStays DEF Once, RowsKept, Own
  <2>2. QED
    BY <1>2, <2>1, RestStep
<1>3. ASSUME NEW newGeneration \in BOOLEAN, BeginRun(newGeneration)
      PROVE  Once'
  <2>1. /\ UNCHANGED <<journal, attempts, page, flying>>
        /\ Own.job = "none" /\ Own'.job = "none"
        /\ run'.calls = run.calls /\ run'.phase = "open"
        /\ session'.pending = session.pending /\ session'.id = session.id
    BY <1>1, <1>3, NoneInHand DEF BeginRun, world, Own, RunRecord, SessionRow
  <2>2. Stages'
    BY <2>1 DEF Stages
  <2>3. QED
    BY <1>2, <2>1, <2>2
<1>4. CASE CompleteBrowserReplay
  <2>1. /\ UNCHANGED <<journal, attempts, page, flying>>
        /\ run.phase = "replay" /\ todo = {} /\ run'.calls = run.calls /\ run'.phase = "act"
        /\ session'.pending = FALSE
    BY <1>1, <1>4 DEF CompleteBrowserReplay, world, RunRecord, SessionRow
  <2>2. Own.job = "none" /\ Own'.job = "none"
    BY <2>1 DEF Once, Stages, Own, Typed, JournalTypeOK, AttemptRecord, Whose
  <2>3. Stages'
    BY <2>1, <2>2 DEF Stages
  <2>4. QED
    BY <1>2, <2>1, <2>2, <2>3
<1>5. CASE Leave \/ CancelRun
  <2>1. /\ UNCHANGED <<journal, session, page, flying>>
        /\ run'.calls = run.calls /\ run'.phase = "ending"
    BY <1>1, <1>5 DEF Leave, CancelRun, world, RunRecord
  <2>2. Own.job = "none" /\ UNCHANGED attempts
    <3>1. CASE Leave
      BY <3>1 DEF Leave, Own
    <3>2. CASE CancelRun
      <4>1. Own.job # "none" => attempts'["left"] = Own
        BY <3>2 DEF CancelRun, Own, Typed, JournalTypeOK, Whose
      <4>2. Own.job = "none"
        BY <4>1 DEF NobodyLeftBehind
      <4>3. QED
        BY <3>2, <4>2 DEF CancelRun, Own
    <3>3. QED
      BY <1>5, <3>1, <3>2
  <2>3. Stages'
    BY <2>1, <2>2 DEF Stages, Own
  <2>4. QED
    BY <1>2, <2>1, <2>2, <2>3
<1>6. ASSUME NEW deleted \in BOOLEAN, NEW cleared \in BOOLEAN, CloseBrowser(deleted, cleared)
      PROVE  Once'
  <2>1. /\ UNCHANGED <<journal, attempts>>
        /\ Own.job = "none" /\ Own'.job = "none"
        /\ run'.calls = run.calls /\ run'.phase = "idle"
    BY <1>1, <1>6, NoneInHand DEF CloseBrowser, Own, RunRecord
  <2>2. Stages'
    BY <2>1 DEF Stages
  <2>3. CASE deleted
    <3>1. PageOnce' /\ Seen' = {}
      BY <1>6, <2>3, PageGone DEF CloseBrowser
    <3>2. QED
      BY <2>1, <2>2, <3>1, RestStep DEF RowsKept
  <2>4. CASE ~deleted
    <3>1. UNCHANGED <<session, page, flying>>
      BY <1>6, <2>4 DEF CloseBrowser
    <3>2. QED
      BY <1>2, <2>1, <2>2, <3>1
  <2>5. QED
    BY <2>3, <2>4
<1>7. QED
  BY <1>3, <1>4, <1>5, <1>6, OpenOnce, ListOnce, ReplayNextOnce, StartCallOnce, ReportOnce DEF Workflow

\* The loss of the browser takes its page along.
LEMMA ExpireOnce ==
    ASSUME Typed, Once, Expire
    PROVE  Once'
<1>1. UNCHANGED <<journal, session, Own, run, todo>> /\ page' = <<>> /\ flying' = {}
  BY DEF Expire, Own
<1>2. PageOnce' /\ Seen' = {}
  BY <1>1, PageGone
<1>3. Stages' /\ RowsApart' /\ NamedAfterCall'
  BY <1>1 DEF Once, Stages, RowsApart, NamedAfterCall, RowOf
<1>4. CallsSoFar' /\ ReplayedHere' /\ ClaimedHere' /\ CallAccounted'
  BY <1>1, <1>2 DEF Once, CallsSoFar, ReplayedHere, ClaimedHere, CallAccounted
<1>5. QED
  BY <1>2, <1>3, <1>4 DEF Once

\* Every step that leaves nobody behind.
LEMMA StepOnce ==
    ASSUME Typed, Guarded, Once, NobodyLeftBehind, NobodyLeftBehind', [Next]_vars
    PROVE  Once'
<1>1. ~ReportInVain
  BY DEF ReportInVain, NobodyLeftBehind, Typed, Shapes, AttemptShape, Whose
<1>2. CASE UNCHANGED vars
  <2>1. UNCHANGED <<journal, session, page, flying, run, todo, Own>>
    BY <1>2 DEF vars, Own
  <2>2. PageOnce' /\ Seen' = Seen
    BY <2>1, PageStays DEF Once
  <2>3. Stages' /\ RowsApart' /\ NamedAfterCall' /\ CallsSoFar'
    BY <2>1, <2>2 DEF Once, Stages, RowsApart, NamedAfterCall, RowOf, CallsSoFar
  <2>4. ReplayedHere' /\ ClaimedHere'
    BY <2>1, <2>2 DEF Once, ReplayedHere, ClaimedHere
  <2>5. CallAccounted'
    BY <2>1, <2>2 DEF Once, CallAccounted, RowOf, Accounted
  <2>6. QED
    BY <2>2, <2>3, <2>4, <2>5 DEF Once
<1>3. QED
  BY <1>1, <1>2, WorkflowOnce, AttemptOnce, LandLateOnce, ExpireOnce DEF Next

\* While no cancelled run leaves an attempt behind, nothing is seen twice on a
\* browser: what calls and replays do there is kept apart by the rows.
THEOREM OnceInvariant == Spec /\ []NobodyLeftBehind => []Once
<1>1. Init => Once
  <2>1. SUFFICES ASSUME Init
                 PROVE  Once
    OBVIOUS
  <2>2. /\ Len(journal) = 0 /\ Len(page) = 0 /\ flying = {} /\ Own.job = "none"
        /\ run.phase = "idle" /\ ~session.pending
    BY <2>1, EmptySeq DEF Init, Own, NoAttempt, Whose
  <2>3. Seen = {}
    BY <2>2 DEF Seen
  <2>4. QED
    BY <2>2, <2>3 DEF Once, PageOnce, Stages, RowsApart, NamedAfterCall, CallsSoFar,
                      ReplayedHere, ClaimedHere, CallAccounted
<1>2. Typed /\ Guarded /\ Once /\ NobodyLeftBehind /\ NobodyLeftBehind' /\ [Next]_vars => Once'
  BY StepOnce
<1>3. QED
  BY <1>1, <1>2, TypingInvariant, GuardInvariant, PTL DEF Spec

\* No action happens twice on one browser while no cancelled run leaves an
\* attempt behind, whatever else is lost, times out, expires or lands late
\* (ReplayBrowserMutation, MarkBrowserMutationReplayPending).
THEOREM NothingTwiceOnABrowser == Spec /\ []NobodyLeftBehind => []OncePerBrowser
<1>1. Typed /\ Once => OncePerBrowser
  BY LenProperties DEF Typed, JournalTypeOK, Once, PageOnce, OncePerBrowser
<1>2. QED
  BY <1>1, TypingInvariant, OnceInvariant, PTL

\* Nobody is left behind when no run is cancelled.
LEMMA UncancelledLeaveNobody == MaxCancels = 0 => (Spec => []NobodyLeftBehind)
<1> SUFFICES ASSUME MaxCancels = 0
             PROVE  Spec => []NobodyLeftBehind
  OBVIOUS
<1>1. Init => NobodyLeftBehind
  BY DEF Init, NobodyLeftBehind, NoAttempt, Whose
<1>2. Typed /\ NobodyLeftBehind /\ [Next]_vars => NobodyLeftBehind'
  <2>1. SUFFICES ASSUME Typed, NobodyLeftBehind, [Next]_vars
                 PROVE  attempts'["left"] = attempts["left"]
    BY DEF NobodyLeftBehind
  <2>2. ASSUME NEW attempt, Put("own", attempt)
        PROVE  attempts'["left"] = attempts["left"]
    BY <2>1, <2>2, PutOne DEF Whose
  <2>3. CASE Workflow
    <3>1. ~CancelRun
      <4>1. spent["cancels"] \in Nat
        BY <2>1 DEF Typed, JournalTypeOK, Bounded
      <4>2. QED
        BY <4>1 DEF CancelRun, Spend
    <3>2. UNCHANGED attempts \/ \E attempt : Put("own", attempt)
      BY <2>3, <3>1 DEF Workflow, BeginRun, OpenWebpage, ListBrowserMutationsForReplay, ReplayNext,
         CompleteBrowserReplay, StartCall, Leave, CloseBrowser, Report, GiveUp
    <3>3. QED
      BY <2>2, <3>2
  <2>4. ASSUME NEW w \in Whose, Attempt(w)
        PROVE  attempts'["left"] = attempts["left"]
    <3>1. w = "own"
      BY <2>1, <2>4, NobodyElse
    <3>2. \E attempt : Put("own", attempt)
      BY <2>4, <3>1 DEF Attempt, Record, Reconcile, Execute, Settle, Claim, SettleReplay, Timeout,
         GiveUp, FieldOver, Fail, Goto
    <3>3. QED
      BY <2>2, <3>2
  <2>5. ~ReportInVain
    BY <2>1 DEF ReportInVain, NobodyLeftBehind, Typed, Shapes, AttemptShape, Whose
  <2>6. LandLate \/ Expire \/ UNCHANGED vars => UNCHANGED attempts
    BY DEF LandLate, Expire, vars
  <2>7. QED
    BY <2>1, <2>3, <2>4, <2>5, <2>6 DEF Next
<1>3. QED
  BY <1>1, <1>2, TypingInvariant, PTL DEF Spec

\* ... and then no action happens twice on one browser.
COROLLARY UncancelledActOnce == MaxCancels = 0 => (Spec => []OncePerBrowser)
BY UncancelledLeaveNobody, NothingTwiceOnABrowser, PTL

-----------------------------------------------------------------------------
(* Rows that are applied keep the order of their actions on the page.       *)

\* Every call is of one field: TypeMultiple may retry a field after those
\* behind it.
SingleFields == \A call \in Calls : Len(call) = 1

InGeneration(r) == journal[r].gen = session.gen

\* A row that is applied, or may still come to be on this browser.
Standing(r) ==
    /\ InGeneration(r)
    /\ \/ journal[r].status = "applied"
       \/ Own.job = "mutate" /\ journal[r].op[1] = Own.call
       \/ Own.job = "replay" /\ Own.pc = "settle" /\ Own.row = r

\* What was taken for done is never taken back.
AssumedGrows == assumed \subseteq assumed'

PageInOrder ==
    \A r, q \in 1..Len(journal) : Standing(r) /\ Standing(q) /\ r < q /\ journal[r].op \notin assumed =>
        \A i, j \in 1..Len(page) : page[i] = journal[r].op /\ page[j] = journal[q].op => i < j

\* Rows follow the calls, and no browser nor generation is of a later number.
RowsInOrder ==
    /\ \A r, q \in 1..Len(journal) : r < q => journal[r].op[1] < journal[q].op[1]
    /\ \A r \in 1..Len(journal) :
           journal[r].op[2] = 1 /\ journal[r].gen <= session.gen /\ journal[r].on <= spent["sessions"]
    /\ session.id # 0 => session.id = spent["sessions"]
    /\ session.status = "active" \/ run.phase = "list" => session.id # 0

\* What is still under way is not applied, nor about to be, unless its effect
\* was there before it.
LatesOpen ==
    /\ \A late \in flying : \A r \in 1..Len(journal) :
           journal[r].op = late.op => journal[r].status # "applied" \/ late.op \in assumed
    /\ Own.job = "mutate" /\ Own.pc = "settle" =>
           \A late \in flying : late.op # <<Own.call, Own.field>>
    /\ Own.job = "replay" /\ Own.pc = "settle" =>
           \A late \in flying : late.op # journal[Own.row].op

\* A row in hand is pending, so that what is lost of it is not applied.
HandPending ==
    Own.job # "none" /\ Own.pc = "execute" /\ Own.row # 0 => journal[Own.row].status = "pending"

\* Until the replay is complete, the rows marked for this browser come first.
MarkedFirst ==
    session.pending /\ session.id # 0 =>
        \A r, q \in 1..Len(journal) :
            r < q /\ InGeneration(r) /\ InGeneration(q) /\ journal[q].on = session.id =>
                journal[r].on = session.id

\* A replay goes through the generation's rows in their order and marks them.
ReplayedSoFar ==
    /\ run.phase = "replay" =>
           /\ session.id # 0
           /\ \A listed \in todo : InGeneration(listed.row)
           /\ \A r \in 1..Len(journal) :
                  InGeneration(r) /\ (\A listed \in todo : listed.row # r) => journal[r].on = session.id
    /\ Own.job = "replay" =>
           /\ Own.row = Earliest.row
           /\ Own.pc \in {"execute", "settle"} => journal[Own.row].on = session.id
           /\ Own.pc = "report" /\ Own.errors = "none" => journal[Own.row].on = session.id
           /\ Own.pc = "execute" => \A q \in 1..Len(journal) :
                  InGeneration(q) /\ q > Own.row => journal[q].on # session.id

Ordered == PageInOrder /\ RowsInOrder /\ LatesOpen /\ HandPending /\ MarkedFirst /\ ReplayedSoFar

\* All that is known of a state when nobody is left behind and no key stands for two calls.
Known == Typed /\ Guarded /\ Once /\ Truthful
-----------------------------------------------------------------------------
\* What the page shows is seen.
LEMMA ShownIsSeen ==
    ASSUME Typed, NEW r \in 1..Len(journal), NEW i \in 1..Len(page), page[i] = journal[r].op
    PROVE  journal[r].op \in Seen
<1>1. journal[r].op \in Ops
  <2>1. journal[r] \in JournalRow
    BY ElementOfSeq DEF Typed, JournalTypeOK
  <2>2. QED
    BY <2>1 DEF JournalRow
<1>2. QED
  BY <1>1 DEF Seen

\* The order stays if no row that the page shows comes to stand.
LEMMA OrderStays ==
    ASSUME Typed, AssumedGrows, PageInOrder, RowsKept, page' = page \/ page' = Append(page, Start),
           \A r \in 1..Len(journal) : Standing(r)' => Standing(r) \/ journal[r].op \notin Seen
    PROVE  PageInOrder'
<1>1. page \in Seq(Ops \cup {Start}) /\ Len(page) \in Nat
  BY DEF Typed, JournalTypeOK
<1>2. \A r \in 1..Len(journal) : journal[r].op \in Ops
  <2>1. \A r \in 1..Len(journal) : journal[r] \in JournalRow
    BY ElementOfSeq DEF Typed, JournalTypeOK
  <2>2. QED
    BY <2>1 DEF JournalRow
<1>3. \A i \in 1..Len(page') : page'[i] = Start \/ (i \in 1..Len(page) /\ page'[i] = page[i])
  <2>1. CASE page' = page
    BY <2>1
  <2>2. CASE page' = Append(page, Start)
    BY <1>1, <2>2, AppendProperties
  <2>3. QED
    BY <2>1, <2>2
<1>4. SUFFICES ASSUME NEW r \in 1..Len(journal'), NEW q \in 1..Len(journal'), Standing(r)', Standing(q)', r < q,
                      journal'[r].op \notin assumed', NEW i \in 1..Len(page'), NEW j \in 1..Len(page'),
                      page'[i] = journal'[r].op, page'[j] = journal'[q].op
               PROVE  i < j
  BY DEF PageInOrder
<1>5. /\ r \in 1..Len(journal) /\ q \in 1..Len(journal)
      /\ journal'[r].op = journal[r].op /\ journal'[q].op = journal[q].op
  BY <1>4 DEF RowsKept
<1>6. /\ i \in 1..Len(page) /\ page[i] = journal[r].op
      /\ j \in 1..Len(page) /\ page[j] = journal[q].op
  BY <1>2, <1>3, <1>4, <1>5, StartIsNoAction
<1>7. Standing(r) /\ Standing(q)
  BY <1>4, <1>5, <1>6, ShownIsSeen
<1>8. QED
  BY <1>4, <1>5, <1>6, <1>7 DEF PageInOrder, AssumedGrows

\* The order grows by an action behind whose row nothing stands that is shown.
LEMMA OrderGrows ==
    ASSUME Typed, AssumedGrows, PageInOrder, RowsKept, NEW op, page' = Append(page, op), op \in Ops,
           \A r \in 1..Len(journal) : Standing(r)' =>
               Standing(r) \/ journal[r].op \notin Seen \/ (journal[r].op = op /\ op \notin Seen),
           \A r, q \in 1..Len(journal) : Standing(r)' /\ Standing(q)' /\ r < q /\ journal[r].op = op
                                         /\ op \notin assumed' =>
               journal[q].op \notin Seen /\ journal[q].op # op
    PROVE  PageInOrder'
<1>1. page \in Seq(Ops \cup {Start}) /\ Len(page) \in Nat
  BY DEF Typed, JournalTypeOK
<1>2. \A i \in 1..Len(page') : \/ i = Len(page) + 1 /\ page'[i] = op
                               \/ i \in 1..Len(page) /\ page'[i] = page[i]
  BY <1>1, AppendProperties
<1>3. SUFFICES ASSUME NEW r \in 1..Len(journal'), NEW q \in 1..Len(journal'), Standing(r)', Standing(q)', r < q,
                      journal'[r].op \notin assumed', NEW i \in 1..Len(page'), NEW j \in 1..Len(page'),
                      page'[i] = journal'[r].op, page'[j] = journal'[q].op
               PROVE  i < j
  BY DEF PageInOrder
<1>4. /\ r \in 1..Len(journal) /\ q \in 1..Len(journal)
      /\ journal'[r].op = journal[r].op /\ journal'[q].op = journal[q].op
  BY <1>3 DEF RowsKept
<1>5. CASE i \in 1..Len(page) /\ page'[i] = page[i] /\ j \in 1..Len(page) /\ page'[j] = page[j]
  <2>1. Standing(r) /\ Standing(q)
    BY <1>3, <1>4, <1>5, ShownIsSeen
  <2>2. QED
    BY <1>3, <1>4, <1>5, <2>1 DEF PageInOrder, AssumedGrows
<1>6. CASE i = Len(page) + 1 /\ page'[i] = op
  <2>1. journal[q].op \notin Seen /\ journal[q].op # op
    BY <1>3, <1>4, <1>6
  <2>2. QED
    BY <1>2, <1>3, <1>4, <2>1, ShownIsSeen
<1>7. CASE i \in 1..Len(page) /\ j = Len(page) + 1
  BY <1>1, <1>7
<1>8. QED
  BY <1>2, <1>5, <1>6, <1>7

\* On a page that is gone nothing is out of order.
LEMMA OrderGone ==
    ASSUME Typed, page' = <<>> \/ page' = <<Start>>, RowsKept
    PROVE  PageInOrder'
<1>1. \A i \in 1..Len(page') : page'[i] = Start
  <2>1. CASE page' = <<>>
    <3>1. Len(page') = 0
      BY <2>1, EmptySeq
    <3>2. QED
      BY <3>1
  <2>2. CASE page' = <<Start>>
    <3>1. Len(page') = 1 /\ page'[1] = Start
      BY <2>2
    <3>2. QED
      BY <3>1
  <2>3. QED
    BY <2>1, <2>2
<1>2. \A r \in 1..Len(journal') : journal'[r].op # Start
  <2>1. \A r \in 1..Len(journal) : journal[r] \in JournalRow
    BY ElementOfSeq DEF Typed, JournalTypeOK
  <2>2. \A r \in 1..Len(journal) : journal[r].op \in Ops
    BY <2>1 DEF JournalRow
  <2>3. QED
    BY <2>2, StartIsNoAction DEF RowsKept
<1>3. QED
  BY <1>1, <1>2 DEF PageInOrder

\* The numbers that order the rows are natural numbers.
LEMMA RowNumbers ==
    ASSUME Typed
    PROVE  /\ \A r \in 1..Len(journal) :
                  /\ journal[r].op \in Ops /\ journal[r].op[1] \in Nat
                  /\ journal[r].gen \in Nat /\ journal[r].on \in Nat
           /\ session.id \in Nat /\ session.gen \in Nat /\ spent["sessions"] \in Nat
           /\ run.calls \in Nat /\ Len(journal) \in Nat
<1>1. \A r \in 1..Len(journal) : journal[r] \in JournalRow
  BY ElementOfSeq DEF Typed, JournalTypeOK
<1>2. \A op \in Ops : op[1] \in Nat
  BY DEF Ops
<1>3. session \in SessionRow /\ spent \in [Bounded -> Nat] /\ run \in RunRecord /\ journal \in Seq(JournalRow)
  BY DEF Typed, JournalTypeOK
<1>4. run.calls \in Nat
  BY <1>3 DEF RunRecord
<1>5. session.id \in Nat /\ session.gen \in Nat /\ spent["sessions"] \in Nat /\ Len(journal) \in Nat
  BY <1>3 DEF SessionRow, Bounded
<1>6. \A r \in 1..Len(journal) :
          journal[r].op \in Ops /\ journal[r].gen \in Nat /\ journal[r].on \in Nat
  BY <1>1 DEF JournalRow
<1>7. QED
  BY <1>2, <1>4, <1>5, <1>6

\* Behind the row of the current call there is none.
LEMMA LastRow ==
    ASSUME Typed, Once, RowsInOrder, Own.job = "mutate", NEW r \in 1..Len(journal), NEW q \in 1..Len(journal),
           journal[r].op[1] = Own.call
    PROVE  ~(r < q)
<1>1. journal[r].op[1] = run.calls /\ journal[q].op[1] <= run.calls
  BY DEF Once, Stages, CallsSoFar
<1>2. r < q => journal[r].op[1] < journal[q].op[1]
  BY DEF RowsInOrder
<1>3. QED
  BY <1>1, <1>2, RowNumbers

\* A row that is not marked for this browser is not seen before the replay is complete.
LEMMA UnmarkedUnseen ==
    ASSUME Once, session.pending, NEW r \in 1..Len(journal), journal[r].on # session.id
    PROVE  journal[r].op \notin Seen
BY DEF Once, ReplayedHere, RowsApart

-----------------------------------------------------------------------------
\* A step of the attempt of a call keeps the order, given that it keeps the
\* page's and applies nothing that is under way.
LEMMA CallStepOrder ==
    ASSUME Known, AssumedGrows, Ordered, Own.job = "mutate", UNCHANGED session, spent'["sessions"] = spent["sessions"],
           run'.phase \in {run.phase, "ending"}, Own'.job \in {"mutate", "none"},
           RowsKept, \A r \in 1..Len(journal) : journal'[r].on \in {journal[r].on, 0},
           PageInOrder', LatesOpen', HandPending'
    PROVE  Ordered'
<1>1. run.phase = "act" /\ ~session.pending
  BY DEF Known, Once, Stages
<1>2. RowsInOrder'
  <2>1. \A r \in 1..Len(journal) : journal'[r].on <= spent["sessions"]
    <3>1. \A r \in 1..Len(journal) : journal[r].on <= spent["sessions"]
      BY DEF Ordered, RowsInOrder
    <3>2. QED
      BY <3>1, RowNumbers DEF Known
  <2>2. session.status = "active" => session.id # 0
    BY DEF Ordered, RowsInOrder
  <2>3. run'.phase # "list"
    BY <1>1
  <2>4. \A r, q \in 1..Len(journal) : r < q => journal[r].op[1] < journal[q].op[1]
    BY DEF Ordered, RowsInOrder
  <2>5. /\ session.id # 0 => session.id = spent["sessions"]
        /\ \A r \in 1..Len(journal) : journal[r].gen <= session.gen /\ journal[r].op[2] = 1
    BY DEF Ordered, RowsInOrder
  <2>6. QED
    BY <2>1, <2>2, <2>3, <2>4, <2>5 DEF RowsInOrder, RowsKept
<1>3. MarkedFirst' /\ ReplayedSoFar'
  BY <1>1 DEF MarkedFirst, ReplayedSoFar
<1>4. QED
  BY <1>2, <1>3 DEF Ordered

\* ... among them the steps that leave the page alone.  Only the row of the
\* call may come to be applied, and only if its action is not under way.
LEMMA QuietCallOrder ==
    ASSUME Known, AssumedGrows, Ordered, Own.job = "mutate", UNCHANGED <<session, run, page, flying>>,
           spent'["sessions"] = spent["sessions"],
           Own'.job = "mutate", Own'.call = Own.call, Own'.pc # "settle", HandPending',
           RowsKept, \A r \in 1..Len(journal) : journal'[r].on \in {journal[r].on, 0},
           \A r \in 1..Len(journal) : journal'[r].status = "applied" =>
               \/ journal[r].status = "applied"
               \/ /\ journal[r].op[1] = Own.call
                  /\ \/ journal[r].op \in assumed'
                      \/ \A late \in flying : late.op # journal[r].op
    PROVE  Ordered'
<1>1. \A r \in 1..Len(journal) : Standing(r)' => Standing(r)
  BY DEF Standing, InGeneration, RowsKept
<1>2. PageInOrder'
  BY <1>1, OrderStays DEF Known, Ordered
<1>3. LatesOpen'
  BY DEF Ordered, LatesOpen, RowsKept, AssumedGrows
<1>4. QED
  BY <1>2, <1>3, CallStepOrder

\* The row in hand is that of the call's field.
LEMMA HandIsOwn ==
    ASSUME Known, Own.job = "mutate", Own.pc \in {"reconcile", "execute", "settle"}, Own.row # 0
    PROVE  /\ Own.row \in 1..Len(journal)
           /\ journal[Own.row].op = <<Own.call, Own.field>> /\ journal[Own.row].op[1] = Own.call
           /\ \A r \in 1..Len(journal) : journal[r].op = <<Own.call, Own.field>> => r = Own.row
<1>1. Own.row \in 0..Len(journal) \/ Own.row \in 1..Len(journal)
  BY RowInHand DEF Known, Own, Whose
<1>2. Own.row \in 1..Len(journal)
  BY <1>1, RowNumbers DEF Known
<1>3. journal[Own.row].op = <<Own.call, Own.field>>
  BY DEF Known, Truthful, AttemptsTruthful, AttemptTruthful, Own, Whose
<1>4. QED
  BY <1>2, <1>3 DEF Known, Once, RowsApart

\* The end of a field, after which no row is in hand.
LEMMA FieldOverOrder ==
    ASSUME Known, AssumedGrows, Ordered, NobodyLeftBehind, Own.job = "mutate",
           UNCHANGED <<session, run, page, flying>>, spent'["sessions"] = spent["sessions"],
           NEW error \in {"none", "retry", "fatal"}, FieldOver("own", error),
           RowsKept, \A r \in 1..Len(journal) : journal'[r].on \in {journal[r].on, 0},
           \A r \in 1..Len(journal) : journal'[r].status = "applied" =>
               \/ journal[r].status = "applied"
               \/ /\ journal[r].op[1] = Own.call
                  /\ \/ journal[r].op \in assumed'
                      \/ \A late \in flying : late.op # journal[r].op
    PROVE  Ordered'
<1>1. Own'.job = "mutate" /\ Own'.pc \in {"record", "report"} /\ Own'.call = Own.call
  BY OwnFieldOver DEF Known
<1>2. HandPending'
  BY <1>1 DEF HandPending
<1>3. QED
  BY <1>1, <1>2, QuietCallOrder

\* The store's part in a call does not count browsers.
LEMMA SessionsSpent ==
    ASSUME Typed, NEW what \in Bounded, NEW max, Spend(what, max), what # "sessions"
    PROVE  spent'["sessions"] = spent["sessions"]
BY DEF Spend, Typed, JournalTypeOK, Bounded

\* Reconciling applies a row whose action is shown, and so not under way, or
\* assumed.
LEMMA ReconcileOrder ==
    ASSUME Known, AssumedGrows, Ordered, NobodyLeftBehind, Reconcile("own")
    PROVE  Ordered'
<1>1. /\ Own.job = "mutate" /\ Own.pc = "reconcile"
      /\ UNCHANGED <<session, run, page, flying, spent>>
  BY DEF Reconcile, At, Own
<1>2. Own.row \in 1..Len(journal) /\ journal \in Seq(JournalRow)
  BY <1>1, RowInHand DEF Known, Own, Whose
<1>3. PICK error \in {"none", "retry", "fatal"} : FieldOver("own", error)
  BY DEF Reconcile
<1>4. CASE UNCHANGED journal
  BY <1>1, <1>3, <1>4, FieldOverOrder DEF RowsKept
<1>5. CASE /\ SetStatus(Own.row, "applied", 0)
           /\ Shown(Op("own")) \/ Op("own") \in assumed'
  <2>1. RowsKept
    BY <1>2, <1>5, RowChanges DEF Known, Statuses
  <2>2. \A r \in 1..Len(journal) :
            /\ r = Own.row => journal'[r].on = 0
            /\ r # Own.row => journal'[r] = journal[r]
    BY <1>2, <1>5, StatusSetRows DEF Statuses
  <2>3. journal[Own.row].op = Op("own") /\ journal[Own.row].op[1] = Own.call
    BY <1>1, <1>2, RowNumbers, HandIsOwn DEF Op, Own, Known
  <2>4. Op("own") \in assumed' \/ \A late \in flying : late.op # Op("own")
    <3> SUFFICES ASSUME Shown(Op("own"))
                 PROVE  \A late \in flying : late.op # Op("own")
      BY <1>5
    <3>1. PICK i \in DOMAIN page : page[i] = Op("own")
      BY DEF Shown
    <3>2. i \in 1..Len(page)
      BY LenProperties DEF Known, Typed, JournalTypeOK
    <3>3. QED
      BY <3>1, <3>2 DEF Known, Once, PageOnce
  <2>5. QED
    BY <1>1, <1>2, <1>3, <2>1, <2>2, <2>3, <2>4, FieldOverOrder
<1>6. QED
  BY <1>4, <1>5 DEF Reconcile, Own

\* Settling applies a row whose action was done, and so is not under way.
LEMMA SettleOrder ==
    ASSUME Known, AssumedGrows, Ordered, NobodyLeftBehind, NEW stored \in BOOLEAN, Settle("own", stored)
    PROVE  Ordered'
<1>1. /\ Own.job = "mutate" /\ Own.pc = "settle" /\ UNCHANGED <<session, run, page, flying>>
  BY DEF Settle, At, Own, world
<1>2. Own.row \in 1..Len(journal) /\ journal \in Seq(JournalRow)
  BY <1>1, RowInHand DEF Known, Own, Whose
<1>3. PICK error \in {"none", "retry", "fatal"} : FieldOver("own", error)
  BY ErrorsTyped DEF Settle
<1>4. spent'["sessions"] = spent["sessions"]
  BY SessionsSpent DEF Settle, Known, Bounded
<1>5. CASE UNCHANGED journal
  BY <1>1, <1>3, <1>4, <1>5, FieldOverOrder DEF RowsKept
<1>6. CASE SetStatus(Own.row, Settlement(Own.outcome), 0)
  <2>1. Settlement(Own.outcome) \in Statuses
    BY DEF Settlement, Statuses
  <2>2. RowsKept
    BY <1>2, <1>6, <2>1, RowChanges DEF Known
  <2>3. \A r \in 1..Len(journal) :
            /\ r = Own.row => journal'[r].on = 0
            /\ r # Own.row => journal'[r] = journal[r]
    BY <1>2, <1>6, <2>1, StatusSetRows
  <2>4. journal[Own.row].op = <<Own.call, Own.field>> /\ journal[Own.row].op[1] = Own.call
    BY <1>1, <1>2, RowNumbers, HandIsOwn DEF Known
  <2>5. \A late \in flying : late.op # <<Own.call, Own.field>>
    BY <1>1 DEF Ordered, LatesOpen, AssumedGrows
  <2>6. QED
    BY <1>1, <1>2, <1>3, <1>4, <2>2, <2>3, <2>4, <2>5, FieldOverOrder
<1>7. QED
  BY <1>5, <1>6 DEF Settle, Own

\* A call's row is new: it comes last, and nothing of it is seen.
LEMMA RecordedOrder ==
    ASSUME Known, AssumedGrows, Ordered, SingleFields, Own.job = "mutate", Own.pc = "record",
           UNCHANGED <<session, run, page, flying, spent>>,
           RowsOf(<<Own.id, Own.field>>) = {}, NEW added \in JournalRow,
           added.gen = session.gen, added.op = Op("own"), added.status = "pending", added.on = 0,
           journal' = Append(journal, added),
           Put("own", [Own EXCEPT !.pc = "execute", !.row = Len(journal) + 1])
    PROVE  Ordered'
<1> DEFINE n == Len(journal) + 1
<1>1. /\ journal \in Seq(JournalRow) /\ Len(journal) \in Nat /\ DOMAIN journal = 1..Len(journal)
      /\ Own \in AttemptRecord /\ "own" \in Whose
  BY DEF Known, Typed, JournalTypeOK, Own, Whose
<1>2. /\ Len(journal') = n /\ journal'[n] = added
      /\ \A r \in 1..Len(journal) : journal'[r] = journal[r]
      /\ \A r \in 1..Len(journal') : r \in 1..Len(journal) \/ r = n
      /\ \A r \in 1..Len(journal) : r \in 1..Len(journal') /\ r # n /\ ~(n < r)
  BY <1>1, AppendProperties
<1>3. Own'.job = "mutate" /\ Own'.pc = "execute" /\ Own'.row = n /\ Own'.call = Own.call
  <2>1. Own' = [Own EXCEPT !.pc = "execute", !.row = n]
    BY <1>1, PutOne DEF Known, Own
  <2>2. QED
    BY <1>1, <2>1 DEF AttemptRecord
<1>4. Own.field = 1 /\ ~(n < n)
  <2>1. Own.kinds \in Calls /\ Own.field \in 1..Len(Own.kinds)
    BY DEF Known, Typed, Shapes, AttemptShape, Own, Whose
  <2>2. Len(Own.kinds) = 1
    BY <2>1 DEF SingleFields
  <2>3. Own.field = 1
    BY <2>1, <2>2
  <2>4. n \in Nat
    BY <1>1
  <2>5. QED
    BY <2>3, <2>4
<1> HIDE DEF n
<1>5. added.op = <<Own.call, 1>> /\ added.op[1] = Own.call /\ added.op[2] = 1
  BY <1>4 DEF Op, Own
<1>6. \A r \in 1..Len(journal) : ~RowOf(r, 1)
  BY <1>1, <1>4 DEF RowsOf, RowOf, Known
<1>7. \A r \in 1..Len(journal) : journal[r].op[1] # Own.call /\ journal[r].op[2] = 1
  BY <1>6 DEF Known, Once, NamedAfterCall, Ordered, RowsInOrder
<1>8. added.op \notin Seen
  BY <1>5, <1>6 DEF Known, Once, CallAccounted, MaxFields
<1>9. \A r \in 1..Len(journal) : journal[r].op[1] < added.op[1]
  <2>1. \A r \in 1..Len(journal) : journal[r].op[1] <= run.calls
    BY DEF Known, Once, CallsSoFar
  <2>2. Own.call = run.calls
    BY DEF Known, Once, Stages
  <2>3. QED
    BY <1>5, <1>7, <2>1, <2>2, RowNumbers DEF Known
<1>10. \A r \in 1..Len(journal) : Standing(r)' => Standing(r)
  BY <1>2, <1>3 DEF Standing, InGeneration
<1>11. PageInOrder'
  <2>1. SUFFICES ASSUME NEW r \in 1..Len(journal'), NEW q \in 1..Len(journal'), Standing(r)', Standing(q)', r < q,
                        NEW i \in 1..Len(page), NEW j \in 1..Len(page), journal'[r].op \notin assumed',
                        page[i] = journal'[r].op, page[j] = journal'[q].op
                 PROVE  i < j
    BY DEF PageInOrder
  <2>2. r # n /\ q # n
    <3>1. added.op \in Ops
      BY DEF JournalRow
    <3>2. QED
      BY <1>2, <1>8, <2>1, <3>1 DEF Seen
  <2>3. r \in 1..Len(journal) /\ q \in 1..Len(journal)
    BY <1>2, <2>2
  <2>4. journal[r].op \notin assumed /\ Standing(r) /\ Standing(q)
    BY <1>2, <1>10, <2>1, <2>3 DEF AssumedGrows
  <2>5. QED
    BY <1>2, <2>1, <2>3, <2>4 DEF Ordered, PageInOrder
<1>12. RowsInOrder'
  <2>1. \A r, q \in 1..Len(journal') : r < q => journal'[r].op[1] < journal'[q].op[1]
    BY <1>2, <1>4, <1>9 DEF Ordered, RowsInOrder
  <2>2. /\ added.gen <= session.gen /\ added.on <= spent["sessions"]
        /\ \A r \in 1..Len(journal) : journal[r].gen <= session.gen /\ journal[r].on <= spent["sessions"]
    BY RowNumbers DEF Known, Ordered, RowsInOrder
  <2>3. \A r \in 1..Len(journal') :
            journal'[r].op[2] = 1 /\ journal'[r].gen <= session.gen /\ journal'[r].on <= spent["sessions"]
    BY <1>2, <1>5, <1>7, <2>2
  <2>4. QED
    BY <2>1, <2>3 DEF Ordered, RowsInOrder
<1>13. LatesOpen' /\ HandPending'
  BY <1>2, <1>3 DEF Ordered, LatesOpen, HandPending, AssumedGrows
<1>14. MarkedFirst' /\ ReplayedSoFar'
  BY <1>3 DEF Known, Once, Stages, MarkedFirst, ReplayedSoFar
<1>15. QED
  BY <1>11, <1>12, <1>13, <1>14 DEF Ordered

\* Record takes a row in hand that is pending from then on.
LEMMA RecordOrder ==
    ASSUME Known, AssumedGrows, Ordered, SingleFields, NobodyLeftBehind, Record("own")
    PROVE  Ordered'
<1> DEFINE key == <<Own.id, Own.field>>
           Taken(pc, row) == [Own EXCEPT !.pc = pc, !.row = row]
<1>1. /\ Own.job = "mutate" /\ Own.pc = "record" /\ Own \in AttemptRecord /\ "own" \in Whose
      /\ UNCHANGED <<session, run, page, flying, spent>> /\ spent'["sessions"] = spent["sessions"]
      /\ journal \in Seq(JournalRow) /\ Len(journal) \in Nat /\ DOMAIN journal = 1..Len(journal)
  <2>1. Own.job = "mutate" /\ Own.pc = "record" /\ UNCHANGED <<session, run, page, flying, spent>>
    BY DEF Record, At, Own, world
  <2>2. QED
    BY <2>1, LenProperties DEF Known, Typed, JournalTypeOK, Own, Whose
<1>2. ASSUME NEW pc \in {"execute", "reconcile"}, NEW row, Put("own", Taken(pc, row)),
             pc = "execute" /\ row # 0 => journal'[row].status = "pending",
             RowsKept, \A r \in 1..Len(journal) : journal'[r].on \in {journal[r].on, 0},
             \A r \in 1..Len(journal) : journal'[r].status = "applied" => journal[r].status = "applied"
      PROVE  Ordered'
  <2>1. Own' = Taken(pc, row)
    BY <1>1, <1>2, PutOne DEF Known, Own
  <2>2. Own'.job = "mutate" /\ Own'.call = Own.call /\ Own'.row = row /\ Own'.pc = pc
    BY <1>1, <2>1 DEF AttemptRecord
  <2>3. HandPending'
    BY <1>2, <2>2 DEF HandPending
  <2>4. QED
    BY <1>1, <1>2, <2>2, <2>3, QuietCallOrder
<1>3. ASSUME NEW error \in {"none", "retry"}, FieldOver("own", error), UNCHANGED journal
      PROVE  Ordered'
  BY <1>1, <1>3, FieldOverOrder DEF RowsKept
<1>4. ASSUME RowsOf(key) = {},
             journal' = Append(journal, [key |-> key, gen |-> session.gen, op |-> Op("own"),
                              kind |-> Kind("own"), status |-> "pending", on |-> 0, done |-> 0]),
             Put("own", Taken("execute", Len(journal) + 1))
      PROVE  Ordered'
  <2> DEFINE added == [key |-> key, gen |-> session.gen, op |-> Op("own"),
                       kind |-> Kind("own"), status |-> "pending", on |-> 0, done |-> 0]
  <2>1. session.gen \in Nat /\ "pending" \in Statuses
    BY DEF Known, Typed, JournalTypeOK, SessionRow, Statuses
  <2>2. key \in Nat \X Nat /\ Op("own") \in Ops /\ Kind("own") \in Kinds
    BY <1>1, OpTyped DEF Known, Own
  <2>3. /\ added \in JournalRow /\ added.gen = session.gen /\ added.op = Op("own")
        /\ added.status = "pending" /\ added.on = 0
    BY <2>1, <2>2 DEF JournalRow
  <2>4. journal' = Append(journal, added)
    BY <1>4
  <2> HIDE DEF added
  <2>5. QED
    BY <1>1, <1>4, <2>3, <2>4, RecordedOrder
<1>5. UNCHANGED journal => RowsKept
  BY DEF RowsKept
<1>6. ASSUME NEW row \in RowsOf(key), SetStatus(row, "pending", 0), Put("own", Taken("execute", row))
      PROVE  Ordered'
  <2>1. row \in 1..Len(journal)
    BY <1>1 DEF RowsOf
  <2>2. RowsKept
    BY <1>6, <2>1, RowChanges DEF Known, Statuses
  <2>3. \A r \in 1..Len(journal) :
            /\ r = row => journal'[r].status = "pending" /\ journal'[r].on = 0
            /\ r # row => journal'[r] = journal[r]
    BY <1>1, <1>6, <2>1, StatusSetRows DEF Statuses
  <2>4. QED
    BY <1>2, <1>6, <2>1, <2>2, <2>3
<1>7. QED
  BY <1>2, <1>3, <1>4, <1>5, <1>6 DEF Record, Own

\* A call's action comes last on the page, as its row does in the journal.
LEMMA ExecuteCallOrder ==
    ASSUME Known, AssumedGrows, Ordered, NobodyLeftBehind, Own.job = "mutate",
           NEW outcome \in {"done", "refused", "uncertain"}, NEW lands \in BOOLEAN,
           Execute("own", outcome, lands)
    PROVE  Ordered'
<1>1. /\ Own.pc = "execute" /\ Own \in AttemptRecord /\ "own" \in Whose
      /\ UNCHANGED <<session, run, flying, spent>> /\ spent'["sessions"] = spent["sessions"]
      /\ journal \in Seq(JournalRow)
  BY DEF Execute, Own, Known, Typed, JournalTypeOK, Whose
<1>2. UNCHANGED journal => RowsKept
  BY DEF RowsKept
<1>3. CASE Own.row = 0
  <2>1. UNCHANGED <<page, journal>>
    BY <1>3 DEF Execute, Own
  <2>2. PICK error \in {"none", "retry", "fatal"} : FieldOver("own", error)
    BY <1>3, ErrorsTyped DEF Execute, Own
  <2>3. QED
    BY <1>1, <1>2, <2>1, <2>2, FieldOverOrder
<1>4. CASE Own.row # 0
  <2>1. Own'.job = "mutate" /\ Own'.pc = "settle" /\ Own'.call = Own.call /\ Own'.field = Own.field
    <3>1. Own' = [Own EXCEPT !.pc = "settle", !.outcome = outcome]
      BY <1>1, <1>4, PutOne DEF Execute, Own, Known
    <3>2. QED
      BY <1>1, <3>1 DEF AttemptRecord
  <2>2. Op("own") \in Ops /\ Op("own") \notin Seen /\ Own.row \in 1..Len(journal)
    BY <1>1, <1>4, AboutToAct DEF Known
  <2>3. Op("own") = <<Own.call, Own.field>> /\ Op("own")[1] = Own.call
    BY DEF Op, Own
  <2>4. /\ RowsKept
        /\ \A r \in 1..Len(journal) : journal'[r].status = journal[r].status /\ journal'[r].on = journal[r].on
        /\ page' = page \/ page' = Append(page, Op("own"))
    <3>1. UNCHANGED <<page, journal>> \/ Performed(Own.row, Op("own"))
      BY <1>4 DEF Execute, Own
    <3>2. CASE UNCHANGED <<page, journal>>
      BY <1>2, <3>2
    <3>3. CASE Performed(Own.row, Op("own"))
      <4>1. RowsKept
        BY <2>2, <3>3, RowChanges DEF Known
      <4>2. QED
        BY <1>1, <2>2, <3>3, <4>1, RowPerformedRows DEF Performed
    <3>4. QED
      BY <3>1, <3>2, <3>3
  <2>5. \A r \in 1..Len(journal) : Standing(r)' => Standing(r)
    BY <1>1, <2>1, <2>4 DEF Standing, InGeneration, RowsKept
  <2>6. \A r, q \in 1..Len(journal) : ~(r < q /\ journal[r].op = Op("own"))
    BY <2>3, LastRow DEF Known, Ordered
  <2>7. PageInOrder'
    <3>1. CASE page' = page
      BY <2>4, <2>5, <3>1, OrderStays DEF Known, Ordered
    <3>2. CASE page' = Append(page, Op("own"))
      BY <2>2, <2>4, <2>5, <2>6, <3>2, OrderGrows DEF Known, Ordered
    <3>3. QED
      BY <2>4, <3>1, <3>2
  <2>8. LatesOpen'
    <3>1. \A late \in flying : late.op # <<Own.call, Own.field>>
      BY <2>2, <2>3 DEF Seen
    <3>2. QED
      BY <1>1, <2>1, <2>4, <3>1 DEF Ordered, LatesOpen, RowsKept, AssumedGrows
  <2>9. HandPending'
    BY <2>1 DEF HandPending
  <2>10. QED
    BY <1>1, <2>1, <2>4, <2>7, <2>8, <2>9, CallStepOrder
<1>5. QED
  BY <1>3, <1>4

\* What a call's lost attempt had asked for is of a row that is pending.
LEMMA TimeoutCallOrder ==
    ASSUME Known, AssumedGrows, Ordered, NobodyLeftBehind, Own.job = "mutate",
           NEW inFlight \in BOOLEAN, Timeout("own", inFlight)
    PROVE  Ordered'
<1>1. /\ \/ Own'.job = "mutate" /\ Own'.pc = "record" /\ Own'.call = Own.call /\ run' = run
         \/ Own'.job = "none" /\ run'.phase \in {run.phase, "ending"}
      /\ UNCHANGED <<journal, session, page>>
      /\ \/ UNCHANGED flying
         \/ /\ Own.pc = "execute" /\ Own.row # 0
            /\ flying' = flying \cup {InFlight("own")}
  BY OwnTimedOut DEF Known
<1>2. RowsKept /\ HandPending'
  BY <1>1 DEF RowsKept, HandPending
<1>3. spent'["sessions"] = spent["sessions"]
  BY SessionsSpent DEF Timeout, Known, Bounded
<1>4. PageInOrder'
  <2>1. \A r \in 1..Len(journal) : Standing(r)' => Standing(r)
    BY <1>1 DEF Standing, InGeneration
  <2>2. QED
    BY <1>1, <1>2, <2>1, OrderStays DEF Known, Ordered
<1>5. LatesOpen'
  <2>1. \A late \in flying' : late \in flying \/ \A r \in 1..Len(journal) :
            journal[r].op = late.op => journal[r].status # "applied"
    <3>1. CASE UNCHANGED flying
      BY <3>1
    <3>2. CASE Own.pc = "execute" /\ Own.row # 0 /\ flying' = flying \cup {InFlight("own")}
      <4>1. InFlight("own").op = <<Own.call, Own.field>>
        BY DEF InFlight, Op, Own
      <4>2. journal[Own.row].status = "pending"
        BY <3>2 DEF Ordered, HandPending
      <4>3. \A r \in 1..Len(journal) : journal[r].op = <<Own.call, Own.field>> => r = Own.row
        BY <3>2, HandIsOwn
      <4>4. QED
        BY <3>2, <4>1, <4>2, <4>3
    <3>3. QED
      BY <1>1, <3>1, <3>2
  <2>2. Own'.pc # "settle" \/ Own'.job = "none"
    BY <1>1
  <2>3. QED
    BY <1>1, <2>1, <2>2 DEF Ordered, LatesOpen, AssumedGrows
<1>6. QED
  BY <1>1, <1>2, <1>3, <1>4, <1>5, CallStepOrder

-----------------------------------------------------------------------------
\* The earliest row that is listed is no later than the others.
LEMMA EarliestFirst ==
    ASSUME Typed, todo # {}
    PROVE  Earliest \in todo /\ \A listed \in todo : Earliest.row <= listed.row
<1> DEFINE rows == {listed.row : listed \in todo}
<1>1. rows \subseteq Nat /\ rows # {}
  BY DEF Typed, JournalTypeOK
<1>2. PICK row \in rows : \A other \in rows : row <= other
  BY <1>1, FirstOfRows
<1>3. PICK first \in todo : \A other \in todo : first.row <= other.row
  BY <1>2
<1>4. QED
  BY <1>3 DEF Earliest

\* The row in hand of a replay is the earliest that is listed; those before it
\* in the generation are marked.
LEMMA BeforeHandMarked ==
    ASSUME Known, Ordered, Own.job = "replay"
    PROVE  /\ Own.row \in 1..Len(journal) /\ InGeneration(Own.row)
           /\ session.id # 0 /\ session.pending /\ session.id = spent["sessions"]
           /\ \A r \in 1..Len(journal) : InGeneration(r) /\ r < Own.row => journal[r].on = session.id
<1>1. run.phase = "replay" /\ todo # {} /\ session.pending
  BY DEF Known, Once, Stages
<1>2. session.id # 0 /\ Own.row = Earliest.row /\ session.id = spent["sessions"]
  BY <1>1 DEF Ordered, ReplayedSoFar, RowsInOrder
<1>3. Earliest \in todo /\ \A listed \in todo : Earliest.row <= listed.row
  BY <1>1, EarliestFirst DEF Known
<1>4. Own.row \in 1..Len(journal) /\ InGeneration(Own.row)
  BY <1>1, <1>2, <1>3 DEF Known, Typed, Shapes, Ordered, ReplayedSoFar
<1>5. ASSUME NEW r \in 1..Len(journal), InGeneration(r), r < Own.row
      PROVE  journal[r].on = session.id
  <2>1. \A listed \in todo : listed.row # r
    <3>1. \A listed \in todo : listed.row \in Nat
      BY DEF Known, Typed, JournalTypeOK
    <3>2. QED
      BY <1>2, <1>3, <1>5, <3>1
  <2>2. QED
    BY <1>1, <1>5, <2>1 DEF Ordered, ReplayedSoFar
<1>6. QED
  BY <1>1, <1>2, <1>4, <1>5

\* A step of a replay keeps the order, given that it keeps the page's, marks no
\* row but its own, and applies nothing that is under way.
LEMMA ReplayStepOrder ==
    ASSUME Known, AssumedGrows, Ordered, Own.job = "replay", UNCHANGED <<session, todo>>,
           spent'["sessions"] = spent["sessions"], run'.phase \in {run.phase, "ending"},
           Own'.job = "none" \/ (Own'.job = "replay" /\ Own'.row = Own.row), RowsKept,
           \A r \in 1..Len(journal) :
               journal'[r].on = journal[r].on \/ (r = Own.row /\ journal'[r].on = session.id),
           Own'.job = "replay" =>
               /\ \/ Own'.pc \in {"execute", "settle"}
                  \/ Own'.pc = "report" /\ Own'.errors = "none"
                  => journal'[Own.row].on = session.id
               /\ Own'.pc = "execute" =>
                      /\ journal'[Own.row].status = "pending"
                      /\ \A q \in 1..Len(journal) : InGeneration(q) /\ q > Own.row => journal[q].on # session.id,
           PageInOrder', LatesOpen'
    PROVE  Ordered'
<1>1. /\ Own.row \in 1..Len(journal) /\ InGeneration(Own.row)
      /\ session.id # 0 /\ session.pending /\ session.id = spent["sessions"]
      /\ \A r \in 1..Len(journal) : InGeneration(r) /\ r < Own.row => journal[r].on = session.id
  BY BeforeHandMarked
<1>2. session.id \in Nat /\ Len(journal) \in Nat /\ run.phase = "replay"
  BY RowNumbers DEF Known, Once, Stages
<1>3. \A r \in 1..Len(journal) : InGeneration(r)' <=> InGeneration(r)
  BY DEF InGeneration, RowsKept
<1>4. RowsInOrder'
  <2>1. /\ \A r, q \in 1..Len(journal) : r < q => journal[r].op[1] < journal[q].op[1]
        /\ \A r \in 1..Len(journal) :
               journal[r].op[2] = 1 /\ journal[r].gen <= session.gen /\ journal[r].on <= spent["sessions"]
    BY DEF Ordered, RowsInOrder
  <2>2. \A r \in 1..Len(journal) : journal'[r].on <= spent["sessions"]
    BY <1>1, <1>2, <2>1
  <2>3. QED
    BY <1>1, <2>1, <2>2 DEF RowsInOrder, RowsKept
<1>5. HandPending'
  BY DEF HandPending
<1>6. MarkedFirst'
  <2>1. SUFFICES ASSUME NEW r \in 1..Len(journal), NEW q \in 1..Len(journal), r < q,
                        InGeneration(r), InGeneration(q), journal'[q].on = session.id
                 PROVE  journal'[r].on = session.id
    BY <1>3 DEF MarkedFirst, RowsKept
  <2>2. CASE q = Own.row
    BY <1>1, <2>1, <2>2
  <2>3. CASE q # Own.row
    BY <1>1, <2>1, <2>3 DEF Ordered, MarkedFirst
  <2>4. QED
    BY <2>2, <2>3
<1>7. ReplayedSoFar'
  <2>1. /\ \A listed \in todo : InGeneration(listed.row)
        /\ \A r \in 1..Len(journal) :
               InGeneration(r) /\ (\A listed \in todo : listed.row # r) => journal[r].on = session.id
        /\ Own.row = Earliest.row
    BY <1>2 DEF Ordered, ReplayedSoFar
  <2>2. \A listed \in todo : listed.row \in 1..Len(journal)
    BY DEF Known, Typed, Shapes
  <2>3. \A listed \in todo : InGeneration(listed.row)'
    <3>1. ASSUME NEW listed \in todo, NEW r, r = listed.row
          PROVE  InGeneration(r)'
      BY <1>3, <2>1, <2>2, <3>1
    <3>2. QED
      BY <3>1 DEF InGeneration
  <2>4. \A r \in 1..Len(journal) :
            InGeneration(r)' /\ (\A listed \in todo : listed.row # r) => journal'[r].on = session.id
    BY <1>3, <2>1
  <2>5. Earliest' = Earliest
    BY DEF Earliest
  <2>6. Own'.job = "replay" /\ Own'.pc = "execute" =>
            \A q \in 1..Len(journal) : InGeneration(q)' /\ q > Own.row => journal'[q].on # session.id
    BY <1>1, <1>2, <1>3
  <2>7. QED
    BY <1>1, <2>1, <2>3, <2>4, <2>5, <2>6 DEF ReplayedSoFar, RowsKept
<1>8. QED
  BY <1>4, <1>5, <1>6, <1>7 DEF Ordered

\* A row is claimed behind those that are marked, and is pending then.
LEMMA ClaimOrder ==
    ASSUME Known, AssumedGrows, Ordered, Claim("own")
    PROVE  Ordered'
<1>1. /\ Own.job = "replay" /\ Own.pc = "claim" /\ Own \in AttemptRecord /\ "own" \in Whose
      /\ UNCHANGED <<session, run, todo, page, flying, spent>> /\ spent'["sessions"] = spent["sessions"]
      /\ journal \in Seq(JournalRow)
  BY DEF Claim, At, Own, world, Whose, Known, Typed, JournalTypeOK
<1>2. /\ Own.row \in 1..Len(journal) /\ InGeneration(Own.row)
      /\ session.id # 0 /\ session.pending /\ session.id = spent["sessions"]
      /\ \A r \in 1..Len(journal) : InGeneration(r) /\ r < Own.row => journal[r].on = session.id
  BY <1>1, BeforeHandMarked
<1>3. CASE Put("own", [Own EXCEPT !.pc = "report", !.errors = "fatal"]) /\ UNCHANGED journal
  <2>1. Own' = [Own EXCEPT !.pc = "report", !.errors = "fatal"]
    BY <1>1, <1>3, PutOne DEF Own, Known
  <2>2. Own'.job = "replay" /\ Own'.pc = "report" /\ Own'.errors = "fatal" /\ Own'.row = Own.row
    BY <1>1, <2>1 DEF AttemptRecord
  <2>3. \A r \in 1..Len(journal) : Standing(r)' => Standing(r)
    BY <1>1, <1>3, <2>2 DEF Standing, InGeneration
  <2>4. PageInOrder' /\ LatesOpen' /\ RowsKept
    BY <1>1, <1>3, <2>2, <2>3, OrderStays DEF Known, Ordered, LatesOpen, RowsKept, AssumedGrows
  <2>5. QED
    BY <1>1, <1>3, <2>2, <2>4, ReplayStepOrder
<1>4. CASE Put("own", [Own EXCEPT !.pc = "report"]) /\ UNCHANGED journal /\ journal[Own.row].on = session.id
  <2>1. Own' = [Own EXCEPT !.pc = "report"]
    BY <1>1, <1>4, PutOne DEF Own, Known
  <2>2. Own'.job = "replay" /\ Own'.pc = "report" /\ Own'.row = Own.row
    BY <1>1, <2>1 DEF AttemptRecord
  <2>3. \A r \in 1..Len(journal) : Standing(r)' => Standing(r)
    BY <1>1, <1>4, <2>2 DEF Standing, InGeneration
  <2>4. PageInOrder' /\ LatesOpen' /\ RowsKept
    BY <1>1, <1>4, <2>2, <2>3, OrderStays DEF Known, Ordered, LatesOpen, RowsKept, AssumedGrows
  <2>5. QED
    BY <1>1, <1>4, <2>2, <2>4, ReplayStepOrder
<1>5. CASE /\ journal[Own.row].on # session.id
           /\ SetStatus(Own.row, "pending", session.id)
           /\ Put("own", [Own EXCEPT !.pc = "execute", !.on = session.id])
  <2>1. Own' = [Own EXCEPT !.pc = "execute", !.on = session.id]
    BY <1>1, <1>5, PutOne DEF Own, Known
  <2>2. Own'.job = "replay" /\ Own'.pc = "execute" /\ Own'.row = Own.row
    BY <1>1, <2>1 DEF AttemptRecord
  <2>3. session.id \in Nat /\ "pending" \in Statuses
    BY RowNumbers DEF Known, Statuses
  <2>4. RowsKept
    BY <1>2, <1>5, <2>3, RowChanges DEF Known
  <2>5. \A r \in 1..Len(journal) :
            /\ r = Own.row => journal'[r].on = session.id /\ journal'[r].status = "pending"
            /\ r # Own.row => journal'[r] = journal[r]
    BY <1>1, <1>2, <1>5, <2>3, StatusSetRows
  <2>6. \A q \in 1..Len(journal) : InGeneration(q) /\ q > Own.row => journal[q].on # session.id
    <3>1. \A q \in 1..Len(journal) : q > Own.row => Own.row < q
      BY <1>2, RowNumbers DEF Known
    <3>2. QED
      BY <1>2, <1>5, <3>1 DEF Ordered, MarkedFirst
  <2>7. \A r \in 1..Len(journal) : Standing(r)' => Standing(r)
    BY <1>1, <2>2, <2>4, <2>5 DEF Standing, InGeneration, RowsKept
  <2>8. PageInOrder'
    BY <1>1, <2>4, <2>7, OrderStays DEF Known, Ordered
  <2>9. LatesOpen'
    BY <1>1, <2>2, <2>4, <2>5 DEF Ordered, LatesOpen, RowsKept, AssumedGrows
  <2>10. QED
    BY <1>1, <1>2, <2>2, <2>4, <2>5, <2>6, <2>8, <2>9, ReplayStepOrder
<1>6. QED
  BY <1>3, <1>4, <1>5 DEF Claim, Fail, Goto, AlreadyReplayed, Own

\* A row is replayed before those behind it.
LEMMA ExecuteReplayOrder ==
    ASSUME Known, AssumedGrows, Ordered, Own.job = "replay",
           NEW outcome \in {"done", "refused", "uncertain"}, NEW lands \in BOOLEAN,
           Execute("own", outcome, lands)
    PROVE  Ordered'
<1>1. /\ Own.pc = "execute" /\ Own \in AttemptRecord /\ "own" \in Whose
      /\ UNCHANGED <<session, run, todo, flying, spent>> /\ spent'["sessions"] = spent["sessions"]
      /\ journal \in Seq(JournalRow)
  BY DEF Execute, Own, Whose, Known, Typed, JournalTypeOK
<1>2. /\ Own.row \in 1..Len(journal) /\ InGeneration(Own.row) /\ session.pending /\ Own.row # 0
  <2>1. Own.row \in 1..Len(journal) /\ InGeneration(Own.row) /\ session.pending
    BY BeforeHandMarked
  <2>2. QED
    BY <2>1, RowNumbers DEF Known
<1>3. Own'.job = "replay" /\ Own'.pc = "settle" /\ Own'.row = Own.row
  <2>1. Own' = [Own EXCEPT !.pc = "settle", !.outcome = outcome]
    BY <1>1, <1>2, PutOne DEF Execute, Own, Known
  <2>2. QED
    BY <1>1, <2>1 DEF AttemptRecord
<1>4. journal[Own.row].op \notin Seen /\ journal[Own.row].op \in Ops /\ journal[Own.row].on = session.id
  BY <1>1, <1>2, RowNumbers DEF Known, Once, ClaimedHere
<1>5. UNCHANGED journal /\ (page' = page \/ page' = Append(page, journal[Own.row].op))
  BY <1>2 DEF Execute, Own, Replayed
<1>6. RowsKept
  BY <1>5 DEF RowsKept
<1>7. \A r \in 1..Len(journal) : journal[r].op = journal[Own.row].op => r = Own.row
  BY <1>2 DEF Known, Once, RowsApart
<1>8. \A r \in 1..Len(journal) : Standing(r)' => Standing(r) \/ r = Own.row
  BY <1>1, <1>3, <1>5 DEF Standing, InGeneration
<1>9. \A q \in 1..Len(journal) : Standing(q)' /\ Own.row < q => journal[q].op \notin Seen
  <2>1. SUFFICES ASSUME NEW q \in 1..Len(journal), InGeneration(q), Own.row < q
                 PROVE  journal[q].op \notin Seen
    BY <1>1, <1>5 DEF Standing, InGeneration
  <2>2. q > Own.row
    BY <1>2, <2>1, RowNumbers DEF Known
  <2>3. journal[q].on # session.id
    BY <1>1, <2>1, <2>2 DEF Ordered, ReplayedSoFar
  <2>4. QED
    BY <1>2, <2>3, UnmarkedUnseen DEF Known
<1>10. PageInOrder'
  <2>1. CASE page' = page
    BY <1>4, <1>6, <1>8, <2>1, OrderStays DEF Known, Ordered
  <2>2. CASE page' = Append(page, journal[Own.row].op)
    <3>1. \A r, q \in 1..Len(journal) : Standing(r)' /\ Standing(q)' /\ r < q /\ journal[r].op = journal[Own.row].op =>
              journal[q].op \notin Seen /\ journal[q].op # journal[Own.row].op
      <4>1. ~(Own.row < Own.row)
        BY <1>2, RowNumbers DEF Known
      <4>2. QED
        BY <1>7, <1>9, <4>1
    <3>2. QED
      BY <1>4, <1>6, <1>8, <2>2, <3>1, OrderGrows DEF Known, Ordered
  <2>3. QED
    BY <1>5, <2>1, <2>2
<1>11. LatesOpen'
  <2>1. \A late \in flying : late.op # journal[Own.row].op
    BY <1>4 DEF Seen
  <2>2. QED
    BY <1>1, <1>3, <1>5, <2>1 DEF Ordered, LatesOpen, AssumedGrows
<1>12. QED
  BY <1>1, <1>3, <1>4, <1>5, <1>6, <1>10, <1>11, ReplayStepOrder

\* A replay that is settled leaves its row marked, and applied only if its
\* action is not under way.
LEMMA SettleReplayOrder ==
    ASSUME Known, AssumedGrows, Ordered, NEW stored \in BOOLEAN, SettleReplay("own", stored)
    PROVE  Ordered'
<1>1. /\ Own.job = "replay" /\ Own.pc = "settle" /\ Own \in AttemptRecord /\ "own" \in Whose
      /\ UNCHANGED <<session, run, todo, page, flying>> /\ journal \in Seq(JournalRow)
  BY DEF SettleReplay, At, Own, world, Whose, Known, Typed, JournalTypeOK
<1>2. Own.row \in 1..Len(journal) /\ InGeneration(Own.row)
  BY <1>1, BeforeHandMarked
<1>3. spent'["sessions"] = spent["sessions"]
  BY SessionsSpent DEF SettleReplay, Known, Bounded
<1>4. Own'.job = "replay" /\ Own'.pc = "report" /\ Own'.row = Own.row
  <2>1. \/ Put("own", [Own EXCEPT !.pc = "report", !.errors = "fatal"])
        \/ Put("own", [Own EXCEPT !.pc = "report"])
    BY DEF SettleReplay, Fail, Goto, Own
  <2>2. \/ Own' = [Own EXCEPT !.pc = "report", !.errors = "fatal"]
        \/ Own' = [Own EXCEPT !.pc = "report"]
    BY <1>1, <2>1, PutOne DEF Own, Known
  <2>3. QED
    BY <1>1, <2>2 DEF AttemptRecord
<1>5. Own.on = session.id /\ session.id \in Nat /\ journal[Own.row].on = session.id
  BY <1>1, RowNumbers DEF Known, Once, ClaimedHere, Ordered, ReplayedSoFar
<1>6. /\ RowsKept
      /\ \A r \in 1..Len(journal) : /\ journal'[r].on = journal[r].on
                                    /\ r # Own.row => journal'[r] = journal[r]
  <2>1. CASE UNCHANGED journal
    BY <2>1 DEF RowsKept
  <2>2. ASSUME NEW status \in Statuses, SetStatus(Own.row, status, Own.on)
        PROVE  /\ RowsKept
               /\ \A r \in 1..Len(journal) : /\ journal'[r].on = journal[r].on
                                             /\ r # Own.row => journal'[r] = journal[r]
    <3>1. RowsKept
      BY <1>2, <1>5, <2>2, RowChanges DEF Known
    <3>2. QED
      BY <1>1, <1>2, <1>5, <2>2, <3>1, StatusSetRows
  <2>3. QED
    BY <2>1, <2>2 DEF SettleReplay, Own, Statuses
<1>7. \A r \in 1..Len(journal) : Standing(r)' => Standing(r)
  BY <1>1, <1>2, <1>4, <1>6 DEF Standing, InGeneration, RowsKept
<1>8. PageInOrder'
  BY <1>1, <1>6, <1>7, OrderStays DEF Known, Ordered
<1>9. LatesOpen'
  <2>1. \A late \in flying : late.op # journal[Own.row].op
    BY <1>1 DEF Ordered, LatesOpen, AssumedGrows
  <2>2. QED
    BY <1>1, <1>4, <1>6, <2>1 DEF Ordered, LatesOpen, RowsKept, AssumedGrows
<1>10. QED
  BY <1>1, <1>2, <1>3, <1>4, <1>5, <1>6, <1>8, <1>9, ReplayStepOrder

\* A replay that is tried again claims the same row.
LEMMA RetriedReplay ==
    ASSUME Typed, Own.job = "replay", Put("own", Retried(Own))
    PROVE  Own'.job = "replay" /\ Own'.pc = "claim" /\ Own'.row = Own.row
<1>1. Own' = Retried(Own) /\ Own \in AttemptRecord
  BY PutOne DEF Own, Whose, Typed, JournalTypeOK
<1>2. QED
  BY <1>1 DEF Retried, AttemptRecord

\* What a replay's lost attempt had asked for is of a row that is pending.
LEMMA TimeoutReplayOrder ==
    ASSUME Known, AssumedGrows, Ordered, Own.job = "replay", NEW inFlight \in BOOLEAN, Timeout("own", inFlight)
    PROVE  Ordered'
<1>1. /\ run'.phase \in {run.phase, "ending"}
      /\ UNCHANGED <<todo, journal, session, page>>
      /\ \/ UNCHANGED flying
         \/ /\ Own.pc = "execute" /\ Own.row # 0
            /\ flying' = flying \cup {InFlight("own")}
  BY OwnTimedOut DEF Known
<1>2. Own'.job = "none" \/ (Own'.job = "replay" /\ Own'.pc = "claim" /\ Own'.row = Own.row)
  <2>1. Put("own", Retried(Own)) \/ Put("own", NoAttempt)
    BY DEF Timeout, GiveUp, Own
  <2>2. CASE Put("own", NoAttempt)
    BY <2>2, PutOne DEF Own, Known, Whose, NoAttempt
  <2>3. QED
    BY <2>1, <2>2, RetriedReplay DEF Known
<1>3. RowsKept /\ Own.row \in 1..Len(journal)
  BY <1>1, BeforeHandMarked DEF RowsKept
<1>4. spent'["sessions"] = spent["sessions"]
  BY SessionsSpent DEF Timeout, Known, Bounded
<1>5. \A r \in 1..Len(journal) : Standing(r)' => Standing(r)
  BY <1>1, <1>2 DEF Standing, InGeneration
<1>6. PageInOrder'
  BY <1>1, <1>3, <1>5, OrderStays DEF Known, Ordered
<1>7. LatesOpen'
  <2>1. \A late \in flying' : late \in flying \/ \A r \in 1..Len(journal) :
            journal[r].op = late.op => journal[r].status # "applied"
    <3>1. CASE UNCHANGED flying
      BY <3>1
    <3>2. CASE Own.pc = "execute" /\ Own.row # 0 /\ flying' = flying \cup {InFlight("own")}
      <4>1. InFlight("own").op = journal[Own.row].op
        BY DEF InFlight, Own
      <4>2. journal[Own.row].status = "pending"
        BY <3>2 DEF Ordered, HandPending
      <4>3. \A r \in 1..Len(journal) : journal[r].op = journal[Own.row].op => r = Own.row
        BY <1>3 DEF Known, Once, RowsApart
      <4>4. QED
        BY <3>2, <4>1, <4>2, <4>3
    <3>3. QED
      BY <1>1, <3>1, <3>2
  <2>2. QED
    BY <1>1, <1>2, <2>1 DEF Ordered, LatesOpen, AssumedGrows
<1>8. QED
  BY <1>1, <1>2, <1>3, <1>4, <1>6, <1>7, ReplayStepOrder

-----------------------------------------------------------------------------
\* A late action lands in its row's place: its row is open, and so the last.
LEMMA LandLateOrder ==
    ASSUME Known, AssumedGrows, Ordered, LandLate
    PROVE  Ordered'
<1>1. PICK late \in flying :
          /\ IF late.replayed THEN Replayed(late.op) ELSE Performed(late.row, late.op)
          /\ flying' = flying \ {late}
          /\ UNCHANGED <<session, attempts, run, todo, spent>>
  BY DEF LandLate
<1>2. /\ late.row \in 1..Len(journal) /\ late.op \in Ops /\ journal \in Seq(JournalRow)
      /\ UNCHANGED Own /\ page' = Append(page, late.op)
  BY <1>1 DEF Known, Typed, Shapes, JournalTypeOK, Own, Execution, Replayed, Performed
<1>3. /\ RowsKept
      /\ \A r \in 1..Len(journal) : journal'[r].status = journal[r].status /\ journal'[r].on = journal[r].on
  <2>1. CASE late.replayed
    BY <1>1, <2>1 DEF Replayed, RowsKept
  <2>2. CASE ~late.replayed
    BY <1>1, <1>2, <2>2, RowChanges, RowPerformedRows DEF Known
  <2>3. QED
    BY <2>1, <2>2
<1>4. \A r \in 1..Len(journal) : Standing(r)' => Standing(r)
  BY <1>1, <1>2, <1>3 DEF Standing, InGeneration, RowsKept
<1>5. ASSUME NEW r \in 1..Len(journal), NEW q \in 1..Len(journal), Standing(r), journal[r].op = late.op,
             late.op \notin assumed'
      PROVE  ~(r < q)
  <2>1. Own.job = "mutate" /\ journal[r].op[1] = Own.call
    BY <1>5 DEF Standing, Ordered, LatesOpen, AssumedGrows
  <2>2. QED
    BY <2>1, LastRow DEF Known, Ordered
<1>6. PageInOrder'
  BY <1>2, <1>3, <1>4, <1>5, OrderGrows DEF Known, Ordered
<1>7. Own.job # "none" => Own.pc # "execute" \/ Own.row = 0 \/ Own.row \in 1..Len(journal)
  <2>1. Own.job # "none" /\ Own.pc = "execute" => Own.row \in 0..Len(journal) /\ Len(journal) \in Nat
    BY RowInHand DEF Own, Whose, Known
  <2>2. QED
    BY <2>1
<1>8. Own.job = "replay" => Own.row \in 1..Len(journal)
  BY RowInHand DEF Own, Whose, Known
<1>9. RowsInOrder' /\ HandPending'
  BY <1>1, <1>2, <1>3, <1>7 DEF Ordered, RowsInOrder, HandPending, RowsKept
<1>10. LatesOpen'
  BY <1>1, <1>2, <1>3, <1>8 DEF Ordered, LatesOpen, RowsKept, AssumedGrows
<1>11. \A r \in 1..Len(journal) : InGeneration(r)' <=> InGeneration(r)
  BY <1>1, <1>3 DEF InGeneration, RowsKept
<1>12. MarkedFirst'
  BY <1>1, <1>3, <1>11 DEF Ordered, MarkedFirst, RowsKept
<1>13. ReplayedSoFar'
  <2>1. \A listed \in todo : listed.row \in 1..Len(journal)
    BY DEF Known, Typed, Shapes
  <2>2. run.phase = "replay" => \A listed \in todo : InGeneration(listed.row)'
    <3>1. ASSUME NEW listed \in todo, NEW r, r = listed.row, run.phase = "replay"
          PROVE  InGeneration(r)'
      BY <1>11, <2>1, <3>1 DEF Ordered, ReplayedSoFar
    <3>2. QED
      BY <3>1 DEF InGeneration
  <2>3. Earliest' = Earliest
    BY <1>1 DEF Earliest
  <2>4. QED
    BY <1>1, <1>2, <1>3, <1>8, <1>11, <2>2, <2>3 DEF Ordered, ReplayedSoFar, RowsKept
<1>14. QED
  BY <1>6, <1>9, <1>10, <1>12, <1>13 DEF Ordered

\* A step that leaves the rows alone, after which nobody acts or replays.
LEMMA RestOrder ==
    ASSUME Known, AssumedGrows, Ordered, Own'.job = "none", run'.phase # "replay", UNCHANGED journal, flying' \subseteq flying,
           PageInOrder', RowsInOrder', MarkedFirst'
    PROVE  Ordered'
<1>1. LatesOpen' /\ HandPending' /\ ReplayedSoFar'
  BY DEF Ordered, LatesOpen, HandPending, ReplayedSoFar, AssumedGrows
<1>2. QED
  BY <1>1 DEF Ordered

\* ... among them those that leave the page and the session's browser alone.
LEMMA QuietRestOrder ==
    ASSUME Known, AssumedGrows, Ordered, Own'.job = "none", run'.phase \notin {"replay", "list"},
           UNCHANGED <<journal, page, flying>>, spent'["sessions"] = spent["sessions"],
           session'.gen = session.gen, session'.id = session.id, session'.status = session.status,
           session'.pending => session.pending
    PROVE  Ordered'
<1>1. RowsKept /\ \A r \in 1..Len(journal) : InGeneration(r)' <=> InGeneration(r)
  BY DEF RowsKept, InGeneration
<1>2. \A r \in 1..Len(journal) : Standing(r)' => Standing(r)
  BY DEF Standing, InGeneration
<1>3. PageInOrder'
  BY <1>1, <1>2, OrderStays DEF Known, Ordered
<1>4. RowsInOrder' /\ MarkedFirst'
  BY <1>1 DEF Ordered, RowsInOrder, MarkedFirst
<1>5. QED
  BY <1>3, <1>4, RestOrder

\* A run that begins goes on in its generation, or in one that has no rows.
LEMMA BeginRunOrder ==
    ASSUME Known, AssumedGrows, Ordered, NEW newGeneration \in BOOLEAN, BeginRun(newGeneration)
    PROVE  Ordered'
<1>1. run \in RunRecord /\ session \in SessionRow /\ session.gen \in Nat
  BY DEF Known, Typed, JournalTypeOK, SessionRow
<1>2. /\ UNCHANGED <<journal, attempts, page, flying, spent>> /\ spent'["sessions"] = spent["sessions"]
      /\ Own.job = "none" /\ Own'.job = "none" /\ run'.phase = "open"
      /\ session'.pending = session.pending /\ session'.id = session.id
      /\ session'.status = session.status
      /\ session'.gen = session.gen \/ session'.gen = session.gen + 1
  BY <1>1, NoneInHand DEF Known, BeginRun, world, Own, RunRecord, SessionRow
<1>3. CASE session'.gen = session.gen
  BY <1>2, <1>3, QuietRestOrder
<1>4. CASE session'.gen = session.gen + 1
  <2>1. \A r \in 1..Len(journal) : journal[r].gen <= session.gen
    BY DEF Ordered, RowsInOrder
  <2>2. \A r \in 1..Len(journal) : journal[r].gen # session'.gen /\ journal[r].gen <= session'.gen
    BY <1>1, <1>4, <2>1, RowNumbers DEF Known
  <2>3. PageInOrder' /\ MarkedFirst'
    BY <1>2, <2>2 DEF PageInOrder, MarkedFirst, Standing, InGeneration
  <2>4. RowsInOrder'
    BY <1>2, <2>2 DEF Ordered, RowsInOrder
  <2>5. QED
    BY <1>2, <2>3, <2>4, RestOrder
<1>5. QED
  BY <1>2, <1>3, <1>4

\* A browser that is created has replayed nothing; one that is still there is
\* loaded again.
LEMMA OpenOrder ==
    ASSUME Known, AssumedGrows, Ordered, NEW answered \in BOOLEAN, OpenWebpage(answered)
    PROVE  Ordered'
<1>1. /\ run.phase = "open" /\ run \in RunRecord /\ UNCHANGED <<journal, attempts, todo>>
      /\ session \in SessionRow /\ spent \in [Bounded -> Nat] /\ spent'["sessions"] = session'.id
  BY DEF OpenWebpage, Known, Typed, JournalTypeOK, Bounded
<1>2. Own.job = "none" /\ Own'.job = "none" /\ RowsKept
  BY <1>1, NoneInHand DEF Known, Own, RowsKept
<1>3. run'.phase # "replay"
  <2>1. \/ run' = [run EXCEPT !.phase = IF session'.pending THEN "list" ELSE "act"]
        \/ run' = [run EXCEPT !.tries = @ + 1]
        \/ run' = [run EXCEPT !.phase = "ending"]
    BY DEF OpenWebpage
  <2>2. QED
    BY <1>1, <2>1 DEF RunRecord
<1>4. CASE Reconnect
  <2>1. /\ session' = session /\ page' \in {page, Append(page, Start)} /\ flying' = flying
        /\ session.id # 0 /\ session.id = spent["sessions"]
    BY <1>4 DEF Reconnect, Reachable, Ordered, RowsInOrder
  <2>2. \A r \in 1..Len(journal) : /\ Standing(r)' => Standing(r)
                                   /\ InGeneration(r)' <=> InGeneration(r)
    BY <1>1, <1>2, <2>1 DEF Standing, InGeneration
  <2>3. PageInOrder'
    BY <1>2, <2>1, <2>2, OrderStays DEF Known, Ordered
  <2>4. RowsInOrder' /\ MarkedFirst'
    BY <1>1, <2>1, <2>2 DEF Ordered, RowsInOrder, MarkedFirst
  <2>5. QED
    BY <1>1, <1>2, <1>3, <2>1, <2>3, <2>4, RestOrder
<1>5. CASE Create
  <2>1. /\ page' = <<Start>> /\ flying' = {} /\ session'.gen = session.gen
        /\ session'.id = spent["sessions"] + 1
    BY <1>1, <1>5 DEF Create, SessionRow
  <2>2. spent["sessions"] \in Nat /\ \A r \in 1..Len(journal) : journal[r].on <= spent["sessions"]
    BY RowNumbers DEF Known, Ordered, RowsInOrder
  <2>3. session'.id # 0 /\ \A r \in 1..Len(journal) : journal[r].on <= session'.id /\ journal[r].on # session'.id
    BY <2>1, <2>2, RowNumbers DEF Known
  <2>4. MarkedFirst'
    BY <1>1, <2>3 DEF MarkedFirst
  <2>5. RowsInOrder'
    BY <1>1, <2>1, <2>3 DEF Ordered, RowsInOrder
  <2>6. PageInOrder'
    BY <1>2, <2>1, OrderGone DEF Known
  <2>7. QED
    BY <1>1, <1>2, <1>3, <2>1, <2>4, <2>5, <2>6, RestOrder
<1>6. QED
  BY <1>4, <1>5 DEF OpenWebpage

\* What the list takes back was not replayed on this browser.
LEMMA ListOrder ==
    ASSUME Known, AssumedGrows, Ordered, ListBrowserMutationsForReplay
    PROVE  Ordered'
<1>1. /\ run.phase = "list" /\ UNCHANGED <<session, attempts, page, flying, spent>>
      /\ session.pending /\ session.id # 0
      /\ run' = [run EXCEPT !.phase = "replay"] /\ run \in RunRecord
  BY DEF ListBrowserMutationsForReplay, world, Known, Typed, JournalTypeOK, Once, Stages, Ordered, RowsInOrder
<1>2. /\ journal \in Seq(JournalRow) /\ Len(journal) \in Nat /\ DOMAIN journal = 1..Len(journal)
      /\ Len(journal') = Len(journal)
  BY RowsListed DEF Known, Typed, JournalTypeOK
<1>3. \A r \in 1..Len(journal) :
          /\ journal'[r].op = journal[r].op /\ journal'[r].key = journal[r].key
          /\ journal'[r].gen = journal[r].gen /\ journal'[r].done = journal[r].done
          /\ \/ journal'[r].on = journal[r].on /\ journal'[r].status = journal[r].status
             \/ journal'[r].on = 0 /\ journal[r].on # session.id
  <2>1. SUFFICES ASSUME NEW r \in 1..Len(journal)
                 PROVE  /\ journal'[r].op = journal[r].op /\ journal'[r].key = journal[r].key
                        /\ journal'[r].gen = journal[r].gen /\ journal'[r].done = journal[r].done
                        /\ \/ journal'[r].on = journal[r].on /\ journal'[r].status = journal[r].status
                           \/ journal'[r].on = 0 /\ journal[r].on # session.id
    OBVIOUS
  <2>2. journal[r] \in JournalRow /\ journal'[r] = Recovered(journal[r])
    BY <1>2, ElementOfSeq DEF ListBrowserMutationsForReplay
  <2>3. QED
    BY <2>2 DEF Recovered, JournalRow
<1>4. RowsKept /\ \A r \in 1..Len(journal) : InGeneration(r)' <=> InGeneration(r)
  BY <1>1, <1>2, <1>3 DEF RowsKept, InGeneration
<1>5. Own.job = "none" /\ Own'.job = "none" /\ run'.phase = "replay"
  BY <1>1, NoneInHand DEF Own, Known, RunRecord
<1>6. \A r \in 1..Len(journal) : journal'[r].status = journal[r].status \/ journal[r].op \notin Seen
  BY <1>1, <1>3, UnmarkedUnseen DEF Known
<1>7. \A r \in 1..Len(journal) : Standing(r)' => Standing(r) \/ journal[r].op \notin Seen
  BY <1>4, <1>5, <1>6 DEF Standing
<1>8. PageInOrder'
  BY <1>1, <1>4, <1>7, OrderStays DEF Known, Ordered
<1>9. RowsInOrder'
  <2>1. \A r \in 1..Len(journal) : journal'[r].on <= spent["sessions"]
    <3>1. \A r \in 1..Len(journal) : journal[r].on <= spent["sessions"] /\ 0 <= spent["sessions"]
      BY RowNumbers DEF Known, Ordered, RowsInOrder
    <3>2. QED
      BY <1>3, <3>1
  <2>2. QED
    BY <1>1, <1>4, <1>5, <2>1 DEF Ordered, RowsInOrder, RowsKept
<1>10. LatesOpen' /\ HandPending'
  <2>1. \A late \in flying : late.op \in Seen
    BY DEF Known, Typed, JournalTypeOK, Execution, Seen
  <2>2. QED
    BY <1>1, <1>4, <1>5, <1>6, <2>1 DEF Ordered, LatesOpen, HandPending, RowsKept, AssumedGrows
<1>11. \A r \in 1..Len(journal) : journal'[r].on = session.id <=> journal[r].on = session.id
  BY <1>1, <1>3
<1>12. MarkedFirst'
  BY <1>1, <1>4, <1>11 DEF Ordered, MarkedFirst, RowsKept
<1>13. ReplayedSoFar'
  <2>1. \A r : r \in ListedRows <=> r \in 1..Len(journal) /\ InGeneration(r)
    BY <1>2 DEF ListedRows, InGeneration
  <2>2. /\ \A listed \in todo' : listed.row \in ListedRows
        /\ \A r \in ListedRows : \E listed \in todo' : listed.row = r
    <3> DEFINE entry(r) == [row |-> r, ok |-> journal'[r].status = "applied" /\ ReplaySafe(journal[r].kind)]
    <3>1. todo' = {entry(r) : r \in ListedRows}
      BY DEF ListBrowserMutationsForReplay
    <3>2. \A r : entry(r).row = r
      OBVIOUS
    <3> HIDE DEF entry
    <3>3. QED
      BY <3>1, <3>2
  <2>3. \A listed \in todo' : InGeneration(listed.row)'
    <3>1. ASSUME NEW listed \in todo', NEW r, r = listed.row
          PROVE  InGeneration(r)'
      BY <1>4, <2>1, <2>2, <3>1
    <3>2. QED
      BY <3>1 DEF InGeneration
  <2>4. \A r \in 1..Len(journal') : InGeneration(r)' => \E listed \in todo' : listed.row = r
    BY <1>4, <2>1, <2>2 DEF RowsKept
  <2>5. QED
    BY <1>1, <1>5, <2>3, <2>4 DEF ReplayedSoFar
<1>14. QED
  BY <1>8, <1>9, <1>10, <1>12, <1>13 DEF Ordered

\* The earliest of the listed rows is the next to be replayed.
LEMMA ReplayNextOrder ==
    ASSUME Known, AssumedGrows, Ordered, ReplayNext
    PROVE  Ordered'
<1>1. /\ run.phase = "replay" /\ todo # {} /\ Own.job = "none" /\ "own" \in Whose
      /\ UNCHANGED <<journal, session, todo, page, flying, spent>> /\ spent'["sessions"] = spent["sessions"]
      /\ run \in RunRecord
  BY DEF ReplayNext, world, Own, Whose, Known, Typed, JournalTypeOK
<1>2. CASE run' = [run EXCEPT !.phase = "ending"] /\ UNCHANGED attempts
  <2>1. run'.phase = "ending" /\ Own'.job = "none"
    BY <1>1, <1>2 DEF RunRecord, Own
  <2>2. QED
    BY <1>1, <2>1, QuietRestOrder
<1>3. CASE /\ Put("own", [NoAttempt EXCEPT !.job = "replay", !.pc = "claim",
                                           !.row = Earliest.row, !.try = 1])
           /\ UNCHANGED run
  <2>1. Own' = [NoAttempt EXCEPT !.job = "replay", !.pc = "claim", !.row = Earliest.row, !.try = 1]
    BY <1>1, <1>3, PutOne DEF Own, Known
  <2>2. Own'.job = "replay" /\ Own'.pc = "claim" /\ Own'.row = Earliest.row
    BY <2>1 DEF NoAttempt
  <2>3. RowsKept /\ \A r \in 1..Len(journal) : /\ Standing(r)' => Standing(r)
                                               /\ InGeneration(r)' <=> InGeneration(r)
    BY <1>1, <2>2 DEF RowsKept, Standing, InGeneration
  <2>4. PageInOrder'
    BY <1>1, <2>3, OrderStays DEF Known, Ordered
  <2>5. RowsInOrder' /\ LatesOpen' /\ HandPending' /\ MarkedFirst'
    BY <1>1, <1>3, <2>2, <2>3 DEF Ordered, RowsInOrder, LatesOpen, HandPending, MarkedFirst, AssumedGrows
  <2>6. ReplayedSoFar'
    <3>1. Earliest' = Earliest
      BY <1>1 DEF Earliest
    <3>2. QED
      BY <1>1, <1>3, <2>2, <3>1 DEF Ordered, ReplayedSoFar, InGeneration
  <2>7. QED
    BY <2>4, <2>5, <2>6 DEF Ordered
<1>4. QED
  BY <1>2, <1>3 DEF ReplayNext

\* A call that starts has no row yet.
LEMMA StartCallOrder ==
    ASSUME Known, AssumedGrows, Ordered, NEW kinds \in Calls, StartCall(kinds)
    PROVE  Ordered'
<1>1. /\ run.phase = "act" /\ "own" \in Whose /\ UNCHANGED <<journal, session, todo, page, flying, spent>>
      /\ run \in RunRecord /\ run.calls \in Nat /\ ~session.pending
  BY DEF StartCall, world, Whose, Known, Once, Stages, Typed, JournalTypeOK, RunRecord
<1>2. PICK id : /\ run' = [run EXCEPT !.calls = @ + 1, !.id = id]
                /\ Put("own", [NoAttempt EXCEPT
                       !.job = "mutate", !.pc = "record", !.call = run.calls + 1,
                       !.id = id, !.kinds = kinds, !.field = 1, !.try = 1])
  BY DEF StartCall
<1>3. run'.phase = "act"
  BY <1>1, <1>2 DEF RunRecord
<1>4. Own'.job = "mutate" /\ Own'.pc = "record" /\ Own'.call = run.calls + 1
  <2>1. Own' = [NoAttempt EXCEPT !.job = "mutate", !.pc = "record", !.call = run.calls + 1,
                                 !.id = id, !.kinds = kinds, !.field = 1, !.try = 1]
    BY <1>1, <1>2, PutOne DEF Own, Known
  <2>2. QED
    BY <2>1 DEF NoAttempt
<1>5. \A r \in 1..Len(journal) : journal[r].op[1] # run.calls + 1
  <2>1. \A r \in 1..Len(journal) : journal[r].op[1] <= run.calls
    BY DEF Known, Once, CallsSoFar
  <2>2. QED
    BY <1>1, <2>1, RowNumbers DEF Known
<1>6. RowsKept /\ \A r \in 1..Len(journal) : Standing(r)' => Standing(r)
  BY <1>1, <1>4, <1>5 DEF RowsKept, Standing, InGeneration
<1>7. PageInOrder'
  BY <1>1, <1>6, OrderStays DEF Known, Ordered
<1>8. RowsInOrder' /\ LatesOpen' /\ HandPending'
  BY <1>1, <1>3, <1>4 DEF Ordered, RowsInOrder, LatesOpen, HandPending, AssumedGrows
<1>9. MarkedFirst' /\ ReplayedSoFar'
  BY <1>1, <1>3, <1>4 DEF MarkedFirst, ReplayedSoFar
<1>10. QED
  BY <1>7, <1>8, <1>9 DEF Ordered

\* The answer of a replay takes its row off the list, and the row is marked.
LEMMA ReportReplayOrder ==
    ASSUME Known, AssumedGrows, Ordered, Own.job = "replay", Report
    PROVE  Ordered'
<1>1. /\ Own.pc = "report" /\ Own \in AttemptRecord /\ "own" \in Whose /\ run \in RunRecord
      /\ UNCHANGED <<journal, session, page, flying, spent>> /\ spent'["sessions"] = spent["sessions"]
  BY DEF Report, world, Own, Known, Typed, JournalTypeOK, Whose
<1>2. RowsKept /\ run.phase = "replay"
  BY <1>1 DEF RowsKept, Known, Once, Stages
<1>3. ASSUME Own'.job = "none" \/ (Own'.job = "replay" /\ Own'.pc = "claim")
      PROVE  PageInOrder' /\ LatesOpen'
  <2>1. \A r \in 1..Len(journal) : Standing(r)' => Standing(r)
    BY <1>1, <1>3 DEF Standing, InGeneration
  <2>2. PageInOrder'
    BY <1>1, <1>2, <2>1, OrderStays DEF Known, Ordered
  <2>3. LatesOpen'
    BY <1>1, <1>3 DEF Ordered, LatesOpen, AssumedGrows
  <2>4. QED
    BY <2>2, <2>3
<1>4. ASSUME Put("own", NoAttempt)
      PROVE  Own'.job = "none"
  BY <1>1, <1>4, PutOne DEF Own, Known, NoAttempt
<1>5. CASE Put("own", Retried(Own)) /\ UNCHANGED <<run, todo>>
  <2>1. Own'.job = "replay" /\ Own'.pc = "claim" /\ Own'.row = Own.row
    BY <1>5, RetriedReplay DEF Known
  <2>2. PageInOrder' /\ LatesOpen'
    BY <1>3, <2>1
  <2>3. QED
    BY <1>1, <1>2, <1>5, <2>1, <2>2, ReplayStepOrder
<1>6. CASE Put("own", NoAttempt) /\ run' = [run EXCEPT !.phase = "ending"] /\ UNCHANGED todo
  <2>1. run'.phase = "ending" /\ Own'.job = "none"
    BY <1>1, <1>4, <1>6 DEF RunRecord
  <2>2. QED
    BY <1>1, <2>1, QuietRestOrder
<1>7. CASE /\ Own.errors = "none" /\ Put("own", NoAttempt)
           /\ todo' = todo \ {Earliest} /\ UNCHANGED run
  <2>1. Own'.job = "none"
    BY <1>4, <1>7
  <2>2. PageInOrder' /\ LatesOpen'
    BY <1>3, <2>1
  <2>3. RowsInOrder' /\ HandPending' /\ MarkedFirst'
    BY <1>1, <1>7, <2>1 DEF Ordered, RowsInOrder, HandPending, MarkedFirst, InGeneration
  <2>4. ReplayedSoFar'
    <3>1. journal[Own.row].on = session.id /\ Own.row = Earliest.row
      BY <1>1, <1>7 DEF Ordered, ReplayedSoFar
    <3>2. ASSUME NEW r \in 1..Len(journal), InGeneration(r), \A listed \in todo' : listed.row # r
          PROVE  journal[r].on = session.id
      <4>1. CASE r = Earliest.row
        BY <3>1, <4>1
      <4>2. CASE r # Earliest.row
        <5>1. \A listed \in todo : listed.row # r
          BY <1>7, <3>2, <4>2
        <5>2. QED
          BY <1>2, <3>2, <5>1 DEF Ordered, ReplayedSoFar
      <4>3. QED
        BY <4>1, <4>2
    <3>3. session.id # 0 /\ \A listed \in todo' : InGeneration(listed.row)
      BY <1>2, <1>7 DEF Ordered, ReplayedSoFar
    <3>4. QED
      BY <1>1, <1>7, <2>1, <3>2, <3>3 DEF ReplayedSoFar, InGeneration
  <2>5. QED
    BY <2>2, <2>3, <2>4 DEF Ordered
<1>8. QED
  BY <1>5, <1>6, <1>7 DEF Report, GiveUp, Own

\* The answer of a call leaves its row as it is.
LEMMA ReportCallOrder ==
    ASSUME Known, AssumedGrows, Ordered, Own.job = "mutate", Report
    PROVE  Ordered'
<1>1. /\ Own.pc = "report" /\ Own \in AttemptRecord /\ "own" \in Whose /\ run \in RunRecord
      /\ UNCHANGED <<journal, session, page, flying, spent>> /\ spent'["sessions"] = spent["sessions"]
  BY DEF Report, world, Own, Known, Typed, JournalTypeOK, Whose
<1>2. /\ \/ Own'.job = "mutate" /\ Own'.pc = "record" /\ Own'.call = Own.call
         \/ Own'.job = "none"
      /\ run' = run
  <2>1. CASE Put("own", Retried(Own)) /\ UNCHANGED <<run, todo>>
    <3>1. Own' = Retried(Own)
      BY <1>1, <2>1, PutOne DEF Own, Known
    <3>2. QED
      BY <1>1, <2>1, <3>1 DEF Retried, AttemptRecord
  <2>2. CASE Put("own", NoAttempt) /\ UNCHANGED run
    <3>1. Own' = NoAttempt
      BY <1>1, <2>2, PutOne DEF Own, Known
    <3>2. QED
      BY <2>2, <3>1 DEF NoAttempt
  <2>3. QED
    BY <2>1, <2>2 DEF Report, GiveUp, Own
<1>3. RowsKept /\ \A r \in 1..Len(journal) : Standing(r)' => Standing(r)
  BY <1>1, <1>2 DEF RowsKept, Standing, InGeneration
<1>4. PageInOrder'
  BY <1>1, <1>3, OrderStays DEF Known, Ordered
<1>5. LatesOpen' /\ HandPending'
  BY <1>1, <1>2 DEF Ordered, LatesOpen, HandPending, AssumedGrows
<1>6. QED
  BY <1>1, <1>2, <1>3, <1>4, <1>5, CallStepOrder

\* Every step of the workflow.
LEMMA WorkflowOrder ==
    ASSUME Known, AssumedGrows, Ordered, NobodyLeftBehind', Workflow
    PROVE  Ordered'
<1>1. run \in RunRecord /\ session \in SessionRow /\ Own \in AttemptRecord
  BY DEF Known, Typed, JournalTypeOK, Own, Whose
<1>2. CASE CompleteBrowserReplay
  <2>1. /\ UNCHANGED <<journal, attempts, page, flying, spent>> /\ spent'["sessions"] = spent["sessions"]
        /\ run.phase = "replay" /\ todo = {} /\ run'.phase = "act"
        /\ session'.pending = FALSE /\ session'.gen = session.gen /\ session'.id = session.id
        /\ session'.status = session.status
    BY <1>1, <1>2 DEF CompleteBrowserReplay, world, RunRecord, SessionRow
  <2>2. Own.job = "none" /\ Own'.job = "none"
    BY <1>1, <2>1 DEF Known, Once, Stages, Own, AttemptRecord
  <2>3. QED
    BY <2>1, <2>2, QuietRestOrder
<1>3. CASE Leave \/ CancelRun
  <2>1. UNCHANGED <<journal, session, page, flying>> /\ run'.phase = "ending"
    BY <1>1, <1>3 DEF Leave, CancelRun, world, RunRecord
  <2>2. Own'.job = "none" /\ spent'["sessions"] = spent["sessions"]
    <3>1. CASE Leave
      BY <3>1 DEF Leave, Own
    <3>2. CASE CancelRun
      <4>1. Own.job # "none" => attempts'["left"] = Own
        BY <3>2 DEF CancelRun, Own, Known, Typed, JournalTypeOK, Whose
      <4>2. Own.job = "none"
        BY <4>1 DEF NobodyLeftBehind
      <4>3. spent'["sessions"] = spent["sessions"]
        BY <3>2, SessionsSpent DEF CancelRun, Known, Bounded
      <4>4. QED
        BY <3>2, <4>2, <4>3 DEF CancelRun, Own
    <3>3. QED
      BY <1>3, <3>1, <3>2
  <2>3. QED
    BY <2>1, <2>2, QuietRestOrder
<1>4. ASSUME NEW deleted \in BOOLEAN, NEW cleared \in BOOLEAN, CloseBrowser(deleted, cleared)
      PROVE  Ordered'
  <2>1. /\ UNCHANGED <<journal, attempts>>
        /\ Own.job = "none" /\ Own'.job = "none" /\ run'.phase = "idle"
    BY <1>1, <1>4, NoneInHand DEF CloseBrowser, Own, RunRecord, Known
  <2>2. spent'["sessions"] = spent["sessions"]
    BY <1>4, SessionsSpent DEF CloseBrowser, Known, Bounded
  <2>3. CASE deleted
    <3>1. page' = <<>> /\ flying' = {} /\ RowsKept
      BY <1>4, <2>1, <2>3 DEF CloseBrowser, RowsKept
    <3>2. PageInOrder'
      BY <3>1, OrderGone DEF Known
    <3>3. /\ session'.gen = session.gen
          /\ \/ session'.id = session.id /\ session'.status = session.status
                /\ session'.pending = session.pending
             \/ session'.id = 0 /\ session'.status = "closed"
      BY <1>1, <1>4 DEF CloseBrowser, SessionRow
    <3>4. RowsInOrder' /\ MarkedFirst'
      BY <2>1, <2>2, <3>3 DEF Ordered, RowsInOrder, MarkedFirst, InGeneration
    <3>5. QED
      BY <2>1, <3>1, <3>2, <3>4, RestOrder
  <2>4. CASE ~deleted
    <3>1. UNCHANGED <<session, page, flying>>
      BY <1>4, <2>4 DEF CloseBrowser
    <3>2. QED
      BY <2>1, <2>2, <3>1, QuietRestOrder
  <2>5. QED
    BY <2>3, <2>4
<1>5. CASE Report
  <2>1. Own.job # "none"
    BY <1>5 DEF Report, Known, Typed, Shapes, AttemptShape, Own, Whose
  <2>2. QED
    BY <1>1, <1>5, <2>1, ReportReplayOrder, ReportCallOrder DEF AttemptRecord
<1>6. QED
  BY <1>2, <1>3, <1>4, <1>5, BeginRunOrder, OpenOrder, ListOrder, ReplayNextOrder, StartCallOrder DEF Workflow

\* Every step of the run's own attempt.
LEMMA AttemptOrder ==
    ASSUME Known, AssumedGrows, Ordered, SingleFields, NobodyLeftBehind, NEW w \in Whose, Attempt(w)
    PROVE  Ordered'
<1>1. w = "own" /\ Own.job \in {"mutate", "replay"}
  <2>1. Own \in AttemptRecord
    BY DEF Known, Typed, JournalTypeOK, Own, Whose
  <2>2. QED
    BY <2>1, NobodyElse DEF AttemptRecord, Known
<1>2. CASE Own.job = "mutate"
  BY <1>1, <1>2, RecordOrder, ReconcileOrder, ExecuteCallOrder, SettleOrder, ClaimOrder, SettleReplayOrder,
     TimeoutCallOrder DEF Attempt
<1>3. CASE Own.job = "replay"
  BY <1>1, <1>3, RecordOrder, ReconcileOrder, SettleOrder, ClaimOrder, ExecuteReplayOrder, SettleReplayOrder,
     TimeoutReplayOrder DEF Attempt
<1>4. QED
  BY <1>1, <1>2, <1>3

\* The loss of the browser takes its page along.
LEMMA ExpireOrder ==
    ASSUME Known, AssumedGrows, Ordered, Expire
    PROVE  Ordered'
<1>1. /\ UNCHANGED <<journal, session, attempts, Own, run, todo>> /\ page' = <<>> /\ flying' = {}
      /\ spent'["sessions"] = spent["sessions"]
  BY SessionsSpent DEF Expire, Own, Known, Bounded
<1>2. PageInOrder'
  BY <1>1, OrderGone DEF Known, RowsKept
<1>3. RowsInOrder' /\ LatesOpen' /\ HandPending' /\ MarkedFirst'
  BY <1>1 DEF Ordered, RowsInOrder, LatesOpen, HandPending, MarkedFirst, InGeneration, AssumedGrows
<1>4. ReplayedSoFar'
  <2>1. Earliest' = Earliest
    BY <1>1 DEF Earliest
  <2>2. QED
    BY <1>1, <2>1 DEF Ordered, ReplayedSoFar, InGeneration
<1>5. QED
  BY <1>2, <1>3, <1>4 DEF Ordered

\* No step takes back what was taken for done.
LEMMA StepAssumes ==
    ASSUME [Next]_vars
    PROVE  AssumedGrows
<1>1. ASSUME NEW w \in Whose, Attempt(w)
      PROVE  AssumedGrows
  BY <1>1 DEF Attempt, AssumedGrows, Record, Reconcile, Execute, Settle, Claim, SettleReplay, Timeout, world
<1>2. ASSUME Workflow
      PROVE  AssumedGrows
  BY <1>2 DEF Workflow, AssumedGrows, BeginRun, OpenWebpage, ListBrowserMutationsForReplay, ReplayNext,
     CompleteBrowserReplay, StartCall, Leave, CancelRun, CloseBrowser, Report, world
<1>3. QED
  BY <1>1, <1>2 DEF Next, AssumedGrows, ReportInVain, LandLate, Expire, vars, world

\* Every step that leaves nobody behind.
LEMMA StepOrder ==
    ASSUME Known, Ordered, SingleFields, NobodyLeftBehind, NobodyLeftBehind', [Next]_vars
    PROVE  Ordered'
<1>1. ~ReportInVain
  BY DEF ReportInVain, NobodyLeftBehind, Known, Typed, Shapes, AttemptShape, Whose
<1>2. CASE UNCHANGED vars
  <2>1. UNCHANGED <<journal, session, page, flying, run, todo, spent, Own, assumed>>
    BY <1>2 DEF vars, Own
  <2>2. PageInOrder' /\ RowsInOrder' /\ LatesOpen' /\ HandPending' /\ MarkedFirst'
    BY <2>1 DEF Ordered, PageInOrder, RowsInOrder, LatesOpen, HandPending, MarkedFirst, Standing, InGeneration
  <2>3. ReplayedSoFar'
    <3>1. Earliest' = Earliest
      BY <2>1 DEF Earliest
    <3>2. QED
      BY <2>1, <3>1 DEF Ordered, ReplayedSoFar, InGeneration
  <2>4. QED
    BY <2>2, <2>3 DEF Ordered
<1>3. AssumedGrows
  BY StepAssumes
<1>4. QED
  BY <1>1, <1>2, <1>3, WorkflowOrder, AttemptOrder, LandLateOrder, ExpireOrder DEF Next

\* Where calls are of one field, no key stands for two of them, and nobody is
\* left behind, what the page shows is in the order of the rows.
THEOREM OrderInvariant ==
    SingleFields => (Spec /\ []KeysUnambiguous /\ []NobodyLeftBehind => []Ordered)
<1> SUFFICES ASSUME SingleFields
             PROVE  Spec /\ []KeysUnambiguous /\ []NobodyLeftBehind => []Ordered
  OBVIOUS
<1>1. Init => Ordered
  <2>1. SUFFICES ASSUME Init
                 PROVE  Ordered
    OBVIOUS
  <2>2. /\ Len(journal) = 0 /\ flying = {} /\ Own.job = "none"
        /\ run.phase = "idle" /\ session.id = 0 /\ session.status = "starting"
    BY <2>1, EmptySeq DEF Init, Own, NoAttempt, Whose
  <2>3. QED
    BY <2>2 DEF Ordered, PageInOrder, RowsInOrder, LatesOpen, HandPending, MarkedFirst, ReplayedSoFar, AssumedGrows
<1>2. Typed /\ Guarded /\ Once /\ Truthful /\ Ordered /\ NobodyLeftBehind /\ NobodyLeftBehind' /\ [Next]_vars
          => Ordered'
  BY StepOrder DEF Known
<1>3. QED
  BY <1>1, <1>2, TypingInvariant, GuardInvariant, OnceInvariant, JournalIsTruthful, PTL DEF Spec

\* Rows that are applied keep the order of their actions on the page, through
\* replays, retries, late landings and lost browsers, as long as each call is of
\* one field (TypeMultiple may retry a field behind later ones), no key stands
\* for two calls and nobody is left behind (replayBrowserMutations).
THEOREM RowsKeepTheirOrder ==
    SingleFields => (Spec /\ []KeysUnambiguous /\ []NobodyLeftBehind => []AppliedInOrder)
<1> SUFFICES ASSUME SingleFields
             PROVE  Spec /\ []KeysUnambiguous /\ []NobodyLeftBehind => []AppliedInOrder
  OBVIOUS
<1>1. Typed /\ Ordered => AppliedInOrder
  <2>1. SUFFICES ASSUME Typed, Ordered
                 PROVE  AppliedInOrder
    OBVIOUS
  <2>2. DOMAIN journal = 1..Len(journal) /\ DOMAIN page = 1..Len(page)
    BY <2>1, LenProperties DEF Typed, JournalTypeOK
  <2>3. \A r \in 1..Len(journal) :
            journal[r].gen = session.gen /\ journal[r].status = "applied" => Standing(r)
    BY DEF Standing, InGeneration
  <2>4. QED
    BY <2>1, <2>2, <2>3 DEF AppliedInOrder, BothApplied, HappenedBefore, Ordered, PageInOrder
<1>2. QED
  BY <1>1, TypingInvariant, OrderInvariant, PTL

\* ... in particular in an application that never pauses, every run of which
\* begins its own generation.
COROLLARY FreshGenerationsKeepOrder ==
    SingleFields =>
        (Spec /\ [][FreshGeneration]_vars /\ []NobodyLeftBehind => []AppliedInOrder)
BY RowsKeepTheirOrder, FreshGenerationsKeepKeysApart, PTL

-----------------------------------------------------------------------------
(* The agent starts on a page that shows the journal's generation, as long  *)
(* as runs close their browsers and nobody is left behind.                  *)

\* The row was replayed on this browser, or is being replayed there.
Marked(r) == journal[r].on = session.id

\* The replay is through with the row.
Unlisted(r) == InGeneration(r) /\ \A listed \in todo : listed.row # r

\* The row's replay was done, and is being settled.
Settling(r) == Own.job = "replay" /\ Own.row = r /\ Own.pc = "settle" /\ Own.outcome = "done"

\* The row's action is on the page since it was loaded last.
Shows(r) == InGeneration(r) /\ Marked(r) /\ (journal[r].status = "applied" \/ Settling(r))

\* The row in hand was replayed to no certain end: the replay will fail.
Spoiled == /\ Own.job = "replay" /\ Marked(Own.row) /\ journal[Own.row].status # "applied"
           /\ Own.pc # "execute" /\ ~Settling(Own.row)

\* Rows are marked for browsers that have been created.
Counted ==
    /\ \A r \in 1..Len(journal) : journal[r].on <= spent["sessions"]
    /\ session.id # 0 => session.id = spent["sessions"]
    /\ session.status = "active" => session.id # 0

\* A run opens a browser of its own, on which nothing has happened.
Unopened ==
    /\ run.phase = "idle" => session.status # "active"
    /\ run.phase \in {"open", "list"} /\ session.status = "active" =>
           /\ session.pending
           /\ \A r \in 1..Len(journal) : ~Marked(r)
           /\ alive => /\ flying = {} /\ Len(page) # 0
                       /\ \A i \in 1..Len(page) : page[i] = Start

\* The rows that the replay is through with are marked, applied, and before
\* those that are listed; of these only the one in hand may be marked.
Listing ==
    run.phase = "replay" =>
        /\ session.id # 0
        /\ \A listed \in todo : InGeneration(listed.row)
        /\ \A listed, other \in todo : listed.row = other.row => listed = other
        /\ \A r \in 1..Len(journal) : Unlisted(r) =>
               /\ Marked(r) /\ journal[r].status = "applied"
               /\ \A listed \in todo : r < listed.row
        /\ \A listed \in todo : Marked(listed.row) => Own.job = "replay" /\ Own.row = listed.row
        /\ Own.job = "replay" =>
               /\ Own.row = Earliest.row
               /\ Own.pc \in {"execute", "settle"} => Marked(Own.row) /\ journal[Own.row].status = "pending"
               /\ Own.pc = "report" /\ Own.errors = "none" =>
                      Marked(Own.row) /\ journal[Own.row].status = "applied"

\* The page was loaded at k, and shows since then what is to be shown, in the
\* order of the rows.
RebuiltFrom(k) ==
    /\ page[k] = Start
    /\ \A i \in 1..Len(page) : k < i => \E r \in 1..Len(journal) : Shows(r) /\ page[i] = journal[r].op
    /\ \A r \in 1..Len(journal) : Shows(r) => \E i \in 1..Len(page) : k < i /\ page[i] = journal[r].op
    /\ \A r, q \in 1..Len(journal) : Shows(r) /\ Shows(q) /\ r < q =>
           \A i, j \in 1..Len(page) : page[i] = journal[r].op /\ page[j] = journal[q].op => i < j

Rebuilding ==
    run.phase = "replay" /\ alive /\ ~Spoiled => flying = {} /\ \E k \in 1..Len(page) : RebuiltFrom(k)

Restoring == Counted /\ Unopened /\ Listing /\ Rebuilding
-----------------------------------------------------------------------------
\* Once a run acts or ends, only the numbers of the browsers matter.
LEMMA LaterRestoring ==
    ASSUME Counted', run'.phase \notin {"idle", "open", "list", "replay"}
    PROVE  Restoring'
BY DEF Restoring, Unopened, Listing, Rebuilding

\* A step of the attempt of a call marks no row.
LEMMA CallRestoring ==
    ASSUME Typed, Once, Restoring, Own.job = "mutate", UNCHANGED session,
           spent'["sessions"] = spent["sessions"], run'.phase \in {run.phase, "ending"},
           \A r \in 1..Len(journal') :
               journal'[r].on = 0 \/ (r \in 1..Len(journal) /\ journal'[r].on = journal[r].on)
    PROVE  Restoring'
<1>1. run.phase = "act"
  BY DEF Once, Stages
<1>2. Counted'
  <2>1. /\ \A r \in 1..Len(journal) : journal[r].on <= spent["sessions"]
        /\ 0 <= spent["sessions"]
    BY RowNumbers DEF Restoring, Counted
  <2>2. QED
    BY <2>1 DEF Restoring, Counted
<1>3. QED
  BY <1>1, <1>2, LaterRestoring

\* The row that a replay has in hand is the earliest that is listed, behind
\* everything that is shown.
LEMMA HandListed ==
    ASSUME Typed, Once, Restoring, Own.job = "replay"
    PROVE  /\ run.phase = "replay" /\ todo # {} /\ session.id # 0 /\ session.id \in Nat
           /\ Own.row \in 1..Len(journal) /\ InGeneration(Own.row) /\ Own.row = Earliest.row
           /\ \E listed \in todo : listed.row = Own.row
           /\ \A r \in 1..Len(journal) : Shows(r) => r = Own.row \/ r < Own.row
<1>1. run.phase = "replay" /\ todo # {}
  BY DEF Once, Stages
<1>2. session.id # 0 /\ Own.row = Earliest.row /\ \A listed \in todo : InGeneration(listed.row)
  BY <1>1 DEF Restoring, Listing
<1>3. Earliest \in todo
  BY <1>1, EarliestFirst
<1>4. Own.row \in 1..Len(journal) /\ InGeneration(Own.row) /\ \E listed \in todo : listed.row = Own.row
  BY <1>2, <1>3 DEF Typed, Shapes
<1>5. ASSUME NEW r \in 1..Len(journal), Shows(r), r # Own.row
      PROVE  r < Own.row
  <2>1. Unlisted(r)
    <3>1. \A listed \in todo : listed.row # r
      BY <1>1, <1>5 DEF Restoring, Listing, Shows, Marked
    <3>2. QED
      BY <1>5, <3>1 DEF Unlisted, Shows
  <2>2. QED
    BY <1>1, <1>4, <2>1 DEF Restoring, Listing
<1>6. session.id \in Nat
  BY RowNumbers
<1>7. QED
  BY <1>1, <1>2, <1>4, <1>5, <1>6

\* A step of a replay touches no row but its own, and rebuilds the page.
LEMMA ReplayRestoring ==
    ASSUME Typed, Once, Restoring, Own.job = "replay", UNCHANGED <<session, todo>>,
           spent'["sessions"] = spent["sessions"], run'.phase \in {run.phase, "ending"},
           run'.phase = "replay" => Own'.job = "replay" /\ Own'.row = Own.row, RowsKept,
           \A r \in 1..Len(journal) :
               /\ r # Own.row => journal'[r].on = journal[r].on /\ journal'[r].status = journal[r].status
               /\ journal'[r].on \in {journal[r].on, session.id},
           run'.phase = "replay" =>
               /\ Own'.pc \in {"execute", "settle"} =>
                      journal'[Own.row].on = session.id /\ journal'[Own.row].status = "pending"
               /\ Own'.pc = "report" /\ Own'.errors = "none" =>
                      journal'[Own.row].on = session.id /\ journal'[Own.row].status = "applied",
           Rebuilding'
    PROVE  Restoring'
<1>1. /\ run.phase = "replay" /\ todo # {} /\ session.id # 0 /\ session.id \in Nat
      /\ Own.row \in 1..Len(journal) /\ InGeneration(Own.row) /\ Own.row = Earliest.row
      /\ \E listed \in todo : listed.row = Own.row
  BY HandListed
<1>2. Counted'
  <2>1. /\ \A r \in 1..Len(journal) : journal[r].on <= spent["sessions"]
        /\ session.id <= spent["sessions"]
    BY <1>1, RowNumbers DEF Restoring, Counted
  <2>2. \A r \in 1..Len(journal) : journal'[r].on <= spent["sessions"]
    BY <2>1
  <2>3. QED
    BY <2>2 DEF Restoring, Counted, RowsKept
<1>3. Unopened'
  BY <1>1 DEF Unopened
<1>4. ASSUME run'.phase = "replay"
      PROVE  Listing'
  <2>1. \A r \in 1..Len(journal) : InGeneration(r)' <=> InGeneration(r)
    BY DEF InGeneration, RowsKept
  <2>2. \A listed \in todo : listed.row \in 1..Len(journal) /\ InGeneration(listed.row)
    BY <1>1 DEF Typed, Shapes, Restoring, Listing
  <2>3. \A listed \in todo : InGeneration(listed.row)'
    <3>1. ASSUME NEW listed \in todo, NEW r, r = listed.row
          PROVE  InGeneration(r)'
      BY <2>1, <2>2, <3>1
    <3>2. QED
      BY <3>1 DEF InGeneration
  <2>4. \A r \in 1..Len(journal') : Unlisted(r)' =>
            /\ Marked(r)' /\ journal'[r].status = "applied"
            /\ \A listed \in todo' : r < listed.row
    <3>1. SUFFICES ASSUME NEW r \in 1..Len(journal'), Unlisted(r)'
                   PROVE  /\ journal'[r].on = session.id /\ journal'[r].status = "applied"
                          /\ \A listed \in todo : r < listed.row
      BY DEF Marked
    <3>2. r \in 1..Len(journal) /\ Unlisted(r) /\ r # Own.row
      BY <1>1, <2>1, <3>1 DEF Unlisted, RowsKept
    <3>3. journal[r].on = session.id /\ journal[r].status = "applied" /\ \A listed \in todo : r < listed.row
      BY <1>1, <3>2 DEF Restoring, Listing, Marked
    <3>4. QED
      BY <3>2, <3>3
  <2>5. \A listed \in todo : journal'[listed.row].on = session.id => Own.row = listed.row
    BY <1>1, <2>2 DEF Restoring, Listing, Marked
  <2>6. Earliest' = Earliest
    BY DEF Earliest
  <2>7. \A listed, other \in todo : listed.row = other.row => listed = other
    BY <1>1 DEF Restoring, Listing
  <2>8. QED
    BY <1>1, <1>4, <2>3, <2>4, <2>5, <2>6, <2>7 DEF Listing, Marked
<1>5. Listing'
  BY <1>4 DEF Listing
<1>6. QED
  BY <1>2, <1>3, <1>5 DEF Restoring

\* The page's next state against the rows, which stay what they are.
LEMMA RebuiltNext ==
    ASSUME RowsKept, NEW k, page'[k] = Start,
           \A i \in 1..Len(page') : k < i => \E r \in 1..Len(journal) : Shows(r)' /\ page'[i] = journal[r].op,
           \A r \in 1..Len(journal) : Shows(r)' => \E i \in 1..Len(page') : k < i /\ page'[i] = journal[r].op,
           \A r, q \in 1..Len(journal) : Shows(r)' /\ Shows(q)' /\ r < q =>
               \A i, j \in 1..Len(page') : page'[i] = journal[r].op /\ page'[j] = journal[q].op => i < j
    PROVE  RebuiltFrom(k)'
<1>1. Len(journal') = Len(journal) /\ \A r \in 1..Len(journal) : journal'[r].op = journal[r].op
  BY DEF RowsKept
<1>2. \A i \in 1..Len(page') : k < i => \E r \in 1..Len(journal') : Shows(r)' /\ page'[i] = journal'[r].op
  <2>1. SUFFICES ASSUME NEW i \in 1..Len(page'), k < i
                 PROVE  \E r \in 1..Len(journal') : Shows(r)' /\ page'[i] = journal'[r].op
    OBVIOUS
  <2>2. PICK r \in 1..Len(journal) : Shows(r)' /\ page'[i] = journal[r].op
    BY <2>1
  <2>3. QED
    BY <1>1, <2>2
<1>3. \A r \in 1..Len(journal') : Shows(r)' => \E i \in 1..Len(page') : k < i /\ page'[i] = journal'[r].op
  <2>1. SUFFICES ASSUME NEW r \in 1..Len(journal'), Shows(r)'
                 PROVE  \E i \in 1..Len(page') : k < i /\ page'[i] = journal'[r].op
    OBVIOUS
  <2>2. r \in 1..Len(journal) /\ journal'[r].op = journal[r].op
    BY <1>1
  <2>3. QED
    BY <2>1, <2>2
<1>4. \A r, q \in 1..Len(journal') : Shows(r)' /\ Shows(q)' /\ r < q =>
          \A i, j \in 1..Len(page') : page'[i] = journal'[r].op /\ page'[j] = journal'[q].op => i < j
  <2>1. SUFFICES ASSUME NEW r \in 1..Len(journal'), NEW q \in 1..Len(journal'), Shows(r)', Shows(q)', r < q,
                        NEW i \in 1..Len(page'), NEW j \in 1..Len(page'),
                        page'[i] = journal'[r].op, page'[j] = journal'[q].op
                 PROVE  i < j
    OBVIOUS
  <2>2. /\ r \in 1..Len(journal) /\ q \in 1..Len(journal)
        /\ page'[i] = journal[r].op /\ page'[j] = journal[q].op
    BY <1>1, <2>1
  <2>3. QED
    BY <2>1, <2>2
<1>5. QED
  BY <1>2, <1>3, <1>4, Zenon DEF RebuiltFrom

\* What is rebuilt stays, as long as no other rows are to be shown.
LEMMA RebuiltStays ==
    ASSUME Typed, Rebuilding, run.phase = "replay", UNCHANGED <<page, alive>>, RowsKept,
           run'.phase = "replay" /\ alive' /\ ~Spoiled' =>
               ~Spoiled /\ UNCHANGED flying /\ \A r \in 1..Len(journal) : Shows(r)' <=> Shows(r)
    PROVE  Rebuilding'
<1>1. SUFFICES ASSUME run'.phase = "replay", alive', ~Spoiled'
               PROVE  flying' = {} /\ \E k \in 1..Len(page') : RebuiltFrom(k)'
  BY DEF Rebuilding
<1>2. ~Spoiled /\ UNCHANGED flying /\ \A r \in 1..Len(journal) : Shows(r)' <=> Shows(r)
  BY <1>1
<1>3. flying = {}
  BY <1>1, <1>2 DEF Rebuilding
<1>4. PICK k \in 1..Len(page) : RebuiltFrom(k)
  BY <1>1, <1>2 DEF Rebuilding
<1>5. /\ page'[k] = Start
      /\ \A i \in 1..Len(page') : k < i => \E r \in 1..Len(journal) : Shows(r)' /\ page'[i] = journal[r].op
  BY <1>2, <1>4 DEF RebuiltFrom
<1>6. \A r \in 1..Len(journal) : Shows(r)' => \E i \in 1..Len(page') : k < i /\ page'[i] = journal[r].op
  BY <1>2, <1>4 DEF RebuiltFrom
<1>7. \A r, q \in 1..Len(journal) : Shows(r)' /\ Shows(q)' /\ r < q =>
          \A i, j \in 1..Len(page') : page'[i] = journal[r].op /\ page'[j] = journal[q].op => i < j
  BY <1>2, <1>4 DEF RebuiltFrom
<1>8. RebuiltFrom(k)'
  BY <1>5, <1>6, <1>7, RebuiltNext
<1>9. QED
  BY <1>2, <1>3, <1>4, <1>8

\* The attempt of a call marks no row, whatever it does.
LEMMA CallMarksNothing ==
    ASSUME Typed, Own.job = "mutate", Attempt("own")
    PROVE  \A r \in 1..Len(journal') :
               journal'[r].on = 0 \/ (r \in 1..Len(journal) /\ journal'[r].on = journal[r].on)
<1>1. /\ journal \in Seq(JournalRow) /\ Len(journal) \in Nat /\ DOMAIN journal = 1..Len(journal)
      /\ "own" \in Whose /\ Statuses = {"pending", "applied", "failed", "reconcile_required"} /\ 0 \in Nat
  BY DEF Typed, JournalTypeOK, Whose, Statuses
<1>2. ASSUME NEW row \in 1..Len(journal), NEW status \in Statuses, SetStatus(row, status, 0)
      PROVE  \A r \in 1..Len(journal') :
                 journal'[r].on = 0 \/ (r \in 1..Len(journal) /\ journal'[r].on = journal[r].on)
  BY <1>1, <1>2, StatusSetRows
<1>3. CASE Record("own")
  <2>1. \/ UNCHANGED journal
        \/ \E key, gen, op, kind :
               journal' = Append(journal, [key |-> key, gen |-> gen, op |-> op, kind |-> kind,
                                           status |-> "pending", on |-> 0, done |-> 0])
        \/ \E row \in RowsOf(<<attempts["own"].id, attempts["own"].field>>) : SetStatus(row, "pending", 0)
    BY <1>3 DEF Record
  <2>2. ASSUME NEW key, NEW gen, NEW op, NEW kind,
               journal' = Append(journal, [key |-> key, gen |-> gen, op |-> op, kind |-> kind,
                                           status |-> "pending", on |-> 0, done |-> 0])
        PROVE  \A r \in 1..Len(journal') :
                   journal'[r].on = 0 \/ (r \in 1..Len(journal) /\ journal'[r].on = journal[r].on)
    <3> DEFINE added == [key |-> key, gen |-> gen, op |-> op, kind |-> kind,
                         status |-> "pending", on |-> 0, done |-> 0]
    <3>1. added.on = 0 /\ journal' = Append(journal, added)
      BY <2>2
    <3> HIDE DEF added
    <3>2. QED
      BY <1>1, <3>1
  <2>3. \A row \in RowsOf(<<attempts["own"].id, attempts["own"].field>>) : row \in 1..Len(journal)
    BY <1>1 DEF RowsOf
  <2>4. QED
    BY <1>1, <1>2, <2>1, <2>2, <2>3
<1>4. CASE Reconcile("own")
  <2>1. UNCHANGED journal \/ SetStatus(Own.row, "applied", 0)
    BY <1>4 DEF Reconcile, Own
  <2>2. Own.row \in 1..Len(journal)
    BY <1>1, <1>4, RowInHand DEF Reconcile, At, Own
  <2>3. QED
    BY <1>1, <1>2, <2>1, <2>2
<1>5. ASSUME NEW outcome \in {"done", "refused", "uncertain"}, NEW lands \in BOOLEAN,
             Execute("own", outcome, lands)
      PROVE  \A r \in 1..Len(journal') :
                 journal'[r].on = 0 \/ (r \in 1..Len(journal) /\ journal'[r].on = journal[r].on)
  <2>1. UNCHANGED journal \/ (Own.row # 0 /\ Performed(Own.row, Op("own")))
    BY <1>5 DEF Execute, Own
  <2>2. Own.row # 0 => Own.row \in 1..Len(journal)
    <3>1. Own.row \in 0..Len(journal)
      BY <1>1, <1>5, RowInHand DEF Execute, Own
    <3>2. QED
      BY <1>1, <3>1
  <2>3. QED
    BY <1>1, <2>1, <2>2, RowPerformedRows
<1>6. ASSUME NEW stored \in BOOLEAN, Settle("own", stored)
      PROVE  \A r \in 1..Len(journal') :
                 journal'[r].on = 0 \/ (r \in 1..Len(journal) /\ journal'[r].on = journal[r].on)
  <2>1. UNCHANGED journal \/ SetStatus(Own.row, Settlement(Own.outcome), 0)
    BY <1>6 DEF Settle, Own
  <2>2. Own.row \in 1..Len(journal) /\ Settlement(Own.outcome) \in Statuses
    BY <1>1, <1>6, RowInHand DEF Settle, At, Own, Settlement
  <2>3. QED
    BY <1>1, <1>2, <2>1, <2>2
<1>7. Claim("own") \/ (\E stored \in BOOLEAN : SettleReplay("own", stored)) => FALSE
  BY DEF Claim, SettleReplay, At, Own
<1>8. ASSUME NEW inFlight \in BOOLEAN, Timeout("own", inFlight)
      PROVE  UNCHANGED journal
  BY <1>8 DEF Timeout
<1>9. QED
  BY <1>3, <1>4, <1>5, <1>6, <1>7, <1>8 DEF Attempt

\* Whatever the attempt of a call does, its run is past its replay.
LEMMA CallAttemptRestoring ==
    ASSUME Typed, Once, Restoring, Own.job = "mutate", Attempt("own")
    PROVE  Restoring'
<1>1. spent'["sessions"] = spent["sessions"]
  BY SessionsSpent DEF Attempt, Record, Reconcile, Execute, Settle, Claim, SettleReplay, Timeout, Bounded
<1>2. UNCHANGED session
  BY DEF Attempt, Record, Reconcile, Execute, Settle, Claim, SettleReplay, Timeout
<1>3. run'.phase \in {run.phase, "ending"}
  <2>1. \/ UNCHANGED run
        \/ \E inFlight \in BOOLEAN : Timeout("own", inFlight)
    BY DEF Attempt, Record, Reconcile, Execute, Settle, Claim, SettleReplay
  <2>2. QED
    BY <2>1, OwnTimedOut
<1>4. QED
  BY <1>1, <1>2, <1>3, CallMarksNothing, CallRestoring

\* A row is claimed where it was not replayed, and then shows nothing yet; one
\* that was replayed here is done.
LEMMA ClaimRestoring ==
    ASSUME Typed, Once, Restoring, Claim("own")
    PROVE  Restoring'
<1>1. /\ Own.job = "replay" /\ Own.pc = "claim" /\ Own \in AttemptRecord /\ "own" \in Whose
      /\ UNCHANGED <<session, run, todo, page, alive, flying, spent>>
      /\ journal \in Seq(JournalRow)
  BY DEF Claim, At, Own, world, Whose, Typed, JournalTypeOK
<1>2. /\ run.phase = "replay" /\ session.id # 0 /\ session.id \in Nat /\ "pending" \in Statuses
      /\ Own.row \in 1..Len(journal)
  BY <1>1, HandListed DEF Statuses
<1>3. CASE Put("own", [Own EXCEPT !.pc = "report", !.errors = "fatal"]) /\ UNCHANGED journal
  <2>1. Own' = [Own EXCEPT !.pc = "report", !.errors = "fatal"]
    BY <1>1, <1>3, PutOne DEF Own
  <2>2. Own'.job = "replay" /\ Own'.pc = "report" /\ Own'.errors = "fatal" /\ Own'.row = Own.row
    BY <1>1, <2>1 DEF AttemptRecord
  <2>3. Spoiled' <=> Spoiled
    BY <1>1, <1>3, <2>2 DEF Spoiled, Marked, Settling
  <2>4. \A r \in 1..Len(journal) : Shows(r)' <=> Shows(r)
    BY <1>1, <1>3, <2>2 DEF Shows, Marked, Settling, InGeneration
  <2>5. RowsKept
    BY <1>3 DEF RowsKept
  <2>6. Rebuilding'
    BY <1>1, <1>2, <2>3, <2>4, <2>5, RebuiltStays DEF Restoring
  <2>7. QED
    BY <1>1, <1>3, <2>2, <2>5, <2>6, ReplayRestoring
<1>4. CASE /\ Put("own", [Own EXCEPT !.pc = "report"]) /\ UNCHANGED journal
           /\ journal[Own.row].on = session.id /\ journal[Own.row].status = "applied"
  <2>1. Own' = [Own EXCEPT !.pc = "report"]
    BY <1>1, <1>4, PutOne DEF Own
  <2>2. Own'.job = "replay" /\ Own'.pc = "report" /\ Own'.row = Own.row
    BY <1>1, <2>1 DEF AttemptRecord
  <2>3. ~Spoiled
    BY <1>4 DEF Spoiled
  <2>4. \A r \in 1..Len(journal) : Shows(r)' <=> Shows(r)
    BY <1>1, <1>4, <2>2 DEF Shows, Marked, Settling, InGeneration
  <2>5. RowsKept
    BY <1>4 DEF RowsKept
  <2>6. Rebuilding'
    BY <1>1, <1>2, <2>3, <2>4, <2>5, RebuiltStays DEF Restoring
  <2>7. QED
    BY <1>1, <1>4, <2>2, <2>5, <2>6, ReplayRestoring
<1>5. CASE /\ journal[Own.row].on # session.id
           /\ SetStatus(Own.row, "pending", session.id)
           /\ Put("own", [Own EXCEPT !.pc = "execute", !.on = session.id])
  <2>1. Own' = [Own EXCEPT !.pc = "execute", !.on = session.id]
    BY <1>1, <1>5, PutOne DEF Own
  <2>2. Own'.job = "replay" /\ Own'.pc = "execute" /\ Own'.row = Own.row
    BY <1>1, <2>1 DEF AttemptRecord
  <2>3. RowsKept
    BY <1>2, <1>5, RowChanges
  <2>4. \A r \in 1..Len(journal) :
            /\ r = Own.row => journal'[r].on = session.id /\ journal'[r].status = "pending"
            /\ r # Own.row => journal'[r] = journal[r]
    BY <1>1, <1>2, <1>5, StatusSetRows
  <2>5. ~Spoiled
    BY <1>5 DEF Spoiled, Marked
  <2>6. \A r \in 1..Len(journal) : Shows(r)' <=> Shows(r)
    <3>1. SUFFICES ASSUME NEW r \in 1..Len(journal)
                   PROVE  Shows(r)' <=> Shows(r)
      OBVIOUS
    <3>2. CASE r = Own.row
      <4>1. ~Shows(r)
        BY <1>5, <3>2 DEF Shows, Marked
      <4>2. ~Shows(r)'
        BY <2>2, <2>4, <3>2 DEF Shows, Settling
      <4>3. QED
        BY <4>1, <4>2
    <3>3. CASE r # Own.row
      BY <1>1, <2>2, <2>4, <3>3 DEF Shows, Marked, Settling, InGeneration
    <3>4. QED
      BY <3>2, <3>3
  <2>7. Rebuilding'
    BY <1>1, <1>2, <2>3, <2>5, <2>6, RebuiltStays DEF Restoring
  <2>8. QED
    BY <1>1, <1>2, <2>2, <2>3, <2>4, <2>7, ReplayRestoring
<1>6. QED
  BY <1>3, <1>4, <1>5 DEF Claim, Fail, Goto, Replayable, AlreadyReplayed, Own

\* What is rebuilt grows by the action of a row behind those that are shown.
LEMMA RebuiltGrows ==
    ASSUME Typed, Once, Rebuilding, run.phase = "replay", ~Spoiled, UNCHANGED <<alive, flying>>, RowsKept,
           NEW row \in 1..Len(journal), journal[row].op \notin Seen, page' = Append(page, journal[row].op),
           \A r \in 1..Len(journal) : Shows(r)' <=> Shows(r) \/ r = row,
           \A r \in 1..Len(journal) : Shows(r) => r < row
    PROVE  Rebuilding'
<1>1. SUFFICES ASSUME run'.phase = "replay", alive'
               PROVE  flying' = {} /\ \E k \in 1..Len(page') : RebuiltFrom(k)'
  BY DEF Rebuilding
<1>2. flying = {} /\ alive
  BY <1>1 DEF Rebuilding
<1>3. PICK k \in 1..Len(page) : RebuiltFrom(k)
  BY <1>2 DEF Rebuilding
<1>4. page \in Seq(Ops \cup {Start}) /\ Len(page) \in Nat /\ journal[row].op \in Ops
  BY RowNumbers DEF Typed, JournalTypeOK
<1>5. /\ Len(page') = Len(page) + 1 /\ page'[Len(page) + 1] = journal[row].op
      /\ \A i \in 1..Len(page) : page'[i] = page[i]
  BY <1>4, AppendProperties
<1>6. /\ \A i \in 1..Len(page') : i \in 1..Len(page) \/ i = Len(page) + 1
      /\ \A i \in 1..Len(page) : i \in 1..Len(page') /\ i < Len(page) + 1
      /\ Len(page) + 1 \in 1..Len(page') /\ k < Len(page) + 1
  BY <1>4, <1>5
<1>7. \A i \in 1..Len(page) : page[i] # journal[row].op
  BY <1>4 DEF Seen
<1>8. \A r \in 1..Len(journal) : r # row => journal[r].op # journal[row].op
  BY DEF Once, RowsApart
<1>9. page'[k] = Start
  BY <1>3, <1>5 DEF RebuiltFrom
<1>10. ASSUME NEW i \in 1..Len(page'), k < i
       PROVE  \E r \in 1..Len(journal) : Shows(r)' /\ page'[i] = journal[r].op
  <2>1. CASE i \in 1..Len(page)
    BY <1>3, <1>5, <1>10, <2>1 DEF RebuiltFrom
  <2>2. CASE i = Len(page) + 1
    BY <1>5, <2>2
  <2>3. QED
    BY <1>6, <1>10, <2>1, <2>2
<1>11. ASSUME NEW r \in 1..Len(journal), Shows(r)'
       PROVE  \E i \in 1..Len(page') : k < i /\ page'[i] = journal[r].op
  <2>1. CASE Shows(r)
    <3>1. PICK i \in 1..Len(page) : k < i /\ page[i] = journal[r].op
      BY <1>3, <2>1 DEF RebuiltFrom
    <3>2. QED
      BY <1>5, <1>6, <3>1
  <2>2. CASE r = row
    BY <1>5, <1>6, <2>2
  <2>3. QED
    BY <1>11, <2>1, <2>2
<1>12. ASSUME NEW r \in 1..Len(journal), NEW q \in 1..Len(journal), Shows(r)', Shows(q)', r < q,
              NEW i \in 1..Len(page'), NEW j \in 1..Len(page'), page'[i] = journal[r].op, page'[j] = journal[q].op
       PROVE  i < j
  <2>1. r # row /\ Shows(r)
    <3>1. Shows(q) \/ q = row
      BY <1>12
    <3>2. ~(row < q)
      BY <3>1
    <3>3. r # row
      BY <1>12, <3>2
    <3>4. QED
      BY <1>12, <3>3
  <2>2. i \in 1..Len(page) /\ page[i] = journal[r].op
    BY <1>5, <1>6, <1>8, <1>12, <2>1
  <2>3. CASE q = row
    <3>1. j = Len(page) + 1
      BY <1>5, <1>6, <1>7, <1>12, <2>3
    <3>2. QED
      BY <1>6, <2>2, <3>1
  <2>4. CASE q # row
    <3>1. Shows(q) /\ j \in 1..Len(page) /\ page[j] = journal[q].op
      BY <1>5, <1>6, <1>8, <1>12, <2>4
    <3>2. QED
      BY <1>3, <1>12, <2>1, <2>2, <3>1 DEF RebuiltFrom
  <2>5. QED
    BY <2>3, <2>4
<1>13. RebuiltFrom(k)'
  <2>1. \A i \in 1..Len(page') : k < i => \E r \in 1..Len(journal) : Shows(r)' /\ page'[i] = journal[r].op
    BY <1>10
  <2>2. \A r \in 1..Len(journal) : Shows(r)' => \E i \in 1..Len(page') : k < i /\ page'[i] = journal[r].op
    BY <1>11
  <2>3. \A r, q \in 1..Len(journal) : Shows(r)' /\ Shows(q)' /\ r < q =>
            \A i, j \in 1..Len(page') : page'[i] = journal[r].op /\ page'[j] = journal[q].op => i < j
    BY <1>12
  <2>4. QED
    BY <1>9, <2>1, <2>2, <2>3, RebuiltNext
<1>14. QED
  BY <1>2, <1>6, <1>13

\* A row is replayed behind those that are shown, or spoils the replay.
LEMMA ExecuteReplayRestoring ==
    ASSUME Typed, Once, Restoring, Own.job = "replay",
           NEW outcome \in {"done", "refused", "uncertain"}, NEW lands \in BOOLEAN,
           Execute("own", outcome, lands)
    PROVE  Restoring'
<1>1. /\ Own.pc = "execute" /\ Own \in AttemptRecord /\ "own" \in Whose
      /\ UNCHANGED <<session, run, todo, alive, flying, spent>>
  BY DEF Execute, Own, Whose, Typed, JournalTypeOK
<1>2. /\ run.phase = "replay" /\ Own.row \in 1..Len(journal) /\ InGeneration(Own.row)
      /\ \A r \in 1..Len(journal) : Shows(r) => r = Own.row \/ r < Own.row
  BY HandListed
<1>3. Own.row # 0
  BY <1>2, RowNumbers
<1>4. Own'.job = "replay" /\ Own'.pc = "settle" /\ Own'.row = Own.row /\ Own'.outcome = outcome
  <2>1. Own' = [Own EXCEPT !.pc = "settle", !.outcome = outcome]
    BY <1>1, <1>3, PutOne DEF Execute, Own
  <2>2. QED
    BY <1>1, <2>1 DEF AttemptRecord
<1>5. UNCHANGED journal /\ (lands => page' = Append(page, journal[Own.row].op))
  BY <1>3 DEF Execute, Own, Replayed
<1>6. RowsKept
  BY <1>5 DEF RowsKept
<1>7. Marked(Own.row) /\ journal[Own.row].status = "pending"
  BY <1>1, <1>2 DEF Restoring, Listing
<1>8. ASSUME outcome = "done"
      PROVE  Rebuilding'
  <2>1. page' = Append(page, journal[Own.row].op)
    BY <1>5, <1>8 DEF Execute
  <2>2. journal[Own.row].op \notin Seen
    BY <1>1 DEF Once, ClaimedHere
  <2>3. ~Spoiled
    BY <1>1 DEF Spoiled
  <2>4. \A r \in 1..Len(journal) : Shows(r) => r < Own.row
    <3>1. \A r \in 1..Len(journal) : r = Own.row => ~Shows(r)
      BY <1>1, <1>7 DEF Shows, Settling
    <3>2. QED
      BY <1>2, <3>1
  <2>5. \A r \in 1..Len(journal) : Shows(r)' <=> Shows(r) \/ r = Own.row
    <3>1. SUFFICES ASSUME NEW r \in 1..Len(journal)
                   PROVE  Shows(r)' <=> Shows(r) \/ r = Own.row
      OBVIOUS
    <3>2. CASE r = Own.row
      BY <1>1, <1>2, <1>4, <1>5, <1>7, <1>8, <3>2 DEF Shows, Marked, Settling, InGeneration
    <3>3. CASE r # Own.row
      BY <1>1, <1>4, <1>5, <3>3 DEF Shows, Marked, Settling, InGeneration
    <3>4. QED
      BY <3>2, <3>3
  <2>6. QED
    BY <1>1, <1>2, <1>6, <2>1, <2>2, <2>3, <2>4, <2>5, RebuiltGrows DEF Restoring
<1>9. ASSUME outcome # "done"
      PROVE  Rebuilding'
  <2>1. Spoiled'
    BY <1>1, <1>4, <1>5, <1>7, <1>9 DEF Spoiled, Settling, Marked
  <2>2. QED
    BY <2>1 DEF Rebuilding
<1>10. Rebuilding'
  BY <1>8, <1>9
<1>11. QED
  BY <1>1, <1>4, <1>5, <1>6, <1>7, <1>10, ReplayRestoring DEF Marked

\* A replay that is settled shows what it showed, or is spoiled.
LEMMA SettleReplayRestoring ==
    ASSUME Typed, Once, Restoring, NEW stored \in BOOLEAN, SettleReplay("own", stored)
    PROVE  Restoring'
<1>1. /\ Own.job = "replay" /\ Own.pc = "settle" /\ Own \in AttemptRecord /\ "own" \in Whose
      /\ UNCHANGED <<session, run, todo, page, alive, flying>> /\ journal \in Seq(JournalRow)
  BY DEF SettleReplay, At, Own, world, Whose, Typed, JournalTypeOK
<1>2. run.phase = "replay" /\ Own.row \in 1..Len(journal)
  BY <1>1, HandListed
<1>3. spent'["sessions"] = spent["sessions"]
  BY SessionsSpent DEF SettleReplay, Bounded
<1>4. Own.on = session.id /\ session.id \in Nat /\ Marked(Own.row) /\ journal[Own.row].status = "pending"
  BY <1>1, <1>2, RowNumbers DEF Once, ClaimedHere, Restoring, Listing
<1>5. \/ /\ Own.outcome = "done"
         /\ SetStatus(Own.row, "applied", Own.on)
         /\ Put("own", [Own EXCEPT !.pc = "report"])
      \/ /\ \/ SetStatus(Own.row, "reconcile_required", Own.on)
            \/ UNCHANGED journal
         /\ Put("own", [Own EXCEPT !.pc = "report", !.errors = "fatal"])
  BY DEF SettleReplay, Goto, Fail, Own
<1>6. ASSUME NEW status \in Statuses, SetStatus(Own.row, status, Own.on)
      PROVE  /\ RowsKept
             /\ \A r \in 1..Len(journal) :
                    /\ r = Own.row => journal'[r].on = session.id /\ journal'[r].status = status
                    /\ r # Own.row => journal'[r] = journal[r]
  BY <1>1, <1>2, <1>4, <1>6, RowChanges, StatusSetRows
<1>7. CASE /\ Own.outcome = "done"
           /\ SetStatus(Own.row, "applied", Own.on)
           /\ Put("own", [Own EXCEPT !.pc = "report"])
  <2>1. Own' = [Own EXCEPT !.pc = "report"]
    BY <1>1, <1>7, PutOne DEF Own
  <2>2. Own'.job = "replay" /\ Own'.pc = "report" /\ Own'.row = Own.row
    BY <1>1, <2>1 DEF AttemptRecord
  <2>3. /\ RowsKept
        /\ \A r \in 1..Len(journal) :
               /\ r = Own.row => journal'[r].on = session.id /\ journal'[r].status = "applied"
               /\ r # Own.row => journal'[r] = journal[r]
    BY <1>6, <1>7 DEF Statuses
  <2>4. ~Spoiled
    BY <1>1, <1>7 DEF Spoiled, Settling
  <2>5. ASSUME NEW r \in 1..Len(journal)
        PROVE  Shows(r)' <=> Shows(r)
    <3>1. CASE r = Own.row
      <4>1. Shows(r) <=> InGeneration(r)
        BY <1>1, <1>4, <1>7, <3>1 DEF Shows, Settling
      <4>2. Shows(r)' <=> InGeneration(r)'
        BY <1>1, <2>3, <3>1 DEF Shows, Marked
      <4>3. QED
        BY <1>1, <2>3, <4>1, <4>2 DEF InGeneration, RowsKept
    <3>2. CASE r # Own.row
      BY <1>1, <2>2, <2>3, <3>2 DEF Shows, Marked, Settling, InGeneration
    <3>3. QED
      BY <3>1, <3>2
  <2>6. Rebuilding'
    BY <1>1, <1>2, <2>3, <2>4, <2>5, RebuiltStays DEF Restoring
  <2>7. QED
    BY <1>1, <1>2, <1>3, <2>2, <2>3, <2>6, ReplayRestoring
<1>8. CASE /\ \/ SetStatus(Own.row, "reconcile_required", Own.on)
              \/ UNCHANGED journal
           /\ Put("own", [Own EXCEPT !.pc = "report", !.errors = "fatal"])
  <2>1. Own' = [Own EXCEPT !.pc = "report", !.errors = "fatal"]
    BY <1>1, <1>8, PutOne DEF Own
  <2>2. Own'.job = "replay" /\ Own'.pc = "report" /\ Own'.errors = "fatal" /\ Own'.row = Own.row
    BY <1>1, <2>1 DEF AttemptRecord
  <2>3. /\ RowsKept
        /\ \A r \in 1..Len(journal) :
               /\ r = Own.row => journal'[r].on = session.id /\ journal'[r].status # "applied"
               /\ r # Own.row => journal'[r].on = journal[r].on /\ journal'[r].status = journal[r].status
    <3>1. CASE UNCHANGED journal
      BY <1>4, <3>1 DEF RowsKept, Marked
    <3>2. CASE SetStatus(Own.row, "reconcile_required", Own.on)
      BY <1>6, <3>2 DEF Statuses
    <3>3. QED
      BY <1>8, <3>1, <3>2
  <2>4. Spoiled'
    BY <1>1, <1>2, <2>2, <2>3 DEF Spoiled, Marked, Settling
  <2>5. Rebuilding'
    BY <2>4 DEF Rebuilding
  <2>6. \A r \in 1..Len(journal) : journal'[r].on \in {journal[r].on, session.id}
    BY <2>3
  <2>7. QED
    BY <1>1, <1>3, <2>2, <2>3, <2>5, <2>6, ReplayRestoring
<1>9. QED
  BY <1>5, <1>7, <1>8

\* A run whose replay fails ends.
LEMMA ReplayGivenUp ==
    ASSUME Typed, Restoring, Own.job = "replay", GiveUp, UNCHANGED <<journal, session>>,
           spent'["sessions"] = spent["sessions"]
    PROVE  Restoring'
<1>1. run'.phase = "ending"
  BY DEF GiveUp, Own, Typed, JournalTypeOK, RunRecord
<1>2. Counted'
  BY DEF Restoring, Counted
<1>3. QED
  BY <1>1, <1>2, LaterRestoring

\* A replay that is tried again finds its row as it was left.
LEMMA ReplayAgainRestoring ==
    ASSUME Typed, Once, Restoring, Own.job = "replay", Put("own", Retried(Own)),
           UNCHANGED <<journal, session, run, todo, page, alive>>, spent'["sessions"] = spent["sessions"],
           UNCHANGED flying \/ Own.pc = "execute"
    PROVE  Restoring'
<1>1. /\ run.phase = "replay" /\ Own.row \in 1..Len(journal)
      /\ Own'.job = "replay" /\ Own'.pc = "claim" /\ Own'.row = Own.row
  BY HandListed, RetriedReplay
<1>2. RowsKept
  BY DEF RowsKept
<1>3. ASSUME ~Spoiled'
      PROVE  /\ UNCHANGED flying /\ ~Spoiled
             /\ \A r \in 1..Len(journal) : Shows(r)' <=> Shows(r)
  <2>1. ~Marked(Own.row) \/ journal[Own.row].status = "applied"
    BY <1>1, <1>3 DEF Spoiled, Marked, Settling
  <2>2. Own.pc \notin {"execute", "settle"}
    BY <1>1, <2>1 DEF Restoring, Listing
  <2>3. \A r \in 1..Len(journal) : Shows(r)' <=> Shows(r)
    BY <1>1, <2>2 DEF Shows, Marked, Settling, InGeneration
  <2>4. QED
    BY <2>1, <2>2, <2>3 DEF Spoiled
<1>4. Rebuilding'
  BY <1>1, <1>2, <1>3, RebuiltStays DEF Restoring
<1>5. QED
  BY <1>1, <1>2, <1>4, ReplayRestoring

\* A replay that is lost is tried again, or fails.
LEMMA TimeoutReplayRestoring ==
    ASSUME Typed, Once, Restoring, Own.job = "replay", NEW inFlight \in BOOLEAN, Timeout("own", inFlight)
    PROVE  Restoring'
<1>1. /\ UNCHANGED <<journal, session, page, alive>> /\ spent'["sessions"] = spent["sessions"]
      /\ UNCHANGED flying \/ Own.pc = "execute"
  BY SessionsSpent DEF Timeout, Bounded, Own
<1>2. (Put("own", Retried(Own)) /\ UNCHANGED <<run, todo>>) \/ GiveUp
  BY DEF Timeout, Own
<1>3. QED
  BY <1>1, <1>2, ReplayAgainRestoring, ReplayGivenUp

\* A replay's success takes its row off the list: it is applied, and marked.
LEMMA ReplayedRestoring ==
    ASSUME Typed, Once, Restoring, Own.job = "replay", Own.pc = "report", Own.errors = "none",
           Put("own", NoAttempt), todo' = todo \ {Earliest},
           UNCHANGED <<journal, session, run, page, alive, flying, spent>>
    PROVE  Restoring'
<1>1. /\ run.phase = "replay" /\ todo # {} /\ session.id # 0
      /\ Own.row \in 1..Len(journal) /\ Own.row = Earliest.row
  BY HandListed
<1>2. Marked(Own.row) /\ journal[Own.row].status = "applied"
  BY <1>1 DEF Restoring, Listing
<1>3. Own'.job = "none"
  BY PutOne DEF Own, Whose, NoAttempt
<1>4. Earliest \in todo /\ \A listed \in todo : listed.row \in Nat /\ Earliest.row <= listed.row
  BY <1>1, EarliestFirst DEF Typed, JournalTypeOK
<1>5. \A listed \in todo' : listed \in todo /\ listed.row # Earliest.row
  BY <1>1, <1>4 DEF Restoring, Listing
<1>6. \A r \in 1..Len(journal) : (InGeneration(r)' <=> InGeneration(r)) /\ (Marked(r)' <=> Marked(r))
  BY DEF InGeneration, Marked
<1>7. RowsKept
  BY DEF RowsKept
<1>8. Counted' /\ Unopened'
  BY <1>1 DEF Restoring, Counted, Unopened
<1>9. Listing'
  <2>1. \A listed \in todo' : InGeneration(listed.row)'
    <3>1. \A listed \in todo' : journal[listed.row].gen = session.gen
      BY <1>1, <1>5 DEF Restoring, Listing, InGeneration
    <3>2. QED
      BY <3>1 DEF InGeneration
  <2>2. ASSUME NEW r \in 1..Len(journal), InGeneration(r), \A listed \in todo' : listed.row # r
        PROVE  /\ Marked(r) /\ journal[r].status = "applied"
               /\ \A listed \in todo' : r < listed.row
    <3>1. CASE r = Own.row
      BY <1>1, <1>2, <1>4, <1>5, <3>1
    <3>2. CASE r # Own.row
      <4>1. Unlisted(r)
        BY <1>1, <2>2, <3>2 DEF Unlisted
      <4>2. QED
        BY <1>1, <1>5, <4>1 DEF Restoring, Listing
    <3>3. QED
      BY <3>1, <3>2
  <2>3. \A listed \in todo' : journal[listed.row].on # session.id
    BY <1>1, <1>5 DEF Restoring, Listing, Marked
  <2>4. \A listed, other \in todo' : listed.row = other.row => listed = other
    BY <1>1, <1>5 DEF Restoring, Listing
  <2>5. \A r \in 1..Len(journal') : Unlisted(r)' =>
            /\ Marked(r)' /\ journal'[r].status = "applied" /\ \A listed \in todo' : r < listed.row
    BY <1>6, <2>2 DEF Unlisted
  <2>6. QED
    BY <1>1, <1>3, <2>1, <2>3, <2>4, <2>5 DEF Listing, Marked
<1>10. ~Spoiled /\ \A r \in 1..Len(journal) : Shows(r)' <=> Shows(r)
  BY <1>2, <1>3 DEF Spoiled, Shows, Marked, Settling, InGeneration
<1>11. Rebuilding'
  BY <1>1, <1>7, <1>10, RebuiltStays DEF Restoring
<1>12. QED
  BY <1>8, <1>9, <1>11 DEF Restoring

\* What becomes of a replay that reports.
LEMMA ReportReplayRestoring ==
    ASSUME Typed, Once, Restoring, Own.job = "replay", Report
    PROVE  Restoring'
<1>1. UNCHANGED <<journal, session, page, alive, flying, spent>> /\ Own.pc = "report"
  BY DEF Report, world, Own
<1>2. \/ Own.errors = "none" /\ Put("own", NoAttempt) /\ todo' = todo \ {Earliest} /\ UNCHANGED run
      \/ Put("own", Retried(Own)) /\ UNCHANGED <<run, todo>>
      \/ GiveUp
  BY DEF Report, Own
<1>3. QED
  BY <1>1, <1>2, ReplayedRestoring, ReplayAgainRestoring, ReplayGivenUp

-----------------------------------------------------------------------------
\* The list stays right while the rows, the browser and the attempt stay as they are.
LEMMA ListingStays ==
    ASSUME Typed, Once, Listing, UNCHANGED <<session, todo, Own>>, run'.phase = run.phase, RowsKept,
           \A r \in 1..Len(journal) : journal'[r].on = journal[r].on /\ journal'[r].status = journal[r].status
    PROVE  Listing'
<1>1. SUFFICES ASSUME run.phase = "replay"
               PROVE  Listing'
  BY DEF Listing
<1>2. \A r \in 1..Len(journal) : (InGeneration(r)' <=> InGeneration(r)) /\ (Marked(r)' <=> Marked(r))
  BY DEF InGeneration, Marked, RowsKept
<1>3. \A listed \in todo : listed.row \in 1..Len(journal)
  BY DEF Typed, Shapes
<1>4. Own.job = "replay" => Own.row \in 1..Len(journal)
  BY RowInHand DEF Own, Whose
<1>5. Earliest' = Earliest
  BY DEF Earliest
<1>6. \A listed \in todo : InGeneration(listed.row)'
  <2>1. ASSUME NEW listed \in todo, NEW r, r = listed.row
        PROVE  InGeneration(r)'
    BY <1>1, <1>2, <1>3, <2>1 DEF Listing
  <2>2. QED
    BY <2>1 DEF InGeneration
<1>7. \A r \in 1..Len(journal) : Unlisted(r)' <=> Unlisted(r)
  BY <1>2 DEF Unlisted
<1>8. \A r \in 1..Len(journal') : Unlisted(r)' =>
          /\ Marked(r)' /\ journal'[r].status = "applied" /\ \A listed \in todo : r < listed.row
  BY <1>1, <1>2, <1>7 DEF Listing, RowsKept
<1>9. \A listed \in todo : journal'[listed.row].on = session.id => Own.job = "replay" /\ Own.row = listed.row
  BY <1>1, <1>3 DEF Listing, Marked
<1>10. session.id # 0 /\ \A listed, other \in todo : listed.row = other.row => listed = other
  BY <1>1 DEF Listing
<1>11. Own.job = "replay" =>
           /\ Own.row = Earliest.row
           /\ Own.pc \in {"execute", "settle"} => journal'[Own.row].on = session.id /\ journal'[Own.row].status = "pending"
           /\ Own.pc = "report" /\ Own.errors = "none" =>
                  journal'[Own.row].on = session.id /\ journal'[Own.row].status = "applied"
  BY <1>1, <1>4 DEF Listing, Marked
<1>12. QED
  BY <1>5, <1>6, <1>8, <1>9, <1>10, <1>11 DEF Listing, Marked

\* A late action lands only on a page whose replay is spoiled.
LEMMA LandLateRestoring ==
    ASSUME Typed, Once, Restoring, LandLate
    PROVE  Restoring'
<1>1. PICK late \in flying :
          /\ alive
          /\ IF late.replayed THEN Replayed(late.op) ELSE Performed(late.row, late.op)
          /\ UNCHANGED <<session, alive, attempts, run, todo, spent>>
  BY DEF LandLate
<1>2. late.row \in 1..Len(journal) /\ journal \in Seq(JournalRow) /\ UNCHANGED Own
  BY <1>1 DEF Typed, Shapes, JournalTypeOK, Own
<1>3. /\ RowsKept
      /\ \A r \in 1..Len(journal) : journal'[r].status = journal[r].status /\ journal'[r].on = journal[r].on
  <2>1. CASE late.replayed
    BY <1>1, <2>1 DEF Replayed, RowsKept
  <2>2. CASE ~late.replayed
    BY <1>1, <1>2, <2>2, RowChanges, RowPerformedRows
  <2>3. QED
    BY <2>1, <2>2
<1>4. Counted'
  BY <1>1, <1>3 DEF Restoring, Counted, RowsKept
<1>5. ~(run.phase \in {"open", "list"} /\ session.status = "active")
  BY <1>1 DEF Restoring, Unopened
<1>6. Unopened'
  BY <1>1, <1>5 DEF Restoring, Unopened
<1>7. Listing'
  BY <1>1, <1>2, <1>3, ListingStays DEF Restoring
<1>8. Rebuilding'
  <2>1. SUFFICES ASSUME run.phase = "replay"
                 PROVE  Spoiled'
    BY <1>1 DEF Rebuilding
  <2>2. Spoiled
    BY <1>1, <2>1 DEF Restoring, Rebuilding
  <2>3. Own.row \in 1..Len(journal)
    BY <2>2, RowInHand DEF Spoiled, Own, Whose
  <2>4. QED
    BY <1>1, <1>2, <1>3, <2>2, <2>3 DEF Spoiled, Marked, Settling
<1>9. QED
  BY <1>4, <1>6, <1>7, <1>8 DEF Restoring

\* Nothing is to be restored on a browser that is lost.
LEMMA ExpireRestoring ==
    ASSUME Typed, Once, Restoring, Expire
    PROVE  Restoring'
<1>1. UNCHANGED <<journal, session, Own, run, todo>> /\ alive' = FALSE /\ spent'["sessions"] = spent["sessions"]
  BY SessionsSpent DEF Expire, Own, Bounded
<1>2. Counted' /\ Unopened' /\ Rebuilding'
  BY <1>1 DEF Restoring, Counted, Unopened, Marked, Rebuilding
<1>3. Listing'
  BY <1>1, ListingStays DEF Restoring, RowsKept
<1>4. QED
  BY <1>2, <1>3 DEF Restoring

\* A run begins without a browser.
LEMMA BeginRunRestoring ==
    ASSUME Typed, Restoring, NEW newGeneration \in BOOLEAN, BeginRun(newGeneration)
    PROVE  Restoring'
<1>1. /\ run.phase = "idle" /\ run'.phase = "open" /\ UNCHANGED <<journal, spent>>
      /\ session'.id = session.id /\ session'.status = session.status
  BY DEF BeginRun, Typed, JournalTypeOK, RunRecord, SessionRow
<1>2. session.status # "active"
  BY <1>1 DEF Restoring, Unopened
<1>3. Counted' /\ Unopened' /\ Listing' /\ Rebuilding'
  BY <1>1, <1>2 DEF Restoring, Counted, Unopened, Listing, Rebuilding
<1>4. QED
  BY <1>3 DEF Restoring

\* The run opens a browser of its own, or the one it opened a moment ago.
LEMMA OpenRestoring ==
    ASSUME Typed, Once, Restoring, NEW answered \in BOOLEAN, OpenWebpage(answered)
    PROVE  Restoring' /\ run'.phase # "act"
<1>1. /\ run.phase = "open" /\ run \in RunRecord /\ UNCHANGED journal
      /\ session \in SessionRow /\ spent \in [Bounded -> Nat] /\ spent'["sessions"] = session'.id
      /\ page \in Seq(Ops \cup {Start}) /\ Len(page) \in Nat
  BY DEF OpenWebpage, Typed, JournalTypeOK, Bounded
<1>2. run'.phase \in {"open", "ending"} \/ (run'.phase = IF session'.pending THEN "list" ELSE "act")
  <2>1. \/ run' = [run EXCEPT !.phase = IF session'.pending THEN "list" ELSE "act"]
        \/ run' = [run EXCEPT !.tries = @ + 1]
        \/ run' = [run EXCEPT !.phase = "ending"]
    BY DEF OpenWebpage
  <2>2. QED
    BY <1>1, <2>1 DEF RunRecord
<1>3. CASE Reconnect
  <2>1. /\ session' = session /\ page' \in {page, Append(page, Start)} /\ flying' = flying /\ alive /\ alive' = alive
        /\ session.id # 0 /\ session.status = "active"
    BY <1>3 DEF Reconnect, Reachable
  <2>2. /\ session.pending /\ \A r \in 1..Len(journal) : ~Marked(r)
        /\ flying = {} /\ Len(page) # 0 /\ \A i \in 1..Len(page) : page[i] = Start
    BY <1>1, <2>1 DEF Restoring, Unopened
  <2>3. Len(page') # 0 /\ \A i \in 1..Len(page') : page'[i] = Start
    <3>1. CASE page' = page
      BY <2>2, <3>1
    <3>2. CASE page' = Append(page, Start)
      BY <1>1, <2>2, <3>2, AppendProperties
    <3>3. QED
      BY <2>1, <3>1, <3>2
  <2>4. run'.phase \in {"open", "ending", "list"}
    BY <1>2, <2>1, <2>2
  <2>5. Counted'
    BY <1>1, <2>1 DEF Restoring, Counted
  <2>6. Unopened'
    BY <1>1, <2>1, <2>2, <2>3, <2>4 DEF Unopened, Marked
  <2>7. QED
    BY <2>4, <2>5, <2>6 DEF Restoring, Listing, Rebuilding
<1>4. CASE Create
  <2>1. /\ page' = <<Start>> /\ flying' = {} /\ session'.pending
        /\ session'.id = spent["sessions"] + 1
    BY <1>1, <1>4 DEF Create, SessionRow
  <2>2. Len(page') # 0 /\ \A i \in 1..Len(page') : page'[i] = Start
    <3>1. Len(page') = 1 /\ page'[1] = Start
      BY <2>1
    <3>2. QED
      BY <3>1
  <2>3. session'.id # 0 /\ \A r \in 1..Len(journal) : journal[r].on <= session'.id /\ journal[r].on # session'.id
    <3>1. spent["sessions"] \in Nat /\ \A r \in 1..Len(journal) : journal[r].on \in Nat /\ journal[r].on <= spent["sessions"]
      BY RowNumbers DEF Restoring, Counted
    <3>2. QED
      BY <2>1, <3>1
  <2>4. run'.phase \in {"open", "ending", "list"}
    BY <1>2, <2>1
  <2>5. Counted'
    BY <1>1, <2>3 DEF Counted
  <2>6. Unopened'
    BY <1>1, <2>1, <2>2, <2>3, <2>4 DEF Unopened, Marked
  <2>7. QED
    BY <2>4, <2>5, <2>6 DEF Restoring, Listing, Rebuilding
<1>5. QED
  BY <1>3, <1>4 DEF OpenWebpage

\* When the rows are listed, the browser shows its starting page.
LEMMA ListRestoring ==
    ASSUME Typed, Once, Restoring, ListBrowserMutationsForReplay
    PROVE  Restoring'
<1>1. /\ run.phase = "list" /\ session.status = "active" /\ run'.phase = "replay"
      /\ UNCHANGED <<session, attempts, page, alive, flying, spent>>
  BY DEF ListBrowserMutationsForReplay, world, Typed, JournalTypeOK, RunRecord
<1>2. /\ session.id # 0 /\ \A r \in 1..Len(journal) : ~Marked(r)
      /\ alive => flying = {} /\ Len(page) # 0 /\ \A i \in 1..Len(page) : page[i] = Start
  BY <1>1 DEF Restoring, Counted, Unopened
<1>3. Own.job = "none" /\ Own'.job = "none"
  BY <1>1, NoneInHand DEF Own
<1>4. /\ DOMAIN journal = 1..Len(journal) /\ Len(journal') = Len(journal)
      /\ page \in Seq(Ops \cup {Start}) /\ Len(page) \in Nat
  BY RowsListed, LenProperties DEF Typed, JournalTypeOK
<1>5. \A r \in 1..Len(journal) : journal'[r].gen = journal[r].gen /\ journal'[r].on \in {journal[r].on, 0}
  <2>1. SUFFICES ASSUME NEW r \in 1..Len(journal)
                 PROVE  journal'[r].gen = journal[r].gen /\ journal'[r].on \in {journal[r].on, 0}
    OBVIOUS
  <2>2. journal[r] \in JournalRow /\ journal'[r] = Recovered(journal[r])
    BY <1>4, ElementOfSeq DEF ListBrowserMutationsForReplay, Typed, JournalTypeOK
  <2>3. QED
    BY <2>2 DEF Recovered, JournalRow
<1>6. \A r \in 1..Len(journal) : journal'[r].on # session.id
  BY <1>2, <1>5 DEF Marked
<1>7. Counted'
  <2>1. \A r \in 1..Len(journal) : journal[r].on <= spent["sessions"] /\ 0 <= spent["sessions"]
    BY RowNumbers DEF Restoring, Counted
  <2>2. QED
    BY <1>1, <1>4, <1>5, <2>1 DEF Restoring, Counted
<1>8. Listing'
  <2> DEFINE entry(r) == [row |-> r, ok |-> journal'[r].status = "applied" /\ ReplaySafe(journal[r].kind)]
  <2>1. todo' = {entry(r) : r \in ListedRows}
    BY DEF ListBrowserMutationsForReplay
  <2>2. \A r : entry(r).row = r
    OBVIOUS
  <2> HIDE DEF entry
  <2>3. \A r : r \in ListedRows <=> r \in 1..Len(journal) /\ InGeneration(r)
    BY <1>4 DEF ListedRows, InGeneration
  <2>4. \A listed, other \in todo' : listed.row = other.row => listed = other
    BY <2>1, <2>2
  <2>5. \A listed \in todo' : listed.row \in 1..Len(journal) /\ journal[listed.row].gen = session.gen
    BY <2>1, <2>2, <2>3 DEF InGeneration
  <2>6. \A listed \in todo' : InGeneration(listed.row)'
    BY <1>1, <1>5, <2>5 DEF InGeneration
  <2>7. \A r \in 1..Len(journal') : ~Unlisted(r)'
    <3>1. SUFFICES ASSUME NEW r \in 1..Len(journal), InGeneration(r)'
                   PROVE  \E listed \in todo' : listed.row = r
      BY <1>4 DEF Unlisted
    <3>2. r \in ListedRows
      BY <1>1, <1>5, <2>3, <3>1 DEF InGeneration
    <3>3. QED
      BY <2>1, <2>2, <3>2
  <2>8. \A listed \in todo' : journal'[listed.row].on # session.id
    BY <1>6, <2>5
  <2>9. QED
    BY <1>1, <1>2, <1>3, <2>4, <2>6, <2>7, <2>8 DEF Listing, Marked
<1>9. Rebuilding'
  <2>1. SUFFICES ASSUME alive
                 PROVE  flying = {} /\ \E k \in 1..Len(page') : RebuiltFrom(k)'
    BY <1>1 DEF Rebuilding
  <2>2. \A r \in 1..Len(journal') : ~Shows(r)'
    BY <1>1, <1>4, <1>6 DEF Shows, Marked
  <2>3. Len(page) \in 1..Len(page) /\ page[Len(page)] = Start /\ \A i \in 1..Len(page) : ~(Len(page) < i)
    BY <1>2, <1>4, <2>1
  <2>4. ASSUME NEW k, k = Len(page)
        PROVE  RebuiltFrom(k)'
    BY <1>1, <2>2, <2>3, <2>4 DEF RebuiltFrom
  <2>5. QED
    BY <1>1, <1>2, <2>1, <2>3, <2>4
<1>10. QED
  BY <1>1, <1>7, <1>8, <1>9 DEF Restoring, Unopened

\* The next row that is replayed was not touched on this browser.
LEMMA ReplayNextRestoring ==
    ASSUME Typed, Once, Restoring, ReplayNext
    PROVE  Restoring'
<1>1. /\ run.phase = "replay" /\ todo # {} /\ Own.job = "none" /\ "own" \in Whose /\ run \in RunRecord
      /\ UNCHANGED <<journal, session, todo, page, alive, flying, spent>>
  BY DEF ReplayNext, world, Own, Whose, Typed, JournalTypeOK
<1>2. Counted'
  BY <1>1 DEF Restoring, Counted
<1>3. CASE run' = [run EXCEPT !.phase = "ending"]
  <2>1. run'.phase = "ending"
    BY <1>1, <1>3 DEF RunRecord
  <2>2. QED
    BY <1>2, <2>1, LaterRestoring
<1>4. CASE /\ Put("own", [NoAttempt EXCEPT !.job = "replay", !.pc = "claim",
                                           !.row = Earliest.row, !.try = 1])
           /\ UNCHANGED run
  <2>1. Own' = [NoAttempt EXCEPT !.job = "replay", !.pc = "claim", !.row = Earliest.row, !.try = 1]
    BY <1>1, <1>4, PutOne DEF Own
  <2>2. Own'.job = "replay" /\ Own'.pc = "claim" /\ Own'.row = Earliest.row
    BY <2>1 DEF NoAttempt
  <2>3. Earliest' = Earliest /\ Earliest \in todo
    BY <1>1, EarliestFirst DEF Earliest
  <2>4. \A listed \in todo : ~Marked(listed.row)
    BY <1>1 DEF Restoring, Listing
  <2>5. Listing'
    <3>1. \A r : (Unlisted(r)' <=> Unlisted(r)) /\ (InGeneration(r)' <=> InGeneration(r)) /\ (Marked(r)' <=> Marked(r))
      BY <1>1 DEF Unlisted, InGeneration, Marked
    <3>2. \A listed \in todo : journal[listed.row].on # session.id /\ journal[listed.row].gen = session.gen
      BY <1>1, <2>4 DEF Marked, Restoring, Listing, InGeneration
    <3>3. \A listed \in todo' : InGeneration(listed.row)' /\ ~Marked(listed.row)'
      BY <1>1, <3>2 DEF InGeneration, Marked
    <3>4. \A r \in 1..Len(journal') : Unlisted(r)' =>
              /\ Marked(r)' /\ journal'[r].status = "applied" /\ \A listed \in todo' : r < listed.row
      BY <1>1, <3>1 DEF Restoring, Listing
    <3>5. session'.id # 0 /\ \A listed, other \in todo' : listed.row = other.row => listed = other
      BY <1>1 DEF Restoring, Listing
    <3>6. QED
      BY <2>2, <2>3, <3>3, <3>4, <3>5 DEF Listing
  <2>6. ~Spoiled /\ RowsKept
    BY <1>1 DEF Spoiled, RowsKept
  <2>7. \A r \in 1..Len(journal) : Shows(r)' <=> Shows(r)
    BY <1>1, <2>2 DEF Shows, Marked, Settling, InGeneration
  <2>8. Rebuilding'
    BY <1>1, <2>6, <2>7, RebuiltStays DEF Restoring
  <2>9. QED
    BY <1>1, <1>2, <1>4, <2>5, <2>8 DEF Restoring, Unopened
<1>5. QED
  BY <1>3, <1>4 DEF ReplayNext

\* Every step of the workflow; only a completed replay lets the run act.
LEMMA WorkflowRestoring ==
    ASSUME Typed, Once, Restoring, MaxCloseFailures = 0, Workflow
    PROVE  Restoring' /\ (run.phase # "act" /\ run'.phase = "act" => CompleteBrowserReplay)
<1>1. run \in RunRecord /\ session \in SessionRow /\ Own \in AttemptRecord /\ spent \in [Bounded -> Nat]
  BY DEF Typed, JournalTypeOK, Own, Whose
<1>2. CASE CompleteBrowserReplay
  <2>1. /\ UNCHANGED <<journal, spent>> /\ run'.phase = "act"
        /\ session'.id = session.id /\ session'.status = session.status
    BY <1>1, <1>2 DEF CompleteBrowserReplay, RunRecord, SessionRow
  <2>2. Counted'
    BY <2>1 DEF Restoring, Counted
  <2>3. QED
    BY <1>2, <2>1, <2>2, LaterRestoring
<1>3. CASE Leave \/ CancelRun
  <2>1. UNCHANGED <<journal, session>> /\ run'.phase = "ending"
    BY <1>1, <1>3 DEF Leave, CancelRun, RunRecord
  <2>2. spent'["sessions"] = spent["sessions"]
    BY <1>3, SessionsSpent DEF Leave, CancelRun, Bounded
  <2>3. Counted'
    BY <2>1, <2>2 DEF Restoring, Counted
  <2>4. QED
    BY <2>1, <2>3, LaterRestoring
<1>4. ASSUME NEW kinds \in Calls, StartCall(kinds)
      PROVE  Restoring' /\ run.phase = "act"
  <2>1. UNCHANGED <<journal, session, spent>> /\ run.phase = "act" /\ run'.phase = "act"
    BY <1>1, <1>4 DEF StartCall, RunRecord
  <2>2. Counted'
    BY <2>1 DEF Restoring, Counted
  <2>3. QED
    BY <2>1, <2>2, LaterRestoring
<1>5. ASSUME NEW deleted \in BOOLEAN, NEW cleared \in BOOLEAN, CloseBrowser(deleted, cleared)
      PROVE  Restoring' /\ run'.phase = "idle"
  <2>1. cleared /\ UNCHANGED spent
    BY <1>1, <1>5 DEF CloseBrowser, Spend, Bounded
  <2>2. UNCHANGED journal /\ run'.phase = "idle" /\ session'.status = "closed" /\ session'.id = 0
    BY <1>1, <1>5, <2>1 DEF CloseBrowser, RunRecord, SessionRow
  <2>3. Counted' /\ Unopened' /\ Listing' /\ Rebuilding'
    BY <2>1, <2>2 DEF Restoring, Counted, Unopened, Listing, Rebuilding
  <2>4. QED
    BY <2>2, <2>3 DEF Restoring
<1>6. CASE Report
  <2>1. run' = run \/ run' = [run EXCEPT !.phase = "ending"]
    BY <1>6 DEF Report, GiveUp
  <2>2. run'.phase \in {run.phase, "ending"}
    BY <1>1, <2>1 DEF RunRecord
  <2>3. Own.job # "none" /\ UNCHANGED <<journal, session, spent>>
    BY <1>6 DEF Report, Typed, Shapes, AttemptShape, Own, Whose
  <2>4. CASE Own.job = "replay"
    BY <1>6, <2>2, <2>4, ReportReplayRestoring
  <2>5. CASE Own.job = "mutate"
    BY <2>2, <2>3, <2>5, CallRestoring
  <2>6. QED
    BY <1>1, <2>2, <2>3, <2>4, <2>5 DEF AttemptRecord
<1>7. /\ \A newGeneration \in BOOLEAN : BeginRun(newGeneration) => run'.phase = "open"
      /\ ListBrowserMutationsForReplay => run'.phase = "replay"
      /\ ReplayNext => run'.phase \in {run.phase, "ending"}
  BY <1>1 DEF BeginRun, ListBrowserMutationsForReplay, ReplayNext, RunRecord
<1>8. QED
  BY <1>2, <1>3, <1>4, <1>5, <1>6, <1>7, BeginRunRestoring, OpenRestoring, ListRestoring, ReplayNextRestoring
     DEF Workflow, Leave, CancelRun

\* Every step of the run's own attempt.
LEMMA AttemptRestoring ==
    ASSUME Typed, Once, Restoring, NobodyLeftBehind, NEW w \in Whose, Attempt(w)
    PROVE  Restoring' /\ (run'.phase = "act" => run.phase = "act")
<1>1. w = "own" /\ Own.job \in {"mutate", "replay"}
  <2>1. Own \in AttemptRecord
    BY DEF Typed, JournalTypeOK, Own, Whose
  <2>2. QED
    BY <2>1, NobodyElse DEF AttemptRecord
<1>2. run'.phase = "act" => run.phase = "act"
  <2>1. \/ UNCHANGED run
        \/ \E inFlight \in BOOLEAN : Timeout("own", inFlight)
    BY <1>1 DEF Attempt, Record, Reconcile, Execute, Settle, Claim, SettleReplay
  <2>2. QED
    BY <2>1, OwnTimedOut
<1>3. CASE Own.job = "mutate"
  BY <1>1, <1>2, <1>3, CallAttemptRestoring
<1>4. CASE Own.job = "replay"
  <2>1. ~Record("own") /\ ~Reconcile("own") /\ \A stored \in BOOLEAN : ~Settle("own", stored)
    BY <1>4 DEF Record, Reconcile, Settle, At, Own
  <2>2. QED
    BY <1>1, <1>2, <1>4, <2>1, ClaimRestoring, ExecuteReplayRestoring, SettleReplayRestoring, TimeoutReplayRestoring
       DEF Attempt
<1>5. QED
  BY <1>1, <1>3, <1>4

\* Every step that leaves nobody behind.
LEMMA StepRestoring ==
    ASSUME Typed, Once, Restoring, MaxCloseFailures = 0, NobodyLeftBehind, [Next]_vars
    PROVE  Restoring' /\ (run.phase # "act" /\ run'.phase = "act" => CompleteBrowserReplay)
<1>1. ~ReportInVain
  BY DEF ReportInVain, NobodyLeftBehind, Typed, Shapes, AttemptShape, Whose
<1>2. CASE UNCHANGED vars
  <2>1. UNCHANGED <<journal, session, page, alive, flying, run, todo, spent, Own>>
    BY <1>2 DEF vars, Own
  <2>2. Counted' /\ Unopened'
    BY <2>1 DEF Restoring, Counted, Unopened, Marked
  <2>3. RowsKept
    BY <2>1 DEF RowsKept
  <2>4. Listing'
    BY <2>1, <2>3, ListingStays DEF Restoring
  <2>5. /\ Spoiled' <=> Spoiled
        /\ \A r \in 1..Len(journal) : Shows(r)' <=> Shows(r)
    BY <2>1 DEF Spoiled, Shows, Marked, Settling, InGeneration
  <2>6. Rebuilding'
    BY <2>1, <2>3, <2>5, RebuiltStays DEF Restoring, Rebuilding
  <2>7. QED
    BY <2>1, <2>2, <2>4, <2>6 DEF Restoring
<1>3. LandLate \/ Expire => UNCHANGED run
  BY DEF LandLate, Expire
<1>4. QED
  BY <1>1, <1>2, <1>3, WorkflowRestoring, AttemptRestoring, LandLateRestoring, ExpireRestoring DEF Next

\* As long as every run closes its browser and nobody is left behind, a replay
\* rebuilds the page from the rows it is through with, in their order.
THEOREM RestoringInvariant ==
    MaxCloseFailures = 0 => (Spec /\ []NobodyLeftBehind => []Restoring)
<1> SUFFICES ASSUME MaxCloseFailures = 0
             PROVE  Spec /\ []NobodyLeftBehind => []Restoring
  OBVIOUS
<1>1. Init => Restoring
  <2>1. SUFFICES ASSUME Init
                 PROVE  Restoring
    OBVIOUS
  <2>2. /\ Len(journal) = 0 /\ run.phase = "idle" /\ session.id = 0 /\ session.status = "starting"
    BY <2>1, EmptySeq DEF Init
  <2>3. QED
    BY <2>2 DEF Restoring, Counted, Unopened, Listing, Rebuilding
<1>2. Typed /\ Once /\ Restoring /\ NobodyLeftBehind /\ [Next]_vars => Restoring'
  BY StepRestoring
<1>3. QED
  BY <1>1, <1>2, TypingInvariant, OnceInvariant, PTL DEF Spec

\* When nothing is left to be replayed, the page shows every row of the
\* generation, in the order of the rows, and nothing else.
LEMMA CompleteRestores ==
    ASSUME Typed, Once, Restoring, CompleteBrowserReplay, alive'
    PROVE  Restored'
<1>1. /\ run.phase = "replay" /\ todo = {} /\ alive /\ UNCHANGED <<journal, page>> /\ session'.gen = session.gen
      /\ Own.job = "none"
  <2>1. /\ run.phase = "replay" /\ todo = {} /\ alive /\ UNCHANGED <<journal, page>> /\ session'.gen = session.gen
    BY DEF CompleteBrowserReplay, world, Typed, JournalTypeOK, SessionRow
  <2>2. QED
    BY <2>1 DEF Once, Stages, Own, Typed, JournalTypeOK, AttemptRecord, Whose
<1>2. ~Spoiled
  BY <1>1 DEF Spoiled
<1>3. PICK k \in 1..Len(page) : RebuiltFrom(k)
  BY <1>1, <1>2 DEF Restoring, Rebuilding
<1>4. \A r \in 1..Len(journal) : Shows(r) <=> InGeneration(r)
  BY <1>1 DEF Restoring, Listing, Unlisted, Shows
<1>5. /\ page \in Seq(Ops \cup {Start}) /\ Len(page) \in Nat /\ DOMAIN page = 1..Len(page)
      /\ DOMAIN journal = 1..Len(journal)
  BY LenProperties DEF Typed, JournalTypeOK
<1> DEFINE last == CHOOSE i \in DOMAIN page' : page'[i] = Start /\ \A j \in DOMAIN page' : page'[j] = Start => j <= i
           rows == {r \in DOMAIN journal' : journal'[r].gen = session'.gen}
           n == Len(page) - k
           of(i) == CHOOSE r \in rows : page[k + i] = journal[r].op
           order == [i \in 1..n |-> of(i)]
<1>6. last = k
  <2>1. \A i \in 1..Len(page) : k < i => page[i] # Start
    <3>1. \A r \in 1..Len(journal) : journal[r].op # Start
      BY RowNumbers, StartIsNoAction
    <3>2. QED
      BY <1>3, <3>1 DEF RebuiltFrom
  <2>2. page[k] = Start /\ \A j \in 1..Len(page) : page[j] = Start => j <= k
    BY <1>3, <1>5, <2>1 DEF RebuiltFrom
  <2>3. \A i \in 1..Len(page) :
            page[i] = Start /\ (\A j \in 1..Len(page) : page[j] = Start => j <= i) => i = k
    BY <1>5, <2>2
  <2>4. DOMAIN page' = 1..Len(page) /\ \A i \in 1..Len(page) : page'[i] = page[i]
    BY <1>1, <1>5
  <2>5. QED
    BY <2>2, <2>3, <2>4
<1>7. \A r : r \in rows <=> r \in 1..Len(journal) /\ Shows(r)
  BY <1>1, <1>4, <1>5 DEF InGeneration
<1>8. n \in Nat /\ \A i \in 1..n : k + i \in 1..Len(page) /\ k < k + i
  BY <1>5
<1> HIDE DEF last, rows, n
<1>9. \A i \in 1..n : of(i) \in rows /\ page[k + i] = journal[of(i)].op
  BY <1>3, <1>7, <1>8 DEF RebuiltFrom
<1> HIDE DEF of
<1>10. order \in [1..n -> rows] /\ DOMAIN order = 1..n /\ \A i \in 1..n : order[i] = of(i)
  BY <1>9
<1> HIDE DEF order
<1>11. \A i \in 1..n : order[i] \in 1..Len(journal) /\ Shows(order[i]) /\ page[k + i] = journal[order[i]].op
  BY <1>7, <1>9, <1>10
<1>12. ASSUME NEW i \in 1..n, NEW j \in 1..n, i < j
       PROVE  order[i] < order[j]
  <2>1. k + i \in 1..Len(page) /\ k + j \in 1..Len(page) /\ k + i < k + j /\ ~(k + j < k + i)
    BY <1>8, <1>12
  <2>2. /\ page[k + i] = journal[order[i]].op /\ page[k + j] = journal[order[j]].op
        /\ order[i] \in 1..Len(journal) /\ order[j] \in 1..Len(journal)
        /\ Shows(order[i]) /\ Shows(order[j])
    BY <1>11
  <2>3. order[i] # order[j]
    <3>1. SUFFICES ASSUME order[i] = order[j]
                   PROVE  FALSE
      OBVIOUS
    <3>2. page[k + i] = page[k + j] /\ page[k + i] # Start
      BY <2>2, <3>1, RowNumbers, StartIsNoAction
    <3>3. k + i = k + j
      BY <2>1, <3>2 DEF Once, PageOnce
    <3>4. QED
      BY <2>1, <3>3
  <2>4. ~(order[j] < order[i])
    BY <1>3, <2>1, <2>2 DEF RebuiltFrom
  <2>5. Len(journal) \in Nat
    BY RowNumbers
  <2>6. QED
    BY <2>2, <2>3, <2>4, <2>5
<1>13. ASSUME NEW r \in rows
       PROVE  \E i \in 1..n : order[i] = r
  <2>1. r \in 1..Len(journal) /\ Shows(r)
    BY <1>7
  <2>2. PICK p \in 1..Len(page) : k < p /\ page[p] = journal[r].op
    BY <1>3, <2>1 DEF RebuiltFrom
  <2>3. p - k \in 1..n /\ k + (p - k) = p
    BY <1>5, <2>2 DEF n
  <2>4. order[p - k] \in 1..Len(journal) /\ journal[order[p - k]].op = journal[r].op
    BY <1>11, <2>2, <2>3
  <2>5. order[p - k] = r
    BY <2>1, <2>4 DEF Once, RowsApart
  <2>6. QED
    BY <2>3, <2>5
<1>14. \A i \in 1..n : page'[last + i] = journal'[order[i]].op
  BY <1>1, <1>6, <1>11
<1>15. \E o \in [1..(Len(page') - last) -> rows] :
           /\ \A i \in DOMAIN o : page'[last + i] = journal'[o[i]].op
           /\ \A i, j \in DOMAIN o : i < j => o[i] < o[j]
           /\ \A r \in rows : \E i \in DOMAIN o : o[i] = r
  <2>1. order \in [1..(Len(page') - last) -> rows]
    BY <1>1, <1>6, <1>10 DEF n
  <2>2. QED
    BY <1>10, <1>12, <1>13, <1>14, <2>1
<1>16. QED
  BY <1>15 DEF Restored, last, rows

\* The agent starts to act on a page that shows every action of the journal's
\* generation, in the journal's order, and nothing else, whatever was lost, timed
\* out or expired before, as long as every run closes its browser and nobody is
\* left behind (openApplicationPage, replayBrowserMutations).
THEOREM ReplayRestoresThePage ==
    MaxCloseFailures = 0 => (Spec /\ []NobodyLeftBehind => RestoredBeforeActing)
<1> SUFFICES ASSUME MaxCloseFailures = 0
             PROVE  Spec /\ []NobodyLeftBehind => RestoredBeforeActing
  OBVIOUS
<1>1. Typed /\ Once /\ Restoring /\ NobodyLeftBehind /\ [Next]_vars
          => [run.phase # "act" /\ run'.phase = "act" /\ alive' => Restored']_vars
  BY StepRestoring, CompleteRestores
<1>2. QED
  BY <1>1, TypingInvariant, OnceInvariant, RestoringInvariant, PTL DEF Spec, RestoredBeforeActing

\* ... which holds of every behaviour in which no run is cancelled and every run
\* closes its browser.
COROLLARY UncancelledRestore ==
    MaxCloseFailures = 0 /\ MaxCancels = 0 => (Spec => RestoredBeforeActing)
BY ReplayRestoresThePage, UncancelledLeaveNobody, PTL

-----------------------------------------------------------------------------
(* The journal implements MutationLog.  What a step writes is small: a new *)
(* row, the status of rows, or that one was performed.  That the log allows *)
(* it is what the rows' guard is for: after the step, a failed row has not  *)
(* been performed, and none has been performed twice.                      *)

\* An entry of the log.
LogEntry == [action : Ops, performed : Nat, verdict : {"failed", "none"}]

\* The log has an entry for each row.
LEMMA EntriesOfRows ==
    ASSUME NEW rows \in Seq(JournalRow)
    PROVE  /\ DOMAIN rows = 1..Len(rows) /\ Len(rows) \in Nat
           /\ [r \in 1..Len(rows) |-> Entry(rows[r])] \in Seq(LogEntry)
           /\ Len([r \in 1..Len(rows) |-> Entry(rows[r])]) = Len(rows)
<1> DEFINE entries == [r \in 1..Len(rows) |-> Entry(rows[r])]
<1>1. DOMAIN rows = 1..Len(rows) /\ Len(rows) \in Nat
  BY LenProperties
<1>2. ASSUME NEW r \in 1..Len(rows)
      PROVE  Entry(rows[r]) \in LogEntry
  <2>1. rows[r] \in JournalRow
    BY ElementOfSeq
  <2>2. QED
    BY <2>1 DEF JournalRow, Entry, LogEntry
<1>3. entries \in [1..Len(rows) -> LogEntry]
  BY <1>2
<1>4. entries \in Seq(LogEntry)
  BY <1>1, <1>3, SeqDef
<1>5. Len(entries) = Len(rows)
  BY <1>1, <1>3, <1>4, LenProperties
<1>6. QED
  BY <1>1, <1>4, <1>5

\* ... and so it is before a step and after it.
LEMMA EntriesNowAndNext ==
    /\ journal \in Seq(JournalRow) => Entries = [r \in 1..Len(journal) |-> Entry(journal[r])]
    /\ journal' \in Seq(JournalRow) => Entries' = [r \in 1..Len(journal') |-> Entry(journal'[r])]
<1>1. journal \in Seq(JournalRow) => DOMAIN journal = 1..Len(journal)
  BY EntriesOfRows
<1>2. journal' \in Seq(JournalRow) => DOMAIN journal' = 1..Len(journal')
  BY EntriesOfRows
<1>3. QED
  BY <1>1, <1>2 DEF Entries

\* Rows that keep what the log knows of them leave it as it is.
LEMMA EntriesKept ==
    ASSUME journal \in Seq(JournalRow), journal' \in Seq(JournalRow), Len(journal') = Len(journal),
           \A r \in 1..Len(journal) : Entry(journal'[r]) = Entry(journal[r])
    PROVE  Entries' = Entries
<1>1. Entries = [r \in 1..Len(journal) |-> Entry(journal[r])]
  BY EntriesNowAndNext
<1>2. Entries' = [r \in 1..Len(journal) |-> Entry(journal'[r])]
  BY EntriesNowAndNext
<1>3. QED
  BY <1>1, <1>2

\* A row that changes changes its entry only.
LEMMA EntryChanged ==
    ASSUME journal \in Seq(JournalRow), journal' \in Seq(JournalRow), Len(journal') = Len(journal),
           NEW row \in 1..Len(journal),
           \A r \in 1..Len(journal) : r # row => Entry(journal'[r]) = Entry(journal[r])
    PROVE  Entries' = [Entries EXCEPT ![row] = Entry(journal'[row])]
<1>1. Entries = [r \in 1..Len(journal) |-> Entry(journal[r])]
  BY EntriesNowAndNext
<1>2. Entries' = [r \in 1..Len(journal) |-> Entry(journal'[r])]
  BY EntriesNowAndNext
<1>3. [Entries EXCEPT ![row] = Entry(journal'[row])] =
          [r \in 1..Len(journal) |-> IF r = row THEN Entry(journal'[row]) ELSE Entry(journal[r])]
  BY <1>1
<1>4. QED
  BY <1>2, <1>3

\* A row whose status is set is as it was for the log, is taken up again, or
\* is found to have failed: then nobody has performed it.
LEMMA StatusLogged ==
    ASSUME Typed, Typed', Guarded', NEW row \in 1..Len(journal),
           NEW status \in Statuses, NEW on \in Nat, SetStatus(row, status, on)
    PROVE  [Log!Next]_Entries
<1>1. journal \in Seq(JournalRow) /\ journal' \in Seq(JournalRow)
  BY DEF Typed, JournalTypeOK
<1>2. /\ Len(journal') = Len(journal)
      /\ \A r \in 1..Len(journal) :
             /\ journal'[r].done = journal[r].done /\ journal'[r].op = journal[r].op
             /\ journal'[r].status = IF r = row THEN status ELSE journal[r].status
  BY <1>1, StatusSet, StatusSetRows
<1>3. \A r \in 1..Len(journal) : r # row => Entry(journal'[r]) = Entry(journal[r])
  BY <1>2 DEF Entry
<1>4. DOMAIN Entries = 1..Len(journal) /\ Entries[row] = Entry(journal[row])
  BY <1>1, EntriesNowAndNext
<1>5. Entries' = [Entries EXCEPT ![row] = Entry(journal'[row])]
  BY <1>1, <1>2, <1>3, EntryChanged
<1>6. CASE status = "failed" <=> journal[row].status = "failed"
  <2>1. Entry(journal'[row]) = Entry(journal[row])
    BY <1>2, <1>6 DEF Entry
  <2>2. \A r \in 1..Len(journal) : Entry(journal'[r]) = Entry(journal[r])
    BY <1>3, <2>1
  <2>3. QED
    BY <1>1, <1>2, <2>2, EntriesKept
<1>7. CASE status # "failed" /\ journal[row].status = "failed"
  <2>1. Entries[row].verdict = "failed"
    BY <1>4, <1>7 DEF Entry
  <2>2. Entry(journal'[row]) = [Entries[row] EXCEPT !.verdict = "none"]
    BY <1>2, <1>4, <1>7 DEF Entry
  <2>3. Log!Retry(row)
    BY <1>5, <2>1, <2>2 DEF Log!Retry
  <2>4. QED
    BY <1>4, <2>3 DEF Log!Next
<1>8. CASE status = "failed" /\ journal[row].status # "failed"
  <2>1. journal'[row].done = 0
    BY <1>2, <1>8 DEF Guarded, RowGuarded
  <2>2. Entries[row].performed = 0 /\ Entries[row].verdict = "none"
    BY <1>2, <1>4, <1>8, <2>1 DEF Entry
  <2>3. Entry(journal'[row]) = [Entries[row] EXCEPT !.verdict = "failed"]
    BY <1>2, <1>4, <1>8 DEF Entry
  <2>4. Log!Refuse(row)
    BY <1>5, <2>2, <2>3 DEF Log!Refuse
  <2>5. QED
    BY <1>4, <2>4 DEF Log!Next
<1>9. QED
  BY <1>6, <1>7, <1>8

\* A row that is performed is performed for the first time, and had not failed.
LEMMA PerformedLogged ==
    ASSUME Typed, Typed', Guarded', NEW row \in 1..Len(journal), NEW op, Performed(row, op)
    PROVE  [Log!Next]_Entries
<1>1. journal \in Seq(JournalRow) /\ journal' \in Seq(JournalRow) /\ journal[row] \in JournalRow
  BY ElementOfSeq DEF Typed, JournalTypeOK
<1>2. /\ Len(journal') = Len(journal)
      /\ \A r \in 1..Len(journal) :
             /\ journal'[r].status = journal[r].status /\ journal'[r].op = journal[r].op
             /\ journal'[r].done = IF r = row THEN journal[r].done + 1 ELSE journal[r].done
  BY <1>1, RowPerformed, RowPerformedRows
<1>3. \A r \in 1..Len(journal) : r # row => Entry(journal'[r]) = Entry(journal[r])
  BY <1>2 DEF Entry
<1>4. DOMAIN Entries = 1..Len(journal) /\ Entries[row] = Entry(journal[row])
  BY <1>1, EntriesNowAndNext
<1>5. Entries' = [Entries EXCEPT ![row] = Entry(journal'[row])]
  BY <1>1, <1>2, <1>3, EntryChanged
<1>6. journal[row].done = 0 /\ journal[row].status # "failed"
  <2>1. journal[row].done \in Nat /\ journal'[row].done = journal[row].done + 1
    BY <1>1, <1>2 DEF JournalRow
  <2>2. journal'[row].done <= 1 /\ (journal'[row].status = "failed" => journal'[row].done = 0)
    BY <1>2 DEF Guarded, RowGuarded
  <2>3. QED
    BY <1>2, <2>1, <2>2
<1>7. Entries[row].performed = 0 /\ Entries[row].verdict = "none"
  BY <1>4, <1>6 DEF Entry
<1>8. journal'[row].done = 1
  BY <1>2, <1>6
<1>9. Entry(journal'[row]) = [Entries[row] EXCEPT !.performed = 1]
  BY <1>2, <1>4, <1>8 DEF Entry
<1>10. Log!Perform(row)
  BY <1>5, <1>7, <1>9 DEF Log!Perform
<1>11. QED
  BY <1>4, <1>10 DEF Log!Next

\* A row that is added is a new entry.
LEMMA AddedLogged ==
    ASSUME Typed, NEW added \in JournalRow, added.status = "pending", added.done = 0,
           journal' = Append(journal, added)
    PROVE  Log!Next
<1> DEFINE entry == [action |-> added.op, performed |-> 0, verdict |-> "none"]
<1>1. journal \in Seq(JournalRow) /\ Len(journal) \in Nat
  BY DEF Typed, JournalTypeOK
<1>2. /\ journal' \in Seq(JournalRow) /\ Len(journal') = Len(journal) + 1
      /\ journal'[Len(journal) + 1] = added
      /\ \A r \in 1..Len(journal) : journal'[r] = journal[r]
  BY <1>1, AppendProperties
<1>3. Entry(added) = entry /\ added.op \in Ops
  BY DEF Entry, JournalRow
<1>4. entry \in LogEntry
  BY <1>3 DEF LogEntry
<1> HIDE DEF entry
<1>5. /\ Entries \in Seq(LogEntry) /\ Len(Entries) = Len(journal)
      /\ \A r \in 1..Len(journal) : Entries[r] = Entry(journal[r])
  BY <1>1, EntriesOfRows, EntriesNowAndNext
<1>6. /\ Entries' \in Seq(LogEntry) /\ Len(Entries') = Len(journal')
      /\ \A r \in 1..Len(journal') : Entries'[r] = Entry(journal'[r])
  BY <1>2, EntriesOfRows, EntriesNowAndNext
<1>7. /\ Append(Entries, entry) \in Seq(LogEntry)
      /\ Len(Append(Entries, entry)) = Len(journal) + 1
      /\ Append(Entries, entry)[Len(journal) + 1] = entry
      /\ \A r \in 1..Len(journal) : Append(Entries, entry)[r] = Entries[r]
  BY <1>4, <1>5, AppendProperties
<1>8. ASSUME NEW r \in 1..(Len(journal) + 1)
      PROVE  Entries'[r] = Append(Entries, entry)[r]
  <2>1. CASE r = Len(journal) + 1
    <3>1. r \in 1..Len(journal') /\ Entries'[r] = Entry(added)
      BY <1>1, <1>2, <1>6, <2>1
    <3>2. QED
      BY <1>3, <1>7, <2>1, <3>1
  <2>2. CASE r \in 1..Len(journal)
    <3>1. r \in 1..Len(journal') /\ Entries'[r] = Entry(journal[r])
      BY <1>1, <1>2, <1>6, <2>2
    <3>2. QED
      BY <1>5, <1>7, <2>2, <3>1
  <2>3. r = Len(journal) + 1 \/ r \in 1..Len(journal)
    BY <1>1
  <2>4. QED
    BY <2>1, <2>2, <2>3
<1>9. Entries' = Append(Entries, entry)
  BY <1>2, <1>6, <1>7, <1>8, SeqEqual
<1>10. Log!Enter(added.op)
  BY <1>9 DEF Log!Enter, entry
<1>11. QED
  BY <1>3, <1>10 DEF Log!Next

\* What an attempt writes: a new row, a status, or that a row was performed.
LEMMA AttemptLogged ==
    ASSUME Typed, Typed', Guarded', NEW w \in Whose, Attempt(w)
    PROVE  [Log!Next]_Entries
<1>1. UNCHANGED journal => UNCHANGED Entries
  BY DEF Entries
<1>2. /\ attempts[w] \in AttemptRecord /\ AttemptShape(attempts[w], Len(journal))
      /\ journal \in Seq(JournalRow) /\ Len(journal) \in Nat /\ session.id \in Nat
  BY DEF Typed, JournalTypeOK, Shapes, SessionRow
<1>3. ASSUME Record(w)
      PROVE  [Log!Next]_Entries
  <2> DEFINE key == <<attempts[w].id, attempts[w].field>>
             added == [key |-> key, gen |-> session.gen, op |-> Op(w), kind |-> Kind(w),
                       status |-> "pending", on |-> 0, done |-> 0]
  <2>1. attempts[w].job = "mutate"
    BY <1>3 DEF Record, At
  <2>2. ASSUME journal' = Append(journal, added)
        PROVE  [Log!Next]_Entries
    <3>1. session.gen \in Nat /\ "pending" \in Statuses
      BY DEF Typed, JournalTypeOK, SessionRow, Statuses
    <3>2. key \in Nat \X Nat /\ Op(w) \in Ops /\ Kind(w) \in Kinds
      BY <1>2, <2>1, OpTyped
    <3>3. added \in JournalRow /\ added.status = "pending" /\ added.done = 0
      BY <3>1, <3>2 DEF JournalRow
    <3> HIDE DEF added
    <3>4. QED
      BY <2>2, <3>3, AddedLogged
  <2>3. ASSUME NEW row \in RowsOf(key), SetStatus(row, "pending", 0)
        PROVE  [Log!Next]_Entries
    <3>1. row \in 1..Len(journal)
      BY <1>2, LenProperties DEF RowsOf
    <3>2. QED
      BY <2>3, <3>1, StatusLogged DEF Statuses
  <2>4. QED
    BY <1>1, <1>3, <2>2, <2>3 DEF Record
<1>4. ASSUME attempts[w].job # "none", attempts[w].pc \in {"reconcile", "settle", "claim"},
             NEW status \in Statuses, NEW on \in Nat, SetStatus(attempts[w].row, status, on)
      PROVE  [Log!Next]_Entries
  <2>1. attempts[w].row \in 1..Len(journal)
    <3>1. attempts[w].pc = "claim" => attempts[w].job = "replay"
      BY <1>2, <1>4 DEF AttemptShape, AttemptRecord
    <3>2. QED
      BY <1>4, <3>1, RowInHand
  <2>2. QED
    BY <1>4, <2>1, StatusLogged
<1>5. ASSUME Reconcile(w)
      PROVE  [Log!Next]_Entries
  <2>1. attempts[w].job # "none" /\ attempts[w].pc = "reconcile"
    BY <1>5 DEF Reconcile, At
  <2>2. UNCHANGED journal \/ SetStatus(attempts[w].row, "applied", 0)
    BY <1>5 DEF Reconcile
  <2>3. QED
    BY <1>1, <1>4, <2>1, <2>2 DEF Statuses
<1>6. ASSUME NEW outcome \in {"done", "refused", "uncertain"}, NEW lands \in BOOLEAN,
             Execute(w, outcome, lands)
      PROVE  [Log!Next]_Entries
  BY <1>1, <1>6, ExecutedRow, PerformedLogged
<1>7. ASSUME NEW stored \in BOOLEAN, Settle(w, stored)
      PROVE  [Log!Next]_Entries
  <2>1. attempts[w].job # "none" /\ attempts[w].pc = "settle"
    BY <1>7 DEF Settle, At
  <2>2. UNCHANGED journal \/ SetStatus(attempts[w].row, Settlement(attempts[w].outcome), 0)
    BY <1>7 DEF Settle
  <2>3. Settlement(attempts[w].outcome) \in Statuses
    BY DEF Settlement, Statuses
  <2>4. QED
    BY <1>1, <1>4, <2>1, <2>2, <2>3
<1>8. ASSUME Claim(w)
      PROVE  [Log!Next]_Entries
  <2>1. attempts[w].job # "none" /\ attempts[w].pc = "claim"
    BY <1>8 DEF Claim, At
  <2>2. UNCHANGED journal \/ SetStatus(attempts[w].row, "pending", session.id)
    BY <1>8 DEF Claim
  <2>3. QED
    BY <1>1, <1>2, <1>4, <2>1, <2>2 DEF Statuses
<1>9. ASSUME NEW stored \in BOOLEAN, SettleReplay(w, stored)
      PROVE  [Log!Next]_Entries
  <2>1. attempts[w].job # "none" /\ attempts[w].pc = "settle" /\ attempts[w].on \in Nat
    BY <1>2, <1>9 DEF SettleReplay, At, AttemptRecord
  <2>2. UNCHANGED journal \/ \E status \in Statuses : SetStatus(attempts[w].row, status, attempts[w].on)
    BY <1>9 DEF SettleReplay, Statuses
  <2>3. QED
    BY <1>1, <1>4, <2>1, <2>2
<1>10. ASSUME NEW inFlight \in BOOLEAN, Timeout(w, inFlight)
       PROVE  [Log!Next]_Entries
  BY <1>1, <1>10 DEF Timeout
<1>11. QED
  BY <1>3, <1>5, <1>6, <1>7, <1>8, <1>9, <1>10 DEF Attempt

\* The workflow writes nothing the log knows of: an interrupted replay is
\* undone on rows that had not failed.
LEMMA WorkflowLogged ==
    ASSUME Typed, Typed', Workflow
    PROVE  UNCHANGED Entries
<1>1. UNCHANGED journal => UNCHANGED Entries
  BY DEF Entries
<1>2. CASE ListBrowserMutationsForReplay
  <2>1. /\ journal \in Seq(JournalRow) /\ journal' \in Seq(JournalRow)
        /\ Len(journal') = Len(journal) /\ DOMAIN journal = 1..Len(journal)
    BY <1>2, RowsListed, LenProperties DEF Typed, JournalTypeOK
  <2>2. ASSUME NEW r \in 1..Len(journal)
        PROVE  Entry(journal'[r]) = Entry(journal[r])
    <3>1. journal'[r] = Recovered(journal[r]) /\ journal[r] \in JournalRow
      BY <1>2, <2>1, ElementOfSeq DEF ListBrowserMutationsForReplay
    <3>2. CASE Recovered(journal[r]) = journal[r]
      BY <3>1, <3>2
    <3>3. CASE /\ journal[r].status = "pending"
               /\ Recovered(journal[r]) = [journal[r] EXCEPT !.status = "applied", !.on = 0]
      <4>1. /\ journal'[r].op = journal[r].op /\ journal'[r].done = journal[r].done
            /\ journal'[r].status # "failed" /\ journal[r].status # "failed"
        BY <3>1, <3>3 DEF JournalRow
      <4>2. QED
        BY <4>1 DEF Entry
    <3>4. QED
      BY <3>2, <3>3 DEF Recovered
  <2>3. QED
    BY <2>1, <2>2, EntriesKept
<1>3. ASSUME ~ListBrowserMutationsForReplay
      PROVE  UNCHANGED journal
  BY <1>3 DEF Workflow, BeginRun, OpenWebpage, ReplayNext, CompleteBrowserReplay, StartCall, Leave,
     CancelRun, CloseBrowser, Report
<1>4. QED
  BY <1>1, <1>2, <1>3

\* Every step of the journal is a step of the log, or none.
LEMMA StepLogged ==
    ASSUME Typed, Guarded, [Next]_vars
    PROVE  [Log!Next]_Entries
<1>1. Typed' /\ Guarded'
  BY StepTyped, StepGuarded
<1>2. UNCHANGED journal => UNCHANGED Entries
  BY DEF Entries
<1>3. ASSUME NEW row \in 1..Len(journal),
             \/ \E status \in Statuses, on \in Nat : SetStatus(row, status, on)
             \/ \E op : Performed(row, op)
      PROVE  [Log!Next]_Entries
  BY <1>1, <1>3, StatusLogged, PerformedLogged
<1>4. ASSUME NEW w \in Whose, Attempt(w)
      PROVE  [Log!Next]_Entries
  BY <1>1, <1>4, AttemptLogged
<1>5. CASE Workflow
  BY <1>1, <1>5, WorkflowLogged
<1>6. CASE LandLate
  <2>1. PICK late \in flying : IF late.replayed THEN Replayed(late.op) ELSE Performed(late.row, late.op)
    BY <1>6 DEF LandLate
  <2>2. late.row \in 1..Len(journal)
    BY DEF Typed, Shapes
  <2>3. QED
    BY <1>2, <1>3, <2>1, <2>2 DEF Replayed
<1>7. CASE ReportInVain \/ Expire \/ UNCHANGED vars
  BY <1>2, <1>7 DEF ReportInVain, Expire, vars
<1>8. QED
  BY <1>4, <1>5, <1>6, <1>7 DEF Next

\* The journal implements the log of MutationLog: whatever attempts are lost,
\* retried, left behind or share a key, an action recorded in it happens at most
\* once on its row, and only what did not happen is called failed and retried.
THEOREM JournalImplementsLog == Spec => KeepsTheLog
<1>1. Init => Log!Init
  <2>1. SUFFICES ASSUME Init
                 PROVE  Entries = <<>>
    BY DEF Log!Init
  <2>2. journal = <<>> /\ journal \in Seq(JournalRow) /\ Len(journal) = 0
    BY <2>1, EmptySeq DEF Init
  <2>3. Entries \in Seq(LogEntry) /\ Len(Entries) = 0
    BY <2>2, EntriesOfRows, EntriesNowAndNext
  <2>4. QED
    BY <2>3, EmptySeq
<1>2. Typed /\ Guarded /\ [Next]_vars => [Log!Next]_Entries
  BY StepLogged
<1>3. QED
  BY <1>1, <1>2, TypingInvariant, GuardInvariant, PTL DEF Spec, KeepsTheLog, Log!Spec

=============================================================================
