# TLA+ models of iris-worker

iris-worker is a Temporal worker that fills in and submits job applications with
a remote browser. This directory holds TLA+ models of its concurrent core, the
TLC configurations that check them, and TLAPS proofs about them.

## The system

| Component | State it keeps | Operations | Interacts with |
|---|---|---|---|
| Browser pool (`workflow/browserpool`) | FIFO queue, key set, active items, active users, processed user actions, deferred resumes, semaphore | queue, cancel, settled signals; child completions; dispatch; Continue-As-New | starts application workflows; signalled by the API, by initiation and by its children |
| Job application (`workflow/jobapplication`) | run-local: browser id, cancel context, timers, QA map; in the database: application status | run, pause, cancel, time out, replay, submit | browser activities, user action workflow, pool (settled signal) |
| Handle user action (`workflow/handleuseraction`) | user action row, checkpoint | block, create, notify, close the browser, commit | API (answer, resume), session store |
| Submit application (`workflow/submitapplication`) | submit click attempted, observations | find a target, click once, classify the outcome | browser activities |
| Browser activities (`activity/browser`) | mutation journal rows per browser and generation | mutate, retry, reconcile, replay | browser store, Kernel or Rod client |
| Browser store (`activity/sqldb/browser_*`) | sessions, leases, journal, generations, profiles | compare-and-set updates in transactions | activities and clients |
| Kernel client (`browser/kernel`) | in each worker process a mutex per application; remote browsers, session rows, profile leases | start, close, operations | store, Kernel API |
| Rod client (`browser/rod`) | session objects with a Chromium process, the tagged elements of the tab | start, close, health check and relaunch, operations | store, Chromium |
| Initiate application (`workflow/initiateapplication`) | application row | scrape, gate, extract, queue | pool |
| Cover letter and autofill (`workflow/coverletter`, `workflow/autofill`) | the website cache they share | search, rank, scrape, write | web and LLM activities |
| Job discovery (`workflow/jobdiscovery`) | none | search, clean, judge, extract, filter | web and LLM activities |
| Resume and issue workflows | rows of their own | linear LLM and database sequences | activities |
| Activities for web, LLM, events, captcha, S3 | none | I/O | outside |
| Shared browser factory (`browserfactory`) | none in use: nothing imports it | | |

The hard behaviours are: messages reordered and repeated between the pool, its
children and the API; children that outlive the pool run that started them;
timeouts that end an execution without running its cleanup; activities retried
after an unknown outcome; a browser rebuilt by replaying a journal; the pause of
an application for its user, who may answer before the pause is complete.

What makes each component correct:

* **Pool.** A slot is held by exactly one active application and returned once;
  one active application per user; duplicates refused exactly while the
  application is queued or active; a resume starts once and is not lost; no
  eligible application waits while a slot is free; a rollover loses nothing.
* **Job application.** One terminal status per run, written by the first of
  completion, cancellation and timeout; the pool told in every case.
* **User action.** An answer is usable only once the pause is durable; a resumed
  run consumes each answer once.
* **Submission.** The submit workflow clicks once each time the run asks for it, and
  again only after a refusal it has seen; what the planner clicks beside it is
  bounded by its attempts; a submission is believed only on proof.
* **Mutation journal.** A mutation is performed at most once for its call unless
  it is known not to have happened; a row is applied, and a call succeeds, only if its
  action was performed or its effect was found on the page; a replay repeats applied mutations in order,
  once per browser, and never the submission.
* **Sessions and leases.** One session per browser id and one lease holder per
  profile; a close releases only what its own start acquired.
* **Kernel client.** Two applications of a user never write to their profile at
  once; a close is final; no error path forgets a browser that costs money.
* **Rod client.** No Chromium process outlives its close; the row names the
  incarnation in use; an index given by a model reaches only an element that was
  tagged in what the tab now in view has loaded, unless the load itself failed.
* **Letters and answers.** Written from pages of one search, in its rank order,
  whoever scraped them; a result has the required form.
* **Job discovery.** Every job returned has a title and the address and date of one
  hit that the decision model approved, and no posting is returned twice.

## Modules

| Module | Contents |
|---|---|
| `BrowserPool` | the pool workflow as an open system, its properties, and the mutants |
| `ApplicationScheduler` | what the pool promises, as an abstract specification |
| `PoolSystem` | the pool closed with its application workflows and the users |
| `MCPoolResumes` | small constants for `BrowserPool` |
| `MCSystemSlots`, `MCSystemResumes` | the same for `PoolSystem` |
| `BrowserPoolProofs` | the inductive invariant, the safety theorems, and those about dispatch, rollover and order |
| `BrowserPoolRefinement` | the pool implements `ApplicationScheduler`; a resume is held once |
| `PoolSystemProofs` | the pool with its children: nothing starts twice, when runs are serial |
| `MutationJournal` | the journal of browser mutations of one application: runs, attempts, replay, the provider's browser |
| `MutationLog` | what the journal promises of each recorded action, as an abstract specification |
| `MCJournal` | the calls and activity IDs of its instances |
| `MutationJournalProofs` | its typing, at most once per row and per browser, the refinement of `MutationLog`, that the journal tells the truth and keeps its order, and that a replay restores the page |
| `KernelBrowser` | the Kernel client, its session rows and the profile lease, call by call |
| `RodBrowser` | the Rod client: session objects, relaunches, tagged elements |
| `ExclusiveWriter` | what the lease promises, as an abstract specification |
| `BrowserClient`, `MCBrowserClient` | the client of a worker, which is one of the two; its constants |
| `RodBrowserProofs` | the inductive invariant of the Rod client |
| `BrowserClientProofs` | that of the Kernel client, all safety theorems of the client, and the refinement of `ExclusiveWriter` |
| `ApplicationRun` | an application from initiation to outcome: four workflows, their rows and the user |
| `SubmitVerdict` | how a submit click is judged, over every combination of evidence |
| `ApplicationRunProofs` | the inductive invariant of `ApplicationRun` and its safety theorems |
| `ContentRequests` | cover letters and autofilled answers beside one website cache |
| `JobUrls`, `JobDiscovery` | the rules on posting addresses and dates; the discovery workflow |
| `Selection` | the loops that keep some elements of a slice in their order |
| `ContentWorkflows`, `MCContentWorkflows` | the two together; their constants |
| `ContentWorkflowsProofs` | what a selection returns, and the safety theorems of both |

### BrowserPool

An `Items` element is a queue item (one `ApplicationWorkflowId`); `AppOf`,
`UserOf` and `ResumeOf` are its fields. Variables carry the names of the Go
variables, shortened: `queue` is the linked list of `queue.go`, `queued` is
`queuedApplications`, `active` is `activeApplications`, `processed` is
`processedUserActions`, `deferred` is `deferredRequeues`, `permits` is what the
semaphore has left. The four channels are sequences. `executing` counts the
coroutines of the current run that wait for a child.

Each handler is an operator (`AcceptApplication`, `HandleCancellation`,
`Settle`), used both by the cases of `Select` and by the drains, as in the code.
The position in the loop is `pc`. Between two waits the loop runs inside one
Temporal workflow task, where nothing else is applied, so the environment's
actions are enabled only at `select`; the loop is still cut into steps, so that
an invariant that breaks in the middle of a task is seen. `Select` takes the
first ready channel in the order the cases are added, which is what the SDK's
selector does. Each of its passes is followed by a pass through the dispatch
loop. The timer case is in `SelectTimer` and may fire at any time; the history
limits are in `BeginRollover`.

The environment is arbitrary: settled and cancel signals for any application at
any time, queue signals for any item, and children that return whenever they
like. What is proved of `Spec` therefore does not depend on the API, the
database or the children.

### PoolSystem

Adds one variable `exec` per item, the execution of its application workflow.
A run is started by the pool (the command, then the recorded start), may notify
its user of actions (after which their resumes may arrive at any moment), sends
the settled signal as the last thing it does, closes, and is then reported by
the coroutine that waited for it, if that coroutine's pool run is still there.
A pause is the end of the run that notified its user (`NotifyUser`, then
`FinishRun`); a pause that fails after the notification is a failed tool call to
the planner, the run goes on and may notify its user of another action.
`TimeOutRun` is the server's execution timeout, after which nothing of the run
executes. `Live` is the set of executions that have not reached their settlement.

### MutationJournal

One application, with everything that touches its browser. `journal` holds the
rows of `browser_mutation_changelog` in their order of creation, `session` the
row of `browser_session`, `alive` and `page` the provider's browser and what has
happened on it since it was created (`Start` marks a load of the starting URL),
`run` the application workflow as far as its browser goes, `todo` the rows it has
still to replay. `attempts` is the activity attempt the run waits for (`own`) and
one that a cancelled run left behind (`left`); `flying` is what an attempt asked
of the browser before it was lost, and what may therefore still happen.

| Code | Actions |
|---|---|
| `BeginBrowserReplayGeneration`, `OpenWebpage` / `StartBrowser` | `BeginRun`, `OpenWebpage` (`Reconnect` or `Create`) |
| `openApplicationPage`, `replayBrowserMutations` | `ListBrowserMutationsForReplay`, `ReplayNext`, `CompleteBrowserReplay` |
| `ReplayBrowserMutation` | `Claim`, `Execute`, `SettleReplay` |
| the agent's tool calls | `StartCall`, `Report`, `GiveUp` |
| `mutate`, `TypeMultiple` | `Record`, `Execute`, `Settle`, `Reconcile`, and `FieldOver` between two fields |
| Temporal: lost worker, timeout, retry | `Timeout`, `Retried` |
| cancellation, deferred close | `CancelRun`, `ReportInVain`, `Leave`, `CloseBrowser` |
| the provider | `LandLate`, `Expire` |

A step is cut wherever the code gives control away: a database transaction and a
browser call are a step each, so an attempt can be lost, and another one act,
between any two. A call is the sequence of its fields' kinds: an `input` can be
inspected by a reconciliation, a `click` cannot, a `secret` is not replayable and
cannot be inspected either, a `submit` is not recorded at all. Scrolling, navigation and
uploads take the same path as one of these. A browser operation is done, refused
(`MutationNotExecutedError`) or uncertain, and if uncertain may have happened.
The store may fail to take a settlement. Resolving a target on the page, and the
decisions that verify it or the final page, may fail at will (`Claim` fails,
`Leave`). `Reconcile` asks the page, as the code does: it accepts a field that shows
the call's text, or a tab that shows its address, whoever put it there, be it the lost
attempt, an earlier call or the page itself, so where the action was not performed the
answer is free. `Reconnect` may reload the page: Kernel's does, Rod's leaves the page as
it is. Whether a run starts a new generation is up to the sender of its queue
signal, so it is free. A timed-out attempt writes nothing more to the store, whose
calls carry its expired context. Checkpoints are left out: nothing outside the
tests sets a pending one, so no replay ever starts after one.

`evident`, `assumed`, `submits` and the rows' `done` are history: the actions that
were performed or whose effect was found on the page, those of them that were only
found, and how often each was done. The key of a row is its activity ID and field;
`RunIds` chooses the IDs, which number the commands of a run. `FreshIds` are runs whose
numbers happen not to meet; `SameIds` are runs whose calls have the same numbers. Temporal
allows both. The properties that hold only of the former are the subject of the
`skipped_action` run; `KeepsTheLog` is checked with the latter, and proved for any.

`MutationLog` knows of a row only its action, how often it was performed and
whether it is called failed. An entry is performed once, is called failed
only if it was not performed, and is not performed while it is. Rows never leave it
or come to stand for another action. Attempts, browsers, replays and generations
are invisible to it.

### KernelBrowser, RodBrowser and BrowserClient

A worker is configured with one provider; the rows of the two are apart. So
`BrowserClient` chooses a provider in its initial state and then takes the steps
of that one.

`KernelBrowser` has the applications of one user, all of them on one Kernel
profile. Each database call and each call of the Kernel API is a step, because a
crash, a deadline or another caller can come between any two. A call runs in a slot of
its application and outlives the workflow that made it: activities do not
heartbeat, so a cancelled workflow leaves its activity to run to its deadline,
and its close meets it (`run` is the workflow's view, `call` what is really in
flight). `Unlocked` is the client's mutex per application, which a start and a
close hold; operations do not take it. It is in the memory of one process, so it
keeps apart only the calls of one worker (`Host` names a slot's worker, and `Crash` ends a
worker's calls). A run pins its calls to the worker of its session (`home`), but not its
closes, which any worker may take from the ordinary queue
(`jobapplication/workflow.go:541`, `handleuseraction/workflow.go:133`). `Colocated`
says of a state that no start or close meets a start or close of its application on
another worker. One worker is enough for it; the code does not see to it. The run
has one worker, the theorems have `[]Colocated` as a hypothesis, and what becomes of the
properties without it is below. Those who wait for the mutex are served in the order in
which they came. Time is counted down: what is left to
each browser before Kernel ends it, to the lease, to each call, and `Tick` cannot
pass a call whose deadline is due. Opening the live view does not extend the idle time. What
is assumed: a failed database call has had no effect, a failed Kernel call may
have had one. `lost` is history: a browser whose only reference went with a
crash or a lost answer, which nobody can close any more.

| Code | Actions |
|---|---|
| `StartBrowser` | `Connect`, `ClearExpired`, `AcquireProfile`, `CreateBrowser`, `SaveSession`, their failures and the deferred cleanup `DeleteUnsaved`, `ScrubRow`, `ReleaseUnused`; it ends with a navigation, which is an operation |
| every operation | `LoadSession`, `RenewLease`, `Execute` (`sessionID`, `execute`) |
| `CloseBrowser` | `DeleteBrowser`, `ClearClosed`, `ReleaseProfile`, `CloseFails` |
| Kernel, the clock, the process | `Tick`, `Crash` |

`Save` refuses a row whose generation has moved on. The model keeps no generations
here, so `SaveFails` may happen at any time, as a database error may.

`WriterHoldsLease` is the reason that the lease works at all: a recorded, live browser
has a lease at least as long as its own idle time. `OneWriterAtATime` is the
refinement: the set of applications whose recorded browser is alive implements
`ExclusiveWriter`, which has one writer, or none, and none between two.

`RodBrowser` follows one application, since applications share only the client's
mutex. A start and a close hold that mutex from end to end and are one step. An
operation fetches its object under it, gives it up, checks the browser's health
under the object's own mutex and acts later, and so is three steps; a close or a
crash of Chromium between them is where an operation could bring back a browser
that nobody will close, or click an element of another tab. A tab is told apart
by what the client last loaded in it. A document that replaces itself in the same
tab is not told apart, because its tagged elements are dead handles there and the
click fails. `Navigate` may fail after the page has gone to its address
(`rod/operations.go:25`): the client then keeps the elements it had tagged before
(`adrift`), which `TagsOfThisTab` exempts until the next load or screenshot of that tab.

### ApplicationRun and SubmitVerdict

`ApplicationRun` is everything about an application but the page and the queue.
`row` is the status with its last writer, `session` the browser's row, `action`
the user actions, `pool` the runs that wait, `run` the current
`JobApplicationWorkflow`, `child` the child it waits for. A step is one activity
or one decision.

| Code | Actions |
|---|---|
| `InitiateApplicationWorkflow` | `ReadPosting`, `QueueApplication`, `MarkQueued`, `MarkFailed` |
| `JobApplicationWorkflow`, up to the page | `LoadApplication`, `BeginGeneration`, `MarkProcessing`, `CreateSession`, `LoadInputs`, `OpenPage`, `FinishSetup` |
| its loop | `Observe`, `DecideSubmit`, `PlanAndAct` |
| `SubmitApplicationWorkflow` | `ClickSubmit`, `Verify`, `SubmitReturns` |
| `HandleUserActionWorkflow` | `PauseStep` through its seven steps, `PauseFails`, `AbandonPause`, `PauseReturns` |
| the deferred close, the status, the settlement | `CloseBrowser`, `Report`, `Settle` |
| the pool, the API, the user | `StartRun`, `Cancel`, `ReceiveCancel`, `Answer`, `Retry` |
| the soft timer | `TimeOut` |

Activities are retried by Temporal; the model lets one fail for good at the cost
of a fault. Once the run's context is cancelled or its timer has fired, a pending call
of the run fails at once and costs nothing. A child workflow is different: its future
resolves only when the child has closed, and the child learns of the
cancellation some time later, so its steps go on until `AbandonPause`. The
activity it was waiting for is then left to itself; its write may land at any later
moment (`orphans`, `Land`), in whatever run of the application is then under way, because
nothing waits for it. `MaxOrphans` bounds how many are pending at once. What lands may
be a close of the browser, a deletion of the pending actions, the creation of an
action or a commit; `robbed` remembers that a deletion took an action that was asked for.
Apart from these, from clicks and from opening the page, a failed call has had no effect.
Not modelled: a second user action row created by a repeated `CreateDurable`.

Clicks come from two sides. `ClickSubmit` is the submit workflow's, whose activity has
one attempt. `PressSubmit` is a planner's own click on a control that submits: it bypasses
the journal and has the retry policy of every tool, so that each time it clicks at
least once and at most `ClickAttempts` times; `pressed` counts the times.

`SubmitVerdict` is pure. `Decide` is translated case by case; `Verdicts` applies
it to every combination of two captured requests, visible errors and success
text; where the code asks a model, `Verify` takes either answer, and the submission
does not count as `believed`. For a form that
was refused, the evidence is restricted by `ShownByRejection`: the site shows
its errors or, if it shows none, shows neither a success text nor a successful answer. That
is the assumption on which `BelievedWasAccepted` stands: a site that answers 200
to a refused form, with no error in sight, is believed.

External, and modelled from how this code uses it: the API's cancellation,
answer and retry.

### ContentRequests, JobDiscovery and ContentWorkflows

Letter, edit and autofill requests run side by side and meet in the website
cache. Every scrape of a request is an activity that ends when it likes, so pages
arrive in any order. A model's answer is any answer of the expected form: any
host found as the company's domain, any subset of the results as useful, letters
of a wrong length, answers with an id twice or not at all. `RequestsSound` says
that pages nevertheless keep the rank of one search, and that what is delivered
has its form.

A discovery has three steps, and everything interesting in it is in its operators:
addresses are normalized by source, hits are approved by position in one list
and extracted by position in another, and the final filter checks that there is a title,
the address and duplicates. The language model may return any index, in or out of
range, repeatedly, and any title: titles are its own words (`Titles`), which the code trims
and never compares with the hit. A discovery shares nothing with the other requests, so its
steps are not interleaved with theirs.

The loops of this code that append the elements they keep to a new slice are written
with `Pick` of `Selection`: the set of positions kept, and the element at the k-th of
them. The final filter of a discovery remembers the addresses it has seen; what
it keeps of one address is the first usable element, and `KeptFields` says just that.

## Runs

| Run | Question | Bounds |
|---|---|---|
| `pool_resumes` | the pool under arbitrary messages: slots, users, membership, resumes, rollover; it implements `ApplicationScheduler` | 1 application with 2 resumes (one sent twice) and a second application of the user, 2 slots, 1 pending signal, 1 rollover |
| `system_slots` | the executions themselves: one per user, in order, within the capacity, no slot idle; a queued application leaves the queue (liveness) | 4 items of 3 users (one user with 2), 2 slots, execution timeouts, 1 pending signal, 1 rollover |
| `system_resumes` | nothing starts twice; accepted resumes start, settled runs free their slot (liveness) | 1 application, 2 user actions of one run or of two, one resume sent twice, 2 slots, 1 cancellation, execution timeouts, 1 rollover |
| `journal_recovery` | a replay rebuilds the page, once and in order, from rows that tell the truth | 2 runs, 2 calls of 1 field, 2 attempts, 2 browsers, 2 lost attempts, 1 expired browser, 1 failed write, fresh IDs |
| `journal_overlap` | the journal implements `MutationLog` beside a cancelled run | as above, a cancellation instead of the expiry, submit clicks, colliding IDs |
| `journal_fields` | a call that succeeds has typed all its fields | 1 run, 2 calls of up to 2 fields, 3 attempts, 2 lost attempts, 1 failed write |
| `browser_sessions` | both clients: one writer per profile, a close is final, no browser is forgotten, no element of another tab is reached | 1 worker. Kernel: 2 applications with 2 calls each, 2 browsers, idle limit 2, buffer 1, deadline 1. Rod: 2 session objects, 2 operations, 3 ids, 2 tabs |
| `application_run` | clicks bounded and believed only on proof, a pause durable, the row final, every run settles (liveness) | 1 user action, 3 rounds, 2 submit failures (as in the code), 2 attempts of a planner's click, 1 abandoned write at a time, 1 fault, 1 retry by the user |
| `content_workflows` | pages in rank order, results valid; jobs are approved hits, once | 2 requests, 2 searches of 3 results, 2 pages per letter, 2 questions; batches of up to 1, 2 and 1 hits of three sources, 2 extracted jobs |
| `stale_settlement`, `skipped_action`, `submit_retried` | expected violations, below | the smallest instance that shows each |

Two slots (the code has four) with three users reach every relation between
queue and slots: none free, one free, and an eligible entry behind an ineligible
one. One rollover is enough for state to be lost or restored wrongly; what a
second could add is only the same step from a state the first already reaches,
and the proofs cover any number. A pending bound of 1 still allows any order of
signals across the channels. In `system_resumes` the one application is enough for
its resumes to meet, and leaves a slot free, so that nothing but the application's own
runs can hold them up; `system_slots` has the contention. Of the pool's runs,
only the passing `PoolSystem` ones have deadlock checking off: every
application of the instance may be over there, and the pool waits for signals that the
bounds exhaust.

In the journal's runs, two browsers and two runs are what a replay takes: one to
fill the journal and one to restore it. Two lost attempts allow one at
the call and one at its retry or at the replay; two attempts suffice where the
number of retries does not matter, and `journal_fields` has the code's three.
Deadlock checking is off because the instance ends with its last run.

In `browser_sessions`, two applications are what competes for a lease, and two
slots are one call left behind and one that meets it. Kernel's limits are two
minutes of idleness, five of buffer and at most five per attempt; only their
order matters to the properties, and it is kept: a deadline no longer than the
buffer (`KernelAssumption`). A browser or id is used again once nothing names it,
so two or three of them give any number in succession. Rod's two objects are
the one in the session map and one that an operation still holds after a close.
Applications, slots and browsers are symmetric; the run has safety properties only.

`application_run` has one fault. Every activity can be the one that fails, in every
state; a second would matter only where a failure is handled by an activity that
fails too, which the deferred close and the status write are, and both go on
regardless. An interruption makes calls fail for free, so failures are by no means rare.
Three rounds let a run submit, be refused, submit again and
still reach its last round (50 in the code). A planner's click has two attempts (three in
the code): one that lands unnoticed and one more. One user action is enough for a pause, an answer and a
resumed run that pauses no more; the proofs cover any number of all of
these. In `content_workflows` a letter may keep two pages (five in the code) of searches
of three, so that the limit cuts, and the extracted jobs are two, so that a
duplicate can arise.

Deadlock checking is off in these last three, because a closed browser may stay
closed for good, an application may be over, and requests end.

Each property has a mutant: a plausible slip in a definition (a key not deleted,
a permit not returned, a channel not drained, the restored permits not
reacquired) that the same run must then reject. They stand in front of the
definitions they distort.

### Fairness

`FairSystemSpec` assumes that the pool's workflow tasks run, that a start
command is carried out, that signals and completions are delivered, and that a
run ends, by itself or by its timeouts (the workflow arms a 30 minute timer and
the server a 35 minute one). Temporal guarantees the first three, and the timers
the last. Nothing is assumed of users: requests, cancellations, answers and
pauses have no fairness. Fairness of the pool's steps includes the rollover
timer, which does fire.

`ApplicationRun` assumes weak fairness of `RunStep` and of `ChildStep`: Temporal
delivers the workflow tasks and retries an activity until it succeeds or its retry
policy is used up. Nothing makes a user act, a
cancellation arrive or the timer fire, and none of it is needed: `RunSettles`
holds because no wait of these workflows is unbounded.

`KernelBrowser`, `RodBrowser` and `ContentWorkflows` have no fairness; their
properties are safety properties. `MutationJournal` has no fairness: every property of it is a safety property.
Attempts that fail too often end a run, which is an outcome, not a wait.

### What the violations show

* `stale_settlement`: a finished run is reported twice, by its signal and by its
  coroutine, and both reports name the application only. If a deferred resume of
  the application starts between them, the second report settles the resumed
  run: its slot and user are freed while it works, and another application of
  the same user starts beside it. `system_slots` shows the serialization that
  does hold, where no application is resumed.
* `skipped_action`: activity IDs start again in every run, the generation does
  not. A call of a resumed run can meet the applied row of an earlier call under
  its own key; it reports success and does nothing.
* `submit_retried`: only the dedicated submit activity is limited to one attempt;
  a click of the planner on a submit control is repeated when its outcome is
  unknown.

### What the code does not promise

The models also contain these behaviours, which bound what the properties say:

* A child closed by its execution timeout after the pool rolled over is never
  settled: it sends no signal, and the coroutine that waited for it is gone. Its
  slot, permit and user stay taken, and a deferred resume of it waits for good. This is `Leaked`, the one way out that
  `QueuedLeaves` and `AcceptedResumeStarts` leave; `SettledRunFreed` says that
  it takes a run without a signal.
* A cancellation forwarded before the child's start is recorded is rejected by
  the server, and the pool does not learn of it.
* The pool keeps one deferred resume per application and marks every resume it takes
  in as processed (`browserpool/workflow.go:230-244`). A pause that fails after the
  notification does not end the run (`handleuseraction/workflow.go:117-149`,
  `jobapplication/llm_flow.go:93-106`), which may notify a second action; if the user answers both,
  one resume is absorbed behind the other and never starts. So `docs/BROWSERCLIENT.md:338`,
  by which a submitted form becomes input of the resumed workflow, holds of the
  application and not of each resume: `AcceptedResumeStarts` says that the held one
  starts, and that an absorbed one leaves its application a start that is still to
  come. `ResumeOnce` and `DeferredBehindActive` are not affected.
* A reconciliation takes a lost action for done when the page shows its effect, which
  an earlier call or a prefill may have left there
  (`activity/browser/activity.go:605-629`). The action was then not performed, or its execution
  is still on its way and lands behind the actions of later rows, although
  `docs/BROWSERCLIENT.md:303` wants the journal to preserve the order of actions.
  `NothingSkipped` and `AppliedWasDone` therefore say "performed, or its
  effect found", and `AppliedInOrder` leaves out what was only found (`assumed`).
* With several workers, the mutex of the Kernel client does not keep a close away
  from a start (`Colocated` fails). A start on one worker has taken the lease and created
  its browser; a close on another finds no saved browser, releases the lease and
  succeeds; the start saves its browser, which now writes without a lease, and a second
  application takes the lease and writes to the profile beside it. In the same way a close succeeds
  and leaves a browser behind, or forgets one that was saved meanwhile. `docs/BROWSERCLIENT.md:286`
  lets Kernel sessions reconnect on another worker, and `:462` promises that leases prevent
  concurrent writers. `WriterHoldsLease`, `CleanClose`, `NoBrowserForgotten` and
  `OneWriterAtATime` are therefore stated of deployments where `Colocated` holds.
* `TypeMultiple` goes on after a refused field; the retry types that field after
  the fields behind it, but under its earlier row. `AppliedInOrder` is therefore
  checked for calls of one field.
* Kernel's reconnect reloads the page (`kernel/client.go:120`), and a replay that continues on
  that browser skips what it replayed before. `RestoredBeforeActing` is therefore checked, and
  proved, where every run closes its browser or the browser expires.
* The activity of a cancelled run and one of the next run can be in the same
  browser at once. `journal_overlap` shows what survives: neither performs a
  row the other has performed.
  `OncePerBrowser` does not survive: if the attempt left behind acts on the
  browser that the next run has just created, before that run lists what it has to
  replay, the replay does the same action again.
* A second close of a Kernel application fails: its lease is released already, and
  `ReleaseBrowserProfileLease` reports that it is not owned. `docs/BROWSERCLIENT.md:212`
  and `:286` call a close idempotent. Nothing is left open by it (`CleanClose`).
* A Rod relaunch records the new browser without `replay_pending`
  (`rod/client.go:221`): what was on the page is neither there nor replayed.
* A Rod navigation whose wait for the load fails has left the page and keeps the elements
  tagged there (`rod/operations.go:25-33`); until the next screenshot or load an index may
  name one of them. `TagsOfThisTab` exempts just that.
* A planner's click on a submit control is outside of what the submit workflow counts, and is retried;
  `SubmitsBounded` has a term for it.
* A Rod submit click without tagged elements tags the page anew
  (`rod/submission.go:48`) and uses an index chosen on an earlier screenshot.
* The user is notified, and the row blocked, before the browser is closed and
  the checkpoint committed. An answer can be there before the pause is durable; the
  pool defers the resume to the run's end. If a step after the block fails, the
  run goes on with the row still `blocked`.
* A cancelled run can leave the row `blocked` with nothing to answer, by the
  abandoned write of its pause. Its abandoned deletion of the pending actions may land in
  a later run and take the action that this run has just asked its user for
  (`handleuseraction/workflow.go:87`): the run is then paused for an answer nobody
  can give (`robbed`, the exception of `PausedIsDurable`). A run that ends `applied`, or paused, does not look
  at a cancellation that came meanwhile. A soft timer that fires while a
  cancelled run closes its browser turns `cancelled` into `failed`.
* The initiation marks an application queued after it has queued it
  (`initiateapplication/workflow.go:107`) and may overwrite whatever its run
  wrote; `SettledRowFinal` speaks of rows whose last writer is the run.
* The answers of a run are listed by iterating a Go map in workflow code
  (`jobapplication/workflow.go:663`). A worker that replays the run between the
  decisions on equivalent questions and their merge lists them in another order, and
  the decisions, which name positions, merge other pairs than they were made on. Not
  modelled yet.
* A run that pauses returns before it saves its answers (`jobapplication/workflow.go:242`),
  and the resumed run starts with none.
* Cancelling an active application leaves its deferred resume in the pool
  (`browserpool/workflow.go:257`), which starts when the cancelled run settles.
* Ashby jobs whose id starts with `application`, and Lever jobs whose id is `apply`,
  lose their last path segment and are dropped without notice. Pages scraped for a
  letter are cached for six months even if some of the scrapes failed.

## Proofs

### The pool

The proofs hold for all finite or infinite sets of items, applications and
users, every `AppOf`, `UserOf`, `ResumeOf`, and any capacity, from
`ConstantsAssumption` alone, which only types the constants.

`PoolInv` is the inductive invariant: `TypeOK`, `SlotAccounting`,
`UsersSerialized`, `MembershipExact`, `DeferredBehindActive`, and finiteness of
the active set. None of the parts is inductive alone: a settlement subtracts one
from the active applications only because an item is filed under its own
application (`MembershipExact`); a dispatch adds one only because no queued
application is active; removing a user at a settlement is right only because no
other of the user's applications is active; a rollover restores the permits only
because permits and active applications added up before. The proofs treat each
handler in a lemma about the core state and lift it to the actions.

`BrowserPoolProofs` also proves that the loop never sleeps over eligible work, that
a rollover leaves the state as it was with all channels empty (from `Drained`,
an invariant of the drain positions, so the restore never runs out of permits),
and that a user's applications start in queue order. `BrowserPoolRefinement`
proves `Spec => Scheduler!Spec`: a queue signal is a `Submit`, `Park`, `Absorb`
or nothing, a cancellation a `Withdraw` or nothing, a dispatch a `Start`, a
settlement a `Release` or nothing; all else is a stutter.

`ResumedOnce` (`ResumeOnce`) uses that refinement: that a user action's resume is in one
place only, and remembered as processed, is preserved by each of the scheduler's
steps and trivially by a stutter, so the pool's own thirteen steps need not be gone
through again.

### The pool with its children

`PoolSystemProofs` is about `SystemSpec`, again from `ConstantsAssumption` alone.
`PoolServesChildren` shows that a step of the composition is a step of the open
pool, so that every theorem of the pool holds here as well. On top of it stand

* `StartInv`: what was started waits nowhere, a resume that was started is
  remembered as processed, and an item that is not a resume has one queue signal,
  which is still to be sent, on its way or taken. It gives `StartedOnce`.
* `RunInv`: a live run has its application's slot, unless that application was
  `Restarted` (two of its items were started), and a settlement on its way is
  that of a run that is over.

Neither `NoConcurrentRunsOfUser` nor `RunsWithinCapacity` holds outright:
`stale_settlement` violates the former, after a run was resumed, and the same schedule
exceeds the capacity of a pool with a single slot. So what is proved is what the code leaves
true. `UsersRunOneAtATime` and `RunsFitCapacity` say
that both hold in every state in which no application has been started a second
time, whatever was cancelled, timed out, reported twice or rolled over.
`ConcurrencyNeedsRestart` says more: of two live runs of one user, one belongs to
an application that was itself started twice, so the applications of other users, and
the user's own that never paused, play no part. `UnresumedRunsAreSerial` is
the case that `system_slots` checks, where an application has one item.

### The journal

`ActedOnce`, that no row is ever performed twice, and `KeepsTheLog` are proved from
`JournalAssumption`, which types the bounds and says what calls are: for any
calls, any activity IDs, colliding or not, and any number of runs, attempts,
browsers, losses, cancellations and failed writes.

`Typed` adds to the types that an attempt's call, field and row exist
(`Shapes`), which every access to the journal rests on. `Guarded` is the
strengthening of `ActedOnce`. A row is performed by whoever has it in hand: an
attempt that is to execute or settle it for its call, or a late execution of an
attempt that is gone. `Guarded` says of each row that there is at most one of these,
that it finds the row unperformed if it may still perform it, and that a failed row
is unperformed and in nobody's hand. The last part is what makes a retry safe,
because `PrepareBrowserMutationRetry` takes only failed rows, and an attempt
marks a row failed only after a refusal. Pending and uncertain rows are never
taken again, so a lost attempt's late execution stays alone. Each action has a
lemma that it keeps `Typed` and one that it keeps `Guarded`; `QuietStep` and
`QuietAttempt` carry those that touch no row.

`JournalImplementsLog` needs nothing more. A step adds a row, sets the status of
rows or performs one, and `Guarded` after the step says that the log allows it: a row
now failed has not been performed (`StatusLogged`), and one now performed had
neither been performed before nor failed (`PerformedLogged`).

`AppliedWasDone` and `NothingSkipped` do not hold for colliding keys, as
`skipped_action` shows. `AppliedRowsWereDone` and `SuccessIsEarned` prove them of
every behaviour in which no attempt ever finds the row of another call under
its key (`KeysUnambiguous`): that is the one thing that has to go wrong.
When does it not? Activity IDs start again with every run and keys are looked up in the
row's generation, so `FreshGenerationsKeepKeysApart` proves that no key is ambiguous
where every run after the first begins a generation of its own (`FreshGeneration`), as an
explicit retry does and the resumption of a paused run does not, and no
cancelled run leaves an attempt behind (`NobodyLeftBehind`). Its invariant
`IdsOfCalls` is that the keys of a generation are those of its run, whose
IDs stand for one call each. Of a resumed run the theorems say only as much as
`KeysUnambiguous` does, which the code does not see to; `journal_recovery` and
`journal_fields` satisfy it, because the numbers of their runs do not meet.

The strengthening is `Truthful`: a row that is applied, *or was replayed somewhere*,
is evident (its action performed, or its effect found), because an interrupted replay is taken
back to `applied`; the page shows, and late replays repeat, only what is evident; an attempt
works on the row of its own action, which is evident if its outcome says so, and has reached every field behind the one it is at, unless it carries an
error. Only `RecordTruthful` needs the keys.

`NothingTwiceOnABrowser` proves `OncePerBrowser` of every behaviour in which no
cancelled run has an attempt that still goes on (`NobodyLeftBehind`); where no run is
cancelled, that is every behaviour (`UncancelledActOnce`). Nothing is assumed of
activity IDs or calls. What is *seen* on a browser is what its page shows
and what is still on its way to it. `Once` says that nothing is seen twice
(`PageOnce`), and why: a run replays while its session's replay is pending and
calls after it (`Stages`); until the replay is complete, every action seen has a row
marked with this browser (`ReplayedHere`), so that a row which `Claim` finds
unmarked is not seen; after it, what is seen of the current call is accounted for
in the row that its next attempt finds (`CallAccounted`), performed or flying, so
that `Guarded` keeps an attempt from performing it again; and earlier calls
are told apart by their numbers and their rows (`RowsApart`, `CallsSoFar`).

`RowsKeepTheirOrder` proves `AppliedInOrder` for calls of one field
(`SingleFields`) and rows whose action was not merely taken for done (`assumed`), where no
key is ambiguous and nobody is left behind. A row counts as
soon as it *may* come to be applied on this browser (`Standing`): it is applied, it
is the current call's, or its replay is being settled. `Ordered` says that
standing rows are in order on the page; that rows follow their calls
(`RowsInOrder`), so that the current call's row is the last one and its action
belongs at the end; that the rows marked for this browser are the first of the
generation until the replay is complete (`MarkedFirst`, `ReplayedSoFar`), so
that behind the row being replayed nothing is seen; and that what is still under way is of
no applied row (`LatesOpen`, `HandPending`): a late action that lands at the end of
the page is of the call's own row, of a row whose replay has failed, which the
run does not go past, or of one that was taken for done.

`ReplayRestoresThePage` proves `RestoredBeforeActing` where every run closes its
browser (`MaxCloseFailures = 0`) and nobody is left behind, with any activity IDs and
calls of any kind; `UncancelledRestore` is the case that `journal_recovery`
checks. Lost answers, timeouts, failed writes and expired browsers remain. `Restoring`
says that rows are marked only for browsers that exist (`Counted`), so that a
new one has none; that a run opens a browser of its own, on which nothing has
happened (`Unopened`), which is where the condition on closing is needed; that the
rows the replay is through with are marked, applied and before those that are
left, of which only the one in hand may be marked (`Listing`); and that the page
since its last load shows just the rows that are marked and applied, or whose
replay was done and is being settled, in their order (`Rebuilding`). The last does not
hold of a replay that is lost, refused or uncertain halfway, and need not: the row
in hand is then marked and not applied (`Spoiled`), no later attempt can claim
it, and the run ends without acting. When nothing is left to be replayed the
row in hand is none, so the page is right (`CompleteRestores`); no other step
lets a run act (`StepRestoring`).

### The browser clients

All safety properties of `browser_sessions` are proved, from `KernelAssumption` (an
idle limit, a deadline no longer than the buffer, a worker for each slot) and `ClientAssumption`
(the absent handle is no object): for any number of applications, calls in
flight, workers, browsers, objects and tabs. Those of the Kernel client are proved of every behaviour
in which `Colocated` always holds, as it does with one worker and wherever closes
reach the worker whose start they may meet; those of the Rod client, which needs its
session's worker anyway, have no such hypothesis. `ClientIsBoth` takes the client apart: whatever the
provider, its steps are steps of one client and stutters of the other, so each
invariant is proved alone.

The Kernel client's `KernelInv` says, besides the types and
`NoBrowserForgotten`:

* `CallsOK`: what each call has established at its step and what nobody can undo behind
  its back. A start that has cleared its row finds it clear until it saves; a browser
  that is being deleted is dead once the row is scrubbed; an operation works on the
  recorded browser or on a dead one; from its renewal on, it is covered by a
  lease that lasts for its remaining time and a whole idle time beyond.
* `RowsOK`: `WriterHoldsLease` and `CleanClose`, for each application.
* `OneLock`: one start or close at a time per application and worker, and so, by `Colocated`,
  per application; the others' steps leave its row alone only because of this.
* `UnsavedIsOwn`: a browser that was created and not saved is named by that call only,
  so deleting it deletes nobody else's.

A deadline no longer than the buffer is what `WriterHoldsLease` stands on: an operation that
renewed the lease may act as late as its deadline, and the browser lives an idle
time from then. `LeaseImplementsExclusion` (`OneWriterAtATime`) follows from it: a
writer is covered, a lease covers one application, and a lease changes hands only by
being released or run out, so there is always a state without a writer between two.

The Rod client's `RodInv` rests on one fact, `OpenIsHandle`: only the object
behind the worker's handle is not closed. A relaunch is refused on a closed object, so
whatever an operation revives is where the next close finds it.

### The application

`ApplicationRunProofs` proves all safety properties of `application_run`, from
`RunAssumption` alone (`MaxAgentIterations` and `MaxSubmitFailures` positive, the
other bounds natural): for any set of user actions, any number of rounds, attempts of a
click, faults, retries and abandoned writes. The inductive invariant `IInv` is the conjunction of

* `RunTypeOK`;
* `ChildInStep`: a child exists exactly while its parent waits for it, in a
  step of its own kind, so that a result that arrives belongs to this wait;
* `ClicksCounted`: beside what the planner's own clicks allow (`Allowed`), there is at most
  one click more than failures counted, and none more while another click of the submit
  workflow may still come (`SubmitsBounded` follows, as the failures stay below their maximum);
* `PauseProgress`: what each step of a pause has made durable so far, whatever abandoned write
  lands in between: it finds a browser closed or none of its own, creates only actions
  that nobody else uses, and takes an action away only by a deletion, which `robbed`
  remembers;
* `RowReported`: what the row says from the report on;
* `PausedIsDurable` and `BelievedWasAccepted` themselves.

There is one lemma for each action. Those about the clicks, the outcome and the other fields of
`run` rest on a few lemmas on the operators that move a run (`Goto`,
`End`). `BelievedWasAccepted` needs that the evidence of a refused form is never judged
"submitted", which is the lemma `RefusalSeen` about `Decide`. The
theorems are `RunInvariant`, `RunTypes`, `ClicksBounded`, `BelievedSubmissions`,
`PausesAreDurable` and `SettledRows`.

### The content workflows

Both safety properties of `content_workflows` are proved, from `ContentAssumption` and
`DiscoveryAssumption`, which only type the constants: for any number of requests,
any searches, hosts, questions and batches, and any answer of the models.

Their difficulty is in what the operators return. An induction theorem that takes
a predicate as its parameter cannot be used here; that a set of numbers has a
first one (`FirstOf`, from the well-founded order of the naturals) can, and does the
same. `NthIsThere` finds the k-th position of a set as the first at which k
positions are counted; `NthIncreases` says that positions are found in order;
`PickEmbeds` that what is picked from a sequence embeds in it, which means that an
increasing map of positions leads back. Embeddings compose (`EmbedsCompose`), so
that a page or a job is followed back through every list it was moved to. `Concat` is a
recursive function: `ConcatUnfolds` shows that it is defined up to every length, and
`ConcatIsSequence` what it returns.

`ContentInv` says of each request (`Sound`) that the pages it has are ranked for its
domain, or are the user's in their order (`PagesSound`); that the results it
searches or scrapes are already ranked, and a slot holds its own result or nothing
(`FoundSound`, the part that makes the order of arrival irrelevant); that a letter
has no pages until its domain is chosen (`WhereSound`); and of the cache that what it
keeps for a domain is ranked for that domain, whichever request saved it (`CacheSound`).
`PartIsRanked` and `OwnPagesFirst` are the two lemmas about ranking: dropping pages keeps a
rank, and the company's open pages before the others make one.

`DiscoveryInv` adds to the types that every hit the language model is shown was
approved (`ShownAreApproved`), and that nothing is returned before the end.
`KeptFieldsAreUsable` does the rest: of the fields that are kept, no two are of one posting.

### What is only model-checked

The liveness properties (`QueuedLeaves`, `AcceptedResumeStarts`,
`SettledRunFreed`, `RunSettles`): liveness under fairness and `ENABLED` are out of
the prover's reach. Every safety property of a passing run is stated by a theorem.
No module has a recursive operator.

## Not modelled, and the plan

Left out of the pool's models: logging, payload fields that no decision reads
(URL, resume id, replay generation, cancellation reason), the order in which
maps are serialized, the queue's mutex (one coroutine uses the queue), failures
of the signal transport other than a closed or missing target.

Left out of `ApplicationRun`: the deterministic fill of fields and the captcha
inside an observation, which change the page and no state of the run; the field
formatter; the text of questions and answers, and with it the merge of
equivalent questions (`jobapplication/helper.go`); events published to the user;
the in-place wait of workflow histories older than the durable pause, which no
new run reaches; applications that are only recorded.

Left out of the browser clients: what an operation does on a page (the
accessibility tree, captured requests, rendered text), the vault's contents, the
creation of profiles and vaults beyond that it may fail, the live view.

Not modelled at all, and why:

* **Captcha, LLM, realtime event and S3 activities**: wrappers around a third
  party. Their answers are choices in the modules that use them.
* **Resume and issue workflows**: a straight line of calls and one update each,
  with no state that another actor reads.
* **Web scraping**: the extraction of text; what a scrape can return is in
  `ContentRequests` and `JobDiscovery`.
* **The shared browser factory** (`browserfactory`): superseded by `browser` and
  imported by no package of the worker.
* **`applyDeterministicDates`** (`jobdiscovery`): called by tests only.

Left to do: the merge of equivalent questions against a reference definition.
