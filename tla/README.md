# Align: a TLA+ verification project

Align is a web application (Next.js over Postgres) in which the members of a
leadership team each answer a strategy questionnaire alone, lock their answers,
get a one-page plan (OPSP) derived from them, and then build one official plan
together under a facilitator. Its promises are about *independence* (a baseline
that is frozen before anybody sees anybody else's), *privacy* (the note of
question 14) and *no lost text*. They are kept by several processes without a
common lock: browser tabs with timers and retries, serverless request handlers
over a database at READ COMMITTED, and a language model that may take a minute
or not answer.

Paths below are relative to the repository (`lib/...`, `app/...`).

## 1. Inventory

| Part | State | Operations | Interacts by | What is hard | What makes it correct |
|---|---|---|---|---|---|
| Answers and the lock (`lib/answers`, `lib/lock`, `lib/submit`, `lib/unlock`, `lib/interactions`) | `answers`, `respondents.submitted_at/unlocked_by`, `answer_snapshots`, `opsp_drafts` version 1, `ai_interactions` | PATCH answers, POST submit, admin unlock, log a nudge | shared tables, row locks | check-then-write at READ COMMITTED, rollbacks, resubmission after an unlock | a locked respondent has an unchanging baseline; plan and snapshot agree; the private note is never torn from its question |
| Cohort status and admission (`lib/cohort-lifecycle`, `lib/auth`, `lib/session`) | `cohorts.status`, signed cookies | open, close, create, delete a cohort; gates of every route | read at the start of each request | status read, then used; lock-out of the facilitator | only a locked facilitator administers; delete leaves nothing behind |
| Autosave and mirror (`lib/use-autosave`, `lib/local-mirror`, `lib/sync-conflict`) | the hook's refs and timers, `localStorage` | type, debounce, send, retry, flush, drain, keepalive | PATCH answers; online/offline and page events | stale closures, unmounted loops, late writes, the lock arriving mid-save | no lost wake-up, no unearned "Saved", a refused text is not lost |
| Official plan (`lib/official-opsp`, `lib/official-source-cards`, `lib/synthesis*`) | the official rows of `opsp_drafts` | edit, attach/detach a card, synthesise, accept, discard, decide, snapshot | shared rows, model calls between two transactions | lost updates, duplicate versions, results stored on a cell that changed | only cleared, offered statements are published; history is append-only |
| Individual plan (`lib/opsp`, `lib/opsp-draft`, `lib/opsp-edit`, `lib/opsp-state`, `lib/opsp-analysis`) | the individual rows of `opsp_drafts` | mapped from the answers by submit, edited as new versions, read by a model for the facilitator | submit, unlock, gateway | version 1 again after an unlock, edits that overlap, a background job over an older rendering | the rows are a history; ink is earned; an edit is lost only to one it overlaps |
| Single-row plan editor (`app/opsp/OpspEditView`, `editors/*`, `lib/opsp-plan-db`, `lib/opsp-seed`) | one row per cell, the editor's cells and one debounce timer | edit, copy, select, blur, PATCH a cell, seed | gateway (ideas) | one timer for all cells, stale content, late PATCHes | a write changes its cell only, nothing shown is silently unsent but what is named |
| AI gateway (`lib/ai-gateway`, `lib/budget`, `lib/circuit`, `lib/provider`, `lib/output-guard`) | `ai_budget`, circuit snapshot and its per-process cache, latency window | serve a request at level L0, L1 or L2; count, trip, probe, pin | coach, analysis, synthesis and ideate call it | stale flags, concurrent calls at the limit, caches per process, timeouts and retries, a call that throws | every call ends; the caps are passed by no more than the calls under way, and the spend stands still after the halt |
| Coach on the question screen (`QuestionShell`, `lib/coach-*`, `lib/interactions`) | nudges shown, card, text last judged, retired set of the module, interaction rows | Continue, nudge, revise, keep, example, page load | autosave, gateway, interactions | Continue racing autosave, counts per mount, requests in any order | it nudges and never gates; at most three nudges a visit; once retired it stays away |
| Comparison analysis (`lib/analyse-endpoint`, `lib/analysis-queue`, `lib/analysis-output-store`) | queue in the process, stored outputs | analyse a question, retry in the background, serve the stored output | gateway | rounds that are degraded themselves, rounds that throw | a queued analysis is completed or given up |
| Resume, claim and gates (`lib/resume`, `lib/invites`, `lib/session`, the pages) | resume codes, attempts, invites, the cookie, the mirror of the browser | claim by code or link, name, ground rules, submit | session cookie, cohort status | check-then-insert limits, a cookie changed under another tab | no words before the ground rules; a bounded rate of codes |
| Boards and attribution (`lib/access-policy`, `lib/attribute-grant`, `lib/contamination`, `lib/comparison`, the board's components) | grants, the page as loaded, the panel, stored outputs | open a board, show and hide names, run an analysis | gateway, answers | a page read once over answers that change, fetches that outlive a click | badge and cards agree; names only when asked for; an audit that counts everybody |
| Question inputs and shapes (`app/q/[id]/*Input`, `lib/to-stored-value`, `lib/answer-shape`, `lib/validators`, the `*IsAnswered`) | the draft of the mounted input | type, pick, toggle, reorder, Continue | autosave, coach | four predicates on one draft, in fifteen files | what passes Continue is stored; what is stored is canonical |
| Algorithms (`lib/divergence`, `lib/ranking`, `lib/roster`, `lib/review`) | none | pure functions | boards, forms | ties, missing answers | agree with a definition stated apart |
| Schema, migrations, seed (`lib/migrate`, `lib/db`, `lib/seed`) | `schema_migrations` | migrate under an advisory lock | — | interrupted and concurrent runs | each migration once, in order |
| Export, print, PDF, pages, forms, fixtures | none of their own | formatting, rendering | routes | — | out of scope |

`PROJECT.json` lists every part with its files, and the hazards at their lines.

## 2. Modules

| Module | Role |
|---|---|
| `AnswerBook` | what the answer routes promise while many requests run: per respondent a sheet, a lock and the frozen copies, and per request what it was admitted to; a write or a frozen copy uses up one admission, which is given only in an open cohort and over an unlocked sheet |
| `AnswerLock` | the routes themselves, one action per statement |
| `AnswerLockProofs` | its theorems |
| `Autosave`, `AutosaveProofs` | one question screen, its hooks, mirror and late writes; theorems |
| `DraftHistory` | what a plan kept as rows promises: rows are only added, every row but the first differs from an earlier one in at most one cell, a labelled row in none |
| `OfficialOpsp`, `OfficialOpspProofs` | the official plan and synthesis; theorems |
| `OpspPlan`, `OpspPlanProofs` | a respondent's own plan: the mapping of the answers, edits, submits, unlocks, and the read by a model; theorems |
| `TokenMeter` | what the budget promises: a call is admitted only below the caps and charged at most once; the bound this gives is proved in `AiGatewayProofs` |
| `AiGateway`, `AiGatewayProofs` | the gateway with its callers, the halt, the circuit as it is used and the background queue; theorems |
| `QuestionScreen`, `QuestionScreenProofs` | one coached question: Continue, card, saves and the coach's rows; theorems |
| `PlanEditor`, `PlanEditorProofs` | the editor tabs of the one-row plan, its timer and its PATCHes; theorems |
| `Entry` | claim, cookie, gates, mirror, cohort status and deletion |
| `Forms` | the fifteen inputs, from a tap to a stored answer |
| `Boards` | dashboard, comparison board, names, analysis panel |
| `PagesProofs` | the theorems of these three |
| `MC...` | the small instance of each |

Definitions named `Mut...` are faulty variants of the definition they stand
before; no specification uses them. Each property of a run has one that breaks
it.

How they compose: `AnswerLock` implements `AnswerBook`; `OfficialOpsp` and
`OpspPlan` both implement `DraftHistory`; `AiGateway` implements `TokenMeter`.
`OpspPlan` takes a submit, which is several steps in `AnswerLock`, as one;
`QuestionScreen` takes a hook as "nothing, unsent, sent", which is `Autosave` in
detail; `Boards` and `OpspPlan` take a model call as its level, which is
`AiGateway`.

### AnswerLock and the code

A request is a record in a *slot*: `pc` says which statement comes next, the
other fields what the handler holds in local variables. `SaveBegin` is
`resolveSession` with the route's 403 and 409 (both from one reading);
`SaveCheck` is `assertAnswersWritable`; `SaveUpsert` takes the row lock and
computes the update of the coach rows; `SaveCommit` makes both visible. The four
steps of a submit are the statements of `performSubmit`; its insert of the
snapshot and of the version-1 draft become visible with the stamp at commit.
`UnlockRead` and `UnlockWrite` are two autocommitted statements. What a
transaction wrote and has not committed lives in the slot, as READ COMMITTED has
it; row locks are the two predicates `AnswerRowLocked` and
`RespondentRowLocked`. Q14's second row (`q14d`) is in the sheet, since it is
written by a second statement of the same transaction. `Abort` rolls back
anywhere. `TicketOf` reads a request as its admission in `AnswerBook`: it has
been let in (`SaveBegin`, `SubmitBegin`), may write or copy (past `SaveCheck`,
`SubmitCheck`), or holds a copy to freeze (past `SubmitRead`). Every operation
of these routes that changes state is an action. Not in the model: the contents
and shape checks of answers, the HTTP status codes, `example_shown`.

### Autosave and the code

Each *visit* of the question mounts a hook: `latest`, `saved`, `target` are
`latestRef`, `lastSavedRef` and what the loop sent, `loop` is the await the loop
is at, `ui` the save slot. A value is an answer that has a storable shape, with
its confidence; `Empty` is a partial one, which `dirty()` never sends. The
navigation with Continue unmounts the hook and leaves its loop running;
`Leave` is a full page load, which ends every loop but not the requests on the
wire (`strays`). `drain` holds the runs of `flushPending`, each with its one
pending entry: every return of the connection starts one (`GoOnline`), while
earlier ones may still wait for their answers. `wasOfflineRef` is `sawOffline`.
`written` is a history variable.

### OfficialOpsp and the code

Every operation is three statements: read the newest row, read the next number,
insert. Synthesis adds a first transaction that reads the cards, and the two
calls of the model (classify, draft), whose verdicts are nondeterministic:
`ModelSilent` is any degraded, unparsable or inconclusive reply. A card is one
attachment; `AnswerOf` gives the answer it copies (respondent and question), and
two cards may copy the same one, since the route asks for nothing else.
`sources` and `provenance` are sets of answers, `Credits(cards)` is
`buildSourceCardProvenance`. A statement stands for the set of cards it was
drafted from. `Wanted` says which cards a run attaches to which cell. Ink and
pencil, the wording and the names of the recorder are abstracted. Requests have
already passed the facilitator's gate and found the cohort open.

### OpspPlan and the code

The rows of one respondent. `CellSpecs` is the table of `lib/opsp`: what feeds
each of the sixteen cells and its default mark; `Mapped` is `mapAnswersToOpsp`,
`Value` the fields of the answers that end up in a cell. A cell keeps the number
of the submit whose answers its sources come from; an edit changes the text, the
blank or the mark and leaves it alone (`applyCellEdit`). `line` and `seen` are
history: the rows a row descends from, and how many there were when its edit
read. An edit is three steps (`EditRead`, `EditNumber`, `EditInsert`), a submit
one: its own races are AnswerLock's. `Ask` is the POST of
`app/api/admin/opsp-analysis`: `Context` is what is rendered for the model,
`Summary` the summary of the cells returned with it, `jobs` the rendering the
background queue re-runs. That no id is in either is so by the shape of a
rendering, whatever the routes do, so no property says it.

### AiGateway and the code

A call is a record of what `callProvider` and its caller hold: the pin and the
three flags of the context, the level, the cost of the reply, `pc`. `Start`
reads the pin (`fetchCohortLive`), `ReadBudget` and `ReadCircuit` are the next
two statements of `buildCoachGatewayContext` and `buildAnalysisGatewayContext`,
and the pipeline then runs on the values read: `Dispatch` is the level, budget
and circuit stages and the request, `Answered`, `RateLimited`, `AskAgain`,
`Failed` and `GuardTrips` are the timeout and guard stages, each with the sample
it leaves in the latency window. `Spend` is the update of `ai_budget` with its
row lock, `Commit` the decision on the counters it returned, the halt and the
commit, `RecordFails` the error `recordRun` swallows. A synthesis uses one
context for two calls (`Draft`); classification alone is a synthesis that stops
after the first. Ideate passes constant flags and no record. At L1 an analysis
is queued; a job is a record per process and scope, each of whose rounds
(`Attempt` to `RoundEnds`) is a call of its own.

`seen`, `recent` and `jobs` live in a process and go with it (`Restart`);
`used`, `breaker` and `cohortPin` are rows. A reply costs a member of `Charges`
in each direction, L3 is the gateway's L2 (`Target`), and a sample is whether it
was slower than the threshold. A reply to a first request is taken as a fast
sample, since the timeout equals the threshold; a retry, a timeout or a failure
may be slow. Left out: the audit row itself, a cohort without a budget row, the
ceiling of calls per respondent (`coachCallsAllowed`) and the circuit's failure
counting, probe and saving. No route calls these last three: in the running
program the circuit is only ever opened by the halt.

### QuestionScreen and the code

`Continue` is `handleContinue` after the two blocking checks: `Pass`, `Nudge`
and `StepAside` are its ways out, in the code's order. `coach` holds the refs of
the mounted screen (`shown`, the card in the slot, the value judged last),
`retired` the module's set: it outlives the screen (`Open` finds it as it is)
and is emptied by a page load (`LoadPage`), which the Back link also is. `over`
is history: how many cards there had been when the last one of a visit was
dismissed (`Dismissed`) since the page was loaded. `Send`, `Handle` and `Lose`
are the requests: a save marks the coach rows (`SaveMarks`), a nudge is logged,
an example marks the newest row. The verdict of the validator is a constant of
the text (`Good` or one of `Texts`); the rules themselves are in `Forms`. The
coach may be served at L3, where it keeps silent.

### PlanEditor and the code

`tab` is the state of the mounted `OpspEditView`: all cells as it shows them, the
active one, the one timer with the cell and the content it was set for, the
focus. `Change` is `handleContentChange`, `Blur` `handleBlurSave`, `Persist`
`persistCell`. A content is the act that made it and the cell it was made for,
which is what tells a write into the wrong cell; `rows` is the state the metrics
editor keeps when another metrics cell is selected. `Load` is a full load of the
page, which ends the tab's timers. `Navigate` is a link of the header and the way
back (`app/opsp/OpspHeader.tsx`): the view is unmounted and nothing clears its
timer, which goes to `orphans` and fires there (`OrphanFires`), its answer shown
to nobody (`Gone`). `page` is the plan as the server rendered it last (`Render`),
which is what a mount shows. `HandlePatch` may answer ok without a write, as the
route does when the database fails. `sent` and `passed` are history: what the
mounted view has loaded or sent, and the cells whose timer another cell's edit
or blur has cleared.

### Entry and the code

`Open` renders what the gates of the pages let pass; `ClaimLink`,
`ResumeCheck`, `ResumeResolve` and `ClaimArrives` are the statements of the
claim route and its answer, which replaces the cookie for every tab. A tab's
page remembers whom it was rendered to (`by`), a save travels under the cookie
of the moment. `Admin` is `requireAdminSession`, for the facilitator's own
session. An answer is known by its author; the one question stands for all.

### Forms and the code

A draft is a record of the fields of the question's input, each over a few
classes of text or the choices of the radio. For each of the fifteen questions
there are `Answered` (the `*IsAnswered` behind Continue), `HasStorable` and
`Storable` (`lib/to-stored-value` and the shape the API takes) and `Valid` (the
validator's verdict), from the files that hold them. The screen starts without a
draft (`Blank`), its confidence unset, whatever is stored; `Saved` is what the row
holds after an autosave: a draft that has a stored shape and differs from what
was saved last replaces answer and confidence, any other leaves both. `found` is
history, the row as the visit found it. A save that is sent arrives.

### Boards and the code

`OpenPage` reads the page of one question, a closed one with a slider: cards and
badge (`ComputeAgreement` and `ClassifyDivergence`, written from
`lib/divergence` as it scans, while `Verdict` states FR-31 apart).
`RequestAttributed` to `ShowNames` are the dialogue, the grant and the fetch of
the names; `SwitchToAnonymised` puts them away. `Rerun` and `Ask` send, and
`Gate` to `Reply` are the statements of POST `analyse`: the admission is asked
for once (`Gate`), before the model (`Generate`), and not again before the
output is stored. `mine` says that the reply still belongs to the panel that is
open.

## 3. What the runs check

Eleven runs pass; `Credits` finds the behaviour it is about. State counts are
distinct states.

| Run | Module | Asks | States |
|---|---|---|---|
| `AnswerLockRaces` | MCAnswerLock | two requests at a time on one sheet: `TypeOK`, `LockedHasBaseline`, `DraftMatchesSnapshot`, `NoteTravelsWithQ14`, `DrainedLockHolds`, `RequestsEnd`, `ImplementsBook` | 53 thousand |
| `Autosave` | MCAutosave | two mounts, two faults, late writes: `UnsavedIsScheduled`, `SavedWasStored`, `LockIsTerminal`, `UnsavedIsSettled` | 446 thousand |
| `Official` | MCOfficialOpsp | two requests on two cells and two cards: `StatementsCleared`, `PublishedWasOffered`, `ClashesBounded`, `ImplementsHistory` | 1.2 million |
| `Credits` | MCOfficialOpsp | one request, one cell, three cards: is `CreditsWhoFedIt` kept? It is not, shown within | 62 thousand |
| `Plan` | MCOpspPlan | two edits at a time, two submits, a read: `InkIsEarned`, `LossNeedsOverlap`, `ImplementsHistory` | 2.0 million |
| `Gateway` | MCAiGateway | two calls on two processes against a small budget: `OvershootBounded`, `ImplementsMeter`, `DrainedBudgetHolds` | 256 thousand |
| `GatewayQueue` | MCAiGateway | one caller and the queue, everything may fail: `CallsEnd`, `JobsSettle` | 71 thousand |
| `Screen` | MCQuestionScreen | one coached question, two visits, requests in any order: `NeverGates`, `NudgesPerVisit`, `ExamplesCounted`, `RetiredIsSilent` | 1.3 million |
| `PlanEditor` | MCPlanEditor | one tab over three cells: `ContentStaysInItsCell`, `TimerIsCurrent`, `ShownIsSent` | 1.2 million |
| `Entry` | MCEntry | two tabs of one browser, two respondents: `RulesBeforeWords`, `RateHolds`, `StrandedForGood` | 1.1 million |
| `Forms` | MCForms | all fifteen questions, two visits: `PassedIsStored`, `StoredIsCanonical`, `LookingIsHarmless` | 2.6 million |
| `Boards` | MCBoards | three members, one of whom facilitates, two pages, three analyses: `BadgeMatchesCards`, `NamesNeedConsent`, `AuditNeverLowersAgreement`, `PanelKeepsRuns` | 2.3 million |

`AnswerLockRaces` shows what two layers of checking without a lock on the
respondent's row do and do not give. The lock is not absolute (a save that
passed its check before the submit committed still lands) and a submit is not
idempotent (two checks before either commit). What does hold: a locked
respondent always has a baseline; the plan was derived from the very snapshot it
came with; the private note and its question come from one save, live and
frozen; once the saves that had passed their check are done, a locked sheet
stays as it is until an unlock (`DrainedLockHolds`); and every request ends
(`RequestsEnd`). `ImplementsBook` says what remains of the lock while requests
overlap: whatever is written or frozen under a lock, or in a closed cohort, was
admitted before, over an unlocked sheet and in an open cohort, and each
admission is good for one write or one frozen copy, which is one state of the
sheet. It does not forbid the second baseline of two submits admitted together.

`Autosave` shows that there is no lost wake-up (`UnsavedIsScheduled`), that
"Saved" is shown only over an answer the server has held, that a refusal is
terminal, and that every unsaved answer is eventually saved or locked.

`Official` shows that the conflict guard survives any change of the cards while
the model is asked (`StatementsCleared`); that nothing is published that was not
a pending draft or an open position of that cell before, with the sources it was
made from, credited to the cards that were there when it was taken up
(`PublishedWasOffered`); that overlapping requests make no more rows share a
version than there are requests (`ClashesBounded`); and that rows are an
append-only history. What is *not* claimed: two requests that overlap lose one
of two changes, which the history allows, since each row extends *some* earlier
row. `Credits` asks whether the provenance of an accepted statement names whose
answers fed it, as FR-41 has it, and finds that it does not when a card came or
went after the draft was made. `Plan` asks of the respondent's own rows, where a
submit begins again at version 1 below the edited ones, that a cell is in ink
only over sure answers unless its owner marked it (`InkIsEarned`, through blank
and restored texts and a new submit), that they are a history, and when an edit
may be lost: only to one that was under way at the same time, whose own change
is then there (`LossNeedsOverlap`).

`Gateway` shows what a flag read before a call and used after it costs. Every
model call was admitted by a reading of the counters below the caps and is
charged at most once (`ImplementsMeter`), so a cap is passed by less than one
full charge for each model call that can be under way, two for a synthesis
(`OvershootBounded`); after that nothing is charged, though a process may have
cached a closed circuit for good and the facilitator may pin L0
(`DrainedBudgetHolds`). All of it concerns recorded calls: ideate is
neither gated nor counted. `GatewayQueue` shows that calls waiting for the
budget's row all end and that a job is completed, given up, or stuck because a
round of it threw.

`Screen`: a press of Continue is held up at most once for one text, whatever
lies between; the cards of a visit count from 1 to the ceiling (each visit
starts again, so the limit is one per visit); once the last card of a visit was
dismissed, in whatever way, no later visit shows one until a page load; and
late, lost and reordered requests mark no more examples than were asked for,
though not always the right row. `PlanEditor`: one timer serves all cells, and
others are left behind by links, yet none writes one cell's content into another
plain cell, and that of the mounted view never sends what it has itself replaced
(those left behind do, section 5); what is on screen and was never sent is
exactly what an edit or blur of another cell dropped. `Entry`:
`RulesBeforeWords` depends on all of the gates together, since the route that
stores asks for none and cookie and tab may belong to two people; `RateHolds`
says by how much attempts made at once pass the limit; `StrandedForGood` is a
trap and no promise: once the facilitator is unlocked while the cohort is not
open, nothing in the program leads out. `Forms`: what passes Continue is what
the review, the board and the plan will find, two answers apart (section 5);
stored lists are in the form their readers rely on; and a form that opens empty
over a stored answer leaves answer and confidence alone until its input is used,
the ring alone included. `Boards`: the badge agrees with the anonymised cards of
the same page; names are shown only after they were asked for on this page, and
past "Anonymised" only if their fetch was under way; splitting a board by the
coach counts everyone and never lowers the agreement (the first half is what a
change of the grouping would break; the second a sum the page does not show); an
open panel loses no run.

### Bounds

* `AnswerLockRaces`: two slots, one respondent who is also the facilitator, Q14
  (the only question stored as two rows), two values, two snapshots
  (`MaxSnapshots`), one coach row (`MaxNudges`). Every race of the code is
  between two requests; two snapshots are what an unlock and a resubmit, or two
  submits at once, produce; two values tell the writer apart. About 53,000
  states.
* `Autosave`: two visits, two edits, two faults (a failed request, a dropped
  connection or an unlock), one stray write at a time. Two faults are what it
  takes for the drain of a reconnection to fail, or for two drains to overlap.
  Two visits are what it takes for an unmounted loop to meet a mounted one; two
  edits make one value overtake another and come back. About 446,000 states.
* `Official`: two cells, two cards (the least a classification takes) that go to
  the first, two slots, six rows (`MaxRows`); symmetric in the cards and in the
  slots. Creating the plan, attaching two cards, storing a draft and publishing
  it is five rows; the sixth is a card that comes or goes before or after the
  acceptance. The second cell has no cards and is edited, so that a change of one
  cell meets changes of the other. A row under way is counted against the bound
  when its request starts, so no request is cut off. Symmetry is used for
  invariants and a refinement without liveness only.
* `Credits`: one slot, one cell, three cards of which two copy one answer, six
  rows: create, attach, attach, draft, attach or remove, accept. Nothing overlaps:
  the disagreement needs no race.
* `Gateway`: two requests, two processes, caps of two and one, replies of one
  token each way, one fault (an error or a restart), the pin L0; symmetric in
  requests and processes. Two requests of two calls each pass a cap by up to
  four charges, which is all but one of the bound; two processes are what it
  takes for the halt to be committed where the other has cached a closed
  circuit. No outages here, since a failed call is charged nothing and waits no
  longer than one that is answered late; `GatewayQueue` has them. With an outage
  the run also passes (four minutes). About 256,000 states.
* `GatewayQueue`: one request, one process, one scope, one fault, one outage, two
  attempts, the pin L1, a window of one. Two calls at a time (the request and
  the round) are what waiting for the row takes. About 71,000 states; with the
  pin taken back as well, about 259,000, with the same result. A window of one
  instead of 20 only makes degradation come and go sooner: p95 of up to 19
  samples is their maximum.
* `Plan`: two cells, one that is a guess by default and one that is ink, fed by
  three questions; answers at both sides of the low-confidence line and a blank
  one; two edits at a time, two submits, four rows, one read at L1. Four rows are
  a submit, two edits that overlap and a third built on one of them, or a second
  submit below two edits. Symmetric in the slots.
* `Screen`: two texts the validator fails, one it passes and one with nothing to
  store; two visits, a ceiling of two nudges (three in the program), three
  changes of the form. Two texts and two nudges reach the ceiling and the
  closing line; two visits show the count start anew.
* `PlanEditor`: one tab, since tabs share only the server's rows and no property
  compares two; one plain cell and two metrics cells (rows move between metrics
  cells only); two acts (an edit and the one that overtakes it, or the seed); two
  PATCHes on the wire. Timers left behind are not bounded but by the acts.
* `Entry`: facilitator and one nameless member, two tabs of one browser, a limit
  of one attempt and two counted. The bound of `RateHolds` is reached.
* `Forms`: all questions, each with the smallest lists that have an order (two
  apps, two roles, three functions under a cap of two); two visits.
* `Boards`: three members (the least for a majority); two answers, each with its
  slider set or not, which reach every verdict, the mean of exactly 4 and the
  split in which nobody set it among them; two saves, submits or unlocks and two
  page loads, so that consent given on one page meets the next. Two posts under
  way at once and three in all, at two levels, symmetric. What the panel shows
  does not depend on the answers, so the constraint `MCAnalyses` follows analyses
  on boards that hold the facilitator's answer alone, with one unlock at most; the
  full product is out of reach.
* `CHECK_DEADLOCK FALSE` everywhere: with every counter at its bound the bounded
  system stops. Only bounds stop it; in `AnswerLockRaces` it is `RequestsEnd`
  that says nobody waits for ever.

### Fairness

* `AnswerLock!FairSpec`: weak fairness of a running request's next statement,
  and strong fairness of the three statements that wait for a row lock, because
  Postgres serves the waiters of a row in their order. Nothing obliges a request
  to be made, or a nudge to be logged.
* `Autosave!FairSpec`: weak fairness of each hook's own steps taken together (a
  timer fires, a request that reached the server is answered, a result is taken
  up) and of the connection coming back. Nothing obliges the respondent to do
  anything; failures are bounded by `MaxFaults`, as a save that fails for ever
  is never settled by the code either.

* `AiGateway!FairSpec`: weak fairness of a running call's next step (timers and
  the timeout of the request see to it), strong fairness of `Spend`, which waits
  for the row of the budget, and weak fairness of the timer of a queued job.
  Nothing obliges anybody to call or to pin; failures are bounded.

## 4. What is proved

TLAPS checks all of this for every value of the constants, under the named
assumptions of the modules (`LockAssumption`, `AutosaveAssumption`,
`OfficialAssumption`, `GatewayAssumption`, `PlanAssumption`, `ScreenAssumption`,
`EditorAssumption`, `EntryAssumption`, `FormsAssumption`, `BoardsAssumption`:
which model values are distinct, that the bounds are naturals, that the cohort,
the tabs and the request slots counted are finite, that the registry of roles
names nothing twice, and what an answer may be).

* `AnswerLockProofs`: `TypeOK`, `RequestsOK`, `LockedHasBaseline`,
  `DraftMatchesSnapshot`, `NoteTravelsWithQ14`, `FlagNeedsAnswer` as invariants,
  `SnapshotsAppendOnly` and `DrainedLockHolds` as action properties. `IInv` is the
  conjunction of the six invariants. They need each other: `NoteTravelsWithQ14` of a
  snapshot needs that what a submit has read is whole, which `RequestsOK` says;
  the coach counts stay natural because at most one request holds an answer row
  and the rows it will flag are still there, also `RequestsOK`; and the latter
  is inductive only because `SaveUpsert` waits for the row. `RoutesAreBook`: the
  routes implement `AnswerBook` for any number of slots, statement by statement.
  A statement that finds its check failed, or is rolled back, drops its ticket;
  the two rows of Q14 are one write because only their commit makes them visible.
* `AutosaveProofs`: `TypeOK`, `UnsavedIsScheduled`, `SavedWasStored` and
  `LockIsTerminal`. The strengthening `HooksOK` says that what a loop
  sent is a storable answer, that a confirmed result and the last confirmed
  value are in `written`, and that a locked hook has no running loop; `DrainOK`
  says the same of each drain that is under way.
* `OfficialOpspProofs`: `TypeOK`, `StatementsCleared`, `PublishedWasOffered`,
  `ClashesBounded` and the refinement `ImplementsHistory`. The strengthening
  says of a plan that a request has computed and not inserted what the
  properties say of a row, and that it was built from a row that is there. Rows
  are only added, so this outlives every other request. For `ClashesBounded` the
  rows of a version and the requests that hold its number are together no more
  than there are requests, since a number is above every row when it is taken
  and an insert turns a holder into a row.
* `AiGatewayProofs`: `TypeOK`; `ImplementsMeter`, `DrainedBudgetHolds` and
  `HaltedWithSpend`; and, from the refinement and the meter's invariant,
  `OvershootBounded`, for any number of requests, processes and queued scopes
  (finite), any caps above zero and any charges. `RecordOK` is the
  strengthening: a call the provider is asked for, and a cost on its way to the
  row, belong to a call whose budget flag was down. The bound itself is proved of
  `TokenMeter` alone: a meter passes a cap by less than one full charge per call.
  Its invariant reserves a charge for every admitted call: at or over a cap,
  `used` plus what the admitted calls may still cost is below the cap plus the
  cost of all calls. Admission is only below the cap, so the reserve starts
  there; a charge takes from it what it adds to `used`. The theorems assume nothing
  about the counters' width: the columns are 32 bit, the caps a million.
* `OpspPlanProofs`: `TypeOK`, `InkIsEarned`, `LossNeedsOverlap` and the refinement
  `ImplementsHistory`. Ink is not inductive on the rows alone: an edit is built
  on a row read two steps before, so the invariant says the same of the plan each
  running edit carries, and that it differs from some row in at most one cell.
  `from` points into `frozen`, which only grows. For the losses it says that the
  line of the highest row holds, of every edit there was, the edit or one that
  overlapped it.
* `PlanEditorProofs`: `TypeOK`, `ContentStaysInItsCell`, `TimerIsCurrent`,
  `ShownIsSent`. The strengthening says of every place a content can be (shown,
  timed, left behind, on the wire, rendered, stored) that a plain cell's was made
  for it, and of the mounted view's timer that it is what its cell shows and the
  newest of that cell the view knows of.
* `QuestionScreenProofs`: `TypeOK`, `NeverGates`, `NudgesPerVisit`,
  `RetiredIsSilent`, `ExamplesCounted`. A press that was held up has left its
  text judged, so the next one passes; the last card of the visit bears the
  coach's count; a card that was dismissed as the last leaves `retired` set and
  no card open, and every mount since has found it so; and the examples marked
  and those still on the wire are together no more than those asked for, which
  is an invariant of requests in any order.
* `PagesProofs`, on `Entry`: `TypeOK`, `RulesBeforeWords`, `RateHolds`,
  `StrandedForGood`. For the words, the invariant says of every open question
  page and of the mirror that their author exists and has acknowledged; only such
  a page holds unsaved words. `RateHolds` is its own invariant: a check passes only
  below the limit, where even all tabs between check and record keep the sum in
  bounds, and a record moves one from the tabs to the count.
* `PagesProofs`, on `Boards`: `NamesNeedConsent`, `PanelKeepsRuns`,
  `BadgeMatchesCards`, `AuditNeverLowersAgreement`. A fetch of the names is under
  way only while the page knows of it and consent stands. At most one post is the
  panel's own, for as long as it loads, and the list it has read holds every run
  shown. The badge is the verdict of the cards' own reading; that the verdict
  computed by the loops of `lib/divergence` is the one stated by counting is the
  lemma `VerdictIs`, for any number of answers.
* `PagesProofs`, on `Forms`: `PassedIsStored`, `StoredIsCanonical`,
  `LookingIsHarmless`. The invariant says of the draft and of the row that their
  lists are as their readers expect (`DraftOK`) and that no screen is open on
  what Continue let pass. Every tap keeps it (`ToggledIs`, `SwapKeeps`,
  `RegistryOnce`), and a complete draft is storable, question by question, two
  shapes apart (`PassingIsStorable`).

Boards and Forms loop over rows, cards and lists. The induction rules of the
library take a predicate and no installed prover instantiates them, so
`PagesProofs` derives an induction that is stated of a set of naturals
(`SetInduction`, by its least element) and from it that a loop's values exist
(`LoopExists`) and what each loop computes: `RowsLoop`, `TallyLoop`, `MeanLoop`,
`FilteredLoop`. This is why these definitions are recursive functions over an
interval, the shape of the loops in the code.

The invariants `RequestsOK`, `FlagNeedsAnswer` and `HaltedWithSpend`, the action
property `SnapshotsAppendOnly` and the `TypeOK` of `AnswerLock`, `Autosave`,
`OfficialOpsp`, `OpspPlan`, `AiGateway`, `PlanEditor`, `QuestionScreen` and
`Entry` and `FormsTypeOK` are proved and, `AnswerLock`'s `TypeOK` apart, listed
in no run: for every value of the constants they are settled. To see TLC agree,
add the name to the cfg. The types of the boards are `BoardsTypeOK`, defined
beside their proof.

Model-checked only: `RequestsEnd`, `UnsavedIsSettled`, `CallsEnd` and
`JobsSettle`, since liveness under fairness is beyond the prover. All other
properties of the passing runs are theorems.

## 5. What the code and its documents disagree on

The runs ask what holds. Where a document or a comment promises more than the
code keeps, the promise is an operator of the module; with its name added to the
cfg (`INVARIANT` or, with a box, `PROPERTY`) TLC shows the behaviour that breaks
it. `CreditsWhoFedIt` has a run of its own, `Credits`; the others are listed in no
cfg.

| Operator | Promise | What the code does |
|---|---|---|
| `AnswerLock!FrozenWhileLocked` | `lib/lock.ts:73` "the absolute guarantee behind PR5", `:31` "answers are immutable once submitted" | a save that passed its check before a submit committed lands after it; the live row then differs from the snapshot |
| `AnswerLock!SubmitIdempotent` | `lib/submit.ts:95-98` "a second submit re-returns the existing state rather than duplicating rows" | two submits both pass the check; two snapshots and two version-1 drafts |
| `Autosave!SavedIsStored` | `lib/use-autosave.ts:89` "The value that was last confirmed saved on the server" | going back to the saved answer while another is in flight: "Saved" over one answer, the row holds the other, nothing sends again |
| `Autosave!RefusedTextIsShown` | `lib/sync-conflict.ts:2` "typed text is never silently discarded" | the refusal reaches a hook whose screen is gone |
| `OfficialOpsp!CreditsWhoFedIt` | FR-41, `docs/spec.md:128` "records which respondents' answers fed each cell", `spec/F15-official-opsp-canvas/tickets.md:109`, `lib/official-opsp.ts:188` "exactly which respondents' answers fed it" | `acceptOfficialCellDraft` (`:689`) credits the cards attached when it runs, not those the statement was drafted from; `sources` beside it are those of the draft |
| `AiGateway!QueuedCompletes` | `spec/F14-facilitator-analysis/tickets.md:44` "a queued analysis eventually completes without user action" | one slow answer leaves the process at L1, where no round asks the provider and so nothing ends L1 |
| `QuestionScreen!FlaggedWasEdited` | `lib/interactions.ts:12`: `answer_changed` flips when the respondent later edits the answer | it flips on the save of the very text that was judged, when Continue came before the debounce |
| `PlanEditor!NothingOlderIsSent` | `app/opsp/OpspEditView.tsx:115-117`: the change is saved after a pause, and again on blur | the view has no cleanup for `debounceTimerRef`: after a link of the header and back, the old view's timer sends over what the new one has sent since |
| `Entry!SubmitEmptiesMirror` | `lib/local-mirror.ts:119-123`, `:11-14`: the mirror is cleared on submit | `clearMirror` has no caller |
| `Forms!ConfidenceIsKept` | FR-11, `docs/spec.md:78`: confidence "required" on six questions, and Continue asks for it | an edit link opens the form with the ring unset, and the first storable edit writes `confidence = excluded.confidence`, a null (`lib/answers.ts:157`) |
| `Forms!PassedIsSaved` | `lib/q10.ts:21-26` "not sure yet" is complete, `lib/paired-rows.ts:63-72` no star is needed | q10 unsure without an amount and q11 without a star pass Continue and have no stored form |

`SavingEnds` (Autosave: "Saving…" ends), the `TypeOK` of `Entry` and
`FormsTypeOK` hold on the same instances and are left out of the cfgs only to
keep the runs short.

In the models, without an operator of their own:

* Answers: two submits admitted together both write a baseline; a save or a
  submit let in while the cohort was open commits after it was closed.
* Official plan: an edit of a decided cell, or of its mark alone, drops the
  decision and both positions, though `lib/official-opsp.ts:778` says both "stay
  on the cell". The second call of a synthesis asks the provider on flags read
  before the first, though `lib/ai-gateway.ts:256-258` says the gates "are
  re-checked right before the request". Every recorded call after the halt pins
  L2 again over an L3 set since (`docs/spec.md:227`, "at any time").
* Own plan: after an edit, an unlock and a second submit the view goes on showing
  the plan of the first, since a submit always writes version 1 and the highest
  version is read (`lib/opsp-draft.ts:8-9` "always shows their latest plan"). A
  cell cleared by hand keeps its mark; edits are accepted while unlocked; a name
  typed into a cell is not redacted for the model, only ids are; what the queue
  renders at L1 is read by nobody.
* Question screen: Back and the edit links of the review are plain `<a href>`
  (`QuestionShell.tsx:751`), full page loads that empty `retiredCoach`, though the
  comments at `:157-160` and `:531` have Back in mind when they say a retired coach
  is not resurrected; nudges are counted per mount, so three a visit, not three a
  question (`docs/spec.md:89`); "Keep as is" moves on even when the text was
  cleared after the nudge (`lib/navigation.ts:8`); an example that arrives late
  marks the newest row, whichever that is.
* Plan editor: the metrics editor writes the rows of the cell it was first shown
  for into the next metrics cell; a blur sends the active cell's content
  although nothing changed, over what another tab stored; the route answers ok
  when the database failed; the seed, run again, overwrites edits; nothing marks
  `app/opsp/edit/page.tsx` as dynamic, so a production build may render it once
  and show that plan for good (`Render` need not happen).
* Entry: the mirror has no owner, so a drain stores one respondent's words under
  another's cookie on a shared browser; a resume code admits to a closed cohort;
  a cohort with a recorded private export cannot be deleted, because
  `app_delete_cohort` does not know `export_events` (nor `analysis_outputs`); the
  page of the ground rules opens without a name.
* Forms: q14's hours are not clamped outside the slider and the API checks
  shapes only, so more than 60 is stored (`docs/spec.md:218`); a value that has
  no stored form leaves the older row as it is; the first storable edit of a
  later visit replaces an answer the form never showed; a confidence moved alone
  on such a visit is never saved.
* Boards: "Anonymised" does not cancel the fetch of the names; a grant that
  expires gives anonymised cards in the attributed mode; badge and anonymised
  cards are of the page load, named cards newer; one single answer counts as full
  agreement; answers of members who have not submitted are on the board
  (`docs/spec.md:183`).

Seen while reading and in no model: the canvas posts decisions to
`/api/admin/synthesise/decision` while the handler is `.../record-decision`;
`lib/session.ts:44-46` says an unlock does not clear `submitted_at`, which
`performUnlock` does; the fallback of `getOrCreateOfficialDraft` reads in a
transaction that the unique violation has aborted; `recordFailure` and
`coachCallsAllowed` have no caller outside the tests, so three failures in a row
do not open the circuit and the 41st coach call of a respondent is served like
the first; `lib/budget.ts:181` says a crash before the commit "cannot lose one
without the other", which is so because it loses both; a budget row is created
by the seed only; `serveAnalysis` stores the deterministic branch under the
model's name; letters A, B, C are drawn anew for every call of an analysis; the
thresholds for divergence in the environment are read by nobody; the roster's
first activity is the oldest `updated_at`, private rows included;
`getOrCreateResumeCode`, `issueInvite` and `revokeInvite` are called by no
route; `OPSPView` is rendered by no page; the PDF route waits for
`[data-testid="opsp-grid"]`, which the page it opens does not have; POST
`/api/admin/opsp-analysis` is called by no page.

## 6. Plan

Done, in this order: the answer lock (the core), autosave, the official plan,
the individual plan, the AI gateway with the background queue; then the question
screen, the plan editor, entry, the forms, the boards, the mapping of answers to
cells and the read of a plan; and the proofs of all of them; last, the
answer book for any number of requests, and the official plan's credits. Next, most
important first:

1. An abstract specification of the local mirror (what is typed is kept until it
   is stored or refused) that `Autosave` implements.
2. `Circuit` on its own: the open, half-open and closed states of `lib/circuit`
   as its unit tests drive them, and the transitions it promises.
3. `Migrations`: interrupted and concurrent runs under the advisory lock.
4. The roster and the level strip as operators with reference definitions; the
   panel of ideas, whose answer may be shown under another cell.

## 7. Not modelled

* Row level security (Postgres evaluates it; routes are modelled as seeing what
  their policies admit) and the signing of tokens.
* The circuit's own transitions and the ceiling of coach calls: no route calls
  them.
* The audience toggle and the read view of the one-row plan (they filter and
  format), the panel of ideas; the roster, the level strip and the word-count
  spread of open questions (read-only summaries); the review screen.
* Creating and renaming a cohort, issuing and revoking invites, generating codes:
  single inserts and updates, the last two called by no route.
* Migrations: one advisory lock and one table, both Postgres's to keep.
* Prompts and the parsing of replies, the rules of the output guard, static
  hints, rendering, print, PDF and CSV, logging, bundle checks, fixtures. They
  hold no state that other parts rely on.
