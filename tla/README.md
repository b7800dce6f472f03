# A verification development for the SMS platform

The backend takes SMS messages from tenants over HTTP, reserves their price in
the tenant's wallet, routes them to a carrier, dispatches them over HTTP or
SMPP, and settles them by the carrier's delivery reports. The API, the workers
and the relays are separate processes of one NestJS code base; they share
PostgreSQL, Redis and Kafka, and nothing else. Beside it stand a web interface
for operators (the control plane) and scripts that prepare the database. Most of
what is hard here is between processes: a handler reads a row, decides, and
writes in a transaction of its own, while another handler of the same message, a
second replica, another operator or another tab does the same.

This directory holds TLA+ modules of these parts, TLC configurations that check
them on small instances, and theorems that TLAPS proves for every instance.
Paths are relative to the repository; `messages.service.ts` and the like are
under `src/`, the web interface under `control-plane/`, the schema is
`migrations/001_init.sql`.

## The parts of the system

| Part | State | Operations | Talks to |
|---|---|---|---|
| Submission (`messages.service.ts`) | `messages`, opt-outs, suppressions, sender ids | quotas, screens, look-up of an earlier submission, insertion with reservation | limiter, routing, fraud, wallet, outbox |
| Message store (`messages.service.ts`, trigger in `001_init.sql`) | `messages`, `message_logs` | `patchMessage`, `transitionMessage` (compare-and-set on status and version) | wallet, outbox, in one transaction |
| Wallet and ledger (`messages.service.ts`) | `wallets`, `transactions` | reserve, debit, release, one entry per idempotency key | called by the message handlers |
| Message workflow (`message-workflow.service.ts`) | none of its own | consumers of accepted, retry, dispatch (three topics), dispatch result | store, outbox, carriers, fraud, routing, circuit breaker |
| Delivery reports (`dlr.service.ts`, `dlr.processor.service.ts`) | `dlr_webhooks` | accept a callback, correlate, settle, hand to reconciliation | store, outbox |
| Outbox and relay (`outbox.service.ts`, `outbox-relay.service.ts`) | `outbox_events` | enqueue, claim with a lease, publish, mark, retry | Kafka |
| Circuit breaker (`redis/circuit-breaker.service.ts`) | one JSON value and one probe key per provider in Redis, a copy in PostgreSQL | allow a dispatch, register success or failure, set by operator or SMPP session | called by dispatch |
| Connectors (`connectors/`) | a pool of SMPP sessions in the process | bind, submit, enquire_link, close; one HTTP call | carriers, the breaker |
| Rate limits (`redis/rate-limit.service.ts`) | token buckets in Redis | one Lua script, a daily key | called by submission and dispatch |
| Fraud (`fraud.service.ts`) | rules and tiers with Redis copies, velocity counters | evaluate; save a rule | called by submission and workflow |
| Routing (`routing.service.ts`) | routing rules with a Redis copy, prices, retry policies, metrics of carriers | select a route, choose a policy, upserts | called by submission and workflow |
| Campaigns (`campaigns.service.ts`) | `campaigns`, `campaign_schedules`, `campaign_jobs` | create, schedule, pause, cancel, materialise what is due | a timer in the scheduler role |
| Templates (`templates.service.ts`) | one row per version | create, update, delete, resolve | submission |
| Contacts (`contacts.service.ts`) | contacts, groups, uploads | uploads row by row in one transaction, edits | campaigns |
| Authentication (`auth.service.ts`, guards) | users, tenants, tokens, API keys | log in, switch tenants, confirm the password, act; create, rotate, revoke, use a key | the API |
| Control plane (`control-plane/`) | one cookie, a query cache per tab, localStorage | queries, switches, sign-out, saved views, the send page | the API |
| Deployment (`scripts/`, `migrations/`) | the database | create, migrate, verify; two seeds | |
| Reconciliation, audit, dashboards, search, analytics, notifications, health | none, or a log | queries, inserts | |

## The modules

The core, from submission to report, is composed into one system:

| Module | Models | Correspondence |
|---|---|---|
| `MessageStore` | `messages` and `transactions` | `row[m]` is the row (status, version, attempt_count, billing_state, provider_id, provider_message_id, sent_at, the part of last_error_code the trigger reads), `ledger` the set of entries. `CompareAndSet` is the UPDATE with `status = .. AND version = ..`; `TriggerAccepts` is the trigger, on the images a row takes in one transaction |
| `MessageWorkflow` | insertion and the consumers | one action per transaction or call: `Start` is the read, `HandleAccepted`, `HandleRetry`, `BeginAttempt`, `FraudThrottle`, `FraudBlock`, `CallProvider`, `ReportResult`, `Result*` the rest. `outbox` is every event committed, `pending` those not consumed yet |
| `DlrProcessor` | callbacks and `processWebhook` | `hook[c]` is the `dlr_webhooks` row; `ReadWebhook`, `Correlate` and the settling action are the two reads and the transaction |
| `MessagePipeline` | both over the same tables | the properties, and the refinement mapping to `MessageLifecycle` |
| `MessageLifecycle` | what a tenant is promised | where a message is and where its price is, moving in the same steps |

The parts it depends on have a module each. They share no variables with the
core: what each decides (a refusal, a route, a verdict, an event that comes
twice) is a choice of the core's environment, and the module shows when it is
made.

| Module | Models | Correspondence |
|---|---|---|
| `Submission` | `submitMessageWithContext` up to the commit, sender ids, opt-outs, the audit interceptor | `request[r].step` is the statement a request is at; the lists and approvals change between any two; `message` are the rows, with the unique index on the idempotency key |
| `RateLimit` | the Lua script and its callers | `bucket[k]` is the Redis hash (`tokens` in parts of a token), `reading` the clock a caller took before the script ran; `grants` is the history the bound speaks of |
| `Wallet` | `applyWalletLedger` in its transactions | row locks, the look-up of the key before the lock, the arithmetic of BIGINT columns as the driver delivers them |
| `OutboxRelay` | `flushBatch` | overlapping invocations, one lease for a batch, publish and mark outside any transaction |
| `CircuitBreaker` | `CircuitBreakerService`, the breaker's part of `providers.service.ts` and of dispatch | `snap` is the JSON value with its time to live, `probe` the probe key, `saved` the `provider_circuit_state` row; one action per GET, SET and UPSERT |
| `Connectors` | `smpp.service.ts`, `http-provider.service.ts` | `link[c]` is a session with its handlers and timer, `pool` the map of slots, `accepted` the carrier's record; one action per event and per continuation after an await; `Unheard` ends the process |
| `Fraud` | `evaluate` | the rules that match one after the other, INCR and EXPIRE as two calls, a process that ends between them |
| `RuleCache` | the Redis copies of routing rules, fraud rules and tiers | a key is abstracted to the number of changes it has seen; readers ask and store, writers save and delete, in two steps each |
| `Routing` | `selectRoute`, `getRetryPolicy`, the reroute of `handleDispatchResult`, the upserts | the score is computed as in the code, and `failover_order` breaks ties; `rule` is the list as `getRules` returns it (when an edit gets there is `RuleCache`'s matter); `shipment` is the message's route, attempts and cost |
| `Campaigns` | `campaigns.service.ts` | `sched` the rows of `campaign_schedules`, `jobs` the `campaign_jobs` each led to, `claimed` what each overlapping invocation of `materializeDueSchedules` read and locked, `cancel` the transaction of `cancelCampaign` |
| `Templates` | `templates.service.ts` | an edit is its two or three statements; `story` is which edits overlapped, and what their editors meant |
| `Contacts` | uploads and edits of contacts | one step per row of a file, the row locks, and PostgreSQL's breaking of a circle of waits |
| `Sessions` | `auth.service.ts`, the guards, `backend.ts` of the control plane | `cookie` is the session token, `op[b]` the call of a tab, `lastHeld` and `confirmed` the history |
| `ApiKeys` | creation, rotation, revocation, `validateApiKey` | the row lock of a rotation, its rollback, the one SELECT of a call |
| `ControlPlane` | tabs on one cookie, query cache, `SessionWatch`, `proxy.ts` | `tab[t]` the page with the session it was rendered with, `cache[t]` its query cache, `crossed` a query that left under another tenant's cookie |
| `SavedViews`, `SendPage` | `saved-views.ts`, `local-persistence.ts`; the send page's file and form | localStorage and each tab's copy; parses under way and the two requests of a click |
| `Deployment` | `migration-runner.mjs`, `prepare-database.mjs`, the two seeds | one step per statement that others can see; the advisory lock; kills anywhere |

`MCPipeline`, `MCPlatform`, `MCRequests`, `MCDispatch`, `MCConsole`, `MCWallet`,
`MCRelay`, `MCBreaker` and `MCCampaigns` are instances for TLC; the modules whose
names end in `Proofs` hold the theorems.

### One run for several parts

`MCPlatform`, `MCRequests`, `MCDispatch` and `MCConsole` put modules that share no
state side by side. A variable `part`, chosen once, says which of them moves;
the others stay in their initial state. This is the disjoint union of their
state spaces, not their product: since they share nothing, an interleaving of two
shows nothing that each does not show alone. Fairness is stated of
`part = ".." /\ Action`: without the conjunct an action of a part that never moves
would be enabled for ever and never taken, the fairness would be unsatisfiable
in those behaviours, and the liveness of the part that does move would hold of
nothing.

Names such as `Screened`, `VersionsHold` or `LedgerSound` are conjunctions of
named properties that concern one piece of code; the modules state each part
with its own comment.

## What the runs check

| Run | Parts and configuration | What it shows |
|---|---|---|
| `faults` | one message, two workers, two report processors, two attempts, all fraud verdicts, one disturbance | `LedgerMatchesBilling`, `ChargedOnlyIfTaken`, `StepsPassTrigger`, and the pipeline implements `MessageLifecycle` (`ImplementsLifecycle`) |
| `undisturbed` | two carriers, two workers, two attempts, rules that allow or throttle, a callback sent again, no disturbance, fairness | `AttemptsAccounted`: attempts within the policy, acknowledged by the carrier that took it, and what is left to do is pending; `EverySubmissionSettles`, unless a throttle strands it, `EveryReportProcessed` |
| `platform`, reports | two messages (one free), two callbacks; after a rebalance two of one message are in hand at once | `BillingMatchesStatus`; `ReportsSettle`: a report settles only what was sent, and none vanishes |
| `platform`, routing | two rules, two policies, edits and measurements between the attempts of a message | `RoutedWell`: no better route is lost, a retry moves on, the cost is that of the carrier; `SpecificPolicyWins` |
| `platform`, sessions | two tabs, two users, two tenants, roles taken away | `RightsNotOlderThanSession`, `DangerIsConfirmed` |
| `platform`, API keys | three keys, two owners at once, a call in between | `KeysObeyed` |
| `requests`, limits | two callers whose clocks disagree, a bucket and a daily quota | `WithinBudget`: grants are bounded by capacity and time, a day passes at most twice its quota, the wait told is right |
| `requests`, submission | two requests with the same or other identifiers, lists and approvals changing | `RepeatsAgree`, `Screened` |
| `requests`, templates | two editors, two names, three edits that may overlap or stop half way | `VersionsHold`: what is served, and where clashes come from |
| `requests`, contacts | three uploads in conflicting orders, one edit, fairness | `UploadsAddUp`, `EveryUploadEnds` |
| `requests`, wallet | two transactions at once on three messages, any may abort | `LedgerSound`: the ledger replays to the wallet, a message is settled once |
| `requests`, fraud | two evaluations at once, over a minute's boundary | `VerdictsHold` |
| `dispatch`, breaker | two callers, one override, one restart, fairness | `CoolsDown`, `OpensAtThreshold`, `QuietCloses` |
| `dispatch`, caches | two readers and a writer that may die, fairness | `StaleNeedsRace`, `RulesTakeEffect` |
| `dispatch`, connectors | two handlers, two slots, three sessions | `CarriersToldTrue`: the pool is healthy, a refusal means not taken, no session is lost but by a race for its slot |
| `relay` | two invocations, three events, batches of two, two faults, one expired lease, fairness | `PublishedIsSent`, `CopiesAccounted`, `EventsLeave` |
| `campaigns` | two schedules, two invocations, two commands, one rollback, fairness | `EachRunOnce`, `PauseHolds`, `DueRunsAreMade` |
| `console` | two tabs on one cookie; two tabs saving views; two files and two clicks; two releases and two seeds; fairness | `ShowsItsTenant`, `SignedOutTabsLeave`, `ViewsKept`, `SendsWhatWasShown`, `DeploymentSound`, `ScriptsEnd` |
| `blocked`, `wallet_held`, `breaker_forgets`, `cancelled` | small | counterexamples: the findings below |

The bounds, and why they are enough:

- *Messages.* Handlers of different messages share no row but the wallet's,
  which has a module of its own, and reports, which may be matched to the wrong
  message. So one message suffices for the workflow and two for reports. A free
  message (no ledger entry) is the other kind.
- *Workers.* A conflict needs two: one that read a row and one that commits
  before the first does. The first to commit makes every other reader of the
  same version fail in the same way.
- *Attempts.* Two are one retry, and with it late results of an earlier attempt.
- *Disturbances* (`MaxFaults`): a crash before a commit, a rebalance that runs
  an event twice, a second publication by the relay, an event that never comes.
  One of any kind at any moment in `faults`; the theorems cover every number. In
  `platform` the one disturbance is a rebalance at the moment at which a second
  worker takes up the other report of a message (`TakenUpTogether`): otherwise
  the reports of one carrier, which have one partition key, come one after the
  other.
- *`MaxVersion`* stops the loop in which the fraud rules throttle a message over
  and over; `faults` and `undisturbed` leave room for throttles.
- *Wallet.* A balance of 120 pays for both priced messages, and a third is free;
  concatenated digits soon exceed `MaxBigint`, as they would exceed a BIGINT, and
  the transaction then aborts.
- *Relay.* Two invocations and batches of two give a batch that is half done
  when its lease expires; a third event gives a second batch. The theorems cover
  every number of each.
- *Breaker.* Times are ticks with openSeconds > smppEnquireLinkSeconds >
  halfOpenProbeSeconds, the order of the defaults in `configuration.ts`; a
  threshold of two is the smallest at which an update can be lost below it.
- *Campaigns.* Three points in time give a run that is on time, one that is late
  and one that was due before the schedule existed; recurrences are none and
  each point; two commands are a pause and a resumption, or a cancellation with
  one of them.
- *Limits.* A second of two ticks and a day of three put readings of one tick
  apart into the same and into different seconds and days; the theorem covers
  all periods, limits and clocks.
- *Submission, templates.* Two requests that share an identifier are enough to
  race; three changes let a number be blocked and an approval come and go. Three
  edits are a version, one made from it and one that overlaps either.
- *Contacts.* Three uploads over three numbers, each with two of them, can wait
  in a circle; one lists a number twice and has a row that is not a number.
- *Routing.* Two rules and two carriers are a choice; two edits change it
  between two attempts. `MCContents` has rules that differ in each part of the
  score, rules of nobody and of another tenant, and an inactive one.
- *Sessions, keys.* Three points in time with a session of two and a
  confirmation of one let each expire before and after a switch; three keys are a
  key that was rotated twice.
- *Control plane.* Two sessions and two tabs let one tab switch or sign out under
  the other.
- *Deployment.* Two releases with different sets of migrations, one of them
  missing what the other has in the middle; a local and a staging seed, for the
  same tenant and for two.

No run looks for deadlocks: submissions, faults, edits and commands are bounded,
and a bounded system ends when everything is done. That nothing is stuck earlier
is what the liveness properties say.

## Fairness

- *Workers and report processors* (`MessagePipeline!Fairness`): weak fairness of
  each worker's own steps. kafkajs polls in a loop, an exception in a handler
  leaves the offset uncommitted, and the event comes again. Nothing is assumed
  of clients and carriers: no submission and no callback has to happen.
  `EverySubmissionSettles` is checked without disturbances: with an event the
  relay gave up on (status `failed` in `outbox_events`) it is false by design.
  The rules allow or throttle. A message throttled before its first attempt is
  not retried at all (below), and the property names it (`Stranded`) instead of
  leaving it out: nothing else keeps a message from settling, a throttle before
  a later attempt included. Blocking is left out, because a blocked
  message's event comes again for as long as the rules block (the first finding
  below). Handed to reconciliation counts as settled: the code goes no further,
  as nothing consumes that topic.
- *Relay*: the timer starts invocations, an invocation goes on until it ends or
  crashes, and the time of an event nobody holds comes. A lease running out
  under a living invocation is possible, not required.
- *Campaigns*: the timer keeps starting invocations, and a transaction goes on
  until it commits or is rolled back. `DueRunsAreMade` shows that no run is lost
  or stuck. It does not show that the scheduler keeps up: an invocation makes
  one run of a schedule, so a recurrence more frequent than the timer's 30
  seconds falls behind without end.
- *Breaker*: time passes and Redis expires keys. No dispatch has to happen, as
  routing avoids open circuits; `QuietCloses` shows that none is needed.
- *Caches*: Redis expires a copy, and a process that has asked the database goes
  on or dies. No writer has to delete anything.
- *Contacts*: an upload that is not waiting for a lock goes on, and PostgreSQL
  breaks one of a circle of waits.
- *Control plane*: a tab's queries repeat (`refetchInterval`), their answers are
  answered, and the redirect that follows a 401 is carried out. Nobody has to click.
- *Deployment*: a script that is not waiting for a lock goes on or is killed, and
  the lock of a killed one is released with its connection. A script does not
  have to be started: `ScriptsEnd` is about those under way.

## What is proved

Every safety invariant and action property that a passing run checks, and the
refinement, is a theorem that TLAPS checks for every value of the constants.
Liveness is not (below).

The theorems rest on the named assumptions of the modules, which TLC evaluates on
its instances:

- bounds and times are naturals, periods and limits not zero; `MaxAttempts` is at
  least one, as the DTO of the retry policies demands (`@Min(1)`);
- a value that stands for nothing (`NoLink`, `None`, `Unset`, `Nothing`, `Nobody`,
  `Free`, `Absent`) is none of the things it stands beside (`NoLinkAssumption`,
  `CacheAssumption`, `UnsetAssumption`, `ContentsAssumption`, `ContactAssumption`,
  `FreeAssumption`, `KeyAssumption`);
- data has the form the code validates or the schema prescribes: a rule names a
  carrier and has numbers for its weight, priority and failover order
  (`ContentsAssumption`), the
  action of a fraud rule is one of the four its DTO allows (`FraudAssumption`),
  files are sequences of lines (`ContactAssumption`), migrations are numbered from
  one and each release has the first (`MigrationAssumption`).

### The core

`MessagePipelineProofs`: `Spec => []IInv`, with
`IInv == RowInv /\ FlowInv /\ HookInv /\ faults \in Nat`. None of the safety
invariants is inductive by itself:

- `LedgerMatchesBilling` needs to know that the billing state a handler *read*
  is still the one in the row when it posts. The compare-and-set compares status
  and version only. `RowShape` closes the gap: the status determines the billing
  state, so a row with the status that was read has the billing state that was
  read. A migration or handler that broke this correspondence would break
  the ledger, though no line of the ledger code changed.
- `ChargedOnlyIfTaken` needs `AcceptTraced`: behind each acknowledgement, in the
  outbox or in a worker's hands, there is a carrier that took the message.
- `ReportsSettle` needs `ReportsRead`: what a processor read in correlation had
  been sent, and being sent is never undone.

The proof has one lemma per action. `TypeCorrect`, `MoneyAccounted`,
`BillingFollowsStatus`, `NoChargeWithoutCarrier` and `ReportsSettled` follow.

`OrderKept` is about the undisturbed system, as the run `undisturbed` is: it
assumes `MaxFaults = 0`, since with a redelivery a carrier does get a message
more often than the row counts. Its invariant `Undisturbed` adds to `IInv` that a
message has one event under way, at most one handler at it, and that the
handler's view of the row is the row (`Orderly`, `Fine`).

`MessageRefinementProofs`: each step either leaves rows and ledger alone or has
`RowEffect` (`StepEffect`): it inserts a row with its reservation, or makes one
legal update of one row with the posting that belongs to the change of status.
Such a step passes the trigger (`TriggerNeverRefuses`) and maps to one step of
`MessageLifecycle` or to a stutter (`Implements`).

The second half of that module proves why a message settles, as far as that is
not a matter of fairness; it builds on `OrderKept` and assumes `MaxFaults = 0`
with it.

- *Nothing is forgotten* (`AttemptsAccountedHolds`, with `AttemptsWithinPolicy` and
  `AcknowledgedByItsCarrier`). An event can be lost without any fault in two ways:
  its key was used before, and `ON CONFLICT (dedupe_key) DO NOTHING` swallows it;
  or its handler finds the message in a status it does not handle and returns.
  `AllDue` excludes both. The version of the row is ahead of the keys in use
  (`Ahead`; the delicate ones are the dispatch after a retry and the result of a
  call, which keep the version that was read), and the event under way is one
  whose handler takes the present status (`EventDue`). The retry of a message
  throttled before its first attempt is the one event that finds no taker, and
  `Stranded` its row; a message is nowhere else while that event is under way.
- *Work runs out* (`WorkRunsOut`). `StepsLeft` counts the steps workers may still
  take for a message: twelve for each attempt the policy has left, and what
  remains of the present round by the topic of the event or the stage of its
  handler. It is at most `12 * MaxAttempts + 19`, each step of a worker lowers it
  for one message and raises it for none, only a submission starts it, and only a
  settled message has none left. So there is no endless round of dispatch, result
  and retry, whatever the carriers answer. It assumes that the rules let every
  message pass: the event of a blocked one is tried again for ever (the first
  entry of the next section).
- *Reports stay due* (`ReportsStayDue`). A stored callback keeps its event until it
  is marked processed, although the carrier may send it again and two processors
  may have read it.

With fair workers these give `EverySubmissionSettles` and `EveryReportProcessed`.
That last step is TLC's.

`CampaignProofs`: `EachRunOnce` follows from what the row locks give
(`ClaimsCurrent`, `ClaimsApart`, `CancelsApart`): what an invocation read is
still in the row when it commits, since neither another invocation, nor a
pause, nor a cancellation gets at it. `PauseHolds` follows from the same fact,
as a claimed row was active when it was read.

`OutboxRelayProofs`: `CopiesAccounted` is the delicate one, as a copy is paid for
before it is sent. `CopiesBudget` counts, for each event, the copies Kafka has,
the invocations that may still send one or set the row back to `pending`
(`Senders`), and one more if the row can be claimed without a further mishap
(`Open`); the sum never exceeds one plus the failures, crashes and expired
leases. A claim turns `Open` into a sender, a publication turns a sender into a
copy, and every other way to a further copy is a counted mishap. The count rests
on `InHand` (a batch holds a row once). `PublishedIsSent` needs `MarksSent`: an
invocation about to mark a row has seen its event sent. `LeasesExclude` shows
that invocations have rows in common only after a lease ran out.

### Between a dispatch and a carrier: `DispatchProofs`

- *Breaker.* `TypeOK`, `CoolsDown`, `OpensAtThreshold` and the fact that a caller
  about to set `half_open` read an open circuit (`HalvesOpen`) are inductive
  together, for any number of callers, any threshold and any times. The last is
  what makes a lost update harmless: whatever is written back was consistent
  when it was read.
- *Caches.* `StaleNeedsRace` is inductive with the types: a reader that has asked
  knows what it saw, and storing it after a change marks the copy late.
- *Connectors.* `CarriersToldTrue` needs `BindsOwned` (each bind is awaited by one
  handler, and no other has its session) and `NoResultYet` (until a handler has
  submitted, the carrier has nothing). A session out of the pool had another beside
  it because any two bound to one slot know of each other (`InSight`), and only a
  bind or the end of a session of that slot takes its entry away.

### What a tenant asks for: `RequestProofs`

- *Limits.* The invariant `Accounted` relates the tokens granted from a hash and
  those left in it to the time between its first and last readings plus the
  drift, the amount by which readings went back; a key of a day confines these
  readings to the day (`InDay`), which gives the bound of twice the quota. The
  wait told to a refused caller is right by division.
- *Submission.* Three facts of each request, whatever else happens: it belongs
  together with its row (`Together`), what it has passed binds both (`Bound`), and
  what its look-up returned or missed is what was there when it came (`Looked`).
  `Screened` is the second, `RepeatsAgree` the third.
- *Wallet.* `LedgerSound` needs `Sane` (a transaction that has locked the wallet
  read what is in it, and its message has the billing state it acts on) and
  `Excludes` (no two of them). The balances after each entry are a function that
  goes on from one to the next (`Chain`); a new entry extends it. That it is the
  recursive `Replay` needs induction over the ledger, which the prover does not
  do by itself: `LeastNat`, from the library's theorem that `<` is well-founded
  on the naturals, gives a first entry at which the two differ, and there is none.
  What the driver's arithmetic computes plays no part: the locking is right
  whatever is added up.
- *Contacts.* An upload under way has locked the numbers of the lines it is
  through with, and its copy of such a contact is the committed one and itself.
  So a commit loses nobody's fields, and a rollback leaves none.
- *Fraud.* While a minute lasts, its counter is at least the number of
  evaluations that passed in it, because a key that has an expiry outlives the
  minute it is named after; so `passed` stays within the threshold, also if a
  process ends between INCR and EXPIRE. An action that was merged is the most
  severe found so far (`Severest`), for the loop over the rules again by
  `LeastNat`.
- *Templates.* In a story without overlaps one edit is under way (`Orderly`), what
  it is about to insert is above the versions it competes with, and the row
  promoted last leads its name except between the statement that makes the rows
  inactive and the insertion (`Serving`, `Clouded`). Of edits that do overlap,
  `EditsExplained` says that what an edit under way will insert clashes with an
  earlier row only if the story has the reason, and that all later rows and edits
  overlap it; an insertion then keeps `ClashesExplained`.

### Who may do what, and which way: `PlatformProofs`

- *Sessions.* `Rightful` says that a token's end is at most a session's life after
  its user last held its role, and `Founded` that a call under way brings back
  only such a token or a confirmation that was given. A switch of tenants keeps
  `Rightful`, because it reads the account again. `ActsAreConfirmed` is an action
  property from the same invariant.
- *API keys.* The row lock of a rotation makes `ReplacedKeyIsOff` inductive through
  rollbacks; `RevokedKeyBlocks` needs `LateCalls`: a call that came after its key
  was switched off has read it off.
- *Routing.* Rules, prices and measurements change between the steps of a message,
  so `RoutedWell` is an action property: what is proved of a choice is proved of
  the step that makes it. `SpecificPolicyHolds` is about the order of the policies.

### The operators' side: `ConsoleProofs`

- *Tabs.* A tab that has sent no query with another tenant's cookie holds, and
  waits for, only the data of the tenant each key names (`Unmixed`), as a token
  keeps its tenant and one that has lapsed stays lapsed.
- *Saved views.* Names, ids and the default are sound in every list a tab may
  write back (`Listed`), not only in the stored one.
- *Send page.* A form keeps the file it showed, and its upload is that file or none
  (`FormsKeepTheirFile`).
- *Deployment.* The latch makes the journal of its holder grow by the holder's own
  files only, in their order (`Through`); what a seed has inserted and not
  committed belongs to rows it has locked (`Covered`).

Type invariants are conjuncts of these inductive invariants and are not checked
by runs again.

Only model-checked: the liveness properties (`EverySubmissionSettles`,
`EveryReportProcessed`, `EventsLeave`, `QuietCloses`, `RulesTakeEffect`,
`DueRunsAreMade`, `EveryUploadEnds`, `SignedOutTabsLeave`, `ScriptsEnd`), since the
prover does not reach fairness; and the four counterexamples. Of the first two, the
safety halves are proved (above). `AllDue`, `StepsLeft` and `ReportsDue` were
model-checked on the configuration of `undisturbed` before they were proved.

## Where the code and its claims part

1. *Blocked messages are never failed* (`blocked`). Failing a message the fraud
   rules block updates its row twice in one transaction, and both updates set
   `state_changed_at = now()`, which in PostgreSQL is the start of the
   transaction. The trigger demands that it move forward and raises; the
   transaction rolls back, the event comes again, and the reservation stays.
   No test covers the workflow service against a database. In
   `MessageWorkflow` the action `FraudBlock` therefore has the trigger as its
   guard and is only ever followed by a redelivery.
2. *Balances are strings* (`wallet_held`). node-postgres
   delivers BIGINT as a string, and nothing installs a type parser. `a + b`
   appends digits, `a - b` subtracts, `<` compares numbers if one side is one,
   and digits otherwise. So the second reservation in flight multiplies
   the reserved balance, a credit limit is appended to the balance before the
   comparison, a release appends to the available balance, and a debit may be
   refused because of its digits. `Wallet` models the arithmetic as it
   is, and `WalletReplays` and `SettledOnce` hold in spite of it: the locking
   is right, the sums are not.
3. *An open circuit closes by itself* (`breaker_forgets`). Its key expires with
   the cool-down, and no key means closed. The half-open probe is reached only
   within the rounding of the expiry to a second.
4. *A cancelled campaign runs again* (`cancelled`). The web interface promises
   that a cancellation prevents further materialization. It deactivates the
   schedules there are; resuming one, or scheduling the campaign once more, also
   while the cancellation is under way, makes jobs again.

Met while modelling, claimed nowhere and so not a run:

- a message the fraud rules throttle before its first attempt is scheduled for a
  retry which `handleRetry` drops, since its status is `routed` and not
  `submitting` (`Stranded` in `MessagePipeline`); throttled before a later
  attempt it goes on;
- a callback sent again with another status after it was processed is stored and
  never processed;
- a dispatch the breaker refuses counts as a failure of the carrier and prolongs
  the cool-down;
- two requests with one client message id and no idempotency key, at the same
  time, become two messages: the id is looked up before the insertion and no
  index makes it unique. `RepeatsAgree` says what does hold;
- edits of one template that overlap may leave two versions active, or two with
  one number, and one that stops half way leaves none active; `VersionsHold` says
  what holds of edits that do neither, and that two rows clash only if the edits
  that made them overlapped, or the later one retired nothing or started from an
  old version;
- two dispatches that find a slot empty both bind a session. The later one
  replaces the earlier in the pool, and the end of either deletes the other's
  entry; the session left over sends its enquire_link and is never used or closed.
  `NoneLostFromSight` says that there is no other way to it;
- an error of the wire before a bind is answered finds no listener and ends the
  process (`Unheard` in `Connectors`);
- a number barred, or an approval withdrawn, after the statement that looks at it
  goes unseen: neither the transaction that stores the message nor
  `handleAccepted`, which routes once more, looks again. `Screened` says what was
  true while the request was under way;
- a bind that is never answered keeps its dispatch for ever: no timer is set for
  it;
- a tab whose redirect after a 401 is sent back by `proxy.ts` hears no further
  401 (`Deaf` in `ControlPlane`).

## Not modelled, and why

- Read models, notifications, health: queries. Audit and reconciliation: logs
  that nothing reads back; what is handed to them is in the models.
- Connection handling of Kafka and HTTP clients: I/O of libraries. Their outcomes
  are choices of the models.
- Runtime roles, configuration, metrics, manifests, load tests: wiring. Most
  pages of the web interface: they show queries and send single requests.
- The contents of messages, names, texts and prices beyond what decisions need;
  the text of templates; cryptography.
- Dates in the partition keys (`submit_date`, `ledger_date`) except in
  `Submission`, where a repetition may come on another day: every other run is
  one day. The consequences at midnight that this leaves out are in the notes of
  the hazards.
- Groups and lists of contacts beyond uploads: single statements.

## What could follow

`Connectors` composed with `CircuitBreaker` (the overrides a session causes are
an environment's choice in the one and left out of the other); the safety parts of
the other liveness properties, as is done for messages and reports; the count of a
campaign's recipients, once something acts on it.
