# A verified model of waterx-agent

`waterx-agent` lets a program trade a perpetuals account on a Sui chain: it
builds a transaction through a sponsor, checks the bytes, signs, sends, and then
has to find out what became of it. What makes it hard is that the last step can
fail in ways that look alike. Before that it has to know that it may: that an
owner granted it the account, that a policy allows the trade, and that the bytes
a backend composed are the ones it asked for. These TLA+ modules model the parts
whose job is to stay right through all of that, TLC checks them on small
instances, and TLAPS proves the most important invariants for every instance.

    tlc  -config runner_keys.cfg MCRunner.tla        # any run of PROJECT.json
    tlc  -config signing.cfg MCSigning.tla
    tlc  -config onboarding.cfg MCOnboarding.tla
    tlapm RunnerProofs.tla                           # all proofs of a module; the
    tlapm InstallationProofs.tla                     # others are *Proofs, SumLemmas

`PROJECT.json` ties every definition that models code to its source lines, every
run to its question, every property to a plausible bug that breaks it, and every
hazard of the code to the properties that watch it.

## 1. Inventory

| part | state it keeps | operations | how it interacts | what makes it correct |
|---|---|---|---|---|
| **runner** `runner/runner.ts`, `runner/types.ts`, `scripts/runner/run.ts` | none of its own between passes: the pass's snapshot and the job it is driving | `tick` = drain inbox, prune, drive each pending job: expire, submit, resolve an ambiguous one, await an outcome, queue fit-stops | reads and acks the inbox, writes the store, calls the agent to build/send, asks the reconciler | an intent is submitted at most once; a restart can account for everything sent; no job is abandoned |
| **job store** `runner/store.ts`, `durability.ts` | `jobs` in memory, the store file, the lock file | open, add, update, pruneFinished, flush, close | written by the runner only | memory and file differ only after a flush that threw; unresolved jobs are never pruned |
| **inbox** `runner/inbox.ts`, `scripts/runner/submit.ts` | one file per intent | submit (any process), drain, ack, quarantine | the only channel from `queue` commands to the runner | the file is the record until the ledger is |
| **reconciler** `runner/reconcile.ts` | none | didLand, outcomeOf, orderIdsOf, stillOpen | reads chain and account history | answers from evidence; absence is not an answer |
| **executor** `chain/executor.ts`, `signer.ts`, `gas.ts` | none | build, dry-run, verify, sign, onSubmitting, send, wait | between agent and chain | digest is handed over before bytes leave; failure after that is not "nothing happened" |
| **approvals, one-shot execution** `agent/approvals.ts`, `agent/submissions.ts`, `agent/ledger.ts`, `scripts/agent/{approve,execute,reconcile}.ts` | append-only ledgers of requests, approvals, rejections, consumptions, submissions, settlements | request, approve, reject, execute, settle | several processes append to shared files, no lock | one approval buys one transaction; a settled verdict is true |
| **policy gate** `policy.ts`, `runner/scope.ts`, `agent/spend.ts`, `agent/exposure.ts` | spend ledger; the policy file | check an intent, record spend, measure exposure | before every submission, by every process | ceilings hold over all processes |
| **agent facade** `agent/agent.ts`, `plan.ts`, `feasibility.ts`, `markets.ts` | none durable | plan an intent, submit it | composes policy, verifier, executor | what is sent is what was planned |
| **byte verifier** `chain/verify.ts`, `delegate-scope.ts` | none | walk the commands of a transaction, compare with the intent | before every signature | accepts only the intent's own effects |
| **stops** `agent/stops.ts`, `scripts/orders/sync-stops.ts` | none | which stop legs outgrew a position | runner and scripts | a stop never exceeds its position |
| **delegation, discovery, adoption** `agent/{delegation,discovery,adopt,adoptions}.ts` | adoption ledger, owner's on-chain grants | request, watch, adopt, revoke | chain events | only a live grant of ours is adopted |
| **guidance** `agent/guidance.ts`, `scripts/agent/next.ts` | none | next step from observed state | reads the others | never advises a repeat of something that may have happened |
| **CLI contract** `cli/{classify,contract}.ts`, `errors.ts` | none | error to exit class | every script | "retry" is only said of what did not happen |
| **configuration, manifest** `config.ts`, `configUrl.ts`, `chain/deployment.ts`, `state-root.ts` | cached deployment manifest | load, refresh | everyone | one network's state never meets another's |
| API clients, wallet and secrets, doctor, units, QR, generated ABI, query/dev/setup scripts | caches at most | - | - | not protocol state; see section 12 |

Behaviours that are hard here: crash between any two durable effects; store
writes that throw before or after they took effect; files that cannot be
unlinked; answers that never come, or come from a node that lags; deadlines that
pass while an answer is on its way; several processes over the same ledgers.

## 2. The project and its plan

| modules | models | status |
|---|---|---|
| `OnceOnly` | the promise: accepted intents, at most one transaction each | both designs below refine it |
| `Runner`, `MCRunner`, `RunnerProofs`, `RunnerLedgerProofs` | runner, job store, inbox, reconciler, submission half of the executor | modelled, checked, proved |
| `OneShot`, `MCOneShot`, `OneShotProofs` | approvals, submissions, `approve`, `execute`, `reconcile` | modelled, checked, proved |
| `Plans` | the twenty plan methods of the agent facade | modelled, checked through `Signing` |
| `PolicyGate` | the decisions of the policy gate and of admission to the queue | modelled, checked through `Signing` and `Installation` |
| `Verifier` | the byte verifier | modelled, checked through `Signing` |
| `Signing`, `MCSigning`, `SigningProofs`, `MeantProofs` | composes those three with the backend and with changes to its bytes | modelled, checked; proved: what is signed is what was asked, an unattended signature stays in its scope, what rests can be taken back, the queue's answer is the gate's |
| `Overlay` | `@@`, one function laid over another, with a definition the prover can read | |
| `Installation`, `MCInstallation`, `InstallationProofs` | several processes that load, authorize, sign and send over the shared ledgers | modelled, checked, proved |
| `SumLemmas` | what a sum over a finite set is worth: lemmas the proofs about money share | proved |
| `Onboarding`, `MCOnboarding`, `OnboardingProofs` | delegation, discovery, adoption, `next` and `onboard --wait` | modelled, checked, proved |

What composes what: `Signing` EXTENDS `Plans` and instantiates `Verifier` and
`PolicyGate`; `Installation` instantiates `PolicyGate`, whose exits are the
`Verifier`'s; `Runner` and `OneShot` are joined by `OnceOnly`.

Still planned: the lock of the job store, with two starters and a person who
removes it. No module that is to be proved about declares a recursive
operator.

## 3. The runner: model and code

`Runner.tla` is one process, the files it shares with others, and the world. An
action is one stretch of code between two points where a crash or another actor
can be told apart: a flush, an unlink, an await.

| model | code |
|---|---|
| `disk`, `mem` | the store file and `JobStore.jobs` (`store.ts`) |
| `files`, `toIngest`, `acking` | inbox directory; the entries `drain()` returned; the entry being acked |
| `pc`, `todo`, `cur` | where `tick()` is, the rest of its sorted snapshot, the job whose `drive()` is suspended |
| `chain[<<j,k>>]` | what the chain and the keeper did with attempt `k` of job `j` |
| `buried` | submitted jobs whose rows of order history, and the time they were sent, lie behind more newer rows than `outcomeOf` walks (20 pages of 50) |
| `elapsed`, `opened`, `closed` | which deadlines have passed: settle window, fill deadline, retention, cooldown; `notBefore`; `expiresAt` |
| `submitted`, `refused`, `intentOf`, `nextJob` | history for the properties, and fresh ids |

`Drain` is `drainInbox` and `pruneFinished`; `Held`, `Expire`, `NotYet`,
`AskPosition`, `Fit*` and `DriveSubmit` are `drive` on a queued job;
`BeginAttempt`, `Build*`, `onSubmitting`, `Send`, `Unsure`, `Sent` are `submit`
with the executor's half; `Resolve*` is `resolveAmbiguous`; `Await*` is
`awaitOutcome`. `Crash` may come between any two actions and leaves the files.
`AwaitOrder`, `AwaitOverdue` and the part of `AwaitMore` that stores order ids need
a read that returned (`Readable`): the deadline is looked at after it, and a walk
that ends at its page cap throws.
`PruneThrew` is the one flush whose exception escapes `tick()` and ends the
process; it counts as a crash.

Faults: `FlushFaults` lets every flush throw, with the file replaced or not (the
directory sync comes after the rename), and memory always keeps the change.
`AckFaults` lets an unlink fail. A lookup may always answer "unknown", and a
node may answer NOT_FOUND for a transaction that did land, so
`ResolveNeverLanded` has no guard on the chain. An account may write so many order
rows that a job's are out of reach (`Bury`), until the keeper touches the order,
and that only perhaps (`Keeper`). A signed transaction that was
never sent does not execute.

Abstractions: job ids are the order of creation; a digest is the pair of job and
attempt, since every attempt builds different bytes; kinds that settle alike are
one kind; amounts, markets and messages are left out.

`OnceOnly.tla` is the promise of `runner.ts:4`: accepted intents, and at most one
transaction each. `AtMostOnce` is `Once!Spec` under the mapping that collects,
for each inbox id, the transactions of its jobs whose bytes left.

## 4. The one-shot path: model and code

`OneShot.tla` is any number of `approve`, `execute` and `reconcile` commands,
each a process of its own, over the two ledgers. They share nothing else and take
no lock, so an action is one append, or one stretch of code between two of them.

| model | code |
|---|---|
| `approvals`, `submissions` | `.waterx/approvals.jsonl`, `submissions.jsonl`, as `read()` returns them |
| `statusOf`, `Consumed` | `statusOf` of `approvals.ts`: the fold over a plan's records |
| `settlement`, `unsettled` | `statusOf` and `unsettled` of `submissions.ts`: the first verdict counts |
| `review[v]`, `pc[e]`, `toSettle[r]` | where an `approve` is; where an `execute` is; the submissions a `reconcile` has listed and not yet asked about |
| `report[e]` | the exit class and the `submitted` flag the caller is given |
| `expired`, `elapsed` | plans past `expiresAt`; submissions older than the settle window |
| `buried` | executed submissions behind more newer rows of order history than a lookup walks |
| `chain[e]` | what became of the transaction of execute command `e` |

`requestApproval` is `preview`; `Ask`, `Confirm`, `approve` and `reject` are the
`approve` command with a person's answer between; `Begin`, `Refuse`,
`BuildFailed`, `recordSubmission`, `markConsumed` and `Send` are `execute` up to
the bytes, and `RequestFailed`, `Confirmed`, `Unconfirmed`, `Aborted`, `Timeout`
what it makes of the answer, `classify` included; `ListUnsettled`, `ListOne`,
`settle`, `SettleThrew`, `OutcomeThrew`, `StillUnknown` are `reconcile`, which asks the
newest submission first (`Asking`) and reads what became of an executed order
before it writes the verdict: when that read throws, the command ends with
nothing written and the older submissions unasked. `Die` may end an `execute` between any
two actions.

Faults: `AppendFaults` lets an append throw, with its line written or not (the
sync comes after the write). `LaggingNode` lets a node deny a transaction that is
on chain. A request may fail before or after the bytes left. Activity from
elsewhere may put an executed submission out of the reach of a lookup (`Bury`); it
stays there, which is the worse of what may happen next.

Abstractions: a command sends at most one transaction, so its name stands for its
submission and its digest; time is whether a deadline has passed; refusals by
policy, signer and configuration are one class. `reconcile` takes the time once,
when it starts; the model asks when it settles, which a `reconcile` that starts
later does too. A ledger is read and appended to atomically (one `O_APPEND`
write); torn lines are left out.

The promise is `OnceOnly` again: a plan is accepted when an approval is on
record, and `OneApprovalOneTransaction` is `Once!Spec` under the mapping that
collects, for each plan, the transactions of the execute commands given it.

## 5. From a request to a signature: model and code

`Signing.tla` follows one request. It is asked of the facade, or queued in the
inbox and started later (`Offer`, `Drift`, `Start`); `Plan(ask)` turns it into an
intent and a backend request; `Authorize` asks the gate and has the backend
compose; `Damage` changes the bytes; `Verify` signs or refuses.

| model | code |
|---|---|
| `Plans!Plan`, `CanPlan` | the twenty `plan*` methods of `agent.ts`, with what they refuse: a bracket on the wrong side, a crossing trigger, a reduction of nothing |
| `PolicyGate!Authorizes`, `InScope`, `Settled`, `Commits` | `authorize`, `assertInScope`, `statelessScopeViolations`, what is counted (`policy.ts`) |
| `PolicyGate!Admissible`, `Checkable` | `runner/scope.ts`: the settled rules asked of the queued fields |
| `Verifier!Bindings`, `ActionRules`, `OrderArgBindings`, `Exits` | the tables of `verify.ts`, entry by entry |
| `Verifier!Matches` | `assertTransactionMatches`: command kinds, packages, defining calls, companions, arguments, types, orders and legs, grants, gas, funds withdrawal |
| `Verifier!LayoutConfirmed` | `assertLayoutConfirmed`: captured or accepted layouts, and the way back of what rests |
| `Signing!Commands` | what the backend composes for each request, as `verify.ts` and its corpus say it does; external |
| `FitStops`, `OversizedStops` | `stops.ts` and the runner's `fitStop` |

`Damage` is what makes the verifier's job visible: any pure argument takes another
value or does not decode, any object or result is replaced, a call loses an
argument or its type, moves to another package, is repeated, dropped or joined by
one of another request; the sender, the payer and the funds withdrawn change.
The properties do not use the verifier's operators: what a transaction does is
read from its arguments, and what it should do from the request.

Abstractions: amounts are integers in one unit, so the scales of `units.ts` are
exact; a package is its name and whether its id is current or original; an
argument is found by its parameter name, so wrong arity is a missing or extra
parameter; BCS bytes decode or do not. Which refusal is reported first is left out.

## 6. One installation: model and code

`Installation.tla` is any number of agents (the runner, or a program that uses the
package, each with several writes under way) and one-shot commands. They share
`spend` (`.waterx/spend.jsonl`: what its readable lines add up to, and whether the
last is cut short), `submissions` (the unsettled ones) and the chain.

| model | code |
|---|---|
| `Load` | `#write` on first use: the gate is seeded from `spentTotal()` |
| `ReadPositions`, `Measured` | `#measureOpenCollateral`: the await, and what it adds from `unsettled()` |
| `Authorize`, `CountFor` | `authorize`: memory first, then the line; a throw leaves memory ahead |
| `Build`, `BuildFailed`, `Release` | `authorizeAndBuild`, `#bind`, `#release` |
| `Present`, `CanConsume` | `execute` with any permit and any built bytes; `consume` |
| `Record`, `RecordFailed`, `Send`, `Confirm`, `GiveUp`, `Reconcile` | `onSubmitting` and what follows in `scripts/agent/execute.ts` |
| `Lands`, `Fails`, `Fills`, `Closes` | chain and keeper |
| `Crash`, `Exit` | a process is killed, or ends |

The verifier's refusals after a permit was spent are a choice of `Present`. Bytes
are named by the write they were built for. `most`, `lost` and `unseen` are
history: how many gates held the budget at one time, what was appended to a line
cut short, and what some authorization was not told of.

## 7. The handshake: model and code

`Onboarding.tla` is an operator who runs, one at a time, the commands `next`
names; owners who grant, narrow and remove; the backend's index that follows the
chain; the window of the last fifty grant events; and services that go and return.

| model | code |
|---|---|
| `Preflight`, `FailingChecks` | `doctor.ts`, the checks that concern account, owner and grant |
| `Advise`, `Choose` | `scripts/agent/next.ts` and `decide` of `guidance.ts`, first state that applies |
| `DelegationState` | `delegationStatus` of `delegation.ts` |
| `Onboard`, `Look`, `Read`, `Conclude` | `scripts/agent/onboard.ts`; `awaitGrants` and `discoverGrants` of `discovery.ts`, one account read at a time |
| `AdoptAdvised`, `AdoptUnadvised`, `Verify`, `Save`, `Record` | `scripts/agent/adopt.ts`, `adoptAccount`: read, compare the owner, write `.env`, append |
| `Follow` | `bootstrap`, `doctor`, `policy`, `preview`, `approve`, `reconcile`, and a deposit |
| `Signs`, `Meddles`, `Lapses`, `Indexed`, `Scrolls`, `Goes`, `Returns`, `CutShort` | owners, clock, index, event window, outages, a killed process |

Abstractions: a grant is what it confers (full, short of a permission, in the
stale slot, expired), not a mask; a wallet that owns its account, gas and the
checks of `doctor` about neither are taken to pass; links and screens are left
out but for the fact that an owner was asked (`asked`): it holds the link that
`next`, `onboard` or the `delegate` check of `doctor` gave out, or the operator
passed on what the `delegate scope` check says the owner has to do, which comes
without a link (`FailingForOwner`, section 11).

## 8. Runs

| run | instance | shows |
|---|---|---|
| `runner_keys` | two entries of one key (a reduce with a cooldown, an order with cooldown and expiry), all four clocks, throwing flushes, 1 crash | `OnePerKey`, `UnresolvedStays` |
| `runner_faults` | a reduce and its deferred fit-stop, 2 attempts, throwing flushes, failing unlinks, 1 crash | `TypeOK`, `DigestBeforeBytes`, `NothingLive`, `AtMostOnce` with retries and follow-ups |
| `runner_live` | an open and a close, 1 crash, `FairSpec` | `OneOpenQuestion`, `IntentNeverLost`, `SubmittingSettles`, `SubmittedEnds`, `InboxDrains`, `QueueMoves` |
| `lost_intent` | one margin intent, throwing flushes, 1 crash | finding: see section 11 |
| `oneshot` | one plan, two reviews, two executes that do not overlap, a reconcile beside them, all faults, `FairSpec` | `TypeOK`, `LedgersAccount`, `VerdictIsTrue`, `OneApprovalOneTransaction`, `VerdictStands`, `SubmissionsSettle` |
| `two_executes` | the same with one review, no faults, executes that overlap | finding |
| `early_verdict` | one plan, a reconcile, a node that never lags | finding |
| `signing` | every operation, asked and queued, in two markets at three prices; ten contexts; one change to the bytes, two under the whole deployment | `SignedIsMeant`, `SignedIsWithinScope`, `ComposedIsSigned`, `QueueAgreesWithGate`, `PlacedIsRetractable` |
| `composed_refused` | the same, with delegates of one account only | finding |
| `installation` | an agent with two writes at once and a one-shot, three openings (60, 60, 40), ceilings of 100 open and 120 in all, 1 crash, 1 faulty append | `SpendCoversSignatures`, `BudgetKept`, `OneSignaturePerAuthorization`, `OpenWithinWhatWasSeen` |
| `open_ceiling` | one-shots only, no crash, no fault | finding |
| `onboarding` | two accounts with different owners, two looks a wait, 1 unprompted change, 1 outage, 1 preview, `FairSpec` | `AdoptedWasLive`, `NeverChooses`, `NobodyMeansNobody`, `TradeComesLast`, `HandshakeCompletes` |

Bounds of the runner. Two intents are enough for every property: each relates at
most two jobs (one beside another, or two of one key). `MaxJobs` is larger than
the number of intents where files may be ingested again after a crash, a throwing
flush or a prune, so ids do not run out; with ids left, no behaviour is cut short
and deadlock is checked in every run of the runner. `MaxAttempts` 2 lets a retry
and the exhaustion of retries both happen; runs that look at other things use 1.
One crash reaches every durable state a restart can find; a second starts from
those states again. `Clocks` names the deadlines an instance lets pass.
`runner_live` leaves the fault switches off: a flush that throws for ever settles
nothing, and one that throws once may lose an intent, which is what `lost_intent`
shows. `runner_keys` lets flushes throw and jobs be pruned, `runner_faults` lets
flushes throw and unlinks fail; retention together with failing unlinks breaks
`AtMostOnce` (section 11).

Fairness (`runner_live`). The loop runs on a timer and no await lasts for ever
(every network call has a timeout), so `WF(Loop)`; a dead runner is started again
by its supervisor (`examples/deploy`), after a kill once a person has removed the
lock file it left (`store.ts:97-101`), `WF(Start)`; deadlines pass. `Loop` may
always take the "no answer" branch, so one more assumption is needed: a lookup
repeated every pass is answered some time (`SF` of `Answered` or `Decided`, per
job), if it can be: `Decided` is disabled for an order whose history is out of
reach. Nothing is assumed of the chain, the keeper or of people: the answer may be
"not found", and the deadline then decides.

`oneshot` has one plan because plans meet nowhere: no guard or record of one
mentions another. Two executes are a first attempt and a retry; two reviews are
two people, or one who approves and then declines. `MaxSettled` 0 lets
`reconcile --id` be asked only of what has no verdict, besides the list of the
unsettled; a verdict can still be followed by a second one, from an `execute` and
a `reconcile` that run side by side, which is what `VerdictStands` needs.
`Overlapping` is FALSE because the promise is false otherwise (`two_executes`).
Deadlock is not checked here: commands end, and nothing need happen after.

Fairness (`oneshot`). Deadlines pass. Whoever drives the commands runs
`reconcile` while anything is unsettled, `WF(ListUnsettled)`: `next` puts that
before everything else (`guidance.ts:231-247`). A lookup repeated without end is
answered some time and the answer is written, if it can be (`SF` of `settle`, per
submission; it is disabled while what an executed one became cannot be read).
No `execute` need take a step, and none is trusted to settle.

`signing` enumerates; nothing is unbounded. Each operation is asked with and
without its optional parts, and on a position of each side; the queued intents
lie inside, at and past each ceiling of the scope. The two legs of position 1
differ in whether the backend reports their collateral. One change to the bytes
finds every argument nobody compares; the second one, under the whole deployment,
finds a pair that hide each other. The contexts are a deployment that publishes
everything, one whose cancellation has no captured layout, accepted or not, one
that does not list the oracle, excepted in two ways or not, and a delegate under
four scopes. The run ends when the request does, so deadlock is not checked.

`installation`: two openings that fit the budget but not the ceiling, and one that
fits beside either. Two processes of different kinds are what it takes for each
to miss what the other does; two writes at once in one process, with equal
intents, what it takes to confuse their permits. Equal writes are interchangeable,
so symmetry is sound (no liveness is checked). A write that ended is not asked
again: `Writes` bounds the run, and deadlock is not checked.

`onboarding`: two accounts are what `NeverChooses` needs; two looks let the answer
change within one wait. One unprompted change by an owner or the operator and one
outage each already interleave with every step; the safety properties were also
checked with two changes, and all of them with two outages. Deadlock is checked.

Fairness (`onboarding`). The operator goes on doing what it is told,
`WF(Operates)`; an owner who was asked signs some time (the handshake is
defined by that, and the code cannot sign for it); the index catches up; a service
that went comes back. Owners need do nothing else, and events may scroll away at
any time. The property is `[]<>`: whatever is taken back, a trade is offered
again on a grant that is there.

## 9. Proofs

### The runner

`RunnerProofs.tla` proves, for every set of intents, keys, clocks, number of
jobs, attempts and crashes, and both fault switches:

- `TypesHold`: `Spec => []TypeOK`;
- `DigestIsDurableFirst`: `Spec => []DigestBeforeBytes`;
- `FailedIsHarmless`: `Spec => []NothingLive`;
- `SubmittedAtMostOnce`: `NoForgetting` implies `Spec => AtMostOnce`, that is,
  the runner refines `OnceOnly`. `NoForgetting` says that unlinks do not fail
  for longer than retention. Without it an unlink that keeps failing
  outlives the job that remembers the intent (section 11).

Assumed: `RunnerAssumption`, which only types the constants (TLC evaluates it in
every run).

The argument. None of the properties is inductive: what they say of a sent
transaction depends on memory and disk agreeing with each other, and that holds
only up to the flushes that threw. `IInv` is the conjunction of

- `Control`: what the program counter implies of `cur`'s record, in memory and
  on disk; in particular at `sending` and `answer` both hold the digest;
- `Ledgers`, made of `Vouches` and `AnswersFor`: each record of either ledger
  accounts for the attempts of its job that were sent, so a record that says
  `queued` or carries no digest has no live transaction behind it;
- `Alone`: at most the attempt a record names was ever sent;
- `Origins`: a record's inbox id is the one its job was made from, ids are fresh;
- `Remembered`: an intent with a transaction has a job that ingestion recognises
  (or its file is gone);
- `Drained`, `Books`: what the drain holds in hand was submitted, and the history
  variables agree.

`Invariance` proves `Spec => []IInv`, one step per action; the theorems follow
from its parts, and the refinement maps `Send` to `OnceOnly`'s `Submit`,
`Submit` and `AwaitReduce` to `Accept`, and everything else to a stutter. `IInv`
itself was checked by TLC on the instances above before it was proved.

`RunnerLedgerProofs.tla` builds on that and proves, for the same instances, what
the ledgers say from step to step:

- `OneQuestionAtATime`: `Spec => []OneOpenQuestion`;
- `OneIdeaInPlay`: `Spec => []OnePerKey`;
- `QuestionsStayOpen`: `Spec => UnresolvedStays`;
- `FileIsTheRecord`: `~FlushFaults` implies `Spec => IntentNeverLost`. The
  hypothesis cannot be dropped: `lost_intent` violates the property with it.

The invariant is `LInv`: `IInv` with `Ambiguity` (while a submission is under way
memory is on disk and no other job is ambiguous, nor is one when a fit-stop is
about to be submitted), `Lasting` (what is unresolved on disk is so in memory,
so no write can clear it), `Synced` and `Acknowledged` (without throwing flushes
disk is memory, and the entry being acked is refused or on disk) and `OnePerKey`
itself. None of them follows from the guards of one action: a job that becomes
`submitting` read `blockedByAmbiguity` in memory, and what a restart loads is the
disk. The actions are first sorted into the few things they do to the two ledgers
(`Keeps`, `Moves`, `Begins`, `Signs`, `Adds`, `Prunes`, `Ceases`, `Resumes`), one
lemma per part of `LInv` then goes over those.

Only model-checked: the liveness properties, which are out of the prover's reach.

### The one-shot path

`OneShotProofs.tla` proves, for every set of plans, executes, reviews and
reconciles, and every fault:

- `TypesHold`: `Spec => []TypeOK`;
- `EverySendIsOnRecord`: `Spec => []LedgersAccount`, overlapping executes included;
- `VerdictsAreTrue`: `Spec => []VerdictIsTrue`, overlapping executes included;
- `FirstVerdictStands`: `Spec => VerdictStands`, overlapping executes included;
- `OneApprovalBuysOne`: `~Overlapping` implies `Spec => OneApprovalOneTransaction`.
  `~Overlapping` says that no two executes of one plan run at once. Nothing in
  the code enforces it, and `two_executes` shows that it cannot be dropped.

Assumed: `OneShotAssumption`, which only types the constants.

The argument. `OneWrite` says what a write does to a ledger, thrown or not:
nothing, or one record at its end; so ledgers only grow (`Grows`), and what a
command has recorded stays recorded. On that rest `Paperwork` (where an execute
is tells what the ledgers hold of it: the submission before `recorded`, the
consumption before `sending`, an approval throughout) and `LedgersAccount`.
`NewVerdicts` says that a verdict which was not there before agrees with the
chain, and `ChainMoves` that the chain does not change its mind. `Exclusive`
carries the refinement: while one execute of a plan runs, no other does or has
sent anything. `Begin` keeps it because it finds the plan unspent, and by
`LedgersAccount` an unspent plan has no transaction. `IInv` is the conjunction.
`Send` maps to `Submit`, an approval to `Accept`, everything else to a stutter.
`FirstStays` carries `VerdictStands`: a set of verdicts has one least place in the
ledger, a write goes behind it, and so `CHOOSE` picks the same record again.

Only model-checked: `SubmissionsSettle` (liveness).

### The installation

`InstallationProofs.tla` proves, for every finite set of agents, one-shots and
writes, every intent and scope the gate can be built with, and any number of
crashes and faulty appends:

- `InstallationInvariant`: `Spec => []IInv`;
- `LedgerCoversSignatures`: `Spec => []SpendCoversSignatures`;
- `BudgetOutlivesProcesses`: `Spec => []BudgetKept`;
- `PermitSignsOnce`: `Spec => []OneSignaturePerAuthorization`;
- `CeilingHoldsWhatItSees`: `Spec => []OpenWithinWhatWasSeen`.

Assumed: `InstallationAssumption`. The sets are finite, `Undefined` names no
write, process or gate, amounts and ceilings are numbers, absent or NaN, and the
scope is one that the constructor of the gate accepts.

The argument. The properties add up what was signed, and a signature comes long
after the line that pays for it, so what is between must be counted too: `Held`
are the writes authorized or built and not yet presented. `Covered` says that
what is signed and what is held together is in the ledger; `Counted` that the gate
of a running process has counted what its process holds, so a release never
takes back more than was counted; `Budgeted` that what is signed, what is held
and what the running gates have left (`Room`) together stay within `most`
ceilings. These are sums over changing sets; `SumLemmas` proves, for functions
instead of operators, what they need of `SumFunctionOnSet`: one element more or
less, pointwise comparison, disjoint unions, renaming. `Running`, `Issued` and
`Used` tie permits to the process that issued them, the stage of their write and
the signatures they gave, from which `OneSignaturePerAuthorization` follows;
`Weighed` says that nothing NaN or unstated got past an authorization. The
ceiling needs no history: a measurement sums what the write was told of, and
whatever it was not told of is `unseen` by the time it is authorized.

`OpenCeilingHolds`, the sentence of the documentation without "what it was told
of", is false (`open_ceiling`).

### The signature

`SigningProofs.tla` and `MeantProofs.tla` prove, for every request and queue,
every answer of the backend, every composition, any number of changes to the
bytes, every scope, deployment, corpus and list of exceptions:

- `SignedIsWhatWasMeant`: `Spec => []SignedIsMeant`;
- `SignedStaysInScope`: `Spec => []SignedIsWithinScope`;
- `WhatRestsCanBeTakenBack`: `ExceptionsAreForeign` implies
  `Spec => []PlacedIsRetractable`. `ExceptionsAreForeign` says that no standing
  exception is of the package that trades. The hypothesis is needed: an operator
  may except the cancellation alone and name the wrong package of the SDK for it,
  and then the verifier holds the cancellation to a function that package does not
  declare (`verify.ts:1939-1950`) while it signs the placement.
- `QueueFollowsTheGate`: `Spec => []QueueAgreesWithGate`.

Assumed, and each what a parser or a constructor of the code refuses otherwise:
`NumberAssumption` (absent and NaN are no numbers), `AskAssumption` and
`QueueAssumption` (a request has the parameters its plan method cannot do
without, amounts are numbers and flags are Boolean; an intent of the queue has
the fields of its kind, `types.ts`, which is how `runner-submit` builds one),
`MarketAssumption` (a price is positive, a position and an order have a side and
numbers), `ContextAssumption` (the ceilings of a complete scope are numbers),
and, for the first and the third theorem, `NameAssumption` (the signer, the
configured account and the ticker and order id that are asked are there, the
latter three are text, and absent is no Boolean and not what fails to decode).
Nothing is assumed of the bytes but that they are a composition, changed any
number of times.

The argument for the scope. Three parts look at a request and none of them at
all of it: the plan says of itself what it commits, the gate compares only that
with the scope, and the verifier compares only the bytes with the plan. So the
proof goes the same way. `OpenSays`, `LimitSays` and the others read the fields
of each intent; `GateIsMet` and `Bounded` say what an authorization makes of
them, where `LeverageBounds` turns the rounded quotient the gate compares into
the product the ceiling means, and `SlippageBounds` the percentage into a price.
`CallIsTheActions` says that what matches an action of a delegate performs
nothing but the action's one call, with every argument bound, and the tables
(`IncreaseIsBound`, `PlaceIsBound`, ...) to what. An order is placed by what its
call is handed: `PlacedIsConstructed` shows that this is among what the verifier
looked at, so no order escapes it, and needs `ReachableIsDefined`, that the
verifier's walk over the results has a solution (the smallest closed set). A leg
commits nothing; the other order is the plan's. `Sound`, the invariant, says how
far a request has come: what was asked could be planned, what was composed was
authorized, what was signed was verified, all of them against one market and one
knowledge of the deployment.

The argument for the meaning. `SignedIsMeant` knows neither plan nor verifier, so
the proof has two halves that meet in the intent. `PlaceReads`, `CloseReads` and
the others read the verifier's table of each call: which parameter is held to
which field, and that nothing else is held; `ValuesAre` makes of them what a
verified call says. `CloseIsMeant`, `MintIsMeant` and the others compute what the
plan of each request puts into those fields. Orders need more, since a call that
places one only names results. The verifier walks from it to every constructor
within reach; that those are exactly the ones it is handed (`PlacedAre`) rests on
`OrderIsFormed`: commands are a sequence of records and the authority handle is
made of nothing. The composer writes them so (`PlacementIs`) and every change
keeps it (`NextKeepsForm`). Without it a walk might reach a constructor through
the handle, which the verifier counts and nothing places. The inductive invariant
is `Sound` and `OrderIsFormed`. That each leg uses up one authorized descriptor is
`LegsAreTheAuthorized`, a map in place of the loop with `splice`; `Matching` turns it into
equality, because a bracket has at most one take-profit and one stop and their
descriptors differ (`LegsAsked`), so as many legs as descriptors leave none over
and none doubled (`LegsAreAsked`). The main order is compared field by field
(`MainIsTheEntry`), its acceptable price by `SizesAgree` and the rounding of the
plan.

The argument for the way back. A cancellation is composed of commands that a
placement has too, but for one, and whoever signed the placement has looked at
what that one needs: `PlacementTells` reads, from the types, objects and
authority handle of the place call and from the layout the verifier asks for
before anything may rest, that the deployment describes the cancellation
(`CancelIsDescribed`). `CancelIs` computes what the backend composes,
`CancelArgumentsAreBound` and `CancelShapeIsAllowed` hold it to the verifier's
tables, and `PlacementIsRetractable` puts them together. `Intact` adds to
`Sound` that bytes nobody changed are the ones the plan is composed to.

The argument for the queue. What the queue reads of an intent it reads from a
projection of its fields, what the gate reads comes from a plan made later.
`Mirrors` says field by field where the two are the same (`SizedMirrors`,
`OthersMirror`) and where the projection is empty (`HiddenMirrors`). The one field
that differs is the leverage: the plan turns it into a size in whole units and
reads it back from there, and `RoundedLeverage` says by how much that may move it
past a ceiling. `QueueIsKept`, added to `Sound`, keeps that the answer was given
under the same scope at an earlier time and that what is asked is asked for that
intent.

### The handshake

`OnboardingProofs.tla` proves, for any accounts, owners, looks, unprompted
changes, outages and previews:

- `HandshakeInvariant`: `Spec => []IInv`;
- `AdoptsLiveGrants`: `Spec => AdoptedWasLive`;
- `LeavesTheChoice`: `Spec => NeverChooses`;
- `SilenceIsNoGrant`: `Spec => NobodyMeansNobody`;
- `SettlesBeforeTrading`: `FlagsStale` implies `Spec => TradeComesLast`.
  `FlagsStale` says that the backend marks a grant in the slot the contract no
  longer reads; an older one cannot tell (`delegation.ts:603-607`) and lists it as
  full. The hypothesis is needed: without it TLC finds a trade offered while the
  list still holds the old grant of an owner who has just signed a new one, since
  `doctor` asks the chain and the chain is ahead.

Assumed: `OnboardingAssumption` (finitely many accounts, `Undefined` none of them
and no owner, `Looks` a number) and `UndefinedAssumption` (`Undefined` names no
state of `next`).

The argument. The properties compare what a command holds in memory with what
the chain said all the while, read account by account. `StillGrants` and
`Witnessed` say what the history is worth now: what granted all through the look
grants, what grants during an adoption has granted since it began, and what is
about to be saved did. `Accounted` follows a candidate through the look: while it
reads, whatever granted all through is still to be read, found, or could not be
read. `OffersNothing` says that nothing is offered before everything is read.

### What is left to TLC, and why

- Liveness (`SubmittingSettles`, `SubmittedEnds`, `InboxDrains`, `QueueMoves`,
  `SubmissionsSettle`, `HandshakeCompletes`): fairness and ENABLED are out of the
  prover's reach.
- Of `Signing`: `ComposedIsSigned` speaks of what a backend composes for each of
  the twenty operations, argument by argument, which is done for the cancellation
  alone.
- The properties of the runs that expect a violation.

Each inductive invariant was checked by TLC before it was proved, as an invariant
of the passing runs of its module.

## 10. Properties

Runner. `DigestBeforeBytes`, `NothingLive`, `OneOpenQuestion` and `OnePerKey`
speak of the ledger on disk as well as of memory: the state a restart would read
must be as safe as the state the process acts on. `AtMostOnce` is the refinement.
`UnresolvedStays` and `IntentNeverLost` are action properties: what no step may
clear or drop before it is finished. `SubmittedEnds` leaves out a job whose rows of
order history are out of reach, and only that: sections 3 and 11.

One-shot. `LedgersAccount` is what makes a lost answer answerable, `VerdictIsTrue`
and `VerdictStands` what makes the answer worth having, `SubmissionsSettle` that
there is one, but where an executed and buried submission, it or a newer one, stops
`reconcile`, and `OneApprovalOneTransaction` the refinement.

Signing. `SignedIsMeant` compares the bytes with the request and knows neither
plan nor intent, so it holds planner and verifier to each other; the arguments it
does not read are the ones the README of the code lists as unconstrained. Bytes
that name no sender may be signed (`verify.ts:2403`), and the main order of a
reduce-only limit is not among the orders it asks for, because the verifier signs
none: `EntryIsPlaced` says what a reader expects and is false (section 11).
`SignedIsWithinScope` reads the signed bytes against the scope. `ComposedIsSigned`
is the other direction: what a person asks for and the backend composes faithfully
is signed, except in three known cases, which are never signed.
`QueueAgreesWithGate` says in which cases admission and authorization may differ:
a leverage at the ceiling that the rounding of the size lifts over it is admitted
and refused, and one above it is turned away though the gate would take it only
when a size is named as well or a unit is worth twice the collateral.
`PlacedIsRetractable` relates two requests under one knowledge of the deployment.

Installation. `SpendCoversSignatures` and `BudgetKept` relate the ledger to what
was signed over restarts and torn lines; the budget is per process that held it at
one time, and `BudgetKept` says no less and no more. `OneSignaturePerAuthorization`
is about any permit presented with any bytes. `OpenWithinWhatWasSeen` states the
ceiling up to what no authorization could see; `open_ceiling` shows that the rest
is reachable.

Onboarding. `AdoptedWasLive`, `NeverChooses` and `NobodyMeansNobody` compare what
a wait does at its end with what the chain said all the while; `NeverChooses` says
nothing of accounts the look could not read or was not told of;
`TradeComesLast` is about a decision made from reads that were made one by one.

Each property has a mutant in a module it is about, a variant of one definition
as a plausible bug would leave it, under which TLC finds the property violated.

## 11. Findings

Each of these has a run:

- `lost_intent`: after a flush that threw, memory is ahead of the file, and the
  next pass acks the inbox file because memory knows the job.
- `two_executes`: two executes of one approved plan that overlap both send;
  the approval is read once, before the build, and marked consumed after it.
- `early_verdict`: `reconcile` records a transaction as never landed, and a retry
  as safe, while the transaction may still execute; the first verdict stays.
- `composed_refused`: a reduce-only limit order can never be signed; its main
  order is taken for a bracket leg.
- `open_ceiling`: an order that landed and is not filled is counted neither as a
  position nor as in flight, so opens sent one after the other exceed
  `maxOpenCollateral`; what the runner sends is never counted as in flight.

Further disagreements between code and text met while modelling, which the models
reproduce but no run of the list is spent on:

- `verify.ts:21-22` says that "the transaction performs the operation it is
  presented as". Of a reduce-only limit order that is asked with a take-profit,
  bytes that place the take-profit alone are signed: `attachesToExisting`
  (`verify.ts:1746`) lets no main order be expected. The cause is that of
  `composed_refused`; add `EntryIsPlaced` to the invariants of `signing.cfg`.
- An answer `UNCONFIRMED` counts as an observation, and an on-chain kind is then
  `filled` although its transaction may not have landed (`runner.ts:415-419`,
  `515-520`; `types.ts:122-126`).
- `README.md:1061` says that "The fill wait ends at a terminal order status or at a
  deadline". A job whose order rests while its account writes more than a thousand
  newer order rows has neither: `outcomeOf` throws at its page cap
  (`reconcile.ts:161-166`), `tick` keeps the state (`runner.ts:344-348`) and the
  deadline, which is checked after the read (`runner.ts:587`), is never reached.
  Remove `\/ j \in buried` from `SubmittedEnds` and `runner_live` shows it.
- The one-shot `reconcile` has the same cap between the verdict and its record
  (`scripts/agent/reconcile.ts:147-153`): an executed submission behind it is never
  settled, and neither are the older ones, which are asked after it; `--id` still
  reaches those. An agent must not trade while the list is not empty
  (`submissions.ts:146`). Without the exemption `SubmissionsSettle` fails.
- An `execute` whose trade was confirmed and whose `settle` then throws ends as
  `rejected` with `submitted: false` (`execute.ts:216`, `Confirmed`). The record is
  right (`LedgersAccount`) and `reconcile` settles it (`SubmissionsSettle`); the
  report is wrong, and no property holds of it.
- An unlink that keeps failing plus retention executes an intent twice
  (`runner.ts:296-299`, `store.ts:184-196`): add `"retain"` to `Clocks` of
  `runner_faults`.
- A request that fails after its bytes left is reported as `unavailable`, not
  submitted, safe to retry (`http.ts:105-108`, `classify.ts:102-110`).
- `removeAllDelegates` of an owner with several accounts is refused, though its
  plan "revokes every delegate across all of the owner's accounts" (`agent.ts:1276`);
  an update of a leg reported with no collateral has leverage NaN and is refused,
  so it cannot be fitted. Both are cases of `KnownRefusal`.
- `scope.ts` projects no `amount`, so a `remove-margin` or `wlp-mint` above the
  ceiling is admitted to the queue and always refused when it starts
  (`OnlyThePlanKnows`); `scope.ts:11-12` says that admission asks the settled rules.
- The cumulative budget is kept for each process that loaded it, not for all
  together (`BudgetKept` counts them in `most`), and a line cut short swallows the
  next one (`spend.ts:55-90`).
- A verifier that refuses after `consume` leaves the commitment counted, and an
  update of an order commits its collateral once more.
- `next` and the first look of `onboard` keep only the grants they could read, so
  an unreadable candidate reads as "Nothing grants this wallet yet"; the wait
  itself keeps them apart, which is `NobodyMeansNobody`.
- With `WATERX_OWNER_ADDRESS` set and no account, `next` says `doctor` for ever:
  set `ConfiguredOwner = "alice"` in `onboarding.cfg` and `HandshakeCompletes`
  fails.
- `doctor.ts:680-683` gives the page beside what the owner must do: "Where, not
  just what. This is the check a stuck install reads". The failures of `delegate
  scope` say only what (`delegate-scope.ts:41-73`, `doctor.ts:721-726`). With
  `FailingForOwner == {"delegate"}`, an owner who moves only on a link,
  `HandshakeCompletes` fails: a grant in the stale slot, adopted without anybody
  having been asked, leaves `next` and `doctor` naming each other.
- `onboard` holds the owner it read from the old account against a new grant, and
  then asks for `WATERX_OWNER_ADDRESS` to be removed although nobody set it.
- The list `delegationStatus` reads tells of no expiry: `onboard` reports an
  expired grant as `granted`.
- A write of the adoption ledger that throws comes after `.env` was written;
  the account is adopted and the ledger (`adoptions.ts:4-5`) has no line for it.

## 12. Not modelled, and why

- The lock of the job store (`store.ts:60-115`): planned. A killed runner leaves
  its lock, and a person removes it; `Runner` has one process.
- Retrieval of the deployment manifest and its grace period; the models take what
  the manifest says as a parameter.
- Request building and response parsing of the API clients; models see answers.
- Keys, their storage and the signer's pipe: no state a property speaks of.
- `doctor` but for the checks about the grant, feasibility findings, exposure
  summaries, QR codes, screens, launchers, query and developer scripts: they
  read, and report.
- Decimal parsing (exact or refused) and BCS decoding (decodes or not), and the
  generated tables beyond the packages and optional parameters they state.
- The loop of `sync-stops` over several legs; each update is a request of `Signing`.
