# new-api: a verification development

new-api is a gateway in Go that sells access to upstream AI providers: it
authenticates an API token, chooses an upstream channel, converts and relays the
request, and charges the user's wallet or subscription for what it cost.
This directory holds TLA+ modules of that program, the TLC configurations that check
them on small instances, and proofs for TLAPS.

## 1. Inventory

The program's own logic is in `controller/` (handlers), `service/` (billing, channel
selection, task polling), `model/` (database rows and their caches), `middleware/`
(authentication, distribution, rate limits), `relay/` (the request flow; one package of
protocol conversion per provider under `relay/channel/`), `common/` and `pkg/`.
`web/` is the user interface, two single-page applications over the gateway's API; most of the repository's
lines of code are there.

| Component | State | Operations | Interacts with |
|---|---|---|---|
| Unified billing session (`service/billing_session.go`, `funding_source.go`) | per request: funding source, `preConsumedQuota`, `tokenConsumed`, `extraReserved`, flags `trusted`, `fundingSettled`, `settled`, `refunded` | `NewBillingSession`, `preConsume`, `Reserve`, `Settle`, `Refund` (a gopool goroutine) | wallet, token and subscription rows; called by the relay handlers |
| Relay handlers (`controller/relay.go`, `relay/relay_task.go`) | attempt, last error, deferred refund | `Relay`, `RelayTask`, retry decision | session, channel selection, violation fee, panic recovery |
| Post-consumption (`service/text_quota.go`, `quota.go`, `violation_fee.go`) | none of its own | `PostTextConsumeQuota`, `SettleBilling`, `PostConsumeQuota`, `ChargeViolationFeeIfNeeded` | session, quota store, enterprise limits, logs |
| Subscription records (`model/subscription.go`) | `amount_used` of each subscription, one pre-consume record per request id, next reset time | pre-consume, refund of a record, delta, reset, expiry, record cleanup | session; the reset task |
| Quota store (`model/user.go`, `token.go`, `utils.go`, `*_cache.go`) | rows, Redis copies, in-memory batches of increments | increase, decrease, read through the cache, batch flush | everything that charges |
| Asynchronous tasks (`model/task.go`, `service/task_polling.go`, `task_billing.go`) | task rows: status, progress, quota | submit, poll, sweep timed-out, compare-and-swap of the status, refund, recalculation, realtime fetch | session, quota store, every node's polling loop |
| Realtime relay (`relay/channel/openai/relay-openai.go`, `service/quota.go`) | usage not yet charged, total usage | `PreWssConsumeQuota` per response, `PostWssConsumeQuota` at the end | session, quota store; two reader goroutines per connection |
| Channel selection (`service/channel_select.go`, `model/channel_cache.go`, `ability.go`) | cached abilities per group and model, retry index, automatic group | weighted choice by priority, next group | retry loop, cache refresh goroutine |
| Channel status (`model/channel.go`, `service/channel.go`) | status of a channel and of each of its keys, polling index | automatic disable and enable, key rotation | relay errors, channel test goroutine |
| Payments, redemption, orders (`controller/topup*.go`, `model/redemption.go`) | order status, wallet, affiliate quota | create, complete by webhook, expire, redeem, transfer | quota store |
| Commission and withdrawals (`model/commission*.go`, `agent_withdrawal.go`) | commission records, balances | mature, daily accrual, withdraw | payments |
| Enterprise limits (`model/enterprise_limit.go`) | use per limit and period | `CheckHardLimitsForUser`, `AccumulateLimitsForUser` | post-consumption, the legacy pre-consumption |
| Rate limits (`middleware/*rate-limit*.go`, `common/limiter`) | windows and buckets | allow, refill | every request |
| Account pool of a subscription (`service/subscription_pool*.go`) | accounts, their cool-downs and sticky sessions | choose, report | channel selection |
| Pricing (`setting/`, `pkg/billingexpr`) | ratios, expressions | price of a usage | post-consumption |
| Protocol adaptors (`relay/channel/`) | one stream | convert | upstream services |
| Playground chat (`web/default/src/features/playground`) | list of messages, as React holds it and as it is rendered and saved; the one stream that Stop closes | send, stream, stop, regenerate, edit, delete, reload | gateway's relay API, `localStorage` |
| Other pages of the web interface | what a form or a table shows | edit, validate, submit | gateway's API |
| Users, authentication, settings; caches and body storage; metrics and logs | rows, sessions, options | CRUD | all |

What is hard here. Nearly every step that moves money is one SQL statement or one
transaction of its own, in an order fixed by the Go code and nowhere atomic as a
whole: token and funding source are debited separately, a balance is checked by one
statement and debited by another, refunds run in a goroutine after the response has
been sent, an error of a refund is only logged. So the behaviours that matter are
*interleavings* of requests of one user, *partial failure* between two of the steps,
a *panic* between hold and settlement, a *kill* of the process while a refund is
pending, *retries* that repeat what was already done, several *processes* polling
the same tasks, *caches* that lag behind the row, and *totals* crossed at a limit.

What makes each component correct:

- *Billing session.* A served request pays exactly what it came to, a refused or
  failed one nothing; nothing is given back twice or after it was committed; a
  subscription is not used past its total; a wallet is overdrawn by no more than
  what races can explain; everything that is held is decided in the end.
- *Subscription records.* One record per request id, refunded at most once, also
  when refunds race, are retried, or cross a period reset; `amount_used` is the sum
  of what the records and deltas say.
- *Quota store.* No increment is lost or applied twice; the cache agrees with the
  row once updates have stopped.
- *Tasks.* A task reaches one terminal status, and is refunded or settled at most
  once whatever nodes poll it.
- *Playground.* An answer ends up in its own message, whole, whatever the user does meanwhile; what is
  streaming can be stopped; nothing stays "loading".
- *Realtime.* Each response of a connection is charged once.
- *Channel selection and status.* Every retry moves to a channel the rules permit; a
  channel an administrator has disabled is not enabled again.
- *Payments.* A paid order is credited once; a code is redeemed once.

The components not modelled yet, and the hazards of all of them at their lines, are
listed in `PROJECT.json`.

## 2. Plan

Modules, in the order in which they are written. The billing session comes first because
every paid request goes through it and because its mistakes are money.

| | Modules | Abstract specification | State |
|---|---|---|---|
| 1 | `BillingSession`: session, handlers, violation fee | `ChargeContract`: each request is decided once and costs what was decided | checked; type, safety and refinement proved |
| 2 | `SubscriptionQuota`: the transactions behind a subscription session | `SubscriptionRows`: each transaction is one change of the rows, but for those that are saved over | checked; type, safety and refinement proved |
| 3 | `TaskLifecycle`: polling, sweep, fetches and billing of asynchronous tasks | `ChargeContract`, for each task | checked; type, safety and refinement proved |
| 4 | `UserStore`: row, batched increments and Redis hash of a user; handlers that write the row back | stated as a conservation law, `Conserved` | checked; type and safety proved |
| 5 | `ChannelSelect`: retry walk over groups and priorities; automatic disabling, tests, keys, edits and synchronisation of channels | the table itself: what the cache must come to say | checked; type and safety proved |
| 6 | `PlaygroundChat`: the chat of the web interface | | checked; type and safety proved |
| 7 | `RealtimeBilling`: charging the responses of one websocket connection | `ChargeContract`, a response being a request | not written |
| 8 | `Payments`: orders, webhooks, affiliate transfer; enterprise limits, rate limits | an order is credited at most once | not written |

Composition. `BillingSession` keeps what each request has posted to an account. For wallet and token that is what the
row has lost. A subscription's row may lose postings (section 4), so `BillingSession` assumes nothing of what such a row says: one with
a total may cover or refuse any amount (`MayCover`, `MayLack`, `MayRefuse`), whatever has been posted to it. What the row says, and how
long it agrees with the postings, is the matter of `SubscriptionQuota` and its contract `SubscriptionRows`; so are commits that
succeed and report an error, which `BillingSession` has only inside the refund of a record (`LateFault`). For the wallet `UserStore` shows how far it is true: the sum of row and memory changes atomically
(`Conserved`), what a request is admitted by may lag behind (`CacheInStep`, `SettlesDown`).
`TaskLifecycle` starts where a task request of
`BillingSession` ends (its settlement, then the insertion of the row) and posts to the same
rows, each posting being one of the deltas of `SubscriptionQuota` or a `Change` of `UserStore`.
The attempts of a request in `BillingSession` are the tries of `ChannelSelect`, which bounds their number.

Every invariant and action property of the passing runs, and every refinement, is stated by a theorem (section 11). What is
left is liveness, which stays with TLC, and `ChargeContract` with panics and crashes, for which the contract
would need a decision of its own.

## 3. BillingSession

*State.* `pc[r]` is where the handler of request `r` is, `bg[r]` the goroutine that
`Refund` leaves behind; `funding`, `flags`, `held` and `reserving` are the fields of
`BillingSession`, `WalletFunding` and `SubscriptionFunding`. Rows of wallet, token,
subscription and enterprise limit are kept as `ledger[r][account]`: what `r` has taken from
the account, net of what it has given back. The balance of a row is its initial value less
the sum over the requests; so a property can tell whose quota was lost. The subscription is the exception: its row is not
derived from the ledger, and `SubLimited` only says whether it has a total at all.

*Actions.* One per statement that other requests can come between: the balance check and
the debit of `tryWallet` are two actions, and so are the debits of token and source, the
two commits of `Settle`, and the three calls of the refund goroutine. The first of these gives back a wallet's hold in one
attempt (`RefundWallet`) and a subscription's in up to three (`RefundSubscription`): an attempt that fails may have
committed the inner transaction of `RefundSubscriptionPreConsume`, and so have given the amount back, before the outer
one failed (`LateFault`). Hence `NeverOverRefunded` promises wallet, token and limit that nothing is given back beyond what was
taken, and a subscription that its hold is given back too often at most once per error. A database error may
meet each of the steps (`Fault`, at most `MaxFaults` per request), a handler may panic wherever
it calls the upstream or settles, and the process may be killed at any point. The choice
among the upstream's answers, whether a token is "rich" when it is authenticated, and the
cost of a response are nondeterministic. Requests take their kind, preference, estimate and
flags from `Profiles`.

*Contract.* `ChargeContract` knows a phase and an amount for each request. The mapping
takes `Spent(r)` less what is merely held (`Outstanding`), so every hold, fallback,
rollback and refund is a stutter and only the deciding step is a step of the contract.

*Left out.* The price computation (`due` is any of `Costs`), channels, logs and statistics,
the cached copies of wallet and token. A free model is estimated at 0 (`FreeAssumption`: with a ratio or price of 0
`relay/helper/price.go:124`, `:198` and `:271` ask for no hold). `Reserve` is modelled although no caller passes it
a target at present.

| Run | Instance | Shows |
|---|---|---|
| `billing_race` | two requests, four kinds of which one is estimated at nothing, `Reserve`, balances that cover one and a half | exact cost, agreement of the three holds, a bounded overdraft, nobody is charged twice, contract |
| `billing_faults` | one request of every profile under fairness, three errors, panic, kill | nothing is returned twice but a subscription's hold, once per error; nobody is charged twice; unless the process is killed every request is answered and every failure returned |
| `billing_panic` | one request | a disagreement, section 9 |

*Bounds.* Two requests are enough for every race of a check with a debit, as each
statement involves one request and one row. One retry gives an attempt before and after; three errors hit one step and the rollback of
another, or every attempt of a refund. Amounts are chosen on both sides of every comparison: `TrustQuota` and the balances
are each passed by some request and not by others.

## 4. SubscriptionQuota

*State.* `row[s]` is a `UserSubscription` row (used amount, period of the last reset,
status), `record[r]` the pre-consume record of a request id. A transaction of `o` keeps the rows it has read in
`copy[o]` and writes them back whole when it commits; `at[o]` is the time it works with.
History: `ledger`, what each request has posted to each subscription in each period, and `stale`, the subscriptions that were saved
by a transaction whose copy was no longer the row. The clock `now` counts reset periods.

*Actions.* `Begin…` is a transaction up to its last read, `Commit…` its writes and commit, with
the error and the lost acknowledgement it can meet. `BeginInner`/`CommitInner` is the transaction
that `RefundSubscriptionPreConsume` opens inside its own through
`PostConsumeUserSubscriptionDelta`; it needs a second connection of the pool. The maintenance
task lists what is due and then resets one row after the other; `Expire` and `Cancel` are single
`UPDATE`s.

*No row locks.* The code asks for them with the setting `gorm:query_option` = `FOR UPDATE`
(`model/subscription.go:762`, `:1030`, `:1103`, `:1147`, `:1214`). That is an option of the first gorm; `go.mod` requires
gorm 1.25.2, whose locking clause is `clause.Locking`, and which does not look at the setting. So the model locks nothing, and any
transaction may commit between the read and the write of another. Two pre-consumptions can read the same amount and
both be granted it: one of the two amounts is lost from the row, and the subscription is oversold; an expiry, a cancellation or a
reset can be undone in the same way. The properties are stated for this system. What holds of every row: it never says more than
its total. What holds of every row no transaction has saved over (`stale`): its use is what was posted, it is not oversold, and its changes are the atomic
ones of `SubscriptionRows`. And an ended subscription, or a period, comes back by nothing but a transaction that read it
before and is still under way (`EndedStaysEnded`, `ResetKept`). Without the condition TLC refutes each of them; the
counterexample of `UsageAccounted` is the two pre-consumptions above. (On SQLite the second of two overlapping writers gets an error
instead; that is a subset of the model's behaviours, as a commit that fails.)

| Run | Instance | Shows |
|---|---|---|
| `subs_race` | two requests, two subscriptions, one ends; reset, cancel | totals; use accounted for and changes atomic but for rows saved over; what brings an ended row or a period back |
| `subs_faults` | two requests under fairness, a pool of three connections, two errors or lost acknowledgements, a kill | one charge; an over-refund takes an error; everybody gets a connection, and a refund arrives |
| `subs_refund` | one request, one error | disagreement, section 9 |

*Bounds.* One subscription carries every race on a row, two the choice among candidates in order
of their end. Two periods put a hold before a reset and its settlement or refund after it. `subs_race` has no kill, whose only effect on the rows is that
a transaction does not commit, and `subs_faults` no resets: each would multiply the states of the other's question; the theorems have both. The pool of `subs_faults` is the smallest that works: with as many connections as
simultaneous refunds, each holds one and waits for a second (the mutant of `RequestsEnd` and a
smaller `MaxConns` both show it).

*Left out.* Purchase, orders, group changes, deletion, clean-up of old records, and the branch for a
duplicate record that is created concurrently: request ids are generated by the server and a
request does not run twice at a time.

## 5. TaskLifecycle

*State.* `row[t]` holds what decides over a task: its status and whether its progress is "100%".
`upstream[t]` is what has really become of it. Each poller has a `stage` of its loop, the list
`todo`, the rows `seen` when it loaded them, the task `cur` it is fetching, the `report` it got,
and the postings `due` that `RefundTaskQuota` or `RecalculateTaskQuota` is about to make. Clients that
fetch a task have a `cur` and a `report` as well. `paid[t]` is what the task has cost its funding source
and its token, `bills[t]` counts postings.

*Actions.* `Wake`, `Sweep`, `List`, `FailAnonymous`, `Dispatch`, `Fetch`, `Apply`, `EndRound` are the
steps of `TaskPollingLoop` between two accesses to the database or the network; `Wins` is
the condition of `UpdateWithStatus`, `BulkFail` the update without one; `ApplySuno` and
`SaveSuno` are the refund and the unconditional save of a Suno task; `PostFund` and `PostToken`
the two halves of a posting; `Look` and `Refresh` the two ends of `tryRealtimeFetch`. `Crash` kills
a poller; `Hang` is a fetch that never returns, as the upstream's client has no timeout unless `RELAY_TIMEOUT` is set
(`common/init.go:104`, `service/http_client.go:47`), and with it the whole loop stands still for good. One channel serves all tasks of an instance, and one round dispatches all platforms
together.

| Run | Instance | Shows |
|---|---|---|
| `task_race` | two pollers and a client, under fairness, with an error, a kill, a lost channel, stray reports and fetches that hang; one task that is polled or fetched | billed once, final status kept, token follows its source; a task ends unless a report strands it or every poller hangs |
| `task_billing` | one poller, two tasks of three kinds, old and new | end states are paid for, contract |
| `task_fetch` | one task, one client | a disagreement, section 9 |

*Bounds.* Tasks meet only in bulk updates, so two of them are enough, and one where the pollers race
for a row. A second poller gives every stale write. `MaxLooks` bounds the fetches of clients, which could
otherwise go on for ever. Suno tasks and tasks without an upstream id are left to `task_billing`: with two pollers
or an error they are refunded again (section 9), as often as the instance allows. `TokenFollowsFund` speaks of
tasks billed once for the same reason. The case of a Suno task that comes with a FailReason and a success needs `MayStray`, which
`task_billing` does not set, as it makes a successful task free; only the theorems of section 11 cover it. `TasksEnd` leaves out what would make it false and
nothing else: `Stranded`, a task at "100%" with an unfinished status, and all pollers hanging at once, which in the code one silent upstream
per process is enough for. Where every poller hangs the system is at a stop, so `task_race` does not check for deadlock.

*Left out.* Used-quota statistics, result data, the limits of 100 and `TaskQueryLimit` rows of the
listing queries, and Midjourney's own polling (`controller/midjourney.go`). The kind
"anonymous" stands for rows without any id, which today's submissions do not produce.

## 6. UserStore

*State.* `quota` and `enabled` are a user's row, `store` the increment `batchUpdateStores` keeps for
him, `drained` what `batchUpdate` has taken out of the map and not yet written, `cache` the Redis hash
or none. `job` holds the goroutines nobody waits for: an `incr` on its way to Redis (`checked` after it has
asked for the time to live) and a `fill` with the row as it was read; `write` what the caller that started an `incr` has still to write
to row or memory. `handler` holds the handlers that have loaded a row (stage "loaded", "read", "updated", "cached"). History: `owed` is the balance after every change a caller was told of, `lost` what kills and failed
flushes took, `clobbered` that a handler wrote back a balance which had changed, `inStep` that nothing
changed while the hash was filled, `revoked` that the user was disabled while nobody held an older copy.

*Actions.* `Change` is the start of `IncreaseUserQuota`/`DecreaseUserQuota`, which send a goroutine to the hash first; `WriteChange` is what the
caller then does to memory or row, before or after the goroutine is through. `TopUp` and `Override` write the
row alone. `Drain` and `Flush` are the two halves of `batchUpdate`; `Miss` and `Fill` a lookup without a hash; `Check` and `Add` the two
commands of `RedisHIncrBy`; `Load`, `First`, `Update`, `SetHash`, `Invalidate` a handler around `User.Update`
(or, for a profile, `User.Edit`): both read the row once more (`First`), write it, set the hash to what they have, and answer with an error of
that; `ManageUser` then deletes the hash of a user it has disabled, and only logs an error. `RedisFails`, an error in `WriteChange`, `Flush`, `Update`, `SetHash` or `Invalidate`, `Expire` and `Crash` may
come at any time; `MaxFaults` counts all but the expiry.

| Run | Instance | Shows |
|---|---|---|
| `user_store` | two goroutines, two handlers, three changes or edits in all, one error or kill, batch updates on | nothing is written twice or lost unnoticed; a hash filled in peace follows whichever comes first; a user whose hash was deleted in peace stays refused; everything settles in the end |

*Bounds.* Two slots give every order of a fill with an increment and of two increments; two handlers that of a
disabling with another edit. The charge is the initial balance, so that the balance 0, which `Updates`
skips as a zero value, is among the cases. With `BatchOn = TRUE` a change may still go
directly to the row (`db`), so both paths are in one instance.

*What a disabling does not promise.* `DisabledIsRefused` speaks of users whose hash was deleted without an error while nobody held an
older copy, and TLC refutes it without either condition. A lookup reads the row, the handler disables the user and
sets the hash, the lookup's fill lands, the DEL fails: the hash says "enabled" until it expires, although the comment at `controller/user.go:1107`
says that this is what the invalidation prevents. A fill that lands after the DEL does the same, and a handler that loaded the user before
enables him again in the row.

*Left out.* A token's hash, which works alike; the other counters of the batch updater; several processes, of
which each would have its own `store`; whole-row saves of affiliate balances.

## 7. ChannelSelect

*State.* `row` is the table: a status and, for channels with several keys, the keys that are disabled.
`cached` and `listed` are `channelsIDM` and `group2model2channels`; `snap[s]` is what a running
`InitChannelCache` has read. `req[r]` carries what the context and `RetryParam` remember (`index`,
`retry`, `again`) and, as history, what the request has asked in its present group. `job[w]` is a run of `UpdateChannelStatus`,
`admin` a handler of an administrator, `tester` a round of `testAllChannels`.

*Actions.* `Distribute` is the first choice, `Pick` the choice of a retry, `Served` and `Failed` the answer
with the retry decision and, perhaps, a worker that disables the channel. `LockStatus`, `CacheUpdate`, `ReadRow`, `ChangeCopy`, `SaveRow` are
the steps of `UpdateChannelStatus` under its lock: cache first, then the row, read, changed under the lock of its keys, and saved whole after
that lock was released. `SyncRead` and `SyncSwap` are
`InitChannelCache`, by the loop or at the end of an edit. It does not look at errors: channels it could not read are missing from the
cache (`Missing`), and without the abilities an enabled channel makes it panic (`SyncPanic`), which ends the handler, or, in the loop, the
process (`Restart`). `EditStatus` and `EditKeys` load, `LockKeys` takes the lock of the keys for what was loaded before, `AdminSave` writes. `TestOne`
tests one channel of the rows read by `TestAll`.

| Run | Instance | Shows |
|---|---|---|
| `channel_select` | a request, two groups, two channels of different priority of which one has two keys, one worker, one edit, error, panic or round of tests | tries are bounded, priorities exhausted; a channel disabled by hand stays so once no older copy of it is left; the cache catches up |

*Bounds.* One retry per group puts the reset of the counter in the middle of the walk. Requests meet only through the cache,
which the administrator, the worker and the tester change in every order around a single one. One worker is
enough for its steps to meet a synchronisation and an edit, since a second would wait for `channelStatusLock`. `MaxEvents` counts edits, rounds,
panics and errors together; one of them at a time already meets the failures of requests, which are not bounded by it.

`ManualStays` says less than an administrator may hope for: while a worker, a round of tests, a synchronisation or another handler holds the channel as
it was before, it may bring it back (`SaveRow`, `TestOne`, `SyncSwap`).

*Left out.* Affinity and a channel given by the token, weights among equals, the choice from the table of abilities when the
memory cache is off, the loop of `RelayTask`, the order of polled keys, creation and deletion of channels,
health scores, tags.

## 8. PlaygroundChat

*State.* `messages` is the list with every queued update applied, `shown` the list React has rendered (and saved);
they differ while `dirty`. `source` is `sseSourceRef`, `ended` the flag that every stream shares, `request[q]` what has become
of a request. Text is a sequence of the requests it came from. `disturbed` and `crossed` are history: the requests during which
the user rewrote the list, and the streams that were open together with another one.

*Actions.* Answers (`Chunk`, `Done`, `Fails`, `Truncated`, `Answer`) are functional updates of the last message
of `messages` and are seen after `Render`. What the user does (`Submit`, `Suggest`, `Regenerate`, `SaveEdit`,
`SubmitEdit`, `Delete`, `Stop`) starts from the list as it is shown, and each action is enabled only where the page enables its
button. `Leave` and `Mount` leave the page, return to it or reload it, with `sanitizeMessagesOnLoad`. `Truncated` models the `sse.js` client from how the page uses it.

| Run | Instance | Shows |
|---|---|---|
| `playground` | two requests of two chunks, streamed or not, one reload | own text, whole answers, what streams can be stopped, no message stays loading, final messages stay |

*Bounds.* Two requests give a stream that outlives its message, two chunks a stop or an edit between them. A third request adds
one case: a stream whose own messages the user has deleted writes into the last message that is left, and so can set a finished answer
to "streaming" again. `NoStuckSpinner` therefore speaks of messages that hold their own text only; the proofs of
section 11 cover any number of requests.

*Left out.* Lists of models and groups, presets of agents, payloads, copying and layout.

## 9. Where the code and its words differ

Three are runs that TLC must find violated; `PROJECT.json` quotes the lines.

- `billing_panic`: a panic in the first attempt leaves the hold with the gateway for good, because the
  deferred refund looks at an error that was never set (`controller/relay.go:172`).
- `subs_refund`: the refund of a record is not idempotent when its outer transaction fails after the
  inner one has committed (`model/subscription.go:1113`).
- `task_fetch`: a client's realtime fetch moves a task that the sweep has failed and refunded back to
  IN_PROGRESS, and the next sweep refunds it again (`relay/relay_task.go:500`).

Others the models contain without a run of their own; the properties above are stated so that they hold
beside them, and an instance that includes them reaches them in a few steps.

- A realtime fetch that brings FAILURE makes a task final that nobody refunds
  (`TaskLifecycle`, a client and the kind "realtime", `EndPaidFor`).
- Tasks of a channel that is gone are failed in bulk without a refund, although
  `service/task_polling.go:131` calls the same omission a leak (`MayLoseChannel`, `EndPaidFor`).
- Tasks without an upstream id, and Suno tasks, are refunded without the compare-and-swap that
  `model/task.go:432` asks for: two pollers, or for Suno one failing save, refund twice
  (`RefundedOnce`).
- A task whose progress is stored as "100%" with an unfinished status is never polled or swept again
  (`MayStray`, `Stranded` in `TasksEnd`), and a Suno task with a FailReason and a success is refunded (`ApplySuno`).
- The row locks of `model/subscription.go` are asked for in a way gorm 1.25 ignores, so rows are saved over each other (section 4). Neither
  a comment nor a test of the repository says more than the words `FOR UPDATE` do.
- The violation fee is taken while the refund goroutine may still be pending; the comment at
  `service/violation_fee.go:102` says after it. The total comes out right (`FailedPaysNothing`).
- What is settled through a session never reaches the enterprise limits (the `"limit"` entry of `ledger`).
- A handler that loads a user, and writes him back with `User.Update` after others have charged or disabled
  him, undoes what they did (`clobbered` and `revoked` in `UserStore`; `model/user.go:540`).
- A user who was disabled may stay enabled in the hash until it expires, when the DEL fails or a lookup is late
  (section 6; `controller/user.go:1107`).
- `RedisHIncrBy` asks for the hash and then adds: a hash that expired in between comes back with a
  balance alone, and such a user is refused until it expires again (`Add`; `common/redis.go:285`).
  A top-up does not touch the hash at all, so that a user who has paid may still be refused (`TopUp`).
- The comment at `service/channel_select.go:63` moves to the next group when no priority is left, and its example
  leaves a group of two after two tries. `GetRandomSatisfiedChannel` never runs out of priorities: a retry beyond the lowest asks
  the lowest again, and a group gets `RetryTimes + 1` tries whatever it has (`Target`; `PrioritiesExhausted` says what is
  left of the promise).
- The distributor ignores that a channel has no enabled key and lets the request go on without one; a retry
  ends there (`Distribute`, `Pick`). A failing key that is not among the channel's keys disables its first
  (`handlerMultiKeyUpdate`, `model/channel.go:641`).
- A channel with several keys that was disabled with its last key stays on the lists of the cache until the
  next synchronisation (`Delisted`), and the tester, which needs an enabled key, never enables it again (`TestOne`).
- `testAllChannelsRunning` stays set when the channels cannot be read, although the comment at
  `controller/channel-test.go:920` has it reset in every case: no later round begins (`TestAll`, "stuck").
- The Stop button and `sseSourceRef` know one stream. A suggestion or an edit can open a second beside it; when one of the two ends, the
  reference is cleared, Stop disappears although the other still runs, and an error of the other is ignored, as
  the shared flag says "completed": its message stays loading (`web/default/src/features/playground/hooks/use-stream-request.ts:36`;
  `crossed` in `Stoppable`, `disturbed` in `NoStuckSpinner`).
- An answer without a choice, and a stream that ends without [DONE], leave their message loading
  (`Answer`, `Truncated`; exempted by `NoStuckSpinner`).
- `sanitizeMessagesOnLoad` settles the last unfinished message only (`web/default/src/features/playground/lib/message-utils.ts:305`
  speaks of all); `Mount` does the same, and `NoStuckSpinner` holds because only the last one can be unfinished as
  long as the user has not rewritten the list.

## 10. Fairness

`BillingSession`: weak fairness of each handler and of each refund goroutine, which is what the Go scheduler
and the goroutine pool (unbounded, `gopool`) provide; requests need not arrive.
`SubscriptionQuota`: of each session and of the maintenance task; time need not pass, and nobody
need cancel or submit. `TaskLifecycle`: of each polling loop, and of the passing of time; the upstream need not
finish, a fetch need not return (`Hang` then ends the loop, and fairness asks nothing more of it), clients need not come. `UserStore`: of the batch updater (a ticker), of the goroutines and handlers, and of
the expiry of the hash, which Redis guarantees. `ChannelSelect`: of requests and tests (the upstream answers in the end; with
`RELAY_TIMEOUT` unset that is up to the upstream), of `UpdateChannelStatus`, of each synchronisation, read, failed or swapped, and of what an administrator's handler has begun;
nobody need edit or start a round of tests. `PlaygroundChat` is checked for safety alone, as its user may do nothing at all.
Errors and kills are never fair. `BillingSession` takes an answer of the upstream for granted too; what it promises of a request starts with the answer. The runs of `BillingSession`,
`SubscriptionQuota`, `UserStore` and `PlaygroundChat`, and `task_race`, set `CHECK_DEADLOCK FALSE` because those systems do stop: all their
requests end, the bounds on faults, periods, changes and reloads are used up, or every poller hangs. That nobody stops too early is what
the liveness properties say. Polling and synchronisation loops never stop, and the other runs of `TaskLifecycle` and that of `ChannelSelect` check that.

## 11. Proofs

The theorems hold for every value of the constants that the assumptions of the modules
allow: any number of requests, retries, tasks, pollers, subscriptions, channels, errors and amounts. What is summed over is
assumed to be finite (`Requests`, `Subs`, `Slots`), a cache without a hash to be told from one with it (`NoneAssumption`).

| Module | Theorem | States |
|---|---|---|
| `BillingSessionProofs` | `TypeCorrect` | `Spec => []TypeOK` |
| | `NothingOverRefunded`, `NothingSettledAndRefunded` | `NeverOverRefunded`, `SettledXorRefunded` |
| `BillingSessionExact` | `ServedExactly`, `FailedNothing`, `HoldsAlwaysAgree` | `ServedPaysExactly`, `FailedPaysNothing`, `HoldsAgree` |
| | `ChargeBounded` | `NeverOvercharged` |
| | `OverdraftIsBounded` | `Sober => (Spec => []OverdraftBounded)` |
| | `Implements` | `Undisturbed => (Spec => ImplementsContract)` |
| `TaskLifecycleProofs` | `TypeCorrect`, `BillsOnce`, `FinalIsFinal` | `TypeOK`, `BilledOnce`, `FinalStays` |
| | `TokenFollows` | `TokenFollowsFund` |
| | `EndsPaidFor`, `TasksImplement` | `Calm => (Spec => ...)` for `EndPaidFor` and `ImplementsContract` |
| `SubscriptionQuotaProofs` | `TypeCorrect` | `TypeOK` |
| | `OneCharge`, `OverRefundBounded`, `RefundsReturned` | `ChargedOnce`, `OverRefundNeedsFault`, `MarkedMeansReturned` |
| | `ResetIsKept`, `EndIsKept` | `ResetKept`, `EndedStaysEnded` |
| | `UseIsAccounted`, `NeverOversold`, `TransactionsAreAtomic` | `UsageAccounted`, `NotOversold`, `ImplementsRows` |
| `UserStoreProofs` | `TypeCorrect`, `BalanceConserved`, `DisabledRefused`, `HashInStep` | `TypeOK`, `Conserved`, `DisabledIsRefused`, `CacheInStep` |
| `ChannelSelectProofs` | `TypeCorrect`, `LoopBounded` | `TypeOK`, `TriesBounded` |
| | `EveryPriorityAsked`, `DisabledByHandStays` | `PrioritiesExhausted`, `ManualStays` |
| `PlaygroundChatProofs` | `TypeCorrect`, `StreamsStoppable`, `TextIsOwn` | `TypeOK`, `Stoppable`, `OwnText` |
| | `AnswersWhole`, `NoSpinner`, `FinalMessagesStay` | `AnswerWhole`, `NoStuckSpinner`, `FinalMessages` |

*Hypotheses.* Three names stand before a theorem, and each excludes what would make it false, not merely hard.
`Undisturbed` excludes database errors, panics and kills, after which a decided request may be reopened. `Calm` excludes errors, kills, fetches that hang, the client's fetch, a lost channel and
unknown answers, and asks for one polling process unless the swap guards every task: section 9 lists what becomes of
a failed task otherwise. `Sober` asks for a wallet that is not in debt at the start, for a request at all, and for either no database
error or no call of `Reserve`, which has none at present: when the rollback of a reserve fails, the wallet
has given an amount no session notes.

*BillingSession.* Neither safety property is inductive. The invariant that is, `SafeInv`, holds of each request on its own:
`StageInv` says which session, flags and goroutine are possible at each place of the handler;
`NoteInv` that the amounts a session notes are natural, nothing before the source has been asked,
and never more held than taken; `CoverInv` that each row has still given the request at least
what may yet be given back, whichever of the refund's calls come next. For the subscription the last holds until the goroutine begins: a failed attempt may
give the hold back before the next one does. `LaterInv` takes over there, and lets the row be short of one hold for every error (`TwiceGiven`). The argument is
local: a lemma shows that a step which leaves the entries of another request alone keeps that
request's invariant, so each action has one lemma about the request that takes it. `Effect` lemmas
state, entry by entry, what the nested updates of `ledger`, `held` and `flags` do; the arithmetic
leaves use only them.

`BillingSessionExact` replaces "at least" by equations, for a request that has met no database
error and has not panicked. `ExactInv` gives for each stage what the two sources and the token have
given to the unit: nothing yet (`AskedInv`), what the session notes (`HeldInv`), the price at the source and the
hold at the token between the two settlements (`HalfInv`), the price (`ServedInv`), what the
refund goroutine has still to return plus the fee (`FailedInv`). It rests on `SafeInv`, and on
`OutcomeInv`, which keeps a stage from being reached with the wrong outcome (a goroutine never returns
the hold of a request that was served). `OneRequest` shows that no action touches another request's entries, so
the lemmas of the actions speak of one request only.

`ChargeBounded` is about disturbed requests too, of which no equation survives. Its invariant `ChargeInv` keeps
what does: the source that is not the session's has given nothing (`SourceInv`), what is held is an amount that was asked for
and is what the source has given (`HoldInv`), unless a reserve's rollback failed (`Strayed`), and the
bound itself (`BoundInv`). Most actions leave the sources alone, and one lemma, `SameSpent`, serves all of them.

`Implements` first shows that the refinement mapping's `paid` is a function of its `phase` (`PaidIsCost`, from `ExactInv`
and `CalmInv`), so that a step need only be followed through `Phase`: `OpenDecision`, `SettleDecision` and `DecidedDecision`
say which decisions the actions take. A crash or a panic after the settlement began would
reopen a decided request, which the contract does not allow; hence `Undisturbed`, which is also what `billing_race` runs.

`OverdraftIsBounded` is about all requests together. `WalletInv` holds of each on its own: the wallet has given it no more than its
estimate, or what the response came to, and the fee and the reserves (`CapInv`; nothing has come to anything before the response, `DueInv`);
and who pays from the wallet found it at least as large as its estimate (`CheckedInv`). Balances only lose, so what a check has read
is at most `InitWallet`: any single estimate is covered, and the wallet can miss only those of the others. `SumTheorems` adds
these bounds up.

*SumTheorems.* A sum over requests is `SumFunction` of the library. What it becomes when one term changes (`SumOver`,
`SumOneChanged`), and that a smaller function has a smaller sum (`SumUpTo`), takes an induction over a finite set.
It is had without a predicate for a parameter from `SmallestSet`: a set of counterexamples has a smallest member, by the
library's well-foundedness of the strict subset ordering.

*TaskLifecycle.* That a task is billed once does not follow from the count of its bills: one must
also know that nobody is about to bill it. `SafeInv` says so: `BillInv`, that a task without a
final status is unbilled and in nobody's `due`, and a task with one has been billed or
is in one `due`, never both; `JobInv`, that what a poller still has in its list it has seen
unfinished, so that it cannot win the swap against a final status; `ClientInv`, that
clients touch tasks of realtime channels only. Every step keeps the billing of a task,
starts it (and then wins the swap) or posts it (`Keeps`, `Starts`, `Posts`), and
`BillStep` shows that each of them preserves `BillInv`. `FinalIsFinal` follows from the same
invariant, because a step that replaces a final status would have to win from one. Both are
about the kind "video": for "suno", "anonymous" and "realtime" tasks the code does not
have these properties, see section 9.

`TokenFollows` counts amounts. `FollowInv` says that before its first billing a task has cost what its submission was charged, on both
sides, and nothing is due to its token; after it, the only amount that may be due to its token is the difference between the two
sides (`TokenInv`). So the token equals the source, or still has what was charged. A task billed twice has no such invariant.

`EndsPaidFor` adds what the amounts are. A task has a `Verdict`, the status that is about to be saved or else the one of its row.
`PaidInv` says that a task with an unfinished verdict has cost its charge with nothing due, and that one with a final verdict
is paid for, or has one amount due that makes it so. It needs `LoopInv`, that what a poller still has to look at has not ended: true
of one loop, or of tasks that only the swap can end. `TasksImplement` maps a task's charge to what it has cost plus what is due to its
source (`DueAmounts`); the step that ends the task changes it once (`ChargesRight`), every posting leaves it alone.

*SubscriptionQuota.* `Known` ties the place of a request to what it has: who settles or refunds has a hold and a
record, and a transaction about to commit has read the rows it may save. For `ResetIsKept` and `EndIsKept` that is enough: a step leaves a row
alone, ends it, or saves what some transaction has read but for a reset and what is used (`Written`), and the properties speak of rows of which
no transaction has an older copy.

What a request is charged does not depend on what rows say. `Account` is its book: until its refund it has posted what its record says; a refund
gives the amount of the record back once per attempt, and every attempt but the last has met an error. The three theorems on charges and
refunds are read off it.

What a row says does. `UseInv` has two halves. The total holds of every row, saved over or not: what a transaction has read is within it (`Within`), since it was a row
once (`CopyOrigin`), and what it is about to commit fits the row as it has read it (`Fit`). That `used` lies between the net and the gross postings of the
row's period (`Books`) is claimed only of rows outside `stale`: there the copy is the row, or the commit puts the row into
`stale`. It is kept because postings before a refund are not negative (`Unspent`), and because a step does one of three things to the rows (`RowsMove`): nothing,
begin periods, or post one amount. The same classification gives the refinement; there one must also know that
no posting is of nothing (`AmountsInv`), or a commit could stutter where the abstract rows move.

*UserStore.* `Conserved` is inductive once the amounts in flight are counted: what memory holds, what the flush has
drained, what was lost. `DisabledRefused` rests on an invariant about every copy of the row, hash, pending fill and
handler (`NobodyHoldsEnabled`): a DEL that succeeds establishes it when there is no older copy, and only an enabling ends it.
`HashInStep` counts what goroutines have yet to add to the hash, less what callers have yet to write, so that either may come first; its invariant adds to `CacheInStep` that a copy which counts as
fresh is the balance itself, and nobody is about to change it (`Freshness`).

*ChannelSelect.* The bound follows from `WalkInv`: a request about to pick has made the tries of all groups before
`index` and `retry` more (`Turns`), and a reset of the counter always comes with a greater index. `ManualStays` compares two
states, and its proof goes through the copies a step may write; it needs no invariant but the domain of the table (`Table`), and takes the actions one by one in `SettledKept`.
`EveryPriorityAsked` numbers the priorities of a group: `Rank` is how many are higher, and the try after `i` retries asks rank `i`,
or the lowest (`RankReached`, `TargetRank`). `RankInv` keeps that an undisturbed request has asked exactly the ranks up to that of its last try
(`Ranked`), and that one which is to leave the group has made the try of rank `RetryTimes`; with no more than
`RetryTimes + 1` priorities, these are all (`AllAsked`).

*PlaygroundChat.* The page keeps one reference and every stream that ends clears it. `Stoppable` holds because a stream that was not crossed is the only
stream (`CrossInv`): so whoever clears the reference is that stream, or leaves crossed ones behind (`CrossedEnd`). For the list more is
needed, `Alone`: an open request that was not disturbed is the only one that is open.
`ListInv` says what follows for the list: the message of such a request is the last (`AtEnd`) and has every chunk that came
(`Coming`); list and rendered list differ in the last message at most (`Lag`), so that a handler, which starts from what is rendered,
loses nothing of a finished message; nobody's text is in another's message (`Texts`); no two messages have the same key
(`Distinct`). Steps fall into an answer into the last message (`AnswerRight`), a list made from the one shown (`MadeFrom`), and a list
kept message by message (`Keeps`), with a lemma each.

The type invariant of every module is proved, and no run repeats it beyond `billing_race`.

Model-checked only: liveness, for which `ENABLED` would be needed, that is `RequestsEnd` of `SubscriptionQuota`, `EveryRequestEnds`,
`FailureReturned`, `RefundArrives`, `TasksEnd`, `SettlesDown` and `CacheCatchesUp`; and absence of deadlock.

## 12. Not modelled

Realtime billing: two goroutines read and write the same counters without a lock, so a faithful model is one of
Go's memory, and the totals it would check are those of the adaptor. Payments, orders, commission and withdrawals, enterprise
limits as such, rate limits, Midjourney's polling loop and the account pool are components of their own that
meet the modelled ones in a `Change` of a balance or in nothing. A token's hash works like a user's. Of `UserStore` several
processes, of `ChannelSelect` the loop of `RelayTask`, the table of abilities and the creation and deletion of channels are left out.

Prices and expressions, protocol conversion of the providers, users,
options and administration, caches of request bodies, metrics and logs compute values the
models choose freely, or keep no state that requests share. The rest of the web interface is forms, tables and charts: each page holds what
the user typed and what the API answered, and no two of them share state. It is most of the repository's TypeScript, so
the share of TypeScript lines that the modules stand for is small and will stay so; what is modelled of Go is
counted by function in `PROJECT.json`. `PROJECT.json` also gives each component's
reason, and lists the hazards no property covers yet.
