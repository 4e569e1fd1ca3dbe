------------------------------- MODULE UserStore -------------------------------
(* A user's balance and status: the row of the users table, the increments  *)
(* the batch updater keeps in memory until it flushes them, and the hash in *)
(* Redis that requests are admitted by (model/user.go, user_cache.go,       *)
(* utils.go, common/redis.go).  The hash is changed by goroutines nobody    *)
(* waits for, and by handlers that hold a row they read before.             *)
EXTENDS Integers, FiniteSets, Functions

CONSTANTS
    Slots,        \* room for goroutines under way
    Handlers,     \* requests to the user interface's API
    None,         \* nothing there
    BatchOn,      \* BatchUpdateEnabled
    InitQuota,    \* the balance at first
    Changes,      \* what requests charge (negative) and give back
    TopUps,       \* what redemptions, payments and check-ins bring
    Overrides,    \* what an administrator may set the balance to
    MaxCalls,     \* changes of the balance and calls of the handlers
    MaxFaults     \* errors of the database and of Redis, and kills

ASSUME StoreAssumption ==
    /\ IsFiniteSet(Slots) /\ BatchOn \in BOOLEAN /\ InitQuota \in Int
    /\ Changes \subseteq Int /\ TopUps \subseteq Int /\ Overrides \subseteq Int
    /\ {MaxCalls, MaxFaults} \subseteq Nat

VARIABLES
    quota,        \* users.quota
    enabled,      \* users.status
    cache,        \* the hash user:<id>, or None
    store,        \* batchUpdateStores[BatchUpdateTypeUserQuota][id]
    drained,      \* what batchUpdate has taken out and not yet written
    job,          \* the goroutines, by slot
    write,        \* what the callers that started them have yet to write
    handler,      \* the handlers, with the row they have loaded
    calls, faults,    \* how many there have been
    owed,         \* history: the balance after every change acknowledged
    lost,         \* history: what crashes and failed flushes have lost
    clobbered,    \* history: a handler wrote back a balance that had changed
    revoked,      \* history: the user is disabled, nobody holds an older row
    inStep        \* history: nothing changed while the hash was being filled

dbVars == <<quota, enabled, store, drained>>
countVars == <<calls, faults>>
historyVars == <<owed, lost, clobbered, revoked, inStep>>
vars == <<dbVars, cache, job, write, handler, countVars, historyVars>>

Entry == [quota : Int, enabled : BOOLEAN]
Hash(q, e) == [quota |-> q, enabled |-> e]

(* "incr" adds quota to the hash, after it has been found alive (checked);  *)
(* "fill" writes what was read.  fresh: nothing has changed since the read. *)
Job == [do : {"incr", "fill"}, checked : BOOLEAN, quota : Int,
        enabled : BOOLEAN, fresh : BOOLEAN]

(* A change of the balance, for the batch updater or for the row.           *)
Write == [amount : Int, batched : BOOLEAN]

(* own: the balance the handler has is among the columns it writes.         *)
Call == [do : {"settings", "profile", "disable", "enable"},
         stage : {"loaded", "read", "updated", "cached"}, own : BOOLEAN,
         quota : Int, enabled : BOOLEAN, fresh : BOOLEAN]

ASSUME NoneAssumption ==
    None \notin Entry /\ None \notin Job /\ None \notin Call /\ None \notin Write

JobOf(do, checked, q, e, fresh) ==
    [do |-> do, checked |-> checked, quota |-> q, enabled |-> e, fresh |-> fresh]
WriteOf(d, batched) == [amount |-> d, batched |-> batched]
CallOf(do, stage, own, q, e, fresh) ==
    [do |-> do, stage |-> stage, own |-> own, quota |-> q, enabled |-> e,
     fresh |-> fresh]

Increments == {s \in Slots : job[s] # None /\ job[s].do = "incr"}

(* Nobody is changing the balance, and the row is all there is of it.       *)
Quiet ==
    /\ Increments = {} /\ \A s \in Slots : write[s] = None
    /\ store = 0 /\ drained = 0

(* What goroutines and handlers have read is stale once the balance changes.*)
StaleJob(j) ==
    IF j = None THEN None ELSE JobOf(j.do, j.checked, j.quota, j.enabled, FALSE)
StaleCall(c) ==
    IF c = None THEN None
    ELSE CallOf(c.do, c.stage, c.own, c.quota, c.enabled, FALSE)
StaleJobs == [s \in Slots |-> StaleJob(job[s])]
StaleHandlers == [h \in Handlers |-> StaleCall(handler[h])]

Fault == faults < MaxFaults /\ faults' = faults + 1

-----------------------------------------------------------------------------
(* The balance.                                                             *)

\* Mutant: the hash is not told of what is charged.
CachedChangeUp(d) == IF d > 0 THEN d ELSE 0

CachedChange(d) == d

(* IncreaseUserQuota and DecreaseUserQuota start a goroutine for the hash    *)
(* first ...                                                                *)
Change(d, db) ==
    /\ calls < MaxCalls /\ calls' = calls + 1
    /\ \E s \in Slots :
          /\ job[s] = None /\ write[s] = None
          /\ job' = [StaleJobs EXCEPT ![s] =
                JobOf("incr", FALSE, CachedChange(d), FALSE, FALSE)]
          /\ write' = [write EXCEPT ![s] = WriteOf(d, BatchOn /\ ~db)]
    /\ handler' = StaleHandlers
    /\ UNCHANGED <<dbVars, cache, faults, historyVars>>

(* ... and then call addNewRecord or update the row, which may fail.        *)
WriteChange(s) ==
    /\ write[s] # None
    /\ write' = [write EXCEPT ![s] = None]
    /\ \/ /\ write[s].batched
          /\ store' = store + write[s].amount /\ owed' = owed + write[s].amount
          /\ UNCHANGED <<quota, faults, inStep>>
       \/ /\ ~write[s].batched
          /\ quota' = quota + write[s].amount /\ owed' = owed + write[s].amount
          /\ UNCHANGED <<store, faults, inStep>>
       \/ /\ ~write[s].batched
          /\ Fault /\ inStep' = FALSE
          /\ UNCHANGED <<quota, store, owed>>
    /\ UNCHANGED <<enabled, cache, drained, job, handler, calls,
                   lost, clobbered, revoked>>

(* Redemption codes, completed payments, check-ins and an administrator's   *)
(* "override" leave the hash alone.                                         *)
SetRow(q) ==
    /\ calls < MaxCalls /\ calls' = calls + 1
    /\ quota' = q /\ owed' = owed + (q - quota)
    /\ job' = StaleJobs /\ handler' = StaleHandlers /\ inStep' = FALSE
    /\ UNCHANGED <<enabled, cache, store, drained, write, faults,
                   lost, clobbered, revoked>>

TopUp(d) == SetRow(quota + d)
Override(q) == SetRow(q)

\* Mutant: there is nothing to flush unless the user is to be credited.
DuePositive == store > 0

Due == store # 0

\* Mutant: the map is written, but not replaced.
LeftInStoreAll == store

LeftInStore == 0

(* batchUpdate takes the map and puts an empty one in its place ...         *)
Drain ==
    /\ Due /\ drained = 0
    /\ drained' = store /\ store' = LeftInStore
    /\ UNCHANGED <<quota, enabled, cache, job, write, handler, countVars, historyVars>>

(* ... and writes it; an error is logged, and the amount is gone.           *)
Flush ==
    /\ drained # 0 /\ drained' = 0
    /\ \/ /\ quota' = quota + drained
          /\ UNCHANGED <<lost, faults, inStep>>
       \/ /\ Fault /\ lost' = lost + drained /\ inStep' = FALSE
          /\ UNCHANGED quota
    /\ UNCHANGED <<enabled, cache, store, job, write, handler, calls,
                   owed, clobbered, revoked>>

-----------------------------------------------------------------------------
(* The hash.                                                                *)

(* GetUserCache without a hash answers from the row, and leaves the filling *)
(* to a goroutine.                                                          *)
Miss ==
    /\ cache = None
    /\ \E s \in Slots :
          /\ job[s] = None
          /\ job' = [job EXCEPT ![s] =
                JobOf("fill", TRUE, quota, enabled, Quiet)]
    /\ UNCHANGED <<dbVars, cache, write, handler, countVars, historyVars>>

(* updateUserCache: every field, and a time to live.                        *)
Fill(s) ==
    /\ job[s] # None /\ job[s].do = "fill"
    /\ cache' = Hash(job[s].quota, job[s].enabled)
    /\ inStep' = job[s].fresh
    /\ job' = [job EXCEPT ![s] = None]
    /\ UNCHANGED <<dbVars, write, handler, countVars, owed, lost, clobbered, revoked>>

(* RedisHIncrBy asks for the time to live, and does nothing without one ... *)
Check(s) ==
    /\ job[s] # None /\ job[s].do = "incr" /\ ~job[s].checked
    /\ job' = [job EXCEPT ![s] = 
          IF cache = None THEN None ELSE JobOf("incr", TRUE, job[s].quota, FALSE, FALSE)]
    /\ UNCHANGED <<dbVars, cache, write, handler, countVars, historyVars>>

(* ... then adds: to a hash that has gone meanwhile this gives a new one,   *)
(* which has no other field, and status 0 is not enabled.                   *)
Add(s) ==
    /\ job[s] # None /\ job[s].do = "incr" /\ job[s].checked
    /\ cache' = IF cache = None THEN Hash(job[s].quota, FALSE)
                ELSE Hash(cache.quota + job[s].quota, cache.enabled)
    /\ inStep' = (inStep /\ cache # None)
    /\ job' = [job EXCEPT ![s] = None]
    /\ UNCHANGED <<dbVars, write, handler, countVars, owed, lost, clobbered, revoked>>

(* Redis does not answer: the goroutine logs it.                            *)
RedisFails(s) ==
    /\ job[s] # None /\ Fault
    /\ job' = [job EXCEPT ![s] = None]
    /\ inStep' = FALSE
    /\ UNCHANGED <<dbVars, cache, write, handler, calls, owed, lost,
                   clobbered, revoked>>

Expire ==
    /\ cache # None /\ cache' = None
    /\ UNCHANGED <<dbVars, job, write, handler, countVars, historyVars>>

-----------------------------------------------------------------------------
(* Handlers that edit the user.                                             *)

(* They load the user, but for a profile, whose columns the request brings. *)
Load(h, do) ==
    /\ calls < MaxCalls /\ calls' = calls + 1
    /\ handler[h] = None
    /\ handler' = [handler EXCEPT ![h] =
          LET own == do # "profile" /\ quota # 0 IN
          CallOf(do, "loaded", own, IF own THEN quota ELSE 0,
                 do = "enable" \/ (do = "settings" /\ enabled), own /\ Quiet)]
    /\ UNCHANGED <<dbVars, cache, job, write, faults, historyVars>>

\* The call has read the row: what it does not write itself it takes from there.
Refreshed(c) ==
    CallOf(c.do, "read", c.own, IF c.own THEN c.quota ELSE quota,
           IF c.do = "profile" THEN enabled ELSE c.enabled,
           IF c.own THEN c.fresh ELSE Quiet)

(* User.Update and User.Edit read the row into the user they have, errors   *)
(* ignored ...                                                              *)
First(h) ==
    /\ handler[h] # None /\ handler[h].stage = "loaded"
    /\ handler' = [handler EXCEPT ![h] = Refreshed(handler[h])]
    /\ UNCHANGED <<dbVars, cache, job, write, countVars, historyVars>>

(* ... and write: settings, a disabling and an enabling write the user back *)
(* whole, except columns that are 0; a profile writes other columns only.   *)
Update(h) ==
    /\ handler[h] # None /\ handler[h].stage = "read"
    /\ \/ LET c == handler[h] IN
          /\ quota' = IF c.own THEN c.quota ELSE quota
          /\ enabled' = IF c.do = "profile" THEN enabled ELSE c.enabled
          /\ clobbered' = (clobbered \/ quota' # quota)
          /\ inStep' = (inStep /\ quota' = quota)
          /\ job' = IF quota' = quota THEN job ELSE StaleJobs
          /\ handler' = [g \in Handlers |->
                IF g = h THEN CallOf(c.do, "updated", FALSE, c.quota, c.enabled, c.fresh)
                ELSE IF quota' = quota THEN handler[g] ELSE StaleCall(handler[g])]
          /\ revoked' = (revoked /\ ~enabled')
          /\ UNCHANGED faults
       \/ /\ Fault
          /\ handler' = [handler EXCEPT ![h] = None]
          /\ UNCHANGED <<quota, enabled, clobbered, inStep, job, revoked>>
    /\ UNCHANGED <<store, drained, cache, write, calls, owed, lost>>

(* updateUserCache, before the handler answers; an error is its answer.     *)
SetHash(h) ==
    /\ handler[h] # None /\ handler[h].stage = "updated"
    /\ \/ LET c == handler[h] IN
          /\ cache' = Hash(c.quota, c.enabled)
          /\ inStep' = c.fresh
          /\ handler' = [handler EXCEPT ![h] =
                IF c.do = "disable" THEN CallOf(c.do, "cached", FALSE, 0, FALSE, FALSE)
                ELSE None]
          /\ UNCHANGED faults
       \/ /\ Fault
          /\ handler' = [handler EXCEPT ![h] = None]
          /\ UNCHANGED <<cache, inStep>>
    /\ UNCHANGED <<dbVars, job, write, calls, owed, lost, clobbered, revoked>>

\* Mutant: the hash, which says "disabled", is left as it is.
InvalidatedNot == cache

Invalidated == None

(* Somebody still has the user as it was before it was disabled, and is not *)
(* about to enable it.                                                      *)
OlderCopy ==
    \/ \E s \in Slots : job[s] # None /\ job[s].do = "fill" /\ job[s].enabled
    \/ \E h \in Handlers :
          /\ handler[h] # None /\ handler[h].enabled
          /\ ~(handler[h].do = "enable" /\ handler[h].stage \in {"loaded", "read"})

(* ManageUser clears the hash of a user it has disabled, logs an error, and *)
(* answers.                                                                 *)
Invalidate(h) ==
    /\ handler[h] # None /\ handler[h].stage = "cached"
    /\ handler' = [handler EXCEPT ![h] = None]
    /\ \/ /\ cache' = Invalidated
          /\ revoked' = (revoked \/ (~enabled /\ ~OlderCopy))
          /\ UNCHANGED faults
       \/ Fault /\ UNCHANGED <<cache, revoked>>
    /\ UNCHANGED <<dbVars, job, write, calls, owed, lost, clobbered, inStep>>

-----------------------------------------------------------------------------
(* The process is killed; the database and Redis go on.                     *)
Crash ==
    /\ Fault
    /\ lost' = lost + store + drained
    /\ store' = 0 /\ drained' = 0
    /\ job' = [s \in Slots |-> None] /\ write' = [s \in Slots |-> None]
    /\ handler' = [h \in Handlers |-> None]
    /\ inStep' = FALSE
    /\ UNCHANGED <<quota, enabled, cache, calls, owed, clobbered, revoked>>

Init ==
    /\ quota = InitQuota /\ enabled = TRUE /\ cache = None
    /\ store = 0 /\ drained = 0
    /\ job = [s \in Slots |-> None] /\ write = [s \in Slots |-> None]
    /\ handler = [h \in Handlers |-> None]
    /\ calls = 0 /\ faults = 0
    /\ owed = InitQuota /\ lost = 0
    /\ clobbered = FALSE /\ revoked = FALSE /\ inStep = FALSE

Batch == Drain \/ Flush
Goroutine(s) == Fill(s) \/ Check(s) \/ Add(s)
Handler(h) == First(h) \/ Update(h) \/ SetHash(h) \/ Invalidate(h)

Next ==
    \/ \E d \in Changes, db \in BOOLEAN : Change(d, db)
    \/ \E d \in TopUps : TopUp(d)
    \/ \E q \in Overrides : Override(q)
    \/ Batch
    \/ Miss \/ Expire
    \/ \E s \in Slots : WriteChange(s) \/ Goroutine(s) \/ RedisFails(s)
    \/ \E h \in Handlers :
          \/ \E do \in {"settings", "profile", "disable", "enable"} : Load(h, do)
          \/ Handler(h)
    \/ Crash

Spec == Init /\ [][Next]_vars

(* Goroutines run, callers and handlers go on, the updater wakes up, keys   *)
(* expire; no request need come, and nothing need fail.                     *)
FairSpec ==
    /\ Spec
    /\ WF_vars(Batch) /\ WF_vars(Expire)
    /\ \A s \in Slots : WF_vars(Goroutine(s)) /\ WF_vars(WriteChange(s))
    /\ \A h \in Handlers : WF_vars(Handler(h))

-----------------------------------------------------------------------------
TypeOK ==
    /\ quota \in Int /\ enabled \in BOOLEAN
    /\ cache \in Entry \cup {None}
    /\ store \in Int /\ drained \in Int
    /\ job \in [Slots -> Job \cup {None}]
    /\ write \in [Slots -> Write \cup {None}]
    /\ handler \in [Handlers -> Call \cup {None}]
    /\ calls \in 0..MaxCalls /\ faults \in 0..MaxFaults
    /\ owed \in Int /\ lost \in Int
    /\ clobbered \in BOOLEAN /\ revoked \in BOOLEAN /\ inStep \in BOOLEAN

(* Every change a caller was told of is in the row, in memory or known to   *)
(* be lost, exactly once, however flushes, changes and kills interleave,    *)
(* until a handler writes back a balance it read before.                    *)
Conserved == clobbered \/ quota + store + drained + lost = owed

(* What the goroutine in slot s has yet to add to the hash, and what its    *)
(* caller has yet to write.                                                 *)
ToAdd(s) == IF s \in Increments THEN job[s].quota ELSE 0
ToWrite(s) == IF write[s] = None THEN 0 ELSE write[s].amount

(* A hash that was filled while nothing changed follows every change that   *)
(* Increase- and DecreaseUserQuota make, whether the row or the hash has it *)
(* first.  What goes past the hash (redemptions, payments, check-ins, an    *)
(* override, an older balance written back) or fails ends this.             *)
CacheInStep ==
    inStep /\ cache # None
    => cache.quota + SumFunction([s \in Slots |-> ToAdd(s) - ToWrite(s)])
       = quota + store + drained

(* Once a user has been disabled, the hash cleared without an error, and    *)
(* nobody holds an older copy, no request is admitted again from the hash   *)
(* or the row, until the user is enabled.                                   *)
DisabledIsRefused ==
    revoked => ~enabled /\ (cache # None => ~cache.enabled)

(* When changes cease, everything is written and the hash says what the row *)
(* says, whatever was lost, doubled or overwritten before.                  *)
SettlesDown ==
    <>[](store = 0 /\ drained = 0 /\ (cache # None => cache = Hash(quota, enabled)))
=============================================================================
