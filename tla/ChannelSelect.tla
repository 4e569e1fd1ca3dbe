----------------------------- MODULE ChannelSelect -----------------------------
(* How a relayed request finds a channel and tries again (controller/       *)
(* relay.go, service/channel_select.go, model/channel_cache.go), and how    *)
(* failures, the tester, the administrator and the synchronisation of the   *)
(* cache change what there is to find (model/channel.go, service/channel.go,*)
(* controller/channel.go).                                                  *)
(*                                                                          *)
(* One process with the memory cache on, one model, a token of group "auto" *)
(* whose groups are 1 .. NumGroups; a token of one group is NumGroups = 1.  *)
(* A channel's row has its status and the keys that are disabled; cached    *)
(* and listed are channelsIDM and group2model2channels.                     *)
EXTENDS Integers, FiniteSetsExt

CONSTANTS
    Channels,     \* their ids
    Requests, Workers,            \* workers run UpdateChannelStatus
    NumGroups, GroupsOf, Priority, \* of each channel
    Multi,                        \* the channels with several keys
    Keys, FirstKey, NoKey,        \* their keys, and no key
    RetryTimes,                   \* common.RetryTimes
    MaxEvents     \* edits, rounds of tests and database errors together

ASSUME ChannelAssumption ==
    /\ Channels \subseteq Nat /\ IsFiniteSet(Channels) /\ IsFiniteSet(Keys)
    /\ NumGroups \in Nat \ {0}
    /\ GroupsOf \in [Channels -> SUBSET (1 .. NumGroups)]
    /\ Priority \in [Channels -> Nat]
    /\ Multi \subseteq Channels /\ FirstKey \in Keys /\ NoKey \notin Keys
    /\ RetryTimes \in Nat
    /\ MaxEvents \in Nat

VARIABLES
    row,      \* the channels table
    cached,   \* channelsIDM
    listed,   \* group2model2channels: the channels requests choose from
    snap,     \* what each running InitChannelCache has read
    req, job, \* requests, and workers with what they are to do
    admin,    \* the administrator's handler
    tester,   \* testAllChannels
    events    \* edits, rounds of tests and database errors so far

cacheVars == <<cached, listed, snap>>
vars == <<row, cached, listed, snap, req, job, admin, tester, events>>

Status == {"enabled", "manual", "auto"}
Entry == [status : Status, down : SUBSET Keys]
Entries == [Channels -> Entry]

(* In the cache, a channel that the last synchronisation could not read.    *)
Missing == [status |-> "missing", down |-> {}]
CachedEntries == [Channels -> Entry \cup {Missing}]
Syncers == {"loop", "admin"}
Ended == {"over", "gaveup"}  \* gaveup: its tries or the groups are used up
Groups == 1 .. NumGroups

Enabled(entries) == {c \in Channels : entries[c].status = "enabled"}
KeysUp(c, entry) == IF c \in Multi THEN Keys \ entry.down ELSE {NoKey}

(* A request; cross is its token's CrossGroupRetry.  History: the group it  *)
(* has asked last, at, the channels that group had when it came there, seen,*)
(* whether it has had them at every try, calm, the priorities it has asked  *)
(* there, prios, and its tries.                                             *)
New(cross) ==
    [pc |-> "new", cross |-> cross, index |-> 1, retry |-> 0, again |-> FALSE,
     chan |-> {}, key |-> NoKey,
     at |-> 1, seen |-> {}, calm |-> TRUE, prios |-> {}, tries |-> 0]

(* The process starts on a table in which channels may be disabled.         *)
Init ==
    /\ row \in [Channels -> {[status |-> s, down |-> {}] : s \in Status}]
    /\ cached = row /\ listed = Enabled(row)
    /\ snap = [s \in Syncers |-> {}]
    /\ req \in [Requests -> {New(cross) : cross \in BOOLEAN}]
    /\ job = [w \in Workers |-> [pc |-> "idle"]]
    /\ admin = [pc |-> "idle"] /\ tester = [pc |-> "idle"]
    /\ events = 0

--------------------------------------------------------------------------------
(* Choosing a channel                                                       *)

Of(g) == {c \in listed : g \in GroupsOf[c]}
Prios(C) == {Priority[c] : c \in C}

(* The priority of rank retry among those listed; a retry beyond the lowest *)
(* asks the lowest again.                                                   *)
Target(P, retry) ==
    CHOOSE p \in P : \/ Cardinality({q \in P : q > p}) = retry
                     \/ Cardinality(P) <= retry /\ \A q \in P : p <= q

GetRandomSatisfiedChannel(g, retry) ==
    {c \in Of(g) : Priority[c] = Target(Prios(Of(g)), retry)}

(* The groups from index on that list a channel: the walk takes the first.  *)
Usable(index) == {g \in index .. NumGroups : Of(g) # {}}
First(index) == {g \in Usable(index) : \A h \in Usable(index) : g <= h}

(* The retry within the group: a group that is skipped resets the counter.  *)
RetryIn(g, index, retry) == IF g = index THEN retry ELSE 0

\* Mutant: the last try of a group is not made.
ExhaustedEarly(q, retry) == q.cross /\ retry + 1 >= RetryTimes
Exhausted(q, retry) == q.cross /\ retry >= RetryTimes

\* Mutant: the counter is reset, the group stays.
NextGroupSame(g) == g
NextGroup(g) == g + 1

(* What a request that asks c of group g leaves for its next try.           *)
Asking(q, g, c, key, retry, index, again) ==
    LET stays == q.tries > 0 /\ q.at = g
    IN [pc |-> "ask", cross |-> q.cross, index |-> index, retry |-> retry,
        again |-> again, chan |-> {c}, key |-> key, at |-> g,
        seen |-> IF stays THEN q.seen ELSE Of(g),
        calm |-> stays => q.calm /\ q.seen = Of(g),
        prios |-> {Priority[c]} \cup (IF stays THEN q.prios ELSE {}),
        tries |-> q.tries + 1]

(* The request before its next try, and when it has ended.                  *)
Again(q, retry) ==
    [pc |-> "pick", cross |-> q.cross, index |-> q.index, retry |-> retry,
     again |-> FALSE, chan |-> {}, key |-> NoKey, at |-> q.at, seen |-> q.seen,
     calm |-> q.calm, prios |-> q.prios, tries |-> q.tries]
End(pc) ==
    [pc |-> pc, cross |-> FALSE, index |-> 1, retry |-> 0, again |-> FALSE,
     chan |-> {}, key |-> NoKey, at |-> 1, seen |-> {}, calm |-> TRUE,
     prios |-> {}, tries |-> 0]

(* The distributor's choice.  The retry parameter it prepares is dropped:   *)
(* only the group's index stays in the context.  That no key is enabled is  *)
(* not looked at, and the request goes on without one.                      *)
Distribute(r) ==
    /\ req[r].pc = "new"
    /\ IF Usable(1) = {}
       THEN req' = [req EXCEPT ![r] = End("over")]
       ELSE \E g \in First(1) : \E c \in GetRandomSatisfiedChannel(g, 0) :
              \E key \in IF KeysUp(c, cached[c]) = {} THEN {NoKey}
                         ELSE KeysUp(c, cached[c]) :
                req' = [req EXCEPT ![r] =
                    Asking(req[r], g, c, key, 0,
                           IF Exhausted(req[r], 0) THEN NextGroup(g) ELSE g, FALSE)]
    /\ UNCHANGED <<row, cacheVars, job, admin, tester, events>>

(* getChannel on a retry: CacheGetRandomSatisfiedChannel from the index of  *)
(* the context; no channel, or a channel without an enabled key, ends the   *)
(* loop.                                                                    *)
PickFrom(r, g, retry) ==
    \E c \in GetRandomSatisfiedChannel(g, retry) :
      IF KeysUp(c, cached[c]) = {}
      THEN req' = [req EXCEPT ![r] = End("over")]
      ELSE \E key \in KeysUp(c, cached[c]) :
             req' = [req EXCEPT ![r] =
                 IF Exhausted(req[r], retry)
                 THEN Asking(req[r], g, c, key, 0, NextGroup(g), TRUE)
                 ELSE Asking(req[r], g, c, key, retry, g, FALSE)]

Pick(r) ==
    /\ req[r].pc = "pick"
    /\ IF Usable(req[r].index) = {}
       THEN req' = [req EXCEPT ![r] = End("gaveup")]
       ELSE \E g \in First(req[r].index) :
              PickFrom(r, g, RetryIn(g, req[r].index, req[r].retry))
    /\ UNCHANGED <<row, cacheVars, job, admin, tester, events>>

--------------------------------------------------------------------------------
(* Answers of the upstream                                                  *)

Job(pc, c, key, status) ==
    [pc |-> pc, chan |-> c, key |-> key, status |-> status, copy |-> {}, orphan |-> FALSE]
Idle(w) == job[w].pc = "idle"

(* gopool.Go: some worker will update the status of a channel.              *)
Spawn(c, key, status) ==
    \E w \in Workers : /\ Idle(w)
                       /\ job' = [job EXCEPT ![w] = Job("wait", c, key, status)]

Served(r) ==
    /\ req[r].pc = "ask"
    /\ req' = [req EXCEPT ![r] = End("over")]
    /\ UNCHANGED <<row, cacheVars, job, admin, tester, events>>

(* shouldRetry and IncreaseRetry: an error of the channel is always tried   *)
(* again, another while tries are left; the counter stays when the group    *)
(* is about to change.                                                      *)
ShouldRetry(q, kind) == kind = "channel" \/ (kind = "status" /\ RetryTimes > q.retry)
IncreaseRetry(q) == IF q.again THEN q.retry ELSE q.retry + 1

Failed(r) ==
    LET q == req[r] IN
    /\ q.pc = "ask"
    /\ \E kind \in {"channel", "status", "fatal"}, ban \in BOOLEAN :
         /\ ban => kind # "fatal"
         /\ IF ban THEN \E c \in q.chan : Spawn(c, q.key, "auto") ELSE job' = job
         /\ req' = [req EXCEPT ![r] =
              IF kind = "fatal" THEN End("over")
              ELSE IF ShouldRetry(q, kind) /\ IncreaseRetry(q) <= RetryTimes
              THEN Again(q, IncreaseRetry(q))
              ELSE End("gaveup")]
    /\ UNCHANGED <<row, cacheVars, admin, tester, events>>

--------------------------------------------------------------------------------
(* UpdateChannelStatus                                                      *)

KeysLocked(c) == admin.pc \in {"save", "sync"} /\ admin.chan = c /\ admin.keys
AtWork(w) == job[w].pc \in {"mark", "read", "change", "save"}
Step(w, pc, copy, orphan) ==
    [job EXCEPT ![w] = [pc |-> pc, chan |-> job[w].chan, key |-> job[w].key,
                        status |-> job[w].status, copy |-> copy, orphan |-> orphan]]
Done(w) == [job EXCEPT ![w] = [pc |-> "idle"]]
With(entry, status) == [status |-> status, down |-> entry.down]

(* A key that is not found is taken for the first.                          *)
handlerMultiKeyUpdate(entry, key, status) ==
    LET k == IF key \in Keys THEN key ELSE FirstKey
        down == IF status = "enabled" THEN entry.down \ {k} ELSE entry.down \cup {k}
    IN [status |-> IF down = Keys THEN "auto" ELSE entry.status, down |-> down]

Updated(c, entry, key, status) ==
    IF c \in Multi THEN handlerMultiKeyUpdate(entry, key, status) ELSE With(entry, status)

(* channelStatusLock, and the cached channel as it is found, if it is.      *)
LockStatus(w) ==
    LET j == job[w]
        found == cached[j.chan]
    IN
    /\ j.pc = "wait" /\ \A v \in Workers : ~AtWork(v)
    /\ job' = IF found = Missing \/ (j.chan \notin Multi /\ found.status = j.status)
              THEN Done(w) ELSE Step(w, "mark", {}, FALSE)
    /\ UNCHANGED <<row, cacheVars, req, admin, tester, events>>

(* The lists after CacheUpdateChannelStatus: nothing is put back on them,   *)
(* and a channel with several keys is not taken off.                        *)
Delisted(c, status) == IF c \in Multi \/ status = "enabled" THEN listed ELSE listed \ {c}

(* The cache first.  A worker that has found the entry of a channel with    *)
(* several keys before the cache was replaced changes the old entry.        *)
CacheUpdate(w) ==
    LET j == job[w] IN
    /\ j.pc = "mark" /\ ~KeysLocked(j.chan)
    /\ cached' = IF (j.orphan /\ j.chan \in Multi) \/ cached[j.chan] = Missing
                 THEN cached
                 ELSE [cached EXCEPT ![j.chan] = Updated(j.chan, cached[j.chan], j.key, j.status)]
    /\ listed' = Delisted(j.chan, j.status)
    /\ job' = Step(w, "read", {}, FALSE)
    /\ UNCHANGED <<row, snap, req, admin, tester, events>>

(* A database error, an edit or a round of tests.                           *)
Event == events < MaxEvents /\ events' = events + 1

(* Then the row: read, changed under the lock of its keys, and saved whole  *)
(* when that lock has been released.                                        *)
ReadRow(w) ==
    LET j == job[w] IN
    /\ j.pc = "read"
    /\ \/ /\ job' = IF row[j.chan].status = j.status THEN Done(w)
                    ELSE IF j.chan \in Multi
                    THEN Step(w, "change", {row[j.chan]}, FALSE)
                    ELSE Step(w, "save", {With(row[j.chan], j.status)}, FALSE)
          /\ UNCHANGED events
       \/ Event /\ job' = Done(w)
    /\ UNCHANGED <<row, cacheVars, req, admin, tester>>

ChangeCopy(w) ==
    LET j == job[w] IN
    /\ j.pc = "change" /\ ~KeysLocked(j.chan)
    /\ job' = Step(w, "save", {handlerMultiKeyUpdate(old, j.key, j.status) : old \in j.copy},
                   FALSE)
    /\ UNCHANGED <<row, cacheVars, req, admin, tester, events>>

SaveRow(w) ==
    LET j == job[w] IN
    /\ j.pc = "save"
    /\ \/ /\ \E new \in j.copy : row' = [row EXCEPT ![j.chan] = new]
          /\ UNCHANGED events
       \/ Event /\ UNCHANGED row
    /\ job' = Done(w)
    /\ UNCHANGED <<cacheVars, req, admin, tester>>

--------------------------------------------------------------------------------
(* InitChannelCache: read without a lock, put in place under one            *)

(* Errors are not looked at: what was not read is missing.                  *)
SyncRead(s) ==
    /\ snap[s] = {} /\ (s = "admin" => admin.pc = "sync")
    /\ \/ snap' = [snap EXCEPT ![s] = {row}] /\ UNCHANGED events
       \/ Event /\ \E lost \in SUBSET Channels :
             snap' = [snap EXCEPT ![s] =
                         {[c \in Channels |-> IF c \in lost THEN Missing ELSE row[c]]}]
    /\ UNCHANGED <<row, cached, listed, req, job, admin, tester>>

(* The process starts again, on the table as it is.                         *)
Restart ==
    /\ cached' = row /\ listed' = Enabled(row)
    /\ snap' = [s \in Syncers |-> {}]
    /\ req' = [r \in Requests |-> IF req[r].pc = "new" THEN req[r] ELSE End("over")]
    /\ job' = [w \in Workers |-> [pc |-> "idle"]]
    /\ admin' = [pc |-> "idle"] /\ tester' = [pc |-> "idle"]

(* Without the abilities an enabled channel makes it panic, in the handler, *)
(* which ends, or in the goroutine that runs for ever, and so the process.  *)
SyncPanic(s) ==
    /\ snap[s] = {} /\ Enabled(row) # {} /\ Event
    /\ \/ /\ s = "admin" /\ admin.pc = "sync"
          /\ admin' = [pc |-> "idle"]
          /\ UNCHANGED <<cacheVars, req, job, tester>>
       \/ s = "loop" /\ Restart
    /\ UNCHANGED row

\* Mutants: what is listed stays; only what was disabled by errors is left out.
ListedOfMore(entries) == listed \cup Enabled(entries)
ListedOfNotAuto(entries) == {c \in Channels : entries[c].status # "auto"}
ListedOf(entries) == Enabled(entries)

SyncSwap(s) ==
    /\ \E entries \in snap[s] : cached' = entries /\ listed' = ListedOf(entries)
    /\ snap' = [snap EXCEPT ![s] = {}]
    /\ job' = [w \in Workers |-> IF job[w].pc = "mark"
                                 THEN Step(w, "mark", {}, TRUE)[w] ELSE job[w]]
    /\ admin' = IF s = "admin" THEN [pc |-> "idle"] ELSE admin
    /\ UNCHANGED <<row, req, tester, events>>

--------------------------------------------------------------------------------
(* The administrator: UpdateChannel with a status, ManageMultiKeys          *)

(* ManageMultiKeys reads the row, takes the lock of the channel's keys and  *)
(* writes the row whole; UpdateChannel the status it is given and the       *)
(* channel_info it has read.                                                *)
Begun(pc, c, new, keys) == [pc |-> pc, chan |-> c, new |-> new, keys |-> keys]

EditStatus(c, status) ==
    /\ admin.pc = "idle" /\ row[c].status # status
    /\ admin' = Begun("save", c, With(row[c], status), FALSE)
    /\ Event
    /\ UNCHANGED <<row, cacheVars, req, job, tester>>

EditKeys(c, down) ==
    /\ admin.pc = "idle" /\ row[c].down # down
    /\ admin' = Begun("lock", c, [status |-> row[c].status, down |-> down], TRUE)
    /\ Event
    /\ UNCHANGED <<row, cacheVars, req, job, tester>>

LockKeys ==
    /\ admin.pc = "lock"
    /\ admin' = Begun("save", admin.chan, admin.new, admin.keys)
    /\ UNCHANGED <<row, cacheVars, req, job, tester, events>>

(* An error of the update, or of the abilities after it, ends the handler   *)
(* before it synchronises the cache.                                        *)
AdminSave ==
    /\ admin.pc = "save"
    /\ \/ /\ row' = [row EXCEPT ![admin.chan] = admin.new]
          /\ admin' = Begun("sync", admin.chan, admin.new, admin.keys)
          /\ UNCHANGED events
       \/ /\ Event /\ admin' = [pc |-> "idle"]
          /\ row' \in {row, [row EXCEPT ![admin.chan] = admin.new]}
    /\ UNCHANGED <<cacheVars, req, job, tester>>

--------------------------------------------------------------------------------
(* testAllChannels: reads all rows, tests one channel after the other by id *)
(* and waits for EnableChannel                                              *)

Tested(status) == status # "manual"

(* An error of the read leaves testAllChannelsRunning set: no round begins  *)
(* any more.                                                                *)
TestAll ==
    /\ tester.pc = "idle" /\ Event
    /\ \/ tester' = [pc |-> "test", seen |-> row, todo |-> {c \in Channels : Tested(row[c].status)}]
       \/ tester' = [pc |-> "stuck"]
    /\ UNCHANGED <<row, cacheVars, req, job, admin>>

ShouldEnable(status) == status = "auto"

TestOne(c) ==
    LET seen == tester.seen[c]
        up == KeysUp(c, seen)
    IN
    /\ \A w \in Workers : ~Idle(w) => job[w].status # "enabled"
    /\ \/ /\ seen.status = "enabled"
          /\ \E key \in IF up = {} THEN {NoKey} ELSE up : Spawn(c, key, "auto")
       \/ ShouldEnable(seen.status) /\ \E key \in up : Spawn(c, key, "enabled")
       \/ job' = job
    /\ tester' = [pc |-> "test", seen |-> tester.seen, todo |-> tester.todo \ {c}]
    /\ UNCHANGED <<row, cacheVars, req, admin, events>>

TestEnd ==
    /\ tester' = [pc |-> "idle"]
    /\ UNCHANGED <<row, cacheVars, req, job, admin, events>>

Test ==
    /\ tester.pc = "test"
    /\ \/ tester.todo = {} /\ TestEnd
       \/ \E c \in tester.todo : (\A d \in tester.todo : c <= d) /\ TestOne(c)

--------------------------------------------------------------------------------
RequestStep(r) == Distribute(r) \/ Pick(r) \/ Served(r) \/ Failed(r)
WorkerStep(w) ==
    LockStatus(w) \/ CacheUpdate(w) \/ ReadRow(w) \/ ChangeCopy(w) \/ SaveRow(w)
SyncStep(s) == SyncRead(s) \/ SyncPanic(s) \/ SyncSwap(s)
Edit(c) == \/ \E status \in {"enabled", "manual"} : EditStatus(c, status)
           \/ c \in Multi /\ \E down \in SUBSET Keys : EditKeys(c, down)

Next ==
    \/ \E r \in Requests : RequestStep(r)
    \/ \E w \in Workers : WorkerStep(w)
    \/ \E s \in Syncers : SyncStep(s)
    \/ \E c \in Channels : Edit(c)
    \/ LockKeys \/ AdminSave \/ TestAll \/ Test

Spec == Init /\ [][Next]_vars

(* The cache is synchronised for ever, workers and handlers run to their    *)
(* end, the upstream answers in the end, requests and tests alike.          *)
FairSpec ==
    /\ Spec
    /\ \A r \in Requests : WF_vars(RequestStep(r))
    /\ \A w \in Workers : WF_vars(WorkerStep(w))
    /\ \A s \in Syncers : WF_vars(SyncStep(s))
    /\ WF_vars(LockKeys \/ AdminSave) /\ WF_vars(Test)

--------------------------------------------------------------------------------
(* Types.                                                                   *)
TypeOK ==
    /\ row \in Entries /\ cached \in CachedEntries
    /\ listed \subseteq Channels
    /\ DOMAIN snap = Syncers
    /\ \A s \in Syncers : snap[s] \subseteq CachedEntries
    /\ DOMAIN req = Requests
    /\ \A r \in Requests : /\ req[r].pc \in {"new", "ask", "pick"} \cup Ended
                           /\ req[r].index \in 1 .. NumGroups + 1
                           /\ req[r].retry \in 0 .. RetryTimes
                           /\ req[r].key \in Keys \cup {NoKey}

(* The retry loop ends although its counter is reset on the way: a request  *)
(* asks a group at most RetryTimes + 1 times, so no more than that times    *)
(* the number of groups in all.                                             *)
TriesBounded ==
    \A r \in Requests : req[r].tries <= NumGroups * (RetryTimes + 1)

(* "Each group will exhaust all its priorities before moving to the next    *)
(* group" (service/channel_select.go), as far as the code keeps it: when a  *)
(* request leaves a group, or ends because its tries are spent or there is  *)
(* no other group, it has asked every priority of the group, provided there *)
(* were no more than its tries and no channel came or went meanwhile.       *)
Leaves(q, p) == \/ p.pc = "gaveup"
                \/ q.pc = "pick" /\ p.pc = "ask" /\ p.at # q.at
Undisturbed(q) == q.calm /\ Of(q.at) = q.seen
EnoughTries(q) == Cardinality(Prios(q.seen)) <= RetryTimes + 1
PrioritiesExhausted ==
    [][\A r \in Requests :
         /\ req[r].pc # "gaveup" /\ Leaves(req[r], req'[r])
         /\ Undisturbed(req[r]) /\ EnoughTries(req[r])
         => req[r].prios = Prios(req[r].seen)]_vars

(* A channel the administrator has disabled stays as he left it, once his   *)
(* handler has ended, no older copy of it is around and nobody is asking or *)
(* testing it: neither a request nor the tester brings it back.             *)
ManualSettled(c) ==
    /\ row[c].status = "manual" /\ c \notin listed
    /\ \A s \in Syncers : \A entries \in snap[s] : entries[c].status # "enabled"
    /\ \A w \in Workers : ~Idle(w) => job[w].chan # c
    /\ \A r \in Requests : c \notin req[r].chan
    /\ admin.pc # "idle" => admin.chan # c
    /\ tester.pc = "test" => c \notin tester.todo
ManualStays ==
    [][\A c \in Channels :
         ManualSettled(c) => row'[c] = row[c] /\ c \notin listed']_vars

(* Once nothing changes any more, the cache is what the table says: neither *)
(* an older synchronisation put in place over a newer one, nor one that     *)
(* could not read the table, nor a worker whose row was not saved, nor an   *)
(* enabled channel that is not put back on the lists is a state that lasts. *)
CacheCatchesUp == <>[](cached = row /\ listed = Enabled(row))

================================================================================
