--------------------------- MODULE SubscriptionQuota ---------------------------
(***************************************************************************)
(* The transactions of model/subscription.go on the subscriptions of one   *)
(* user, as the billing sessions of relay requests                         *)
(* (service/funding_source.go) and the maintenance task of the master node *)
(* (service/subscription_reset_task.go) run them side by side.             *)
(*                                                                         *)
(* A transaction reads rows and writes whole rows back (tx.Save) when it   *)
(* commits.  It asks for row locks by the setting gorm:query_option, which *)
(* gorm 1.25 does not know, so nothing is locked, and a row may be saved   *)
(* over a change that was not read: stale remembers where that happened.   *)
(* The refund of a pre-consume record opens a second transaction, on a     *)
(* second connection of the pool, inside its own.                          *)
(***************************************************************************)
EXTENDS Integers, FiniteSets, FiniteSetsExt

CONSTANTS
    Requests,     \* request ids; one request never runs twice at a time
    Subs,         \* subscriptions, numbered in the order of their end time
    Total,        \* Total[s]: AmountTotal; 0 is unlimited
    Resets,       \* the subscriptions whose plan has a reset period
    Ends,         \* Ends[s]: the first period s is not valid in
    Estimates,    \* amounts to pre-consume
    Costs,        \* what a served request may turn out to cost
    MaxPeriod,    \* bound of the clock
    MaxTries,     \* submissions of one request; 1 but for tasks
    MaxConns,     \* SQL_MAX_OPEN_CONNS
    MaxFaults,    \* failing commits a request may meet
    LostAcks,     \* a commit may succeed and still report an error
    MayCancel,    \* an administrator may cancel subscriptions
    MayCrash,     \* the process may be killed
    Maintainer

ASSUME SubsAssumption ==
    /\ Subs \subseteq Nat \ {0} /\ IsFiniteSet(Subs) /\ Resets \subseteq Subs
    /\ Total \in [Subs -> Nat] /\ Ends \in [Subs -> Nat]
    /\ \A s, t \in Subs : s < t => Ends[s] <= Ends[t]
ASSUME AmountsAssumption == Estimates \subseteq Nat \ {0} /\ Costs \subseteq Nat
ASSUME BoundsAssumption ==
    /\ {MaxPeriod, MaxFaults} \subseteq Nat
    /\ {MaxTries, MaxConns} \subseteq Nat \ {0}
ASSUME SwitchesAssumption ==
    {LostAcks, MayCancel, MayCrash} \subseteq BOOLEAN
ASSUME RequestsAssumption == IsFiniteSet(Requests)
ASSUME OwnersAssumption == Maintainer \notin Requests

VARIABLES
    now,      \* the period the database clock is in
    row,      \* row[s]: the UserSubscription
    record,   \* record[r]: the SubscriptionPreConsumeRecord of r
    pc,       \* pc[r]: where request r is
    at,       \* at[r], at[Maintainer]: the time a transaction works with
    copy,     \* copy[o]: the rows the transaction of o has read
    ask,      \* ask[r]: the amount r asks for: its estimate, then a delta
    hold,     \* hold[r]: subscriptionId and preConsumed of the session
    tries,    \* tries[r]: submissions of r, then attempts of its refund
    faults,   \* faults[r]: commits of r that reported an error
    task,     \* the maintenance task: subscriptions due, the one under way
    ledger,   \* ledger[r][s][p]: sum r has posted to s while in period p
    stale     \* the subscriptions saved over a change that was not read

rows == <<row, record, stale>>
vars == <<now, rows, pc, at, copy, ask, hold, tries, faults, task, ledger>>

Period == 0..MaxPeriod
Row == [used : Nat, period : Period, status : {"active", "expired", "cancelled"}]
Hold == [sub : Subs, amount : Nat]
Record == [sub : Subs \cup {0}, amount : Nat, status : {"none", "consumed", "refunded"}]
Place == {"new", "pre", "preCommit", "refused", "held", "delta", "deltaCommit", "refund",
          "inner", "innerCommit", "outerCommit", "done", "dead"}
NoHold == [sub |-> 0, amount |-> 0]
Owner == Requests \cup {Maintainer}
NewRow == [used |-> 0, period |-> 0, status |-> "active"]
NoRows == [s \in {} |-> NewRow]
Rows == UNION {[S -> Row] : S \in SUBSET Subs}

-----------------------------------------------------------------------------
(* Connections, reads, commits.                                             *)

Conns(r) == CASE pc[r] \in {"preCommit", "deltaCommit", "inner", "outerCommit"} -> 1
              [] pc[r] = "innerCommit" -> 2
              [] OTHER -> 0
ConnFree == SumFunction([r \in Requests |-> Conns(r)])
            + (IF task.sub = 0 THEN 0 ELSE 1) < MaxConns

(* A transaction of o works with the rows S as it has read them.            *)
Reads(o, S) == copy' = [copy EXCEPT ![o] = [s \in S |-> row[s]]]
Closes(o) == copy' = [copy EXCEPT ![o] = NoRows]

(* tx.Save writes the rows of W whole, whatever they are by now.            *)
Saves(o, W) == /\ stale' = stale \cup {s \in W : row[s] # copy[o][s]}
               /\ Closes(o)

\* Mutant: a transaction that is rolled back keeps its connection.
RollBackHolding(r, to) ==
    /\ pc' = [pc EXCEPT ![r] = IF to = "done" THEN "deltaCommit" ELSE to]
    /\ UNCHANGED <<rows, copy, ledger>>

RollBack(r, to) ==
    /\ pc' = [pc EXCEPT ![r] = to]
    /\ Closes(r)
    /\ UNCHANGED <<rows, ledger>>

(* A commit of r reports an error: the transaction was rolled back, or it   *)
(* was not and only the answer was lost.                                    *)
Fails(r) == /\ faults[r] < MaxFaults
            /\ faults' = [faults EXCEPT ![r] = @ + 1]

Post(r, s, n, p) == ledger' = [ledger EXCEPT ![r][s][p] = @ + n]

-----------------------------------------------------------------------------
(* maybeResetUserSubscriptionWithPlanTx                                     *)

\* Mutant: the time of the next reset is not looked at.
DueAnyway(s, rw, t) == s \in Resets /\ rw.period # t

Due(s, rw, t) == s \in Resets /\ rw.period < t /\ rw.period < Ends[s]

\* Mutant: a reset makes the subscription active.
RefreshedActive(s, rw, t) ==
    IF Due(s, rw, t) THEN [used |-> 0, period |-> IF t < Ends[s] THEN t ELSE Ends[s],
                           status |-> "active"]
    ELSE rw

\* Mutant: a reset keeps what has been used.
RefreshedUsed(s, rw, t) ==
    IF Due(s, rw, t) THEN [rw EXCEPT !.period = IF t < Ends[s] THEN t ELSE Ends[s]]
    ELSE rw

(* The row after the resets that are due at t; the reset after the last     *)
(* one before the end of the subscription never comes.                      *)
Refreshed(s, rw, t) ==
    IF Due(s, rw, t)
    THEN [rw EXCEPT !.used = 0, !.period = IF t < Ends[s] THEN t ELSE Ends[s]]
    ELSE rw

-----------------------------------------------------------------------------
(* PreConsumeUserSubscription                                               *)

Start(r) ==
    /\ pc[r] = "new"
    /\ at' = [at EXCEPT ![r] = now]           \* GetDBTimestamp
    /\ pc' = [pc EXCEPT ![r] = "pre"]
    /\ UNCHANGED <<now, rows, copy, ask, hold, tries, faults, task, ledger>>

Candidates(r) == {s \in Subs : row[s].status = "active" /\ at[r] < Ends[s]}

\* Mutant: the use of the period before the reset that is due is compared.
FitsAtAll(r, s, rw) == Total[s] = 0 \/ rw.used < Total[s]

Fits(r, s, rw) == Total[s] = 0 \/ ask[r] <= Total[s] - rw.used

Eligible(r) ==
    {s \in Candidates(r) : Fits(r, s, Refreshed(s, row[s], at[r]))}

\* Mutant: the record of the request id is not looked up.
RecordUnread(r) == "none"

RecordOf(r) == record[r].status

(* The record of an earlier submission is found; or the candidates are      *)
(* read and the first one that can bear the amount is taken; or none can.   *)
BeginPreConsume(r) ==
    /\ pc[r] = "pre" /\ ConnFree
    /\ \/ /\ RecordOf(r) = "consumed"
          /\ hold' = [hold EXCEPT ![r] = [sub |-> record[r].sub,
                                          amount |-> record[r].amount]]
          /\ pc' = [pc EXCEPT ![r] = "held"]
          /\ UNCHANGED copy
       \/ /\ RecordOf(r) = "none"
          /\ Reads(r, Candidates(r))
          /\ \E s \in Eligible(r) :
                /\ \A t \in Eligible(r) : s <= t
                /\ hold' = [hold EXCEPT ![r] = [sub |-> s, amount |-> ask[r]]]
          /\ pc' = [pc EXCEPT ![r] = "preCommit"]
       \/ /\ RecordOf(r) = "none" /\ Eligible(r) = {}
          /\ pc' = [pc EXCEPT ![r] = "refused"]
          /\ UNCHANGED <<copy, hold>>
    /\ UNCHANGED <<now, rows, at, ask, tries, faults, task, ledger>>

(* Of the candidates before the chosen one, those due are saved reset.      *)
Passed(r) ==
    {t \in DOMAIN copy[r] : t < hold[r].sub /\ Due(t, copy[r][t], at[r])}

Charged(r) ==
    LET s == hold[r].sub
        refreshed(t) == Refreshed(t, copy[r][t], at[r])
    IN  [t \in Subs |->
            IF t = s THEN [refreshed(s) EXCEPT !.used = @ + hold[r].amount]
            ELSE IF t \in Passed(r) THEN refreshed(t) ELSE row[t]]

PreConsumed(r) ==
    LET s == hold[r].sub
    IN  /\ row' = Charged(r)
        /\ record' = [record EXCEPT ![r] = [sub |-> s, amount |-> hold[r].amount,
                                            status |-> "consumed"]]
        /\ Post(r, s, hold[r].amount, Charged(r)[s].period)
        /\ Saves(r, Passed(r) \cup {s})

CommitPreConsume(r) ==
    /\ pc[r] = "preCommit"
    /\ \/ /\ PreConsumed(r)
          /\ pc' = [pc EXCEPT ![r] = "held"]
          /\ UNCHANGED <<hold, faults>>
       \/ /\ Fails(r)
          /\ hold' = [hold EXCEPT ![r] = NoHold]
          /\ \/ RollBack(r, "refused")
             \/ LostAcks /\ PreConsumed(r) /\ pc' = [pc EXCEPT ![r] = "refused"]
    /\ UNCHANGED <<now, at, ask, tries, task>>

(* A task submission that is refused may be tried again, under the same id. *)
Refused(r) ==
    /\ pc[r] = "refused"
    /\ \/ /\ tries[r] < MaxTries
          /\ tries' = [tries EXCEPT ![r] = @ + 1]
          /\ pc' = [pc EXCEPT ![r] = "new"]
       \/ /\ pc' = [pc EXCEPT ![r] = "done"]
          /\ UNCHANGED tries
    /\ UNCHANGED <<now, rows, at, copy, ask, hold, faults, task, ledger>>

(* The request is served and settled, or it failed and is refunded.         *)
Decide(r) ==
    /\ pc[r] = "held"
    /\ \/ \E c \in Costs :
             /\ ask' = [ask EXCEPT ![r] = c - hold[r].amount]
             /\ pc' = [pc EXCEPT ![r] = IF c = hold[r].amount THEN "done"
                                                               ELSE "delta"]
             /\ UNCHANGED tries
       \/ /\ pc' = [pc EXCEPT ![r] = "refund"]
          /\ tries' = [tries EXCEPT ![r] = 1]
          /\ UNCHANGED ask
    /\ UNCHANGED <<now, rows, at, copy, hold, faults, task, ledger>>

-----------------------------------------------------------------------------
(* PostConsumeUserSubscriptionDelta                                         *)

\* Mutant: the use may become negative.
NewUseBelowZero(o, s, n) == copy[o][s].used + n

NewUse(o, s, n) ==
    IF copy[o][s].used + n < 0 THEN 0 ELSE copy[o][s].used + n

PostDelta(r, s, n) ==
    /\ row' = [row EXCEPT ![s] = [copy[r][s] EXCEPT !.used = NewUse(r, s, n)]]
    /\ Post(r, s, n, copy[r][s].period)
    /\ Saves(r, {s})

BeginDelta(r) ==
    /\ pc[r] = "delta" /\ ConnFree
    /\ Reads(r, {hold[r].sub})
    /\ pc' = [pc EXCEPT ![r] = "deltaCommit"]
    /\ UNCHANGED <<now, rows, at, ask, hold, tries, faults, task, ledger>>

Exceeds(r) == LET s == hold[r].sub
              IN  Total[s] > 0 /\ NewUse(r, s, ask[r]) > Total[s]

(* An error of the settlement is only logged.                               *)
CommitDelta(r) ==
    /\ pc[r] = "deltaCommit"
    /\ \/ /\ ~Exceeds(r)
          /\ PostDelta(r, hold[r].sub, ask[r])
          /\ pc' = [pc EXCEPT ![r] = "done"]
          /\ UNCHANGED <<record, faults>>
       \/ /\ Exceeds(r)
          /\ RollBack(r, "done")
          /\ UNCHANGED faults
       \/ /\ ~Exceeds(r) /\ Fails(r)
          /\ \/ RollBack(r, "done")
             \/ /\ LostAcks
                /\ PostDelta(r, hold[r].sub, ask[r])
                /\ pc' = [pc EXCEPT ![r] = "done"]
                /\ UNCHANGED record
    /\ UNCHANGED <<now, at, ask, hold, tries, task>>

-----------------------------------------------------------------------------
(* refundWithRetry of RefundSubscriptionPreConsume: the record's            *)
(* transaction, and the one of PostConsumeUserSubscriptionDelta inside it.  *)

\* Mutant: the refund is tried once.
OneAttempt == 1

MaxAttempts == 3

TryAgain(r) ==
    /\ pc' = [pc EXCEPT ![r] = IF tries[r] < MaxAttempts THEN "refund" ELSE "done"]
    /\ tries' = [tries EXCEPT ![r] = IF @ < MaxAttempts THEN @ + 1 ELSE @]

BeginRefund(r) ==
    /\ pc[r] = "refund" /\ ConnFree
    /\ pc' = [pc EXCEPT ![r] = IF RecordOf(r) = "refunded" THEN "done" ELSE "inner"]
    /\ UNCHANGED <<now, rows, at, copy, ask, hold, tries, faults, task, ledger>>

BeginInner(r) ==
    /\ pc[r] = "inner" /\ ConnFree
    /\ Reads(r, {record[r].sub})
    /\ pc' = [pc EXCEPT ![r] = "innerCommit"]
    /\ UNCHANGED <<now, rows, at, ask, hold, tries, faults, task, ledger>>

\* Mutant: what the subscription has used is given back, not the hold.
AllThatIsUsed(r) == copy[r][record[r].sub].used

GivenBack(r) == record[r].amount

\* Mutant: the record is marked in the inner transaction, whatever comes of it.
MarkFirst(r) ==
    /\ pc[r] = "innerCommit"
    /\ record' = [record EXCEPT ![r].status = "refunded"]
    /\ \/ /\ PostDelta(r, record[r].sub, -GivenBack(r))
          /\ pc' = [pc EXCEPT ![r] = "outerCommit"]
          /\ UNCHANGED <<tries, faults>>
       \/ /\ Fails(r)
          /\ TryAgain(r)
          /\ Closes(r) /\ UNCHANGED <<row, stale, ledger>>
    /\ UNCHANGED <<now, at, ask, hold, task>>

CommitInner(r) ==
    /\ pc[r] = "innerCommit"
    /\ \/ /\ PostDelta(r, record[r].sub, -GivenBack(r))
          /\ pc' = [pc EXCEPT ![r] = "outerCommit"]
          /\ UNCHANGED <<record, tries, faults>>
       \/ /\ Fails(r)
          /\ TryAgain(r)
          /\ \/ Closes(r) /\ UNCHANGED <<row, stale, ledger>>
             \/ LostAcks /\ PostDelta(r, record[r].sub, -GivenBack(r))
          /\ UNCHANGED record
    /\ UNCHANGED <<now, at, ask, hold, task>>

CommitOuter(r) ==
    /\ pc[r] = "outerCommit"
    /\ \/ /\ record' = [record EXCEPT ![r].status = "refunded"]
          /\ pc' = [pc EXCEPT ![r] = "done"]
          /\ UNCHANGED <<tries, faults>>
       \/ /\ Fails(r)
          /\ TryAgain(r)
          /\ \/ UNCHANGED record
             \/ LostAcks /\ record' = [record EXCEPT ![r].status = "refunded"]
    /\ UNCHANGED <<now, row, stale, at, copy, ask, hold, task, ledger>>

-----------------------------------------------------------------------------
(* ResetDueSubscriptions, ExpireDueSubscriptions, the administrator, time.  *)

ListDue ==
    /\ task = [sub |-> 0, todo |-> {}] /\ ConnFree
    /\ at' = [at EXCEPT ![Maintainer] = now]
    /\ \E todo \in {{s \in Subs : row[s].status = "active" /\ Due(s, row[s], now)}} :
          todo # {} /\ task' = [task EXCEPT !.todo = todo]
    /\ UNCHANGED <<now, rows, pc, copy, ask, hold, tries, faults, ledger>>

(* The row is read again, in the transaction that resets it.                *)
BeginReset(s) ==
    /\ task.sub = 0 /\ s \in task.todo /\ ConnFree
    /\ \/ /\ Due(s, row[s], at[Maintainer])
          /\ Reads(Maintainer, {s})
          /\ task' = [sub |-> s, todo |-> task.todo \ {s}]
       \/ /\ ~Due(s, row[s], at[Maintainer])
          /\ task' = [task EXCEPT !.todo = @ \ {s}]
          /\ UNCHANGED copy
    /\ UNCHANGED <<now, rows, pc, at, ask, hold, tries, faults, ledger>>

CommitReset(s) ==
    /\ task.sub = s
    /\ row' = [row EXCEPT ![s] =
                  Refreshed(s, copy[Maintainer][s], at[Maintainer])]
    /\ Saves(Maintainer, {s})
    /\ task' = [task EXCEPT !.sub = 0]
    /\ UNCHANGED <<now, record, pc, at, ask, hold, tries, faults, ledger>>

(* One UPDATE of all that have ended.                                       *)
Expire ==
    LET ended == {s \in Subs : row[s].status = "active" /\ Ends[s] <= now}
    IN  /\ ended # {} /\ ConnFree
        /\ row' = [s \in Subs |-> IF s \in ended
                                 THEN [row[s] EXCEPT !.status = "expired"]
                                 ELSE row[s]]
        /\ UNCHANGED <<now, record, stale, pc, at, copy, ask, hold, tries, faults,
                       task, ledger>>

(* AdminInvalidateUserSubscription updates the status column alone.         *)
Cancel(s) ==
    /\ MayCancel /\ row[s].status # "cancelled" /\ ConnFree
    /\ row' = [row EXCEPT ![s].status = "cancelled"]
    /\ UNCHANGED <<now, record, stale, pc, at, copy, ask, hold, tries, faults,
                   task, ledger>>

Tick ==
    /\ now < MaxPeriod
    /\ now' = now + 1
    /\ UNCHANGED <<rows, pc, at, copy, ask, hold, tries, faults, task, ledger>>

(* Transactions under way are rolled back by the database.                  *)
Crash ==
    /\ MayCrash /\ \E r \in Requests : pc[r] \notin {"new", "done", "dead"}
    /\ pc' = [r \in Requests |-> IF pc[r] \in {"new", "done"} THEN pc[r] ELSE "dead"]
    /\ copy' = [o \in Owner |-> NoRows]
    /\ task' = [sub |-> 0, todo |-> {}]
    /\ UNCHANGED <<now, rows, at, ask, hold, tries, faults, ledger>>

Init ==
    /\ now = 0
    /\ row = [s \in Subs |-> NewRow]
    /\ record = [r \in Requests |-> [sub |-> 0, amount |-> 0, status |-> "none"]]
    /\ stale = {}
    /\ pc = [r \in Requests |-> "new"]
    /\ at = [o \in Owner |-> 0]
    /\ copy = [o \in Owner |-> NoRows]
    /\ ask \in [Requests -> Estimates]
    /\ hold = [r \in Requests |-> NoHold]
    /\ tries = [r \in Requests |-> 1]
    /\ faults = [r \in Requests |-> 0]
    /\ task = [sub |-> 0, todo |-> {}]
    /\ ledger = [r \in Requests |-> [s \in Subs |-> [p \in Period |-> 0]]]

Session(r) ==
    \/ BeginPreConsume(r) \/ CommitPreConsume(r) \/ Refused(r) \/ Decide(r)
    \/ BeginDelta(r) \/ CommitDelta(r)
    \/ BeginRefund(r) \/ BeginInner(r) \/ CommitInner(r) \/ CommitOuter(r)

Maintenance == ListDue \/ \E s \in Subs : BeginReset(s) \/ CommitReset(s)

Next == \/ \E r \in Requests : Start(r) \/ Session(r)
        \/ Maintenance \/ Expire \/ \E s \in Subs : Cancel(s)
        \/ Tick \/ Crash

Spec == Init /\ [][Next]_vars

(* Handlers, refund goroutines and the task are scheduled while the process *)
(* runs; requests need not come, nor need time pass.                        *)
FairSpec == /\ Spec
            /\ \A r \in Requests : WF_vars(Session(r))
            /\ WF_vars(Maintenance)

-----------------------------------------------------------------------------
Tries == 1..(IF MaxTries < MaxAttempts THEN MaxAttempts ELSE MaxTries)

(* Every variable keeps its type.                                           *)
TypeOK ==
    /\ now \in Period
    /\ row \in [Subs -> Row]
    /\ record \in [Requests -> Record]
    /\ stale \subseteq Subs
    /\ pc \in [Requests -> Place]
    /\ at \in [Owner -> Period]
    /\ copy \in [Owner -> Rows]
    /\ ask \in [Requests -> Int]
    /\ hold \in [Requests -> Hold \cup {NoHold}]
    /\ tries \in [Requests -> Tries]
    /\ faults \in [Requests -> 0..MaxFaults]
    /\ task \in [sub : Subs \cup {0}, todo : SUBSET Subs]
    /\ ledger \in [Requests -> [Subs -> [Period -> Int]]]

(* What the requests have posted to s while it was in its present period.   *)
Positive(n) == IF n > 0 THEN n ELSE 0
Now(r, s) == ledger[r][s][row[s].period]
NetUse(s) == SumFunction([r \in Requests |-> Now(r, s)])
GrossUse(s) == SumFunction([r \in Requests |-> Positive(Now(r, s))])

(* What r has posted altogether.                                            *)
Posted(r) == SumFunction([s \in Subs |-> SumFunction(ledger[r][s])])

(* However transactions, resets and crashes interleave, the amount used is  *)
(* what the requests of the present period have posted, give or take the    *)
(* refunds of earlier periods, which stop at zero, as long as no tx.Save    *)
(* went over a change that was not read: no lock keeps one from doing so.   *)
UsageAccounted ==
    \A s \in Subs \ stale : NetUse(s) <= row[s].used /\ row[s].used <= GrossUse(s)

(* No row ever says that more than the total is used; and the subscription  *)
(* is not sold past its total within one period, by pre-consumption,        *)
(* settlement or both, unless a tx.Save went over a change that was not     *)
(* read.                                                                    *)
NotOversold ==
    \A s \in Subs :
        Total[s] > 0 => /\ row[s].used <= Total[s]
                        /\ s \notin stale => NetUse(s) <= Total[s]

(* A subscription that expired or was cancelled becomes active again only   *)
(* by a transaction that read it before its end and is still under way.     *)
EndedStaysEnded ==
    [][\A s \in Subs :
          /\ row[s].status # "active"
          /\ \A o \in Owner : s \in DOMAIN copy[o] => copy[o][s].status # "active"
          => row'[s].status # "active"]_vars

(* A reset is undone only by a transaction that read the row before it and  *)
(* is still under way; in particular not by the maintenance task, which     *)
(* works through an old list at an old time, when a request has reset the   *)
(* row first.                                                               *)
ResetKept ==
    [][\A s \in Subs :
          (\A o \in Owner : s \in DOMAIN copy[o] => copy[o][s].period >= row[s].period)
          => row'[s].period >= row[s].period]_vars

(* A request is charged for one pre-consumption, however often it is        *)
(* submitted and whatever its commits reported (the record is keyed by the  *)
(* request id), and for no more than it was settled at.                     *)
ChargedOnce ==
    \A r \in Requests :
        Posted(r) <= Max({record[r].amount}
                         \cup {c \in Costs : c = ask[r] + hold[r].amount})

(* A refund gives back more than was held only when a commit has reported   *)
(* an error, and then once per error at most.                               *)
OverRefundNeedsFault ==
    \A r \in Requests : Posted(r) + faults[r] * record[r].amount >= 0

(* "Refunded" is written on a record after the amount has been given back,  *)
(* never before: a crash between the two steps must not lose the refund.    *)
MarkedMeansReturned ==
    \A r \in Requests : record[r].status = "refunded" => Posted(r) <= 0

(* No request waits for ever for a connection, as long as the pool has one  *)
(* more than there are requests; it is answered, or the process dies, or it *)
(* is submitted again.                                                      *)
RequestsEnd == \A r \in Requests : pc[r] = "pre" ~> pc[r] \in {"done", "dead", "new"}

(* Three attempts are enough for a refund that meets two errors, unless the *)
(* process is killed.                                                       *)
RefundArrives ==
    \A r \in Requests : pc[r] = "refund" ~> record[r].status = "refunded" \/ pc[r] = "dead"

(* "RefundSubscriptionPreConsume is idempotent": repeated, it gives back no *)
(* more than was pre-consumed.                                              *)
RefundIdempotent == \A r \in Requests : Posted(r) >= 0

(* The transactions implement atomic changes of the rows that no tx.Save    *)
(* went over.                                                               *)
Atomic == INSTANCE SubscriptionRows WITH
    used <- [s \in Subs |-> row[s].used],
    posted <- [r \in Requests |-> Posted(r)],
    overwritten <- stale
ImplementsRows == Atomic!Spec
=============================================================================
