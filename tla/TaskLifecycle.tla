----------------------------- MODULE TaskLifecycle -----------------------------
(***************************************************************************)
(* Asynchronous tasks from their submission to their final status and to   *)
(* the billing that goes with it: the polling loop of every master process *)
(* (service/task_polling.go) with its sweep of timed-out tasks, clients    *)
(* that fetch a task and so bring it up to date (tryRealtimeFetch of       *)
(* relay/relay_task.go), and the refund or recalculation of the quota      *)
(* (service/task_billing.go).                                              *)
(*                                                                         *)
(* Processes share the task rows only, and guard some of their updates     *)
(* with the status they have read (UpdateWithStatus).                      *)
(***************************************************************************)
EXTENDS Integers, FiniteSets

CONSTANTS
    Tasks,
    Pollers,        \* processes that run TaskPollingLoop
    Clients,        \* fetch requests that may be under way at a time
    Kinds,          \* how tasks are polled, see Kind
    Ages,           \* whether tasks may date from before legacyTaskCutoff
    Quotas,         \* what a submission may be charged
    Actuals,        \* what a success may turn out to cost
    SweepOn,        \* TaskTimeoutMinutes > 0
    MayLoseChannel, \* the channel may be deleted
    MayGarble,      \* the upstream may answer with what reads as a failure
    MayStray,       \* ... or report an unfinished task as 100% done
    MayHang,        \* ... or never answer: RELAY_TIMEOUT is 0 by default
    MaxFaults,      \* database errors, and increases a subscription refuses
    MaxCrashes,     \* kills of a polling process
    MaxLooks,       \* realtime fetches by clients
    NoTask

Kind == {"video",      \* updateVideoSingleTask
         "realtime",   \* the same, of a channel that clients fetch from too
         "suno",       \* updateSunoTasks
         "anonymous"}  \* rows without any id to poll

ASSUME KindsAssumption == Kinds \subseteq Kind /\ Ages \subseteq BOOLEAN
ASSUME AmountsAssumption == Quotas \subseteq Nat /\ Actuals \subseteq Nat \ {0}
ASSUME BoundsAssumption == MaxFaults \in Nat /\ MaxCrashes \in Nat /\ MaxLooks \in Nat
ASSUME SwitchesAssumption ==
    {SweepOn, MayLoseChannel, MayGarble, MayStray, MayHang} \subseteq BOOLEAN
ASSUME NamesAssumption == NoTask \notin Tasks /\ Pollers \cap Clients = {}

VARIABLES
    info,      \* info[t]: kind, age and Quota, fixed at submission
    upstream,  \* upstream[t]: what has become of t at the provider
    late,      \* late[t]: t was submitted longer ago than the timeout
    gone,      \* the channel of the tasks is no longer there
    row,       \* row[t]: Status, and whether Progress is "100%"
    stage,     \* stage[p]: where poller p is
    todo,      \* todo[p]: the tasks of its list still to be looked at
    seen,      \* seen[p]: the rows as p has loaded them
    cur,       \* cur[p]: the task p is fetching
    report,    \* report[p]: what the upstream answered
    due,       \* due[p]: the amounts p is about to post
    paid,      \* paid[t]: what t has cost its funding source and its token
    bills,     \* bills[t]: postings to the funding source after submission
    faults, crashes, looks

rowVars == <<upstream, late, gone, row>>
jobVars == <<stage, todo, seen, cur, report, due>>
moneyVars == <<paid, bills>>
vars == <<info, rowVars, jobVars, moneyVars, faults, crashes, looks>>

Final == {"SUCCESS", "FAILURE"}
Status == {"none", "NOT_START", "IN_PROGRESS"} \cup Final
Row == [status : Status, full : BOOLEAN]
Process == Pollers \cup Clients

Failed == [status |-> "FAILURE", full |-> TRUE]
NoRow == [status |-> "none", full |-> FALSE]
NoRows == [t \in Tasks |-> NoRow]

(* What is charged, and in this order.                                      *)
Side == {"fund", "token"}

Quota(t) == info[t].quota
Kindred(k) == {t \in Tasks : info[t].kind = k}

Fault == faults < MaxFaults /\ faults' = faults + 1

(* The amount n is to be posted for t; nothing is when it is zero.          *)
Posting(t, n) == IF n = 0 THEN {} ELSE {[task |-> t, delta |-> n, step |-> "fund"]}

-----------------------------------------------------------------------------
(* Submission, and what happens outside.                                    *)

(* RelayTask has settled the submission when it inserts the row; an error   *)
(* of the insertion is only logged.                                         *)
Submit(t) ==
    /\ upstream[t] = "none"
    /\ upstream' = [upstream EXCEPT ![t] = "running"]
    /\ paid' = [paid EXCEPT ![t] = [s \in Side |-> Quota(t)]]
    /\ \/ /\ row' = [row EXCEPT ![t] = [status |-> "NOT_START", full |-> FALSE]]
          /\ UNCHANGED faults
       \/ Fault /\ UNCHANGED row
    /\ UNCHANGED <<info, late, gone, jobVars, bills, crashes, looks>>

UpstreamEnds(t) ==
    /\ upstream[t] = "running"
    /\ \E s \in Final : upstream' = [upstream EXCEPT ![t] = s]
    /\ UNCHANGED <<info, late, gone, row, jobVars, moneyVars, faults, crashes, looks>>

TimePasses(t) ==
    /\ upstream[t] # "none" /\ ~late[t]
    /\ late' = [late EXCEPT ![t] = TRUE]
    /\ UNCHANGED <<info, upstream, gone, row, jobVars, moneyVars, faults, crashes, looks>>

LoseChannel ==
    /\ MayLoseChannel /\ ~gone
    /\ gone' = TRUE
    /\ UNCHANGED <<info, upstream, late, row, jobVars, moneyVars, faults, crashes, looks>>

(* Answers to FetchTask: how far the task is, as ParseTaskResult reads it.  *)
(* A Suno task strays when its answer holds a FailReason and no final       *)
(* status, any other one when the Progress it is given is "100%" already.   *)
Answers(t) ==
    IF upstream[t] = "running"
    THEN {[status |-> "IN_PROGRESS", full |-> f] : f \in {FALSE, MayStray}}
    ELSE {[status |-> upstream[t], full |-> TRUE]}

(* When polling, what is an error or of no known form is read as a failure, *)
(* but not for Suno.                                                        *)
PollAnswers(t) == Answers(t) \cup {a \in {Failed} : MayGarble /\ info[t].kind # "suno"}

-----------------------------------------------------------------------------
(* UpdateWithStatus: writes the row if its status is still the one seen.    *)

\* Mutant: the guard of the conditional UPDATE is lost (a Save).
WinsAlways(p, t) == row[t].status # "none"

Wins(p, t) == row[t].status = seen[p][t].status

Write(t, r) == row' = [row EXCEPT ![t] = r]

-----------------------------------------------------------------------------
(* sweepTimedOutTasks                                                       *)

\* Mutant: only tasks that have not started are looked for.
Unstarted(t) == row[t].status = "NOT_START" /\ ~row[t].full

Unfinished(t) == row[t].status \notin Final \cup {"none"} /\ ~row[t].full

(* A query that fails is taken for an empty result.                         *)
Load(p, S) ==
    /\ seen' = [seen EXCEPT ![p] = row]
    /\ \/ todo' = [todo EXCEPT ![p] = S] /\ UNCHANGED faults
       \/ todo' = [todo EXCEPT ![p] = {}] /\ Fault

Wake(p) ==
    /\ stage[p] = "sleep"
    /\ stage' = [stage EXCEPT ![p] = "sweep"]
    /\ Load(p, {t \in Tasks : SweepOn /\ Unfinished(t) /\ late[t]})
    /\ UNCHANGED <<info, rowVars, cur, report, due, moneyVars, crashes, looks>>

\* Mutant: tasks that time out are not refunded.
NothingOwed(t) == {}

(* What the sweep gives back: nothing for tasks of the old system.          *)
Owed(t) == IF info[t].legacy THEN {} ELSE Posting(t, -Quota(t))

Sweep(p, t) ==
    /\ stage[p] = "sweep" /\ due[p] = {} /\ t \in todo[p]
    /\ todo' = [todo EXCEPT ![p] = @ \ {t}]
    /\ \/ /\ Wins(p, t)
          /\ Write(t, Failed)
          /\ due' = [due EXCEPT ![p] = Owed(t)]
          /\ UNCHANGED faults
       \/ /\ ~Wins(p, t)
          /\ UNCHANGED <<row, due, faults>>
       \/ Fault /\ UNCHANGED <<row, due>>
    /\ UNCHANGED <<info, upstream, late, gone, stage, seen, cur, report,
                   moneyVars, crashes, looks>>

(* TaskPollingLoop lists what is unfinished once the sweep is done.         *)
List(p) ==
    /\ stage[p] = "sweep" /\ due[p] = {} /\ todo[p] = {}
    /\ stage' = [stage EXCEPT ![p] = "poll"]
    /\ Load(p, {t \in Tasks : Unfinished(t)})
    /\ UNCHANGED <<info, rowVars, cur, report, due, moneyVars, crashes, looks>>

-----------------------------------------------------------------------------
(* TaskBulkUpdateByID, which does not look at the status.                   *)

BulkFail(S) == row' = [t \in Tasks |-> IF t \in S THEN Failed ELSE row[t]]

(* Tasks without an upstream id fail, and are refunded.                     *)
FailAnonymous(p) ==
    LET S == todo[p] \cap Kindred("anonymous")
    IN  /\ stage[p] = "poll" /\ S # {}
        /\ todo' = [todo EXCEPT ![p] = @ \ S]
        /\ \/ /\ BulkFail(S)
              /\ due' = [due EXCEPT ![p] = UNION {Posting(t, -Quota(t)) : t \in S}]
              /\ UNCHANGED faults
           \/ Fault /\ UNCHANGED <<row, due>>
        /\ UNCHANGED <<info, upstream, late, gone, stage, seen, cur, report,
                       moneyVars, crashes, looks>>

(* updateVideoTasks and updateSunoTasks look up the channel: without it all *)
(* the tasks fail, and nothing else happens to them.                        *)
Dispatch(p) ==
    /\ stage[p] = "poll" /\ due[p] = {} /\ todo[p] \cap Kindred("anonymous") = {}
    /\ stage' = [stage EXCEPT ![p] = "fetch"]
    /\ \/ ~gone /\ UNCHANGED <<row, todo, faults>>
       \/ /\ gone
          /\ todo' = [todo EXCEPT ![p] = {}]
          /\ \/ BulkFail(todo[p]) /\ UNCHANGED faults
             \/ todo[p] # {} /\ Fault /\ UNCHANGED row
    /\ UNCHANGED <<info, upstream, late, gone, seen, cur, report, due,
                   moneyVars, crashes, looks>>

-----------------------------------------------------------------------------
(* updateVideoSingleTask, updateSunoTasks                                   *)

(* The upstream answers, or the fetch fails and the task is left alone.     *)
Fetch(p, t) ==
    /\ stage[p] = "fetch" /\ due[p] = {} /\ cur[p] = NoTask /\ t \in todo[p]
    /\ \/ /\ cur' = [cur EXCEPT ![p] = t]
          /\ \E a \in PollAnswers(t) : report' = [report EXCEPT ![p] = a]
          /\ UNCHANGED todo
       \/ /\ todo' = [todo EXCEPT ![p] = @ \ {t}]
          /\ UNCHANGED <<cur, report>>
    /\ UNCHANGED <<info, rowVars, stage, seen, due, moneyVars, faults, crashes, looks>>

Done(p) == /\ cur' = [cur EXCEPT ![p] = NoTask]
           /\ report' = [report EXCEPT ![p] = Failed]
           /\ todo' = [todo EXCEPT ![p] = @ \ {cur[p]}]

\* Mutant: the difference is taken the wrong way round.
AdjustmentsReversed(t) ==
    {{}} \cup {Posting(t, Quota(t) - a) : a \in Actuals}

(* settleTaskBillingOnComplete: billed per call, or as the adaptor or the   *)
(* tokens say.                                                              *)
Adjustments(t) == {{}} \cup {Posting(t, a - Quota(t)) : a \in Actuals}

(* A final report is billed by the one whose update changes the status; any *)
(* other report just updates the row.                                       *)
Apply(p) ==
    LET t == cur[p]
        a == report[p]
    IN  /\ stage[p] = "fetch" /\ t # NoTask /\ info[t].kind \in {"video", "realtime"}
        /\ \/ /\ Wins(p, t)
              /\ Write(t, a)
              /\ \/ /\ a.status = "FAILURE"
                    /\ due' = [due EXCEPT ![p] = Posting(t, -Quota(t))]
                 \/ /\ a.status = "SUCCESS"
                    /\ \E d \in Adjustments(t) : due' = [due EXCEPT ![p] = d]
                 \/ a.status \notin Final /\ UNCHANGED due
              /\ UNCHANGED faults
           \/ ~Wins(p, t) /\ UNCHANGED <<row, due, faults>>
           \/ Fault /\ UNCHANGED <<row, due>>
        /\ Done(p)
        /\ UNCHANGED <<info, upstream, late, gone, stage, seen, moneyVars,
                       crashes, looks>>

(* A Suno task that failed, or has a FailReason, be it with a success, is   *)
(* refunded first ...                                                       *)
ApplySuno(p) ==
    LET t == cur[p]
    IN  /\ stage[p] = "fetch" /\ t # NoTask /\ info[t].kind = "suno"
        /\ stage' = [stage EXCEPT ![p] = "save"]
        /\ \E reason \in {FALSE, MayStray} :
              due' = [due EXCEPT ![p] =
                         IF report[p].full /\ (report[p].status = "SUCCESS" => reason)
                         THEN Posting(t, -Quota(t)) ELSE {}]
        /\ UNCHANGED <<info, rowVars, todo, seen, cur, report, moneyVars,
                       faults, crashes, looks>>

(* ... and its row is then saved as it is.                                  *)
SaveSuno(p) ==
    LET t == cur[p]
    IN  /\ stage[p] = "save" /\ due[p] = {}
        /\ stage' = [stage EXCEPT ![p] = "fetch"]
        /\ Done(p)
        /\ \/ Write(t, report[p]) /\ UNCHANGED faults
           \/ Fault /\ UNCHANGED row
        /\ UNCHANGED <<info, upstream, late, gone, seen, due, moneyVars,
                       crashes, looks>>

EndRound(p) ==
    /\ stage[p] = "fetch" /\ due[p] = {} /\ todo[p] = {}
    /\ stage' = [stage EXCEPT ![p] = "sleep"]
    /\ seen' = [seen EXCEPT ![p] = NoRows]
    /\ UNCHANGED <<info, rowVars, todo, cur, report, due, moneyVars, faults,
                   crashes, looks>>

-----------------------------------------------------------------------------
ForToken(e) == [task |-> e.task, delta |-> e.delta, step |-> "token"]

(* RefundTaskQuota and RecalculateTaskQuota, one task after the other: the  *)
(* funding source ...                                                       *)

\* Mutant: an error does not end the function.
PostFundGoesOn(p) ==
    \E e \in due[p] :
        /\ \A x \in due[p] : x.step = "fund"
        /\ \/ /\ paid' = [paid EXCEPT ![e.task]["fund"] = @ + e.delta]
              /\ bills' = [bills EXCEPT ![e.task] = @ + 1]
              /\ UNCHANGED faults
           \/ Fault /\ UNCHANGED moneyVars
        /\ due' = [due EXCEPT ![p] = (@ \ {e}) \cup {ForToken(e)}]
        /\ UNCHANGED <<info, rowVars, stage, todo, seen, cur, report, crashes, looks>>

PostFund(p) ==
    \E e \in due[p] :
        /\ \A x \in due[p] : x.step = "fund"
        /\ \/ /\ paid' = [paid EXCEPT ![e.task]["fund"] = @ + e.delta]
              /\ bills' = [bills EXCEPT ![e.task] = @ + 1]
              /\ due' = [due EXCEPT ![p] = (@ \ {e}) \cup {ForToken(e)}]
              /\ UNCHANGED faults
           \/ /\ Fault            \* logged, and the token is left alone
              /\ due' = [due EXCEPT ![p] = @ \ {e}]
              /\ UNCHANGED moneyVars
        /\ UNCHANGED <<info, rowVars, stage, todo, seen, cur, report, crashes, looks>>

(* ... and the token.                                                       *)
PostToken(p) ==
    \E e \in due[p] :
        /\ e.step = "token"
        /\ due' = [due EXCEPT ![p] = @ \ {e}]
        /\ \/ /\ paid' = [paid EXCEPT ![e.task]["token"] = @ + e.delta]
              /\ UNCHANGED faults
           \/ Fault /\ UNCHANGED paid
        /\ UNCHANGED <<info, rowVars, stage, todo, seen, cur, report, bills, crashes, looks>>

-----------------------------------------------------------------------------
(* tryRealtimeFetch: a client's request loads the row, asks the upstream    *)
(* and updates the row, whatever its status was; nobody is billed.          *)
Look(c, t) ==
    /\ cur[c] = NoTask /\ ~gone
    /\ info[t].kind = "realtime" /\ row[t].status # "none"
    /\ cur' = [cur EXCEPT ![c] = t]
    /\ seen' = [seen EXCEPT ![c] = row]
    /\ \E a \in Answers(t) : report' = [report EXCEPT ![c] = a]
    /\ looks < MaxLooks /\ looks' = looks + 1
    /\ UNCHANGED <<info, rowVars, stage, todo, due, moneyVars, faults, crashes>>

Refresh(c) ==
    LET t == cur[c]
    IN  /\ t # NoTask
        /\ \/ Wins(c, t) /\ Write(t, report[c]) /\ UNCHANGED faults
           \/ ~Wins(c, t) /\ UNCHANGED <<row, faults>>
           \/ Fault /\ UNCHANGED row
        /\ cur' = [cur EXCEPT ![c] = NoTask]
        /\ report' = [report EXCEPT ![c] = Failed]
        /\ seen' = [seen EXCEPT ![c] = NoRows]
        /\ UNCHANGED <<info, upstream, late, gone, stage, todo, due,
                       moneyVars, crashes, looks>>

-----------------------------------------------------------------------------
(* A poller comes to a stop, and nothing it holds is used any more.         *)
Forget(p, s) ==
    /\ stage' = [stage EXCEPT ![p] = s]
    /\ todo' = [todo EXCEPT ![p] = {}]
    /\ cur' = [cur EXCEPT ![p] = NoTask]
    /\ due' = [due EXCEPT ![p] = {}]
    /\ seen' = [seen EXCEPT ![p] = NoRows]
    /\ report' = [report EXCEPT ![p] = Failed]
    /\ UNCHANGED <<info, rowVars, moneyVars, faults, looks>>

(* Its process is killed and started again.                                 *)
Crash(p) ==
    /\ crashes < MaxCrashes /\ stage[p] # "sleep"
    /\ crashes' = crashes + 1
    /\ Forget(p, "sleep")

(* A fetch never returns, and so the loop never goes on.                    *)
Hang(p) ==
    /\ MayHang
    /\ stage[p] = "fetch" /\ due[p] = {} /\ cur[p] = NoTask /\ todo[p] # {}
    /\ Forget(p, "hung") /\ UNCHANGED crashes

Stop(p) == Crash(p) \/ Hang(p)

Init ==
    /\ info \in [Tasks -> [kind : Kinds, legacy : Ages, quota : Quotas]]
    /\ upstream = [t \in Tasks |-> "none"]
    /\ late = [t \in Tasks |-> FALSE]
    /\ gone = FALSE
    /\ row = NoRows
    /\ stage = [p \in Pollers |-> "sleep"]
    /\ todo = [p \in Pollers |-> {}]
    /\ seen = [p \in Process |-> NoRows]
    /\ cur = [p \in Process |-> NoTask]
    /\ report = [p \in Process |-> Failed]
    /\ due = [p \in Pollers |-> {}]
    /\ paid = [t \in Tasks |-> [s \in Side |-> 0]]
    /\ bills = [t \in Tasks |-> 0]
    /\ faults = 0 /\ crashes = 0 /\ looks = 0

Poll(p) ==
    \/ Wake(p) \/ List(p) \/ FailAnonymous(p) \/ Dispatch(p)
    \/ \E t \in Tasks : Sweep(p, t) \/ Fetch(p, t)
    \/ Apply(p) \/ ApplySuno(p) \/ SaveSuno(p) \/ EndRound(p)
    \/ PostFund(p) \/ PostToken(p)

Outside ==
    \/ \E t \in Tasks : Submit(t) \/ UpstreamEnds(t) \/ TimePasses(t)
    \/ LoseChannel

Next == \/ Outside
        \/ \E p \in Pollers : Poll(p) \/ Stop(p)
        \/ \E c \in Clients : Refresh(c) \/ \E t \in Tasks : Look(c, t)

Spec == Init /\ [][Next]_vars

(* Each loop is a goroutine that sleeps and goes on, and time passes; the   *)
(* upstream owes nothing, not even an answer.                               *)
FairSpec == /\ Spec
            /\ \A p \in Pollers : WF_vars(Poll(p))
            /\ \A t \in Tasks : WF_vars(TimePasses(t))

-----------------------------------------------------------------------------
TaskType ==
    /\ info \in [Tasks -> [kind : Kinds, legacy : Ages, quota : Quotas]]
    /\ upstream \in [Tasks -> {"none", "running"} \cup Final]
    /\ late \in [Tasks -> BOOLEAN] /\ gone \in BOOLEAN
    /\ row \in [Tasks -> Row]
PollerType ==
    /\ stage \in [Pollers -> {"sleep", "sweep", "poll", "fetch", "save", "hung"}]
    /\ todo \in [Pollers -> SUBSET Tasks]
    /\ due \in [Pollers -> SUBSET [task : Tasks, delta : Int, step : Side]]
ProcessType ==
    /\ seen \in [Process -> [Tasks -> Row]]
    /\ cur \in [Process -> Tasks \cup {NoTask}]
    /\ report \in [Process -> Row]
MoneyType == paid \in [Tasks -> [Side -> Int]] /\ bills \in [Tasks -> Nat]
BoundsType ==
    /\ faults \in 0..MaxFaults /\ crashes \in 0..MaxCrashes
    /\ looks \in 0..MaxLooks

(* Every variable keeps its type.                                           *)
TypeOK == TaskType /\ PollerType /\ ProcessType /\ MoneyType /\ BoundsType

(* Nobody is about to bill t, nor to save a row of it.                      *)
AtRest(t) == \A p \in Pollers : /\ \A e \in due[p] : e.task # t
                                /\ stage[p] = "save" => cur[p] # t
Ended(t) == row[t].status \in Final /\ AtRest(t)

(* A task that is updated with the compare-and-swap alone is billed once    *)
(* after its submission, whatever pollers, sweeps, errors and restarts      *)
(* there are: the swap of its status names the one who bills.               *)
BilledOnce == \A t \in Kindred("video") : bills[t] <= 1

(* A failed task gives back what it was charged, to the funding source and  *)
(* to the token, and a successful one costs what it came to; only tasks of  *)
(* the old system that time out keep their charge.                          *)
EndPaidFor ==
    \A t \in Tasks :
        Ended(t) =>
            LET cost == paid[t]["fund"]
            IN  /\ cost = paid[t]["token"]
                /\ row[t].status = "FAILURE" =>
                      cost = 0 \/ (info[t].legacy /\ cost = Quota(t))
                /\ row[t].status = "SUCCESS" => cost \in Actuals \cup {Quota(t)}

(* "Final" is final: as long as the channel is there, no update that was    *)
(* prepared before replaces the status such a task has been billed for.     *)
FinalStays ==
    [][\A t \in Kindred("video") :
          ~gone /\ row[t].status \in Final => row'[t].status = row[t].status]_vars

(* Whatever fails, the token of a task that is billed once is never         *)
(* adjusted without its funding source.                                     *)
TokenFollowsFund ==
    \A t \in Tasks : bills[t] <= 1 => \/ paid[t]["token"] = paid[t]["fund"]
                                       \/ paid[t]["token"] = Quota(t)

(* Reported as 100% done, but not as ended: no list has the task any more.  *)
Stranded(t) == row[t].full /\ row[t].status \notin Final

(* With the sweep on, every task that is listed as unfinished ends, even    *)
(* when the upstream never does and one poller hangs, is killed or fails;   *)
(* only a report that strands it, or every poller hanging, keeps it open.   *)
TasksEnd ==
    \A t \in Tasks :
        Unfinished(t) ~> Ended(t) \/ Stranded(t) \/ \A p \in Pollers : stage[p] = "hung"

-----------------------------------------------------------------------------
(* What comments say of the program, against what it does.                  *)

(* RefundTaskQuota gives the pre-consumed quota back when a task fails, and *)
(* the compare-and-swap is there to have it do so once: nothing is given    *)
(* back that was not charged.                                               *)
RefundedOnce == \A t \in Tasks : paid[t]["fund"] >= 0

-----------------------------------------------------------------------------
(* Each task is charged as the contract for requests has it: its final      *)
(* status decides it, in one step; what its billing still has to post is    *)
(* taken for posted.                                                        *)
StillDue(t) ==
    LET d == {e.delta : e \in {x \in UNION {due[p] : p \in Pollers} :
                                  x.task = t /\ x.step = "fund"}}
    IN  IF d = {} THEN 0 ELSE CHOOSE n \in d : TRUE
Charge(t) == IF row[t].status \in Final THEN paid[t]["fund"] + StillDue(t) ELSE 0
Phase(t) ==
    IF row[t].status = "SUCCESS" THEN "served"
    ELSE IF row[t].status # "FAILURE" THEN "open"
    ELSE IF info[t].legacy /\ Charge(t) # 0 THEN "short" ELSE "void"

Contract(t) == INSTANCE ChargeContract WITH
    Requests <- {t}, Costs <- Quotas \cup Actuals, Holds <- Quotas, Fee <- 0,
    phase <- [x \in {t} |-> Phase(x)], paid <- [x \in {t} |-> Charge(x)]
ImplementsContract ==
    /\ \A t \in Tasks : Contract(t)!Init
    /\ [][\A t \in Tasks : [Contract(t)!Next]_<<Phase(t), Charge(t)>>]_vars
=============================================================================
