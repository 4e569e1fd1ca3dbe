-------------------------- MODULE TaskLifecycleProofs --------------------------
(***************************************************************************)
(* Theorems about TaskLifecycle, for every value of its constants: the     *)
(* types; that a task updated with the compare-and-swap alone is billed    *)
(* once; that its final status stays as long as its channel is there; that *)
(* the token of a task billed once follows its funding source; and, where  *)
(* nothing fails and one process polls (or the swap guards every task),    *)
(* that a task that has ended has cost what its status says, decided in    *)
(* one step as ChargeContract has it.                                      *)
(*                                                                         *)
(* The argument: who is about to bill such a task has won the swap from an *)
(* unfinished status that it had seen, so nobody had billed it or was      *)
(* about to; and from a final status nobody wins, for what a poller works  *)
(* on it has seen unfinished.  Before its first billing a task has cost    *)
(* what its submission was charged; after it, the one amount still to be   *)
(* posted to the token is the difference.                                  *)
(***************************************************************************)
EXTENDS TaskLifecycle, TLAPS

-----------------------------------------------------------------------------
(* Types.                                                                   *)

PostingType == SUBSET [task : Tasks, delta : Int, step : Side]

LEMMA PostingTypes ==
    ASSUME TypeOK, NEW t \in Tasks
    PROVE  /\ Quota(t) \in Int
           /\ \A n \in Int : Posting(t, n) \in PostingType
           /\ Owed(t) \in PostingType
           /\ Adjustments(t) \subseteq PostingType
<1>1. Quota(t) \in Int
  <2>1. info[t] \in [kind : Kinds, legacy : Ages, quota : Quotas]
    BY DEF TypeOK, TaskType
  <2>2. info[t].quota \in Quotas
    BY <2>1
  <2>3. Quotas \subseteq Nat
    BY AmountsAssumption
  <2>4. info[t].quota \in Nat
    BY <2>2, <2>3
  <2> QED
    BY <2>4 DEF Quota
<1>2. \A n \in Int : Posting(t, n) \in PostingType
  BY DEF Posting, PostingType, Side
<1>3. -Quota(t) \in Int /\ \A a \in Actuals : a - Quota(t) \in Int
  BY <1>1, AmountsAssumption
<1>4. Owed(t) \in PostingType
  BY <1>2, <1>3 DEF Owed, PostingType
<1>5. {} \in PostingType
  BY DEF PostingType
<1>6. Adjustments(t) \subseteq PostingType
  BY <1>2, <1>3, <1>5 DEF Adjustments
<1> QED
  BY <1>1, <1>2, <1>4, <1>6

LEMMA AnswerTypes ==
    ASSUME TypeOK, NEW t \in Tasks
    PROVE  Answers(t) \subseteq Row /\ PollAnswers(t) \subseteq Row
<1>1. Answers(t) \subseteq Row
  <2>1. CASE upstream[t] = "running"
    <3>1. MayStray \in BOOLEAN
      BY SwitchesAssumption
    <3>2. \A f \in BOOLEAN : [status |-> "IN_PROGRESS", full |-> f] \in Row
      BY DEF Row, Status
    <3> QED
      BY <2>1, <3>1, <3>2, Zenon DEF Answers
  <2>2. CASE upstream[t] # "running"
    <3>1. upstream[t] \in {"none"} \cup Final
      BY <2>2 DEF TypeOK, TaskType
    <3> QED
      BY <2>2, <3>1 DEF Answers, Row, Status
  <2> QED
    BY <2>1, <2>2
<1>2. Failed \in Row
  BY DEF Failed, Row, Status, Final
<1> QED
  BY <1>1, <1>2 DEF PollAnswers

LEMMA FaultType ==
    ASSUME BoundsType, Fault
    PROVE  faults' \in 0..MaxFaults
BY BoundsAssumption DEF BoundsType, Fault

LEMMA FailedType == Failed \in Row
BY DEF Failed, Row, Status, Final

LEMMA NoRowsType == NoRows \in [Tasks -> Row]
<1>1. NoRow \in Row
  BY DEF NoRow, Row, Status
<1> QED
  BY <1>1 DEF NoRows

LEMMA LoadTypes ==
    ASSUME TypeOK, NEW p \in Pollers, NEW S \in SUBSET Tasks, Load(p, S)
    PROVE  /\ todo' \in [Pollers -> SUBSET Tasks]
           /\ seen' \in [Process -> [Tasks -> Row]]
           /\ faults' \in 0..MaxFaults
<1>1. seen' \in [Process -> [Tasks -> Row]]
  BY DEF TypeOK, TaskType, ProcessType, Process, Load
<1>2. CASE todo' = [todo EXCEPT ![p] = S] /\ UNCHANGED faults
  BY <1>1, <1>2 DEF TypeOK, PollerType, BoundsType
<1>3. CASE todo' = [todo EXCEPT ![p] = {}] /\ Fault
  BY <1>1, <1>3, FaultType DEF TypeOK, PollerType
<1> QED
  BY <1>2, <1>3 DEF Load

LEMMA DoneTypes ==
    ASSUME TypeOK, NEW p \in Pollers, Done(p)
    PROVE  /\ todo' \in [Pollers -> SUBSET Tasks]
           /\ cur' \in [Process -> Tasks \cup {NoTask}]
           /\ report' \in [Process -> Row]
BY FailedType DEF TypeOK, PollerType, ProcessType, Process, Done

LEMMA BulkFailType ==
    ASSUME TypeOK, NEW S, BulkFail(S)
    PROVE  row' \in [Tasks -> Row]
BY FailedType DEF TypeOK, TaskType, BulkFail

(* The steps that no process of the gateway takes.                          *)
LEMMA OutsideTypes == ASSUME TypeOK, Outside PROVE TypeOK'
<1> USE DEF TypeOK
<1>1. ASSUME NEW t \in Tasks, Submit(t) PROVE TypeOK'
  <2>1. TaskType'
    <3>1. [status |-> "NOT_START", full |-> FALSE] \in Row
      BY DEF Row, Status
    <3> QED
      BY <1>1, <3>1 DEF Submit, TaskType
  <2>2. MoneyType'
    BY <1>1, PostingTypes DEF Submit, MoneyType
  <2>3. BoundsType'
    BY <1>1, FaultType DEF Submit, BoundsType
  <2> QED
    BY <1>1, <2>1, <2>2, <2>3 DEF Submit, jobVars, PollerType, ProcessType
<1>2. ASSUME NEW t \in Tasks, UpstreamEnds(t) PROVE TypeOK'
  BY <1>2 DEF UpstreamEnds, jobVars, moneyVars, TaskType, PollerType, ProcessType,
              MoneyType, BoundsType
<1>3. ASSUME NEW t \in Tasks, TimePasses(t) PROVE TypeOK'
  BY <1>3 DEF TimePasses, jobVars, moneyVars, TaskType, PollerType, ProcessType,
              MoneyType, BoundsType
<1>4. ASSUME LoseChannel PROVE TypeOK'
  BY <1>4 DEF LoseChannel, jobVars, moneyVars, TaskType, PollerType, ProcessType,
              MoneyType, BoundsType
<1> QED
  BY <1>1, <1>2, <1>3, <1>4 DEF Outside

(* The rounds of a poller up to the fetches.                                *)
LEMMA RoundTypes ==
    ASSUME TypeOK, NEW p \in Pollers,
           \/ Wake(p) \/ List(p) \/ EndRound(p) \/ Dispatch(p) \/ FailAnonymous(p)
           \/ \E t \in Tasks : Sweep(p, t)
    PROVE  TypeOK'
<1>1. CASE Wake(p)
  <2>1. PollerType' /\ ProcessType' /\ BoundsType'
    <3>1. PICK S \in SUBSET Tasks : Load(p, S)
      BY <1>1 DEF Wake
    <3>2. stage' \in [Pollers -> {"sleep", "sweep", "poll", "fetch", "save", "hung"}]
      BY <1>1 DEF Wake, TypeOK, PollerType
    <3> QED
      BY <1>1, <3>1, <3>2, LoadTypes
      DEF Wake, TypeOK, PollerType, ProcessType, BoundsType
  <2> QED
    BY <1>1, <2>1 DEF Wake, TypeOK, rowVars, moneyVars, TaskType, MoneyType
<1>2. CASE List(p)
  <2>1. PollerType' /\ ProcessType' /\ BoundsType'
    <3>1. PICK S \in SUBSET Tasks : Load(p, S)
      BY <1>2 DEF List
    <3>2. stage' \in [Pollers -> {"sleep", "sweep", "poll", "fetch", "save", "hung"}]
      BY <1>2 DEF List, TypeOK, PollerType
    <3> QED
      BY <1>2, <3>1, <3>2, LoadTypes
      DEF List, TypeOK, PollerType, ProcessType, BoundsType
  <2> QED
    BY <1>2, <2>1 DEF List, TypeOK, rowVars, moneyVars, TaskType, MoneyType
<1>3. CASE EndRound(p)
  <2>1. PollerType' /\ ProcessType'
    BY <1>3, NoRowsType DEF EndRound, TypeOK, PollerType, ProcessType
  <2> QED
    BY <1>3, <2>1
    DEF EndRound, TypeOK, rowVars, moneyVars, TaskType, MoneyType, BoundsType
<1>4. CASE Dispatch(p)
  <2>1. row' \in [Tasks -> Row]
    BY <1>4, BulkFailType DEF Dispatch, TypeOK, TaskType
  <2>2. faults' \in 0..MaxFaults
    BY <1>4, FaultType DEF Dispatch, TypeOK, BoundsType
  <2>3. PollerType'
    BY <1>4 DEF Dispatch, TypeOK, PollerType
  <2> QED
    BY <1>4, <2>1, <2>2, <2>3
    DEF Dispatch, TypeOK, TaskType, moneyVars, ProcessType, MoneyType, BoundsType
<1>5. CASE FailAnonymous(p)
  <2> DEFINE S == todo[p] \cap Kindred("anonymous")
  <2>1. row' \in [Tasks -> Row]
    BY <1>5, BulkFailType DEF FailAnonymous, TypeOK, TaskType
  <2>2. faults' \in 0..MaxFaults
    BY <1>5, FaultType DEF FailAnonymous, TypeOK, BoundsType
  <2>3. PollerType'
    <3>1. \A t \in S : Posting(t, -Quota(t)) \in PostingType
      BY PostingTypes DEF Kindred
    <3>2. UNION {Posting(t, -Quota(t)) : t \in S} \in PostingType
      BY <3>1 DEF PostingType
    <3>3. due' \in [Pollers -> PostingType]
      BY <1>5, <3>2 DEF FailAnonymous, TypeOK, PollerType, PostingType
    <3> QED
      BY <1>5, <3>3 DEF FailAnonymous, TypeOK, PollerType, PostingType
  <2> QED
    BY <1>5, <2>1, <2>2, <2>3
    DEF FailAnonymous, TypeOK, TaskType, moneyVars, ProcessType, MoneyType, BoundsType
<1>6. ASSUME NEW t \in Tasks, Sweep(p, t) PROVE TypeOK'
  <2>1. row' \in [Tasks -> Row]
    BY <1>6, FailedType DEF Sweep, Write, TypeOK, TaskType
  <2>2. faults' \in 0..MaxFaults
    BY <1>6, FaultType DEF Sweep, TypeOK, BoundsType
  <2>3. PollerType'
    <3>1. due' \in [Pollers -> PostingType]
      BY <1>6, PostingTypes DEF Sweep, TypeOK, PollerType, PostingType
    <3> QED
      BY <1>6, <3>1 DEF Sweep, TypeOK, PollerType, PostingType
  <2> QED
    BY <1>6, <2>1, <2>2, <2>3
    DEF Sweep, TypeOK, TaskType, moneyVars, ProcessType, MoneyType, BoundsType
<1> QED
  BY <1>1, <1>2, <1>3, <1>4, <1>5, <1>6

(* Fetches, updates and postings of a poller, and its restart.              *)
LEMMA UpdateTypes ==
    ASSUME TypeOK, NEW p \in Pollers,
           \/ Apply(p) \/ ApplySuno(p) \/ SaveSuno(p) \/ Stop(p)
           \/ PostFund(p) \/ PostToken(p)
           \/ \E t \in Tasks : Fetch(p, t)
    PROVE  TypeOK'
<1>1. CASE Apply(p)
  <2> DEFINE t == cur[p]
  <2>1. t \in Tasks /\ report[p] \in Row
    BY <1>1 DEF Apply, TypeOK, ProcessType, Process
  <2>2. row' \in [Tasks -> Row]
    BY <1>1, <2>1 DEF Apply, Write, TypeOK, TaskType
  <2>3. faults' \in 0..MaxFaults
    BY <1>1, FaultType DEF Apply, TypeOK, BoundsType
  <2>4. due' \in [Pollers -> PostingType]
    <3>1. due \in [Pollers -> PostingType]
      BY DEF TypeOK, PollerType, PostingType
    <3>2. Posting(t, -Quota(t)) \in PostingType /\ Adjustments(t) \subseteq PostingType
      BY <2>1, PostingTypes
    <3> QED
      BY <1>1, <3>1, <3>2 DEF Apply
  <2>5. PollerType' /\ ProcessType'
    <3>1. Done(p)
      BY <1>1 DEF Apply
    <3> QED
      BY <1>1, <2>4, <3>1, DoneTypes
      DEF Apply, TypeOK, PollerType, ProcessType, PostingType
  <2> QED
    BY <1>1, <2>2, <2>3, <2>5
    DEF Apply, TypeOK, TaskType, moneyVars, MoneyType, BoundsType
<1>2. CASE ApplySuno(p)
  <2> DEFINE t == cur[p]
  <2>1. t \in Tasks
    BY <1>2 DEF ApplySuno, TypeOK, ProcessType, Process
  <2>2. PollerType'
    <3>1. Posting(t, -Quota(t)) \in PostingType /\ {} \in PostingType
      BY <2>1, PostingTypes DEF PostingType
    <3>2. due' \in [Pollers -> PostingType]
      BY <1>2, <3>1 DEF ApplySuno, TypeOK, PollerType, PostingType
    <3> QED
      BY <1>2, <3>2 DEF ApplySuno, TypeOK, PollerType, PostingType
  <2> QED
    BY <1>2, <2>2 DEF ApplySuno, TypeOK, rowVars, moneyVars, TaskType, ProcessType,
                      MoneyType, BoundsType
<1>3. CASE SaveSuno(p)
  <2>1. row' \in [Tasks -> Row]
    BY <1>3 DEF SaveSuno, Write, TypeOK, TaskType, ProcessType, Process
  <2>2. faults' \in 0..MaxFaults
    BY <1>3, FaultType DEF SaveSuno, TypeOK, BoundsType
  <2>3. PollerType' /\ ProcessType'
    <3>1. Done(p)
      BY <1>3 DEF SaveSuno
    <3> QED
      BY <1>3, <3>1, DoneTypes DEF SaveSuno, TypeOK, PollerType, ProcessType
  <2> QED
    BY <1>3, <2>1, <2>2, <2>3
    DEF SaveSuno, TypeOK, TaskType, moneyVars, MoneyType, BoundsType
<1>4. CASE Stop(p)
  <2>1. PollerType' /\ ProcessType'
    <3>1. PICK s \in {"sleep", "hung"} : Forget(p, s)
      BY <1>4 DEF Stop, Crash, Hang
    <3> QED
      BY <3>1, FailedType, NoRowsType
      DEF Forget, TypeOK, PollerType, ProcessType, Process
  <2>2. crashes' \in 0..MaxCrashes
    BY <1>4, BoundsAssumption DEF Stop, Crash, Hang, Forget, TypeOK, BoundsType
  <2> QED
    BY <1>4, <2>1, <2>2
    DEF Stop, Crash, Hang, Forget, TypeOK, rowVars, moneyVars, TaskType, MoneyType, BoundsType
<1>5. CASE PostFund(p)
  <2>1. PICK e \in due[p] :
            \/ /\ paid' = [paid EXCEPT ![e.task]["fund"] = @ + e.delta]
               /\ bills' = [bills EXCEPT ![e.task] = @ + 1]
               /\ due' = [due EXCEPT ![p] = (@ \ {e}) \cup {ForToken(e)}]
               /\ UNCHANGED faults
            \/ /\ Fault
               /\ due' = [due EXCEPT ![p] = @ \ {e}]
               /\ UNCHANGED moneyVars
    BY <1>5 DEF PostFund
  <2>2. e \in [task : Tasks, delta : Int, step : Side]
    BY DEF TypeOK, PollerType
  <2>3. ForToken(e) \in [task : Tasks, delta : Int, step : Side]
    BY <2>2 DEF ForToken, Side
  <2>4. due' \in [Pollers -> SUBSET [task : Tasks, delta : Int, step : Side]]
    BY <2>1, <2>3 DEF TypeOK, PollerType
  <2>5. MoneyType'
    BY <2>1, <2>2 DEF TypeOK, MoneyType, moneyVars, Side
  <2>6. faults' \in 0..MaxFaults
    BY <2>1, FaultType DEF TypeOK, BoundsType
  <2> QED
    BY <1>5, <2>4, <2>5, <2>6
    DEF PostFund, TypeOK, rowVars, TaskType, PollerType, ProcessType, BoundsType
<1>6. CASE PostToken(p)
  <2>1. PICK e \in due[p] :
            /\ due' = [due EXCEPT ![p] = @ \ {e}]
            /\ \/ /\ paid' = [paid EXCEPT ![e.task]["token"] = @ + e.delta]
                  /\ UNCHANGED faults
               \/ Fault /\ UNCHANGED paid
    BY <1>6 DEF PostToken
  <2>2. e \in [task : Tasks, delta : Int, step : Side]
    BY DEF TypeOK, PollerType
  <2>3. due' \in [Pollers -> SUBSET [task : Tasks, delta : Int, step : Side]]
    BY <2>1 DEF TypeOK, PollerType
  <2>4. MoneyType'
    BY <1>6, <2>1, <2>2 DEF PostToken, TypeOK, MoneyType, Side
  <2>5. faults' \in 0..MaxFaults
    BY <2>1, FaultType DEF TypeOK, BoundsType
  <2> QED
    BY <1>6, <2>3, <2>4, <2>5
    DEF PostToken, TypeOK, rowVars, TaskType, PollerType, ProcessType, BoundsType
<1>7. ASSUME NEW t \in Tasks, Fetch(p, t) PROVE TypeOK'
  <2>1. PollAnswers(t) \subseteq Row
    BY AnswerTypes
  <2>2. ProcessType'
    BY <1>7, <2>1 DEF Fetch, TypeOK, ProcessType, Process
  <2>3. PollerType'
    BY <1>7 DEF Fetch, TypeOK, PollerType
  <2> QED
    BY <1>7, <2>2, <2>3
    DEF Fetch, TypeOK, rowVars, moneyVars, TaskType, MoneyType, BoundsType
<1> QED
  BY <1>1, <1>2, <1>3, <1>4, <1>5, <1>6, <1>7

LEMMA ClientTypes ==
    ASSUME TypeOK, NEW c \in Clients, Refresh(c) \/ \E t \in Tasks : Look(c, t)
    PROVE  TypeOK'
<1>1. CASE Refresh(c)
  <2>1. cur[c] \in Tasks /\ report[c] \in Row
    BY <1>1 DEF Refresh, TypeOK, ProcessType, Process
  <2>2. row' \in [Tasks -> Row]
    BY <1>1, <2>1 DEF Refresh, Write, TypeOK, TaskType
  <2>3. faults' \in 0..MaxFaults
    BY <1>1, FaultType DEF Refresh, TypeOK, BoundsType
  <2>4. ProcessType'
    BY <1>1, FailedType, NoRowsType DEF Refresh, TypeOK, ProcessType
  <2> QED
    BY <1>1, <2>2, <2>3, <2>4
    DEF Refresh, TypeOK, TaskType, moneyVars, PollerType, MoneyType, BoundsType
<1>2. ASSUME NEW t \in Tasks, Look(c, t) PROVE TypeOK'
  <2>1. Answers(t) \subseteq Row
    BY AnswerTypes
  <2>2. ProcessType'
    BY <1>2, <2>1 DEF Look, TypeOK, TaskType, ProcessType, Process
  <2>3. looks' \in 0..MaxLooks
    BY <1>2, BoundsAssumption DEF Look, TypeOK, BoundsType
  <2> QED
    BY <1>2, <2>2, <2>3
    DEF Look, TypeOK, rowVars, moneyVars, TaskType, PollerType, MoneyType, BoundsType
<1> QED
  BY <1>1, <1>2

LEMMA InitTypes == ASSUME Init PROVE TypeOK
<1>1. Failed \in Row /\ NoRows \in [Tasks -> Row]
  BY FailedType, NoRowsType
<1>2. TaskType /\ PollerType /\ ProcessType
  BY <1>1 DEF Init, TaskType, PollerType, ProcessType
<1>3. MoneyType /\ BoundsType
  BY BoundsAssumption DEF Init, MoneyType, BoundsType
<1> QED
  BY <1>2, <1>3 DEF TypeOK

LEMMA StepTypes == ASSUME TypeOK, [Next]_vars PROVE TypeOK'
<1>1. CASE Outside
  BY <1>1, OutsideTypes
<1>2. ASSUME NEW p \in Pollers, Poll(p) \/ Stop(p) PROVE TypeOK'
  BY <1>2, RoundTypes, UpdateTypes DEF Poll
<1>3. ASSUME NEW c \in Clients, Refresh(c) \/ \E t \in Tasks : Look(c, t)
      PROVE  TypeOK'
  BY <1>3, ClientTypes
<1>4. CASE UNCHANGED vars
  BY <1>4 DEF vars, rowVars, jobVars, moneyVars, TypeOK, TaskType, PollerType,
              ProcessType, MoneyType, BoundsType
<1> QED
  BY <1>1, <1>2, <1>3, <1>4 DEF Next

(* Every variable keeps its type (the rows and jobs of the polling loop).   *)
THEOREM TypeCorrect == Spec => []TypeOK
<1>1. Init => TypeOK
  BY InitTypes
<1>2. TypeOK /\ [Next]_vars => TypeOK'
  BY StepTypes
<1> QED
  BY <1>1, <1>2, PTL DEF Spec

-----------------------------------------------------------------------------
(* The invariant behind BilledOnce and FinalStays.                          *)

Video == Kindred("video")

(* The amounts that p is about to post to the funding source of t.          *)
Funds(p, t) == {e \in due[p] : e.task = t /\ e.step = "fund"}

(* What is not final nobody has billed or is about to; otherwise at most    *)
(* one posting has been made or is still to come.                           *)
BillInv(t) ==
    /\ row[t].status \notin Final =>
          bills[t] = 0 /\ \A p \in Pollers : Funds(p, t) = {}
    /\ bills[t] <= 1
    /\ \A p \in Pollers : Funds(p, t) # {} => bills[t] = 0
    /\ \A p, q \in Pollers : \A e \in Funds(p, t), f \in Funds(q, t) : p = q /\ e = f

RowInv(t) == upstream[t] = "none" => row[t].status = "none"

(* What a poller works on it has seen unfinished.                           *)
JobInv(p) ==
    /\ \A t \in todo[p] \cap Video :
          seen[p][t].status \notin Final \cup {"none"} /\ upstream[t] # "none"
    /\ cur[p] # NoTask => cur[p] \in todo[p] /\ stage[p] \in {"fetch", "save"}
    /\ stage[p] = "save" => cur[p] # NoTask /\ info[cur[p]].kind = "suno"

(* Clients fetch tasks of realtime channels.                                *)
ClientInv(c) == cur[c] # NoTask => info[cur[c]].kind = "realtime"

SafeInv ==
    /\ TypeOK
    /\ \A t \in Video : BillInv(t) /\ RowInv(t)
    /\ \A p \in Pollers : JobInv(p)
    /\ \A c \in Clients : ClientInv(c)

(* What a step may do to the billing of t: nothing new, ...                 *)
Keeps(t) ==
    /\ bills'[t] = bills[t] /\ (row[t].status \in Final <=> row'[t].status \in Final)
    /\ \A p \in Pollers : Funds(p, t)' \subseteq Funds(p, t)

(* ... end it unbilled, with at most one amount to post, ...                *)
Starts(t) ==
    /\ bills'[t] = bills[t] /\ row[t].status \notin Final
    /\ row'[t].status \in Final
    /\ \E p \in Pollers :
          /\ \A e, f \in Funds(p, t)' : e = f
          /\ \A q \in Pollers \ {p} : Funds(q, t)' \subseteq Funds(q, t)

(* ... or post that amount.                                                 *)
Posts(t) ==
    /\ bills'[t] = bills[t] + 1 /\ row'[t] = row[t]
    /\ \E p \in Pollers : \E e \in Funds(p, t) :
          /\ Funds(p, t)' \subseteq Funds(p, t) \ {e}
          /\ \A q \in Pollers \ {p} : Funds(q, t)' \subseteq Funds(q, t)

LEMMA BillStep ==
    ASSUME TypeOK, NEW t \in Tasks, BillInv(t), Keeps(t) \/ Starts(t) \/ Posts(t)
    PROVE  BillInv(t)'
<1>0. bills[t] \in Nat
  BY DEF TypeOK, MoneyType
<1>1. CASE Keeps(t)
  <2>1. \A p \in Pollers : Funds(p, t)' \subseteq Funds(p, t)
    BY <1>1 DEF Keeps
  <2>2. bills'[t] = bills[t] /\ (row[t].status \in Final <=> row'[t].status \in Final)
    BY <1>1 DEF Keeps
  <2> QED
    BY <2>1, <2>2 DEF BillInv
<1>2. CASE Starts(t)
  <2>1. bills'[t] = 0 /\ row'[t].status \in Final
    BY <1>2 DEF Starts, BillInv
  <2>2. \A p \in Pollers : Funds(p, t) = {}
    BY <1>2 DEF Starts, BillInv
  <2>3. PICK p \in Pollers : /\ \A e, f \in Funds(p, t)' : e = f
                             /\ \A q \in Pollers \ {p} : Funds(q, t)' = {}
    BY <1>2, <2>2 DEF Starts
  <2>4. \A q, r \in Pollers : \A e \in Funds(q, t)', f \in Funds(r, t)' : q = r /\ e = f
    BY <2>3
  <2> QED
    BY <2>1, <2>4 DEF BillInv
<1>3. CASE Posts(t)
  <2>1. PICK p \in Pollers : \E e \in Funds(p, t) :
            /\ Funds(p, t)' \subseteq Funds(p, t) \ {e}
            /\ \A q \in Pollers \ {p} : Funds(q, t)' \subseteq Funds(q, t)
    BY <1>3 DEF Posts
  <2>2. PICK e \in Funds(p, t) :
            /\ Funds(p, t)' \subseteq Funds(p, t) \ {e}
            /\ \A q \in Pollers \ {p} : Funds(q, t)' \subseteq Funds(q, t)
    BY <2>1
  <2>3. bills[t] = 0 /\ row[t].status \in Final
    BY <2>2 DEF BillInv
  <2>4. \A q \in Pollers : \A f \in Funds(q, t) : q = p /\ f = e
    BY <2>2 DEF BillInv
  <2>5. \A q \in Pollers : Funds(q, t)' = {}
    BY <2>2, <2>4
  <2>6. bills'[t] = 1 /\ row'[t].status \in Final
    BY <1>3, <1>0, <2>3 DEF Posts
  <2> QED
    BY <2>5, <2>6 DEF BillInv
<1> QED
  BY <1>1, <1>2, <1>3

(* Amounts for one task, of which there is one at most.                     *)
OneBill(t, D) == (\A e \in D : e.task = t) /\ (\A e, f \in D : e = f)

LEMMA OneBills ==
    ASSUME NEW t
    PROVE  /\ OneBill(t, {}) /\ OneBill(t, Owed(t))
           /\ \A n : OneBill(t, Posting(t, n))
           /\ \A d \in Adjustments(t) : OneBill(t, d)
<1>1. \A n : OneBill(t, Posting(t, n))
  BY DEF OneBill, Posting
<1>2. OneBill(t, {})
  BY DEF OneBill
<1> QED
  BY <1>1, <1>2 DEF Owed, Adjustments

(* Nothing but t is touched by the one who has won it.                      *)
LEMMA WinnerBills ==
    ASSUME TypeOK, NEW t \in Tasks, NEW p \in Pollers, NEW r, NEW D,
           row[t].status \notin Final, r.status \in Final, OneBill(t, D),
           row' = [row EXCEPT ![t] = r], due' = [due EXCEPT ![p] = D],
           UNCHANGED bills, NEW u \in Tasks
    PROVE  Keeps(u) \/ Starts(u)
<1>1. DOMAIN row = Tasks /\ DOMAIN due = Pollers
  BY DEF TypeOK, TaskType, PollerType
<1>2. \A q \in Pollers \ {p} : Funds(q, u)' = Funds(q, u)
  BY <1>1 DEF Funds
<1>3. Funds(p, u)' \subseteq D
  BY <1>1 DEF Funds
<1>4. CASE u = t
  <2>1. row'[u] = r
    BY <1>1, <1>4
  <2>2. \A e, f \in Funds(p, u)' : e = f
    BY <1>3 DEF OneBill
  <2>3. \A q \in Pollers \ {p} : Funds(q, u)' \subseteq Funds(q, u)
    BY <1>2
  <2>4. bills'[u] = bills[u] /\ row[u].status \notin Final /\ row'[u].status \in Final
    BY <2>1, <1>4
  <2> QED
    BY <2>2, <2>3, <2>4 DEF Starts
<1>5. CASE u # t
  <2>1. row'[u] = row[u]
    BY <1>1, <1>5
  <2>2. Funds(p, u)' = {}
    BY <1>3, <1>1, <1>5 DEF Funds, OneBill
  <2>3. \A q \in Pollers : Funds(q, u)' \subseteq Funds(q, u)
    BY <1>2, <2>2
  <2> QED
    BY <2>1, <2>3 DEF Keeps
<1> QED
  BY <1>4, <1>5

(* What every step does to a task that is updated with the swap alone.      *)
FinalKept(u) == ~gone /\ row[u].status \in Final => row'[u].status = row[u].status
StepOf(u) == (Keeps(u) \/ Starts(u) \/ Posts(u)) /\ FinalKept(u) /\ RowInv(u)'

LEMMA Untouched ==
    ASSUME NEW u \in Video, RowInv(u), row'[u] = row[u], bills'[u] = bills[u],
           \A p \in Pollers : Funds(p, u)' \subseteq Funds(p, u),
           UNCHANGED upstream
    PROVE  StepOf(u)
BY DEF StepOf, Keeps, FinalKept, RowInv

LEMMA Quiet ==
    ASSUME NEW u \in Video, RowInv(u), UNCHANGED <<row, bills, due, upstream>>
    PROVE  StepOf(u)
<1>1. \A p \in Pollers : Funds(p, u)' = Funds(p, u)
  BY DEF Funds
<1> QED
  BY <1>1, Untouched

LEMMA VideoTask == ASSUME NEW u \in Video PROVE u \in Tasks /\ info[u].kind = "video"
BY DEF Video, Kindred

LEMMA OutsideSteps == ASSUME SafeInv, Outside, NEW u \in Video PROVE StepOf(u)
<1>1. RowInv(u) /\ u \in Tasks
  BY VideoTask DEF SafeInv
<1>2. DOMAIN row = Tasks /\ DOMAIN upstream = Tasks
  BY DEF SafeInv, TypeOK, TaskType
<1>3. ASSUME NEW t \in Tasks, Submit(t) PROVE StepOf(u)
  <2>1. UNCHANGED <<bills, due>>
    BY <1>3 DEF Submit, jobVars
  <2>2. \A p \in Pollers : Funds(p, u)' = Funds(p, u)
    BY <2>1 DEF Funds
  <2>3. CASE u = t
    <3>1. row[u].status = "none" /\ upstream'[u] # "none"
      BY <1>1, <1>2, <1>3, <2>3 DEF Submit, RowInv
    <3>2. row'[u].status \in {"none", "NOT_START"}
      BY <1>1, <1>2, <1>3, <2>3, <3>1 DEF Submit
    <3>3. Keeps(u) /\ FinalKept(u)
      BY <2>1, <2>2, <3>1, <3>2 DEF Keeps, FinalKept, Final
    <3> QED
      BY <3>1, <3>3 DEF StepOf, RowInv
  <2>4. CASE u # t
    <3>1. row'[u] = row[u] /\ upstream'[u] = upstream[u]
      BY <1>1, <1>2, <1>3, <2>4 DEF Submit
    <3> QED
      BY <1>1, <2>1, <2>2, <3>1 DEF StepOf, Keeps, FinalKept, RowInv
  <2> QED
    BY <2>3, <2>4
<1>4. ASSUME NEW t \in Tasks, UpstreamEnds(t) PROVE StepOf(u)
  <2>1. UNCHANGED <<row, bills, due>>
    BY <1>4 DEF UpstreamEnds, jobVars, moneyVars
  <2>2. \A p \in Pollers : Funds(p, u)' = Funds(p, u)
    BY <2>1 DEF Funds
  <2>3. upstream'[u] = "none" => upstream[u] = "none"
    BY <1>1, <1>2, <1>4 DEF UpstreamEnds, Final
  <2> QED
    BY <1>1, <2>1, <2>2, <2>3 DEF StepOf, Keeps, FinalKept, RowInv
<1>5. ASSUME NEW t \in Tasks, TimePasses(t) PROVE StepOf(u)
  BY <1>1, <1>5, Quiet DEF TimePasses, jobVars, moneyVars
<1>6. ASSUME LoseChannel PROVE StepOf(u)
  BY <1>1, <1>6, Quiet DEF LoseChannel, jobVars, moneyVars
<1> QED
  BY <1>3, <1>4, <1>5, <1>6 DEF Outside

(* The one who has won a task from what it has seen unfinished.             *)
LEMMA WinnerSteps ==
    ASSUME SafeInv, NEW p \in Pollers, NEW t \in todo[p], NEW r, NEW D,
           Wins(p, t), Write(t, r), OneBill(t, D),
           \/ r.status \in Final /\ due' = [due EXCEPT ![p] = D]
           \/ r.status \notin Final /\ UNCHANGED due,
           UNCHANGED <<bills, upstream>>, NEW u \in Video
    PROVE  StepOf(u)
<1>1. TypeOK /\ RowInv(u) /\ t \in Tasks /\ u \in Tasks
  BY VideoTask DEF SafeInv, TypeOK, PollerType
<1>2. DOMAIN row = Tasks /\ DOMAIN due = Pollers
  BY <1>1 DEF TypeOK, TaskType, PollerType
<1>3. CASE u = t
  <2>1. row[t].status \notin Final /\ upstream[t] # "none"
    BY <1>3 DEF SafeInv, JobInv, Wins
  <2>2. RowInv(u)' /\ FinalKept(u)
    BY <2>1, <1>3 DEF RowInv, FinalKept
  <2>3. CASE r.status \in Final /\ due' = [due EXCEPT ![p] = D]
    <3>1. row' = [row EXCEPT ![t] = r]
      BY DEF Write
    <3>2. Keeps(u) \/ Starts(u)
      BY <1>1, <2>1, <2>3, <3>1, WinnerBills
    <3> QED
      BY <2>2, <3>2 DEF StepOf
  <2>4. CASE r.status \notin Final /\ UNCHANGED due
    <3>1. row'[u] = r
      BY <1>1, <1>2, <1>3 DEF Write
    <3>2. Keeps(u)
      BY <1>3, <2>1, <2>4, <3>1 DEF Keeps, Funds
    <3> QED
      BY <2>2, <3>2 DEF StepOf
  <2> QED
    BY <2>3, <2>4
<1>4. CASE u # t
  <2>1. row'[u] = row[u]
    BY <1>1, <1>2, <1>4 DEF Write
  <2>2. \A q \in Pollers : Funds(q, u)' \subseteq Funds(q, u)
    BY <1>2, <1>4 DEF Funds, OneBill
  <2> QED
    BY <1>1, <2>1, <2>2, Untouched
<1> QED
  BY <1>3, <1>4

(* Failing in bulk bills nobody, and what has ended has ended.              *)
LEMMA BulkSteps ==
    ASSUME SafeInv, NEW p \in Pollers, NEW S \in SUBSET todo[p], BulkFail(S),
           UNCHANGED <<bills, due, upstream>>, gone, NEW u \in Video
    PROVE  StepOf(u)
<1>1. RowInv(u) /\ BillInv(u) /\ u \in Tasks
  BY VideoTask DEF SafeInv
<1>2. \A q \in Pollers : Funds(q, u)' = Funds(q, u)
  BY DEF Funds
<1>3. CASE u \in S
  <2>1. row'[u].status \in Final
    BY <1>1, <1>3 DEF BulkFail, Failed, Final
  <2>2. RowInv(u)' /\ FinalKept(u)
    BY <1>3 DEF SafeInv, JobInv, RowInv, FinalKept
  <2>3. CASE row[u].status \in Final
    BY <1>2, <2>1, <2>2, <2>3 DEF StepOf, Keeps
  <2>4. CASE row[u].status \notin Final
    <3>1. \A q \in Pollers : Funds(q, u) = {}
      BY <1>1, <2>4 DEF BillInv
    <3>2. Starts(u)
      BY <1>2, <2>1, <2>4, <3>1 DEF Starts
    <3> QED
      BY <2>2, <3>2 DEF StepOf
  <2> QED
    BY <2>3, <2>4
<1>4. CASE u \notin S
  <2>1. row'[u] = row[u]
    BY <1>1, <1>4 DEF BulkFail
  <2> QED
    BY <1>1, <1>2, <2>1, Untouched
<1> QED
  BY <1>3, <1>4

LEMMA RoundSteps ==
    ASSUME SafeInv, NEW p \in Pollers, NEW u \in Video,
           \/ Wake(p) \/ List(p) \/ EndRound(p) \/ Dispatch(p) \/ FailAnonymous(p)
           \/ Stop(p) \/ \E t \in Tasks : Sweep(p, t) \/ Fetch(p, t)
    PROVE  StepOf(u)
<1>1. RowInv(u) /\ u \in Tasks /\ info[u].kind = "video"
  BY VideoTask DEF SafeInv
<1>2. DOMAIN due = Pollers
  BY DEF SafeInv, TypeOK, PollerType
<1>3. CASE Wake(p) \/ List(p) \/ EndRound(p)
  BY <1>1, <1>3, Quiet DEF Wake, List, EndRound, rowVars, moneyVars
<1>4. CASE Dispatch(p)
  <2>1. CASE UNCHANGED row
    BY <1>1, <1>4, <2>1, Quiet DEF Dispatch, moneyVars
  <2>2. CASE gone /\ BulkFail(todo[p])
    <3>1. UNCHANGED <<bills, due, upstream>>
      BY <1>4 DEF Dispatch, moneyVars
    <3> QED
      BY <2>2, <3>1, BulkSteps
  <2> QED
    BY <1>4, <2>1, <2>2 DEF Dispatch
<1>5. CASE FailAnonymous(p)
  <2>1. CASE UNCHANGED <<row, due>>
    BY <1>1, <1>5, <2>1, Quiet DEF FailAnonymous, moneyVars
  <2>2. CASE ~ UNCHANGED <<row, due>>
    <3> DEFINE S == todo[p] \cap Kindred("anonymous")
               D == UNION {Posting(t, -Quota(t)) : t \in S}
    <3>1. BulkFail(S) /\ due' = [due EXCEPT ![p] = D]
      BY <1>5, <2>2 DEF FailAnonymous
    <3>2. UNCHANGED <<bills, upstream>>
      BY <1>5 DEF FailAnonymous, moneyVars
    <3>3. u \notin S
      BY <1>1 DEF Kindred
    <3>4. row'[u] = row[u]
      BY <1>1, <3>1, <3>3 DEF BulkFail
    <3>5. \A e \in D : e.task \in S
      BY DEF Posting
    <3>6. \A q \in Pollers : Funds(q, u)' \subseteq Funds(q, u)
      <4> HIDE DEF D, S
      <4> QED
        BY <1>2, <3>1, <3>3, <3>5 DEF Funds
    <3> QED
      BY <1>1, <3>2, <3>4, <3>6, Untouched
  <2> QED
    BY <2>1, <2>2
<1>6. CASE Stop(p)
  <2>1. \A q \in Pollers : Funds(q, u)' \subseteq Funds(q, u)
    BY <1>2, <1>6 DEF Stop, Crash, Hang, Forget, Funds
  <2> QED
    BY <1>1, <1>6, <2>1, Untouched DEF Stop, Crash, Hang, Forget, rowVars, moneyVars
<1>7. ASSUME NEW t \in Tasks, Sweep(p, t) PROVE StepOf(u)
  <2>1. UNCHANGED <<bills, upstream>> /\ t \in todo[p]
    BY <1>7 DEF Sweep, moneyVars
  <2>2. CASE Wins(p, t) /\ Write(t, Failed) /\ due' = [due EXCEPT ![p] = Owed(t)]
    <3>1. Failed.status \in Final
      BY DEF Failed, Final
    <3>2. OneBill(t, Owed(t))
      BY OneBills
    <3> QED
      BY <2>1, <2>2, <3>1, <3>2, WinnerSteps
  <2>3. CASE UNCHANGED <<row, due>>
    BY <1>1, <2>1, <2>3, Quiet
  <2> QED
    BY <1>7, <2>2, <2>3 DEF Sweep
<1>8. ASSUME NEW t \in Tasks, Fetch(p, t) PROVE StepOf(u)
  BY <1>1, <1>8, Quiet DEF Fetch, rowVars, moneyVars
<1> QED
  BY <1>3, <1>4, <1>5, <1>6, <1>7, <1>8

LEMMA UpdateSteps ==
    ASSUME SafeInv, NEW p \in Pollers, NEW u \in Video,
           Apply(p) \/ ApplySuno(p) \/ SaveSuno(p)
    PROVE  StepOf(u)
<1>1. RowInv(u) /\ u \in Tasks /\ info[u].kind = "video"
  BY VideoTask DEF SafeInv
<1>2. DOMAIN due = Pollers /\ DOMAIN row = Tasks
  BY DEF SafeInv, TypeOK, PollerType, TaskType
<1>3. JobInv(p)
  BY DEF SafeInv
<1> DEFINE t == cur[p]
<1>4. CASE Apply(p)
  <2>1. UNCHANGED <<bills, upstream>> /\ t \in todo[p]
    BY <1>3, <1>4 DEF Apply, JobInv, moneyVars
  <2>2. CASE Wins(p, t) /\ Write(t, report[p]) /\ ~ UNCHANGED <<row, due>>
    <3>1. PICK D : /\ OneBill(t, D)
                   /\ \/ report[p].status \in Final /\ due' = [due EXCEPT ![p] = D]
                      \/ report[p].status \notin Final /\ UNCHANGED due
      <4>1. CASE report[p].status = "FAILURE" /\ due' = [due EXCEPT ![p] = Posting(t, -Quota(t))]
        BY <4>1, OneBills DEF Final
      <4>2. CASE report[p].status = "SUCCESS"
                 /\ \E d \in Adjustments(t) : due' = [due EXCEPT ![p] = d]
        BY <4>2, OneBills DEF Final
      <4>3. CASE report[p].status \notin Final /\ UNCHANGED due
        BY <4>3, OneBills
      <4> QED
        BY <1>4, <2>2, <4>1, <4>2, <4>3 DEF Apply
    <3> QED
      BY <2>1, <2>2, <3>1, WinnerSteps
  <2>3. CASE UNCHANGED <<row, due>>
    BY <1>1, <2>1, <2>3, Quiet
  <2> QED
    BY <1>4, <2>2, <2>3 DEF Apply
<1>5. CASE ApplySuno(p)
  <2>1. u # t
    BY <1>1, <1>5 DEF ApplySuno
  <2>2. PICK D \in {{}, Posting(t, -Quota(t))} : due' = [due EXCEPT ![p] = D]
    BY <1>5 DEF ApplySuno
  <2>3. OneBill(t, D)
    BY OneBills
  <2>4. \A q \in Pollers : Funds(q, u)' \subseteq Funds(q, u)
    BY <1>2, <2>1, <2>2, <2>3 DEF Funds, OneBill
  <2> QED
    BY <1>1, <1>5, <2>4, Untouched DEF ApplySuno, rowVars, moneyVars
<1>6. CASE SaveSuno(p)
  <2>1. u # t
    BY <1>1, <1>3, <1>6 DEF SaveSuno, JobInv
  <2>2. row'[u] = row[u]
    BY <1>1, <1>2, <1>6, <2>1 DEF SaveSuno, Write
  <2>3. \A q \in Pollers : Funds(q, u)' = Funds(q, u)
    BY <1>6 DEF SaveSuno, Funds
  <2> QED
    BY <1>1, <1>6, <2>2, <2>3, Untouched DEF SaveSuno, moneyVars
<1> QED
  BY <1>4, <1>5, <1>6

LEMMA PostSteps ==
    ASSUME SafeInv, NEW p \in Pollers, NEW u \in Video, PostFund(p) \/ PostToken(p)
    PROVE  StepOf(u)
<1>1. RowInv(u) /\ u \in Tasks
  BY VideoTask DEF SafeInv
<1>2. DOMAIN due = Pollers /\ DOMAIN bills = Tasks
  BY DEF SafeInv, TypeOK, PollerType, MoneyType
<1>3. CASE PostFund(p)
  <2>1. PICK e \in due[p] :
            /\ \A x \in due[p] : x.step = "fund"
            /\ \/ /\ bills' = [bills EXCEPT ![e.task] = @ + 1]
                  /\ due' = [due EXCEPT ![p] = (@ \ {e}) \cup {ForToken(e)}]
               \/ /\ due' = [due EXCEPT ![p] = @ \ {e}]
                  /\ UNCHANGED bills
    BY <1>3 DEF PostFund, moneyVars
  <2>2. UNCHANGED <<row, upstream>>
    BY <1>3 DEF PostFund, rowVars
  <2>3. Funds(p, u)' \subseteq Funds(p, u) \ {e}
    BY <1>2, <2>1 DEF Funds, ForToken
  <2>4. \A q \in Pollers \ {p} : Funds(q, u)' \subseteq Funds(q, u)
    BY <1>2, <2>1 DEF Funds
  <2>5. CASE bills'[u] = bills[u]
    BY <1>1, <2>2, <2>3, <2>4, <2>5, Untouched
  <2>6. CASE bills'[u] # bills[u]
    <3>1. e \in Funds(p, u) /\ bills'[u] = bills[u] + 1
      BY <1>1, <1>2, <2>1, <2>6 DEF Funds
    <3>2. Posts(u)
      BY <2>2, <2>3, <2>4, <3>1 DEF Posts
    <3> QED
      BY <1>1, <2>2, <3>2 DEF StepOf, FinalKept, RowInv
  <2> QED
    BY <2>5, <2>6
<1>4. CASE PostToken(p)
  <2>1. \A q \in Pollers : Funds(q, u)' \subseteq Funds(q, u)
    BY <1>2, <1>4 DEF PostToken, Funds
  <2> QED
    BY <1>1, <1>4, <2>1, Untouched DEF PostToken, rowVars
<1> QED
  BY <1>3, <1>4

LEMMA ClientSteps ==
    ASSUME SafeInv, NEW c \in Clients, NEW u \in Video,
           Refresh(c) \/ \E t \in Tasks : Look(c, t)
    PROVE  StepOf(u)
<1>1. RowInv(u) /\ u \in Tasks /\ info[u].kind = "video"
  BY VideoTask DEF SafeInv
<1>2. CASE Refresh(c)
  <2>1. u # cur[c]
    BY <1>1, <1>2 DEF SafeInv, ClientInv, Refresh
  <2>2. row'[u] = row[u]
    BY <1>1, <1>2, <2>1 DEF SafeInv, TypeOK, TaskType, Refresh, Write
  <2>3. \A q \in Pollers : Funds(q, u)' = Funds(q, u)
    BY <1>2 DEF Refresh, Funds
  <2> QED
    BY <1>1, <1>2, <2>2, <2>3, Untouched DEF Refresh, moneyVars
<1>3. ASSUME NEW t \in Tasks, Look(c, t) PROVE StepOf(u)
  BY <1>1, <1>3, Quiet DEF Look, rowVars, moneyVars
<1> QED
  BY <1>2, <1>3

LEMMA EveryStep == ASSUME SafeInv, [Next]_vars, NEW u \in Video PROVE StepOf(u)
<1>1. CASE Outside
  BY <1>1, OutsideSteps
<1>2. ASSUME NEW p \in Pollers, Poll(p) \/ Stop(p) PROVE StepOf(u)
  BY <1>2, RoundSteps, UpdateSteps, PostSteps DEF Poll
<1>3. ASSUME NEW c \in Clients, Refresh(c) \/ \E t \in Tasks : Look(c, t)
      PROVE  StepOf(u)
  BY <1>3, ClientSteps
<1>4. CASE UNCHANGED vars
  <2>1. RowInv(u)
    BY DEF SafeInv
  <2> QED
    BY <1>4, <2>1, Quiet DEF vars, rowVars, jobVars, moneyVars
<1> QED
  BY <1>1, <1>2, <1>3, <1>4 DEF Next

LEMMA InfoFixed == ASSUME [Next]_vars PROVE UNCHANGED info
<1>1. Outside => UNCHANGED info
  BY DEF Outside, Submit, UpstreamEnds, TimePasses, LoseChannel
<1>2. ASSUME NEW p \in Pollers, Poll(p) \/ Stop(p) PROVE UNCHANGED info
  <2>1. Wake(p) \/ List(p) \/ FailAnonymous(p) \/ Dispatch(p) => UNCHANGED info
    BY DEF Wake, List, FailAnonymous, Dispatch
  <2>2. \A t \in Tasks : Sweep(p, t) \/ Fetch(p, t) => UNCHANGED info
    BY DEF Sweep, Fetch
  <2>3. Apply(p) \/ ApplySuno(p) \/ SaveSuno(p) => UNCHANGED info
    BY DEF Apply, ApplySuno, SaveSuno
  <2>4. EndRound(p) \/ PostFund(p) \/ PostToken(p) \/ Stop(p) => UNCHANGED info
    BY DEF EndRound, PostFund, PostToken, Stop, Crash, Hang, Forget
  <2> QED
    BY <1>2, <2>1, <2>2, <2>3, <2>4 DEF Poll
<1>3. \A c \in Clients : Refresh(c) \/ (\E t \in Tasks : Look(c, t)) => UNCHANGED info
  BY DEF Refresh, Look
<1>4. UNCHANGED vars => UNCHANGED info
  BY DEF vars
<1> QED
  BY <1>1, <1>2, <1>3, <1>4 DEF Next

(* What a poller works on.                                                  *)

(* The part of JobInv about what is still to be looked at.                  *)
ListInv(p) == \A t \in todo[p] \cap Video :
                 seen[p][t].status \notin Final \cup {"none"} /\ upstream[t] # "none"

LEMMA ListShrinks ==
    ASSUME NEW p \in Pollers, ListInv(p), todo'[p] \subseteq todo[p],
           seen'[p] = seen[p], UNCHANGED info,
           \A t \in Tasks : upstream[t] # "none" => upstream'[t] # "none"
    PROVE  ListInv(p)'
<1>1. Video' = Video /\ Video \subseteq Tasks
  BY DEF Video, Kindred
<1> QED
  BY <1>1 DEF ListInv

LEMMA ListLoaded ==
    ASSUME SafeInv, NEW p \in Pollers, NEW S, \A t \in S : Unfinished(t), Load(p, S),
           UNCHANGED <<info, upstream>>
    PROVE  ListInv(p)'
<1>1. Video' = Video /\ Video \subseteq Tasks
  BY DEF Video, Kindred
<1>2. todo'[p] \subseteq S
  BY DEF SafeInv, TypeOK, PollerType, Load
<1>3. seen'[p] = row
  BY DEF SafeInv, TypeOK, ProcessType, Process, Load
<1>4. \A t \in Video : RowInv(t)
  BY DEF SafeInv
<1> QED
  BY <1>1, <1>2, <1>3, <1>4 DEF ListInv, Unfinished, RowInv

LEMMA JobUntouched ==
    ASSUME NEW p \in Pollers, JobInv(p), todo'[p] = todo[p], seen'[p] = seen[p],
           cur'[p] = cur[p], stage'[p] = stage[p], UNCHANGED info,
           \A t \in Tasks : upstream[t] # "none" => upstream'[t] # "none"
    PROVE  JobInv(p)'
<1>1. ListInv(p)'
  BY ListShrinks DEF JobInv, ListInv
<1> QED
  BY <1>1 DEF JobInv, ListInv

LEMMA OwnJob ==
    ASSUME SafeInv, NEW p \in Pollers, Poll(p) \/ Stop(p), UNCHANGED info
    PROVE  JobInv(p)'
<1>1. JobInv(p) /\ ListInv(p)
  BY DEF SafeInv, JobInv, ListInv
<1>2. /\ DOMAIN stage = Pollers /\ DOMAIN todo = Pollers
      /\ DOMAIN cur = Process /\ DOMAIN seen = Process /\ p \in Process
  BY DEF SafeInv, TypeOK, PollerType, ProcessType, Process
<1>3. CASE Wake(p) \/ List(p)
  <2>1. ListInv(p)'
    BY <1>3, ListLoaded DEF Wake, List, rowVars
  <2>2. cur'[p] = NoTask /\ stage'[p] # "save"
    BY <1>1, <1>2, <1>3 DEF Wake, List, JobInv
  <2> QED
    BY <2>1, <2>2 DEF JobInv, ListInv
<1>4. ASSUME FailAnonymous(p) \/ Dispatch(p) \/ \E t \in Tasks : Sweep(p, t)
      PROVE  JobInv(p)'
  <2>1. todo'[p] \subseteq todo[p] /\ UNCHANGED <<seen, cur, upstream>>
    BY <1>2, <1>4 DEF FailAnonymous, Dispatch, Sweep
  <2>2. stage[p] \in {"sweep", "poll"} /\ stage'[p] # "save"
    BY <1>2, <1>4 DEF FailAnonymous, Dispatch, Sweep
  <2>3. ListInv(p)'
    BY <1>1, <2>1, ListShrinks
  <2> QED
    BY <1>1, <2>1, <2>2, <2>3 DEF JobInv, ListInv
<1>5. ASSUME NEW t \in Tasks, Fetch(p, t) PROVE JobInv(p)'
  <2>1. todo'[p] \subseteq todo[p] /\ UNCHANGED <<seen, stage, upstream>>
    BY <1>2, <1>5 DEF Fetch, rowVars
  <2>2. ListInv(p)'
    BY <1>1, <2>1, ListShrinks
  <2>3. stage'[p] = "fetch" /\ (cur'[p] # NoTask => cur'[p] \in todo'[p])
    BY <1>2, <1>5 DEF Fetch
  <2> QED
    BY <2>2, <2>3 DEF JobInv, ListInv
<1>6. CASE Apply(p) \/ SaveSuno(p)
  <2>1. todo'[p] \subseteq todo[p] /\ UNCHANGED <<seen, upstream>>
    BY <1>2, <1>6 DEF Apply, SaveSuno, Done
  <2>2. ListInv(p)'
    BY <1>1, <2>1, ListShrinks
  <2>3. stage'[p] = "fetch" /\ cur'[p] = NoTask
    BY <1>2, <1>6 DEF Apply, SaveSuno, Done
  <2> QED
    BY <2>2, <2>3 DEF JobInv, ListInv
<1>7. CASE ApplySuno(p)
  <2>1. UNCHANGED <<todo, seen, cur, upstream>>
    BY <1>7 DEF ApplySuno, rowVars
  <2>2. ListInv(p)'
    BY <1>1, <2>1, ListShrinks
  <2>3. stage'[p] = "save" /\ cur[p] # NoTask /\ info[cur[p]].kind = "suno"
    BY <1>2, <1>7 DEF ApplySuno
  <2> QED
    BY <1>1, <2>1, <2>2, <2>3 DEF JobInv, ListInv
<1>8. CASE EndRound(p)
  <2>1. todo'[p] = {} /\ UNCHANGED cur /\ stage'[p] = "sleep"
    BY <1>2, <1>8 DEF EndRound
  <2>2. cur[p] = NoTask
    BY <1>1, <1>8 DEF EndRound, JobInv
  <2> QED
    BY <2>1, <2>2 DEF JobInv
<1>9. CASE PostFund(p) \/ PostToken(p)
  BY <1>1, <1>9, JobUntouched DEF PostFund, PostToken, rowVars
<1>10. CASE Stop(p)
  <2>1. todo'[p] = {} /\ cur'[p] = NoTask /\ stage'[p] # "save"
    BY <1>2, <1>10 DEF Stop, Crash, Hang, Forget
  <2> QED
    BY <2>1 DEF JobInv
<1> QED
  BY <1>3, <1>4, <1>5, <1>6, <1>7, <1>8, <1>9, <1>10 DEF Poll

LEMMA Elsewhere ==
    ASSUME TypeOK, NEW p \in Pollers, Poll(p) \/ Stop(p)
    PROVE  /\ \A x \in Process \ {p} : seen'[x] = seen[x] /\ cur'[x] = cur[x]
           /\ \A q \in Pollers \ {p} : todo'[q] = todo[q] /\ stage'[q] = stage[q]
           /\ UNCHANGED upstream
<1>1. /\ DOMAIN stage = Pollers /\ DOMAIN todo = Pollers
      /\ DOMAIN cur = Process /\ DOMAIN seen = Process
  BY DEF TypeOK, PollerType, ProcessType
<1>2. CASE Wake(p) \/ List(p)
  BY <1>1, <1>2 DEF Wake, List, Load, rowVars
<1>3. CASE FailAnonymous(p) \/ Dispatch(p) \/ EndRound(p)
  BY <1>1, <1>3 DEF FailAnonymous, Dispatch, EndRound, rowVars
<1>4. ASSUME NEW t \in Tasks, Sweep(p, t) \/ Fetch(p, t)
      PROVE  /\ \A x \in Process \ {p} : seen'[x] = seen[x] /\ cur'[x] = cur[x]
             /\ \A q \in Pollers \ {p} : todo'[q] = todo[q] /\ stage'[q] = stage[q]
             /\ UNCHANGED upstream
  BY <1>1, <1>4 DEF Sweep, Fetch, rowVars
<1>5. CASE Apply(p) \/ ApplySuno(p) \/ SaveSuno(p)
  BY <1>1, <1>5 DEF Apply, ApplySuno, SaveSuno, Done, rowVars
<1>6. CASE PostFund(p) \/ PostToken(p) \/ Stop(p)
  BY <1>1, <1>6 DEF PostFund, PostToken, Stop, Crash, Hang, Forget, rowVars
<1> QED
  BY <1>2, <1>3, <1>4, <1>5, <1>6 DEF Poll

LEMMA EveryJob ==
    ASSUME SafeInv, [Next]_vars
    PROVE  (\A q \in Pollers : JobInv(q)') /\ (\A c \in Clients : ClientInv(c)')
<1>1. UNCHANGED info /\ TypeOK
  BY InfoFixed DEF SafeInv
<1>2. /\ \A q \in Pollers : JobInv(q) /\ q \in Process
      /\ \A c \in Clients : ClientInv(c) /\ c \in Process
  BY DEF SafeInv, Process
<1>3. CASE Outside
  <2>1. \A t \in Tasks : upstream[t] # "none" => upstream'[t] # "none"
    BY <1>1, <1>3
    DEF Outside, Submit, UpstreamEnds, TimePasses, LoseChannel, TypeOK, TaskType, Final
  <2>2. UNCHANGED <<stage, todo, seen, cur>>
    BY <1>3 DEF Outside, Submit, UpstreamEnds, TimePasses, LoseChannel, jobVars
  <2> QED
    BY <1>1, <1>2, <2>1, <2>2, JobUntouched DEF ClientInv
<1>4. ASSUME NEW p \in Pollers, Poll(p) \/ Stop(p)
      PROVE  (\A q \in Pollers : JobInv(q)') /\ (\A c \in Clients : ClientInv(c)')
  <2>1. JobInv(p)'
    BY <1>1, <1>4, OwnJob
  <2>2. /\ \A x \in Process \ {p} : seen'[x] = seen[x] /\ cur'[x] = cur[x]
        /\ \A q \in Pollers \ {p} : todo'[q] = todo[q] /\ stage'[q] = stage[q]
        /\ UNCHANGED upstream
    BY <1>1, <1>4, Elsewhere
  <2>3. \A q \in Pollers \ {p} : JobInv(q)'
    BY <1>1, <1>2, <2>2, JobUntouched
  <2>4. \A c \in Clients : c \in Process \ {p}
    BY <1>2, <1>4, NamesAssumption
  <2> QED
    BY <1>1, <1>2, <2>1, <2>2, <2>3, <2>4 DEF ClientInv
<1>5. ASSUME NEW c \in Clients, Refresh(c) \/ \E t \in Tasks : Look(c, t)
      PROVE  (\A q \in Pollers : JobInv(q)') /\ (\A d \in Clients : ClientInv(d)')
  <2>1. DOMAIN cur = Process /\ DOMAIN seen = Process
    BY <1>1 DEF TypeOK, ProcessType
  <2>2. \A x \in Process \ {c} : seen'[x] = seen[x] /\ cur'[x] = cur[x]
    BY <1>5, <2>1 DEF Refresh, Look
  <2>3. UNCHANGED <<todo, stage, upstream>>
    BY <1>5 DEF Refresh, Look, rowVars
  <2>4. \A q \in Pollers : q \in Process \ {c}
    BY <1>2, <1>5, NamesAssumption
  <2>5. \A q \in Pollers : JobInv(q)'
    BY <1>1, <1>2, <2>2, <2>3, <2>4, JobUntouched
  <2>6. cur'[c] # NoTask => info[cur'[c]].kind = "realtime"
    BY <1>2, <1>5, <2>1 DEF Refresh, Look
  <2> QED
    BY <1>1, <1>2, <2>2, <2>5, <2>6 DEF ClientInv
<1>6. CASE UNCHANGED vars
  <2>1. UNCHANGED <<stage, todo, seen, cur, upstream>>
    BY <1>6 DEF vars, rowVars, jobVars
  <2> QED
    BY <1>1, <1>2, <2>1, JobUntouched DEF ClientInv
<1> QED
  BY <1>3, <1>4, <1>5, <1>6 DEF Next

-----------------------------------------------------------------------------
LEMMA SafeInit == ASSUME Init PROVE SafeInv
<1>1. TypeOK
  BY InitTypes
<1>2. \A t \in Video : BillInv(t) /\ RowInv(t)
  <2>1. \A t \in Video : t \in Tasks
    BY VideoTask
  <2> QED
    BY <2>1 DEF Init, BillInv, RowInv, Funds, NoRows, NoRow, Final
<1>3. \A p \in Pollers : JobInv(p)
  BY DEF Init, JobInv, Process
<1>4. \A c \in Clients : ClientInv(c)
  BY DEF Init, ClientInv, Process
<1> QED
  BY <1>1, <1>2, <1>3, <1>4 DEF SafeInv

LEMMA SafeStep == ASSUME SafeInv, [Next]_vars PROVE SafeInv'
<1>1. TypeOK'
  BY StepTypes DEF SafeInv
<1>2. Video' = Video
  BY InfoFixed DEF Video, Kindred
<1>3. ASSUME NEW t \in Video PROVE BillInv(t)' /\ RowInv(t)'
  <2>1. StepOf(t)
    BY EveryStep
  <2>2. TypeOK /\ BillInv(t) /\ t \in Tasks
    BY VideoTask DEF SafeInv
  <2> QED
    BY <2>1, <2>2, BillStep DEF StepOf
<1> QED
  BY <1>1, <1>2, <1>3, EveryJob DEF SafeInv

(* The invariant holds: who is about to bill a task that the swap guards is  *)
(* the one who has brought it to its final status.                          *)
THEOREM Safe == Spec => []SafeInv
<1>1. Init => SafeInv
  BY SafeInit
<1>2. SafeInv /\ [Next]_vars => SafeInv'
  BY SafeStep
<1> QED
  BY <1>1, <1>2, PTL DEF Spec

(* A task that is updated with the compare-and-swap alone is billed once    *)
(* after its submission, whatever pollers, sweeps, errors and restarts      *)
(* there are: the swap of its status (UpdateWithStatus) names the one who   *)
(* bills.                                                                   *)
THEOREM BillsOnce == Spec => []BilledOnce
<1>1. SafeInv => BilledOnce
  BY DEF SafeInv, BillInv, BilledOnce, Video
<1> QED
  BY <1>1, Safe, PTL

(* As long as the channel is there, no update that was prepared before      *)
(* replaces the final status of such a task.                                *)
THEOREM FinalIsFinal == Spec => FinalStays
<1> DEFINE Stays == \A t \in Kindred("video") :
                       ~gone /\ row[t].status \in Final => row'[t].status = row[t].status
<1>1. SafeInv /\ [Next]_vars => Stays
  BY EveryStep DEF StepOf, FinalKept, Video
<1>2. SafeInv /\ [Next]_vars => [Stays]_vars
  BY <1>1
<1> QED
  BY <1>2, Safe, PTL DEF Spec, FinalStays

-----------------------------------------------------------------------------
(* The token of a task follows its funding source.                          *)

(* The amounts that p is about to post to the token of t.                   *)
Tokens(p, t) == {e \in due[p] : e.task = t /\ e.step = "token"}

(* A task that has not been submitted is nobody's.                          *)
FreshInv(t) ==
    upstream[t] = "none" =>
        /\ row[t].status = "none" /\ bills[t] = 0
        /\ \A p \in Pollers : t \notin todo[p] /\ \A e \in due[p] : e.task # t
        /\ \A x \in Process : cur[x] # t

(* Before its first billing a task has cost what its submission was         *)
(* charged; after it, what is still to be posted to the token is the        *)
(* difference.                                                              *)
Charged(t) == paid[t]["fund"] = Quota(t) /\ paid[t]["token"] = Quota(t)
Follows(t) == paid[t]["token"] = paid[t]["fund"] \/ paid[t]["token"] = Quota(t)
Adjusts(t, e) == paid[t]["token"] = Quota(t) /\ paid[t]["fund"] = Quota(t) + e.delta
TokenInv(t) ==
    /\ bills[t] = 0 => /\ \A p \in Pollers : Tokens(p, t) = {}
                       /\ paid[t]["token"] = paid[t]["fund"]
                       /\ upstream[t] # "none" => Charged(t)
    /\ bills[t] = 1 =>
           /\ Follows(t)
           /\ \A p \in Pollers : \A e \in Tokens(p, t) : Adjusts(t, e)
           /\ \A p, q \in Pollers : \A e \in Tokens(p, t), f \in Tokens(q, t) :
                  p = q /\ e = f

FollowInv ==
    /\ SafeInv
    /\ \A t \in Tasks : FreshInv(t) /\ TokenInv(t)

(* What a step may do to the charges of t: nothing, ...                     *)
FewerTokens(t) == \A p \in Pollers : Tokens(p, t)' \subseteq Tokens(p, t)
Unpaid(t) ==
    /\ paid'[t] = paid[t] /\ bills'[t] = bills[t] /\ FewerTokens(t)
    /\ upstream'[t] = "none" <=> upstream[t] = "none"

(* ... charge its submission, ...                                           *)
Submitted(t) ==
    /\ paid'[t] = [s \in Side |-> Quota(t)] /\ bills'[t] = bills[t]
    /\ upstream[t] = "none" /\ FewerTokens(t)

(* ... post an amount to its funding source, ...                            *)
FundPosted(t) ==
    /\ bills'[t] = bills[t] + 1 /\ upstream'[t] = upstream[t] /\ upstream[t] # "none"
    /\ \E p \in Pollers : \E e \in Funds(p, t) :
          /\ paid'[t]["fund"] = paid[t]["fund"] + e.delta
          /\ paid'[t]["token"] = paid[t]["token"]
          /\ Tokens(p, t)' \subseteq Tokens(p, t) \cup {ForToken(e)}
          /\ \A q \in Pollers \ {p} : Tokens(q, t)' \subseteq Tokens(q, t)

(* ... or that amount to its token, or fail to.                             *)
TokenPosted(t) ==
    /\ bills'[t] = bills[t] /\ upstream'[t] = upstream[t]
    /\ paid'[t]["fund"] = paid[t]["fund"]
    /\ \E p \in Pollers : \E e \in Tokens(p, t) :
          /\ paid'[t]["token"] \in {paid[t]["token"], paid[t]["token"] + e.delta}
          /\ Tokens(p, t)' \subseteq Tokens(p, t) \ {e}
          /\ \A q \in Pollers \ {p} : Tokens(q, t)' \subseteq Tokens(q, t)

MoneyStep(t) == Unpaid(t) \/ Submitted(t) \/ FundPosted(t) \/ TokenPosted(t)

LEMMA MoneyTypes ==
    ASSUME TypeOK, NEW t \in Tasks
    PROVE  /\ paid[t]["fund"] \in Int /\ paid[t]["token"] \in Int
           /\ bills[t] \in Nat /\ Quota(t) \in Int
           /\ \A p \in Pollers : \A e \in due[p] : e.delta \in Int /\ e.task \in Tasks
BY PostingTypes DEF TypeOK, MoneyType, PollerType, Side

LEMMA TokenStep ==
    ASSUME TypeOK, NEW t \in Tasks, TokenInv(t), FreshInv(t), MoneyStep(t),
           UNCHANGED info
    PROVE  TokenInv(t)'
<1>0. /\ paid[t]["fund"] \in Int /\ paid[t]["token"] \in Int
      /\ bills[t] \in Nat /\ Quota(t) \in Int
  BY MoneyTypes
<1>1. Quota(t)' = Quota(t)
  BY DEF Quota
<1>2. CASE Unpaid(t)
  <2>1. Charged(t)' = Charged(t) /\ Follows(t)' = Follows(t)
        /\ \A e : Adjusts(t, e)' = Adjusts(t, e)
    BY <1>1, <1>2 DEF Unpaid, Charged, Follows, Adjusts
  <2>2. FewerTokens(t)
    BY <1>2 DEF Unpaid
  <2> QED
    BY <1>2, <2>1, <2>2 DEF Unpaid, TokenInv, FewerTokens, Adjusts
<1>3. CASE Submitted(t)
  <2>1. bills[t] = 0 /\ bills'[t] = 0
    BY <1>3 DEF Submitted, FreshInv
  <2>2. Charged(t)' /\ paid'[t]["token"] = paid'[t]["fund"]
    BY <1>1, <1>3 DEF Submitted, Charged, Side
  <2>3. \A p \in Pollers : Tokens(p, t)' = {}
    BY <1>3, <2>1 DEF Submitted, FewerTokens, TokenInv
  <2> QED
    BY <2>1, <2>2, <2>3 DEF TokenInv
<1>4. CASE FundPosted(t)
  <2>1. PICK p \in Pollers : \E e \in Funds(p, t) :
          /\ paid'[t]["fund"] = paid[t]["fund"] + e.delta
          /\ paid'[t]["token"] = paid[t]["token"]
          /\ Tokens(p, t)' \subseteq Tokens(p, t) \cup {ForToken(e)}
          /\ \A q \in Pollers \ {p} : Tokens(q, t)' \subseteq Tokens(q, t)
    BY <1>4 DEF FundPosted
  <2>2. PICK e \in Funds(p, t) :
          /\ paid'[t]["fund"] = paid[t]["fund"] + e.delta
          /\ paid'[t]["token"] = paid[t]["token"]
          /\ Tokens(p, t)' \subseteq Tokens(p, t) \cup {ForToken(e)}
          /\ \A q \in Pollers \ {p} : Tokens(q, t)' \subseteq Tokens(q, t)
    BY <2>1
  <2>3. bills'[t] # 0 /\ (bills'[t] = 1 => bills[t] = 0)
    BY <1>0, <1>4 DEF FundPosted
  <2>4. ASSUME bills[t] = 0 PROVE TokenInv(t)'
    <3>1. Charged(t) /\ \A q \in Pollers : Tokens(q, t) = {}
      BY <1>4, <2>4 DEF TokenInv, FundPosted
    <3>2. \A q \in Pollers : \A f \in Tokens(q, t)' : q = p /\ f = ForToken(e)
      BY <2>2, <3>1
    <3>3. ForToken(e).delta = e.delta
      BY DEF ForToken
    <3>4. Adjusts(t, ForToken(e))'
      BY <1>1, <2>2, <3>1, <3>3 DEF Charged, Adjusts
    <3>5. Follows(t)'
      BY <3>4 DEF Adjusts, Follows
    <3>6. \A q \in Pollers : \A f \in Tokens(q, t)' : Adjusts(t, f)'
      BY <3>2, <3>4 DEF Adjusts
    <3>7. \A q, r \in Pollers : \A f \in Tokens(q, t)', g \in Tokens(r, t)' : q = r /\ f = g
      BY <3>2
    <3> QED
      BY <2>3, <3>5, <3>6, <3>7 DEF TokenInv
  <2> QED
    BY <2>3, <2>4 DEF TokenInv
<1>5. CASE TokenPosted(t)
  <2>1. PICK p \in Pollers : \E e \in Tokens(p, t) :
          /\ paid'[t]["token"] \in {paid[t]["token"], paid[t]["token"] + e.delta}
          /\ Tokens(p, t)' \subseteq Tokens(p, t) \ {e}
          /\ \A q \in Pollers \ {p} : Tokens(q, t)' \subseteq Tokens(q, t)
    BY <1>5 DEF TokenPosted
  <2>2. PICK e \in Tokens(p, t) :
          /\ paid'[t]["token"] \in {paid[t]["token"], paid[t]["token"] + e.delta}
          /\ Tokens(p, t)' \subseteq Tokens(p, t) \ {e}
          /\ \A q \in Pollers \ {p} : Tokens(q, t)' \subseteq Tokens(q, t)
    BY <2>1
  <2>3. bills[t] # 0 /\ bills'[t] = bills[t] /\ paid'[t]["fund"] = paid[t]["fund"]
    BY <1>5, <2>2 DEF TokenInv, TokenPosted
  <2>4. ASSUME bills[t] = 1 PROVE TokenInv(t)'
    <3>1. Adjusts(t, e) /\ \A q \in Pollers : \A f \in Tokens(q, t) : q = p /\ f = e
      BY <2>2, <2>4 DEF TokenInv
    <3>2. \A q \in Pollers : Tokens(q, t)' = {}
      BY <2>2, <3>1
    <3>3. Follows(t)'
      BY <1>0, <1>1, <2>2, <2>3, <3>1 DEF Adjusts, Follows
    <3> QED
      BY <2>3, <2>4, <3>2, <3>3 DEF TokenInv
  <2> QED
    BY <2>3, <2>4 DEF TokenInv
<1> QED
  BY <1>2, <1>3, <1>4, <1>5 DEF MoneyStep

(* The amounts that are put down to be posted are for the funding source.   *)
AllFund(D) == \A e \in D : e.step = "fund"

LEMMA FundFirst ==
    ASSUME NEW t
    PROVE  /\ AllFund({}) /\ AllFund(Owed(t))
           /\ \A n : AllFund(Posting(t, n))
           /\ \A d \in Adjustments(t) : AllFund(d)
<1>1. \A n : AllFund(Posting(t, n))
  BY DEF AllFund, Posting
<1>2. AllFund({})
  BY DEF AllFund
<1> QED
  BY <1>1, <1>2 DEF Owed, Adjustments

LEMMA NoNewTokens ==
    ASSUME TypeOK, NEW p \in Pollers, NEW D, AllFund(D),
           due' = [due EXCEPT ![p] = D], NEW u
    PROVE  FewerTokens(u)
<1>1. DOMAIN due = Pollers
  BY DEF TypeOK, PollerType
<1>2. Tokens(p, u)' = {}
  BY <1>1 DEF Tokens, AllFund
<1>3. \A q \in Pollers \ {p} : Tokens(q, u)' = Tokens(q, u)
  BY <1>1 DEF Tokens
<1> QED
  BY <1>2, <1>3 DEF FewerTokens

LEMMA SameTokens == ASSUME UNCHANGED due, NEW u PROVE FewerTokens(u)
BY DEF FewerTokens, Tokens

LEMMA MoneyOutside == ASSUME TypeOK, Outside, NEW u \in Tasks PROVE MoneyStep(u)
<1>1. DOMAIN upstream = Tasks /\ DOMAIN paid = Tasks
  BY DEF TypeOK, TaskType, MoneyType
<1>2. ASSUME NEW t \in Tasks, Submit(t) PROVE MoneyStep(u)
  <2>1. UNCHANGED <<due, bills>>
    BY <1>2 DEF Submit, jobVars
  <2>2. FewerTokens(u)
    BY <2>1, SameTokens
  <2>3. CASE u = t
    BY <1>1, <1>2, <2>1, <2>2, <2>3 DEF Submit, Submitted, MoneyStep
  <2>4. CASE u # t
    BY <1>1, <1>2, <2>1, <2>2, <2>4 DEF Submit, Unpaid, MoneyStep
  <2> QED
    BY <2>3, <2>4
<1>3. ASSUME NEW t \in Tasks, UpstreamEnds(t) \/ TimePasses(t) \/ LoseChannel
      PROVE  MoneyStep(u)
  <2>1. UNCHANGED <<due, bills, paid>>
    BY <1>3 DEF UpstreamEnds, TimePasses, LoseChannel, jobVars, moneyVars
  <2>2. FewerTokens(u)
    BY <2>1, SameTokens
  <2>3. upstream'[u] = "none" <=> upstream[u] = "none"
    BY <1>1, <1>3 DEF UpstreamEnds, TimePasses, LoseChannel, Final
  <2> QED
    BY <2>1, <2>2, <2>3 DEF Unpaid, MoneyStep
<1>4. LoseChannel => MoneyStep(u)
  BY <1>3
<1> QED
  BY <1>2, <1>3, <1>4 DEF Outside

LEMMA MoneyUnpaid ==
    ASSUME UNCHANGED <<bills, paid, upstream>>, NEW u, FewerTokens(u)
    PROVE  MoneyStep(u)
BY DEF MoneyStep, Unpaid

(* The steps of a poller that post nothing.                                 *)
LEMMA MoneyRound ==
    ASSUME TypeOK, NEW p \in Pollers, NEW u \in Tasks,
           \/ Wake(p) \/ List(p) \/ EndRound(p) \/ Dispatch(p) \/ FailAnonymous(p)
           \/ Stop(p) \/ Apply(p) \/ ApplySuno(p) \/ SaveSuno(p)
           \/ \E t \in Tasks : Sweep(p, t) \/ Fetch(p, t)
    PROVE  MoneyStep(u)
<1>1. UNCHANGED <<bills, paid, upstream>>
  <2>1. CASE Wake(p) \/ List(p) \/ EndRound(p) \/ Dispatch(p) \/ FailAnonymous(p) \/ Stop(p)
    BY <2>1 DEF Wake, List, EndRound, Dispatch, FailAnonymous, Stop, Crash, Hang, Forget, rowVars, moneyVars
  <2>2. CASE Apply(p) \/ ApplySuno(p) \/ SaveSuno(p)
    BY <2>2 DEF Apply, ApplySuno, SaveSuno, rowVars, moneyVars
  <2>3. ASSUME NEW t \in Tasks, Sweep(p, t) \/ Fetch(p, t) PROVE UNCHANGED <<bills, paid, upstream>>
    BY <2>3 DEF Sweep, Fetch, rowVars, moneyVars
  <2> QED
    BY <2>1, <2>2, <2>3
<1>2. CASE UNCHANGED due
  BY <1>1, <1>2, SameTokens, MoneyUnpaid
<1>3. CASE \E D : AllFund(D) /\ due' = [due EXCEPT ![p] = D]
  BY <1>1, <1>3, NoNewTokens, MoneyUnpaid
<1>4. CASE Wake(p) \/ List(p) \/ EndRound(p) \/ Dispatch(p) \/ SaveSuno(p)
  BY <1>2, <1>4 DEF Wake, List, EndRound, Dispatch, SaveSuno
<1>5. CASE Stop(p)
  BY <1>3, <1>5, FundFirst DEF Stop, Crash, Hang, Forget
<1>6. CASE FailAnonymous(p)
  <2>1. \A t : AllFund(Posting(t, -Quota(t)))
    BY FundFirst
  <2>2. AllFund(UNION {Posting(t, -Quota(t)) : t \in todo[p] \cap Kindred("anonymous")})
    BY <2>1 DEF AllFund
  <2> QED
    BY <1>2, <1>3, <1>6, <2>2 DEF FailAnonymous
<1>7. CASE Apply(p)
  <2>1. \/ UNCHANGED due
        \/ due' = [due EXCEPT ![p] = Posting(cur[p], -Quota(cur[p]))]
        \/ \E d \in Adjustments(cur[p]) : due' = [due EXCEPT ![p] = d]
    BY <1>7 DEF Apply
  <2> QED
    BY <1>2, <1>3, <2>1, FundFirst
<1>8. CASE ApplySuno(p)
  <2>1. PICK D \in {{}, Posting(cur[p], -Quota(cur[p]))} : due' = [due EXCEPT ![p] = D]
    BY <1>8 DEF ApplySuno
  <2>2. AllFund(D)
    BY FundFirst
  <2> QED
    BY <1>3, <2>1, <2>2
<1>9. ASSUME NEW t \in Tasks, Sweep(p, t) PROVE MoneyStep(u)
  BY <1>2, <1>3, <1>9, FundFirst DEF Sweep
<1>10. ASSUME NEW t \in Tasks, Fetch(p, t) PROVE MoneyStep(u)
  BY <1>2, <1>10 DEF Fetch
<1> QED
  BY <1>4, <1>5, <1>6, <1>7, <1>8, <1>9, <1>10

LEMMA MoneyPost ==
    ASSUME TypeOK, NEW p \in Pollers, NEW u \in Tasks, FreshInv(u),
           PostFund(p) \/ PostToken(p)
    PROVE  MoneyStep(u)
<1>1. /\ DOMAIN due = Pollers /\ DOMAIN bills = Tasks /\ DOMAIN paid = Tasks
      /\ DOMAIN paid[u] = Side
      /\ \A e \in due[p] : e.task \in Tasks /\ e.step \in Side
  BY DEF TypeOK, PollerType, MoneyType
<1>2. UNCHANGED upstream
  BY DEF PostFund, PostToken, rowVars
<1>3. CASE PostFund(p)
  <2>1. PICK e \in due[p] :
            /\ \A x \in due[p] : x.step = "fund"
            /\ \/ /\ paid' = [paid EXCEPT ![e.task]["fund"] = @ + e.delta]
                  /\ bills' = [bills EXCEPT ![e.task] = @ + 1]
                  /\ due' = [due EXCEPT ![p] = (@ \ {e}) \cup {ForToken(e)}]
               \/ /\ due' = [due EXCEPT ![p] = @ \ {e}]
                  /\ UNCHANGED moneyVars
    BY <1>3 DEF PostFund
  <2>2. \A q \in Pollers \ {p} : Tokens(q, u)' = Tokens(q, u)
    BY <1>1, <2>1 DEF Tokens
  <2>3. CASE due' = [due EXCEPT ![p] = @ \ {e}] /\ UNCHANGED moneyVars
    <3>1. Tokens(p, u)' \subseteq Tokens(p, u)
      BY <1>1, <2>3 DEF Tokens
    <3>2. FewerTokens(u)
      BY <2>2, <3>1 DEF FewerTokens
    <3> QED
      BY <1>2, <2>3, <3>2, MoneyUnpaid DEF moneyVars
  <2>4. CASE /\ paid' = [paid EXCEPT ![e.task]["fund"] = @ + e.delta]
             /\ bills' = [bills EXCEPT ![e.task] = @ + 1]
             /\ due' = [due EXCEPT ![p] = (@ \ {e}) \cup {ForToken(e)}]
    <3>1. CASE e.task = u
      <4>1. e \in Funds(p, u) /\ upstream[u] # "none"
        BY <2>1, <3>1 DEF Funds, FreshInv
      <4>2. Tokens(p, u)' \subseteq Tokens(p, u) \cup {ForToken(e)}
        BY <1>1, <2>4 DEF Tokens
      <4>3. /\ paid'[u]["fund"] = paid[u]["fund"] + e.delta
            /\ paid'[u]["token"] = paid[u]["token"]
            /\ bills'[u] = bills[u] + 1
        BY <1>1, <2>4, <3>1 DEF Side
      <4>4. FundPosted(u)
        BY <1>2, <2>2, <4>1, <4>2, <4>3 DEF FundPosted
      <4> QED
        BY <4>4 DEF MoneyStep
    <3>2. CASE e.task # u
      <4>1. paid'[u] = paid[u] /\ bills'[u] = bills[u]
        BY <1>1, <2>4, <3>2
      <4>2. Tokens(p, u)' \subseteq Tokens(p, u)
        BY <1>1, <2>4, <3>2 DEF Tokens, ForToken
      <4> QED
        BY <1>2, <2>2, <4>1, <4>2 DEF MoneyStep, Unpaid, FewerTokens
    <3> QED
      BY <3>1, <3>2
  <2> QED
    BY <2>1, <2>3, <2>4
<1>4. CASE PostToken(p)
  <2>1. PICK e \in due[p] :
            /\ e.step = "token"
            /\ due' = [due EXCEPT ![p] = @ \ {e}]
            /\ \/ paid' = [paid EXCEPT ![e.task]["token"] = @ + e.delta]
               \/ UNCHANGED paid
            /\ UNCHANGED bills
    BY <1>4 DEF PostToken
  <2>2. \A q \in Pollers \ {p} : Tokens(q, u)' = Tokens(q, u)
    BY <1>1, <2>1 DEF Tokens
  <2>3. Tokens(p, u)' \subseteq Tokens(p, u) \ {e}
    BY <1>1, <2>1 DEF Tokens
  <2>4. CASE e.task = u
    <3>1. e \in Tokens(p, u)
      BY <2>1, <2>4 DEF Tokens
    <3>2. /\ paid'[u]["fund"] = paid[u]["fund"]
          /\ paid'[u]["token"] \in {paid[u]["token"], paid[u]["token"] + e.delta}
      BY <1>1, <2>1, <2>4 DEF Side
    <3>3. TokenPosted(u)
      BY <1>2, <2>1, <2>2, <2>3, <3>1, <3>2 DEF TokenPosted
    <3> QED
      BY <3>3 DEF MoneyStep
  <2>5. CASE e.task # u
    <3>1. paid'[u] = paid[u] /\ bills'[u] = bills[u]
      BY <1>1, <2>1, <2>5
    <3> QED
      BY <1>2, <2>2, <2>3, <3>1 DEF MoneyStep, Unpaid, FewerTokens
  <2> QED
    BY <2>4, <2>5
<1> QED
  BY <1>3, <1>4

LEMMA MoneyStepOf ==
    ASSUME TypeOK, [Next]_vars, NEW u \in Tasks, FreshInv(u)
    PROVE  MoneyStep(u)
<1>1. CASE Outside
  BY <1>1, MoneyOutside
<1>2. ASSUME NEW p \in Pollers, Poll(p) \/ Stop(p) PROVE MoneyStep(u)
  BY <1>2, MoneyRound, MoneyPost DEF Poll
<1>3. ASSUME NEW c \in Clients, Refresh(c) \/ \E t \in Tasks : Look(c, t)
      PROVE  MoneyStep(u)
  <2>1. UNCHANGED <<due, bills, paid, upstream>>
    BY <1>3 DEF Refresh, Look, rowVars, moneyVars
  <2> QED
    BY <2>1, SameTokens, MoneyUnpaid
<1>4. CASE UNCHANGED vars
  <2>1. UNCHANGED <<due, bills, paid, upstream>>
    BY <1>4 DEF vars, jobVars, rowVars, moneyVars
  <2> QED
    BY <2>1, SameTokens, MoneyUnpaid
<1> QED
  BY <1>1, <1>2, <1>3, <1>4 DEF Next

(* The tasks that a process works on, and those it bills.                   *)
Nobodys(t) == /\ \A p \in Pollers : t \notin todo[p] /\ \A e \in due[p] : e.task # t
              /\ \A x \in Process : cur[x] # t

LEMMA FreshRound ==
    ASSUME SafeInv, NEW p \in Pollers, NEW u \in Tasks,
           Nobodys(u), row[u].status = "none",
           \/ Wake(p) \/ List(p) \/ EndRound(p) \/ Dispatch(p) \/ FailAnonymous(p)
           \/ Stop(p) \/ \E t \in Tasks : Sweep(p, t) \/ Fetch(p, t)
    PROVE  Nobodys(u)' /\ row'[u].status = "none"
<1>1. /\ DOMAIN due = Pollers /\ DOMAIN todo = Pollers /\ DOMAIN row = Tasks
      /\ DOMAIN cur = Process /\ p \in Process /\ u # NoTask
  BY NamesAssumption DEF SafeInv, TypeOK, TaskType, PollerType, ProcessType, Process
<1>2. CASE Wake(p) \/ List(p)
  <2>1. UNCHANGED <<row, due, cur>>
    BY <1>2 DEF Wake, List, rowVars
  <2>2. ~Unfinished(u)
    BY DEF Unfinished
  <2>3. \E S : u \notin S /\ (todo' = [todo EXCEPT ![p] = S] \/ todo' = [todo EXCEPT ![p] = {}])
    BY <1>2, <2>2 DEF Wake, List, Load
  <2>4. \A q \in Pollers : u \notin todo'[q]
    BY <1>1, <2>3 DEF Nobodys
  <2> QED
    BY <2>1, <2>4 DEF Nobodys
<1>3. CASE EndRound(p)
  BY <1>3 DEF EndRound, Nobodys, rowVars
<1>4. CASE Dispatch(p)
  <2>1. row'[u] = row[u]
    BY <1>1, <1>4 DEF Dispatch, BulkFail, Nobodys
  <2>2. \A q \in Pollers : todo'[q] \subseteq todo[q]
    BY <1>1, <1>4 DEF Dispatch
  <2> QED
    BY <1>4, <2>1, <2>2 DEF Dispatch, Nobodys
<1>5. CASE FailAnonymous(p)
  <2> DEFINE S == todo[p] \cap Kindred("anonymous")
             D == UNION {Posting(t, -Quota(t)) : t \in S}
  <2>1. row'[u] = row[u]
    BY <1>1, <1>5 DEF FailAnonymous, BulkFail, Nobodys
  <2>2. \A q \in Pollers : todo'[q] \subseteq todo[q]
    BY <1>1, <1>5 DEF FailAnonymous
  <2>3. \A e \in D : e.task \in S
    BY DEF Posting
  <2>4. due' = due \/ due' = [due EXCEPT ![p] = D]
    BY <1>5 DEF FailAnonymous
  <2>5. \A q \in Pollers : \A e \in due'[q] : e.task # u
    <3> HIDE DEF D
    <3> QED
      BY <1>1, <2>3, <2>4 DEF Nobodys
  <2> QED
    BY <1>5, <2>1, <2>2, <2>5 DEF FailAnonymous, Nobodys
<1>6. CASE Stop(p)
  <2>1. \A q \in Pollers : todo'[q] \subseteq todo[q] /\ due'[q] \subseteq due[q]
    BY <1>1, <1>6 DEF Stop, Crash, Hang, Forget
  <2>2. \A x \in Process : cur'[x] # u
    BY <1>1, <1>6 DEF Stop, Crash, Hang, Forget, Nobodys
  <2> QED
    BY <1>6, <2>1, <2>2 DEF Stop, Crash, Hang, Forget, Nobodys, rowVars
<1>7. ASSUME NEW t \in Tasks, Sweep(p, t) PROVE Nobodys(u)' /\ row'[u].status = "none"
  <2>1. t # u
    BY <1>7 DEF Sweep, Nobodys
  <2>2. row'[u] = row[u]
    BY <1>1, <1>7, <2>1 DEF Sweep, Write
  <2>3. \A q \in Pollers : todo'[q] \subseteq todo[q]
    BY <1>1, <1>7 DEF Sweep
  <2>4. \A e \in Owed(t) : e.task = t
    BY DEF Owed, Posting
  <2>5. due' = due \/ due' = [due EXCEPT ![p] = Owed(t)]
    BY <1>7 DEF Sweep
  <2>6. \A q \in Pollers : \A e \in due'[q] : e.task # u
    BY <1>1, <2>1, <2>4, <2>5 DEF Nobodys
  <2> QED
    BY <1>7, <2>2, <2>3, <2>6 DEF Sweep, Nobodys
<1>8. ASSUME NEW t \in Tasks, Fetch(p, t) PROVE Nobodys(u)' /\ row'[u].status = "none"
  <2>1. t # u
    BY <1>8 DEF Fetch, Nobodys
  <2>2. \A q \in Pollers : todo'[q] \subseteq todo[q]
    BY <1>1, <1>8 DEF Fetch
  <2>3. \A x \in Process : cur'[x] # u
    BY <1>1, <1>8, <2>1 DEF Fetch, Nobodys
  <2> QED
    BY <1>8, <2>2, <2>3 DEF Fetch, Nobodys, rowVars
<1> QED
  BY <1>2, <1>3, <1>4, <1>5, <1>6, <1>7, <1>8

LEMMA FreshUpdate ==
    ASSUME SafeInv, NEW p \in Pollers, NEW u \in Tasks,
           Nobodys(u), row[u].status = "none",
           \/ Apply(p) \/ ApplySuno(p) \/ SaveSuno(p) \/ PostFund(p) \/ PostToken(p)
    PROVE  Nobodys(u)' /\ row'[u].status = "none"
<1>1. /\ DOMAIN due = Pollers /\ DOMAIN todo = Pollers /\ DOMAIN row = Tasks
      /\ DOMAIN cur = Process /\ p \in Process /\ u # NoTask /\ cur[p] # u
  BY NamesAssumption
  DEF SafeInv, TypeOK, TaskType, PollerType, ProcessType, Process, Nobodys
<1>2. ASSUME Done(p)
      PROVE  /\ \A q \in Pollers : u \notin todo'[q]
             /\ \A x \in Process : cur'[x] # u
  BY <1>1, <1>2 DEF Done, Nobodys
<1>3. \A n : \A e \in Posting(cur[p], n) : e.task # u
  BY <1>1 DEF Posting
<1>4. CASE Apply(p)
  <2>1. \/ due' = due
        \/ \E D : due' = [due EXCEPT ![p] = D] /\ \A e \in D : e.task # u
    <3>1. \A d \in Adjustments(cur[p]) : \A e \in d : e.task # u
      BY <1>3 DEF Adjustments
    <3> QED
      BY <1>3, <1>4, <3>1 DEF Apply
  <2>2. \A q \in Pollers : \A e \in due'[q] : e.task # u
    BY <1>1, <2>1 DEF Nobodys
  <2>3. row'[u] = row[u]
    BY <1>1, <1>4 DEF Apply, Write
  <2> QED
    BY <1>2, <1>4, <2>2, <2>3 DEF Apply, Nobodys
<1>5. CASE ApplySuno(p)
  <2>1. PICK D \in {{}, Posting(cur[p], -Quota(cur[p]))} : due' = [due EXCEPT ![p] = D]
    BY <1>5 DEF ApplySuno
  <2>2. \A e \in D : e.task # u
    BY <1>3
  <2>3. \A q \in Pollers : \A e \in due'[q] : e.task # u
    BY <1>1, <2>1, <2>2 DEF Nobodys
  <2> QED
    BY <1>5, <2>3 DEF ApplySuno, Nobodys, rowVars
<1>6. CASE SaveSuno(p)
  <2>1. row'[u] = row[u]
    BY <1>1, <1>6 DEF SaveSuno, Write
  <2> QED
    BY <1>2, <1>6, <2>1 DEF SaveSuno, Nobodys
<1>7. CASE PostFund(p) \/ PostToken(p)
  <2>1. PICK e \in due[p] :
            \/ due' = [due EXCEPT ![p] = @ \ {e}]
            \/ due' = [due EXCEPT ![p] = (@ \ {e}) \cup {ForToken(e)}]
    BY <1>7 DEF PostFund, PostToken
  <2>2. e.task # u /\ ForToken(e).task # u
    BY DEF Nobodys, ForToken
  <2>3. \A q \in Pollers : \A f \in due'[q] : f.task # u
    BY <1>1, <2>1, <2>2 DEF Nobodys
  <2> QED
    BY <1>7, <2>3 DEF PostFund, PostToken, Nobodys, rowVars
<1> QED
  BY <1>4, <1>5, <1>6, <1>7

LEMMA FreshStep ==
    ASSUME SafeInv, [Next]_vars, NEW u \in Tasks, FreshInv(u)
    PROVE  FreshInv(u)'
<1>1. TypeOK
  BY DEF SafeInv
<1>2. /\ DOMAIN upstream = Tasks /\ DOMAIN row = Tasks /\ DOMAIN cur = Process
      /\ DOMAIN due = Pollers /\ DOMAIN bills = Tasks /\ u # NoTask
  BY <1>1, NamesAssumption DEF TypeOK, TaskType, PollerType, ProcessType, MoneyType
<1>3. SUFFICES ASSUME upstream'[u] = "none"
               PROVE  Nobodys(u)' /\ row'[u].status = "none" /\ bills'[u] = 0
  BY DEF FreshInv, Nobodys
<1>4. upstream[u] = "none"
  <2>1. CASE Outside
    BY <1>2, <1>3, <2>1
    DEF Outside, Submit, UpstreamEnds, TimePasses, LoseChannel, Final
  <2>2. CASE \E p \in Pollers : Poll(p) \/ Stop(p)
    BY <1>1, <1>3, <2>2, Elsewhere
  <2>3. CASE \E c \in Clients : Refresh(c) \/ \E t \in Tasks : Look(c, t)
    BY <1>3, <2>3 DEF Refresh, Look, rowVars
  <2>4. CASE UNCHANGED vars
    BY <1>3, <2>4 DEF vars, rowVars
  <2> QED
    BY <2>1, <2>2, <2>3, <2>4 DEF Next
<1>5. Nobodys(u) /\ row[u].status = "none" /\ bills[u] = 0
  BY <1>4 DEF FreshInv, Nobodys
<1>6. bills'[u] = 0
  <2>1. MoneyStep(u)
    BY <1>1, MoneyStepOf
  <2> QED
    BY <1>4, <1>5, <2>1 DEF MoneyStep, Unpaid, Submitted, FundPosted, TokenPosted
<1>7. ASSUME Outside PROVE Nobodys(u)' /\ row'[u].status = "none"
  <2>1. UNCHANGED <<due, todo, cur>>
    BY <1>7 DEF Outside, Submit, UpstreamEnds, TimePasses, LoseChannel, jobVars
  <2>2. row'[u] = row[u]
    BY <1>2, <1>3, <1>7
    DEF Outside, Submit, UpstreamEnds, TimePasses, LoseChannel
  <2> QED
    BY <1>5, <2>1, <2>2 DEF Nobodys
<1>8. ASSUME NEW p \in Pollers, Poll(p) \/ Stop(p)
      PROVE  Nobodys(u)' /\ row'[u].status = "none"
  BY <1>5, <1>8, FreshRound, FreshUpdate DEF Poll
<1>9. ASSUME NEW c \in Clients, Refresh(c) \/ \E t \in Tasks : Look(c, t)
      PROVE  Nobodys(u)' /\ row'[u].status = "none"
  <2>1. UNCHANGED <<due, todo>>
    BY <1>9 DEF Refresh, Look
  <2>2. CASE Refresh(c)
    <3>1. c \in Process /\ cur[c] # u
      BY <1>5 DEF Process, Nobodys
    <3>2. row'[u] = row[u]
      BY <1>2, <2>2, <3>1 DEF Refresh, Write
    <3>3. \A x \in Process : cur'[x] # u
      BY <1>2, <1>5, <2>2 DEF Refresh, Nobodys
    <3> QED
      BY <1>5, <2>1, <3>2, <3>3 DEF Nobodys
  <2>3. ASSUME NEW t \in Tasks, Look(c, t)
        PROVE  Nobodys(u)' /\ row'[u].status = "none"
    <3>1. t # u
      BY <1>5, <2>3 DEF Look
    <3>2. \A x \in Process : cur'[x] # u
      BY <1>2, <1>5, <2>3, <3>1 DEF Look, Nobodys
    <3> QED
      BY <1>5, <2>1, <2>3, <3>2 DEF Look, Nobodys, rowVars
  <2> QED
    BY <1>9, <2>2, <2>3
<1>10. ASSUME UNCHANGED vars PROVE Nobodys(u)' /\ row'[u].status = "none"
  BY <1>5, <1>10 DEF vars, rowVars, jobVars, Nobodys
<1> QED
  BY <1>6, <1>7, <1>8, <1>9, <1>10 DEF Next

LEMMA FollowInit == ASSUME Init PROVE FollowInv
<1>1. ASSUME NEW t \in Tasks PROVE FreshInv(t) /\ TokenInv(t)
  BY <1>1, NamesAssumption
  DEF Init, FreshInv, TokenInv, Tokens, NoRows, NoRow, Side
<1> QED
  BY <1>1, SafeInit DEF FollowInv

LEMMA FollowStep == ASSUME FollowInv, [Next]_vars PROVE FollowInv'
<1>1. SafeInv /\ TypeOK
  BY DEF FollowInv, SafeInv
<1>2. ASSUME NEW t \in Tasks PROVE FreshInv(t)' /\ TokenInv(t)'
  <2>1. FreshInv(t) /\ TokenInv(t)
    BY <1>2 DEF FollowInv
  <2>2. MoneyStep(t)
    BY <1>1, <2>1, MoneyStepOf
  <2> QED
    BY <1>1, <2>1, <2>2, FreshStep, TokenStep, InfoFixed
<1> QED
  BY <1>1, <1>2, SafeStep DEF FollowInv

(* Whatever fails, the token of a task that is billed once is never         *)
(* adjusted without its funding source: RefundTaskQuota and                 *)
(* RecalculateTaskQuota return when the source cannot be adjusted.          *)
THEOREM TokenFollows == Spec => []TokenFollowsFund
<1>1. Init => FollowInv
  BY FollowInit
<1>2. FollowInv /\ [Next]_vars => FollowInv'
  BY FollowStep
<1>3. FollowInv => TokenFollowsFund
  <2> SUFFICES ASSUME FollowInv, NEW t \in Tasks, bills[t] <= 1
               PROVE  paid[t]["token"] = paid[t]["fund"] \/ paid[t]["token"] = Quota(t)
    BY DEF TokenFollowsFund
  <2>1. TokenInv(t) /\ TypeOK
    BY DEF FollowInv, SafeInv
  <2>2. bills[t] = 0 \/ bills[t] = 1
    BY <2>1, MoneyTypes
  <2> QED
    BY <2>1, <2>2 DEF TokenInv, Follows
<1> QED
  BY <1>1, <1>2, <1>3, PTL DEF Spec

-----------------------------------------------------------------------------
(* What a task has cost when it has ended.                                  *)

(* Nothing fails, the channel stays, and the answers of the upstream are    *)
(* of the known forms; one process polls, or the swap guards every task.    *)
OneLoop == \A p, q \in Pollers : p = q
Calm ==
    /\ MaxFaults = 0 /\ MaxCrashes = 0 /\ MaxLooks = 0
    /\ ~MayLoseChannel /\ ~MayStray /\ ~MayHang
    /\ OneLoop \/ Kinds \subseteq {"video"}

(* The amounts that p is about to post for t, and whether it is about to    *)
(* save the row of t as it was reported.                                    *)
Entries(p, t) == {e \in due[p] : e.task = t}
Saves(p, t) == stage[p] = "save" /\ cur[p] = t

(* The status that a task is billed by: the one about to be saved, or else  *)
(* the one of its row.                                                      *)
Verdict(t, s) == \/ s = row[t].status /\ \A p \in Pollers : ~Saves(p, t)
                 \/ \E p \in Pollers : Saves(p, t) /\ s = report[p].status

RightCost(t, s, c) ==
    /\ s = "FAILURE" => c = 0 \/ (info[t].legacy /\ c = Quota(t))
    /\ s = "SUCCESS" => c \in Actuals \cup {Quota(t)}

(* An amount still to be posted makes the cost right, and is posted to the  *)
(* funding source first.                                                    *)
PostInv(t, s, e) ==
    /\ RightCost(t, s, Quota(t) + e.delta)
    /\ paid[t]["token"] = Quota(t)
    /\ e.step = "fund" => paid[t]["fund"] = Quota(t)
    /\ e.step = "token" => paid[t]["fund"] = Quota(t) + e.delta

NoneDue(t) == \A p \in Pollers : Entries(p, t) = {}
OneDue(t) == \A p, q \in Pollers : \A e \in Entries(p, t), f \in Entries(q, t) :
                 p = q /\ e = f
Paid(t, s) == paid[t]["token"] = paid[t]["fund"] /\ RightCost(t, s, paid[t]["fund"])

Balanced(t, s) ==
    /\ s \notin Final => Charged(t) /\ NoneDue(t)
    /\ s \in Final => /\ OneDue(t)
                      /\ \A p \in Pollers : \A e \in Entries(p, t) : PostInv(t, s, e)
                      /\ NoneDue(t) => Paid(t, s)
PaidInv(t) == upstream[t] # "none" => \A s : Verdict(t, s) => Balanced(t, s)

(* What a poller still looks at has not ended, and what it is about to post *)
(* is never replaced.                                                       *)
LoopInv(p) ==
    /\ OneLoop => \A t \in todo[p] : row[t].status \notin Final
    /\ cur[p] # NoTask => (report[p].full <=> report[p].status \in Final)
    /\ cur[p] # NoTask /\ stage[p] = "fetch" => due[p] = {}
    /\ stage[p] = "poll" /\ todo[p] \cap Kindred("anonymous") # {} => due[p] = {}

EndInv ==
    /\ FollowInv
    /\ ~gone /\ \A c \in Clients : cur[c] = NoTask
    /\ \A p \in Pollers : LoopInv(p)
    /\ \A t \in Tasks : PaidInv(t)

(* Nothing new is due, or all of it is known.                               *)
SameDue(t) == \A p \in Pollers : Entries(p, t)' = Entries(p, t)

LEMMA BalancedKept ==
    ASSUME NEW t, NEW s, Balanced(t, s), UNCHANGED info, paid'[t] = paid[t], SameDue(t)
    PROVE  Balanced(t, s)'
<1>1. /\ Charged(t)' = Charged(t) /\ Paid(t, s)' = Paid(t, s)
      /\ \A e : PostInv(t, s, e)' = PostInv(t, s, e)
  BY DEF Charged, Quota, Paid, RightCost, PostInv
<1>2. NoneDue(t)' = NoneDue(t) /\ OneDue(t)' = OneDue(t)
  BY DEF SameDue, NoneDue, OneDue
<1> QED
  BY <1>1, <1>2 DEF Balanced, SameDue, PostInv

(* The verdict on an open task: D is put down to be posted.                 *)
LEMMA BalancedDecided ==
    ASSUME NEW t \in Tasks, NEW s \in Final, Charged(t), NoneDue(t), UNCHANGED info,
           paid'[t] = paid[t], NEW p \in Pollers, NEW D, OneBill(t, D), AllFund(D),
           Entries(p, t)' = D, \A q \in Pollers \ {p} : Entries(q, t)' = Entries(q, t),
           \A e \in D : RightCost(t, s, Quota(t) + e.delta),
           D = {} => RightCost(t, s, Quota(t))
    PROVE  Balanced(t, s)'
<1>1. Charged(t)' /\ Quota(t)' = Quota(t)
  BY DEF Charged, Quota
<1>2. \A c : RightCost(t, s, c)' = RightCost(t, s, c)
  BY DEF RightCost, Quota
<1>3. \A q \in Pollers \ {p} : Entries(q, t)' = {}
  BY DEF NoneDue
<1>4. OneDue(t)'
  BY <1>3 DEF OneDue, OneBill
<1>5. ASSUME NEW q \in Pollers, NEW e \in Entries(q, t)' PROVE PostInv(t, s, e)'
  <2>1. e \in D
    BY <1>3
  <2>2. e.step = "fund" /\ RightCost(t, s, Quota(t) + e.delta)
    BY <2>1 DEF AllFund
  <2>3. RightCost(t, s, Quota(t) + e.delta)'
    BY <2>2, <1>1 DEF RightCost
  <2> QED
    BY <1>1, <2>2, <2>3 DEF PostInv, Charged
<1>6. NoneDue(t)' => Paid(t, s)'
  BY <1>1, <1>2 DEF NoneDue, Paid, Charged
<1> QED
  BY <1>4, <1>5, <1>6 DEF Balanced

(* The funding source has been adjusted, and then the token.                *)
LEMMA BalancedFund ==
    ASSUME TypeOK, NEW t \in Tasks, NEW s, Balanced(t, s), UNCHANGED info,
           NEW p \in Pollers, NEW e \in Entries(p, t), e.step = "fund",
           paid'[t]["fund"] = paid[t]["fund"] + e.delta,
           paid'[t]["token"] = paid[t]["token"],
           Entries(p, t)' = (Entries(p, t) \ {e}) \cup {ForToken(e)},
           \A q \in Pollers \ {p} : Entries(q, t)' = Entries(q, t)
    PROVE  Balanced(t, s)'
<1>1. s \in Final /\ PostInv(t, s, e) /\ OneDue(t)
  BY DEF Balanced, NoneDue
<1>2. Entries(p, t)' = {ForToken(e)} /\ \A q \in Pollers \ {p} : Entries(q, t)' = {}
  BY <1>1 DEF OneDue
<1>3. Quota(t)' = Quota(t)
  BY DEF Quota
<1>4. ForToken(e).delta = e.delta /\ ForToken(e).step = "token"
  BY DEF ForToken
<1>5. RightCost(t, s, Quota(t) + e.delta)'
  BY <1>1, <1>3 DEF RightCost, PostInv
<1>6. PostInv(t, s, ForToken(e))'
  BY <1>1, <1>3, <1>4, <1>5 DEF PostInv
<1>7. OneDue(t)' /\ ~NoneDue(t)'
  BY <1>2 DEF OneDue, NoneDue
<1>8. \A q \in Pollers : \A f \in Entries(q, t)' : f = ForToken(e)
  BY <1>2
<1>9. \A q \in Pollers : \A f \in Entries(q, t)' : PostInv(t, s, f)'
  BY <1>6, <1>8 DEF PostInv
<1> QED
  BY <1>1, <1>7, <1>9 DEF Balanced

LEMMA BalancedToken ==
    ASSUME TypeOK, NEW t \in Tasks, NEW s, Balanced(t, s), UNCHANGED info,
           NEW p \in Pollers, NEW e \in Entries(p, t), e.step = "token",
           paid'[t]["fund"] = paid[t]["fund"],
           paid'[t]["token"] = paid[t]["token"] + e.delta,
           Entries(p, t)' = Entries(p, t) \ {e},
           \A q \in Pollers \ {p} : Entries(q, t)' = Entries(q, t)
    PROVE  Balanced(t, s)'
<1>1. s \in Final /\ PostInv(t, s, e) /\ OneDue(t)
  BY DEF Balanced, NoneDue
<1>2. NoneDue(t)'
  BY <1>1 DEF OneDue, NoneDue
<1>3. paid'[t]["token"] = Quota(t) + e.delta /\ paid'[t]["fund"] = Quota(t) + e.delta
  BY <1>1 DEF PostInv
<1>4. RightCost(t, s, Quota(t) + e.delta)'
  BY <1>1 DEF PostInv, RightCost, Quota
<1>5. Paid(t, s)'
  BY <1>3, <1>4 DEF Paid, Quota
<1>6. OneDue(t)' /\ \A q \in Pollers : \A f \in Entries(q, t)' : PostInv(t, s, f)'
  BY <1>2 DEF OneDue, NoneDue
<1> QED
  BY <1>1, <1>5, <1>6 DEF Balanced

LEMMA PaidKept ==
    ASSUME NEW t, PaidInv(t), UNCHANGED info, paid'[t] = paid[t], SameDue(t),
           upstream'[t] # "none" => upstream[t] # "none",
           \A s : Verdict(t, s)' =>
               \E r : Verdict(t, r) /\ (r = s \/ (r \notin Final /\ s \notin Final))
    PROVE  PaidInv(t)'
<1> SUFFICES ASSUME upstream'[t] # "none", NEW s, Verdict(t, s)' PROVE Balanced(t, s)'
  BY DEF PaidInv
<1>1. PICK r : Verdict(t, r) /\ (r = s \/ (r \notin Final /\ s \notin Final))
  OBVIOUS
<1>2. Balanced(t, r)
  BY <1>1 DEF PaidInv
<1>3. Balanced(t, s)
  BY <1>1, <1>2 DEF Balanced
<1> QED
  BY <1>3, BalancedKept

(* A verdict on u stays when p is not saving u.                             *)
LEMMA VerdictKept ==
    ASSUME NEW p \in Pollers, NEW u, ~Saves(p, u), ~Saves(p, u)',
           \A q \in Pollers \ {p} : stage'[q] = stage[q] /\ cur'[q] = cur[q]
                                    /\ report'[q] = report[q],
           NEW s, Verdict(u, s)'
    PROVE  /\ row'[u] = row[u] => Verdict(u, s)
           /\ s = row'[u].status \/ Verdict(u, s)
<1>1. \A q \in Pollers \ {p} : (Saves(q, u)' <=> Saves(q, u)) /\ report'[q] = report[q]
  BY DEF Saves
<1> QED
  BY <1>1 DEF Verdict

LEMMA CalmFaults == ASSUME Calm, TypeOK PROVE ~Fault
BY DEF Calm, TypeOK, BoundsType, Fault

LEMMA CalmLooks ==
    ASSUME Calm, EndInv, NEW c \in Clients
    PROVE  ~Refresh(c) /\ \A t : ~Look(c, t)
<1>1. looks \in 0..0
  BY DEF Calm, EndInv, FollowInv, SafeInv, TypeOK, BoundsType
<1> QED
  BY <1>1 DEF Calm, EndInv, Refresh, Look

LEMMA CalmCrash == ASSUME Calm, TypeOK, NEW p PROVE ~Stop(p)
BY DEF Calm, TypeOK, BoundsType, Stop, Crash, Hang, Forget

(* A task that a poller is about to end has not been billed.                *)
LEMMA OpenTask ==
    ASSUME Calm, EndInv, NEW p \in Pollers, NEW t \in todo[p], stage[p] # "save",
           Wins(p, t) \/ OneLoop
    PROVE  /\ t \in Tasks /\ row[t].status \notin Final /\ upstream[t] # "none"
           /\ \A q \in Pollers : ~Saves(q, t)
           /\ Charged(t) /\ NoneDue(t)
<1>1. TypeOK /\ SafeInv
  BY DEF EndInv, FollowInv, SafeInv
<1>2. t \in Tasks
  BY <1>1 DEF TypeOK, PollerType
<1>3. upstream[t] # "none"
  BY <1>2 DEF EndInv, FollowInv, FreshInv
<1>4. row[t].status \notin Final /\ \A q \in Pollers : ~Saves(q, t)
  <2>1. CASE OneLoop
    BY <2>1 DEF EndInv, LoopInv, OneLoop, Saves
  <2>2. CASE ~OneLoop
    <3>1. \A u \in Tasks : info[u].kind = "video"
      BY <1>1, <2>2 DEF Calm, TypeOK, TaskType
    <3>2. row[t].status \notin Final
      BY <1>1, <1>2, <2>2, <3>1 DEF SafeInv, JobInv, Video, Kindred, Wins
    <3>3. \A q \in Pollers : ~Saves(q, t)
      BY <1>1, <1>2, <3>1 DEF SafeInv, JobInv, Saves
    <3> QED
      BY <3>2, <3>3
  <2> QED
    BY <2>1, <2>2
<1>5. Verdict(t, row[t].status)
  BY <1>4 DEF Verdict
<1>6. Charged(t) /\ NoneDue(t)
  BY <1>2, <1>3, <1>4, <1>5 DEF EndInv, PaidInv, Balanced
<1> QED
  BY <1>2, <1>3, <1>4, <1>6

(* Bringing the open task t to the status r.status, with D put down to be   *)
(* posted, leaves every task paid for.                                      *)
LEMMA DecidedPaid ==
    ASSUME Calm, EndInv, NEW p \in Pollers, NEW t \in todo[p], stage[p] # "save",
           Wins(p, t) \/ OneLoop, NEW r, Write(t, r), NEW D, OneBill(t, D), AllFund(D),
           due[p] = {},
           \/ r.status \in Final /\ due' = [due EXCEPT ![p] = D]
              /\ (\A e \in D : RightCost(t, r.status, Quota(t) + e.delta))
              /\ (D = {} => RightCost(t, r.status, Quota(t)))
           \/ r.status \notin Final /\ UNCHANGED due,
           UNCHANGED <<info, paid, upstream>>, stage'[p] # "save",
           \A q \in Pollers \ {p} : stage'[q] = stage[q] /\ cur'[q] = cur[q]
                                    /\ report'[q] = report[q],
           NEW u \in Tasks
    PROVE  PaidInv(u)'
<1>1. DOMAIN row = Tasks /\ DOMAIN due = Pollers
  BY DEF EndInv, FollowInv, SafeInv, TypeOK, TaskType, PollerType
<1>2. PaidInv(u)
  BY DEF EndInv
<1>3. /\ t \in Tasks /\ row[t].status \notin Final /\ upstream[t] # "none"
      /\ \A q \in Pollers : ~Saves(q, t)
      /\ Charged(t) /\ NoneDue(t)
  BY OpenTask
<1>4. ~Saves(p, u) /\ ~Saves(p, u)'
  BY DEF Saves
<1>5. CASE u # t
  <2>1. row'[u] = row[u]
    BY <1>1, <1>3, <1>5 DEF Write
  <2>2. SameDue(u)
    BY <1>1, <1>5 DEF SameDue, Entries, OneBill
  <2>3. \A s : Verdict(u, s)' => Verdict(u, s)
    BY <1>4, <2>1, VerdictKept
  <2> QED
    BY <1>2, <2>2, <2>3, PaidKept
<1>6. CASE u = t
  <2>1. row'[t] = r
    BY <1>1, <1>3 DEF Write
  <2>2. \A q \in Pollers : ~Saves(q, t)'
    <3>1. \A q \in Pollers \ {p} : Saves(q, t)' <=> Saves(q, t)
      BY DEF Saves
    <3> QED
      BY <1>3, <1>4, <1>6, <3>1
  <2>3. \A s : Verdict(t, s)' => s = r.status
    BY <2>1, <2>2 DEF Verdict
  <2>4. CASE r.status \in Final
    <3>1. Entries(p, t)' = D /\ \A q \in Pollers \ {p} : Entries(q, t)' = Entries(q, t)
      BY <1>1, <2>4 DEF Entries, OneBill
    <3>2. Balanced(t, r.status)'
      BY <1>3, <2>4, <3>1, BalancedDecided
    <3> QED
      BY <1>6, <2>3, <3>2 DEF PaidInv
  <2>5. CASE r.status \notin Final
    <3>1. SameDue(t)
      BY <2>5 DEF SameDue, Entries
    <3>2. Verdict(t, row[t].status)
      BY <1>3 DEF Verdict
    <3> QED
      BY <1>2, <1>3, <1>6, <2>3, <2>5, <3>1, <3>2, PaidKept
  <2> QED
    BY <2>4, <2>5
<1> QED
  BY <1>5, <1>6

LEMMA RightCosts ==
    ASSUME TypeOK, NEW t \in Tasks
    PROVE  /\ \A e \in Posting(t, -Quota(t)) : RightCost(t, "FAILURE", Quota(t) + e.delta)
           /\ Posting(t, -Quota(t)) = {} => RightCost(t, "FAILURE", Quota(t))
           /\ \A e \in Owed(t) : RightCost(t, "FAILURE", Quota(t) + e.delta)
           /\ Owed(t) = {} => RightCost(t, "FAILURE", Quota(t))
           /\ \A d \in Adjustments(t) : /\ \A e \in d : RightCost(t, "SUCCESS", Quota(t) + e.delta)
                                        /\ RightCost(t, "SUCCESS", Quota(t))
<1>1. Quota(t) \in Int /\ Actuals \subseteq Int
  BY PostingTypes, AmountsAssumption
<1>2. \A n \in Int : n # 0 => \A e \in Posting(t, n) : e.delta = n
  BY DEF Posting
<1>3. Posting(t, 0) = {} /\ \A n \in Int : Posting(t, n) = {} => n = 0
  BY DEF Posting
<1>4. /\ \A e \in Posting(t, -Quota(t)) : RightCost(t, "FAILURE", Quota(t) + e.delta)
      /\ Posting(t, -Quota(t)) = {} => RightCost(t, "FAILURE", Quota(t))
  <2>1. ASSUME NEW e \in Posting(t, -Quota(t)) PROVE RightCost(t, "FAILURE", Quota(t) + e.delta)
    <3>1. e.delta = -Quota(t)
      BY <1>1, <1>2, <1>3
    <3>2. Quota(t) + e.delta = 0
      BY <1>1, <3>1
    <3> QED
      BY <3>2 DEF RightCost
  <2>2. ASSUME Posting(t, -Quota(t)) = {} PROVE RightCost(t, "FAILURE", Quota(t))
    <3>1. Quota(t) = 0
      BY <1>1, <1>3, <2>2
    <3> QED
      BY <3>1 DEF RightCost
  <2> QED
    BY <2>1, <2>2
<1>5. /\ \A e \in Owed(t) : RightCost(t, "FAILURE", Quota(t) + e.delta)
      /\ Owed(t) = {} => RightCost(t, "FAILURE", Quota(t))
  <2>1. CASE info[t].legacy
    BY <2>1 DEF Owed, RightCost
  <2>2. CASE ~info[t].legacy
    BY <1>4, <2>2 DEF Owed
  <2> QED
    BY <2>1, <2>2
<1>6. ASSUME NEW d \in Adjustments(t)
      PROVE  /\ \A e \in d : RightCost(t, "SUCCESS", Quota(t) + e.delta)
             /\ RightCost(t, "SUCCESS", Quota(t))
  <2>1. RightCost(t, "SUCCESS", Quota(t))
    BY DEF RightCost
  <2>2. ASSUME NEW e \in d PROVE RightCost(t, "SUCCESS", Quota(t) + e.delta)
    <3>1. PICK a \in Actuals : d = Posting(t, a - Quota(t))
      BY <2>2 DEF Adjustments
    <3>2. a \in Int /\ a - Quota(t) \in Int
      BY <1>1
    <3>3. e.delta = a - Quota(t)
      BY <1>2, <1>3, <2>2, <3>1, <3>2
    <3>4. Quota(t) + e.delta = a
      BY <1>1, <3>2, <3>3
    <3> QED
      BY <3>4 DEF RightCost
  <2> QED
    BY <2>1, <2>2
<1> QED
  BY <1>4, <1>5, <1>6

LEMMA OthersJobs ==
    ASSUME TypeOK, NEW p \in Pollers, Poll(p)
    PROVE  /\ \A q \in Pollers \ {p} : /\ stage'[q] = stage[q] /\ cur'[q] = cur[q]
                                       /\ todo'[q] = todo[q] /\ report'[q] = report[q]
                                       /\ due'[q] = due[q]
           /\ UNCHANGED <<gone, upstream>>
<1>1. \A q \in Pollers \ {p} : stage'[q] = stage[q] /\ cur'[q] = cur[q] /\ todo'[q] = todo[q]
  BY Elsewhere DEF Process
<1>2. DOMAIN report = Process /\ DOMAIN due = Pollers /\ Pollers \subseteq Process
  BY DEF TypeOK, PollerType, ProcessType, Process
<1>3. (\A q \in Pollers \ {p} : report'[q] = report[q] /\ due'[q] = due[q])
      /\ UNCHANGED <<gone, upstream>>
  <2>1. CASE Wake(p) \/ List(p) \/ Dispatch(p) \/ EndRound(p)
    BY <2>1 DEF Wake, List, Dispatch, EndRound, rowVars
  <2>2. CASE FailAnonymous(p)
    BY <1>2, <2>2 DEF FailAnonymous
  <2>3. ASSUME NEW t \in Tasks, Sweep(p, t) \/ Fetch(p, t)
        PROVE  (\A q \in Pollers \ {p} : report'[q] = report[q] /\ due'[q] = due[q])
               /\ UNCHANGED <<gone, upstream>>
    BY <1>2, <2>3 DEF Sweep, Fetch, rowVars
  <2>4. CASE Apply(p) \/ SaveSuno(p)
    BY <1>2, <2>4 DEF Apply, SaveSuno, Done
  <2>5. CASE ApplySuno(p)
    BY <1>2, <2>5 DEF ApplySuno, rowVars
  <2>6. CASE PostFund(p) \/ PostToken(p)
    BY <1>2, <2>6 DEF PostFund, PostToken, rowVars
  <2> QED
    BY <2>1, <2>2, <2>3, <2>4, <2>5, <2>6 DEF Poll
<1> QED
  BY <1>1, <1>3

(* The steps that decide nothing.                                           *)
LEMMA PaidFrame ==
    ASSUME EndInv, NEW p \in Pollers, NEW u \in Tasks, ~Saves(p, u), ~Saves(p, u)',
           \A q \in Pollers \ {p} : /\ stage'[q] = stage[q] /\ cur'[q] = cur[q]
                                    /\ report'[q] = report[q],
           row'[u] = row[u], SameDue(u), UNCHANGED <<info, paid, upstream>>
    PROVE  PaidInv(u)'
<1>1. PaidInv(u)
  BY DEF EndInv
<1>2. \A s : Verdict(u, s)' => Verdict(u, s)
  BY VerdictKept
<1> QED
  BY <1>1, <1>2, PaidKept

LEMMA PaidQuiet ==
    ASSUME Calm, EndInv, NEW p \in Pollers, NEW u \in Tasks, [Next]_vars,
           \/ Wake(p) \/ List(p) \/ EndRound(p) \/ Dispatch(p)
           \/ \E t \in Tasks : Fetch(p, t)
    PROVE  PaidInv(u)'
<1>1. TypeOK /\ UNCHANGED info
  BY InfoFixed DEF EndInv, FollowInv, SafeInv
<1>2. Poll(p) /\ DOMAIN stage = Pollers
  BY <1>1 DEF Poll, TypeOK, PollerType
<1>3. UNCHANGED <<row, due, paid>>
  <2>1. CASE Wake(p) \/ List(p) \/ EndRound(p)
    BY <2>1 DEF Wake, List, EndRound, rowVars, moneyVars
  <2>2. CASE Dispatch(p)
    BY <2>2 DEF Dispatch, EndInv, moneyVars
  <2>3. CASE \E t \in Tasks : Fetch(p, t)
    BY <2>3 DEF Fetch, rowVars, moneyVars
  <2> QED
    BY <2>1, <2>2, <2>3
<1>4. ~Saves(p, u) /\ ~Saves(p, u)'
  BY <1>2 DEF Wake, List, EndRound, Dispatch, Fetch, Saves
<1>5. SameDue(u)
  BY <1>3 DEF SameDue, Entries
<1> QED
  BY <1>1, <1>2, <1>3, <1>4, <1>5, OthersJobs, PaidFrame

LEMMA PaidSweep ==
    ASSUME Calm, EndInv, NEW p \in Pollers, NEW u \in Tasks, [Next]_vars,
           NEW t \in Tasks, Sweep(p, t)
    PROVE  PaidInv(u)'
<1>1. TypeOK /\ UNCHANGED <<info, paid>>
  BY InfoFixed DEF EndInv, FollowInv, SafeInv, Sweep, moneyVars
<1>2. /\ Poll(p) /\ stage[p] = "sweep" /\ stage'[p] = "sweep" /\ due[p] = {}
      /\ t \in todo[p] /\ ~Fault
  BY <1>1, CalmFaults DEF Poll, Sweep
<1>3. CASE Wins(p, t) /\ Write(t, Failed) /\ due' = [due EXCEPT ![p] = Owed(t)]
  <2>1. Failed.status = "FAILURE" /\ "FAILURE" \in Final
    BY DEF Failed, Final
  <2>2. OneBill(t, Owed(t)) /\ AllFund(Owed(t))
    BY OneBills, FundFirst
  <2>3. /\ \A e \in Owed(t) : RightCost(t, Failed.status, Quota(t) + e.delta)
        /\ Owed(t) = {} => RightCost(t, Failed.status, Quota(t))
    BY <1>1, <2>1, RightCosts
  <2>4. UNCHANGED upstream
    BY DEF Sweep
  <2>5. \A q \in Pollers \ {p} : stage'[q] = stage[q] /\ cur'[q] = cur[q]
                                 /\ report'[q] = report[q]
    BY <1>1, <1>2, OthersJobs
  <2> QED
    BY <1>1, <1>2, <1>3, <2>1, <2>2, <2>3, <2>4, <2>5, DecidedPaid
<1>4. CASE UNCHANGED <<row, due>>
  <2>1. ~Saves(p, u) /\ ~Saves(p, u)'
    BY <1>2 DEF Saves
  <2>2. SameDue(u)
    BY <1>4 DEF SameDue, Entries
  <2> QED
    BY <1>1, <1>2, <1>4, <2>1, <2>2, OthersJobs, PaidFrame
<1> QED
  BY <1>2, <1>3, <1>4 DEF Sweep

LEMMA PaidApply ==
    ASSUME Calm, EndInv, NEW p \in Pollers, NEW u \in Tasks, [Next]_vars, Apply(p)
    PROVE  PaidInv(u)'
<1> DEFINE t == cur[p]
           a == report[p]
<1>1. TypeOK /\ UNCHANGED <<info, paid>>
  BY InfoFixed DEF EndInv, FollowInv, SafeInv, Apply, moneyVars
<1>2. /\ Poll(p) /\ stage[p] = "fetch" /\ stage'[p] = "fetch" /\ due[p] = {}
      /\ t \in todo[p] /\ ~Fault
  <2>1. LoopInv(p) /\ JobInv(p)
    BY DEF EndInv, FollowInv, SafeInv
  <2> QED
    BY <1>1, <2>1, CalmFaults DEF Poll, Apply, LoopInv, JobInv
<1>3. t \in Tasks
  BY <1>1, <1>2 DEF TypeOK, PollerType
<1>4. \A q \in Pollers \ {p} : stage'[q] = stage[q] /\ cur'[q] = cur[q]
                               /\ report'[q] = report[q]
  BY <1>1, <1>2, OthersJobs
<1>5. CASE Wins(p, t) /\ Write(t, a)
           /\ \/ a.status = "FAILURE" /\ due' = [due EXCEPT ![p] = Posting(t, -Quota(t))]
              \/ a.status = "SUCCESS" /\ \E d \in Adjustments(t) : due' = [due EXCEPT ![p] = d]
              \/ a.status \notin Final /\ UNCHANGED due
  <2>1. UNCHANGED upstream
    BY DEF Apply
  <2>2. "FAILURE" \in Final /\ "SUCCESS" \in Final
    BY DEF Final
  <2>3. \E D : /\ OneBill(t, D) /\ AllFund(D)
               /\ \/ a.status \in Final /\ due' = [due EXCEPT ![p] = D]
                     /\ (\A e \in D : RightCost(t, a.status, Quota(t) + e.delta))
                     /\ (D = {} => RightCost(t, a.status, Quota(t)))
                  \/ a.status \notin Final /\ UNCHANGED due
    <3>1. CASE a.status = "FAILURE" /\ due' = [due EXCEPT ![p] = Posting(t, -Quota(t))]
      <4>1. OneBill(t, Posting(t, -Quota(t))) /\ AllFund(Posting(t, -Quota(t)))
        BY OneBills, FundFirst
      <4>2. /\ \A e \in Posting(t, -Quota(t)) : RightCost(t, a.status, Quota(t) + e.delta)
            /\ Posting(t, -Quota(t)) = {} => RightCost(t, a.status, Quota(t))
        BY <1>1, <1>3, <3>1, RightCosts
      <4> QED
        BY <2>2, <3>1, <4>1, <4>2
    <3>2. CASE a.status = "SUCCESS" /\ \E d \in Adjustments(t) : due' = [due EXCEPT ![p] = d]
      <4>1. PICK d \in Adjustments(t) : due' = [due EXCEPT ![p] = d]
        BY <3>2
      <4>2. OneBill(t, d) /\ AllFund(d)
        BY OneBills, FundFirst
      <4>3. /\ \A e \in d : RightCost(t, a.status, Quota(t) + e.delta)
            /\ RightCost(t, a.status, Quota(t))
        BY <1>1, <1>3, <3>2, RightCosts
      <4> QED
        BY <2>2, <3>2, <4>1, <4>2, <4>3
    <3>3. CASE a.status \notin Final /\ UNCHANGED due
      BY <3>3, OneBills, FundFirst
    <3> QED
      BY <1>5, <3>1, <3>2, <3>3
  <2>4. PICK D : /\ OneBill(t, D) /\ AllFund(D)
                 /\ \/ a.status \in Final /\ due' = [due EXCEPT ![p] = D]
                       /\ (\A e \in D : RightCost(t, a.status, Quota(t) + e.delta))
                       /\ (D = {} => RightCost(t, a.status, Quota(t)))
                    \/ a.status \notin Final /\ UNCHANGED due
    BY <2>3
  <2> HIDE DEF t, a
  <2> QED
    BY <1>1, <1>2, <1>4, <1>5, <2>1, <2>4, DecidedPaid
<1>6. CASE UNCHANGED <<row, due>>
  <2>1. ~Saves(p, u) /\ ~Saves(p, u)'
    BY <1>2 DEF Saves
  <2>2. SameDue(u)
    BY <1>6 DEF SameDue, Entries
  <2> QED
    BY <1>1, <1>2, <1>4, <1>6, <2>1, <2>2, OthersJobs, PaidFrame
<1> QED
  BY <1>2, <1>5, <1>6 DEF Apply

(* Tasks of the other kinds are polled by one process.                      *)
LEMMA NotVideo ==
    ASSUME Calm, EndInv, NEW t \in Tasks, info[t].kind # "video"
    PROVE  OneLoop
<1>1. info[t].kind \in Kinds
  BY DEF EndInv, FollowInv, SafeInv, TypeOK, TaskType
<1> QED
  BY <1>1 DEF Calm

LEMMA PaidAnonymous ==
    ASSUME Calm, EndInv, NEW p \in Pollers, NEW u \in Tasks, [Next]_vars, FailAnonymous(p)
    PROVE  PaidInv(u)'
<1> DEFINE S == todo[p] \cap Kindred("anonymous")
           D == UNION {Posting(t, -Quota(t)) : t \in S}
<1>1. TypeOK /\ UNCHANGED <<info, paid, upstream>>
  BY InfoFixed DEF EndInv, FollowInv, SafeInv, FailAnonymous, moneyVars
<1>2. /\ Poll(p) /\ stage[p] = "poll" /\ stage'[p] = "poll" /\ due[p] = {} /\ ~Fault
  <2>1. LoopInv(p)
    BY DEF EndInv
  <2> QED
    BY <1>1, <2>1, CalmFaults DEF Poll, FailAnonymous, LoopInv
<1>3. BulkFail(S) /\ due' = [due EXCEPT ![p] = D]
  BY <1>2 DEF FailAnonymous
<1>4. DOMAIN due = Pollers
  BY <1>1 DEF TypeOK, PollerType
<1>5. \A q \in Pollers \ {p} : /\ stage'[q] = stage[q] /\ cur'[q] = cur[q]
                               /\ report'[q] = report[q]
  BY <1>1, <1>2, OthersJobs
<1>6. ~Saves(p, u) /\ ~Saves(p, u)'
  BY <1>2 DEF Saves
<1>7. \A q \in Pollers \ {p} : Entries(q, u)' = Entries(q, u)
  BY <1>3, <1>4 DEF Entries
<1>8. \A t : \A e \in Posting(t, -Quota(t)) : e.task = t
  BY DEF Posting
<1>9. due'[p] = D
  BY <1>3, <1>4
<1>10. CASE u \in S
  <2>1. OneLoop /\ u \in todo[p]
    BY <1>10, NotVideo DEF Kindred
  <2>2. /\ upstream[u] # "none" /\ \A q \in Pollers : ~Saves(q, u)
        /\ Charged(u) /\ NoneDue(u)
    BY <1>2, <2>1, OpenTask
  <2>3. row'[u] = Failed
    BY <1>3, <1>10 DEF BulkFail
  <2>4. \A q \in Pollers : ~Saves(q, u)'
    BY <1>5, <1>6, <2>2 DEF Saves
  <2>5. \A s : Verdict(u, s)' => s = "FAILURE"
    BY <2>3, <2>4 DEF Verdict, Failed
  <2>6. Entries(p, u)' = Posting(u, -Quota(u))
    <3>1. \A e : e \in D /\ e.task = u <=> e \in Posting(u, -Quota(u))
      BY <1>8, <1>10
    <3> HIDE DEF D
    <3> QED
      BY <1>9, <3>1 DEF Entries
  <2>7. OneBill(u, Posting(u, -Quota(u))) /\ AllFund(Posting(u, -Quota(u)))
    BY OneBills, FundFirst
  <2>8. /\ \A e \in Posting(u, -Quota(u)) : RightCost(u, "FAILURE", Quota(u) + e.delta)
        /\ Posting(u, -Quota(u)) = {} => RightCost(u, "FAILURE", Quota(u))
    BY <1>1, RightCosts
  <2>9. "FAILURE" \in Final
    BY DEF Final
  <2>10. Balanced(u, "FAILURE")'
    BY <1>1, <1>7, <2>2, <2>6, <2>7, <2>8, <2>9, BalancedDecided
  <2> QED
    BY <2>5, <2>10 DEF PaidInv
<1>11. CASE u \notin S
  <2>1. row'[u] = row[u]
    BY <1>3, <1>11 DEF BulkFail
  <2>2. \A e \in D : e.task # u
    BY <1>8, <1>11
  <2>3. Entries(p, u)' = Entries(p, u)
    <3> HIDE DEF D
    <3> QED
      BY <1>2, <1>9, <2>2 DEF Entries
  <2>4. SameDue(u)
    BY <1>7, <2>3 DEF SameDue
  <2> QED
    BY <1>1, <1>5, <1>6, <2>1, <2>4, PaidFrame
<1> QED
  BY <1>10, <1>11

LEMMA PaidSuno ==
    ASSUME Calm, EndInv, NEW p \in Pollers, NEW u \in Tasks, [Next]_vars, ApplySuno(p)
    PROVE  PaidInv(u)'
<1>0. PICK t, a : t = cur[p] /\ a = report[p]
  OBVIOUS
<1> USE <1>0
<1> DEFINE D == IF a.full /\ a.status # "SUCCESS" THEN Posting(t, -Quota(t)) ELSE {}
<1>1. TypeOK /\ UNCHANGED <<info, paid, upstream, row, cur, report>>
  BY InfoFixed DEF EndInv, FollowInv, SafeInv, ApplySuno, rowVars, moneyVars
<1>2. /\ Poll(p) /\ stage[p] = "fetch" /\ stage'[p] = "save" /\ due[p] = {}
      /\ t \in todo[p] /\ (a.full <=> a.status \in Final) /\ info[t].kind = "suno"
  <2>1. LoopInv(p) /\ JobInv(p) /\ DOMAIN stage = Pollers
    BY <1>1 DEF EndInv, FollowInv, SafeInv, TypeOK, PollerType
  <2> QED
    BY <2>1 DEF Poll, ApplySuno, LoopInv, JobInv
<1>3. due' = [due EXCEPT ![p] = D]
  <2>1. {FALSE, MayStray} = {FALSE}
    BY SwitchesAssumption DEF Calm
  <2> QED
    BY <2>1 DEF ApplySuno
<1>4. DOMAIN due = Pollers /\ t \in Tasks
  BY <1>1, <1>2 DEF TypeOK, PollerType
<1>5. \A q \in Pollers \ {p} : /\ stage'[q] = stage[q] /\ cur'[q] = cur[q]
                               /\ report'[q] = report[q]
  BY <1>1, <1>2, OthersJobs
<1>6. \A q \in Pollers \ {p} : Entries(q, u)' = Entries(q, u)
  BY <1>3, <1>4 DEF Entries
<1>7. OneBill(t, D) /\ AllFund(D)
  BY OneBills, FundFirst
<1>8. due'[p] = D
  BY <1>3, <1>4
<1>9. CASE u # t
  <2>1. ~Saves(p, u) /\ ~Saves(p, u)'
    BY <1>1, <1>9 DEF Saves
  <2>2. Entries(p, u)' = Entries(p, u)
    <3> HIDE DEF D
    <3> QED
      BY <1>2, <1>7, <1>8, <1>9 DEF Entries, OneBill
  <2>3. SameDue(u)
    BY <1>6, <2>2 DEF SameDue
  <2> QED
    BY <1>1, <1>5, <2>1, <2>3, PaidFrame
<1>10. CASE u = t
  <2>1. OneLoop
    BY <1>2, <1>4, NotVideo
  <2>2. /\ row[t].status \notin Final /\ upstream[t] # "none"
        /\ \A q \in Pollers : ~Saves(q, t)
        /\ Charged(t) /\ NoneDue(t)
    BY <1>2, <2>1, OpenTask
  <2>3. \A s : Verdict(t, s)' => s = a.status
    BY <1>1, <1>2, <2>1 DEF Verdict, Saves, OneLoop
  <2>4. CASE a.status \in Final
    <3>1. Entries(p, t)' = D
      <4> HIDE DEF D
      <4> QED
        BY <1>7, <1>8 DEF Entries, OneBill
    <3>2. /\ \A e \in D : RightCost(t, a.status, Quota(t) + e.delta)
          /\ D = {} => RightCost(t, a.status, Quota(t))
      <4>1. CASE a.status = "SUCCESS"
        <5>1. D = {} /\ RightCost(t, "SUCCESS", Quota(t))
          BY <4>1 DEF RightCost
        <5> QED
          BY <4>1, <5>1
      <4>2. CASE a.status = "FAILURE"
        <5>1. D = Posting(t, -Quota(t))
          BY <1>2, <2>4, <4>2
        <5> HIDE DEF D
        <5> QED
          BY <1>1, <1>4, <4>2, <5>1, RightCosts
      <4> QED
        BY <2>4, <4>1, <4>2 DEF Final
    <3>3. Balanced(t, a.status)'
      <4> HIDE DEF D
      <4> QED
        BY <1>1, <1>4, <1>6, <1>7, <1>10, <2>2, <2>4, <3>1, <3>2, BalancedDecided
    <3> QED
      BY <1>10, <2>3, <3>3 DEF PaidInv
  <2>5. CASE a.status \notin Final
    <3>1. D = {}
      BY <1>2, <2>5
    <3>2. Entries(p, t)' = Entries(p, t)
      BY <1>2, <1>8, <3>1 DEF Entries
    <3>3. SameDue(t)
      BY <1>6, <1>10, <3>2 DEF SameDue
    <3>4. Verdict(t, row[t].status) /\ PaidInv(t)
      BY <1>4, <2>2 DEF Verdict, EndInv
    <3> QED
      BY <1>1, <1>10, <2>2, <2>3, <2>5, <3>3, <3>4, PaidKept
  <2> QED
    BY <2>4, <2>5
<1> QED
  BY <1>9, <1>10

LEMMA PaidSave ==
    ASSUME Calm, EndInv, NEW p \in Pollers, NEW u \in Tasks, [Next]_vars, SaveSuno(p)
    PROVE  PaidInv(u)'
<1>1. TypeOK /\ UNCHANGED <<info, paid, upstream, due>> /\ PaidInv(u)
  BY InfoFixed DEF EndInv, FollowInv, SafeInv, SaveSuno, moneyVars
<1>2. /\ Poll(p) /\ stage[p] = "save" /\ stage'[p] = "fetch"
      /\ Write(cur[p], report[p])
  <2>1. ~Fault /\ DOMAIN stage = Pollers
    BY <1>1, CalmFaults DEF TypeOK, PollerType
  <2> QED
    BY <2>1 DEF Poll, SaveSuno
<1>3. \A q \in Pollers \ {p} : /\ stage'[q] = stage[q] /\ cur'[q] = cur[q]
                               /\ report'[q] = report[q]
  BY <1>1, <1>2, OthersJobs
<1>4. SameDue(u) /\ ~Saves(p, u)' /\ DOMAIN row = Tasks
  BY <1>1, <1>2 DEF SameDue, Entries, Saves, TypeOK, TaskType
<1>5. CASE u # cur[p]
  <2>1. row'[u] = row[u] /\ ~Saves(p, u)
    BY <1>2, <1>4, <1>5 DEF Write, Saves
  <2> QED
    BY <1>1, <1>3, <1>4, <2>1, PaidFrame
<1>6. CASE u = cur[p]
  <2>1. row'[u] = report[p] /\ Saves(p, u)
    BY <1>2, <1>4, <1>6 DEF Write, Saves
  <2>2. \A s : Verdict(u, s)' => Verdict(u, s)
    BY <1>3, <1>4, <2>1 DEF Verdict, Saves
  <2> QED
    BY <1>1, <1>4, <2>2, PaidKept
<1> QED
  BY <1>5, <1>6

LEMMA PaidPost ==
    ASSUME Calm, EndInv, NEW p \in Pollers, NEW u \in Tasks, [Next]_vars,
           PostFund(p) \/ PostToken(p)
    PROVE  PaidInv(u)'
<1>1. TypeOK /\ PaidInv(u) /\ UNCHANGED info /\ ~Fault
  BY InfoFixed, CalmFaults DEF EndInv, FollowInv, SafeInv
<1>2. UNCHANGED <<row, upstream, stage, cur, report>>
  BY DEF PostFund, PostToken, rowVars
<1>3. \A s : Verdict(u, s)' => Verdict(u, s)
  BY <1>2 DEF Verdict, Saves
<1>4. PICK e \in due[p] :
          \/ /\ e.step = "fund"
             /\ paid' = [paid EXCEPT ![e.task]["fund"] = @ + e.delta]
             /\ due' = [due EXCEPT ![p] = (@ \ {e}) \cup {ForToken(e)}]
          \/ /\ e.step = "token"
             /\ paid' = [paid EXCEPT ![e.task]["token"] = @ + e.delta]
             /\ due' = [due EXCEPT ![p] = @ \ {e}]
  BY <1>1 DEF PostFund, PostToken
<1>5. /\ DOMAIN due = Pollers /\ DOMAIN paid = Tasks /\ DOMAIN paid[u] = Side
      /\ ForToken(e).task = e.task
  BY <1>1 DEF TypeOK, PollerType, MoneyType, ForToken
<1>6. \A q \in Pollers \ {p} : Entries(q, u)' = Entries(q, u)
  BY <1>4, <1>5 DEF Entries
<1>7. CASE e.task # u
  <2>1. paid'[u] = paid[u]
    BY <1>4, <1>5, <1>7
  <2>2. Entries(p, u)' = Entries(p, u)
    BY <1>4, <1>5, <1>7 DEF Entries
  <2>3. SameDue(u)
    BY <1>6, <2>2 DEF SameDue
  <2> QED
    BY <1>1, <1>2, <1>3, <2>1, <2>3, PaidKept
<1>8. CASE e.task = u
  <2> SUFFICES ASSUME upstream'[u] # "none", NEW s, Verdict(u, s)'
               PROVE  Balanced(u, s)'
    BY DEF PaidInv
  <2>1. Balanced(u, s) /\ e \in Entries(p, u)
    BY <1>1, <1>2, <1>3, <1>8 DEF PaidInv, Entries
  <2>2. CASE e.step = "fund"
    <3>1. /\ paid'[u]["fund"] = paid[u]["fund"] + e.delta
          /\ paid'[u]["token"] = paid[u]["token"]
      BY <1>4, <1>5, <1>8, <2>2 DEF Side
    <3>2. Entries(p, u)' = (Entries(p, u) \ {e}) \cup {ForToken(e)}
      BY <1>4, <1>5, <1>8, <2>2 DEF Entries
    <3> QED
      BY <1>1, <1>6, <2>1, <2>2, <3>1, <3>2, BalancedFund
  <2>3. CASE e.step = "token"
    <3>1. /\ paid'[u]["fund"] = paid[u]["fund"]
          /\ paid'[u]["token"] = paid[u]["token"] + e.delta
      BY <1>4, <1>5, <1>8, <2>3 DEF Side
    <3>2. Entries(p, u)' = Entries(p, u) \ {e}
      BY <1>4, <1>5, <1>8, <2>3 DEF Entries
    <3> QED
      BY <1>1, <1>6, <2>1, <2>3, <3>1, <3>2, BalancedToken
  <2> QED
    BY <1>4, <2>2, <2>3
<1> QED
  BY <1>7, <1>8

LEMMA PaidOutside ==
    ASSUME Calm, EndInv, NEW u \in Tasks, Outside
    PROVE  PaidInv(u)'
<1>1. TypeOK /\ PaidInv(u) /\ FreshInv(u) /\ ~Fault
  BY CalmFaults DEF EndInv, FollowInv, SafeInv
<1>2. UNCHANGED <<info, stage, cur, report, due>>
  BY DEF Outside, Submit, UpstreamEnds, TimePasses, LoseChannel, jobVars
<1>3. SameDue(u) /\ \A q \in Pollers : Saves(q, u)' <=> Saves(q, u)
  BY <1>2 DEF SameDue, Entries, Saves
<1>4. /\ DOMAIN upstream = Tasks /\ DOMAIN row = Tasks /\ DOMAIN paid = Tasks
      /\ DOMAIN info = Tasks
  BY <1>1 DEF TypeOK, TaskType, MoneyType
<1>5. ASSUME row'[u] = row[u], paid'[u] = paid[u],
             upstream'[u] # "none" => upstream[u] # "none"
      PROVE  PaidInv(u)'
  <2>1. \A s : Verdict(u, s)' => Verdict(u, s)
    BY <1>2, <1>3, <1>5 DEF Verdict
  <2> QED
    BY <1>1, <1>2, <1>3, <1>5, <2>1, PaidKept
<1>6. ASSUME NEW t \in Tasks, Submit(t) PROVE PaidInv(u)'
  <2>1. CASE u # t
    BY <1>4, <1>5, <1>6, <2>1 DEF Submit
  <2>2. CASE u = t
    <3>1. row'[u].status = "NOT_START" /\ paid'[u] = [s \in Side |-> Quota(u)]
      BY <1>1, <1>4, <1>6, <2>2 DEF Submit
    <3>2. /\ \A q \in Pollers : ~Saves(q, u)'
          /\ \A q \in Pollers : Entries(q, u)' = {}
      BY <1>1, <1>2, <1>6, <2>2 DEF Submit, FreshInv, Saves, Entries, Process
    <3>3. \A s : Verdict(u, s)' => s = "NOT_START"
      BY <3>1, <3>2 DEF Verdict
    <3>4. Charged(u)' /\ NoneDue(u)'
      BY <1>2, <3>1, <3>2 DEF Charged, NoneDue, Quota, Side
    <3>5. Balanced(u, "NOT_START")'
      BY <3>4 DEF Balanced, Final
    <3> QED
      BY <3>3, <3>5 DEF PaidInv
  <2> QED
    BY <2>1, <2>2
<1>7. ASSUME NEW t \in Tasks, UpstreamEnds(t) \/ TimePasses(t) PROVE PaidInv(u)'
  BY <1>4, <1>5, <1>7 DEF UpstreamEnds, TimePasses, moneyVars
<1>8. ~LoseChannel
  BY DEF Calm, LoseChannel
<1> QED
  BY <1>6, <1>7, <1>8 DEF Outside

LEMMA EveryPaid ==
    ASSUME Calm, EndInv, [Next]_vars, NEW u \in Tasks
    PROVE  PaidInv(u)'
<1>1. TypeOK
  BY DEF EndInv, FollowInv, SafeInv
<1>2. CASE Outside
  BY <1>2, PaidOutside
<1>3. ASSUME NEW p \in Pollers, Poll(p) PROVE PaidInv(u)'
  BY <1>3, PaidQuiet, PaidSweep, PaidApply, PaidAnonymous, PaidSuno, PaidSave, PaidPost
  DEF Poll
<1>4. CASE UNCHANGED vars
  <2>1. UNCHANGED <<info, row, upstream, stage, cur, report, due, paid>>
    BY <1>4 DEF vars, rowVars, jobVars, moneyVars
  <2>2. SameDue(u) /\ PaidInv(u)
    BY <2>1 DEF SameDue, Entries, EndInv
  <2>3. \A s : Verdict(u, s)' => Verdict(u, s)
    BY <2>1 DEF Verdict, Saves
  <2> QED
    BY <2>1, <2>2, <2>3, PaidKept
<1> QED
  BY <1>1, <1>2, <1>3, <1>4, CalmCrash, CalmLooks DEF Next

LEMMA CalmAnswers ==
    ASSUME Calm, TypeOK, NEW t \in Tasks, upstream[t] # "none", NEW a \in PollAnswers(t)
    PROVE  a.full <=> a.status \in Final
<1>1. CASE a = Failed
  BY <1>1 DEF Failed, Final
<1>2. CASE a \in Answers(t)
  <2>1. CASE upstream[t] = "running"
    <3>1. MayStray = FALSE
      BY SwitchesAssumption DEF Calm
    <3>2. a = [status |-> "IN_PROGRESS", full |-> FALSE]
      BY <1>2, <2>1, <3>1 DEF Answers
    <3> QED
      BY <3>2 DEF Final
  <2>2. CASE upstream[t] # "running"
    <3>1. a = [status |-> upstream[t], full |-> TRUE] /\ upstream[t] \in Final
      BY <1>2, <2>2 DEF Answers, TypeOK, TaskType
    <3> QED
      BY <3>1
  <2> QED
    BY <2>1, <2>2
<1> QED
  BY <1>1, <1>2 DEF PollAnswers

LEMMA OwnLoop ==
    ASSUME Calm, EndInv, [Next]_vars, NEW p \in Pollers, Poll(p)
    PROVE  LoopInv(p)'
<1>1. /\ TypeOK /\ UNCHANGED info /\ ~Fault /\ LoopInv(p) /\ JobInv(p)
      /\ \A t \in Tasks : FreshInv(t)
  BY InfoFixed, CalmFaults DEF EndInv, FollowInv, SafeInv
<1>2. /\ DOMAIN stage = Pollers /\ DOMAIN todo = Pollers /\ DOMAIN due = Pollers
      /\ DOMAIN cur = Process /\ DOMAIN report = Process /\ p \in Process
      /\ DOMAIN row = Tasks /\ todo[p] \subseteq Tasks
  BY <1>1 DEF TypeOK, TaskType, PollerType, ProcessType, Process
<1>3. OneLoop' = OneLoop /\ Kindred("anonymous")' = Kindred("anonymous")
  BY <1>1 DEF OneLoop, Kindred
<1>4. CASE Wake(p) \/ List(p)
  <2>1. UNCHANGED row /\ (stage'[p] = "poll" => due'[p] = {}) /\ stage'[p] # "fetch"
    BY <1>2, <1>4 DEF Wake, List, rowVars
  <2>2. \A t \in todo'[p] : row[t].status \notin Final
    BY <1>2, <1>4 DEF Wake, List, Load, Unfinished
  <2>3. cur'[p] = NoTask
    BY <1>1, <1>4 DEF Wake, List, JobInv
  <2> QED
    BY <1>3, <2>1, <2>2, <2>3 DEF LoopInv
<1>5. ASSUME NEW t \in Tasks, Sweep(p, t) PROVE LoopInv(p)'
  <2>1. todo'[p] = todo[p] \ {t} /\ \A u \in todo'[p] : row'[u] = row[u]
    BY <1>2, <1>5 DEF Sweep, Write
  <2>2. cur'[p] = NoTask /\ stage'[p] = "sweep"
    BY <1>1, <1>5 DEF Sweep, JobInv
  <2> QED
    BY <1>1, <1>3, <2>1, <2>2 DEF LoopInv
<1>6. CASE FailAnonymous(p)
  <2>1. todo'[p] = todo[p] \ (todo[p] \cap Kindred("anonymous"))
    BY <1>2, <1>6 DEF FailAnonymous
  <2>2. \A u \in todo'[p] : row'[u] = row[u]
    BY <1>2, <1>6, <2>1 DEF FailAnonymous, BulkFail
  <2>3. cur'[p] = NoTask /\ todo'[p] \cap Kindred("anonymous") = {}
    BY <1>1, <1>6, <2>1 DEF FailAnonymous, JobInv
  <2> QED
    BY <1>1, <1>3, <2>1, <2>2, <2>3 DEF LoopInv
<1>7. CASE Dispatch(p)
  <2>1. UNCHANGED <<row, todo>> /\ stage'[p] = "fetch"
    BY <1>2, <1>7 DEF Dispatch, EndInv
  <2>2. cur'[p] = NoTask
    BY <1>1, <1>7 DEF Dispatch, JobInv
  <2> QED
    BY <1>1, <1>3, <2>1, <2>2 DEF LoopInv
<1>8. ASSUME NEW t \in Tasks, Fetch(p, t) PROVE LoopInv(p)'
  <2>1. /\ UNCHANGED <<row, stage, due>> /\ stage[p] = "fetch" /\ due[p] = {}
        /\ todo'[p] \subseteq todo[p] /\ cur[p] = NoTask /\ t \in todo[p]
    BY <1>2, <1>8 DEF Fetch, rowVars
  <2>2. \A a \in PollAnswers(t) : a.full <=> a.status \in Final
    BY <1>1, <1>2, <2>1, CalmAnswers DEF FreshInv
  <2>3. cur'[p] = NoTask \/ report'[p] \in PollAnswers(t)
    BY <1>2, <1>8 DEF Fetch
  <2>4. cur'[p] # NoTask => (report'[p].full <=> report'[p].status \in Final)
    BY <2>2, <2>3
  <2> QED
    BY <1>1, <1>3, <2>1, <2>4 DEF LoopInv
<1>9. CASE Apply(p) \/ SaveSuno(p)
  <2>1. /\ todo'[p] = todo[p] \ {cur[p]} /\ cur'[p] = NoTask /\ stage'[p] = "fetch"
    BY <1>2, <1>9 DEF Apply, SaveSuno, Done
  <2>2. \A u \in todo'[p] : row'[u] = row[u]
    BY <1>2, <1>9, <2>1 DEF Apply, SaveSuno, Write
  <2> QED
    BY <1>1, <1>3, <2>1, <2>2 DEF LoopInv
<1>10. CASE ApplySuno(p)
  <2>1. UNCHANGED <<row, todo, cur, report>> /\ stage'[p] = "save"
    BY <1>2, <1>10 DEF ApplySuno, rowVars
  <2> QED
    BY <1>1, <1>3, <2>1 DEF LoopInv
<1>11. CASE EndRound(p)
  <2>1. todo'[p] = {} /\ cur'[p] = cur[p] /\ stage'[p] = "sleep" /\ report'[p] = report[p]
    BY <1>2, <1>11 DEF EndRound
  <2> QED
    BY <1>1, <2>1 DEF LoopInv
<1>12. CASE PostFund(p) \/ PostToken(p)
  <2>1. UNCHANGED <<row, todo, cur, report, stage>> /\ due[p] # {}
    BY <1>12 DEF PostFund, PostToken, rowVars
  <2> QED
    BY <1>1, <1>3, <2>1 DEF LoopInv
<1> QED
  BY <1>4, <1>5, <1>6, <1>7, <1>8, <1>9, <1>10, <1>11, <1>12 DEF Poll

LEMMA EveryLoop ==
    ASSUME Calm, EndInv, [Next]_vars, NEW q \in Pollers
    PROVE  LoopInv(q)'
<1>1. TypeOK /\ UNCHANGED info /\ LoopInv(q) /\ ~Fault
  BY InfoFixed, CalmFaults DEF EndInv, FollowInv, SafeInv
<1>2. OneLoop' = OneLoop /\ Kindred("anonymous")' = Kindred("anonymous")
  BY <1>1 DEF OneLoop, Kindred
<1>3. ASSUME UNCHANGED <<stage, todo, cur, report, due>>,
             \A t \in Tasks : row'[t].status \in Final => row[t].status \in Final
      PROVE  LoopInv(q)'
  <2>1. todo[q] \subseteq Tasks
    BY <1>1 DEF TypeOK, PollerType
  <2> QED
    BY <1>1, <1>2, <1>3, <2>1 DEF LoopInv
<1>4. CASE Outside
  <2>1. UNCHANGED <<stage, todo, cur, report, due>>
    BY <1>4 DEF Outside, Submit, UpstreamEnds, TimePasses, LoseChannel, jobVars
  <2>2. \A t \in Tasks : row'[t].status \in Final => row[t].status \in Final
    <3>1. DOMAIN row = Tasks
      BY <1>1 DEF TypeOK, TaskType
    <3> QED
      BY <1>4, <3>1 DEF Outside, Submit, UpstreamEnds, TimePasses, LoseChannel, Final
  <2> QED
    BY <1>3, <2>1, <2>2
<1>5. ASSUME NEW p \in Pollers, Poll(p) PROVE LoopInv(q)'
  <2>1. CASE q = p
    BY <1>5, <2>1, OwnLoop
  <2>2. CASE q # p
    <3>1. /\ stage'[q] = stage[q] /\ cur'[q] = cur[q] /\ todo'[q] = todo[q]
          /\ report'[q] = report[q] /\ due'[q] = due[q]
      BY <1>1, <1>5, <2>2, OthersJobs
    <3>2. ~OneLoop
      BY <1>5, <2>2 DEF OneLoop
    <3> QED
      BY <1>1, <1>2, <3>1, <3>2 DEF LoopInv
  <2> QED
    BY <2>1, <2>2
<1>6. CASE UNCHANGED vars
  BY <1>3, <1>6 DEF vars, jobVars, rowVars
<1> QED
  BY <1>1, <1>4, <1>5, <1>6, CalmCrash, CalmLooks DEF Next

LEMMA EndStep ==
    ASSUME Calm, EndInv, [Next]_vars
    PROVE  EndInv'
<1>1. FollowInv' /\ TypeOK
  BY FollowStep DEF EndInv, FollowInv, SafeInv
<1>2. ~gone' /\ \A c \in Clients : cur'[c] = NoTask
  <2>1. CASE Outside
    BY <2>1
    DEF Outside, Submit, UpstreamEnds, TimePasses, LoseChannel, jobVars, EndInv, Calm
  <2>2. ASSUME NEW p \in Pollers, Poll(p) PROVE ~gone' /\ \A c \in Clients : cur'[c] = NoTask
    <3>1. \A c \in Clients : c \in Process \ {p}
      BY <2>2, NamesAssumption DEF Process
    <3>2. \A c \in Clients : cur'[c] = cur[c]
      BY <1>1, <2>2, <3>1, Elsewhere
    <3> QED
      BY <1>1, <2>2, <3>2, OthersJobs DEF EndInv
  <2>3. CASE UNCHANGED vars
    BY <2>3 DEF vars, rowVars, jobVars, EndInv
  <2> QED
    BY <1>1, <2>1, <2>2, <2>3, CalmCrash, CalmLooks DEF Next
<1> QED
  BY <1>1, <1>2, EveryPaid, EveryLoop DEF EndInv

LEMMA EndInit == ASSUME Init PROVE EndInv
<1>1. FollowInv
  BY FollowInit
<1>2. ~gone /\ \A c \in Clients : cur[c] = NoTask
  BY DEF Init, Process
<1>3. \A p \in Pollers : LoopInv(p)
  BY DEF Init, LoopInv, Process
<1>4. \A t \in Tasks : PaidInv(t)
  BY DEF Init, PaidInv
<1> QED
  BY <1>1, <1>2, <1>3, <1>4 DEF EndInv

(* Where nothing fails, and one process polls or the swap guards every      *)
(* task, a failed task gives back what it was charged, to the funding       *)
(* source and to the token, and a successful one costs what it came to.     *)
THEOREM EndsPaidFor == Calm => (Spec => []EndPaidFor)
<1> SUFFICES ASSUME Calm PROVE Spec => []EndPaidFor
  OBVIOUS
<1>1. Init => EndInv
  BY EndInit
<1>2. EndInv /\ [Next]_vars => EndInv'
  BY EndStep
<1>3. EndInv => EndPaidFor
  <2> SUFFICES ASSUME EndInv, NEW t \in Tasks, Ended(t)
               PROVE  LET cost == paid[t]["fund"]
                      IN  /\ cost = paid[t]["token"]
                          /\ row[t].status = "FAILURE" =>
                                cost = 0 \/ (info[t].legacy /\ cost = Quota(t))
                          /\ row[t].status = "SUCCESS" => cost \in Actuals \cup {Quota(t)}
    BY DEF EndPaidFor
  <2>1. upstream[t] # "none" /\ row[t].status \in Final
    BY DEF EndInv, FollowInv, FreshInv, Ended, Final
  <2>2. NoneDue(t) /\ Verdict(t, row[t].status)
    BY DEF Ended, AtRest, NoneDue, Entries, Verdict, Saves
  <2>3. Balanced(t, row[t].status)
    BY <2>1, <2>2 DEF EndInv, PaidInv
  <2> QED
    BY <2>1, <2>2, <2>3 DEF Balanced, Paid, RightCost
<1> QED
  BY <1>1, <1>2, <1>3, PTL DEF Spec

-----------------------------------------------------------------------------
(* The contract for requests.                                               *)

(* A task that has ended is not being saved: its row is the verdict.        *)
LEMMA EndedVerdict ==
    ASSUME Calm, EndInv, NEW t \in Tasks, row[t].status \in Final
    PROVE  Balanced(t, row[t].status)
<1>1. TypeOK /\ SafeInv /\ upstream[t] # "none"
  BY DEF EndInv, FollowInv, SafeInv, FreshInv, Final
<1>2. ASSUME NEW p \in Pollers, Saves(p, t) PROVE FALSE
  <2>1. t \in todo[p] /\ info[t].kind = "suno"
    BY <1>1, <1>2, NamesAssumption DEF SafeInv, JobInv, Saves
  <2>2. OneLoop
    BY <2>1, NotVideo
  <2> QED
    BY <2>1, <2>2 DEF EndInv, LoopInv
<1>3. Verdict(t, row[t].status)
  BY <1>2 DEF Verdict
<1> QED
  BY <1>1, <1>3 DEF EndInv, PaidInv

(* The amounts still to be posted to the funding source of t.               *)
DueAmounts(t) == {e.delta : e \in {x \in UNION {due[p] : p \in Pollers} :
                                      x.task = t /\ x.step = "fund"}}

LEMMA DueOfEntries ==
    ASSUME NEW t, NEW n
    PROVE  n \in DueAmounts(t) <=>
               \E p \in Pollers : \E e \in Entries(p, t) : e.step = "fund" /\ n = e.delta
BY DEF DueAmounts, Entries

LEMMA StillDueIs ==
    ASSUME NEW t
    PROVE  /\ DueAmounts(t) = {} => StillDue(t) = 0
           /\ \A n : DueAmounts(t) = {n} => StillDue(t) = n
<1>1. StillDue(t) = IF DueAmounts(t) = {} THEN 0 ELSE CHOOSE n \in DueAmounts(t) : TRUE
  BY DEF StillDue, DueAmounts
<1>2. ASSUME NEW n, DueAmounts(t) = {n} PROVE StillDue(t) = n
  <2>1. (CHOOSE m \in DueAmounts(t) : TRUE) \in DueAmounts(t)
    BY <1>2
  <2> QED
    BY <1>1, <1>2, <2>1
<1> QED
  BY <1>1, <1>2

(* The charge of an ended task: settled, or with the one amount to come.    *)
LEMMA ChargeIs ==
    ASSUME Calm, EndInv, NEW t \in Tasks, row[t].status \in Final
    PROVE  /\ RightCost(t, row[t].status, Charge(t))
           /\ \A p \in Pollers : \A e \in Entries(p, t) : Charge(t) = Quota(t) + e.delta
           /\ NoneDue(t) => Charge(t) = paid[t]["fund"]
<1>1. TypeOK /\ Balanced(t, row[t].status)
  BY EndedVerdict DEF EndInv, FollowInv, SafeInv
<1>2. Charge(t) = paid[t]["fund"] + StillDue(t) /\ paid[t]["fund"] \in Int
  BY <1>1, MoneyTypes DEF Charge
<1>3. CASE NoneDue(t)
  <2>1. DueAmounts(t) = {}
    BY <1>3, DueOfEntries DEF NoneDue
  <2>2. Charge(t) = paid[t]["fund"]
    BY <1>2, <2>1, StillDueIs
  <2>3. RightCost(t, row[t].status, paid[t]["fund"])
    BY <1>1, <1>3 DEF Balanced, Paid
  <2> QED
    BY <1>3, <2>2, <2>3 DEF NoneDue
<1>4. ASSUME NEW p \in Pollers, NEW e \in Entries(p, t)
      PROVE  Charge(t) = Quota(t) + e.delta /\ RightCost(t, row[t].status, Charge(t))
  <2>1. /\ PostInv(t, row[t].status, e)
        /\ \A q \in Pollers : \A f \in Entries(q, t) : f = e
    BY <1>1, <1>4 DEF Balanced, OneDue
  <2>2. e \in due[p] /\ e.step \in Side /\ e.delta \in Int /\ Quota(t) \in Int
    BY <1>1, MoneyTypes DEF Entries, TypeOK, PollerType
  <2>3. Charge(t) = Quota(t) + e.delta
    <3>1. CASE e.step = "fund"
      <4>1. DueAmounts(t) = {e.delta}
        BY <1>4, <2>1, <3>1, DueOfEntries
      <4> QED
        BY <1>2, <2>1, <3>1, <4>1, StillDueIs DEF PostInv
    <3>2. CASE e.step = "token"
      <4>1. DueAmounts(t) = {}
        BY <2>1, <3>2, DueOfEntries
      <4>2. Charge(t) = paid[t]["fund"]
        BY <1>2, <4>1, StillDueIs
      <4> QED
        BY <2>1, <3>2, <4>2 DEF PostInv
    <3> QED
      BY <2>2, <3>1, <3>2 DEF Side
  <2> QED
    BY <2>1, <2>3 DEF PostInv
<1> QED
  BY <1>3, <1>4 DEF NoneDue

(* No step writes the row of a task that has ended, and only its own        *)
(* postings change what it has cost.                                        *)
LEMMA EndedStays ==
    ASSUME Calm, EndInv, [Next]_vars, NEW u \in Tasks, row[u].status \in Final
    PROVE  /\ row'[u] = row[u]
           /\ \/ SameDue(u) /\ paid'[u] = paid[u]
              \/ \E p \in Pollers : PostFund(p) \/ PostToken(p)
<1>1. TypeOK /\ SafeInv /\ ~Fault /\ upstream[u] # "none"
  BY CalmFaults DEF EndInv, FollowInv, SafeInv, FreshInv, Final
<1>2. /\ DOMAIN row = Tasks /\ DOMAIN due = Pollers /\ DOMAIN paid = Tasks
      /\ \A p \in Pollers : todo[p] \subseteq Tasks
  BY <1>1 DEF TypeOK, TaskType, PollerType, MoneyType
<1>3. ASSUME UNCHANGED due PROVE SameDue(u)
  BY <1>3 DEF SameDue, Entries
<1>4. ASSUME NEW p \in Pollers, due[p] = {}, NEW D, \A e \in D : e.task # u,
             due' = [due EXCEPT ![p] = D]
      PROVE  SameDue(u)
  <2>1. Entries(p, u)' = {} /\ Entries(p, u) = {}
    BY <1>2, <1>4 DEF Entries
  <2>2. \A q \in Pollers \ {p} : Entries(q, u)' = Entries(q, u)
    BY <1>2, <1>4 DEF Entries
  <2> QED
    BY <2>1, <2>2 DEF SameDue
<1>5. CASE Outside
  <2>1. UNCHANGED due
    BY <1>5 DEF Outside, Submit, UpstreamEnds, TimePasses, LoseChannel, jobVars
  <2>2. row'[u] = row[u] /\ paid'[u] = paid[u]
    BY <1>1, <1>2, <1>5
    DEF Outside, Submit, UpstreamEnds, TimePasses, LoseChannel, moneyVars
  <2> QED
    BY <1>3, <2>1, <2>2
<1>6. ASSUME NEW p \in Pollers,
             \/ Wake(p) \/ List(p) \/ EndRound(p) \/ Dispatch(p) \/ SaveSuno(p)
             \/ \E t \in Tasks : Fetch(p, t)
      PROVE  row'[u] = row[u] /\ SameDue(u) /\ paid'[u] = paid[u]
  <2>1. UNCHANGED <<due, paid>>
    BY <1>6 DEF Wake, List, EndRound, Dispatch, SaveSuno, Fetch, moneyVars
  <2>2. CASE Wake(p) \/ List(p) \/ EndRound(p) \/ \E t \in Tasks : Fetch(p, t)
    BY <1>3, <2>1, <2>2 DEF Wake, List, EndRound, Fetch, rowVars
  <2>3. CASE Dispatch(p)
    BY <1>3, <2>1, <2>3 DEF Dispatch, EndInv
  <2>4. CASE SaveSuno(p)
    <3>1. cur[p] # u
      <4>1. SUFFICES ASSUME cur[p] = u PROVE FALSE
        OBVIOUS
      <4>2. u \in todo[p] /\ info[u].kind = "suno"
        BY <1>1, <2>4, <4>1, NamesAssumption DEF SafeInv, JobInv, SaveSuno
      <4> QED
        BY <4>2, NotVideo DEF EndInv, LoopInv
    <3>2. row'[u] = row[u]
      BY <1>2, <2>4, <3>1 DEF SaveSuno, Write
    <3> QED
      BY <1>3, <2>1, <3>2
  <2> QED
    BY <1>6, <2>2, <2>3, <2>4
<1>7. ASSUME NEW p \in Pollers, NEW t \in Tasks, Sweep(p, t)
      PROVE  row'[u] = row[u] /\ SameDue(u) /\ paid'[u] = paid[u]
  <2>1. UNCHANGED paid /\ due[p] = {} /\ t \in todo[p] /\ stage[p] # "save"
    BY <1>7 DEF Sweep, moneyVars
  <2>2. CASE Wins(p, t) /\ Write(t, Failed) /\ due' = [due EXCEPT ![p] = Owed(t)]
    <3>1. t # u
      BY <2>1, <2>2, OpenTask
    <3>2. \A e \in Owed(t) : e.task # u
      BY <3>1 DEF Owed, Posting
    <3>3. row'[u] = row[u]
      BY <1>2, <2>2, <3>1 DEF Write
    <3> QED
      BY <1>4, <2>1, <2>2, <3>2, <3>3
  <2> QED
    BY <1>1, <1>3, <1>7, <2>1, <2>2 DEF Sweep
<1>8. ASSUME NEW p \in Pollers, FailAnonymous(p)
      PROVE  row'[u] = row[u] /\ SameDue(u) /\ paid'[u] = paid[u]
  <2> DEFINE S == todo[p] \cap Kindred("anonymous")
             D == UNION {Posting(t, -Quota(t)) : t \in S}
  <2>1. UNCHANGED paid /\ due[p] = {} /\ BulkFail(S) /\ due' = [due EXCEPT ![p] = D]
    BY <1>1, <1>8 DEF FailAnonymous, EndInv, LoopInv, moneyVars
  <2>2. u \notin S
    <3>1. ASSUME u \in S PROVE OneLoop
      BY <3>1, NotVideo DEF Kindred
    <3> QED
      BY <3>1 DEF EndInv, LoopInv
  <2>3. row'[u] = row[u]
    BY <2>1, <2>2 DEF BulkFail
  <2>4. \A e \in D : e.task # u
    BY <2>2 DEF Posting
  <2> HIDE DEF D
  <2> QED
    BY <1>4, <2>1, <2>3, <2>4
<1>9. ASSUME NEW p \in Pollers, Apply(p)
      PROVE  row'[u] = row[u] /\ SameDue(u) /\ paid'[u] = paid[u]
  <2>1. /\ UNCHANGED paid /\ due[p] = {} /\ cur[p] \in todo[p] /\ stage[p] # "save"
    BY <1>1, <1>9 DEF Apply, EndInv, LoopInv, SafeInv, JobInv, moneyVars
  <2>2. CASE Wins(p, cur[p]) /\ Write(cur[p], report[p])
             /\ \/ \E D : (\A e \in D : e.task = cur[p]) /\ due' = [due EXCEPT ![p] = D]
                \/ UNCHANGED due
    <3>1. cur[p] # u
      BY <2>1, <2>2, OpenTask
    <3>2. row'[u] = row[u]
      BY <1>2, <2>2, <3>1 DEF Write
    <3>3. SameDue(u)
      BY <1>3, <1>4, <2>1, <2>2, <3>1
    <3> QED
      BY <2>1, <3>2, <3>3
  <2>3. \/ UNCHANGED <<row, due>>
        \/ Wins(p, cur[p]) /\ Write(cur[p], report[p])
           /\ \/ \E D : (\A e \in D : e.task = cur[p]) /\ due' = [due EXCEPT ![p] = D]
              \/ UNCHANGED due
    <3>1. \A n : \A e \in Posting(cur[p], n) : e.task = cur[p]
      BY DEF Posting
    <3>2. \A d \in Adjustments(cur[p]) : \A e \in d : e.task = cur[p]
      BY <3>1 DEF Adjustments
    <3> QED
      BY <1>9, <3>1, <3>2 DEF Apply
  <2> QED
    BY <1>3, <2>1, <2>2, <2>3
<1>10. ASSUME NEW p \in Pollers, ApplySuno(p)
       PROVE  row'[u] = row[u] /\ SameDue(u) /\ paid'[u] = paid[u]
  <2>1. /\ UNCHANGED <<paid, row>> /\ due[p] = {} /\ cur[p] \in todo[p]
        /\ info[cur[p]].kind = "suno" /\ cur[p] \in Tasks
    BY <1>1, <1>2, <1>10
    DEF ApplySuno, EndInv, LoopInv, SafeInv, JobInv, rowVars, moneyVars
  <2>2. cur[p] # u
    BY <2>1, NotVideo DEF EndInv, LoopInv
  <2>3. PICK D : due' = [due EXCEPT ![p] = D] /\ \A e \in D : e.task = cur[p]
    <3>1. PICK D \in {{}, Posting(cur[p], -Quota(cur[p]))} : due' = [due EXCEPT ![p] = D]
      BY <1>10 DEF ApplySuno
    <3>2. \A e \in D : e.task = cur[p]
      BY DEF Posting
    <3> QED
      BY <3>1, <3>2
  <2> QED
    BY <1>4, <2>1, <2>2, <2>3
<1>11. CASE UNCHANGED vars
  BY <1>3, <1>11 DEF vars, rowVars, jobVars, moneyVars
<1>12. ASSUME NEW p \in Pollers, Poll(p), ~PostFund(p), ~PostToken(p)
       PROVE  row'[u] = row[u] /\ SameDue(u) /\ paid'[u] = paid[u]
  BY <1>6, <1>7, <1>8, <1>9, <1>10, <1>12 DEF Poll
<1>13. ASSUME NEW p \in Pollers, PostFund(p) \/ PostToken(p)
       PROVE  row'[u] = row[u]
  BY <1>13 DEF PostFund, PostToken, rowVars
<1>14. ASSUME NEW p \in Pollers, Poll(p)
       PROVE  /\ row'[u] = row[u]
              /\ \/ SameDue(u) /\ paid'[u] = paid[u]
                 \/ PostFund(p) \/ PostToken(p)
  BY <1>12, <1>13, <1>14
<1> QED
  BY <1>1, <1>5, <1>11, <1>14, CalmCrash, CalmLooks DEF Next

LEMMA DueKept == ASSUME NEW u, SameDue(u) PROVE StillDue(u)' = StillDue(u)
<1>1. \A e, p : e \in due'[p] /\ e.task = u <=> e \in Entries(p, u)'
  BY DEF Entries
<1>2. \A n : n \in DueAmounts(u)' <=>
           \E p \in Pollers : \E e \in Entries(p, u)' : e.step = "fund" /\ n = e.delta
  BY <1>1 DEF DueAmounts
<1>3. DueAmounts(u)' = DueAmounts(u)
  BY <1>2, DueOfEntries DEF SameDue
<1>4. StillDue(u) = IF DueAmounts(u) = {} THEN 0 ELSE CHOOSE n \in DueAmounts(u) : TRUE
  BY DEF StillDue, DueAmounts
<1>5. StillDue(u)' = IF DueAmounts(u)' = {} THEN 0 ELSE CHOOSE n \in DueAmounts(u)' : TRUE
  BY DEF StillDue, DueAmounts
<1> QED
  BY <1>3, <1>4, <1>5

LEMMA ChargeKept ==
    ASSUME Calm, EndInv, [Next]_vars, NEW u \in Tasks, row[u].status \in Final
    PROVE  Charge(u)' = Charge(u)
<1>1. TypeOK /\ TypeOK' /\ EndInv' /\ row'[u] = row[u] /\ ~Fault
  BY EndedStays, EndStep, CalmFaults DEF EndInv, FollowInv, SafeInv
<1>2. CASE SameDue(u) /\ paid'[u] = paid[u]
  BY <1>1, <1>2, DueKept DEF Charge
<1>3. ASSUME NEW p \in Pollers, PostFund(p) \/ PostToken(p)
      PROVE  Charge(u)' = Charge(u)
  <2>1. PICK e \in due[p] :
            \/ /\ e.step = "fund"
               /\ paid' = [paid EXCEPT ![e.task]["fund"] = @ + e.delta]
               /\ due' = [due EXCEPT ![p] = (@ \ {e}) \cup {ForToken(e)}]
            \/ /\ e.step = "token"
               /\ paid' = [paid EXCEPT ![e.task]["token"] = @ + e.delta]
               /\ due' = [due EXCEPT ![p] = @ \ {e}]
    BY <1>1, <1>3 DEF PostFund, PostToken
  <2>2. /\ DOMAIN due = Pollers /\ DOMAIN paid = Tasks /\ DOMAIN paid[u] = Side
        /\ ForToken(e).task = e.task /\ ForToken(e).step = "token"
        /\ ForToken(e).delta = e.delta
    BY <1>1 DEF TypeOK, PollerType, MoneyType, ForToken
  <2>3. CASE e.task # u
    <3>1. paid'[u] = paid[u]
      BY <2>1, <2>2, <2>3
    <3>2. SameDue(u)
      BY <2>1, <2>2, <2>3 DEF SameDue, Entries
    <3> QED
      BY <1>2, <3>1, <3>2
  <2>4. CASE e.task = u
    <3>1. e \in Entries(p, u)
      BY <2>4 DEF Entries
    <3>2. /\ Balanced(u, row[u].status) /\ Charge(u) = Quota(u) + e.delta
          /\ PostInv(u, row[u].status, e)
          /\ \A q \in Pollers : \A f \in Entries(q, u) : q = p /\ f = e
      BY <3>1, EndedVerdict, ChargeIs DEF Balanced, OneDue
    <3>3. UNCHANGED info
      BY InfoFixed
    <3>4. CASE e.step = "fund"
      <4>1. due'[p] = (due[p] \ {e}) \cup {ForToken(e)} /\ \A q \in Pollers \ {p} : due'[q] = due[q]
        BY <2>1, <2>2, <3>4
      <4>2. \A q \in Pollers : \A f \in due'[q] : f.task = u => f.step = "token"
        BY <2>2, <3>2, <4>1 DEF Entries
      <4>3. DueAmounts(u)' = {}
        BY <4>2 DEF DueAmounts
      <4>4. StillDue(u)' = 0
        <5>1. StillDue(u)' = IF DueAmounts(u)' = {} THEN 0 ELSE CHOOSE n \in DueAmounts(u)' : TRUE
          BY DEF StillDue, DueAmounts
        <5> QED
          BY <4>3, <5>1
      <4>5. paid'[u]["fund"] = Quota(u) + e.delta
        BY <2>1, <2>2, <2>4, <3>2, <3>4 DEF PostInv, Side
      <4>6. paid'[u]["fund"] \in Int
        BY <1>1 DEF TypeOK, MoneyType, Side
      <4>7. Charge(u)' = paid'[u]["fund"] + StillDue(u)'
        BY <1>1 DEF Charge
      <4> QED
        BY <3>2, <4>4, <4>5, <4>6, <4>7
    <3>5. CASE e.step = "token"
      <4>1. due'[p] = due[p] \ {e} /\ \A q \in Pollers \ {p} : due'[q] = due[q]
        BY <2>1, <2>2, <3>5
      <4>2. \A q \in Pollers : \A f \in due'[q] : f.task # u
        BY <3>2, <4>1 DEF Entries
      <4>3. DueAmounts(u)' = {}
        BY <4>2 DEF DueAmounts
      <4>4. StillDue(u)' = 0
        <5>1. StillDue(u)' = IF DueAmounts(u)' = {} THEN 0 ELSE CHOOSE n \in DueAmounts(u)' : TRUE
          BY DEF StillDue, DueAmounts
        <5> QED
          BY <4>3, <5>1
      <4>5. paid'[u]["fund"] = Quota(u) + e.delta
        BY <2>1, <2>2, <2>4, <3>2, <3>5 DEF PostInv, Side
      <4>6. paid'[u]["fund"] \in Int
        BY <1>1 DEF TypeOK, MoneyType, Side
      <4>7. Charge(u)' = paid'[u]["fund"] + StillDue(u)'
        BY <1>1 DEF Charge
      <4> QED
        BY <3>2, <4>4, <4>5, <4>6, <4>7
    <3> QED
      BY <2>1, <3>4, <3>5
  <2> QED
    BY <2>3, <2>4
<1> QED
  BY <1>2, <1>3, EndedStays

(* The step that ends a task decides it as the contract has it.             *)
ChargesRight == \A t \in Tasks : row[t].status \in Final =>
                    RightCost(t, row[t].status, Charge(t))

LEMMA ContractStep ==
    ASSUME Calm, EndInv, [Next]_vars, ChargesRight', NEW t \in Tasks
    PROVE  [Contract(t)!Next]_<<Phase(t), Charge(t)>>
<1>1. EndInv' /\ UNCHANGED info /\ TypeOK /\ TypeOK'
  BY EndStep, InfoFixed DEF EndInv, FollowInv, SafeInv
<1>2. CASE row[t].status \in Final
  <2>1. row'[t] = row[t] /\ Charge(t)' = Charge(t)
    BY <1>2, EndedStays, ChargeKept
  <2>2. Phase(t)' = Phase(t)
    BY <1>1, <2>1 DEF Phase
  <2> QED
    BY <2>1, <2>2
<1>3. CASE row[t].status \notin Final /\ row'[t].status \notin Final
  <2>1. Phase(t) = "open" /\ Phase(t)' = "open" /\ Charge(t) = 0 /\ Charge(t)' = 0
    BY <1>3 DEF Phase, Charge, Final
  <2> QED
    BY <2>1
<1>4. CASE row[t].status \notin Final /\ row'[t].status \in Final
  <2>1. Phase(t) = "open" /\ Charge(t) = 0
    BY <1>4 DEF Phase, Charge, Final
  <2>2. RightCost(t, row'[t].status, Charge(t)')
    BY <1>1, <1>4 DEF ChargesRight, RightCost, Quota
  <2>3. Quota(t) \in Quotas
    <3>1. info[t] \in [kind : Kinds, legacy : Ages, quota : Quotas]
      BY <1>1 DEF TypeOK, TaskType
    <3> QED
      BY <3>1 DEF Quota
  <2>4. \/ Phase(t)' = "served" /\ Charge(t)' \in Quotas \cup Actuals
        \/ Phase(t)' = "short" /\ Charge(t)' \in Quotas
        \/ Phase(t)' = "void" /\ Charge(t)' = 0
    <3>1. CASE row'[t].status = "SUCCESS"
      <4>1. Charge(t)' \in Actuals \cup {Quota(t)}
        BY <2>2, <3>1 DEF RightCost
      <4>2. Phase(t)' = "served"
        BY <3>1 DEF Phase
      <4> QED
        BY <2>3, <4>1, <4>2
    <3>2. CASE row'[t].status = "FAILURE"
      <4>1. Charge(t)' = 0 \/ (info'[t].legacy /\ Charge(t)' = Quota(t))
        BY <1>1, <2>2, <3>2 DEF RightCost
      <4>2. Phase(t)' = IF info'[t].legacy /\ Charge(t)' # 0 THEN "short" ELSE "void"
        BY <3>2 DEF Phase
      <4> QED
        BY <2>3, <4>1, <4>2
    <3> QED
      BY <1>4, <3>1, <3>2 DEF Final
  <2>5. Contract(t)!Next
    BY <2>1, <2>4 DEF Contract!Next, Contract!Serve, Contract!ServeShort,
                      Contract!Void, Contract!Decide
  <2> QED
    BY <2>5
<1> QED
  BY <1>2, <1>3, <1>4

(* Under the same conditions each task is charged as the contract for       *)
(* requests has it: the step that gives it its final status decides it,     *)
(* once, and what RefundTaskQuota and RecalculateTaskQuota then post is     *)
(* what that decision says.                                                 *)
THEOREM TasksImplement == Calm => (Spec => ImplementsContract)
<1> SUFFICES ASSUME Calm PROVE Spec => ImplementsContract
  OBVIOUS
<1> DEFINE Opens == \A t \in Tasks : Contract(t)!Init
           Steps == \A t \in Tasks : [Contract(t)!Next]_<<Phase(t), Charge(t)>>
<1>1. Init => Opens
  <2> SUFFICES ASSUME Init, NEW t \in Tasks PROVE Contract(t)!Init
    OBVIOUS
  <2>1. Phase(t) = "open" /\ Charge(t) = 0
    BY DEF Init, NoRows, NoRow, Phase, Charge, Final
  <2> QED
    BY <2>1 DEF Contract!Init
<1>2. Init => EndInv
  BY EndInit
<1>3. EndInv /\ [Next]_vars => EndInv'
  BY EndStep
<1>4. EndInv => ChargesRight
  BY ChargeIs DEF ChargesRight
<1>5. EndInv /\ ChargesRight' /\ [Next]_vars => [Steps]_vars
  BY ContractStep
<1>6. ImplementsContract <=> Opens /\ [][Steps]_vars
  BY DEF ImplementsContract
<1> QED
  BY <1>1, <1>2, <1>3, <1>4, <1>5, <1>6, PTL DEF Spec
=============================================================================
