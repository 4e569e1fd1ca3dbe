------------------------ MODULE SubscriptionQuotaProofs ------------------------
(***************************************************************************)
(* Theorems about SubscriptionQuota, for any number of requests,           *)
(* subscriptions, connections, errors and attempts: variables keep their   *)
(* types; a request is charged once, and given back too much only after an *)
(* error; a reset and the end of a subscription are undone only by         *)
(* transactions that were under way; and what is true of rows that no      *)
(* tx.Save went over: what is used is what has been posted, no total is    *)
(* oversold, and the transactions are the atomic changes of                *)
(* SubscriptionRows.                                                       *)
(***************************************************************************)
EXTENDS SubscriptionQuota, SumTheorems, TLAPS

-----------------------------------------------------------------------------
(* Types.                                                                   *)

(* What the place of a request says about its amounts and its record.       *)
Known(r) ==
    /\ pc[r] \in {"new", "pre", "preCommit", "refused"} => ask[r] \in Nat
    /\ pc[r] \in {"preCommit", "held", "delta", "deltaCommit"} => hold[r] \in Hold
    /\ pc[r] \in {"held", "delta", "deltaCommit", "refund", "inner", "innerCommit", "outerCommit"}
       => record[r].status # "none"
    /\ record[r].status # "none" => record[r].sub \in Subs
    /\ pc[r] \in {"preCommit", "deltaCommit"} => hold[r].sub \in DOMAIN copy[r]
    /\ pc[r] = "innerCommit" => record[r].sub \in DOMAIN copy[r]

TaskKnown == task.sub # 0 => task.sub \in DOMAIN copy[Maintainer]

TypeInv == TypeOK /\ (\A r \in Requests : Known(r)) /\ TaskKnown

LEMMA BoundTypes ==
    /\ MaxPeriod \in Nat /\ MaxFaults \in Nat /\ MaxTries \in Nat \ {0}
    /\ Subs \subseteq Nat \ {0}
    /\ \A s \in Subs : Ends[s] \in Nat /\ Total[s] \in Nat
    /\ Estimates \subseteq Nat /\ Costs \subseteq Nat
BY SubsAssumption, AmountsAssumption, BoundsAssumption

LEMMA OwnerTypes ==
    /\ Requests \subseteq Owner /\ Maintainer \in Owner
    /\ Maintainer \notin Requests
BY OwnersAssumption DEF Owner

(* An entry of the ledger changes by an integer, wherever it is.            *)
LEMMA PostType ==
    ASSUME ledger \in [Requests -> [Subs -> [Period -> Int]]],
           NEW r \in Requests, NEW s \in Subs, NEW n \in Int, NEW p,
           Post(r, s, n, p)
    PROVE  ledger' \in [Requests -> [Subs -> [Period -> Int]]]
<1> DEFINE f == [ledger[r][s] EXCEPT ![p] = @ + n]
           g == [ledger[r] EXCEPT ![s] = f]
<1>1. ledger[r][s] \in [Period -> Int] /\ ledger[r] \in [Subs -> [Period -> Int]]
  OBVIOUS
<1>2. f \in [Period -> Int]
  <2>1. CASE p \in Period
    BY <1>1, <2>1
  <2>2. CASE p \notin Period
    BY <1>1, <2>2
  <2> QED BY <2>1, <2>2
<1>3. g \in [Subs -> [Period -> Int]]
  BY <1>1, <1>2
<1>4. ledger' = [ledger EXCEPT ![r] = g]
  BY DEF Post
<1> QED
  BY <1>3, <1>4

(* A row that is due for a reset becomes a row.                             *)
LEMMA RefreshedType ==
    ASSUME NEW s \in Subs, NEW rw \in Row, NEW t \in Period
    PROVE  /\ Refreshed(s, rw, t) \in Row
           /\ Refreshed(s, rw, t).status = rw.status
           /\ Refreshed(s, rw, t).period >= rw.period
<1>1. CASE Due(s, rw, t)
  <2>1. t <= MaxPeriod /\ rw.period < t /\ rw.period < Ends[s]
    BY <1>1, BoundTypes DEF Due, Period
  <2> DEFINE p == IF t < Ends[s] THEN t ELSE Ends[s]
  <2>2. p \in Period /\ p >= rw.period
    BY <2>1, BoundTypes DEF Row, Period
  <2>3. Refreshed(s, rw, t) = [rw EXCEPT !.used = 0, !.period = p]
    BY <1>1 DEF Refreshed
  <2> HIDE DEF p
  <2>4. /\ [rw EXCEPT !.used = 0, !.period = p] \in Row
        /\ [rw EXCEPT !.used = 0, !.period = p].status = rw.status
        /\ [rw EXCEPT !.used = 0, !.period = p].period = p
    BY <2>2 DEF Row
  <2> QED BY <2>2, <2>3, <2>4
<1>2. CASE ~Due(s, rw, t)
  <2>1. Refreshed(s, rw, t) = rw
    BY <1>2 DEF Refreshed
  <2>2. rw.period \in Int
    BY BoundTypes DEF Row, Period
  <2> QED BY <2>1, <2>2
<1> QED BY <1>1, <1>2

LEMMA NewRowType == NewRow \in Row
BY BoundTypes DEF NewRow, Row, Period

LEMMA NoRowsType == NoRows \in Rows /\ DOMAIN NoRows = {}
<1>1. NoRows \in [{} -> Row]
  BY DEF NoRows
<1> QED BY <1>1 DEF Rows, NoRows

(* What a transaction has read are rows.                                    *)
LEMMA CopyRows ==
    ASSUME TypeOK, NEW o \in Owner, NEW s \in DOMAIN copy[o]
    PROVE  s \in Subs /\ copy[o][s] \in Row
<1>1. copy[o] \in Rows
  BY DEF TypeOK
<1>2. PICK S \in SUBSET Subs : copy[o] \in [S -> Row]
  BY <1>1 DEF Rows
<1> QED BY <1>2

(* A transaction reads, or it ends.                                         *)
LEMMA CopySteps ==
    ASSUME TypeOK, NEW o \in Owner
    PROVE  /\ \A S \in SUBSET Subs : Reads(o, S) =>
                 /\ copy' \in [Owner -> Rows] /\ DOMAIN copy'[o] = S
                 /\ \A s \in S : copy'[o][s] = row[s]
                 /\ \A q \in Owner \ {o} : copy'[q] = copy[q]
           /\ Closes(o) =>
                 /\ copy' \in [Owner -> Rows] /\ DOMAIN copy'[o] = {}
                 /\ \A q \in Owner \ {o} : copy'[q] = copy[q]
           /\ \A W \in SUBSET Subs : Saves(o, W) =>
                 /\ copy' \in [Owner -> Rows] /\ DOMAIN copy'[o] = {}
                 /\ \A q \in Owner \ {o} : copy'[q] = copy[q]
                 /\ stale' \subseteq Subs /\ stale \subseteq stale'
                 /\ \A s \in W : row[s] = copy[o][s] \/ s \in stale'
<1>1. ASSUME NEW S \in SUBSET Subs, Reads(o, S)
      PROVE  /\ copy' \in [Owner -> Rows] /\ DOMAIN copy'[o] = S
             /\ \A s \in S : copy'[o][s] = row[s]
             /\ \A q \in Owner \ {o} : copy'[q] = copy[q]
  <2> DEFINE c == [s \in S |-> row[s]]
  <2>1. c \in [S -> Row]
    BY DEF TypeOK
  <2>2. c \in Rows
    BY <2>1 DEF Rows
  <2>3. copy' = [copy EXCEPT ![o] = c]
    BY <1>1 DEF Reads
  <2>4. DOMAIN c = S /\ \A s \in S : c[s] = row[s]
    OBVIOUS
  <2> HIDE DEF c
  <2> QED BY <2>2, <2>3, <2>4 DEF TypeOK
<1>2. ASSUME Closes(o)
      PROVE  /\ copy' \in [Owner -> Rows] /\ DOMAIN copy'[o] = {}
             /\ \A q \in Owner \ {o} : copy'[q] = copy[q]
  BY <1>2, NoRowsType DEF TypeOK, Closes
<1>3. ASSUME NEW W \in SUBSET Subs, Saves(o, W)
      PROVE  /\ Closes(o)
             /\ stale' \subseteq Subs /\ stale \subseteq stale'
             /\ \A s \in W : row[s] = copy[o][s] \/ s \in stale'
  BY <1>3 DEF Saves, TypeOK
<1> QED BY <1>1, <1>2, <1>3

(* The rows a pre-consumption saves.                                        *)
LEMMA ChargedType ==
    ASSUME TypeOK, NEW r \in Requests, hold[r].sub \in DOMAIN copy[r], hold[r].amount \in Nat
    PROVE  Charged(r) \in [Subs -> Row]
<1> DEFINE s == hold[r].sub
           refreshed(t) == Refreshed(t, copy[r][t], at[r])
<1>1. at[r] \in Period /\ \A t \in Subs : row[t] \in Row
  BY OwnerTypes DEF TypeOK
<1>2. \A t \in DOMAIN copy[r] : t \in Subs /\ copy[r][t] \in Row
  BY OwnerTypes, CopyRows
<1>3. \A t \in DOMAIN copy[r] : refreshed(t) \in Row
  BY <1>1, <1>2, RefreshedType
<1>4. [refreshed(s) EXCEPT !.used = @ + hold[r].amount] \in Row
  BY <1>3 DEF Row
<1>5. \A t \in Passed(r) : refreshed(t) \in Row
  BY <1>3 DEF Passed
<1> HIDE DEF refreshed, s
<1>6. \A t \in Subs :
        (IF t = s THEN [refreshed(s) EXCEPT !.used = @ + hold[r].amount]
         ELSE IF t \in Passed(r) THEN refreshed(t) ELSE row[t]) \in Row
  BY <1>1, <1>4, <1>5
<1> QED BY <1>6 DEF Charged, refreshed, s

(* The row a settlement or a refund saves.                                  *)
LEMMA NewUseType ==
    ASSUME TypeOK, NEW r \in Requests, NEW s \in DOMAIN copy[r], NEW n \in Int
    PROVE  /\ s \in Subs
           /\ [copy[r][s] EXCEPT !.used = NewUse(r, s, n)] \in Row
<1>1. s \in Subs /\ copy[r][s] \in Row
  BY OwnerTypes, CopyRows
<1> QED BY <1>1 DEF NewUse, Row

(* What a pre-consumption saves and records keeps the types.                *)
LEMMA PreConsumedType ==
    ASSUME TypeInv, NEW r \in Requests, pc[r] = "preCommit", PreConsumed(r)
    PROVE  /\ row' \in [Subs -> Row]
           /\ record' \in [Requests -> Record]
           /\ ledger' \in [Requests -> [Subs -> [Period -> Int]]]
           /\ copy' \in [Owner -> Rows] /\ stale' \subseteq Subs
           /\ record'[r].status = "consumed" /\ record'[r].sub \in Subs
           /\ \A q \in Requests \ {r} : record'[q] = record[q]
           /\ \A q \in Owner \ {r} : copy'[q] = copy[q]
<1>1. /\ TypeOK /\ hold[r].sub \in Subs /\ hold[r].amount \in Nat
      /\ hold[r].sub \in DOMAIN copy[r] /\ r \in Owner
  BY OwnerTypes DEF TypeInv, Known, Hold
<1>2. row' \in [Subs -> Row]
  BY <1>1, ChargedType DEF PreConsumed
<1>3. /\ record' = [record EXCEPT ![r] = [sub |-> hold[r].sub, amount |-> hold[r].amount,
                                         status |-> "consumed"]]
      /\ Post(r, hold[r].sub, hold[r].amount, Charged(r)[hold[r].sub].period)
      /\ Saves(r, Passed(r) \cup {hold[r].sub})
  BY DEF PreConsumed
<1>4. ledger' \in [Requests -> [Subs -> [Period -> Int]]]
  BY <1>1, <1>3, PostType DEF TypeOK
<1>5. Passed(r) \cup {hold[r].sub} \in SUBSET Subs
  BY <1>1, CopyRows DEF Passed
<1>6. /\ copy' \in [Owner -> Rows] /\ stale' \subseteq Subs
      /\ \A q \in Owner \ {r} : copy'[q] = copy[q]
  BY <1>1, <1>3, <1>5, CopySteps
<1> QED BY <1>1, <1>2, <1>3, <1>4, <1>6 DEF TypeOK, Record

(* So does what a settlement or a refund saves.                             *)
LEMMA PostDeltaType ==
    ASSUME TypeInv, NEW r \in Requests, NEW s \in DOMAIN copy[r], NEW n \in Int,
           PostDelta(r, s, n)
    PROVE  /\ row' \in [Subs -> Row]
           /\ ledger' \in [Requests -> [Subs -> [Period -> Int]]]
           /\ copy' \in [Owner -> Rows] /\ stale' \subseteq Subs
           /\ \A q \in Owner \ {r} : copy'[q] = copy[q]
<1>1. s \in Subs /\ [copy[r][s] EXCEPT !.used = NewUse(r, s, n)] \in Row
  BY NewUseType DEF TypeInv
<1>2. row' \in [Subs -> Row]
  BY <1>1 DEF PostDelta, TypeInv, TypeOK
<1>3. Post(r, s, n, copy[r][s].period) /\ Saves(r, {s})
  BY DEF PostDelta
<1>4. ledger' \in [Requests -> [Subs -> [Period -> Int]]]
  BY <1>1, <1>3, PostType DEF TypeInv, TypeOK
<1>5. {s} \in SUBSET Subs
  BY <1>1
<1> QED BY <1>2, <1>3, <1>4, <1>5, CopySteps, OwnerTypes DEF TypeInv

(* A step of r leaves what the others know of themselves alone.             *)
LEMMA Elsewhere ==
    ASSUME TypeInv, NEW r \in Requests, Known(r)', UNCHANGED task,
           \A q \in Requests \ {r} : /\ pc'[q] = pc[q] /\ ask'[q] = ask[q]
                                     /\ hold'[q] = hold[q] /\ record'[q] = record[q],
           \A q \in Owner \ {r} : copy'[q] = copy[q]
    PROVE  (\A q \in Requests : Known(q)') /\ TaskKnown'
<1>1. ASSUME NEW q \in Requests, q # r PROVE Known(q)'
  <2>1. Known(q) /\ copy'[q] = copy[q]
    BY <1>1, OwnerTypes DEF TypeInv
  <2> QED BY <1>1, <2>1 DEF Known
<1>2. TaskKnown'
  BY OwnerTypes DEF TypeInv, TaskKnown
<1> QED BY <1>1, <1>2

(* The bound of the attempts of a request.                                 *)
LEMMA TriesStep ==
    /\ 1 \in Tries
    /\ \A n \in Tries : n < MaxTries \/ n < MaxAttempts => n + 1 \in Tries
BY BoundTypes DEF Tries, MaxAttempts

LEMMA FaultStep ==
    ASSUME TypeOK, NEW r \in Requests, Fails(r)
    PROVE  faults' \in [Requests -> 0..MaxFaults]
BY BoundTypes DEF TypeOK, Fails

(* Requests before they have anything.                                      *)
LEMMA EarlyTypes ==
    ASSUME TypeInv, NEW r \in Requests, Start(r) \/ Refused(r) \/ Decide(r)
    PROVE  TypeInv'
<1>0. Known(r) /\ TypeOK
  BY DEF TypeInv
<1>1. CASE Start(r)
  <2>1. pc' \in [Requests -> Place] /\ at' \in [Owner -> Period]
    BY <1>0, <1>1 DEF TypeOK, Start, Place
  <2>2. TypeOK'
    BY <1>0, <1>1, <2>1 DEF TypeOK, Start, rows
  <2>3. Known(r)'
    BY <1>0, <1>1 DEF TypeOK, Start, rows, Known
  <2> QED BY <1>0, <1>1, <2>2, <2>3, Elsewhere DEF TypeInv, TypeOK, Start, rows
<1>2. CASE Refused(r)
  <2>1. pc' \in [Requests -> Place]
    BY <1>0, <1>2 DEF TypeOK, Refused, Place
  <2>2. tries' \in [Requests -> Tries]
    <3>1. \/ tries' = tries
          \/ tries[r] < MaxTries /\ tries' = [tries EXCEPT ![r] = @ + 1]
      BY <1>2 DEF Refused
    <3>2. tries \in [Requests -> Tries] /\ tries[r] \in Tries
      BY <1>0 DEF TypeOK
    <3>3. tries[r] < MaxTries => tries[r] + 1 \in Tries
      BY <3>2, TriesStep
    <3> QED BY <3>1, <3>2, <3>3
  <2>3. TypeOK'
    BY <1>0, <1>2, <2>1, <2>2 DEF TypeOK, Refused, rows
  <2>4. Known(r)'
    BY <1>0, <1>2 DEF TypeOK, Refused, rows, Known
  <2> QED BY <1>0, <1>2, <2>3, <2>4, Elsewhere DEF TypeInv, TypeOK, Refused, rows
<1>3. CASE Decide(r)
  <2>1. pc' \in [Requests -> Place]
    BY <1>0, <1>3 DEF TypeOK, Decide, Place
  <2>2. tries' \in [Requests -> Tries]
    BY <1>0, <1>3, TriesStep DEF TypeOK, Decide
  <2>3. ask' \in [Requests -> Int]
    <3>1. hold[r].amount \in Nat
      BY <1>0, <1>3 DEF Decide, Known, Hold
    <3> QED BY <1>0, <1>3, <3>1, BoundTypes DEF TypeOK, Decide
  <2>4. TypeOK'
    BY <1>0, <1>3, <2>1, <2>2, <2>3 DEF TypeOK, Decide, rows
  <2>5. Known(r)'
    BY <1>0, <1>3 DEF TypeOK, Decide, rows, Known
  <2> QED BY <1>0, <1>3, <2>4, <2>5, Elsewhere DEF TypeInv, TypeOK, Decide, rows
<1> QED BY <1>1, <1>2, <1>3

(* Pre-consumption.                                                         *)
LEMMA BeginPreConsumeTypes ==
    ASSUME TypeInv, NEW r \in Requests, BeginPreConsume(r)
    PROVE  TypeInv'
<1>0. Known(r) /\ TypeOK
  BY DEF TypeInv
<1>1. hold' = hold \/ \E h \in Hold : hold' = [hold EXCEPT ![r] = h]
  <2>1. CASE RecordOf(r) = "consumed"
    <3>1. [sub |-> record[r].sub, amount |-> record[r].amount] \in Hold
      BY <1>0, <2>1 DEF RecordOf, Known, Hold, Record, TypeOK
    <3> QED BY <2>1, <3>1 DEF BeginPreConsume
  <2>2. CASE RecordOf(r) # "consumed"
    <3>1. ask[r] \in Nat /\ Eligible(r) \subseteq Subs
      BY <1>0 DEF BeginPreConsume, Known, Eligible, Candidates
    <3>2. \A s \in Eligible(r) : [sub |-> s, amount |-> ask[r]] \in Hold
      BY <3>1 DEF Hold
    <3> QED BY <2>2, <3>2 DEF BeginPreConsume
  <2> QED BY <2>1, <2>2
<1>2. hold' \in [Requests -> Hold \cup {NoHold}]
  BY <1>0, <1>1 DEF TypeOK
<1>3. /\ copy' \in [Owner -> Rows]
      /\ \A q \in Owner \ {r} : copy'[q] = copy[q]
      /\ Reads(r, Candidates(r)) => DOMAIN copy'[r] = Candidates(r)
  <2>1. Candidates(r) \in SUBSET Subs /\ r \in Owner
    BY OwnerTypes DEF Candidates
  <2>2. CASE Reads(r, Candidates(r))
    BY <1>0, <2>1, <2>2, CopySteps
  <2>3. CASE ~Reads(r, Candidates(r))
    <3>1. UNCHANGED copy
      BY <2>3 DEF BeginPreConsume
    <3> QED BY <1>0, <2>3, <3>1 DEF TypeOK
  <2> QED BY <2>2, <2>3
<1>4. pc' \in [Requests -> Place]
  BY <1>0 DEF BeginPreConsume, TypeOK, Place
<1>5. TypeOK'
  BY <1>0, <1>2, <1>3, <1>4 DEF TypeOK, BeginPreConsume, rows
<1>6. Known(r)'
  <2>1. CASE pc' = [pc EXCEPT ![r] = "refused"]
    BY <1>0, <2>1 DEF TypeOK, BeginPreConsume, Known, rows
  <2>2. CASE pc' # [pc EXCEPT ![r] = "refused"]
    <3>1. hold'[r] \in Hold
      <4>1. CASE RecordOf(r) = "consumed"
        BY <1>0, <4>1, <2>2 DEF TypeOK, BeginPreConsume, RecordOf, Known, Record, Hold
      <4>2. CASE RecordOf(r) # "consumed"
        BY <1>0, <4>2, <2>2 DEF TypeOK, BeginPreConsume, Known, Eligible, Candidates, Hold
      <4> QED BY <4>1, <4>2
    <3>2. pc'[r] = "preCommit" => hold'[r].sub \in DOMAIN copy'[r]
      <4>1. CASE RecordOf(r) = "consumed"
        BY <1>0, <4>1, <2>2 DEF TypeOK, BeginPreConsume
      <4>2. CASE RecordOf(r) # "consumed"
        BY <1>0, <1>3, <4>2, <2>2 DEF TypeOK, BeginPreConsume, Eligible
      <4> QED BY <4>1, <4>2
    <3> QED BY <1>0, <2>2, <3>1, <3>2 DEF TypeOK, BeginPreConsume, Known, RecordOf, rows
  <2> QED BY <2>1, <2>2
<1> QED BY <1>0, <1>1, <1>3, <1>5, <1>6, Elsewhere DEF TypeInv, TypeOK, BeginPreConsume, rows

LEMMA CommitPreConsumeTypes ==
    ASSUME TypeInv, NEW r \in Requests, CommitPreConsume(r)
    PROVE  TypeInv'
<1>0. Known(r) /\ hold[r] \in Hold /\ TypeOK
  BY DEF TypeInv, CommitPreConsume, Known
<1>1. pc' \in [Requests -> Place] /\ faults' \in [Requests -> 0..MaxFaults]
  BY <1>0, FaultStep DEF TypeOK, CommitPreConsume, RollBack, Place
<1>9. pc[r] = "preCommit" /\ r \in Owner
  BY OwnerTypes DEF CommitPreConsume
<1>2. hold' \in [Requests -> Hold \cup {NoHold}]
  BY <1>0 DEF TypeOK, CommitPreConsume
<1>3. CASE PreConsumed(r)
  <2>1. TypeOK'
    BY <1>0, <1>1, <1>9, <1>2, <1>3, PreConsumedType DEF TypeOK, CommitPreConsume
  <2>2. Known(r)'
    BY <1>0, <1>9, <1>3, PreConsumedType DEF TypeOK, CommitPreConsume, RollBack, Known
  <2> QED BY <1>0, <1>9, <1>3, <2>1, <2>2, PreConsumedType, Elsewhere
          DEF TypeInv, TypeOK, CommitPreConsume, RollBack
<1>4. CASE ~PreConsumed(r)
  <2>1. hold' = [hold EXCEPT ![r] = NoHold] /\ RollBack(r, "refused")
    BY <1>4 DEF CommitPreConsume
  <2>2. /\ copy' \in [Owner -> Rows]
        /\ \A q \in Owner \ {r} : copy'[q] = copy[q]
    BY <1>0, <1>9, <2>1, CopySteps DEF RollBack
  <2>3. TypeOK'
    BY <1>0, <1>1, <1>2, <2>1, <2>2 DEF TypeOK, CommitPreConsume, RollBack, rows
  <2>4. Known(r)'
    BY <1>0, <2>1 DEF TypeOK, CommitPreConsume, RollBack, Known, rows
  <2> QED BY <1>0, <2>1, <2>2, <2>3, <2>4, Elsewhere
          DEF TypeInv, TypeOK, CommitPreConsume, RollBack, rows
<1> QED BY <1>3, <1>4

(* Settlement.                                                              *)
LEMMA DeltaTypes ==
    ASSUME TypeInv, NEW r \in Requests, BeginDelta(r) \/ CommitDelta(r)
    PROVE  TypeInv'
<1>0. Known(r) /\ TypeOK
  BY DEF TypeInv
<1>1. CASE BeginDelta(r)
  <2>1. pc' \in [Requests -> Place]
    BY <1>0, <1>1 DEF TypeOK, BeginDelta, Place
  <2>2. /\ copy' \in [Owner -> Rows]
        /\ hold[r].sub \in DOMAIN copy'[r]
        /\ \A q \in Owner \ {r} : copy'[q] = copy[q]
    <3>1. Reads(r, {hold[r].sub}) /\ {hold[r].sub} \in SUBSET Subs
      BY <1>0, <1>1 DEF BeginDelta, Known, Hold
    <3> QED BY <1>0, <3>1, CopySteps, OwnerTypes
  <2>3. TypeOK'
    BY <1>0, <1>1, <2>1, <2>2 DEF TypeOK, BeginDelta, rows
  <2>4. Known(r)'
    BY <1>0, <1>1, <2>2 DEF TypeOK, BeginDelta, Known, rows
  <2> QED BY <1>0, <1>1, <2>2, <2>3, <2>4, Elsewhere DEF TypeInv, TypeOK, BeginDelta, rows
<1>2. CASE CommitDelta(r)
  <2>0. hold[r].sub \in DOMAIN copy[r] /\ ask[r] \in Int
    BY <1>0, <1>2 DEF TypeOK, CommitDelta, Known
  <2>1. /\ pc' = [pc EXCEPT ![r] = "done"] /\ record' = record
        /\ RollBack(r, "done") \/ PostDelta(r, hold[r].sub, ask[r])
        /\ Fails(r) \/ UNCHANGED faults
        /\ UNCHANGED <<now, at, ask, hold, tries, task>>
    BY <1>2 DEF CommitDelta, RollBack, rows
  <2>2. pc' \in [Requests -> Place] /\ faults' \in [Requests -> 0..MaxFaults]
    BY <1>0, <2>1, FaultStep DEF TypeOK, Place
  <2>3. /\ row' \in [Subs -> Row]
        /\ ledger' \in [Requests -> [Subs -> [Period -> Int]]]
        /\ copy' \in [Owner -> Rows] /\ stale' \subseteq Subs
        /\ \A q \in Owner \ {r} : copy'[q] = copy[q]
    <3>1. CASE RollBack(r, "done")
      BY <1>0, <3>1, CopySteps, OwnerTypes DEF RollBack, TypeOK, rows
    <3>2. CASE PostDelta(r, hold[r].sub, ask[r])
      BY <2>0, <3>2, PostDeltaType
    <3> QED BY <2>1, <3>1, <3>2
  <2>4. TypeOK'
    BY <1>0, <2>1, <2>2, <2>3 DEF TypeOK
  <2>5. Known(r)'
    BY <1>0, <2>1 DEF TypeOK, Known
  <2> QED BY <1>0, <2>1, <2>3, <2>4, <2>5, Elsewhere DEF TypeInv, TypeOK
<1> QED BY <1>1, <1>2

(* Refund.                                                                  *)
LEMMA TryAgainTypes ==
    ASSUME TypeOK, NEW r \in Requests, TryAgain(r)
    PROVE  /\ pc' \in [Requests -> Place] /\ tries' \in [Requests -> Tries]
           /\ pc'[r] \in {"refund", "done"}
           /\ \A q \in Requests \ {r} : pc'[q] = pc[q]
<1>1. tries \in [Requests -> Tries] /\ tries[r] \in Tries /\ pc \in [Requests -> Place]
  BY DEF TypeOK
<1>2. tries[r] < MaxAttempts => tries[r] + 1 \in Tries
  BY <1>1, TriesStep
<1>3. tries' \in [Requests -> Tries]
  BY <1>1, <1>2 DEF TryAgain
<1> QED BY <1>1, <1>3 DEF TryAgain, Place

LEMMA RefundTypes ==
    ASSUME TypeInv, NEW r \in Requests, BeginRefund(r) \/ BeginInner(r)
    PROVE  TypeInv'
<1>0. Known(r) /\ TypeOK
  BY DEF TypeInv
<1>1. CASE BeginRefund(r)
  <2>1. pc' \in [Requests -> Place]
    BY <1>0, <1>1 DEF TypeOK, BeginRefund, Place
  <2>2. TypeOK'
    BY <1>0, <1>1, <2>1 DEF TypeOK, BeginRefund, rows
  <2>3. Known(r)'
    BY <1>0, <1>1 DEF TypeOK, BeginRefund, rows, Known
  <2> QED BY <1>0, <1>1, <2>2, <2>3, Elsewhere DEF TypeInv, TypeOK, BeginRefund, rows
<1>2. CASE BeginInner(r)
  <2>1. pc' \in [Requests -> Place]
    BY <1>0, <1>2 DEF TypeOK, BeginInner, Place
  <2>2. /\ copy' \in [Owner -> Rows]
        /\ record[r].sub \in DOMAIN copy'[r]
        /\ \A q \in Owner \ {r} : copy'[q] = copy[q]
    <3>1. Reads(r, {record[r].sub}) /\ {record[r].sub} \in SUBSET Subs
      BY <1>0, <1>2 DEF BeginInner, Known
    <3> QED BY <1>0, <3>1, CopySteps, OwnerTypes
  <2>3. TypeOK'
    BY <1>0, <1>2, <2>1, <2>2 DEF TypeOK, BeginInner, rows
  <2>4. Known(r)'
    BY <1>0, <1>2, <2>2 DEF TypeOK, BeginInner, Known, rows
  <2> QED BY <1>0, <1>2, <2>2, <2>3, <2>4, Elsewhere DEF TypeInv, TypeOK, BeginInner, rows
<1> QED BY <1>1, <1>2

LEMMA CommitInnerTypes ==
    ASSUME TypeInv, NEW r \in Requests, CommitInner(r)
    PROVE  TypeInv'
<1>0. Known(r) /\ TypeOK
  BY DEF TypeInv
<1>1. record[r].sub \in DOMAIN copy[r] /\ -GivenBack(r) \in Int
  BY <1>0 DEF CommitInner, Known, GivenBack, TypeOK, Record
<1>2. /\ \/ PostDelta(r, record[r].sub, -GivenBack(r))
         \/ Closes(r) /\ UNCHANGED <<row, stale, ledger>>
      /\ Fails(r) \/ UNCHANGED faults
      /\ TryAgain(r) \/ (pc' = [pc EXCEPT ![r] = "outerCommit"] /\ UNCHANGED tries)
      /\ UNCHANGED <<record, now, at, ask, hold, task>>
  BY DEF CommitInner
<1>3. faults' \in [Requests -> 0..MaxFaults]
  BY <1>0, <1>2, FaultStep DEF TypeOK
<1>4. /\ pc' \in [Requests -> Place] /\ tries' \in [Requests -> Tries]
      /\ pc'[r] \in {"refund", "done", "outerCommit"}
      /\ \A q \in Requests \ {r} : pc'[q] = pc[q]
  <2>1. CASE TryAgain(r)
    BY <1>0, <2>1, TryAgainTypes
  <2>2. CASE ~TryAgain(r)
    BY <1>0, <1>2, <2>2 DEF TypeOK, Place
  <2> QED BY <2>1, <2>2
<1>5. /\ row' \in [Subs -> Row]
      /\ ledger' \in [Requests -> [Subs -> [Period -> Int]]]
      /\ copy' \in [Owner -> Rows] /\ stale' \subseteq Subs
      /\ \A q \in Owner \ {r} : copy'[q] = copy[q]
  <2>1. CASE PostDelta(r, record[r].sub, -GivenBack(r))
    BY <1>1, <2>1, PostDeltaType
  <2>2. CASE Closes(r) /\ UNCHANGED <<row, stale, ledger>>
    BY <1>0, <2>2, CopySteps, OwnerTypes DEF TypeOK
  <2> QED BY <1>2, <2>1, <2>2
<1>6. TypeOK'
  BY <1>0, <1>2, <1>3, <1>4, <1>5 DEF TypeOK
<1>7. Known(r)'
  BY <1>0, <1>2, <1>4 DEF CommitInner, Known
<1> QED BY <1>2, <1>4, <1>5, <1>6, <1>7, Elsewhere DEF TypeInv

LEMMA CommitOuterTypes ==
    ASSUME TypeInv, NEW r \in Requests, CommitOuter(r)
    PROVE  TypeInv'
<1>0. Known(r) /\ TypeOK
  BY DEF TypeInv
<1>1. record[r] \in Record /\ record[r].status # "none"
  BY <1>0 DEF CommitOuter, Known, TypeOK
<1>2. /\ \/ record' = record
         \/ record' = [record EXCEPT ![r].status = "refunded"]
      /\ Fails(r) \/ UNCHANGED faults
      /\ TryAgain(r) \/ (pc' = [pc EXCEPT ![r] = "done"] /\ UNCHANGED tries)
      /\ UNCHANGED <<now, row, stale, at, copy, ask, hold, task, ledger>>
  BY DEF CommitOuter
<1>3. faults' \in [Requests -> 0..MaxFaults]
  BY <1>0, <1>2, FaultStep DEF TypeOK
<1>4. /\ pc' \in [Requests -> Place] /\ tries' \in [Requests -> Tries]
      /\ pc'[r] \in {"refund", "done"}
      /\ \A q \in Requests \ {r} : pc'[q] = pc[q]
  <2>1. CASE TryAgain(r)
    BY <1>0, <2>1, TryAgainTypes
  <2>2. CASE ~TryAgain(r)
    BY <1>0, <1>2, <2>2 DEF TypeOK, Place
  <2> QED BY <2>1, <2>2
<1>5. /\ record' \in [Requests -> Record]
      /\ record'[r].status # "none" /\ record'[r].sub = record[r].sub
      /\ \A q \in Requests \ {r} : record'[q] = record[q]
  <2> DEFINE marked == [record[r] EXCEPT !.status = "refunded"]
  <2>1. marked \in Record /\ marked.status = "refunded" /\ marked.sub = record[r].sub
    BY <1>1 DEF Record
  <2>2. record' = record \/ record' = [record EXCEPT ![r] = marked]
    BY <1>2
  <2> HIDE DEF marked
  <2> QED BY <1>0, <1>1, <2>1, <2>2 DEF TypeOK
<1>6. TypeOK'
  BY <1>0, <1>2, <1>3, <1>4, <1>5 DEF TypeOK
<1>7. Known(r)'
  BY <1>0, <1>1, <1>2, <1>4, <1>5 DEF Known
<1> QED BY <1>2, <1>4, <1>5, <1>6, <1>7, Elsewhere DEF TypeInv

LEMMA EndedType ==
    \A rw \in Row : /\ [rw EXCEPT !.status = "expired"] \in Row
                    /\ [rw EXCEPT !.status = "cancelled"] \in Row
BY DEF Row

(* What is no request's step leaves what requests know alone.               *)
LEMMA NoRequest ==
    ASSUME TypeInv, UNCHANGED <<pc, ask, hold, record>>,
           \A q \in Requests : copy'[q] = copy[q]
    PROVE  \A q \in Requests : Known(q)'
BY DEF TypeInv, Known

LEMMA MaintenanceTypes ==
    ASSUME TypeInv, Maintenance
    PROVE  TypeInv'
<1>0. TypeOK
  BY DEF TypeInv
<1>1. CASE ListDue
  <2>1. at' \in [Owner -> Period]
    BY <1>0, <1>1 DEF TypeOK, ListDue
  <2>2. task' \in [sub : Subs \cup {0}, todo : SUBSET Subs]
    <3>1. PICK todo \in SUBSET Subs : task' = [task EXCEPT !.todo = todo]
      BY <1>1 DEF ListDue
    <3> QED BY <1>0, <3>1 DEF TypeOK
  <2>3. TypeOK'
    BY <1>0, <1>1, <2>1, <2>2 DEF TypeOK, ListDue, rows
  <2>4. TaskKnown'
    BY <1>1 DEF ListDue, TaskKnown
  <2> QED BY <1>1, <2>3, <2>4, NoRequest DEF TypeInv, ListDue, rows
<1>2. ASSUME NEW s \in Subs, BeginReset(s) PROVE TypeInv'
  <2>1. /\ copy' \in [Owner -> Rows] /\ TaskKnown'
        /\ \A q \in Requests : copy'[q] = copy[q]
    <3>1. CASE Reads(Maintainer, {s}) /\ task' = [sub |-> s, todo |-> task.todo \ {s}]
      BY <1>0, <3>1, CopySteps, OwnerTypes DEF TaskKnown
    <3>2. CASE task' = [task EXCEPT !.todo = @ \ {s}] /\ UNCHANGED copy
      BY <1>0, <3>2 DEF TypeInv, TypeOK, TaskKnown
    <3> QED BY <1>2, <3>1, <3>2 DEF BeginReset
  <2>2. task' \in [sub : Subs \cup {0}, todo : SUBSET Subs]
    BY <1>0, <1>2 DEF TypeOK, BeginReset
  <2>3. TypeOK'
    BY <1>0, <1>2, <2>1, <2>2 DEF TypeOK, BeginReset, rows
  <2> QED BY <1>2, <2>1, <2>3, NoRequest DEF TypeInv, BeginReset, rows
<1>3. ASSUME NEW s \in Subs, CommitReset(s) PROVE TypeInv'
  <2>0. s \in DOMAIN copy[Maintainer] /\ {s} \in SUBSET Subs
    BY <1>3, BoundTypes DEF TypeInv, TaskKnown, CommitReset
  <2>1. /\ copy' \in [Owner -> Rows] /\ stale' \subseteq Subs
        /\ \A q \in Requests : copy'[q] = copy[q]
    BY <1>0, <1>3, <2>0, CopySteps, OwnerTypes DEF CommitReset
  <2>2. copy[Maintainer][s] \in Row /\ at[Maintainer] \in Period
    BY <1>0, <2>0, CopyRows, OwnerTypes DEF TypeOK
  <2>3. row' \in [Subs -> Row]
    BY <1>0, <1>3, <2>2, RefreshedType DEF TypeOK, CommitReset
  <2>4. task' \in [sub : Subs \cup {0}, todo : SUBSET Subs] /\ TaskKnown'
    BY <1>0, <1>3 DEF TypeOK, CommitReset, TaskKnown
  <2>5. TypeOK'
    BY <1>0, <1>3, <2>1, <2>3, <2>4 DEF TypeOK, CommitReset
  <2> QED BY <1>3, <2>1, <2>4, <2>5, NoRequest DEF TypeInv, CommitReset
<1> QED BY <1>1, <1>2, <1>3 DEF Maintenance

(* Expiry, cancellation, time and the end of the process.                   *)
LEMMA OutsideTypes ==
    ASSUME TypeInv, Expire \/ (\E s \in Subs : Cancel(s)) \/ Tick \/ Crash
    PROVE  TypeInv'
<1>0. TypeOK
  BY DEF TypeInv
<1>1. CASE Expire
  <2>1. \A s \in Subs : row[s] \in Row /\ [row[s] EXCEPT !.status = "expired"] \in Row
    BY <1>0, EndedType DEF TypeOK
  <2>2. row' \in [Subs -> Row]
    BY <1>1, <2>1 DEF Expire
  <2>3. TypeOK'
    BY <1>0, <1>1, <2>2 DEF TypeOK, Expire
  <2> QED BY <1>1, <2>3, NoRequest DEF TypeInv, TaskKnown, Expire
<1>2. ASSUME NEW s \in Subs, Cancel(s) PROVE TypeInv'
  <2>1. [row[s] EXCEPT !.status = "cancelled"] \in Row
    BY <1>0, EndedType DEF TypeOK
  <2>2. row' = [row EXCEPT ![s] = [row[s] EXCEPT !.status = "cancelled"]]
    BY <1>2 DEF Cancel
  <2>3. row' \in [Subs -> Row]
    BY <1>0, <2>1, <2>2 DEF TypeOK
  <2>4. TypeOK'
    BY <1>0, <1>2, <2>3 DEF TypeOK, Cancel
  <2> QED BY <1>2, <2>4, NoRequest DEF TypeInv, TaskKnown, Cancel
<1>3. CASE Tick
  <2>1. now' \in Period
    BY <1>0, <1>3, BoundTypes DEF TypeOK, Tick, Period
  <2>2. TypeOK'
    BY <1>0, <1>3, <2>1 DEF TypeOK, Tick, rows
  <2> QED BY <1>3, <2>2, NoRequest DEF TypeInv, TaskKnown, Tick, rows
<1>4. CASE Crash
  <2>1. pc' \in [Requests -> Place]
    BY <1>0, <1>4 DEF TypeOK, Crash, Place
  <2>2. copy' \in [Owner -> Rows]
    BY <1>4, NoRowsType DEF Crash
  <2>3. task' \in [sub : Subs \cup {0}, todo : SUBSET Subs]
    BY <1>4 DEF Crash
  <2>4. TypeOK'
    BY <1>0, <1>4, <2>1, <2>2, <2>3 DEF TypeOK, Crash, rows
  <2>5. \A q \in Requests : Known(q)'
    BY <1>4 DEF TypeInv, Crash, Known, rows
  <2>6. TaskKnown'
    BY <1>4 DEF Crash, TaskKnown
  <2> QED BY <2>4, <2>5, <2>6 DEF TypeInv
<1> QED BY <1>1, <1>2, <1>3, <1>4

LEMMA TypeStart == Init => TypeInv
<1> SUFFICES ASSUME Init PROVE TypeInv
  OBVIOUS
<1>1. /\ now \in Period /\ at \in [Owner -> Period]
      /\ ledger \in [Requests -> [Subs -> [Period -> Int]]]
  BY BoundTypes DEF Init, Period
<1>2. row \in [Subs -> Row] /\ copy \in [Owner -> Rows]
  BY NewRowType, NoRowsType DEF Init
<1>3. record \in [Requests -> Record] /\ pc \in [Requests -> Place]
  BY DEF Init, Record, Place
<1>4. ask \in [Requests -> Nat] /\ faults \in [Requests -> 0..MaxFaults]
  <2>1. ask \in [Requests -> Estimates] /\ Estimates \subseteq Nat
    BY BoundTypes DEF Init
  <2>2. faults \in [Requests -> 0..MaxFaults]
    BY BoundTypes DEF Init
  <2> QED BY <2>1, <2>2
<1>5. tries \in [Requests -> Tries]
  BY TriesStep DEF Init
<1>6. /\ stale \subseteq Subs
      /\ hold \in [Requests -> Hold \cup {NoHold}]
      /\ task \in [sub : Subs \cup {0}, todo : SUBSET Subs]
  BY DEF Init
<1>7. TypeOK
  BY <1>1, <1>2, <1>3, <1>4, <1>5, <1>6 DEF TypeOK
<1>8. \A r \in Requests : Known(r)
  BY <1>4 DEF Init, Known
<1>9. TaskKnown
  BY DEF Init, TaskKnown
<1> QED BY <1>7, <1>8, <1>9 DEF TypeInv

LEMMA TypeStep == TypeInv /\ [Next]_vars => TypeInv'
<1> SUFFICES ASSUME TypeInv, [Next]_vars PROVE TypeInv'
  OBVIOUS
<1>1. CASE UNCHANGED vars
  BY <1>1 DEF TypeInv, TypeOK, Known, TaskKnown, vars, rows
<1>2. CASE \E r \in Requests : Start(r) \/ Session(r)
  BY <1>2, EarlyTypes, BeginPreConsumeTypes, CommitPreConsumeTypes, DeltaTypes,
     RefundTypes, CommitInnerTypes, CommitOuterTypes DEF Session
<1>3. CASE Maintenance
  BY <1>3, MaintenanceTypes
<1>4. CASE Expire \/ (\E s \in Subs : Cancel(s)) \/ Tick \/ Crash
  BY <1>4, OutsideTypes
<1> QED BY <1>1, <1>2, <1>3, <1>4 DEF Next

(* Rows, records, copies and places keep their types, and a request         *)
(* that settles or refunds has a hold and a record.                         *)
THEOREM TypeCorrect == Spec => []TypeOK
<1>1. TypeInv => TypeOK
  BY DEF TypeInv
<1> QED BY TypeStart, TypeStep, <1>1, PTL DEF Spec

-----------------------------------------------------------------------------
(* What a step may do to a row.  Nothing is locked: whoever has read the    *)
(* row may save it, as it was then but for a reset and what is used.        *)

Saved(s) == \E o \in Owner : /\ s \in DOMAIN copy[o]
                             /\ row'[s].status = copy[o][s].status
                             /\ row'[s].period >= copy[o][s].period

Ended(s) == row'[s].period = row[s].period /\ row'[s].status # "active"

Written(s) == row'[s] = row[s] \/ Saved(s) \/ Ended(s)

LEMMA PeriodInt == \A rw \in Row : rw.period \in Int
BY DEF Row, Period

LEMMA PreConsumedWrites ==
    ASSUME TypeInv, NEW r \in Requests, pc[r] = "preCommit", PreConsumed(r), NEW t \in Subs
    PROVE  Written(t)
<1> DEFINE s == hold[r].sub
           refreshed(u) == Refreshed(u, copy[r][u], at[r])
<1>1. TypeOK /\ r \in Owner /\ at[r] \in Period /\ s \in DOMAIN copy[r]
  BY OwnerTypes DEF TypeInv, TypeOK, Known
<1>2. ASSUME NEW u \in DOMAIN copy[r]
      PROVE  /\ refreshed(u) \in Row
             /\ refreshed(u).status = copy[r][u].status
             /\ refreshed(u).period >= copy[r][u].period
  <2>1. u \in Subs /\ copy[r][u] \in Row
    BY <1>1, CopyRows
  <2> QED BY <1>1, <2>1, RefreshedType
<1>3. \/ t = s /\ row'[t] = [refreshed(s) EXCEPT !.used = @ + hold[r].amount]
      \/ t \in DOMAIN copy[r] /\ row'[t] = refreshed(t)
      \/ row'[t] = row[t]
  BY DEF PreConsumed, Charged, Passed
<1> HIDE DEF refreshed, s
<1>4. CASE t = s /\ row'[t] = [refreshed(s) EXCEPT !.used = @ + hold[r].amount]
  <2>1. row'[t].status = refreshed(s).status /\ row'[t].period = refreshed(s).period
    BY <1>1, <1>2, <1>4 DEF Row
  <2> QED BY <1>1, <1>2, <1>4, <2>1 DEF Written, Saved
<1>5. CASE t \in DOMAIN copy[r] /\ row'[t] = refreshed(t)
  BY <1>1, <1>2, <1>5 DEF Written, Saved
<1> QED BY <1>3, <1>4, <1>5 DEF Written

LEMMA PostDeltaWrites ==
    ASSUME TypeInv, NEW r \in Requests, NEW s \in DOMAIN copy[r], NEW n, PostDelta(r, s, n),
           NEW t \in Subs
    PROVE  Written(t)
<1>1. r \in Owner /\ s \in Subs /\ copy[r][s] \in Row
  BY OwnerTypes, CopyRows DEF TypeInv
<1>2. row' = [row EXCEPT ![s] = [copy[r][s] EXCEPT !.used = NewUse(r, s, n)]]
  BY DEF PostDelta
<1>3. row \in [Subs -> Row]
  BY DEF TypeInv, TypeOK
<1>4. CASE t = s
  <2>1. row'[t].status = copy[r][s].status /\ row'[t].period = copy[r][s].period
    BY <1>1, <1>2, <1>3, <1>4 DEF Row
  <2> QED BY <1>1, <1>4, <2>1, PeriodInt DEF Written, Saved
<1>5. CASE t # s
  BY <1>2, <1>3, <1>5 DEF Written
<1> QED BY <1>4, <1>5

LEMMA Writes ==
    ASSUME TypeInv, [Next]_vars, NEW t \in Subs
    PROVE  Written(t)
<1>1. CASE UNCHANGED row
  BY <1>1 DEF Written
<1>2. ASSUME NEW r \in Requests, Start(r) \/ Session(r) PROVE Written(t)
  <2>1. CASE Start(r) \/ Refused(r) \/ Decide(r) \/ BeginPreConsume(r) \/ BeginDelta(r)
             \/ BeginRefund(r) \/ BeginInner(r) \/ CommitOuter(r)
    BY <1>1, <2>1 DEF Start, Refused, Decide, BeginPreConsume, BeginDelta, BeginRefund,
                      BeginInner, CommitOuter, rows
  <2>2. CASE CommitPreConsume(r)
    BY <1>1, <2>2, PreConsumedWrites DEF CommitPreConsume, RollBack, rows
  <2>3. CASE CommitDelta(r)
    <3>1. pc[r] = "deltaCommit" => hold[r].sub \in DOMAIN copy[r]
      BY DEF TypeInv, Known
    <3> QED BY <1>1, <2>3, <3>1, PostDeltaWrites DEF CommitDelta, RollBack, rows
  <2>4. CASE CommitInner(r)
    <3>1. pc[r] = "innerCommit" => record[r].sub \in DOMAIN copy[r]
      BY DEF TypeInv, Known
    <3> QED BY <1>1, <2>4, <3>1, PostDeltaWrites DEF CommitInner
  <2> QED BY <1>2, <2>1, <2>2, <2>3, <2>4 DEF Session
<1>3. CASE Maintenance
  <2>1. CASE ListDue \/ \E s \in Subs : BeginReset(s)
    BY <1>1, <2>1 DEF ListDue, BeginReset, rows
  <2>2. ASSUME NEW s \in Subs, CommitReset(s) PROVE Written(t)
    <3>1. /\ TypeOK /\ Maintainer \in Owner /\ s \in DOMAIN copy[Maintainer]
          /\ at[Maintainer] \in Period
      BY <2>2, OwnerTypes, BoundTypes DEF TypeInv, TypeOK, TaskKnown, CommitReset
    <3>2. copy[Maintainer][s] \in Row
      BY <3>1, CopyRows
    <3>3. t # s => row'[t] = row[t]
      BY <2>2 DEF CommitReset, TypeInv, TypeOK
    <3>4. t = s => row'[t] = Refreshed(s, copy[Maintainer][s], at[Maintainer])
      BY <2>2 DEF CommitReset, TypeInv, TypeOK
    <3> QED BY <3>1, <3>2, <3>3, <3>4, RefreshedType DEF Written, Saved
  <2> QED BY <1>3, <2>1, <2>2 DEF Maintenance
<1>4. CASE Expire \/ \E s \in Subs : Cancel(s)
  <2>1. row[t] \in Row
    BY DEF TypeInv, TypeOK
  <2>2. \/ row'[t] = row[t]
        \/ row'[t] = [row[t] EXCEPT !.status = "expired"]
        \/ row'[t] = [row[t] EXCEPT !.status = "cancelled"]
    BY <1>4 DEF Expire, Cancel, TypeInv, TypeOK
  <2> QED BY <2>1, <2>2 DEF Written, Ended, Row
<1> QED BY <1>1, <1>2, <1>3, <1>4 DEF Next, Tick, Crash, vars, rows

(* A period that has begun is overwritten with an earlier one only by a     *)
(* transaction that read the row in that earlier period: by none that read  *)
(* the row since, and never by the maintenance task on its own.             *)
THEOREM ResetIsKept == Spec => ResetKept
<1>1. TypeInv /\ [Next]_vars
      => [\A s \in Subs :
            (\A o \in Owner : s \in DOMAIN copy[o] => copy[o][s].period >= row[s].period)
            => row'[s].period >= row[s].period]_vars
  <2> SUFFICES ASSUME TypeInv, [Next]_vars, NEW s \in Subs,
                      \A o \in Owner : s \in DOMAIN copy[o]
                                       => copy[o][s].period >= row[s].period
               PROVE  row'[s].period >= row[s].period
    OBVIOUS
  <2>1. row[s].period \in Int /\ row'[s].period \in Int
    BY TypeStep, PeriodInt DEF TypeInv, TypeOK
  <2>2. CASE Saved(s)
    <3>1. PICK o \in Owner : s \in DOMAIN copy[o] /\ row'[s].period >= copy[o][s].period
      BY <2>2 DEF Saved
    <3>2. copy[o][s].period \in Int /\ copy[o][s].period >= row[s].period
      BY <3>1, CopyRows, PeriodInt DEF TypeInv
    <3> QED BY <2>1, <3>1, <3>2
  <2>3. CASE ~Saved(s)
    BY <2>1, <2>3, Writes DEF Written, Ended
  <2> QED BY <2>2, <2>3
<1> QED BY TypeStart, TypeStep, <1>1, PTL DEF Spec, ResetKept

(* A subscription that has ended becomes active again only by a transaction *)
(* that read it before its end: by no request that comes later.             *)
THEOREM EndIsKept == Spec => EndedStaysEnded
<1>1. TypeInv /\ [Next]_vars
      => [\A s \in Subs :
            /\ row[s].status # "active"
            /\ \A o \in Owner : s \in DOMAIN copy[o] => copy[o][s].status # "active"
            => row'[s].status # "active"]_vars
  BY Writes DEF Written, Saved, Ended
<1> QED BY TypeStart, TypeStep, <1>1, PTL DEF Spec, EndedStaysEnded

-----------------------------------------------------------------------------
(* What a request posts.                                                    *)

LEMMA PeriodFinite == IsFiniteSet(Period)
BY FS_Interval, BoundTypes DEF Period

(* What an entry of the ledger becomes.                                     *)
LEMMA PostEntry ==
    ASSUME ledger \in [Requests -> [Subs -> [Period -> Int]]],
           NEW r \in Requests, NEW s \in Subs, NEW n \in Int, NEW p \in Period,
           Post(r, s, n, p)
    PROVE  /\ ledger'[r][s][p] = ledger[r][s][p] + n
           /\ \A t \in Period \ {p} : ledger'[r][s][t] = ledger[r][s][t]
           /\ \A u \in Subs \ {s} : ledger'[r][u] = ledger[r][u]
           /\ \A q \in Requests \ {r} : ledger'[q] = ledger[q]
<1> DEFINE f == [ledger[r][s] EXCEPT ![p] = @ + n]
           g == [ledger[r] EXCEPT ![s] = f]
<1>1. ledger[r][s] \in [Period -> Int] /\ ledger[r] \in [Subs -> [Period -> Int]]
  OBVIOUS
<1>2. f[p] = ledger[r][s][p] + n /\ \A t \in Period \ {p} : f[t] = ledger[r][s][t]
  BY <1>1
<1>3. g[s] = f /\ \A u \in Subs \ {s} : g[u] = ledger[r][u]
  BY <1>1
<1>4. ledger' = [ledger EXCEPT ![r] = g]
  BY DEF Post
<1> HIDE DEF f, g
<1>5. ledger'[r] = g /\ \A q \in Requests \ {r} : ledger'[q] = ledger[q]
  BY <1>4
<1> QED BY <1>2, <1>3, <1>5

(* A posting of n adds n to what its request has posted.                    *)
LEMMA PostAdds ==
    ASSUME ledger \in [Requests -> [Subs -> [Period -> Int]]],
           NEW r \in Requests, NEW s \in Subs, NEW n \in Int, NEW p \in Period,
           Post(r, s, n, p)
    PROVE  /\ Posted(r)' = Posted(r) + n
           /\ \A q \in Requests \ {r} : Posted(q)' = Posted(q)
<1>1. ledger' \in [Requests -> [Subs -> [Period -> Int]]]
  BY PostType
<1>2. IsFiniteSet(Subs) /\ IsFiniteSet(Period)
  BY SubsAssumption, PeriodFinite
<1> DEFINE f == [u \in Subs |-> SumFunction(ledger[r][u])]
           g == [u \in Subs |-> SumFunction(ledger'[r][u])]
<1>3. \A u \in Subs : ledger[r][u] \in [Period -> Int] /\ ledger'[r][u] \in [Period -> Int]
  BY <1>1
<1>4. f \in [Subs -> Int] /\ g \in [Subs -> Int]
  BY <1>2, <1>3, SumType
<1>5. \A u \in Subs \ {s} : g[u] = f[u]
  BY PostEntry
<1>6. g[s] = f[s] + n
  <2>1. /\ ledger'[r][s][p] = ledger[r][s][p] + n
        /\ \A t \in Period \ {p} : ledger'[r][s][t] = ledger[r][s][t]
    BY PostEntry
  <2>2. SumFunction(ledger'[r][s])
          = SumFunction(ledger[r][s]) + (ledger'[r][s][p] - ledger[r][s][p])
    <3>1. ledger[r][s] \in [Period -> Int] /\ ledger'[r][s] \in [Period -> Int]
      BY <1>3
    <3>2. \A h, i \in [Period -> Int] :
            (\A t \in Period \ {p} : i[t] = h[t])
            => SumFunction(i) = SumFunction(h) + (i[p] - h[p])
      BY <1>2, SumOneChanged
    <3> QED BY ONLY <2>1, <3>1, <3>2
  <2>3. ledger[r][s][p] \in Int /\ SumFunction(ledger[r][s]) \in Int
    BY <1>2, <1>3, SumType
  <2>4. f[s] = SumFunction(ledger[r][s]) /\ g[s] = SumFunction(ledger'[r][s])
    OBVIOUS
  <2> HIDE DEF f, g
  <2> QED BY <2>1, <2>2, <2>3, <2>4
<1>7. Posted(r) = SumFunction(f) /\ Posted(r)' = SumFunction(g)
  BY DEF Posted
<1> HIDE DEF f, g
<1>8. SumFunction(g) = SumFunction(f) + (g[s] - f[s])
  BY <1>2, <1>4, <1>5, SumOneChanged
<1>9. SumFunction(f) \in Int /\ f[s] \in Int
  BY <1>2, <1>4, SumType
<1>10. Posted(r)' = Posted(r) + n
  BY <1>6, <1>7, <1>8, <1>9
<1>11. \A q \in Requests \ {r} : Posted(q)' = Posted(q)
  BY PostEntry DEF Posted
<1> QED BY <1>10, <1>11

LEMMA PostedType ==
    ASSUME TypeOK, NEW r \in Requests
    PROVE  Posted(r) \in Int
<1>1. \A u \in Subs : ledger[r][u] \in [Period -> Int]
  BY DEF TypeOK
<1>2. [u \in Subs |-> SumFunction(ledger[r][u])] \in [Subs -> Int]
  BY <1>1, PeriodFinite, SumType
<1> QED BY <1>2, SubsAssumption, SumType DEF Posted

(* The books of a request.  Until its refund begins it has posted what its  *)
(* record says; a refund gives the amount of the record back, once per      *)
(* attempt, and every attempt but the last has met an error.                *)
Unrefunded == {"new", "pre", "preCommit", "refused", "held", "delta", "deltaCommit"}

Account(r) ==
    LET a == record[r].amount
        P == Posted(r)
    IN  /\ record[r].status = "none" => a = 0
        /\ pc[r] = "preCommit" => record[r].status = "none"
        /\ pc[r] \in Unrefunded => record[r].status # "refunded" /\ P = a
        /\ pc[r] \in {"held", "delta", "deltaCommit"} => hold[r].amount = a
        /\ pc[r] \in {"delta", "deltaCommit"} => ask[r] + hold[r].amount \in Costs
        /\ pc[r] \in {"refund", "inner", "innerCommit"} => P <= a /\ P + faults[r] * a >= a
        /\ pc[r] = "outerCommit" => P <= 0
        /\ P <= a \/ (P = ask[r] + hold[r].amount /\ P \in Costs)
        /\ P + faults[r] * a >= 0
        /\ record[r].status = "refunded" => P <= 0

AccountInv == \A r \in Requests : Account(r)

LEMMA AmountTypes ==
    ASSUME TypeOK, NEW r \in Requests
    PROVE  /\ record[r].amount \in Nat /\ hold[r].amount \in Nat
           /\ faults[r] \in Nat /\ ask[r] \in Int /\ Posted(r) \in Int
<1>1. record[r].amount \in Nat /\ ask[r] \in Int
  BY DEF TypeOK, Record
<1>2. hold[r].amount \in Nat
  BY DEF TypeOK, Hold, NoHold
<1>3. faults[r] \in Nat
  BY BoundTypes DEF TypeOK
<1> QED BY <1>1, <1>2, <1>3, PostedType

LEMMA OneMore ==
    ASSUME NEW m \in Nat, NEW n \in Nat
    PROVE  m * n \in Nat /\ (m + 1) * n = m * n + n /\ m * 0 = 0
OBVIOUS

LEMMA AccountStill ==
    ASSUME NEW q \in Requests, Account(q),
           pc'[q] = pc[q] \/ pc'[q] \in {"done", "dead"},
           record'[q] = record[q], faults'[q] = faults[q], hold'[q] = hold[q],
           ask'[q] = ask[q], Posted(q)' = Posted(q)
    PROVE  Account(q)'
BY DEF Account, Unrefunded

LEMMA PostedStill ==
    ASSUME NEW q \in Requests, ledger' = ledger
    PROVE  Posted(q)' = Posted(q)
BY DEF Posted

(* The steps of a request that post nothing.                                *)
LEMMA EarlyAccount ==
    ASSUME TypeInv, AccountInv, NEW r \in Requests,
           Start(r) \/ Refused(r) \/ Decide(r) \/ BeginPreConsume(r)
    PROVE  Account(r)'
<1>0. TypeOK /\ Account(r) /\ Known(r) /\ Posted(r)' = Posted(r)
  BY PostedStill DEF TypeInv, AccountInv, Start, Refused, Decide, BeginPreConsume
<1>1. CASE Start(r)
  BY <1>0, <1>1 DEF Start, rows, Account, Unrefunded, TypeOK
<1>2. CASE Refused(r)
  BY <1>0, <1>2 DEF Refused, rows, Account, Unrefunded, TypeOK
<1>3. CASE Decide(r)
  <2>1. PICK c \in Costs \cup {-1} :
          /\ \/ /\ c \in Costs /\ ask'[r] = c - hold[r].amount
                /\ pc'[r] = IF c = hold[r].amount THEN "done" ELSE "delta"
             \/ pc'[r] = "refund" /\ ask'[r] = ask[r]
    BY <1>0, <1>3 DEF Decide, TypeOK
  <2>2. /\ pc[r] = "held" /\ record'[r] = record[r] /\ hold'[r] = hold[r]
        /\ faults'[r] = faults[r]
    BY <1>3 DEF Decide, rows
  <2>3. c \in Costs => c \in Int
    BY BoundTypes
  <2> QED BY <1>0, <2>1, <2>2, <2>3, AmountTypes DEF Account, Unrefunded
<1>4. CASE BeginPreConsume(r)
  <2>1. /\ pc[r] = "pre" /\ record'[r] = record[r] /\ faults'[r] = faults[r]
        /\ ask'[r] = ask[r]
    BY <1>4 DEF BeginPreConsume, rows
  <2>2. \/ pc'[r] = "held" /\ hold'[r].amount = record[r].amount
        \/ pc'[r] \in {"preCommit", "refused"} /\ record[r].status = "none"
    BY <1>0, <1>4 DEF BeginPreConsume, TypeOK, RecordOf
  <2> QED BY <1>0, <2>1, <2>2, AmountTypes DEF Account, Unrefunded
<1> QED BY <1>1, <1>2, <1>3, <1>4

LEMMA FaultCounts ==
    ASSUME TypeOK, NEW r \in Requests, Fails(r)
    PROVE  /\ faults'[r] = faults[r] + 1
           /\ \A q \in Requests \ {r} : faults'[q] = faults[q]
BY DEF Fails, TypeOK

(* A record is written with the amount that is posted.                      *)
LEMMA CommitPreConsumeAccount ==
    ASSUME TypeInv, AccountInv, NEW r \in Requests, CommitPreConsume(r)
    PROVE  /\ Account(r)'
           /\ \A q \in Requests \ {r} : Posted(q)' = Posted(q)
<1>0. TypeOK /\ Account(r) /\ Known(r) /\ hold[r] \in Hold /\ pc[r] = "preCommit"
  BY DEF TypeInv, AccountInv, Known, CommitPreConsume
<1>1. ask'[r] = ask[r] /\ faults'[r] \in {faults[r], faults[r] + 1}
  BY <1>0, FaultCounts DEF CommitPreConsume
<1>2. record[r].status = "none" /\ record[r].amount = 0 /\ Posted(r) = 0
  BY <1>0 DEF Account, Unrefunded
<1>3. CASE PreConsumed(r)
  <2>1. /\ record'[r].status = "consumed" /\ record'[r].amount = hold[r].amount
    BY <1>0, <1>3 DEF PreConsumed, TypeOK
  <2>2. hold[r].sub \in Subs /\ hold[r].amount \in Nat
    BY <1>0 DEF Hold
  <2>3. Charged(r)[hold[r].sub].period \in Period
    BY <1>0, <2>2, ChargedType DEF TypeInv, Known, Row, CommitPreConsume
  <2>4. Post(r, hold[r].sub, hold[r].amount, Charged(r)[hold[r].sub].period)
    BY <1>3 DEF PreConsumed
  <2>5. /\ Posted(r)' = hold[r].amount
        /\ \A q \in Requests \ {r} : Posted(q)' = Posted(q)
    BY <1>0, <1>2, <2>2, <2>3, <2>4, PostAdds DEF TypeOK
  <2>6. \/ pc'[r] = "held" /\ hold'[r] = hold[r]
        \/ pc'[r] = "refused"
    BY <1>0, <1>3 DEF CommitPreConsume, RollBack, TypeOK
  <2>7. faults'[r] \in Nat /\ faults'[r] * hold[r].amount \in Nat
    BY <1>0, <1>1, <2>2, AmountTypes, OneMore
  <2> QED BY <1>1, <2>1, <2>2, <2>5, <2>6, <2>7 DEF Account, Unrefunded
<1>4. CASE RollBack(r, "refused") /\ ~PreConsumed(r)
  <2>1. /\ pc'[r] = "refused" /\ record'[r] = record[r]
        /\ \A q \in Requests : Posted(q)' = Posted(q)
    BY <1>0, <1>4, PostedStill DEF RollBack, TypeOK, rows
  <2>2. faults'[r] \in Nat /\ faults'[r] * 0 = 0
    BY <1>0, <1>1, AmountTypes, OneMore
  <2> QED BY <1>1, <1>2, <2>1, <2>2 DEF Account, Unrefunded
<1> QED BY <1>3, <1>4 DEF CommitPreConsume

(* A settlement posts the difference to the cost.                           *)
LEMMA DeltaAccount ==
    ASSUME TypeInv, AccountInv, NEW r \in Requests, BeginDelta(r) \/ CommitDelta(r)
    PROVE  /\ Account(r)'
           /\ \A q \in Requests \ {r} : Posted(q)' = Posted(q)
<1>0. TypeOK /\ Account(r) /\ Known(r)
  BY DEF TypeInv, AccountInv
<1>1. CASE BeginDelta(r)
  <2>1. \A q \in Requests : Posted(q)' = Posted(q)
    BY <1>1, PostedStill DEF BeginDelta, rows
  <2> QED BY <1>0, <1>1, <2>1 DEF BeginDelta, Account, Unrefunded, TypeOK, rows
<1>2. CASE CommitDelta(r)
  <2>1. /\ pc[r] = "deltaCommit" /\ pc'[r] = "done"
        /\ UNCHANGED <<record, ask, hold>>
        /\ RollBack(r, "done") \/ PostDelta(r, hold[r].sub, ask[r])
    BY <1>0, <1>2 DEF CommitDelta, RollBack, TypeOK, rows
  <2>2. faults'[r] \in {faults[r], faults[r] + 1}
    BY <1>0, <1>2, FaultCounts DEF CommitDelta
  <2>3. /\ record[r].status # "refunded" /\ Posted(r) = record[r].amount
        /\ hold[r].amount = record[r].amount /\ ask[r] + hold[r].amount \in Costs
        /\ record[r].status # "none"
    BY <1>0, <2>1 DEF Account, Unrefunded, Known
  <2>4. faults'[r] \in Nat /\ faults'[r] * record[r].amount \in Nat
    <3>1. faults'[r] \in Nat /\ record[r].amount \in Nat
      BY <1>0, <2>2, AmountTypes
    <3> QED BY <3>1, OneMore
  <2>5. CASE PostDelta(r, hold[r].sub, ask[r])
    <3>1. hold[r].sub \in Subs /\ copy[r][hold[r].sub].period \in Period
      BY <1>0, <2>1, OwnerTypes, CopyRows DEF Known, Row
    <3>2. /\ Posted(r)' = Posted(r) + ask[r]
          /\ \A q \in Requests \ {r} : Posted(q)' = Posted(q)
      BY <1>0, <2>5, <3>1, PostAdds DEF PostDelta, TypeOK
    <3>3. Posted(r)' = ask[r] + hold[r].amount /\ ask[r] + hold[r].amount \in Nat
      BY <1>0, <2>3, <3>2, AmountTypes, BoundTypes
    <3> QED BY <2>1, <2>3, <2>4, <3>2, <3>3 DEF Account, Unrefunded
  <2>6. CASE RollBack(r, "done")
    <3>1. \A q \in Requests : Posted(q)' = Posted(q)
      BY <2>6, PostedStill DEF RollBack
    <3> QED BY <1>0, <2>1, <2>3, <2>4, <3>1, AmountTypes DEF Account, Unrefunded
  <2> QED BY <2>1, <2>5, <2>6
<1> QED BY <1>1, <1>2

(* The refund: what the inner transaction gives back is in the record, and  *)
(* an attempt that is repeated has met an error.                            *)
LEMMA RefundAccount ==
    ASSUME TypeInv, AccountInv, NEW r \in Requests, BeginRefund(r) \/ BeginInner(r)
    PROVE  Account(r)'
<1>0. TypeOK /\ Account(r) /\ Posted(r)' = Posted(r)
  BY PostedStill DEF TypeInv, AccountInv, BeginRefund, BeginInner
<1>1. CASE BeginRefund(r)
  <2>1. /\ pc[r] = "refund" /\ pc'[r] \in {"done", "inner"}
        /\ UNCHANGED <<record, faults, hold, ask>>
    BY <1>0, <1>1 DEF BeginRefund, rows, TypeOK
  <2> QED BY <1>0, <2>1 DEF Account, Unrefunded
<1>2. CASE BeginInner(r)
  <2>1. /\ pc[r] = "inner" /\ pc'[r] = "innerCommit"
        /\ UNCHANGED <<record, faults, hold, ask>>
    BY <1>0, <1>2 DEF BeginInner, TypeOK, rows
  <2> QED BY <1>0, <2>1 DEF Account, Unrefunded
<1> QED BY <1>1, <1>2

LEMMA CommitInnerAccount ==
    ASSUME TypeInv, AccountInv, NEW r \in Requests, CommitInner(r)
    PROVE  /\ Account(r)'
           /\ \A q \in Requests \ {r} : Posted(q)' = Posted(q)
<1>0. TypeOK /\ Account(r) /\ Known(r) /\ pc[r] = "innerCommit"
  BY DEF TypeInv, AccountInv, CommitInner
<1>1. UNCHANGED <<record, ask, hold>>
  BY DEF CommitInner
<1> DEFINE a == record[r].amount
           f == faults[r]
<1>2. /\ Posted(r) <= a /\ Posted(r) + f * a >= a
      /\ record[r].status = "refunded" => Posted(r) <= 0
      /\ record[r].status # "none"
  BY <1>0 DEF Account, Known
<1>3. /\ Posted(r) \in Int /\ a \in Nat /\ f \in Nat
      /\ f * a \in Nat /\ (f + 1) * a = f * a + a
  BY <1>0, AmountTypes, OneMore
<1>4. /\ \/ PostDelta(r, record[r].sub, -a)
         \/ UNCHANGED ledger /\ Fails(r)
      /\ \/ pc'[r] = "outerCommit" /\ faults'[r] = f /\ PostDelta(r, record[r].sub, -a)
         \/ pc'[r] \in {"refund", "done"} /\ faults'[r] = f + 1
  BY <1>0, TryAgainTypes, FaultCounts DEF CommitInner, GivenBack, TypeOK
<1>5. CASE PostDelta(r, record[r].sub, -a)
  <2>1. record[r].sub \in Subs /\ copy[r][record[r].sub].period \in Period
    BY <1>0, OwnerTypes, CopyRows DEF Known, Row
  <2>2. -a \in Int
    BY <1>3
  <2>3. /\ Posted(r)' = Posted(r) + (-a)
        /\ \A q \in Requests \ {r} : Posted(q)' = Posted(q)
    BY <1>0, <1>5, <2>1, <2>2, PostAdds DEF PostDelta, TypeOK
  <2>4. Posted(r)' <= 0 /\ Posted(r)' <= a /\ Posted(r)' + f * a >= 0
        /\ Posted(r)' + (f + 1) * a >= a /\ Posted(r)' + (f + 1) * a >= 0
    BY <1>2, <1>3, <2>3
  <2>5. Account(r)'
    BY <1>1, <1>2, <1>4, <2>4 DEF Account, Unrefunded
  <2> QED BY <2>3, <2>5
<1>6. CASE UNCHANGED ledger /\ ~PostDelta(r, record[r].sub, -a)
  <2>1. \A q \in Requests : Posted(q)' = Posted(q)
    BY <1>6, PostedStill
  <2>2. Posted(r) + (f + 1) * a >= a /\ Posted(r) + (f + 1) * a >= 0
    BY <1>2, <1>3
  <2>3. pc'[r] \in {"refund", "done"} /\ faults'[r] = f + 1
    BY <1>4, <1>6
  <2>4. Account(r)'
    BY <1>1, <1>2, <2>1, <2>2, <2>3 DEF Account, Unrefunded
  <2> QED BY <2>1, <2>4
<1> QED BY <1>4, <1>5, <1>6

LEMMA CommitOuterAccount ==
    ASSUME TypeInv, AccountInv, NEW r \in Requests, CommitOuter(r)
    PROVE  Account(r)'
<1>0. TypeOK /\ Account(r) /\ Known(r) /\ pc[r] = "outerCommit"
  BY DEF TypeInv, AccountInv, CommitOuter
<1>1. UNCHANGED <<ask, hold>> /\ Posted(r)' = Posted(r)
  BY PostedStill DEF CommitOuter
<1> DEFINE a == record[r].amount
           f == faults[r]
<1>2. Posted(r) <= 0 /\ Posted(r) + f * a >= 0 /\ record[r].status # "none"
  BY <1>0 DEF Account, Known
<1>3. /\ Posted(r) \in Int /\ a \in Nat /\ f \in Nat
      /\ f * a \in Nat /\ (f + 1) * a = f * a + a
  BY <1>0, AmountTypes, OneMore
<1>4. /\ pc'[r] \in {"done", "refund"}
      /\ faults'[r] = f + 1 \/ (faults'[r] = f /\ pc'[r] = "done")
  BY <1>0, TryAgainTypes, FaultCounts DEF CommitOuter, TypeOK
<1>5. record'[r].amount = a /\ record'[r].status # "none"
  BY <1>0, <1>2 DEF CommitOuter, TypeOK, Record
<1>6. Posted(r) + (f + 1) * a >= a /\ Posted(r) + (f + 1) * a >= 0 /\ Posted(r) <= a
  BY <1>2, <1>3
<1> QED BY <1>1, <1>2, <1>4, <1>5, <1>6 DEF Account, Unrefunded

(* A step of a request leaves what belongs to the others alone.             *)
LEMMA OnlyItself ==
    ASSUME TypeOK, NEW r \in Requests, Start(r) \/ Session(r), NEW q \in Requests, q # r
    PROVE  /\ pc'[q] = pc[q] /\ record'[q] = record[q] /\ faults'[q] = faults[q]
           /\ hold'[q] = hold[q] /\ ask'[q] = ask[q] /\ at'[q] = at[q]
<1>1. CASE Start(r) \/ Refused(r) \/ Decide(r)
  BY <1>1, OwnerTypes DEF Start, Refused, Decide, TypeOK, rows
<1>2. CASE BeginPreConsume(r)
  BY <1>2 DEF BeginPreConsume, TypeOK, rows
<1>3. CASE CommitPreConsume(r)
  BY <1>3 DEF CommitPreConsume, PreConsumed, RollBack, Fails, TypeOK, rows
<1>4. CASE BeginDelta(r) \/ CommitDelta(r)
  BY <1>4 DEF BeginDelta, CommitDelta, RollBack, Fails, TypeOK, rows
<1>5. CASE BeginRefund(r) \/ BeginInner(r)
  BY <1>5 DEF BeginRefund, BeginInner, TypeOK, rows
<1>6. CASE CommitInner(r) \/ CommitOuter(r)
  BY <1>6 DEF CommitInner, CommitOuter, TryAgain, Fails, TypeOK
<1> QED BY <1>1, <1>2, <1>3, <1>4, <1>5, <1>6 DEF Session

(* A step of r changes the books of no other request.                       *)
LEMMA OthersAccount ==
    ASSUME TypeInv, AccountInv, NEW r \in Requests, Start(r) \/ Session(r), Account(r)',
           \A q \in Requests \ {r} : Posted(q)' = Posted(q)
    PROVE  AccountInv'
<1> SUFFICES ASSUME NEW q \in Requests, q # r PROVE Account(q)'
  BY DEF AccountInv
<1>1. Account(q)
  BY DEF AccountInv
<1> QED BY <1>1, OnlyItself, AccountStill DEF TypeInv

LEMMA StartPosted ==
    ASSUME Init, NEW r \in Requests
    PROVE  Posted(r) = 0
<1>1. [p \in Period |-> 0] \in [Period -> Int] /\ IsFiniteSet(Period)
  BY PeriodFinite
<1>2. SumFunction([p \in Period |-> 0]) = 0
  BY <1>1, SumOfNothing
<1>3. [s \in Subs |-> 0] \in [Subs -> Int] /\ IsFiniteSet(Subs)
  BY SubsAssumption
<1>4. SumFunction([s \in Subs |-> 0]) = 0
  BY <1>3, SumOfNothing
<1>5. [s \in Subs |-> SumFunction(ledger[r][s])] = [s \in Subs |-> 0]
  BY <1>2 DEF Init
<1> QED BY <1>4, <1>5 DEF Posted

LEMMA AccountStart == Init => AccountInv
<1> SUFFICES ASSUME Init, NEW r \in Requests PROVE Account(r)
  BY DEF AccountInv
<1>1. /\ record[r].status = "none" /\ record[r].amount = 0 /\ pc[r] = "new"
      /\ faults[r] = 0
  BY DEF Init
<1> QED BY <1>1, StartPosted DEF Account, Unrefunded

LEMMA AccountStep == TypeInv /\ AccountInv /\ [Next]_vars => AccountInv'
<1> SUFFICES ASSUME TypeInv, AccountInv, [Next]_vars PROVE AccountInv'
  OBVIOUS
<1>1. CASE UNCHANGED vars
  BY <1>1, PostedStill, AccountStill DEF AccountInv, vars, rows
<1>2. ASSUME NEW r \in Requests, Start(r) \/ Session(r) PROVE AccountInv'
  <2>1. CASE Start(r) \/ Refused(r) \/ Decide(r) \/ BeginPreConsume(r)
    <3>1. ledger' = ledger
      BY <2>1 DEF Start, Refused, Decide, BeginPreConsume
    <3> QED BY <1>2, <2>1, <3>1, EarlyAccount, PostedStill, OthersAccount
  <2>2. CASE CommitPreConsume(r)
    BY <1>2, <2>2, CommitPreConsumeAccount, OthersAccount
  <2>3. CASE BeginDelta(r) \/ CommitDelta(r)
    BY <1>2, <2>3, DeltaAccount, OthersAccount
  <2>4. CASE BeginRefund(r) \/ BeginInner(r)
    <3>1. ledger' = ledger
      BY <2>4 DEF BeginRefund, BeginInner
    <3> QED BY <1>2, <2>4, <3>1, RefundAccount, PostedStill, OthersAccount
  <2>5. CASE CommitInner(r)
    BY <1>2, <2>5, CommitInnerAccount, OthersAccount
  <2>6. CASE CommitOuter(r)
    <3>1. ledger' = ledger
      BY <2>6 DEF CommitOuter
    <3> QED BY <1>2, <2>6, <3>1, CommitOuterAccount, PostedStill, OthersAccount
  <2> QED BY <1>2, <2>1, <2>2, <2>3, <2>4, <2>5, <2>6 DEF Session
<1>3. CASE Maintenance \/ Expire \/ (\E s \in Subs : Cancel(s)) \/ Tick
  <2>1. UNCHANGED <<pc, record, faults, hold, ask, ledger>>
    BY <1>3 DEF Maintenance, ListDue, BeginReset, CommitReset, Expire, Cancel, Tick, rows
  <2> QED BY <2>1, PostedStill, AccountStill DEF AccountInv
<1>4. CASE Crash
  <2>1. UNCHANGED <<record, faults, hold, ask, ledger>>
    BY <1>4 DEF Crash, rows
  <2>2. \A q \in Requests : pc'[q] = pc[q] \/ pc'[q] = "dead"
    BY <1>4 DEF Crash
  <2> QED BY <2>1, <2>2, PostedStill, AccountStill DEF AccountInv
<1> QED BY <1>1, <1>2, <1>3, <1>4 DEF Next

(* Whatever its commits report and however often it is submitted, a request *)
(* has posted no more than one pre-consumption, or what it was settled at.  *)
THEOREM OneCharge == Spec => []ChargedOnce
<1>1. TypeInv /\ AccountInv => ChargedOnce
  <2> SUFFICES ASSUME TypeOK, AccountInv, NEW r \in Requests
               PROVE  Posted(r) <= Max({record[r].amount}
                                       \cup {c \in Costs : c = ask[r] + hold[r].amount})
    BY DEF TypeInv, ChargedOnce
  <2> DEFINE a == record[r].amount
             b == ask[r] + hold[r].amount
  <2>1. a \in Int /\ b \in Int /\ Posted(r) \in Int
    BY AmountTypes
  <2>2. Posted(r) <= a \/ (Posted(r) = b /\ b \in Costs)
    BY DEF AccountInv, Account
  <2> HIDE DEF a, b
  <2>3. CASE b \in Costs
    <3>1. {a} \cup {c \in Costs : c = b} = {a, b}
      BY <2>3
    <3>2. a <= Max({a, b}) /\ b <= Max({a, b}) /\ Max({a, b}) \in {a, b}
      <4>1. \E x \in {a, b} : \A y \in {a, b} : x >= y
        BY <2>1
      <4> QED BY <2>1, <4>1 DEF Max
    <3> QED BY <2>1, <2>2, <3>1, <3>2 DEF a, b
  <2>4. CASE b \notin Costs
    <3>1. {a} \cup {c \in Costs : c = b} = {a}
      BY <2>4
    <3>2. Max({a}) = a
      BY <2>1 DEF Max
    <3> QED BY <2>1, <2>2, <2>4, <3>1, <3>2 DEF a, b
  <2> QED BY <2>3, <2>4
<1> QED BY TypeStart, TypeStep, AccountStart, AccountStep, <1>1, PTL DEF Spec

(* A request is given back more than it was charged only by attempts that   *)
(* followed an error, and then the amount of its record once per error.     *)
THEOREM OverRefundBounded == Spec => []OverRefundNeedsFault
<1>1. AccountInv => OverRefundNeedsFault
  BY DEF AccountInv, Account, OverRefundNeedsFault
<1> QED BY TypeStart, TypeStep, AccountStart, AccountStep, <1>1, PTL DEF Spec

(* A record that is marked as refunded stands for a refund that has been    *)
(* given: no crash between the two transactions loses it.                   *)
THEOREM RefundsReturned == Spec => []MarkedMeansReturned
<1>1. AccountInv => MarkedMeansReturned
  BY DEF AccountInv, Account, MarkedMeansReturned
<1> QED BY TypeStart, TypeStep, AccountStart, AccountStep, <1>1, PTL DEF Spec

-----------------------------------------------------------------------------
(* Use and postings.                                                        *)

(* No posting is of nothing: requests ask for something, and settle only a  *)
(* difference.                                                              *)
Nonzero(r) ==
    /\ pc[r] \in {"new", "pre", "preCommit", "refused"} => ask[r] > 0
    /\ pc[r] = "preCommit" => hold[r].amount > 0
    /\ pc[r] \in {"delta", "deltaCommit"} => ask[r] # 0
    /\ record[r].status # "none" => record[r].amount > 0

AmountsInv == \A r \in Requests : Nonzero(r)

LEMMA NonzeroStill ==
    ASSUME NEW q \in Requests, Nonzero(q), pc'[q] = pc[q] \/ pc'[q] = "dead",
           record'[q] = record[q], hold'[q] = hold[q], ask'[q] = ask[q]
    PROVE  Nonzero(q)'
BY DEF Nonzero

LEMMA AmountsStart == Init => AmountsInv
<1> SUFFICES ASSUME Init, NEW r \in Requests PROVE Nonzero(r)
  BY DEF AmountsInv
<1>1. ask[r] \in Nat \ {0}
  BY AmountsAssumption DEF Init
<1>2. ask[r] > 0 /\ pc[r] = "new" /\ record[r].status = "none"
  BY <1>1 DEF Init
<1> QED BY <1>2 DEF Nonzero

LEMMA AmountsStep == TypeInv /\ AmountsInv /\ [Next]_vars => AmountsInv'
<1> SUFFICES ASSUME TypeInv, AmountsInv, [Next]_vars PROVE AmountsInv'
  OBVIOUS
<1>0. TypeOK
  BY DEF TypeInv
<1>1. ASSUME NEW r \in Requests, Start(r) \/ Session(r) PROVE AmountsInv'
  <2>1. \A q \in Requests \ {r} : Nonzero(q)'
    BY <1>0, <1>1, OnlyItself, NonzeroStill DEF AmountsInv
  <2>2. Nonzero(r) /\ Known(r)
    BY DEF AmountsInv, TypeInv
  <2>3. Nonzero(r)'
    <3>1. CASE Start(r) \/ Refused(r)
      BY <1>0, <2>2, <3>1 DEF Start, Refused, Nonzero, TypeOK, rows
    <3>2. CASE Decide(r)
      <4>1. hold[r].amount \in Int /\ Costs \subseteq Int
        BY <1>0, AmountTypes, BoundTypes
      <4>2. /\ pc'[r] \in {"done", "delta", "refund"} /\ record'[r] = record[r]
            /\ pc'[r] = "delta" => \E c \in Costs : /\ ask'[r] = c - hold[r].amount
                                                    /\ c # hold[r].amount
        BY <1>0, <3>2 DEF Decide, TypeOK, rows
      <4>3. pc'[r] = "delta" => ask'[r] # 0
        <5> SUFFICES ASSUME pc'[r] = "delta" PROVE ask'[r] # 0
          OBVIOUS
        <5>1. PICK c \in Costs : ask'[r] = c - hold[r].amount /\ c # hold[r].amount
          BY <4>2
        <5> QED BY <4>1, <5>1
      <4> QED BY <2>2, <4>2, <4>3 DEF Nonzero
    <3>3. CASE BeginPreConsume(r)
      BY <1>0, <2>2, <3>3 DEF BeginPreConsume, Nonzero, RecordOf, TypeOK, rows
    <3>4. CASE CommitPreConsume(r)
      <4>1. /\ pc[r] = "preCommit" /\ pc'[r] \in {"held", "refused"} /\ ask'[r] = ask[r]
            /\ record'[r] = record[r] \/ record'[r].amount = hold[r].amount
        BY <1>0, <3>4 DEF CommitPreConsume, PreConsumed, RollBack, TypeOK, rows
      <4> QED BY <2>2, <4>1 DEF Nonzero
    <3>5. CASE BeginDelta(r) \/ CommitDelta(r)
      BY <1>0, <2>2, <3>5 DEF BeginDelta, CommitDelta, RollBack, Nonzero, TypeOK, rows
    <3>6. CASE BeginRefund(r) \/ BeginInner(r)
      BY <1>0, <2>2, <3>6 DEF BeginRefund, BeginInner, Nonzero, TypeOK, rows
    <3>7. CASE CommitInner(r)
      <4>1. pc'[r] \in {"outerCommit", "refund", "done"} /\ UNCHANGED record
        BY <1>0, <3>7, TryAgainTypes DEF CommitInner, TypeOK
      <4> QED BY <2>2, <4>1 DEF Nonzero
    <3>8. CASE CommitOuter(r)
      <4>1. pc'[r] \in {"refund", "done"}
        BY <1>0, <3>8, TryAgainTypes DEF CommitOuter, TypeOK
      <4>2. record'[r].amount = record[r].amount /\ record[r].status # "none"
        BY <1>0, <2>2, <3>8 DEF CommitOuter, Known, TypeOK, Record
      <4> QED BY <2>2, <4>1, <4>2 DEF Nonzero
    <3> QED BY <1>1, <3>1, <3>2, <3>3, <3>4, <3>5, <3>6, <3>7, <3>8 DEF Session
  <2> QED BY <2>1, <2>3 DEF AmountsInv
<1>2. CASE ~ \E r \in Requests : Start(r) \/ Session(r)
  <2>1. UNCHANGED <<record, hold, ask>> /\ \A q \in Requests : pc'[q] = pc[q] \/ pc'[q] = "dead"
    BY <1>2 DEF Next, Maintenance, ListDue, BeginReset, CommitReset, Expire, Cancel, Tick,
                Crash, vars, rows
  <2> QED BY <2>1, NonzeroStill DEF AmountsInv
<1> QED BY <1>1, <1>2

(* Nothing is posted to periods to come, and what the row says is used lies *)
(* between the net and the gross postings: as long as no change of the row  *)
(* is lost.  It is within its total in any case.                            *)
Books(s) ==
    /\ \A r \in Requests : \A p \in Period : p > row[s].period => ledger[r][s][p] = 0
    /\ NetUse(s) <= row[s].used /\ row[s].used <= GrossUse(s)

RowInv(s) == /\ Total[s] > 0 => row[s].used <= Total[s]
             /\ s \notin stale => Books(s)

(* So is what a transaction has read.                                       *)
Within(o) == \A s \in DOMAIN copy[o] : Total[s] > 0 => copy[o][s].used <= Total[s]

(* No posting of r is negative before its refund, and what it is about to   *)
(* pre-consume fits the row it has chosen, as it has read it.               *)
Unspent(r) ==
    pc[r] \in Unrefunded => \A s \in Subs : \A p \in Period : ledger[r][s][p] >= 0

Fit(r) ==
    LET s == hold[r].sub
    IN  pc[r] = "preCommit" /\ Total[s] > 0
        => Refreshed(s, copy[r][s], at[r]).used + hold[r].amount <= Total[s]

UseInv == /\ \A s \in Subs : RowInv(s)
          /\ \A o \in Owner : Within(o)
          /\ \A r \in Requests : Unspent(r) /\ Fit(r)

(* What a step may do to a row and to the postings to it: nothing; begin a  *)
(* period; or post n for r to the period the row is in afterwards; unless   *)
(* a change of the row is lost in it, or was before.                        *)
SameLedger(s) == \A r \in Requests : ledger'[r][s] = ledger[r][s]

SameUse(s) == /\ row'[s].used = row[s].used /\ row'[s].period = row[s].period
              /\ SameLedger(s)

NewPeriod(s) == /\ SameLedger(s)
                /\ s \notin stale' => row'[s].used = 0 /\ row'[s].period > row[s].period

PostAt(r, s, n) ==
    /\ \E p \in Period : Post(r, s, n, p) /\ (s \notin stale' => p = row'[s].period)
    /\ n > 0 => \A p \in Period : ledger[r][s][p] >= 0
    /\ s \notin stale' =>
          \/ /\ row'[s].period = row[s].period
             /\ row'[s].used = IF row[s].used + n < 0 THEN 0 ELSE row[s].used + n
          \/ row'[s].period > row[s].period /\ row'[s].used = n

(* And what it may do to all of them: one amount is posted at most, and     *)
(* several periods begin only in a step that posts.                         *)
RowsMove ==
    /\ stale \subseteq stale'
    /\ \A s \in Subs : Total[s] > 0 => row'[s].used <= Total[s]
    /\ \/ \A s \in Subs : SameUse(s)
       \/ \E s \in Subs : NewPeriod(s) /\ \A t \in Subs \ {s} : SameUse(t)
       \/ \E r \in Requests, s \in Subs, n \in Int \ {0} :
             PostAt(r, s, n) /\ \A t \in Subs \ {s} : SameUse(t) \/ NewPeriod(t)

(* The entries of one period.                                               *)
LEMMA NowTypes ==
    ASSUME NEW s \in Subs, NEW p \in Period, NEW l \in [Requests -> [Subs -> [Period -> Int]]]
    PROVE  \A r \in Requests : l[r][s][p] \in Int /\ Positive(l[r][s][p]) \in Int
<1>1. \A r \in Requests : l[r][s][p] \in Int
  OBVIOUS
<1> QED BY <1>1 DEF Positive

LEMMA PositiveFacts ==
    ASSUME NEW a \in Int, NEW n \in Int
    PROVE  /\ Positive(a) \in Int /\ Positive(a) >= 0
           /\ Positive(0) = 0
           /\ n <= 0 => Positive(a + n) - Positive(a) >= n
           /\ a >= 0 /\ n >= 0 => Positive(a + n) - Positive(a) = n
BY DEF Positive

LEMMA RowTypes ==
    ASSUME TypeOK, NEW s \in Subs
    PROVE  row[s].used \in Nat /\ row[s].period \in Period /\ row[s].period \in Int
BY BoundTypes DEF TypeOK, Row, Period

(* A row that keeps its use and its period.                                 *)
LEMMA SameUseKeeps ==
    ASSUME NEW s \in Subs, Books(s), SameUse(s)
    PROVE  Books(s)'
<1>1. NetUse(s)' = NetUse(s) /\ GrossUse(s)' = GrossUse(s)
  BY DEF SameUse, SameLedger, NetUse, GrossUse, Now
<1> QED BY <1>1 DEF Books, SameUse, SameLedger

(* A row that begins a period nothing has been posted to.                   *)
LEMMA NewPeriodKeeps ==
    ASSUME TypeOK, TypeOK', NEW s \in Subs, s \notin stale', Books(s), NewPeriod(s)
    PROVE  Books(s)'
<1> DEFINE p == row'[s].period
<1>1. p \in Period /\ p > row[s].period
  BY BoundTypes DEF TypeOK, Row, NewPeriod
<1>2. \A r \in Requests : ledger'[r][s][p] = 0
  BY <1>1 DEF Books, NewPeriod, SameLedger
<1>3. \A r \in Requests : Positive(ledger'[r][s][p]) = 0
  BY <1>2 DEF Positive
<1>4. NetUse(s)' = 0 /\ GrossUse(s)' = 0
  <2> DEFINE f == [r \in Requests |-> ledger'[r][s][p]]
             g == [r \in Requests |-> Positive(ledger'[r][s][p])]
  <2>1. f \in [Requests -> Int] /\ g \in [Requests -> Int]
    <3>1. ledger' \in [Requests -> [Subs -> [Period -> Int]]]
      BY DEF TypeOK
    <3>2. \A r \in Requests : ledger'[r][s][p] \in Int /\ Positive(ledger'[r][s][p]) \in Int
      BY <1>1, <3>1, NowTypes
    <3> HIDE DEF p
    <3> QED BY <3>2
  <2>2. (\A r \in Requests : f[r] = 0) /\ (\A r \in Requests : g[r] = 0)
    BY <1>2, <1>3
  <2>3. NetUse(s)' = SumFunction(f) /\ GrossUse(s)' = SumFunction(g)
    BY DEF NetUse, GrossUse, Now
  <2> HIDE DEF f, g
  <2> QED BY <2>1, <2>2, <2>3, SumOfNothing, RequestsAssumption
<1>5. \A r \in Requests : \A q \in Period : q > p => ledger'[r][s][q] = 0
  <2> TAKE r \in Requests
  <2> TAKE q \in Period
  <2>1. q > p => q > row[s].period
    BY <1>1, RowTypes, BoundTypes DEF Period
  <2> QED BY <2>1 DEF Books, NewPeriod, SameLedger
<1> QED BY <1>4, <1>5 DEF Books, NewPeriod

(* A sum over the requests of which one contributes differently.            *)
LEMMA OneRequest ==
    ASSUME NEW f \in [Requests -> Int], NEW g \in [Requests -> Int], NEW r \in Requests,
           \A q \in Requests \ {r} : g[q] = f[q]
    PROVE  /\ SumFunction(g) = SumFunction(f) + (g[r] - f[r])
           /\ SumFunction(f) \in Int /\ SumFunction(g) \in Int
           /\ (\A q \in Requests : f[q] = 0) => SumFunction(f) = 0
BY SumOneChanged, SumOfNothing, SumType, RequestsAssumption

(* No net use is above the gross use, which is not negative.                *)
LEMMA GrossNotNegative ==
    ASSUME NEW g \in [Requests -> Int], \A r \in Requests : g[r] >= 0
    PROVE  SumFunction(g) >= 0
<1> DEFINE z == [r \in Requests |-> 0]
<1>1. z \in [Requests -> Int] /\ (\A r \in Requests : z[r] = 0)
  OBVIOUS
<1>2. \A r \in Requests : z[r] <= g[r]
  OBVIOUS
<1> HIDE DEF z
<1>3. SumFunction(z) = 0 /\ SumFunction(z) <= SumFunction(g)
  BY <1>1, <1>2, SumOfNothing, SumUpTo, RequestsAssumption
<1>4. SumFunction(g) \in Int
  BY SumType, RequestsAssumption
<1> QED BY <1>3, <1>4

(* A posting, in the period the row is in or in the one it begins.          *)
LEMMA PostKeeps ==
    ASSUME TypeOK, TypeOK', NEW s \in Subs, s \notin stale', Books(s),
           NEW r \in Requests, NEW n \in Int, PostAt(r, s, n)
    PROVE  Books(s)'
<1> DEFINE p == row'[s].period
           f == [q \in Requests |-> ledger[q][s][p]]
           g == [q \in Requests |-> ledger'[q][s][p]]
           F == [q \in Requests |-> Positive(ledger[q][s][p])]
           G == [q \in Requests |-> Positive(ledger'[q][s][p])]
           a == ledger[r][s][p]
           u == row[s].used
<1>1. /\ p \in Period /\ p \in Int /\ u \in Nat
      /\ row[s].period \in Period /\ row[s].period \in Int
  <2>1. row'[s] \in Row
    BY DEF TypeOK
  <2>2. p \in Period
    BY <2>1 DEF Row
  <2>3. p \in Int
    BY <2>2, BoundTypes DEF Period
  <2> QED BY <2>2, <2>3, RowTypes
<1>2. /\ f \in [Requests -> Int] /\ g \in [Requests -> Int]
      /\ F \in [Requests -> Int] /\ G \in [Requests -> Int] /\ a \in Int
  <2>1. /\ ledger \in [Requests -> [Subs -> [Period -> Int]]]
        /\ ledger' \in [Requests -> [Subs -> [Period -> Int]]]
    BY DEF TypeOK
  <2> HIDE DEF p
  <2>2. \A q \in Requests :
           /\ ledger[q][s][p] \in Int /\ Positive(ledger[q][s][p]) \in Int
           /\ ledger'[q][s][p] \in Int /\ Positive(ledger'[q][s][p]) \in Int
    BY <1>1, <2>1, NowTypes
  <2> QED BY <2>2
<1>3. /\ ledger'[r][s][p] = a + n
      /\ \A t \in Period \ {p} : ledger'[r][s][t] = ledger[r][s][t]
      /\ \A q \in Requests \ {r} : ledger'[q] = ledger[q]
  BY <1>1, PostEntry DEF PostAt, TypeOK
<1>4. /\ f[r] = a /\ g[r] = a + n
      /\ F[r] = Positive(a) /\ G[r] = Positive(a + n)
      /\ \A q \in Requests \ {r} : g[q] = f[q] /\ G[q] = F[q]
  BY <1>3
<1>5. NetUse(s)' = SumFunction(g) /\ GrossUse(s)' = SumFunction(G)
  BY DEF NetUse, GrossUse, Now
<1>6. \A q \in Requests : G[q] >= 0 /\ F[q] >= 0
  BY <1>1, NowTypes, PositiveFacts DEF TypeOK
<1>7. p = row[s].period => NetUse(s) = SumFunction(f) /\ GrossUse(s) = SumFunction(F)
  BY DEF NetUse, GrossUse, Now
<1>8. p > row[s].period => \A q \in Requests : f[q] = 0 /\ F[q] = 0
  BY <1>1 DEF Books, Positive
<1>9. p > row[s].period => a = 0
  BY <1>1 DEF Books
<1>10. \A q \in Requests : \A t \in Period : t > p => ledger'[q][s][t] = 0
  <2> TAKE q \in Requests
  <2> TAKE t \in Period
  <2>0. t \in Int
    BY BoundTypes DEF Period
  <2>1. t > p => t > row[s].period /\ t # p
    BY <1>1, <2>0 DEF PostAt
  <2>2. ledger'[q][s][t] = ledger[q][s][t] \/ t = p
    BY <1>3
  <2> QED BY <2>1, <2>2 DEF Books
<1>11. /\ n > 0 => a >= 0
       /\ \/ p = row[s].period /\ row'[s].used = IF u + n < 0 THEN 0 ELSE u + n
          \/ p > row[s].period /\ row'[s].used = n
  BY <1>1 DEF PostAt
<1>12. row'[s].used \in Nat
  BY DEF TypeOK, Row
<1>13. p = row[s].period => NetUse(s) <= u /\ u <= GrossUse(s)
  BY DEF Books
<1> HIDE DEF f, g, F, G, p, a, u
<1>14. /\ SumFunction(g) = SumFunction(f) + n
       /\ SumFunction(f) \in Int /\ SumFunction(g) \in Int
       /\ p > row[s].period => SumFunction(f) = 0
  <2>1. /\ SumFunction(g) = SumFunction(f) + (g[r] - f[r])
        /\ SumFunction(f) \in Int /\ SumFunction(g) \in Int
        /\ (\A q \in Requests : f[q] = 0) => SumFunction(f) = 0
    BY <1>2, <1>4, OneRequest
  <2> QED BY <1>2, <1>4, <1>8, <2>1
<1>15. /\ SumFunction(G) = SumFunction(F) + (Positive(a + n) - Positive(a))
       /\ SumFunction(F) \in Int /\ SumFunction(G) \in Int /\ SumFunction(G) >= 0
       /\ p > row[s].period => SumFunction(F) = 0
  BY <1>2, <1>4, <1>6, <1>8, OneRequest, GrossNotNegative
<1>16. Positive(a) \in Int /\ Positive(a + n) \in Int
  BY <1>2 DEF Positive
<1>17. /\ n <= 0 => Positive(a + n) - Positive(a) >= n
       /\ n >= 0 /\ a >= 0 => Positive(a + n) - Positive(a) = n
  BY <1>2, PositiveFacts
<1>18. NetUse(s)' <= row'[s].used /\ row'[s].used <= GrossUse(s)'
  <2>1. CASE p = row[s].period
    <3>1. /\ SumFunction(f) <= u /\ u <= SumFunction(F)
          /\ row'[s].used = IF u + n < 0 THEN 0 ELSE u + n
      BY <1>1, <1>7, <1>11, <1>13, <2>1
    <3>2. Positive(a + n) - Positive(a) >= n
      BY <1>1, <1>2, <1>11, <1>16, <1>17
    <3> QED BY <1>1, <1>5, <1>12, <1>14, <1>15, <1>16, <3>1, <3>2
  <2>2. CASE p > row[s].period
    <3>1. row'[s].used = n /\ a = 0 /\ SumFunction(f) = 0 /\ SumFunction(F) = 0
      BY <1>1, <1>9, <1>11, <1>14, <1>15, <2>2
    <3>2. n \in Nat /\ Positive(a + n) - Positive(a) = n
      BY <1>12, <1>17, <3>1
    <3> QED BY <1>5, <1>12, <1>14, <1>15, <1>16, <3>1, <3>2
  <2> QED BY <1>11, <2>1, <2>2
<1> QED BY <1>10, <1>11, <1>18 DEF Books, p

LEMMA RowStep ==
    ASSUME TypeOK, TypeOK', NEW s \in Subs, RowInv(s), RowsMove
    PROVE  RowInv(s)'
<1>1. s \notin stale' => Books(s)'
  <2> SUFFICES ASSUME s \notin stale' PROVE Books(s)'
    OBVIOUS
  <2>1. Books(s)
    BY DEF RowInv, RowsMove
  <2> QED BY <2>1, SameUseKeeps, NewPeriodKeeps, PostKeeps DEF RowsMove
<1> QED BY <1>1 DEF RowInv, RowsMove

(* A request that is left alone.                                            *)
LEMMA SessionStill ==
    ASSUME UseInv, NEW q \in Requests,
           pc'[q] = pc[q] \/ pc'[q] = "dead", hold'[q] = hold[q], at'[q] = at[q],
           ledger'[q] = ledger[q], pc'[q] = "preCommit" => copy'[q] = copy[q]
    PROVE  Unspent(q)' /\ Fit(q)'
<1>1. Unspent(q) /\ Fit(q)
  BY DEF UseInv
<1>2. Unspent(q)'
  BY <1>1 DEF Unspent, Unrefunded
<1>3. Fit(q)'
  BY <1>1 DEF Fit, Refreshed, Due
<1> QED BY <1>2, <1>3

LEMMA OthersUse ==
    ASSUME TypeInv, UseInv, NEW r \in Requests, Start(r) \/ Session(r),
           \A q \in Requests \ {r} : ledger'[q] = ledger[q]
    PROVE  \A q \in Requests \ {r} : Unspent(q)' /\ Fit(q)'
<1> TAKE q \in Requests \ {r}
<1>1. pc'[q] = pc[q] /\ hold'[q] = hold[q] /\ at'[q] = at[q]
  BY OnlyItself DEF TypeInv
<1>2. copy'[q] = copy[q]
  <2>1. UNCHANGED copy \/ \E c : copy' = [copy EXCEPT ![r] = c]
    BY DEF Start, Session, BeginPreConsume, CommitPreConsume, Refused, Decide, BeginDelta,
           CommitDelta, BeginRefund, BeginInner, CommitInner, CommitOuter, PreConsumed,
           PostDelta, RollBack, Reads, Closes, Saves
  <2> QED BY <2>1, OwnerTypes DEF TypeInv, TypeOK
<1> QED BY <1>1, <1>2, SessionStill

(* The steps, one by one.                                                   *)
Moves == /\ RowsMove
         /\ \A r \in Requests : Unspent(r)' /\ Fit(r)'

LEMMA SameRowsMove ==
    ASSUME TypeOK, UseInv, UNCHANGED <<ledger, stale>>,
           \A s \in Subs : row'[s].used = row[s].used /\ row'[s].period = row[s].period
    PROVE  RowsMove
BY DEF RowsMove, SameUse, SameLedger, UseInv, RowInv

LEMMA QuietMoves ==
    ASSUME TypeInv, UseInv, NEW r \in Requests,
           \/ Start(r) \/ Refused(r) \/ Decide(r) \/ BeginPreConsume(r)
           \/ BeginDelta(r) \/ BeginRefund(r) \/ BeginInner(r) \/ CommitOuter(r)
    PROVE  Moves
<1>0. TypeOK /\ Unspent(r)
  BY DEF TypeInv, UseInv
<1>1. UNCHANGED <<row, ledger, stale>>
  BY DEF Start, Refused, Decide, BeginPreConsume, BeginDelta, BeginRefund, BeginInner,
         CommitOuter, rows
<1>2. \A q \in Requests \ {r} : Unspent(q)' /\ Fit(q)'
  BY <1>1, OthersUse DEF Session
<1>3. pc'[r] \in Unrefunded => pc[r] \in Unrefunded
  <2>1. CASE Start(r) \/ Refused(r) \/ Decide(r)
    BY <1>0, <2>1 DEF Start, Refused, Decide, TypeOK, rows, Unrefunded
  <2>2. CASE BeginPreConsume(r) \/ BeginDelta(r)
    BY <1>0, <2>2 DEF BeginPreConsume, BeginDelta, TypeOK, rows, Unrefunded
  <2>3. CASE BeginRefund(r) \/ BeginInner(r) \/ CommitOuter(r)
    BY <1>0, <2>3, TryAgainTypes DEF BeginRefund, BeginInner, CommitOuter, TypeOK, rows, Unrefunded
  <2> QED BY <2>1, <2>2, <2>3
<1>4. Unspent(r)'
  BY <1>0, <1>1, <1>3 DEF Unspent
<1>5. Fit(r)'
  <2>1. CASE ~BeginPreConsume(r)
    <3>1. pc'[r] # "preCommit"
      <4>1. CASE Start(r) \/ Refused(r) \/ Decide(r) \/ BeginDelta(r)
        BY <1>0, <4>1 DEF Start, Refused, Decide, BeginDelta, TypeOK, rows
      <4>2. CASE BeginRefund(r) \/ BeginInner(r) \/ CommitOuter(r)
        BY <1>0, <4>2, TryAgainTypes DEF BeginRefund, BeginInner, CommitOuter, TypeOK, rows
      <4> QED BY <2>1, <4>1, <4>2
    <3> QED BY <3>1 DEF Fit
  <2>2. CASE BeginPreConsume(r)
    <3>1. CASE pc'[r] # "preCommit"
      BY <3>1 DEF Fit
    <3>2. CASE pc'[r] = "preCommit"
      <4>1. PICK s \in Eligible(r) : hold' = [hold EXCEPT ![r] = [sub |-> s, amount |-> ask[r]]]
        BY <1>0, <2>2, <3>2 DEF BeginPreConsume, TypeOK
      <4>2. hold'[r].sub = s /\ hold'[r].amount = ask[r] /\ s \in Subs /\ at' = at
        BY <1>0, <2>2, <4>1 DEF TypeOK, BeginPreConsume, Eligible, Candidates
      <4>6. copy'[r][s] = row[s]
        <5>1. Reads(r, Candidates(r)) /\ s \in Candidates(r) /\ Candidates(r) \in SUBSET Subs
          BY <1>0, <2>2, <3>2, <4>1 DEF BeginPreConsume, Eligible, Candidates, TypeOK
        <5> QED BY <1>0, <5>1, CopySteps, OwnerTypes
      <4>3. Total[s] = 0 \/ ask[r] <= Total[s] - Refreshed(s, row[s], at[r]).used
        BY <4>1 DEF Eligible, Fits
      <4>4. /\ Total[s] \in Nat /\ ask[r] \in Int
            /\ Refreshed(s, row[s], at[r]).used \in Nat
        <5>1. Refreshed(s, row[s], at[r]) \in Row
          BY <1>0, <4>2, OwnerTypes, RefreshedType DEF TypeOK
        <5> QED BY <1>0, <4>2, <5>1, BoundTypes DEF TypeOK, Row
      <4>5. Total[s] > 0 => Refreshed(s, row[s], at[r]).used + ask[r] <= Total[s]
        BY <4>3, <4>4
      <4> QED BY <1>1, <4>2, <4>5, <4>6 DEF Fit, Refreshed, Due
    <3> QED BY <3>1, <3>2
  <2> QED BY <2>1, <2>2
<1> QED BY <1>0, <1>1, <1>2, <1>4, <1>5, SameRowsMove DEF Moves

(* A row that is refreshed is the same, or begins a period.                 *)
LEMMA RefreshedUse ==
    ASSUME NEW s \in Subs, NEW rw \in Row, NEW t \in Period
    PROVE  \/ Refreshed(s, rw, t) = rw
           \/ /\ Refreshed(s, rw, t).used = 0
              /\ Refreshed(s, rw, t).period > rw.period
<1>1. CASE Due(s, rw, t)
  <2>1. rw.period < t /\ rw.period < Ends[s]
    BY <1>1 DEF Due
  <2> DEFINE p == IF t < Ends[s] THEN t ELSE Ends[s]
  <2>2. p > rw.period
    BY <2>1, BoundTypes DEF Row, Period
  <2>3. Refreshed(s, rw, t) = [rw EXCEPT !.used = 0, !.period = p]
    BY <1>1 DEF Refreshed
  <2> HIDE DEF p
  <2>4. /\ [rw EXCEPT !.used = 0, !.period = p].used = 0
        /\ [rw EXCEPT !.used = 0, !.period = p].period = p
    BY DEF Row
  <2> QED BY <2>2, <2>3, <2>4
<1>2. CASE ~Due(s, rw, t)
  BY <1>2 DEF Refreshed
<1> QED BY <1>1, <1>2

LEMMA DueRefreshes ==
    ASSUME NEW s \in Subs, NEW rw \in Row, NEW t \in Period, Due(s, rw, t)
    PROVE  Refreshed(s, rw, t).used = 0 /\ Refreshed(s, rw, t).period > rw.period
<1>1. rw.period \in Int /\ rw.period < t /\ rw.period < Ends[s]
  BY PeriodInt DEF Due
<1> DEFINE p == IF t < Ends[s] THEN t ELSE Ends[s]
<1>2. p > rw.period
  BY <1>1
<1>3. Refreshed(s, rw, t) = [rw EXCEPT !.used = 0, !.period = p]
  BY DEF Refreshed
<1> HIDE DEF p
<1>4. /\ [rw EXCEPT !.used = 0, !.period = p].used = 0
      /\ [rw EXCEPT !.used = 0, !.period = p].period = p
  BY DEF Row
<1> QED BY <1>2, <1>3, <1>4

LEMMA PreConsumedMoves ==
    ASSUME TypeInv, AmountsInv, UseInv, NEW r \in Requests, pc[r] = "preCommit",
           PreConsumed(r)
    PROVE  /\ RowsMove
           /\ \A q \in Requests \ {r} : ledger'[q] = ledger[q]
           /\ \A t \in Subs : \A p \in Period : ledger'[r][t][p] >= 0
<1> DEFINE s == hold[r].sub
           n == hold[r].amount
           refreshed(t) == Refreshed(t, copy[r][t], at[r])
           period == row'[s].period
<1>0. TypeOK /\ r \in Owner /\ Unspent(r) /\ Fit(r) /\ at[r] \in Period
  BY OwnerTypes DEF TypeInv, UseInv, TypeOK
<1>1. s \in Subs /\ s \in DOMAIN copy[r] /\ n \in Nat /\ n \in Int \ {0}
  BY DEF TypeInv, Known, Hold, AmountsInv, Nonzero
<1>2. /\ row'[s] = [refreshed(s) EXCEPT !.used = @ + n]
      /\ \A t \in Subs \ {s} : \/ t \in Passed(r) /\ row'[t] = refreshed(t)
                               \/ row'[t] = row[t]
  BY <1>1 DEF PreConsumed, Charged
<1>3. /\ stale \subseteq stale'
      /\ \A t \in Passed(r) \cup {s} : row[t] = copy[r][t] \/ t \in stale'
  <2>1. Passed(r) \cup {s} \in SUBSET Subs
    BY <1>0, <1>1, CopyRows DEF Passed
  <2> QED BY <1>0, <2>1, CopySteps DEF PreConsumed
<1>4. \A t \in DOMAIN copy[r] :
          /\ t \in Subs /\ copy[r][t] \in Row /\ refreshed(t) \in Row
          /\ \/ refreshed(t) = copy[r][t]
             \/ refreshed(t).used = 0 /\ refreshed(t).period > copy[r][t].period
  BY <1>0, CopyRows, RefreshedUse, RefreshedType
<1>5. \A t \in Passed(r) :
          /\ t \in DOMAIN copy[r]
          /\ refreshed(t).used = 0 /\ refreshed(t).period > copy[r][t].period
  <2> SUFFICES ASSUME NEW t \in Passed(r)
               PROVE  /\ t \in DOMAIN copy[r]
                      /\ refreshed(t).used = 0 /\ refreshed(t).period > copy[r][t].period
    OBVIOUS
  <2>1. t \in DOMAIN copy[r] /\ Due(t, copy[r][t], at[r])
    BY DEF Passed
  <2>2. t \in Subs /\ copy[r][t] \in Row
    BY <1>4, <2>1
  <2> QED BY <1>0, <2>1, <2>2, DueRefreshes
<1>6. \A t \in Subs : \A p \in Period : ledger[r][t][p] >= 0
  BY <1>0 DEF Unspent, Unrefunded
<1>7. period \in Period /\ Post(r, s, n, period)
  <2>1. row'[s] \in Row
    BY <1>0, <1>1, ChargedType DEF PreConsumed
  <2> QED BY <2>1 DEF PreConsumed, Row
<1>8. /\ ledger'[r][s][period] = ledger[r][s][period] + n
      /\ \A t \in Period \ {period} : ledger'[r][s][t] = ledger[r][s][t]
      /\ \A u \in Subs \ {s} : ledger'[r][u] = ledger[r][u]
      /\ \A q \in Requests \ {r} : ledger'[q] = ledger[q]
  BY <1>0, <1>1, <1>7, PostEntry DEF TypeOK
<1>9. \A t \in Subs \ {s} : SameLedger(t)
  BY <1>8 DEF SameLedger
<1>10. Total[s] > 0 => refreshed(s).used + n <= Total[s]
  BY <1>0, <1>1 DEF Fit
<1>11. row'[s].used = refreshed(s).used + n /\ period = refreshed(s).period
  BY <1>1, <1>2, <1>4 DEF Row
<1>12. refreshed(s).used \in Nat
  BY <1>1, <1>4 DEF Row
<1> HIDE DEF refreshed, s, n, period
<1>13. PostAt(r, s, n)
  <2>1. s \notin stale' => \/ period = row[s].period /\ row'[s].used = row[s].used + n
                           \/ period > row[s].period /\ row'[s].used = n
    BY <1>1, <1>3, <1>4, <1>11
  <2>2. row[s].used \in Nat /\ row[s].used + n >= 0
    BY <1>0, <1>1, RowTypes
  <2>3. s \notin stale' =>
            \/ /\ period = row[s].period
               /\ row'[s].used = IF row[s].used + n < 0 THEN 0 ELSE row[s].used + n
            \/ period > row[s].period /\ row'[s].used = n
    BY <1>1, <2>1, <2>2
  <2> QED BY <1>1, <1>6, <1>7, <2>3 DEF PostAt, period
<1>14. \A t \in Subs \ {s} : SameUse(t) \/ NewPeriod(t)
  BY <1>2, <1>3, <1>5, <1>9 DEF SameUse, NewPeriod
<1>15. \A t \in Subs : Total[t] > 0 => row'[t].used <= Total[t]
  <2>1. ASSUME NEW t \in Subs, t # s, Total[t] > 0 PROVE row'[t].used <= Total[t]
    <3>1. row'[t].used = 0 \/ row'[t] = row[t]
      BY <1>2, <1>5, <2>1
    <3>2. row[t].used <= Total[t] /\ Total[t] \in Nat
      BY <2>1, BoundTypes DEF UseInv, RowInv
    <3> QED BY <2>1, <3>1, <3>2
  <2> QED BY <1>10, <1>11, <2>1
<1>16. \A t \in Subs : \A p \in Period : ledger'[r][t][p] >= 0
  <2>1. \A p \in Period : ledger'[r][s][p] >= 0
    <3> TAKE p \in Period
    <3>1. ledger[r][s][p] \in Int /\ ledger[r][s][p] >= 0
      BY <1>0, <1>1, <1>6 DEF TypeOK
    <3> QED BY <1>1, <1>8, <3>1
  <2> QED BY <1>6, <1>8, <2>1
<1> QED BY <1>1, <1>3, <1>8, <1>13, <1>14, <1>15, <1>16 DEF RowsMove

(* A settlement or a refund posts to the row it has read.                   *)
LEMMA PostDeltaMoves ==
    ASSUME TypeInv, UseInv, NEW r \in Requests, NEW s \in DOMAIN copy[r],
           NEW n \in Int \ {0}, PostDelta(r, s, n),
           Total[s] > 0 => NewUse(r, s, n) <= Total[s],
           n > 0 => \A p \in Period : ledger[r][s][p] >= 0
    PROVE  /\ RowsMove
           /\ \A q \in Requests \ {r} : ledger'[q] = ledger[q]
<1>0. TypeOK /\ r \in Owner /\ s \in Subs /\ copy[r][s] \in Row
  BY OwnerTypes, CopyRows DEF TypeInv
<1> DEFINE saved == [copy[r][s] EXCEPT !.used = NewUse(r, s, n)]
<1>1. saved.used = NewUse(r, s, n) /\ saved.period = copy[r][s].period
  BY <1>0 DEF Row
<1>2. /\ row' = [row EXCEPT ![s] = saved] /\ Post(r, s, n, copy[r][s].period)
      /\ copy[r][s].period \in Period
  BY <1>0 DEF PostDelta, Row
<1>3. NewUse(r, s, n) = IF copy[r][s].used + n < 0 THEN 0 ELSE copy[r][s].used + n
  BY DEF NewUse
<1> HIDE DEF saved
<1>4. row'[s] = saved /\ \A t \in Subs \ {s} : row'[t] = row[t]
  BY <1>0, <1>2 DEF TypeOK
<1>5. /\ \A u \in Subs \ {s} : ledger'[r][u] = ledger[r][u]
      /\ \A q \in Requests \ {r} : ledger'[q] = ledger[q]
  BY <1>0, <1>2, PostEntry DEF TypeOK
<1>6. stale \subseteq stale' /\ (row[s] = copy[r][s] \/ s \in stale')
  <2>1. {s} \in SUBSET Subs
    BY <1>0
  <2> QED BY <1>0, <2>1, CopySteps DEF PostDelta
<1>7. PostAt(r, s, n)
  <2>1. s \notin stale' =>
            /\ copy[r][s].period = row'[s].period /\ row'[s].period = row[s].period
            /\ row'[s].used = IF row[s].used + n < 0 THEN 0 ELSE row[s].used + n
    BY <1>1, <1>3, <1>4, <1>6
  <2> QED BY <1>2, <2>1 DEF PostAt
<1>8. \A t \in Subs \ {s} : SameUse(t)
  BY <1>4, <1>5 DEF SameUse, SameLedger
<1>9. \A t \in Subs : Total[t] > 0 => row'[t].used <= Total[t]
  BY <1>1, <1>4 DEF UseInv, RowInv
<1> QED BY <1>0, <1>5, <1>6, <1>7, <1>8, <1>9 DEF RowsMove

LEMMA CommitPreConsumeMoves ==
    ASSUME TypeInv, AmountsInv, UseInv, NEW r \in Requests, CommitPreConsume(r)
    PROVE  Moves
<1>0. /\ TypeOK /\ pc[r] = "preCommit" /\ pc'[r] \in {"held", "refused"}
      /\ Unspent(r)
  BY DEF TypeInv, UseInv, CommitPreConsume, RollBack, TypeOK
<1>1. Fit(r)'
  BY <1>0 DEF Fit
<1>2. CASE PreConsumed(r)
  <2>1. /\ RowsMove
        /\ \A q \in Requests \ {r} : ledger'[q] = ledger[q]
        /\ Unspent(r)'
    BY <1>0, <1>2, PreConsumedMoves DEF Unspent
  <2> QED BY <1>1, <2>1, OthersUse DEF Moves, Session
<1>3. CASE RollBack(r, "refused")
  <2>1. UNCHANGED <<row, ledger, stale>>
    BY <1>3 DEF RollBack, rows
  <2>2. Unspent(r)'
    BY <1>0, <2>1 DEF Unspent, Unrefunded
  <2> QED BY <1>0, <1>1, <2>1, <2>2, SameRowsMove, OthersUse DEF Moves, Session
<1> QED BY <1>2, <1>3 DEF CommitPreConsume

LEMMA CommitDeltaMoves ==
    ASSUME TypeInv, AmountsInv, UseInv, NEW r \in Requests, CommitDelta(r)
    PROVE  Moves
<1> DEFINE s == hold[r].sub
<1>0. /\ TypeOK /\ pc[r] = "deltaCommit" /\ s \in DOMAIN copy[r] /\ ask[r] \in Int \ {0}
      /\ pc'[r] = "done" /\ Unspent(r)
  BY DEF TypeInv, UseInv, AmountsInv, Nonzero, CommitDelta, RollBack, TypeOK, Known, rows
<1>1. Fit(r)' /\ Unspent(r)'
  BY <1>0 DEF Fit, Unspent, Unrefunded
<1>2. CASE PostDelta(r, s, ask[r]) /\ ~Exceeds(r)
  <2>1. s \in Subs /\ copy[r][s] \in Row
    BY <1>0, CopyRows, OwnerTypes
  <2>2. \A p \in Period : ledger[r][s][p] >= 0
    BY <1>0, <2>1 DEF Unspent, Unrefunded
  <2>3. Total[s] > 0 => NewUse(r, s, ask[r]) <= Total[s]
    <3>1. NewUse(r, s, ask[r]) \in Int /\ Total[s] \in Int
      <4>1. copy[r][s].used \in Nat
        BY <2>1 DEF Row
      <4>2. ask[r] \in Int
        BY <1>0
      <4>3. Total[s] \in Nat
        BY <2>1, BoundTypes
      <4> QED BY ONLY <4>1, <4>2, <4>3 DEF NewUse
    <3> QED BY <1>2, <3>1 DEF Exceeds
  <2>4. /\ RowsMove
        /\ \A q \in Requests \ {r} : ledger'[q] = ledger[q]
    BY <1>0, <1>2, <2>2, <2>3, PostDeltaMoves
  <2> QED BY <1>1, <2>4, OthersUse DEF Moves, Session
<1>3. CASE RollBack(r, "done")
  <2>1. UNCHANGED <<row, ledger, stale>>
    BY <1>3 DEF RollBack, rows
  <2> QED BY <1>0, <1>1, <2>1, SameRowsMove, OthersUse DEF Moves, Session
<1> QED BY <1>2, <1>3 DEF CommitDelta

LEMMA CommitInnerMoves ==
    ASSUME TypeInv, AmountsInv, UseInv, NEW r \in Requests, CommitInner(r)
    PROVE  Moves
<1> DEFINE s == record[r].sub
           n == -GivenBack(r)
<1>0. /\ TypeOK /\ pc[r] = "innerCommit" /\ s \in DOMAIN copy[r]
      /\ pc'[r] \in {"outerCommit", "refund", "done"}
  BY TryAgainTypes DEF TypeInv, CommitInner, TypeOK, Known
<1>1. n \in Int \ {0} /\ n <= 0
  <2>1. record[r].status # "none"
    BY <1>0 DEF TypeInv, Known
  <2>2. record[r].amount \in Nat /\ record[r].amount > 0
    BY <1>0, <2>1, AmountTypes DEF AmountsInv, Nonzero
  <2> QED BY <2>2 DEF GivenBack
<1>2. Fit(r)' /\ Unspent(r)'
  BY <1>0 DEF Fit, Unspent, Unrefunded
<1>3. CASE PostDelta(r, s, n)
  <2>1. Total[s] > 0 => NewUse(r, s, n) <= Total[s]
    <3>1. copy[r][s].used \in Nat /\ s \in Subs
      BY <1>0, OwnerTypes, CopyRows DEF Row
    <3>2. Total[s] > 0 => copy[r][s].used <= Total[s]
      BY <1>0, OwnerTypes DEF UseInv, Within
    <3>3. /\ Total[s] \in Nat
          /\ NewUse(r, s, n) = IF copy[r][s].used + n < 0 THEN 0 ELSE copy[r][s].used + n
      BY <3>1, BoundTypes DEF NewUse
    <3> HIDE DEF n, s
    <3> QED BY <1>1, <3>1, <3>2, <3>3
  <2>2. ~(n > 0)
    BY <1>1
  <2>3. /\ RowsMove
        /\ \A q \in Requests \ {r} : ledger'[q] = ledger[q]
    <3> HIDE DEF n, s
    <3> QED BY <1>0, <1>1, <1>3, <2>1, <2>2, PostDeltaMoves
  <2> QED BY <1>2, <2>3, OthersUse DEF Moves, Session
<1>4. CASE UNCHANGED <<row, ledger, stale>>
  BY <1>0, <1>2, <1>4, SameRowsMove, OthersUse DEF Moves, Session
<1> QED BY <1>3, <1>4 DEF CommitInner

(* The maintenance task, the administrator, time, the end of the process.   *)
LEMMA OthersMove ==
    ASSUME TypeInv, UseInv,
           Maintenance \/ Expire \/ (\E s \in Subs : Cancel(s)) \/ Tick \/ Crash
    PROVE  Moves
<1>0. TypeOK /\ Maintainer \in Owner /\ UNCHANGED ledger
  BY OwnerTypes DEF TypeInv, Maintenance, ListDue, BeginReset, CommitReset, Expire, Cancel,
                    Tick, Crash, rows
<1>1. \A q \in Requests : Unspent(q)' /\ Fit(q)'
  <2> TAKE q \in Requests
  <2>1. CASE ~Crash
    <3>1. copy'[q] = copy[q] /\ pc' = pc /\ hold' = hold /\ at'[q] = at[q]
      <4>1. CASE Expire \/ (\E s \in Subs : Cancel(s)) \/ Tick
        BY <4>1 DEF Expire, Cancel, Tick
      <4>2. CASE Maintenance
        <5>1. /\ pc' = pc /\ hold' = hold
              /\ at' = at \/ at' = [at EXCEPT ![Maintainer] = now]
              /\ copy' = copy \/ \E c : copy' = [copy EXCEPT ![Maintainer] = c]
          BY <4>2 DEF Maintenance, ListDue, BeginReset, CommitReset, Reads, Closes, Saves
        <5> QED BY <1>0, <5>1, OwnerTypes DEF TypeOK
      <4> QED BY <2>1, <4>1, <4>2
    <3> QED BY <1>0, <3>1, SessionStill
  <2>2. CASE Crash
    <3>1. /\ pc'[q] = pc[q] \/ pc'[q] = "dead"
          /\ hold'[q] = hold[q] /\ at'[q] = at[q] /\ pc'[q] # "preCommit"
      BY <2>2 DEF Crash
    <3> QED BY <1>0, <3>1, SessionStill
  <2> QED BY <2>1, <2>2
<1>2. ASSUME NEW s \in Subs, CommitReset(s) PROVE RowsMove
  <2> DEFINE saved == Refreshed(s, copy[Maintainer][s], at[Maintainer])
  <2>0. s \in DOMAIN copy[Maintainer] /\ {s} \in SUBSET Subs
    BY <1>2, BoundTypes DEF CommitReset, TypeInv, TaskKnown
  <2>1. copy[Maintainer][s] \in Row
    BY <1>0, <2>0, CopyRows
  <2>2. \/ saved = copy[Maintainer][s]
        \/ saved.used = 0 /\ saved.period > copy[Maintainer][s].period
    BY <1>0, <2>1, RefreshedUse DEF TypeOK
  <2>3. row' = [row EXCEPT ![s] = saved]
    BY <1>2 DEF CommitReset
  <2>4. Total[s] > 0 => saved.used <= Total[s]
    <3>1. Total[s] > 0 => copy[Maintainer][s].used <= Total[s]
      BY <1>0, <2>0 DEF UseInv, Within
    <3>2. Total[s] \in Nat
      BY BoundTypes
    <3> QED BY <2>2, <3>1, <3>2
  <2> HIDE DEF saved
  <2>5. row'[s] = saved /\ \A t \in Subs \ {s} : row'[t] = row[t]
    BY <1>0, <2>3 DEF TypeOK
  <2>6. stale \subseteq stale' /\ (row[s] = copy[Maintainer][s] \/ s \in stale')
    BY <1>0, <1>2, <2>0, CopySteps DEF CommitReset
  <2>7. (SameUse(s) \/ NewPeriod(s)) /\ \A t \in Subs \ {s} : SameUse(t)
    BY <1>0, <2>2, <2>5, <2>6 DEF SameUse, NewPeriod, SameLedger
  <2>8. \A t \in Subs : Total[t] > 0 => row'[t].used <= Total[t]
    BY <2>4, <2>5 DEF UseInv, RowInv
  <2> QED BY <2>6, <2>7, <2>8 DEF RowsMove
<1>3. ASSUME Expire \/ \E s \in Subs : Cancel(s) PROVE RowsMove
  <2>1. \A t \in Subs : row[t] \in Row
    BY <1>0 DEF TypeOK
  <2>2. \A t \in Subs : \/ row'[t] = row[t]
                        \/ row'[t] = [row[t] EXCEPT !.status = "expired"]
                        \/ row'[t] = [row[t] EXCEPT !.status = "cancelled"]
    BY <1>0, <1>3 DEF Expire, Cancel, TypeOK
  <2>3. \A t \in Subs : row'[t].used = row[t].used /\ row'[t].period = row[t].period
    BY <2>1, <2>2 DEF Row
  <2>4. UNCHANGED stale
    BY <1>3 DEF Expire, Cancel
  <2> QED BY <1>0, <2>3, <2>4, SameRowsMove
<1>4. ASSUME ListDue \/ (\E s \in Subs : BeginReset(s)) \/ Tick \/ Crash PROVE RowsMove
  <2>1. UNCHANGED <<row, stale>>
    BY <1>4 DEF ListDue, BeginReset, Tick, Crash, rows
  <2> QED BY <1>0, <2>1, SameRowsMove
<1>5. RowsMove
  BY <1>2, <1>3, <1>4 DEF Maintenance
<1> QED BY <1>1, <1>5 DEF Moves

(* What a transaction holds it has read.                                    *)
LEMMA CopyOrigin ==
    ASSUME TypeInv, [Next]_vars, NEW o \in Owner, NEW s \in DOMAIN copy'[o]
    PROVE  \/ s \in DOMAIN copy[o] /\ copy'[o][s] = copy[o][s]
           \/ s \in Subs /\ copy'[o][s] = row[s]
<1>0. TypeOK /\ Owner = Requests \cup {Maintainer}
  BY DEF TypeInv, Owner
<1>1. CASE copy' = [q \in Owner |-> NoRows]
  BY <1>1, NoRowsType
<1>2. CASE UNCHANGED copy
  BY <1>2
<1>3. ASSUME NEW q \in Owner, \/ Closes(q) \/ \E S \in SUBSET Subs : Reads(q, S)
      PROVE  \/ s \in DOMAIN copy[o] /\ copy'[o][s] = copy[o][s]
             \/ s \in Subs /\ copy'[o][s] = row[s]
  BY <1>0, <1>3, CopySteps
<1>4. ASSUME NEW r \in Requests, Start(r) \/ Session(r)
      PROVE  UNCHANGED copy \/ Closes(r) \/ \E S \in SUBSET Subs : Reads(r, S)
  <2>0. Known(r)
    BY DEF TypeInv
  <2>1. CASE BeginPreConsume(r)
    <3>1. Candidates(r) \in SUBSET Subs
      BY DEF Candidates
    <3> QED BY <2>1, <3>1 DEF BeginPreConsume
  <2>2. CASE BeginDelta(r) \/ BeginInner(r)
    <3>1. (BeginDelta(r) => hold[r].sub \in Subs) /\ (BeginInner(r) => record[r].sub \in Subs)
      BY <2>0 DEF BeginDelta, BeginInner, Known, Hold
    <3> QED BY <2>2, <3>1 DEF BeginDelta, BeginInner
  <2>3. CASE Start(r) \/ Refused(r) \/ Decide(r) \/ BeginRefund(r) \/ CommitOuter(r)
    BY <2>3 DEF Start, Refused, Decide, BeginRefund, CommitOuter
  <2>4. CASE CommitPreConsume(r) \/ CommitDelta(r) \/ CommitInner(r)
    BY <2>4 DEF CommitPreConsume, CommitDelta, CommitInner, PreConsumed, PostDelta, RollBack,
                Saves
  <2> QED BY <1>4, <2>1, <2>2, <2>3, <2>4 DEF Session
<1>5. CASE Maintenance
  <2>1. UNCHANGED copy \/ Closes(Maintainer) \/ \E S \in SUBSET Subs : Reads(Maintainer, S)
    <3>1. \A t \in Subs : {t} \in SUBSET Subs
      OBVIOUS
    <3> QED BY <1>5, <3>1 DEF Maintenance, ListDue, BeginReset, CommitReset, Saves
  <2> QED BY <1>0, <1>2, <1>3, <2>1
<1>6. CASE \E r \in Requests : Start(r) \/ Session(r)
  BY <1>0, <1>2, <1>3, <1>4, <1>6
<1>7. CASE Expire \/ (\E t \in Subs : Cancel(t)) \/ Tick
  BY <1>2, <1>7 DEF Expire, Cancel, Tick
<1> QED BY <1>1, <1>2, <1>5, <1>6, <1>7 DEF Next, Crash, vars

LEMMA UseStart == Init => UseInv
<1> SUFFICES ASSUME Init PROVE UseInv
  OBVIOUS
<1>1. ASSUME NEW s \in Subs PROVE RowInv(s)
  <2>1. row[s].used = 0 /\ row[s].period = 0
    BY DEF Init, NewRow
  <2>2. \A r \in Requests : \A p \in Period : ledger[r][s][p] = 0
    BY DEF Init
  <2>3. 0 \in Period
    BY BoundTypes DEF Period
  <2> DEFINE z == [r \in Requests |-> 0]
  <2>4. \A r \in Requests : Now(r, s) = 0 /\ Positive(Now(r, s)) = 0
    BY <2>1, <2>2, <2>3 DEF Now, Positive
  <2>5. NetUse(s) = SumFunction(z) /\ GrossUse(s) = SumFunction(z)
    BY <2>4 DEF NetUse, GrossUse
  <2>6. z \in [Requests -> Int] /\ \A r \in Requests : z[r] = 0
    OBVIOUS
  <2> HIDE DEF z
  <2>7. SumFunction(z) = 0
    BY <2>6, SumOfNothing, RequestsAssumption
  <2>8. Total[s] \in Nat
    BY BoundTypes
  <2> QED BY <2>1, <2>2, <2>5, <2>7, <2>8 DEF RowInv, Books
<1>2. ASSUME NEW r \in Requests PROVE Unspent(r) /\ Fit(r)
  BY <1>2 DEF Init, Unspent, Fit
<1>3. ASSUME NEW o \in Owner PROVE Within(o)
  BY <1>3, NoRowsType DEF Init, Within
<1> QED BY <1>1, <1>2, <1>3 DEF UseInv

LEMMA UseStep ==
    ASSUME TypeInv, TypeInv', AmountsInv, UseInv, [Next]_vars
    PROVE  UseInv' /\ RowsMove
<1>1. Moves
  <2>1. CASE UNCHANGED vars
    BY <2>1, SameRowsMove, SessionStill DEF Moves, vars, rows, TypeInv
  <2>2. ASSUME NEW r \in Requests, Start(r) \/ Session(r) PROVE Moves
    BY <2>2, QuietMoves, CommitPreConsumeMoves, CommitDeltaMoves, CommitInnerMoves DEF Session
  <2>3. CASE Maintenance \/ Expire \/ (\E s \in Subs : Cancel(s)) \/ Tick \/ Crash
    BY <2>3, OthersMove
  <2> QED BY <2>1, <2>2, <2>3 DEF Next
<1>2. \A s \in Subs : RowInv(s)'
  BY <1>1, RowStep DEF Moves, UseInv, TypeInv
<1>3. \A o \in Owner : Within(o)'
  <2> SUFFICES ASSUME NEW o \in Owner, NEW s \in DOMAIN copy'[o], Total[s] > 0
               PROVE  copy'[o][s].used <= Total[s]
    BY DEF Within
  <2> QED BY CopyOrigin DEF UseInv, Within, RowInv
<1> QED BY <1>1, <1>2, <1>3 DEF UseInv, Moves

(* What a row says is used is what has been posted to its present period,   *)
(* but for refunds of earlier periods that stop at zero, unless a tx.Save   *)
(* went over a change that was not read.                                    *)
THEOREM UseIsAccounted == Spec => []UsageAccounted
<1>1. TypeInv /\ TypeInv' /\ AmountsInv /\ UseInv /\ [Next]_vars => UseInv'
  BY UseStep
<1>2. UseInv => UsageAccounted
  BY DEF UseInv, RowInv, Books, UsageAccounted
<1> QED BY TypeStart, TypeStep, AmountsStart, AmountsStep, UseStart, <1>1, <1>2, PTL DEF Spec

(* No row ever says more than its total, lost changes or not; and unless    *)
(* one is lost, no subscription is sold past its total in one period.       *)
THEOREM NeverOversold == Spec => []NotOversold
<1>1. TypeInv /\ TypeInv' /\ AmountsInv /\ UseInv /\ [Next]_vars => UseInv'
  BY UseStep
<1>2. TypeInv /\ UseInv => NotOversold
  <2> SUFFICES ASSUME TypeOK, UseInv, NEW s \in Subs, Total[s] > 0
               PROVE  row[s].used <= Total[s] /\ (s \notin stale => NetUse(s) <= Total[s])
    BY DEF TypeInv, NotOversold
  <2>1. row[s].used <= Total[s] /\ (s \notin stale => NetUse(s) <= row[s].used)
    BY DEF UseInv, RowInv, Books
  <2>2. row[s].used \in Int /\ Total[s] \in Int
    BY RowTypes, BoundTypes
  <2>3. NetUse(s) \in Int
    <3>1. \A r \in Requests : Now(r, s) \in Int
      BY RowTypes DEF TypeOK, Now
    <3> QED BY <3>1, SumType, RequestsAssumption DEF NetUse
  <2> QED BY <2>1, <2>2, <2>3
<1> QED BY TypeStart, TypeStep, AmountsStart, AmountsStep, UseStart, <1>1, <1>2, PTL DEF Spec

-----------------------------------------------------------------------------
(* The transactions implement atomic changes.                               *)

LEMMA RowsStart == Init => Atomic!Init
<1> SUFFICES ASSUME Init PROVE Atomic!Init
  OBVIOUS
<1>1. [s \in Subs |-> row[s].used] = [s \in Subs |-> 0]
  BY DEF Init, NewRow
<1>2. \A r \in Requests : Posted(r) = 0
  BY StartPosted
<1>3. [r \in Requests |-> Posted(r)] = [r \in Requests |-> 0]
  BY <1>2
<1> QED BY <1>1, <1>3 DEF Init, Atomic!Init

(* A step that posts nothing and begins one period at most.                 *)
LEMMA PostedSame ==
    ASSUME \A s \in Subs : SameLedger(s)
    PROVE  [r \in Requests |-> Posted(r)]' = [r \in Requests |-> Posted(r)]
<1>1. ASSUME NEW r \in Requests PROVE Posted(r)' = Posted(r)
  BY <1>1 DEF SameLedger, Posted
<1> QED BY <1>1

LEMMA LimitsKept ==
    ASSUME TypeOK', RowsMove
    PROVE  Atomic!Limits
<1>1. \A s \in Subs : row'[s].used \in Nat
  BY DEF TypeOK, Row
<1>2. stale' \subseteq Subs
  BY DEF TypeOK
<1> QED BY <1>1, <1>2 DEF RowsMove, Atomic!Limits

(* A step of which nothing is to be seen, but that a change was lost.       *)
LEMMA SameRefines ==
    ASSUME TypeOK, TypeOK', RowsMove, \A s \in Subs : SameUse(s)
    PROVE  Atomic!Next \/ UNCHANGED Atomic!vars
<1>1. [s \in Subs |-> row[s].used]' = [s \in Subs |-> row[s].used]
  BY DEF SameUse
<1>2. [r \in Requests |-> Posted(r)]' = [r \in Requests |-> Posted(r)]
  BY PostedSame DEF SameUse
<1>3. CASE UNCHANGED stale
  BY <1>1, <1>2, <1>3 DEF Atomic!vars
<1>4. CASE ~UNCHANGED stale
  <2>1. PICK s \in Subs : s \in stale'
    BY <1>4 DEF RowsMove, TypeOK
  <2>2. \A t \in Subs \ stale' : row'[t].used = Atomic!Forget({s})[t]
    BY <2>1 DEF SameUse, Atomic!Forget
  <2>3. Atomic!StartPeriod(s)
    BY <1>2, <2>2, LimitsKept DEF Atomic!StartPeriod
  <2> QED BY <2>3 DEF Atomic!Next
<1> QED BY <1>3, <1>4

LEMMA PeriodRefines ==
    ASSUME TypeOK', RowsMove, NEW s \in Subs, NewPeriod(s), \A t \in Subs \ {s} : SameUse(t)
    PROVE  Atomic!Next
<1>1. [r \in Requests |-> Posted(r)]' = [r \in Requests |-> Posted(r)]
  BY PostedSame DEF NewPeriod, SameUse
<1>2. \A t \in Subs \ stale' : row'[t].used = Atomic!Forget({s})[t]
  BY DEF NewPeriod, SameUse, Atomic!Forget
<1>3. Atomic!StartPeriod(s)
  BY <1>1, <1>2, LimitsKept DEF Atomic!StartPeriod
<1> QED BY <1>3 DEF Atomic!Next

(* A step that posts, to a row that may begin a period, as others may.      *)
LEMMA PostRefines ==
    ASSUME TypeOK, TypeOK', RowsMove,
           NEW r \in Requests, NEW s \in Subs, NEW n \in Int \ {0},
           PostAt(r, s, n), \A t \in Subs \ {s} : SameUse(t) \/ NewPeriod(t)
    PROVE  Atomic!Next
<1> DEFINE R == {t \in Subs : row'[t].period > row[t].period}
           had == [q \in Requests |-> Posted(q)]
           has == [q \in Requests |-> Posted(q)']
           sum == Atomic!Forget(R)[s] + n
<1>1. Posted(r)' = Posted(r) + n /\ \A q \in Requests \ {r} : Posted(q)' = Posted(q)
  BY PostAdds DEF PostAt, TypeOK
<1>2. has[r] - had[r] = n /\ has[r] # had[r]
  BY <1>1, PostedType
<1>3. has = [had EXCEPT ![r] = @ + n]
  BY <1>1
<1>4. \A t \in Subs : row[t].used \in Nat /\ row[t].period \in Int /\ row'[t].used \in Nat
  BY RowTypes DEF TypeOK, Row
<1>5. Atomic!Forget(R) = [t \in Subs |-> IF t \in R THEN 0 ELSE row[t].used]
  BY DEF Atomic!Forget
<1>6. s \notin stale' => row'[s].used = IF sum < 0 THEN 0 ELSE sum
  <2> SUFFICES ASSUME s \notin stale' PROVE row'[s].used = IF sum < 0 THEN 0 ELSE sum
    OBVIOUS
  <2>1. sum = IF row'[s].period > row[s].period THEN n ELSE row[s].used + n
    BY <1>4, <1>5
  <2>2. CASE row'[s].period > row[s].period
    BY <1>4, <2>1, <2>2 DEF PostAt
  <2>3. CASE ~(row'[s].period > row[s].period)
    BY <1>4, <2>1, <2>3 DEF PostAt
  <2> QED BY <2>2, <2>3
<1>7. \A t \in Subs \ stale' : t # s => row'[t].used = Atomic!Forget(R)[t]
  <2> SUFFICES ASSUME NEW t \in Subs, t \notin stale', t # s
               PROVE  row'[t].used = IF t \in R THEN 0 ELSE row[t].used
    BY <1>5
  <2>1. CASE SameUse(t)
    BY <1>4, <2>1 DEF SameUse
  <2>2. CASE NewPeriod(t)
    BY <2>2 DEF NewPeriod
  <2> QED BY <2>1, <2>2
<1> HIDE DEF sum, R, had, has
<1>8. \A t \in Subs \ stale' :
         row'[t].used = IF t # s THEN Atomic!Forget(R)[t] ELSE IF sum < 0 THEN 0 ELSE sum
  BY <1>6, <1>7
<1>9. \E P \in SUBSET Subs : has[r] # had[r] /\ Atomic!Post(r, s, has[r] - had[r], P)
  <2>1. R \in SUBSET Subs
    BY DEF R
  <2>2. Atomic!Post(r, s, has[r] - had[r], R)
    BY <1>2, <1>3, <1>8, LimitsKept DEF Atomic!Post, sum, had, has
  <2> QED BY <1>2, <2>1, <2>2 DEF Atomic!Post, Atomic!Forget, Atomic!Limits
<1> QED BY <1>9 DEF Atomic!Next, Atomic!Post, Atomic!Forget, Atomic!Limits, had, has

(* Transactions that overlap, fail, lose their answers or die change what   *)
(* is used and what is posted as if each were one step, on the rows of      *)
(* which no change is lost; the others stay within their totals.            *)
THEOREM TransactionsAreAtomic == Spec => ImplementsRows
<1>1. TypeInv /\ TypeInv' /\ AmountsInv /\ UseInv /\ [Next]_vars => UseInv'
  BY UseStep
<1>2. TypeInv /\ TypeInv' /\ AmountsInv /\ UseInv /\ [Next]_vars
      => [Atomic!Next]_(Atomic!vars)
  <2> SUFFICES ASSUME TypeInv, TypeInv', AmountsInv, UseInv, [Next]_vars
               PROVE  [Atomic!Next]_(Atomic!vars)
    OBVIOUS
  <2>1. RowsMove /\ TypeOK /\ TypeOK'
    BY UseStep DEF TypeInv
  <2>2. CASE \A s \in Subs : SameUse(s)
    BY <2>1, <2>2, SameRefines
  <2>3. ASSUME NEW s \in Subs, NewPeriod(s), \A t \in Subs \ {s} : SameUse(t)
        PROVE  Atomic!Next
    BY <2>1, <2>3, PeriodRefines
  <2>4. ASSUME NEW r \in Requests, NEW s \in Subs, NEW n \in Int \ {0}, PostAt(r, s, n),
               \A t \in Subs \ {s} : SameUse(t) \/ NewPeriod(t)
        PROVE  Atomic!Next
    BY <2>1, <2>4, PostRefines
  <2> QED BY <2>1, <2>2, <2>3, <2>4 DEF RowsMove
<1> QED BY TypeStart, TypeStep, AmountsStart, AmountsStep, UseStart, RowsStart,
           <1>1, <1>2, PTL DEF Spec, ImplementsRows, Atomic!Spec
=============================================================================
