---------------------------- MODULE UserStoreProofs ----------------------------
(***************************************************************************)
(* Theorems about UserStore, for every value of its constants: the types;  *)
(* that the balance is conserved until a handler overwrites it; that a     *)
(* user disabled while nobody held an older copy is refused; that a hash   *)
(* filled while nothing changed stays in step with the balance.            *)
(*                                                                         *)
(* Conserved is inductive.  DisabledIsRefused is not: the hash is disabled *)
(* because whoever may write it holds a disabled copy, except for a call   *)
(* that is enabling the user and has not yet written the row.  Nor is      *)
(* CacheInStep: a copy that counts as fresh must be the balance itself,    *)
(* with nobody about to change it.                                         *)
(***************************************************************************)
EXTENDS UserStore, SumTheorems

-----------------------------------------------------------------------------
(* Types.                                                                   *)

LEMMA JobTypes ==
    ASSUME NEW do \in {"incr", "fill"}, NEW checked \in BOOLEAN, NEW q \in Int,
           NEW e \in BOOLEAN, NEW fresh \in BOOLEAN
    PROVE  JobOf(do, checked, q, e, fresh) \in Job
BY Zenon DEF JobOf, Job

LEMMA CallTypes ==
    ASSUME NEW do \in {"settings", "profile", "disable", "enable"},
           NEW stage \in {"loaded", "read", "updated", "cached"},
           NEW own \in BOOLEAN, NEW q \in Int, NEW e \in BOOLEAN, NEW fresh \in BOOLEAN
    PROVE  CallOf(do, stage, own, q, e, fresh) \in Call
BY Zenon DEF CallOf, Call

LEMMA JobFields ==
    ASSUME NEW j \in Job
    PROVE  /\ j.do \in {"incr", "fill"} /\ j.checked \in BOOLEAN /\ j.quota \in Int
           /\ j.enabled \in BOOLEAN /\ j.fresh \in BOOLEAN
BY DEF Job

LEMMA CallFields ==
    ASSUME NEW c \in Call
    PROVE  /\ c.do \in {"settings", "profile", "disable", "enable"}
           /\ c.stage \in {"loaded", "read", "updated", "cached"}
           /\ c.own \in BOOLEAN /\ c.quota \in Int
           /\ c.enabled \in BOOLEAN /\ c.fresh \in BOOLEAN
BY DEF Call

LEMMA WriteTypes ==
    ASSUME NEW d \in Int, NEW b \in BOOLEAN
    PROVE  WriteOf(d, b) \in Write
BY Zenon DEF WriteOf, Write

LEMMA HashTypes ==
    ASSUME NEW q \in Int, NEW e \in BOOLEAN
    PROVE  Hash(q, e) \in Entry
BY Zenon DEF Hash, Entry

LEMMA StaleTypes ==
    ASSUME TypeOK
    PROVE  /\ StaleJobs \in [Slots -> Job \cup {None}]
           /\ StaleHandlers \in [Handlers -> Call \cup {None}]
           /\ \A h \in Handlers : StaleCall(handler[h]) \in Call \cup {None}
<1>1. ASSUME NEW s \in Slots PROVE StaleJob(job[s]) \in Job \cup {None}
  <2>1. CASE job[s] = None
    BY <2>1 DEF StaleJob
  <2>2. CASE job[s] # None
    <3>1. job[s] \in Job
      BY <2>2 DEF TypeOK
    <3>2. FALSE \in BOOLEAN
      OBVIOUS
    <3>3. JobOf(job[s].do, job[s].checked, job[s].quota, job[s].enabled, FALSE) \in Job
      BY <3>1, <3>2, JobFields, JobTypes
    <3> QED
      BY <2>2, <3>3 DEF StaleJob
  <2> QED
    BY <2>1, <2>2
<1>2. ASSUME NEW h \in Handlers PROVE StaleCall(handler[h]) \in Call \cup {None}
  <2>1. CASE handler[h] = None
    BY <2>1 DEF StaleCall
  <2>2. CASE handler[h] # None
    <3>1. handler[h] \in Call
      BY <2>2 DEF TypeOK
    <3>2. FALSE \in BOOLEAN
      OBVIOUS
    <3>3. CallOf(handler[h].do, handler[h].stage, handler[h].own, handler[h].quota,
                 handler[h].enabled, FALSE) \in Call
      BY <3>1, <3>2, CallFields, CallTypes
    <3> QED
      BY <2>2, <3>3 DEF StaleCall
  <2> QED
    BY <2>1, <2>2
<1> QED
  BY <1>1, <1>2 DEF StaleJobs, StaleHandlers

LEMMA QuietType == Quiet \in BOOLEAN
BY DEF Quiet

(* Every step keeps the types.                                              *)
LEMMA TypeStep == TypeOK /\ [Next]_vars => TypeOK'
<1> SUFFICES ASSUME TypeOK, [Next]_vars PROVE TypeOK'
  OBVIOUS
<1> USE StoreAssumption
<1>1. ASSUME NEW d \in Changes, NEW db \in BOOLEAN, Change(d, db) PROVE TypeOK'
  <2>1. d \in Int /\ CachedChange(d) \in Int
    BY DEF CachedChange
  <2>2. PICK s \in Slots :
          job' = [StaleJobs EXCEPT ![s] = JobOf("incr", FALSE, CachedChange(d), FALSE, FALSE)]
    BY <1>1 DEF Change
  <2>3. JobOf("incr", FALSE, CachedChange(d), FALSE, FALSE) \in Job
    BY <2>1, JobTypes
  <2>4. job' \in [Slots -> Job \cup {None}]
    BY <2>2, <2>3, StaleTypes
  <2>5. handler' \in [Handlers -> Call \cup {None}]
    BY <1>1, StaleTypes DEF Change
  <2>6. PICK r \in Slots : write' = [write EXCEPT ![r] = WriteOf(d, BatchOn /\ ~db)]
    BY <1>1 DEF Change
  <2>7. (BatchOn /\ ~db) \in BOOLEAN
    OBVIOUS
  <2>8. WriteOf(d, BatchOn /\ ~db) \in Write
    BY <2>1, <2>7, WriteTypes
  <2>9. write' \in [Slots -> Write \cup {None}]
    BY <2>6, <2>8 DEF TypeOK
  <2>10. calls' \in 0..MaxCalls
    BY <1>1 DEF Change, TypeOK
  <2> QED
    BY <1>1, <2>4, <2>5, <2>9, <2>10 DEF Change, dbVars, historyVars, TypeOK
<1>17. ASSUME NEW s \in Slots, WriteChange(s) PROVE TypeOK'
  <2>1. write[s].amount \in Int
    BY <1>17 DEF WriteChange, Write, TypeOK
  <2>2. write' \in [Slots -> Write \cup {None}]
    BY <1>17 DEF WriteChange, TypeOK
  <2>3. quota' \in Int /\ store' \in Int /\ owed' \in Int /\ faults' \in 0..MaxFaults
    BY <1>17, <2>1 DEF WriteChange, Fault, TypeOK
  <2>4. inStep' \in BOOLEAN
    BY <1>17, Zenon DEF WriteChange, TypeOK
  <2> QED
    BY <1>17, <2>2, <2>3, <2>4 DEF WriteChange, TypeOK
<1>2. ASSUME NEW q \in Int, SetRow(q) PROVE TypeOK'
  <2>1. job' \in [Slots -> Job \cup {None}] /\ handler' \in [Handlers -> Call \cup {None}]
    BY <1>2, StaleTypes DEF SetRow
  <2>2. quota' \in Int /\ owed' \in Int /\ calls' \in 0..MaxCalls
    BY <1>2 DEF SetRow, TypeOK
  <2> QED
    BY <1>2, <2>1, <2>2 DEF SetRow, TypeOK
<1>3. ASSUME Drain PROVE TypeOK'
  BY <1>3 DEF Drain, LeftInStore, countVars, historyVars, TypeOK
<1>4. ASSUME Flush PROVE TypeOK'
  <2>1. quota' \in Int /\ lost' \in Int /\ drained' \in Int /\ faults' \in 0..MaxFaults
    BY <1>4 DEF Flush, Fault, TypeOK
  <2>2. inStep' \in BOOLEAN
    BY <1>4, Zenon DEF Flush, TypeOK
  <2> QED
    BY <1>4, <2>1, <2>2 DEF Flush, TypeOK
<1>5. ASSUME Miss PROVE TypeOK'
  <2>1. PICK s \in Slots :
          job' = [job EXCEPT ![s] = JobOf("fill", TRUE, quota, enabled, Quiet)]
    BY <1>5 DEF Miss
  <2>2. JobOf("fill", TRUE, quota, enabled, Quiet) \in Job
    BY QuietType, JobTypes DEF TypeOK
  <2>3. job' \in [Slots -> Job \cup {None}]
    BY <2>1, <2>2 DEF TypeOK
  <2> QED
    BY <1>5, <2>3 DEF Miss, dbVars, countVars, historyVars, TypeOK
<1>6. ASSUME NEW s \in Slots, Fill(s) PROVE TypeOK'
  <2>1. job[s] \in Job
    BY <1>6 DEF Fill, TypeOK
  <2>2. Hash(job[s].quota, job[s].enabled) \in Entry /\ job[s].fresh \in BOOLEAN
    BY <2>1, JobFields, HashTypes
  <2>3. job' \in [Slots -> Job \cup {None}]
    BY <1>6 DEF Fill, TypeOK
  <2> QED
    BY <1>6, <2>2, <2>3 DEF Fill, dbVars, countVars, TypeOK
<1>7. ASSUME NEW s \in Slots, Check(s) PROVE TypeOK'
  <2>1. job[s] \in Job
    BY <1>7 DEF Check, TypeOK
  <2>2. JobOf("incr", TRUE, job[s].quota, FALSE, FALSE) \in Job
    BY <2>1, JobFields, JobTypes
  <2>3. job' \in [Slots -> Job \cup {None}]
    BY <1>7, <2>2 DEF Check, TypeOK
  <2> QED
    BY <1>7, <2>3 DEF Check, dbVars, countVars, historyVars, TypeOK
<1>8. ASSUME NEW s \in Slots, Add(s) PROVE TypeOK'
  <2>1. job[s] \in Job
    BY <1>8 DEF Add, TypeOK
  <2>2. cache' \in Entry \cup {None}
    <3>1. CASE cache = None
      BY <1>8, <2>1, <3>1, JobFields, HashTypes DEF Add
    <3>2. CASE cache # None
      <4>1. cache.quota \in Int /\ cache.enabled \in BOOLEAN
        BY <3>2 DEF TypeOK, Entry
      <4>2. cache.quota + job[s].quota \in Int
        BY <4>1, <2>1, JobFields
      <4> QED
        BY <1>8, <3>2, <4>1, <4>2, HashTypes DEF Add
    <3> QED
      BY <3>1, <3>2
  <2>3. job' \in [Slots -> Job \cup {None}]
    BY <1>8 DEF Add, TypeOK
  <2>4. inStep' \in BOOLEAN
    BY <1>8, Zenon DEF Add, TypeOK
  <2> QED
    BY <1>8, <2>2, <2>3, <2>4 DEF Add, dbVars, countVars, TypeOK
<1>9. ASSUME NEW s \in Slots, RedisFails(s) PROVE TypeOK'
  <2>1. job' \in [Slots -> Job \cup {None}] /\ faults' \in 0..MaxFaults
    BY <1>9 DEF RedisFails, Fault, TypeOK
  <2> QED
    BY <1>9, <2>1 DEF RedisFails, dbVars, TypeOK
<1>10. ASSUME Expire PROVE TypeOK'
  BY <1>10 DEF Expire, dbVars, countVars, historyVars, TypeOK
<1>11. ASSUME NEW h \in Handlers,
              NEW do \in {"settings", "profile", "disable", "enable"}, Load(h, do)
       PROVE  TypeOK'
  <2> DEFINE own == do # "profile" /\ quota # 0
             e == do = "enable" \/ (do = "settings" /\ enabled)
             q == IF own THEN quota ELSE 0
  <2>1. e \in BOOLEAN /\ own \in BOOLEAN /\ (own /\ Quiet) \in BOOLEAN
    BY Zenon DEF TypeOK
  <2>2. q \in Int
    BY DEF TypeOK
  <2>3. CallOf(do, "loaded", own, q, e, own /\ Quiet) \in Call
    BY <2>1, <2>2, CallTypes
  <2>4. handler' = [handler EXCEPT ![h] = CallOf(do, "loaded", own, q, e, own /\ Quiet)]
    BY <1>11 DEF Load
  <2> HIDE DEF own, e, q
  <2>5. handler' \in [Handlers -> Call \cup {None}]
    BY <2>3, <2>4 DEF TypeOK
  <2>6. calls' \in 0..MaxCalls
    BY <1>11 DEF Load, TypeOK
  <2> QED
    BY <1>11, <2>5, <2>6 DEF Load, dbVars, historyVars, TypeOK
<1>18. ASSUME NEW h \in Handlers, First(h) PROVE TypeOK'
  <2>1. Refreshed(handler[h]) \in Call
    <3>1. handler[h] \in Call
      BY <1>18 DEF First, TypeOK
    <3>2. (IF handler[h].own THEN handler[h].quota ELSE quota) \in Int
      BY <3>1, CallFields DEF TypeOK
    <3>3. /\ (IF handler[h].do = "profile" THEN enabled ELSE handler[h].enabled) \in BOOLEAN
          /\ (IF handler[h].own THEN handler[h].fresh ELSE Quiet) \in BOOLEAN
      BY <3>1, CallFields, QuietType, Zenon DEF TypeOK
    <3> QED
      BY <3>1, <3>2, <3>3, CallFields, CallTypes DEF Refreshed
  <2>2. handler' \in [Handlers -> Call \cup {None}]
    BY <1>18, <2>1 DEF First, TypeOK
  <2> QED
    BY <1>18, <2>2 DEF First, dbVars, countVars, historyVars, TypeOK
<1>12. ASSUME NEW h \in Handlers, Update(h) PROVE TypeOK'
  <2>1. handler[h] \in Call
    BY <1>12 DEF Update, TypeOK
  <2> DEFINE c == handler[h]
  <2>2. (IF c.own THEN c.quota ELSE quota) \in Int
    BY <2>1, CallFields DEF TypeOK
  <2>3. CASE /\ quota' = IF c.own THEN c.quota ELSE quota
             /\ enabled' = IF c.do = "profile" THEN enabled ELSE c.enabled
             /\ clobbered' = (clobbered \/ quota' # quota)
             /\ inStep' = (inStep /\ quota' = quota)
             /\ job' = IF quota' = quota THEN job ELSE StaleJobs
             /\ handler' = [g \in Handlers |->
                   IF g = h THEN CallOf(c.do, "updated", FALSE, c.quota, c.enabled, c.fresh)
                   ELSE IF quota' = quota THEN handler[g] ELSE StaleCall(handler[g])]
             /\ revoked' = (revoked /\ ~enabled')
             /\ UNCHANGED faults
    <3>1. CallOf(c.do, "updated", FALSE, c.quota, c.enabled, c.fresh) \in Call
      <4>1. FALSE \in BOOLEAN /\ "updated" \in {"loaded", "read", "updated", "cached"}
        OBVIOUS
      <4> QED
        BY <4>1, <2>1, CallFields, CallTypes
    <3>2. \A g \in Handlers : handler[g] \in Call \cup {None}
      BY DEF TypeOK
    <3>3. \A g \in Handlers :
            (IF g = h THEN CallOf(c.do, "updated", FALSE, c.quota, c.enabled, c.fresh)
             ELSE IF quota' = quota THEN handler[g] ELSE StaleCall(handler[g]))
            \in Call \cup {None}
      BY <3>1, <3>2, StaleTypes, Zenon
    <3>4. handler' \in [Handlers -> Call \cup {None}]
      BY <2>3, <3>3
    <3>5. job' \in [Slots -> Job \cup {None}]
      BY <2>3, StaleTypes DEF TypeOK
    <3>6. enabled' \in BOOLEAN
      BY <2>3, <2>1, CallFields, Zenon DEF TypeOK
    <3>7. clobbered' \in BOOLEAN /\ inStep' \in BOOLEAN /\ revoked' \in BOOLEAN
      BY <2>3, <3>6, Zenon DEF TypeOK
    <3>8. quota' \in Int
      BY <2>2, <2>3
    <3> QED
      BY <1>12, <2>3, <3>4, <3>5, <3>6, <3>7, <3>8 DEF Update, TypeOK
  <2>4. CASE /\ Fault
             /\ handler' = [handler EXCEPT ![h] = None]
             /\ UNCHANGED <<quota, enabled, clobbered, inStep, job, revoked>>
    <3>1. handler' \in [Handlers -> Call \cup {None}] /\ faults' \in 0..MaxFaults
      BY <2>4 DEF Fault, TypeOK
    <3> QED
      BY <1>12, <2>4, <3>1 DEF Update, TypeOK
  <2> QED
    BY <1>12, <2>3, <2>4 DEF Update
<1>13. ASSUME NEW h \in Handlers, SetHash(h) PROVE TypeOK'
  <2>1. handler[h] \in Call
    BY <1>13 DEF SetHash, TypeOK
  <2> DEFINE c == handler[h]
  <2>2. Hash(c.quota, c.enabled) \in Entry /\ c.fresh \in BOOLEAN
    BY <2>1, CallFields, HashTypes
  <2>3. CallOf(c.do, "cached", FALSE, 0, FALSE, FALSE) \in Call
    <3>1. FALSE \in BOOLEAN /\ 0 \in Int
      OBVIOUS
    <3> QED
      BY <3>1, <2>1, CallFields, CallTypes
  <2>4. handler' \in [Handlers -> Call \cup {None}]
    BY <1>13, <2>3 DEF SetHash, TypeOK
  <2>5. /\ cache' = Hash(c.quota, c.enabled) \/ cache' = cache
        /\ inStep' = c.fresh \/ inStep' = inStep
    BY <1>13, Zenon DEF SetHash
  <2>6. cache' \in Entry \cup {None} /\ inStep' \in BOOLEAN
    BY <2>2, <2>5 DEF TypeOK
  <2>7. faults' \in 0..MaxFaults
    <3>1. UNCHANGED faults \/ Fault
      BY <1>13, Zenon DEF SetHash
    <3> QED
      BY <3>1 DEF Fault, TypeOK
  <2> QED
    BY <1>13, <2>4, <2>6, <2>7 DEF SetHash, dbVars, TypeOK
<1>14. ASSUME NEW h \in Handlers, Invalidate(h) PROVE TypeOK'
  <2>1. handler' \in [Handlers -> Call \cup {None}]
    BY <1>14 DEF Invalidate, TypeOK
  <2>2. revoked' \in BOOLEAN
    BY <1>14, Zenon DEF Invalidate, TypeOK
  <2>3. cache' \in Entry \cup {None} /\ faults' \in 0..MaxFaults
    BY <1>14 DEF Invalidate, Invalidated, Fault, TypeOK
  <2> QED
    BY <1>14, <2>1, <2>2, <2>3 DEF Invalidate, dbVars, TypeOK
<1>15. ASSUME Crash PROVE TypeOK'
  <2>1. /\ job' \in [Slots -> Job \cup {None}] /\ handler' \in [Handlers -> Call \cup {None}]
        /\ write' \in [Slots -> Write \cup {None}]
    BY <1>15 DEF Crash
  <2>2. lost' \in Int /\ store' \in Int /\ drained' \in Int /\ faults' \in 0..MaxFaults
    BY <1>15 DEF Crash, Fault, TypeOK
  <2> QED
    BY <1>15, <2>1, <2>2 DEF Crash, TypeOK
<1>16. ASSUME UNCHANGED vars PROVE TypeOK'
  BY <1>16 DEF vars, dbVars, countVars, historyVars, TypeOK
<1>19. \A d \in TopUps : TopUp(d) => TypeOK'
  BY <1>2 DEF TopUp, TypeOK
<1>20. \A q \in Overrides : Override(q) => TypeOK'
  BY <1>2 DEF Override
<1> QED
  BY <1>1, <1>3, <1>4, <1>5, <1>6, <1>7, <1>8, <1>9, <1>10, <1>11, <1>12, <1>13, <1>14,
     <1>15, <1>16, <1>17, <1>18, <1>19, <1>20
     DEF Next, Batch, Goroutine, Handler

LEMMA TypeInit == Init => TypeOK
<1> SUFFICES ASSUME Init PROVE TypeOK
  OBVIOUS
<1>1. /\ enabled \in BOOLEAN /\ clobbered \in BOOLEAN
      /\ revoked \in BOOLEAN /\ inStep \in BOOLEAN
  BY Zenon DEF Init
<1>2. quota \in Int /\ owed \in Int /\ store \in Int /\ drained \in Int /\ lost \in Int
  BY StoreAssumption DEF Init
<1>3. MaxCalls \in Nat /\ MaxFaults \in Nat
  BY StoreAssumption
<1>4. calls \in 0..MaxCalls /\ faults \in 0..MaxFaults
  BY <1>3 DEF Init
<1>5. /\ job \in [Slots -> Job \cup {None}] /\ handler \in [Handlers -> Call \cup {None}]
      /\ write \in [Slots -> Write \cup {None}]
  BY DEF Init
<1>6. cache \in Entry \cup {None}
  BY DEF Init
<1> QED
  BY <1>1, <1>2, <1>4, <1>5, <1>6 DEF TypeOK

(* Type correctness, for every number of goroutines, handlers and changes.  *)
THEOREM TypeCorrect == Spec => []TypeOK
BY TypeInit, TypeStep, PTL DEF Spec

-----------------------------------------------------------------------------
(* The balance.                                                             *)

LEMMA ConservedStep ==
    ASSUME TypeOK, Conserved, [Next]_vars
    PROVE  Conserved'
<1> SUFFICES ASSUME ~clobbered' PROVE (quota + store + drained + lost = owed)'
  BY DEF Conserved
<1>0. /\ quota \in Int /\ store \in Int /\ drained \in Int /\ lost \in Int /\ owed \in Int
  BY DEF TypeOK
<1>1. ASSUME NEW s \in Slots, WriteChange(s)
      PROVE  (quota + store + drained + lost = owed)'
  <2>1. write[s].amount \in Int /\ quota + store + drained + lost = owed
    BY <1>1 DEF WriteChange, Write, TypeOK, Conserved
  <2>2. drained' = drained /\ lost' = lost
    BY <1>1 DEF WriteChange
  <2>3. \/ quota' = quota + write[s].amount /\ store' = store /\ owed' = owed + write[s].amount
        \/ quota' = quota /\ store' = store + write[s].amount /\ owed' = owed + write[s].amount
        \/ quota' = quota /\ store' = store /\ owed' = owed
    BY <1>1 DEF WriteChange
  <2> QED
    BY <1>0, <2>1, <2>2, <2>3
<1>2. ASSUME NEW q \in Int, SetRow(q) PROVE (quota + store + drained + lost = owed)'
  BY <1>0, <1>2 DEF SetRow, Conserved
<1>3. ASSUME Drain PROVE (quota + store + drained + lost = owed)'
  BY <1>0, <1>3 DEF Drain, LeftInStore, historyVars, Conserved
<1>4. ASSUME Flush PROVE (quota + store + drained + lost = owed)'
  BY <1>0, <1>4 DEF Flush, Conserved
<1>5. ASSUME UNCHANGED <<dbVars, lost, owed, clobbered>>
      PROVE  (quota + store + drained + lost = owed)'
  BY <1>5 DEF dbVars, Conserved
<1>6. ASSUME NEW h \in Handlers, Update(h)
      PROVE  (quota + store + drained + lost = owed)'
  <2>1. quota' = quota /\ ~clobbered
    <3>1. CASE clobbered' = (clobbered \/ quota' # quota)
      BY <3>1, Zenon
    <3>2. CASE quota' = quota /\ clobbered' = clobbered
      BY <3>2, Zenon
    <3> QED
      BY <1>6, <3>1, <3>2 DEF Update
  <2> QED
    BY <1>6, <2>1 DEF Update, Conserved
<1>7. ASSUME Crash PROVE (quota + store + drained + lost = owed)'
  BY <1>0, <1>7 DEF Crash, Conserved
<1>8. ASSUME \/ Miss \/ Expire \/ UNCHANGED vars
             \/ \E s \in Slots : Goroutine(s) \/ RedisFails(s)
             \/ \E d \in Changes, db \in BOOLEAN : Change(d, db)
             \/ \E h \in Handlers : First(h) \/ SetHash(h) \/ Invalidate(h)
             \/ \E h \in Handlers :
                   \E do \in {"settings", "profile", "disable", "enable"} : Load(h, do)
      PROVE  UNCHANGED <<dbVars, lost, owed, clobbered>>
  BY <1>8 DEF Miss, Expire, vars, Goroutine, Fill, Check, Add, RedisFails, Change, First,
              SetHash, Invalidate, Load, historyVars
<1>9. \A d \in TopUps : TopUp(d) => (quota + store + drained + lost = owed)'
  BY <1>0, <1>2, StoreAssumption DEF TopUp
<1>10. \A q \in Overrides : Override(q) => (quota + store + drained + lost = owed)'
  BY <1>2, StoreAssumption DEF Override
<1> QED
  BY <1>1, <1>3, <1>4, <1>5, <1>6, <1>7, <1>8, <1>9, <1>10 DEF Next, Batch, Handler

(* However the batch updater, changes, top-ups and kills interleave, every  *)
(* change is counted once, in the row, in memory or as lost.                *)
THEOREM BalanceConserved == Spec => []Conserved
<1>1. Init => Conserved
  BY StoreAssumption DEF Init, Conserved
<1> QED
  BY <1>1, TypeCorrect, ConservedStep, PTL DEF Spec

-----------------------------------------------------------------------------
(* A disabled user.                                                         *)

(* Who can still write "enabled" into the row or the hash.                  *)
NobodyHoldsEnabled ==
    /\ \A s \in Slots : job[s] # None /\ job[s].do = "fill" => ~job[s].enabled
    /\ \A h \in Handlers :
          handler[h] # None /\ handler[h].enabled
          => handler[h].do = "enable" /\ handler[h].stage \in {"loaded", "read"}

Refusal == revoked => DisabledIsRefused /\ NobodyHoldsEnabled

LEMMA RefusalStep ==
    ASSUME TypeOK, Refusal, [Next]_vars
    PROVE  Refusal'
<1> SUFFICES ASSUME revoked' PROVE DisabledIsRefused' /\ NobodyHoldsEnabled'
  BY DEF Refusal
<1> USE DEF DisabledIsRefused
<1>0. revoked => ~enabled /\ (cache # None => ~cache.enabled) /\ NobodyHoldsEnabled
  BY DEF Refusal
<1>a. /\ \A s \in Slots : StaleJobs[s] = StaleJob(job[s])
      /\ \A h \in Handlers : StaleHandlers[h] = StaleCall(handler[h])
  BY DEF StaleJobs, StaleHandlers
<1>b. \A s \in Slots : job[s] = None => StaleJob(job[s]) = None
  BY DEF StaleJob
<1>c. \A s \in Slots : StaleJob(job[s]) # None =>
         /\ job[s] # None /\ StaleJob(job[s]).do = job[s].do
         /\ StaleJob(job[s]).enabled = job[s].enabled
  BY DEF StaleJob, JobOf
<1>d. \A h \in Handlers : StaleCall(handler[h]) # None =>
         /\ handler[h] # None /\ StaleCall(handler[h]).do = handler[h].do
         /\ StaleCall(handler[h]).enabled = handler[h].enabled
         /\ StaleCall(handler[h]).stage = handler[h].stage
  BY DEF StaleCall, CallOf
<1>e. NobodyHoldsEnabled =>
         /\ \A s \in Slots : StaleJob(job[s]) # None /\ StaleJob(job[s]).do = "fill"
                             => ~StaleJob(job[s]).enabled
         /\ \A h \in Handlers :
               StaleCall(handler[h]) # None /\ StaleCall(handler[h]).enabled
               => /\ StaleCall(handler[h]).do = "enable"
                  /\ StaleCall(handler[h]).stage \in {"loaded", "read"}
  BY <1>c, <1>d DEF NobodyHoldsEnabled
<1>1. ASSUME NEW d \in Changes, NEW db \in BOOLEAN, Change(d, db)
      PROVE  DisabledIsRefused' /\ NobodyHoldsEnabled'
  <2>1. revoked /\ enabled' = enabled /\ cache' = cache /\ handler' = StaleHandlers
    BY <1>1 DEF Change, dbVars, historyVars
  <2>2. PICK s \in Slots :
          job' = [StaleJobs EXCEPT ![s] = JobOf("incr", FALSE, CachedChange(d), FALSE, FALSE)]
    BY <1>1 DEF Change
  <2>3. \A r \in Slots : job'[r] = StaleJob(job[r]) \/ job'[r].do = "incr"
    BY <2>2, <1>a DEF StaleJobs, JobOf
  <2>4. NobodyHoldsEnabled'
    BY <2>1, <2>3, <1>0, <1>a, <1>e DEF NobodyHoldsEnabled
  <2> QED
    BY <2>1, <2>4, <1>0
<1>2. ASSUME NEW q, SetRow(q) PROVE DisabledIsRefused' /\ NobodyHoldsEnabled'
  <2>1. /\ revoked /\ enabled' = enabled /\ cache' = cache
        /\ handler' = StaleHandlers /\ job' = StaleJobs
    BY <1>2 DEF SetRow
  <2>2. NobodyHoldsEnabled'
    BY <2>1, <1>0, <1>a, <1>e DEF NobodyHoldsEnabled
  <2> QED
    BY <2>1, <2>2, <1>0
<1>3. ASSUME Batch \/ UNCHANGED vars \/ \E s \in Slots : WriteChange(s)
      PROVE  DisabledIsRefused' /\ NobodyHoldsEnabled'
  <2>1. revoked /\ UNCHANGED <<enabled, cache, job, handler>>
    BY <1>3 DEF Batch, Drain, Flush, WriteChange, vars, dbVars, historyVars
  <2> QED
    BY <2>1, <1>0 DEF NobodyHoldsEnabled
<1>4. ASSUME Miss PROVE DisabledIsRefused' /\ NobodyHoldsEnabled'
  <2>1. revoked /\ UNCHANGED <<enabled, cache, handler>>
    BY <1>4 DEF Miss, dbVars, historyVars
  <2>2. PICK s \in Slots :
          job' = [job EXCEPT ![s] = JobOf("fill", TRUE, quota, enabled, Quiet)]
    BY <1>4 DEF Miss
  <2>3. \A r \in Slots : job'[r] = job[r] \/ job'[r].enabled = enabled
    BY <2>2 DEF TypeOK, JobOf
  <2>4. NobodyHoldsEnabled'
    BY <2>1, <2>3, <1>0 DEF NobodyHoldsEnabled
  <2> QED
    BY <2>1, <2>4, <1>0
<1>5. ASSUME NEW s \in Slots, Fill(s) PROVE DisabledIsRefused' /\ NobodyHoldsEnabled'
  <2>1. revoked /\ UNCHANGED <<enabled, handler>> /\ cache' = Hash(job[s].quota, job[s].enabled)
    BY <1>5 DEF Fill, dbVars
  <2>2. ~job[s].enabled
    BY <1>5, <2>1, <1>0 DEF Fill, NobodyHoldsEnabled
  <2>3. \A r \in Slots : job'[r] = job[r] \/ job'[r] = None
    BY <1>5 DEF Fill, TypeOK
  <2>4. NobodyHoldsEnabled'
    BY <2>1, <2>3, <1>0 DEF NobodyHoldsEnabled
  <2>5. ~cache'.enabled
    BY <2>1, <2>2 DEF Hash
  <2> QED
    BY <2>1, <2>4, <2>5, <1>0
<1>6. ASSUME NEW s \in Slots, Check(s) PROVE DisabledIsRefused' /\ NobodyHoldsEnabled'
  <2>1. revoked /\ UNCHANGED <<enabled, cache, handler>>
    BY <1>6 DEF Check, dbVars, historyVars
  <2>2. \A r \in Slots : job'[r] = job[r] \/ job'[r] = None \/ job'[r].do = "incr"
    BY <1>6 DEF Check, TypeOK, JobOf
  <2>3. NobodyHoldsEnabled'
    BY <2>1, <2>2, <1>0 DEF NobodyHoldsEnabled
  <2> QED
    BY <2>1, <2>3, <1>0
<1>7. ASSUME NEW s \in Slots, Add(s) PROVE DisabledIsRefused' /\ NobodyHoldsEnabled'
  <2>1. revoked /\ UNCHANGED <<enabled, handler>>
    BY <1>7 DEF Add, dbVars
  <2>2. ~cache'.enabled
    BY <1>7, <2>1, <1>0 DEF Add, Hash
  <2>3. \A r \in Slots : job'[r] = job[r] \/ job'[r] = None
    BY <1>7 DEF Add, TypeOK
  <2>4. NobodyHoldsEnabled'
    BY <2>1, <2>3, <1>0 DEF NobodyHoldsEnabled
  <2> QED
    BY <2>1, <2>2, <2>4, <1>0
<1>8. ASSUME NEW s \in Slots, RedisFails(s) PROVE DisabledIsRefused' /\ NobodyHoldsEnabled'
  <2>1. revoked /\ UNCHANGED <<enabled, cache, handler>>
    BY <1>8 DEF RedisFails, dbVars
  <2>2. \A r \in Slots : job'[r] = job[r] \/ job'[r] = None
    BY <1>8 DEF RedisFails, TypeOK
  <2>3. NobodyHoldsEnabled'
    BY <2>1, <2>2, <1>0 DEF NobodyHoldsEnabled
  <2> QED
    BY <2>1, <2>3, <1>0
<1>9. ASSUME Expire \/ Crash PROVE DisabledIsRefused' /\ NobodyHoldsEnabled'
  <2>1. /\ revoked /\ enabled' = enabled /\ cache' \in {None, cache}
        /\ \A s \in Slots : job'[s] \in {None, job[s]}
        /\ \A h \in Handlers : handler'[h] \in {None, handler[h]}
    BY <1>9 DEF Expire, Crash, dbVars, historyVars
  <2> QED
    BY <2>1, <1>0 DEF NobodyHoldsEnabled
<1>10. ASSUME NEW h \in Handlers,
              NEW do \in {"settings", "profile", "disable", "enable"}, Load(h, do)
       PROVE  DisabledIsRefused' /\ NobodyHoldsEnabled'
  <2>1. revoked /\ UNCHANGED <<enabled, cache, job>>
    BY <1>10 DEF Load, dbVars, historyVars
  <2>2. \A g \in Handlers :
           \/ handler'[g] = handler[g]
           \/ /\ handler'[g].do = do /\ handler'[g].stage = "loaded"
              /\ handler'[g].enabled = (do = "enable" \/ (do = "settings" /\ enabled))
    BY <1>10 DEF Load, TypeOK, CallOf
  <2>3. \A g \in Handlers :
           \/ handler'[g] = handler[g]
           \/ handler'[g].do = "enable" /\ handler'[g].stage = "loaded"
           \/ ~handler'[g].enabled
    BY <2>1, <2>2, <1>0
  <2>4. NobodyHoldsEnabled'
    BY <2>1, <2>3, <1>0 DEF NobodyHoldsEnabled
  <2> QED
    BY <2>1, <2>4, <1>0
<1>16. ASSUME NEW h \in Handlers, First(h) PROVE DisabledIsRefused' /\ NobodyHoldsEnabled'
  <2>1. /\ revoked /\ UNCHANGED <<enabled, cache, job>>
        /\ handler[h] # None /\ handler[h].stage = "loaded"
        /\ handler' = [handler EXCEPT ![h] = Refreshed(handler[h])]
    BY <1>16 DEF First, dbVars, historyVars
  <2>2. \A g \in Handlers \ {h} : handler'[g] = handler[g]
    BY <2>1 DEF TypeOK
  <2>3. /\ handler'[h].do = handler[h].do /\ handler'[h].stage = "read"
        /\ handler'[h].enabled =
              IF handler[h].do = "profile" THEN enabled ELSE handler[h].enabled
    BY <2>1 DEF TypeOK, Refreshed, CallOf
  <2>4. NobodyHoldsEnabled'
    BY <2>1, <2>2, <2>3, <1>0 DEF NobodyHoldsEnabled
  <2> QED
    BY <2>1, <2>4, <1>0
<1>11. ASSUME NEW h \in Handlers, Update(h) PROVE DisabledIsRefused' /\ NobodyHoldsEnabled'
  <2>1. handler[h] # None /\ cache' = cache
    BY <1>11 DEF Update
  <2> DEFINE c == handler[h]
  <2>2. CASE /\ enabled' = IF c.do = "profile" THEN enabled ELSE c.enabled
             /\ job' = IF quota' = quota THEN job ELSE StaleJobs
             /\ handler' = [g \in Handlers |->
                   IF g = h THEN CallOf(c.do, "updated", FALSE, c.quota, c.enabled, c.fresh)
                   ELSE IF quota' = quota THEN handler[g] ELSE StaleCall(handler[g])]
             /\ revoked' = (revoked /\ ~enabled')
    <3>1. revoked /\ ~enabled'
      BY <2>2
    <3>2. ~c.enabled
      <4>1. c.enabled => c.do = "enable"
        BY <3>1, <2>1, <1>0 DEF NobodyHoldsEnabled
      <4> QED
        BY <4>1, <3>1, <2>2
    <3>3. \A s \in Slots : job'[s] = job[s] \/ job'[s] = StaleJob(job[s])
      BY <2>2, <1>a
    <3>4. \A g \in Handlers :
             \/ handler'[g] = handler[g] \/ handler'[g] = StaleCall(handler[g])
             \/ ~handler'[g].enabled
      BY <2>2, <3>2 DEF CallOf
    <3>5. NobodyHoldsEnabled'
      BY <3>1, <3>3, <3>4, <1>0, <1>e DEF NobodyHoldsEnabled
    <3> QED
      BY <2>1, <3>1, <3>5, <1>0
  <2>3. CASE /\ handler' = [handler EXCEPT ![h] = None]
             /\ UNCHANGED <<enabled, job, revoked>>
    <3>1. \A g \in Handlers : handler'[g] = handler[g] \/ handler'[g] = None
      BY <2>3 DEF TypeOK
    <3>2. NobodyHoldsEnabled'
      BY <2>3, <3>1, <1>0 DEF NobodyHoldsEnabled
    <3> QED
      BY <2>1, <2>3, <3>2, <1>0
  <2> QED
    BY <1>11, <2>2, <2>3 DEF Update
<1>12. ASSUME NEW h \in Handlers, SetHash(h) PROVE DisabledIsRefused' /\ NobodyHoldsEnabled'
  <2> DEFINE c == handler[h]
  <2>1. /\ revoked /\ UNCHANGED <<enabled, job>> /\ c # None /\ c.stage = "updated"
        /\ cache' \in {cache, Hash(c.quota, c.enabled)}
    BY <1>12 DEF SetHash, dbVars
  <2>2. ~c.enabled
    BY <2>1, <1>0 DEF NobodyHoldsEnabled
  <2>3. ~Hash(c.quota, c.enabled).enabled
    BY <2>2 DEF Hash
  <2>4. \A g \in Handlers :
           handler'[g] = handler[g] \/ handler'[g] = None \/ ~handler'[g].enabled
    BY <1>12 DEF SetHash, TypeOK, CallOf
  <2>5. NobodyHoldsEnabled'
    BY <2>1, <2>4, <1>0 DEF NobodyHoldsEnabled
  <2> QED
    BY <2>1, <2>3, <2>5, <1>0
<1>13. ASSUME NEW h \in Handlers, Invalidate(h) PROVE DisabledIsRefused' /\ NobodyHoldsEnabled'
  <2>1. /\ UNCHANGED <<enabled, job>> /\ handler' = [handler EXCEPT ![h] = None]
        /\ \/ cache' = None /\ (revoked \/ (~enabled /\ ~OlderCopy))
           \/ cache' = cache /\ revoked
    BY <1>13 DEF Invalidate, Invalidated, dbVars
  <2>2. \A g \in Handlers : handler'[g] \in {None, handler[g]}
    BY <2>1 DEF TypeOK
  <2>3. NobodyHoldsEnabled
    BY <2>1, <1>0 DEF OlderCopy, NobodyHoldsEnabled
  <2>4. NobodyHoldsEnabled'
    BY <2>1, <2>2, <2>3 DEF NobodyHoldsEnabled
  <2> QED
    BY <2>1, <2>4, <1>0
<1>14. \A d \in TopUps : TopUp(d) => DisabledIsRefused' /\ NobodyHoldsEnabled'
  BY <1>2 DEF TopUp
<1>15. \A q \in Overrides : Override(q) => DisabledIsRefused' /\ NobodyHoldsEnabled'
  BY <1>2 DEF Override
<1> QED
  BY <1>1, <1>3, <1>4, <1>5, <1>6, <1>7, <1>8, <1>9, <1>10, <1>11, <1>12, <1>13, <1>14, <1>15, <1>16
     DEF Next, Goroutine, Handler

(* A user who was disabled, and whose hash was cleared, while nobody held   *)
(* an older copy is refused until somebody enables the user, whatever fills,*)
(* calls and errors of Redis come.                                          *)
THEOREM DisabledRefused == Spec => []DisabledIsRefused
<1>1. Init => Refusal
  BY DEF Init, Refusal
<1>2. Refusal => DisabledIsRefused
  BY DEF Refusal, DisabledIsRefused
<1> QED
  BY <1>1, <1>2, TypeCorrect, RefusalStep, PTL DEF Spec

-----------------------------------------------------------------------------
(* The hash.                                                                *)

(* What goroutines have yet to add to the hash, less what callers have yet  *)
(* to write.                                                                *)
Unadded == SumFunction([s \in Slots |-> ToAdd(s) - ToWrite(s)])

(* A copy that counts as fresh is the balance, and nobody is changing it.   *)
FreshJob(s) ==
    job[s] # None /\ job[s].fresh
    => job[s].do = "fill" /\ job[s].quota = quota /\ Quiet
FreshCall(h) ==
    handler[h] # None /\ handler[h].fresh
    => handler[h].stage # "cached" /\ handler[h].quota = quota /\ Quiet

Freshness == (\A s \in Slots : FreshJob(s)) /\ (\A h \in Handlers : FreshCall(h))

(* Amounts to be added and written are integers.                            *)
LEMMA AmountType ==
    ASSUME NEW j \in [Slots -> Job \cup {None}], NEW w \in [Slots -> Write \cup {None}],
           NEW f, f = [s \in Slots |->
                         (IF s \in {r \in Slots : j[r] # None /\ j[r].do = "incr"}
                          THEN j[s].quota ELSE 0)
                         - (IF w[s] = None THEN 0 ELSE w[s].amount)]
    PROVE  f \in [Slots -> Int]
<1>1. ASSUME NEW s \in Slots PROVE f[s] \in Int
  <2>1. j[s] # None => j[s].quota \in Int
    BY JobFields
  <2>2. w[s] # None => w[s].amount \in Int
    BY DEF Write
  <2> QED
    BY <2>1, <2>2
<1> QED
  BY <1>1

(* One slot changes: so does the sum, by the difference.                    *)
LEMMA OneSlot ==
    ASSUME TypeOK, TypeOK', NEW s \in Slots,
           \A r \in Slots \ {s} : ToAdd(r)' = ToAdd(r) /\ ToWrite(r)' = ToWrite(r)
    PROVE  Unadded' = Unadded + ((ToAdd(s)' - ToWrite(s)') - (ToAdd(s) - ToWrite(s)))
<1> DEFINE f == [r \in Slots |-> ToAdd(r) - ToWrite(r)]
           g == [r \in Slots |-> ToAdd(r)' - ToWrite(r)']
<1>1. f \in [Slots -> Int] /\ IsFiniteSet(Slots)
  BY AmountType, StoreAssumption DEF TypeOK, ToAdd, ToWrite, Increments
<1>2. g \in [Slots -> Int]
  BY AmountType DEF TypeOK, ToAdd, ToWrite, Increments
<1>3. \A r \in Slots \ {s} : g[r] = f[r]
  OBVIOUS
<1>4. f[s] = ToAdd(s) - ToWrite(s) /\ g[s] = ToAdd(s)' - ToWrite(s)'
  OBVIOUS
<1> HIDE DEF f, g
<1>5. SumFunction(g) = SumFunction(f) + (g[s] - f[s])
  BY <1>1, <1>2, <1>3, SumOneChanged
<1> QED
  BY <1>4, <1>5 DEF Unadded, f, g

(* No slot changes: nor does the sum.                                       *)
LEMMA NoSlot ==
    ASSUME \A s \in Slots : ToAdd(s)' = ToAdd(s), write' = write
    PROVE  Unadded' = Unadded
<1>1. \A s \in Slots : ToWrite(s)' = ToWrite(s)
  BY DEF ToWrite
<1>2. [s \in Slots |-> ToAdd(s) - ToWrite(s)]' = [s \in Slots |-> ToAdd(s) - ToWrite(s)]
  BY <1>1
<1> QED
  BY <1>2 DEF Unadded

(* Nothing is to be added when it is quiet.                                 *)
LEMMA QuietSum ==
    ASSUME TypeOK, Quiet
    PROVE  Unadded = 0
<1>1. \A s \in Slots : ToAdd(s) = 0 /\ ToWrite(s) = 0
  BY DEF Quiet, ToAdd, ToWrite
<1> DEFINE f == [s \in Slots |-> ToAdd(s) - ToWrite(s)]
<1>2. f \in [Slots -> Int] /\ IsFiniteSet(Slots) /\ \A s \in Slots : f[s] = 0
  BY <1>1, StoreAssumption
<1> HIDE DEF f
<1>3. SumFunction(f) = 0
  BY <1>2, SumOfNothing
<1> QED
  BY <1>3 DEF Unadded, f

(* Copies stay fresh as long as the quiet lasts.                            *)
LEMMA StaysFresh ==
    ASSUME Freshness,
           Quiet => Quiet' /\ quota' = quota,
           \A s \in Slots : \/ job'[s] \in {None, job[s]}
                            \/ ~job'[s].fresh,
           \A h \in Handlers : \/ handler'[h] \in {None, handler[h]}
                               \/ ~handler'[h].fresh
    PROVE  Freshness'
<1>1. ASSUME NEW s \in Slots PROVE FreshJob(s)'
  BY DEF Freshness, FreshJob
<1>2. ASSUME NEW h \in Handlers PROVE FreshCall(h)'
  BY DEF Freshness, FreshCall
<1> QED
  BY <1>1, <1>2 DEF Freshness

(* Nothing is left that counts as fresh.                                    *)
LEMMA AllStale ==
    /\ \A s \in Slots : StaleJobs[s] = None \/ ~StaleJobs[s].fresh
    /\ \A h \in Handlers : StaleHandlers[h] = None \/ ~StaleHandlers[h].fresh
    /\ \A h \in Handlers : StaleCall(handler[h]) = None \/ ~StaleCall(handler[h]).fresh
BY DEF StaleJobs, StaleHandlers, StaleJob, StaleCall, JobOf, CallOf

(* A stale copy of a goroutine adds as much.                                *)
LEMMA StaleAddsTheSame ==
    ASSUME TypeOK, NEW s \in Slots, job'[s] = StaleJobs[s]
    PROVE  ToAdd(s)' = ToAdd(s)
<1>1. CASE job[s] = None
  BY <1>1 DEF StaleJobs, StaleJob, ToAdd, Increments
<1>2. CASE job[s] # None
  <2>1. job[s] \in Job /\ FALSE \in BOOLEAN
    BY <1>2 DEF TypeOK
  <2> DEFINE j == JobOf(job[s].do, job[s].checked, job[s].quota, job[s].enabled, FALSE)
  <2>2. j \in Job /\ j # None
    <3>1. j \in Job
      BY <2>1, JobFields, JobTypes
    <3> HIDE DEF j
    <3> QED
      BY <3>1, NoneAssumption
  <2>3. j.do = job[s].do /\ j.quota = job[s].quota
    BY DEF JobOf
  <2>4. job'[s] = j
    BY <1>2 DEF StaleJobs, StaleJob
  <2> QED
    BY <1>2, <2>2, <2>3, <2>4 DEF ToAdd, Increments
<1> QED
  BY <1>1, <1>2

(* What is written into an empty slot is not there to be mistaken for none. *)
LEMMA JobsAreThere ==
    ASSUME NEW do \in {"incr", "fill"}, NEW checked \in BOOLEAN, NEW q \in Int,
           NEW e \in BOOLEAN, NEW fresh \in BOOLEAN
    PROVE  /\ JobOf(do, checked, q, e, fresh) # None
           /\ JobOf(do, checked, q, e, fresh).do = do
           /\ JobOf(do, checked, q, e, fresh).quota = q
           /\ JobOf(do, checked, q, e, fresh).fresh = fresh
<1>1. JobOf(do, checked, q, e, fresh) \in Job
  BY JobTypes
<1>2. JobOf(do, checked, q, e, fresh) # None
  BY <1>1, NoneAssumption
<1> QED
  BY <1>2 DEF JobOf

HashInv == CacheInStep /\ Freshness

(* Only the balance changes, or an amount to add, or both by the same; then *)
(* the hash stays in step.                                                  *)
LEMMA InStepKept ==
    ASSUME CacheInStep, NEW d \in Int, TypeOK,
           inStep' /\ cache' # None =>
              /\ inStep /\ cache' = cache
              /\ quota' + store' + drained' = quota + store + drained + d
              /\ Unadded' = Unadded + d
    PROVE  CacheInStep'
<1> SUFFICES ASSUME inStep', cache' # None
             PROVE  cache'.quota + Unadded' = quota' + store' + drained'
  BY DEF CacheInStep, Unadded
<1>1. cache.quota + Unadded = quota + store + drained /\ cache \in Entry
  BY DEF CacheInStep, Unadded, TypeOK
<1>2. Unadded \in Int
  BY AmountType, SumType, StoreAssumption DEF Unadded, TypeOK, ToAdd, ToWrite, Increments
<1>3. cache.quota \in Int /\ quota \in Int /\ store \in Int /\ drained \in Int
  BY <1>1 DEF Entry, TypeOK
<1> QED
  BY <1>1, <1>2, <1>3

(* Every step keeps the hash in step, and fresh copies fresh.               *)
LEMMA HashStep ==
    ASSUME TypeOK, TypeOK', HashInv, [Next]_vars
    PROVE  HashInv'
<1>t. /\ job \in [Slots -> Job \cup {None}] /\ handler \in [Handlers -> Call \cup {None}]
      /\ write \in [Slots -> Write \cup {None}]
  BY DEF TypeOK
<1>i. /\ quota \in Int /\ store \in Int /\ drained \in Int
      /\ quota' \in Int /\ store' \in Int /\ drained' \in Int
  BY DEF TypeOK
<1>f. CacheInStep /\ Freshness
  BY DEF HashInv
<1>1. ASSUME NEW d \in Changes, NEW db \in BOOLEAN, Change(d, db) PROVE HashInv'
  <2>1. d \in Int /\ (BatchOn /\ ~db) \in BOOLEAN
    BY StoreAssumption
  <2>2. PICK s \in Slots :
          /\ job[s] = None /\ write[s] = None
          /\ job' = [StaleJobs EXCEPT ![s] = JobOf("incr", FALSE, d, FALSE, FALSE)]
          /\ write' = [write EXCEPT ![s] = WriteOf(d, BatchOn /\ ~db)]
    BY <1>1 DEF Change, CachedChange
  <2>3. /\ job'[s] = JobOf("incr", FALSE, d, FALSE, FALSE)
        /\ \A r \in Slots \ {s} : job'[r] = StaleJobs[r]
    BY <2>2, <1>t DEF StaleJobs
  <2>4. /\ write'[s] = WriteOf(d, BatchOn /\ ~db)
        /\ \A r \in Slots \ {s} : write'[r] = write[r]
    BY <2>2, <1>t
  <2>5. \A r \in Slots \ {s} : ToAdd(r)' = ToAdd(r) /\ ToWrite(r)' = ToWrite(r)
    BY <2>3, <2>4, StaleAddsTheSame DEF ToWrite
  <2>6. ToAdd(s)' = d /\ ToAdd(s) = 0
    <3>1. FALSE \in BOOLEAN /\ "incr" \in {"incr", "fill"}
      OBVIOUS
    <3>2. /\ JobOf("incr", FALSE, d, FALSE, FALSE) # None
          /\ JobOf("incr", FALSE, d, FALSE, FALSE).do = "incr"
          /\ JobOf("incr", FALSE, d, FALSE, FALSE).quota = d
      BY <2>1, <3>1, JobsAreThere, Zenon
    <3>3. job'[s] # None /\ job'[s].do = "incr" /\ job'[s].quota = d
      BY <2>3, <3>2
    <3> QED
      BY <2>2, <3>3 DEF ToAdd, Increments
  <2>7. ToWrite(s)' = d /\ ToWrite(s) = 0
    <3>1. WriteOf(d, BatchOn /\ ~db) # None
      BY <2>1, WriteTypes, NoneAssumption
    <3>2. WriteOf(d, BatchOn /\ ~db).amount = d
      BY DEF WriteOf
    <3> QED
      BY <2>2, <2>4, <3>1, <3>2 DEF ToWrite
  <2>8. Unadded' = Unadded + 0
    <3>1. Unadded' = Unadded + ((ToAdd(s)' - ToWrite(s)') - (ToAdd(s) - ToWrite(s)))
      BY <2>5, OneSlot
    <3> QED
      BY <2>1, <2>6, <2>7, <3>1
  <2>9. UNCHANGED <<dbVars, cache, inStep>>
    BY <1>1 DEF Change, historyVars
  <2>10. quota' + store' + drained' = quota + store + drained + 0
    BY <2>9, <1>i DEF dbVars
  <2>11. CacheInStep'
    <3>1. 0 \in Int /\ cache' = cache /\ inStep' = inStep
      BY <2>9
    <3> QED
      BY <3>1, <2>8, <2>10, <1>f, InStepKept
  <2>12. Freshness'
    <3>1. \A r \in Slots : job'[r] = None \/ ~job'[r].fresh
      <4>1. ~JobOf("incr", FALSE, d, FALSE, FALSE).fresh
        BY DEF JobOf
      <4> QED
        BY <2>3, <4>1, AllStale
    <3>2. \A h \in Handlers : handler'[h] = None \/ ~handler'[h].fresh
      BY <1>1, AllStale DEF Change
    <3> QED
      BY <3>1, <3>2 DEF Freshness, FreshJob, FreshCall
  <2> QED
    BY <2>11, <2>12 DEF HashInv
<1>17. ASSUME NEW s \in Slots, WriteChange(s) PROVE HashInv'
  <2> DEFINE d == write[s].amount
  <2>1. /\ write[s] # None /\ write' = [write EXCEPT ![s] = None]
        /\ UNCHANGED <<cache, drained, job, handler>>
    BY <1>17 DEF WriteChange
  <2>2. d \in Int
    BY <2>1, <1>t DEF Write
  <2>3. ToWrite(s) = d /\ ToWrite(s)' = 0
    BY <2>1, <1>t DEF ToWrite
  <2>4. ToAdd(s) \in Int /\ Unadded \in Int
    BY <1>t, JobFields, AmountType, SumType, StoreAssumption
       DEF Unadded, ToAdd, ToWrite, Increments
  <2>5. \A r \in Slots : ToAdd(r)' = ToAdd(r)
    BY <2>1 DEF ToAdd, Increments
  <2>6. \A r \in Slots \ {s} : ToWrite(r)' = ToWrite(r)
    BY <2>1, <1>t DEF ToWrite
  <2>7. Unadded' = Unadded + d
    <3>1. Unadded' = Unadded + ((ToAdd(s)' - ToWrite(s)') - (ToAdd(s) - ToWrite(s)))
      BY <2>5, <2>6, OneSlot
    <3> HIDE DEF d
    <3> QED
      BY <2>2, <2>3, <2>4, <2>5, <3>1
  <2>8. inStep' => inStep /\ quota' + store' + drained' = quota + store + drained + d
    <3>1. \/ inStep' = inStep /\ quota' = quota + d /\ store' = store
          \/ inStep' = inStep /\ quota' = quota /\ store' = store + d
          \/ inStep' = FALSE
      BY <1>17, Zenon DEF WriteChange
    <3>2. \/ quota' = quota + d /\ store' = store
          \/ quota' = quota /\ store' = store + d
          => quota' + store' + drained' = quota + store + drained + d
      BY <2>1, <2>2, <1>i
    <3> QED
      BY <3>1, <3>2, Zenon
  <2>9. CacheInStep'
    <3> HIDE DEF d
    <3> QED
      BY <2>1, <2>2, <2>7, <2>8, <1>f, InStepKept
  <2>10. Freshness'
    <3>1. ~Quiet
      BY <2>1 DEF Quiet
    <3> QED
      BY <2>1, <3>1, <1>f, StaysFresh
  <2> QED
    BY <2>9, <2>10 DEF HashInv
<1>2. ASSUME NEW q, SetRow(q) PROVE HashInv'
  <2>1. ~inStep' /\ job' = StaleJobs /\ handler' = StaleHandlers
    BY <1>2 DEF SetRow
  <2> QED
    BY <2>1, AllStale DEF HashInv, CacheInStep, Freshness, FreshJob, FreshCall
<1>k. ASSUME \A s \in Slots : ToAdd(s)' = ToAdd(s), write' = write,
             cache' \in {None, cache},
             inStep' => inStep /\ quota' + store' + drained' = quota + store + drained
      PROVE  CacheInStep'
  <2>1. Unadded' = Unadded /\ Unadded \in Int
    BY <1>k, <1>t, NoSlot, AmountType, SumType, StoreAssumption
       DEF Unadded, ToAdd, ToWrite, Increments
  <2>2. Unadded' = Unadded + 0 /\ quota + store + drained = quota + store + drained + 0
    BY <2>1, <1>i
  <2> QED
    BY <2>2, <1>f, <1>k, InStepKept
<1>3. ASSUME Batch PROVE HashInv'
  <2>1. job' = job /\ write' = write /\ handler' = handler /\ cache' = cache /\ ~Quiet
    BY <1>3 DEF Batch, Drain, Flush, Due, Quiet
  <2>2. \A s \in Slots : ToAdd(s)' = ToAdd(s)
    BY <2>1 DEF ToAdd, Increments
  <2>3. inStep' => inStep /\ quota' + store' + drained' = quota + store + drained
    <3>1. CASE Drain
      <4>1. inStep' = inStep
        BY <3>1 DEF Drain, historyVars
      <4>2. quota' + store' + drained' = quota + store + drained
        BY <3>1, <1>i DEF Drain, LeftInStore
      <4> QED
        BY <4>1, <4>2, Zenon
    <3>2. CASE Flush
      <4>1. \/ inStep' = inStep /\ quota' = quota + drained
            \/ inStep' = FALSE
        BY <3>2, Zenon DEF Flush
      <4>2. quota' = quota + drained
            => quota' + store' + drained' = quota + store + drained
        BY <3>2, <1>i DEF Flush
      <4> QED
        BY <4>1, <4>2, Zenon
    <3> QED
      BY <1>3, <3>1, <3>2 DEF Batch
  <2>4. CacheInStep'
    BY <2>1, <2>2, <2>3, <1>k
  <2>5. Freshness'
    BY <2>1, <1>f, StaysFresh
  <2> QED
    BY <2>4, <2>5 DEF HashInv
<1>4. ASSUME Miss PROVE HashInv'
  <2>1. PICK s \in Slots :
          /\ job[s] = None
          /\ job' = [job EXCEPT ![s] = JobOf("fill", TRUE, quota, enabled, Quiet)]
    BY <1>4 DEF Miss
  <2>2. UNCHANGED <<dbVars, cache, write, handler, historyVars>>
    BY <1>4 DEF Miss
  <2>3. /\ job'[s] # None /\ job'[s].do = "fill" /\ job'[s].quota = quota
        /\ job'[s].fresh = Quiet
        /\ \A r \in Slots \ {s} : job'[r] = job[r]
    <3>1. quota \in Int /\ enabled \in BOOLEAN /\ Quiet \in BOOLEAN /\ TRUE \in BOOLEAN
      BY QuietType DEF TypeOK
    <3>2. job'[s] = JobOf("fill", TRUE, quota, enabled, Quiet)
      BY <2>1, <1>t
    <3>3. \A r \in Slots \ {s} : job'[r] = job[r]
      BY <2>1, <1>t
    <3>4. "fill" \in {"incr", "fill"}
      OBVIOUS
    <3>5. JobOf("fill", TRUE, quota, enabled, Quiet) # None
      <4>1. JobOf("fill", TRUE, quota, enabled, Quiet) \in Job
        BY QuietType, JobTypes DEF TypeOK
      <4> QED
        BY <4>1, NoneAssumption
    <3>6. /\ JobOf("fill", TRUE, quota, enabled, Quiet).do = "fill"
          /\ JobOf("fill", TRUE, quota, enabled, Quiet).quota = quota
          /\ JobOf("fill", TRUE, quota, enabled, Quiet).fresh = Quiet
      BY Zenon DEF JobOf
    <3> QED
      BY <3>2, <3>3, <3>5, <3>6, Zenon
  <2>4. \A r \in Slots : ToAdd(r)' = ToAdd(r)
    <3>1. ToAdd(s)' = 0 /\ ToAdd(s) = 0
      BY <2>1, <2>3 DEF ToAdd, Increments
    <3>2. \A r \in Slots \ {s} : ToAdd(r)' = ToAdd(r)
      BY <2>3 DEF ToAdd, Increments
    <3> QED
      BY <3>1, <3>2
  <2>5. CacheInStep'
    BY <2>2, <2>4, <1>k, <1>i DEF dbVars, historyVars
  <2>6. Quiet => Quiet'
    BY <2>1, <2>2, <2>3 DEF Quiet, Increments, dbVars
  <2>7. quota' = quota
    BY <2>2 DEF dbVars
  <2>8. ASSUME NEW r \in Slots PROVE FreshJob(r)'
    <3>1. CASE r = s
      BY <3>1, <2>3, <2>6, <2>7 DEF FreshJob
    <3>2. CASE r # s
      BY <3>2, <2>3, <2>6, <2>7, <1>f DEF FreshJob, Freshness
    <3> QED
      BY <3>1, <3>2
  <2>9. \A h \in Handlers : FreshCall(h)'
    BY <2>2, <2>6, <2>7, <1>f DEF FreshCall, Freshness
  <2> QED
    BY <2>5, <2>8, <2>9 DEF HashInv, Freshness
<1>5. ASSUME NEW s \in Slots, Fill(s) PROVE HashInv'
  <2>1. /\ job[s] # None /\ job[s].do = "fill" /\ cache' = Hash(job[s].quota, job[s].enabled)
        /\ inStep' = job[s].fresh /\ job' = [job EXCEPT ![s] = None]
        /\ UNCHANGED <<dbVars, write, handler>>
    BY <1>5, Zenon DEF Fill
  <2>2. job'[s] = None /\ \A r \in Slots \ {s} : job'[r] = job[r]
    BY <2>1, <1>t
  <2>3. \A r \in Slots : ToAdd(r)' = ToAdd(r)
    <3>1. ToAdd(s)' = 0 /\ ToAdd(s) = 0
      BY <2>1, <2>2 DEF ToAdd, Increments
    <3>2. \A r \in Slots \ {s} : ToAdd(r)' = ToAdd(r)
      BY <2>2 DEF ToAdd, Increments
    <3> QED
      BY <3>1, <3>2
  <2>4. Unadded' = Unadded
    BY <2>1, <2>3, NoSlot
  <2>5. CacheInStep'
    <3> SUFFICES ASSUME inStep'
                 PROVE  cache'.quota + Unadded' = quota' + store' + drained'
      BY DEF CacheInStep, Unadded
    <3>1. job[s].quota = quota /\ Quiet
      BY <2>1, <1>f DEF Freshness, FreshJob
    <3>2. cache'.quota = quota
      BY <2>1, <3>1 DEF Hash
    <3>3. Unadded = 0 /\ store = 0 /\ drained = 0
      BY <3>1, QuietSum DEF Quiet
    <3>4. quota' = quota /\ store' = store /\ drained' = drained
      BY <2>1 DEF dbVars
    <3> QED
      BY <3>2, <3>3, <3>4, <2>4, <1>i
  <2>6. Freshness'
    <3>1. Quiet => Quiet' /\ quota' = quota
      BY <2>1, <2>2 DEF Quiet, Increments, dbVars
    <3> QED
      BY <2>1, <2>2, <3>1, <1>f, StaysFresh
  <2> QED
    BY <2>5, <2>6 DEF HashInv
<1>6. ASSUME NEW s \in Slots, Check(s) PROVE HashInv'
  <2>1. /\ job[s] # None /\ job[s].do = "incr"
        /\ job' = [job EXCEPT ![s] = IF cache = None THEN None
                      ELSE JobOf("incr", TRUE, job[s].quota, FALSE, FALSE)]
        /\ UNCHANGED <<dbVars, cache, write, handler, historyVars>>
    BY <1>6, Zenon DEF Check
  <2>2. \A r \in Slots \ {s} : job'[r] = job[r]
    BY <2>1, <1>t
  <2>3. cache = None => job'[s] = None
    BY <2>1, <1>t
  <2>4. cache # None =>
           /\ job'[s] # None /\ job'[s].do = "incr"
           /\ job'[s].quota = job[s].quota /\ ~job'[s].fresh
    <3> SUFFICES ASSUME cache # None
                 PROVE  /\ job'[s] # None /\ job'[s].do = "incr"
                        /\ job'[s].quota = job[s].quota /\ ~job'[s].fresh
      OBVIOUS
    <3>1. job'[s] = JobOf("incr", TRUE, job[s].quota, FALSE, FALSE)
      BY <2>1, <1>t
    <3>2. /\ FALSE \in BOOLEAN /\ TRUE \in BOOLEAN /\ "incr" \in {"incr", "fill"}
          /\ job[s].quota \in Int
      BY <2>1, <1>t, JobFields
    <3>3. JobOf("incr", TRUE, job[s].quota, FALSE, FALSE) # None
      <4>1. JobOf("incr", TRUE, job[s].quota, FALSE, FALSE) \in Job
        BY <3>2, JobTypes
      <4> QED
        BY <4>1, NoneAssumption
    <3>4. /\ JobOf("incr", TRUE, job[s].quota, FALSE, FALSE).do = "incr"
          /\ JobOf("incr", TRUE, job[s].quota, FALSE, FALSE).quota = job[s].quota
          /\ ~JobOf("incr", TRUE, job[s].quota, FALSE, FALSE).fresh
      BY DEF JobOf
    <3> QED
      BY <3>1, <3>3, <3>4, Zenon
  <2>5. CacheInStep'
    <3>1. CASE cache = None
      BY <3>1, <2>1 DEF CacheInStep
    <3>2. CASE cache # None
      <4>1. \A r \in Slots : ToAdd(r)' = ToAdd(r)
        <5>1. ToAdd(s)' = job[s].quota /\ ToAdd(s) = job[s].quota
          BY <3>2, <2>1, <2>4 DEF ToAdd, Increments
        <5>2. \A r \in Slots \ {s} : ToAdd(r)' = ToAdd(r)
          BY <2>2 DEF ToAdd, Increments
        <5> QED
          BY <5>1, <5>2
      <4> QED
        BY <4>1, <2>1, <1>k, <1>i DEF dbVars, historyVars
    <3> QED
      BY <3>1, <3>2
  <2>6. Freshness'
    <3>1. ~Quiet
      BY <2>1 DEF Quiet, Increments
    <3> QED
      BY <2>1, <2>2, <2>3, <2>4, <3>1, <1>f, StaysFresh
  <2> QED
    BY <2>5, <2>6 DEF HashInv
<1>7. ASSUME NEW s \in Slots, Add(s) PROVE HashInv'
  <2>1. /\ job[s] # None /\ job[s].do = "incr"
        /\ cache' = (IF cache = None THEN Hash(job[s].quota, FALSE)
                     ELSE Hash(cache.quota + job[s].quota, cache.enabled))
        /\ inStep' = (inStep /\ cache # None) /\ job' = [job EXCEPT ![s] = None]
        /\ UNCHANGED <<dbVars, write, handler>>
    BY <1>7, Zenon DEF Add
  <2>2. job'[s] = None /\ \A r \in Slots \ {s} : job'[r] = job[r]
    BY <2>1, <1>t
  <2>3. \A r \in Slots \ {s} : ToAdd(r)' = ToAdd(r)
    BY <2>2 DEF ToAdd, Increments
  <2>4. ToAdd(s) = job[s].quota /\ ToAdd(s)' = 0
    BY <2>1, <2>2 DEF ToAdd, Increments
  <2>5. Unadded' = Unadded + (0 - job[s].quota)
    <3>1. \A r \in Slots : ToWrite(r)' = ToWrite(r) /\ ToWrite(r) \in Int
      BY <2>1, <1>t DEF ToWrite, Write
    <3>2. Unadded' = Unadded + ((ToAdd(s)' - ToWrite(s)') - (ToAdd(s) - ToWrite(s)))
      BY <2>3, <3>1, OneSlot
    <3>3. job[s].quota \in Int
      BY <2>1, <1>t, JobFields
    <3> QED
      BY <2>4, <3>1, <3>2, <3>3
  <2>6. CacheInStep'
    <3> SUFFICES ASSUME inStep'
                 PROVE  cache'.quota + Unadded' = quota' + store' + drained'
      BY DEF CacheInStep, Unadded
    <3>1. inStep /\ cache # None
      BY <2>1, Zenon
    <3>2. cache.quota + Unadded = quota + store + drained /\ cache \in Entry
      BY <3>1, <1>f DEF CacheInStep, Unadded, TypeOK
    <3>3. cache'.quota = cache.quota + job[s].quota
      BY <3>1, <2>1 DEF Hash
    <3>4. cache.quota \in Int /\ job[s].quota \in Int /\ Unadded \in Int
      BY <3>2, <2>1, <1>t, JobFields, AmountType, SumType, StoreAssumption
         DEF Entry, Unadded, ToAdd, ToWrite, Increments
    <3>5. quota' = quota /\ store' = store /\ drained' = drained
      BY <2>1 DEF dbVars
    <3> QED
      BY <3>2, <3>3, <3>4, <3>5, <2>5, <1>i
  <2>7. Freshness'
    <3>1. ~Quiet
      BY <2>1 DEF Quiet, Increments
    <3> QED
      BY <2>1, <2>2, <3>1, <1>f, StaysFresh
  <2> QED
    BY <2>6, <2>7 DEF HashInv
<1>8. ASSUME NEW s \in Slots, RedisFails(s) PROVE HashInv'
  <2>1. /\ inStep' = FALSE /\ job' = [job EXCEPT ![s] = None]
        /\ UNCHANGED <<dbVars, write, handler>>
    BY <1>8, Zenon DEF RedisFails
  <2>2. job'[s] = None /\ \A r \in Slots \ {s} : job'[r] = job[r]
    BY <2>1, <1>t
  <2>3. Quiet => Quiet' /\ quota' = quota
    BY <2>1, <2>2 DEF Quiet, Increments, dbVars
  <2>4. Freshness'
    BY <2>1, <2>2, <2>3, <1>f, StaysFresh
  <2> QED
    BY <2>1, <2>4 DEF HashInv, CacheInStep
<1>9. ASSUME Expire PROVE HashInv'
  <2>1. cache' = None /\ UNCHANGED <<dbVars, job, write, handler>>
    BY <1>9 DEF Expire
  <2>2. Quiet => Quiet' /\ quota' = quota
    BY <2>1 DEF Quiet, Increments, dbVars
  <2>3. Freshness'
    BY <2>1, <2>2, <1>f, StaysFresh
  <2> QED
    BY <2>1, <2>3 DEF HashInv, CacheInStep
<1>10. ASSUME Crash PROVE HashInv'
  <2>1. /\ inStep' = FALSE
        /\ \A s \in Slots : job'[s] = None /\ write'[s] = None
        /\ \A h \in Handlers : handler'[h] = None
    BY <1>10 DEF Crash
  <2>2. CacheInStep'
    BY <2>1, Zenon DEF CacheInStep
  <2>3. Freshness'
    <3>1. Quiet => Quiet' /\ quota' = quota
      BY <1>10, <2>1 DEF Crash, Quiet, Increments
    <3> QED
      BY <2>1, <3>1, <1>f, StaysFresh
  <2> QED
    BY <2>2, <2>3 DEF HashInv
<1>11. ASSUME NEW h \in Handlers,
              NEW do \in {"settings", "profile", "disable", "enable"}, Load(h, do)
       PROVE  HashInv'
  <2>1. UNCHANGED <<dbVars, cache, job, write, historyVars>>
    BY <1>11 DEF Load
  <2>2. \A s \in Slots : ToAdd(s)' = ToAdd(s)
    BY <2>1 DEF ToAdd, Increments
  <2>3. CacheInStep'
    BY <2>1, <2>2, <1>k, <1>i DEF dbVars, historyVars
  <2>4. \A g \in Handlers :
           \/ handler'[g] = handler[g]
           \/ handler'[g].stage = "loaded" /\ ~handler'[g].fresh
           \/ /\ handler'[g].stage = "loaded" /\ handler'[g].quota = quota
              /\ handler'[g].fresh = Quiet
    <3> DEFINE own == do # "profile" /\ quota # 0
               e == do = "enable" \/ (do = "settings" /\ enabled)
               c == CallOf(do, "loaded", own, IF own THEN quota ELSE 0, e, own /\ Quiet)
    <3>1. /\ handler'[h] = c
          /\ \A g \in Handlers \ {h} : handler'[g] = handler[g]
      BY <1>11, <1>t DEF Load
    <3>2. /\ c.stage = "loaded" /\ c.fresh = (own /\ Quiet)
          /\ c.quota = IF own THEN quota ELSE 0
      BY Zenon DEF CallOf
    <3>3. CASE own
      <4>1. c.quota = quota /\ c.fresh = Quiet
        BY <3>2, <3>3, Zenon DEF Quiet
      <4> HIDE DEF c
      <4> QED
        BY <3>1, <3>2, <4>1
    <3>4. CASE ~own
      <4>1. ~c.fresh
        BY <3>2, <3>4, Zenon
      <4> HIDE DEF c
      <4> QED
        BY <3>1, <3>2, <4>1
    <3> QED
      BY <3>3, <3>4
  <2>5. (Quiet => Quiet') /\ quota' = quota
    BY <2>1 DEF Quiet, Increments, dbVars
  <2>6. \A s \in Slots : FreshJob(s)'
    BY <2>1, <2>5, <1>f DEF FreshJob, Freshness
  <2>7. ASSUME NEW g \in Handlers PROVE FreshCall(g)'
    <3>1. CASE handler'[g] = handler[g]
      BY <3>1, <2>5, <1>f DEF FreshCall, Freshness
    <3>2. CASE /\ handler'[g].stage = "loaded" /\ handler'[g].quota = quota
               /\ handler'[g].fresh = Quiet
      BY <3>2, <2>5 DEF FreshCall
    <3>3. CASE ~handler'[g].fresh
      BY <3>3 DEF FreshCall
    <3> QED
      BY <2>4, <3>1, <3>2, <3>3
  <2> QED
    BY <2>3, <2>6, <2>7 DEF HashInv, Freshness
<1>18. ASSUME NEW h \in Handlers, First(h) PROVE HashInv'
  <2> DEFINE c == handler[h]
  <2>1. /\ c # None /\ UNCHANGED <<dbVars, cache, job, write, historyVars>>
        /\ handler' = [handler EXCEPT ![h] = Refreshed(c)]
    BY <1>18 DEF First
  <2>2. handler'[h] = Refreshed(c) /\ \A g \in Handlers \ {h} : handler'[g] = handler[g]
    BY <2>1, <1>t
  <2>3. \A s \in Slots : ToAdd(s)' = ToAdd(s)
    BY <2>1 DEF ToAdd, Increments
  <2>4. CacheInStep'
    BY <2>1, <2>3, <1>k, <1>i DEF dbVars, historyVars
  <2>5. (Quiet => Quiet') /\ quota' = quota
    BY <2>1 DEF Quiet, Increments, dbVars
  <2>6. \A s \in Slots : FreshJob(s)'
    BY <2>1, <2>5, <1>f DEF FreshJob, Freshness
  <2>7. FreshCall(h)'
    <3>1. /\ Refreshed(c).stage = "read"
          /\ Refreshed(c).quota = IF c.own THEN c.quota ELSE quota
          /\ Refreshed(c).fresh = IF c.own THEN c.fresh ELSE Quiet
      BY Zenon DEF Refreshed, CallOf
    <3>2. c.fresh => c.quota = quota /\ Quiet
      BY <2>1, <1>f DEF Freshness, FreshCall
    <3>3. Refreshed(c).fresh => Refreshed(c).quota = quota /\ Quiet
      <4>1. CASE c.own
        BY <3>1, <3>2, <4>1, Zenon
      <4>2. CASE ~c.own
        BY <3>1, <4>2, Zenon
      <4> QED
        BY <4>1, <4>2
    <3>4. "read" # "cached"
      OBVIOUS
    <3> HIDE DEF c
    <3> QED
      BY <2>2, <2>5, <3>1, <3>3, <3>4, Zenon DEF FreshCall
  <2>8. \A g \in Handlers \ {h} : FreshCall(g)'
    BY <2>2, <2>5, <1>f DEF FreshCall, Freshness
  <2> QED
    BY <2>4, <2>6, <2>7, <2>8 DEF HashInv, Freshness
<1>12. ASSUME NEW h \in Handlers, Update(h) PROVE HashInv'
  <2> DEFINE c == handler[h]
  <2>1. /\ c # None /\ c.stage = "read"
        /\ UNCHANGED <<store, drained, cache, write>>
    BY <1>12 DEF Update
  <2>2. ASSUME /\ quota' = (IF c.own THEN c.quota ELSE quota)
               /\ inStep' = (inStep /\ quota' = quota)
               /\ job' = IF quota' = quota THEN job ELSE StaleJobs
               /\ handler' = [g \in Handlers |->
                     IF g = h THEN CallOf(c.do, "updated", FALSE, c.quota, c.enabled, c.fresh)
                     ELSE IF quota' = quota THEN handler[g] ELSE StaleCall(handler[g])]
        PROVE  HashInv'
    <3>1. /\ handler'[h] = CallOf(c.do, "updated", FALSE, c.quota, c.enabled, c.fresh)
          /\ \A g \in Handlers \ {h} : handler'[g] =
                IF quota' = quota THEN handler[g] ELSE StaleCall(handler[g])
      BY <2>2
    <3>2. /\ handler'[h].stage = "updated" /\ handler'[h].quota = c.quota
          /\ handler'[h].fresh = c.fresh
      <4>1. /\ CallOf(c.do, "updated", FALSE, c.quota, c.enabled, c.fresh).stage = "updated"
            /\ CallOf(c.do, "updated", FALSE, c.quota, c.enabled, c.fresh).quota = c.quota
            /\ CallOf(c.do, "updated", FALSE, c.quota, c.enabled, c.fresh).fresh = c.fresh
        BY Zenon DEF CallOf
      <4> HIDE DEF c
      <4> QED
        BY <3>1, <4>1, Zenon
    <3>3. c.fresh => quota' = quota /\ c.quota = quota /\ Quiet
      BY <2>1, <2>2, <1>f DEF Freshness, FreshCall
    <3>4. CASE quota' = quota
      <4>1. job' = job /\ \A g \in Handlers \ {h} : handler'[g] = handler[g]
        BY <3>1, <3>4, <2>2
      <4>2. Quiet => Quiet'
        BY <4>1, <2>1 DEF Quiet, Increments
      <4>3. \A s \in Slots : ToAdd(s)' = ToAdd(s)
        BY <4>1 DEF ToAdd, Increments
      <4>4. quota' + store' + drained' = quota + store + drained
        BY <3>4, <2>1
      <4>5. inStep' => inStep
        BY <2>2, Zenon
      <4>6. CacheInStep'
        BY <4>3, <4>4, <4>5, <2>1, <1>k, Zenon
      <4>7. \A s \in Slots : FreshJob(s)'
        BY <4>1, <4>2, <3>4, <1>f DEF FreshJob, Freshness
      <4>8. \A g \in Handlers \ {h} : FreshCall(g)'
        BY <4>1, <4>2, <3>4, <1>f DEF FreshCall, Freshness
      <4>9. FreshCall(h)'
        BY <3>2, <3>3, <4>2 DEF FreshCall
      <4> QED
        BY <4>6, <4>7, <4>8, <4>9 DEF HashInv, Freshness
    <3>5. CASE quota' # quota
      <4>1. ~inStep' /\ ~c.fresh
        BY <3>3, <3>5, <2>2, Zenon
      <4>2. job' = StaleJobs
        BY <3>5, <2>2
      <4>3. \A g \in Handlers \ {h} : handler'[g] = None \/ ~handler'[g].fresh
        BY <3>1, <3>5, AllStale
      <4>4. ~handler'[h].fresh
        BY <3>2, <4>1, Zenon
      <4> QED
        BY <4>1, <4>2, <4>3, <4>4, AllStale
           DEF HashInv, CacheInStep, Freshness, FreshJob, FreshCall
    <3> QED
      BY <3>4, <3>5
  <2>3. ASSUME handler' = [handler EXCEPT ![h] = None], UNCHANGED <<quota, inStep, job>>
        PROVE  HashInv'
    <3>1. \A g \in Handlers : handler'[g] \in {None, handler[g]}
      BY <2>3, <1>t
    <3>2. Quiet => Quiet' /\ quota' = quota
      BY <2>1, <2>3 DEF Quiet, Increments
    <3>3. \A s \in Slots : ToAdd(s)' = ToAdd(s)
      BY <2>3 DEF ToAdd, Increments
    <3>4. CacheInStep'
      BY <2>1, <2>3, <3>3, <1>k, <1>i
    <3>5. Freshness'
      BY <2>3, <3>1, <3>2, <1>f, StaysFresh
    <3> QED
      BY <3>4, <3>5 DEF HashInv
  <2> QED
    BY <1>12, <2>2, <2>3, Zenon DEF Update
<1>13. ASSUME NEW h \in Handlers, SetHash(h) PROVE HashInv'
  <2> DEFINE c == handler[h]
  <2>1. /\ c # None /\ c.stage = "updated" /\ UNCHANGED <<dbVars, job, write>>
        /\ \/ cache' = Hash(c.quota, c.enabled) /\ inStep' = c.fresh
           \/ cache' = cache /\ inStep' = inStep
        /\ \A g \in Handlers :
              \/ handler'[g] \in {None, handler[g]}
              \/ handler'[g] = CallOf(c.do, "cached", FALSE, 0, FALSE, FALSE)
    BY <1>13, <1>t DEF SetHash
  <2>2. \A s \in Slots : ToAdd(s)' = ToAdd(s)
    BY <2>1 DEF ToAdd, Increments
  <2>3. Unadded' = Unadded
    BY <2>1, <2>2, NoSlot
  <2>4. ASSUME cache' = Hash(c.quota, c.enabled), inStep' = c.fresh PROVE CacheInStep'
    <3> SUFFICES ASSUME inStep'
                 PROVE  cache'.quota + Unadded' = quota' + store' + drained'
      BY DEF CacheInStep, Unadded
    <3>1. c.quota = quota /\ Quiet
      BY <2>1, <2>4, <1>f DEF Freshness, FreshCall
    <3>2. cache'.quota = quota
      BY <2>4, <3>1 DEF Hash
    <3>3. Unadded = 0 /\ store = 0 /\ drained = 0
      BY <3>1, QuietSum DEF Quiet
    <3>4. quota' = quota /\ store' = store /\ drained' = drained
      BY <2>1 DEF dbVars
    <3> QED
      BY <3>2, <3>3, <3>4, <2>3, <1>i
  <2>8. ASSUME cache' = cache, inStep' = inStep PROVE CacheInStep'
    BY <2>1, <2>2, <2>8, <1>k, <1>i DEF dbVars
  <2>5. Quiet => Quiet' /\ quota' = quota
    BY <2>1 DEF Quiet, Increments, dbVars
  <2>6. \A g \in Handlers : \/ handler'[g] \in {None, handler[g]}
                            \/ ~handler'[g].fresh
    <3>1. ~CallOf(c.do, "cached", FALSE, 0, FALSE, FALSE).fresh
      BY DEF CallOf
    <3> QED
      BY <2>1, <3>1, <1>t
  <2>7. Freshness'
    BY <2>1, <2>5, <2>6, <1>f, StaysFresh
  <2> QED
    BY <2>1, <2>4, <2>7, <2>8 DEF HashInv
<1>14. ASSUME NEW h \in Handlers, Invalidate(h) PROVE HashInv'
  <2>1. /\ cache' \in {None, cache} /\ inStep' = inStep /\ UNCHANGED <<dbVars, job, write>>
        /\ handler' = [handler EXCEPT ![h] = None]
    BY <1>14, Zenon DEF Invalidate, Invalidated
  <2>2. \A g \in Handlers : handler'[g] \in {None, handler[g]}
    BY <2>1, <1>t
  <2>3. Quiet => Quiet' /\ quota' = quota
    BY <2>1 DEF Quiet, Increments, dbVars
  <2>4. Freshness'
    BY <2>1, <2>2, <2>3, <1>f, StaysFresh
  <2>5. \A s \in Slots : ToAdd(s)' = ToAdd(s)
    BY <2>1 DEF ToAdd, Increments
  <2>6. CacheInStep'
    BY <2>1, <2>5, <1>k, <1>i DEF dbVars
  <2> QED
    BY <2>4, <2>6 DEF HashInv
<1>15. ASSUME UNCHANGED vars PROVE HashInv'
  <2>1. UNCHANGED <<dbVars, cache, job, write, handler, inStep>>
    BY <1>15 DEF vars, historyVars
  <2>2. \A s \in Slots : ToAdd(s)' = ToAdd(s)
    BY <2>1 DEF ToAdd, Increments
  <2>3. CacheInStep'
    BY <2>1, <2>2, <1>k, <1>i DEF dbVars
  <2>4. Quiet => Quiet' /\ quota' = quota
    BY <2>1 DEF Quiet, Increments, dbVars
  <2>5. Freshness'
    BY <2>1, <2>4, <1>f, StaysFresh
  <2> QED
    BY <2>3, <2>5 DEF HashInv
<1>16. \A d \in TopUps : TopUp(d) => HashInv'
  BY <1>2 DEF TopUp
<1>19. \A q \in Overrides : Override(q) => HashInv'
  BY <1>2 DEF Override
<1> QED
  BY <1>1, <1>3, <1>4, <1>5, <1>6, <1>7, <1>8, <1>9, <1>10, <1>11, <1>12, <1>13, <1>14,
     <1>15, <1>16, <1>17, <1>18, <1>19 DEF Next, Goroutine, Handler

(* A hash that was filled while nothing changed stays in step with the row, *)
(* the memory of the batch updater, the goroutines under way and the writes *)
(* that are still to come, for any number of them, whichever is first:      *)
(* RedisHIncrBy adds every change to it once.                               *)
THEOREM HashInStep == Spec => []CacheInStep
<1>1. Init => HashInv
  BY DEF Init, HashInv, CacheInStep, Freshness, FreshJob, FreshCall
<1>2. HashInv => CacheInStep
  BY DEF HashInv
<1> QED
  BY <1>1, <1>2, TypeCorrect, HashStep, PTL DEF Spec

=============================================================================
