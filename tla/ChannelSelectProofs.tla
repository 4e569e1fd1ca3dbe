-------------------------- MODULE ChannelSelectProofs --------------------------
(* What ChannelSelect promises for every number of channels, groups,        *)
(* requests and tries: the retry loop is bounded, a channel disabled by     *)
(* hand is left alone, and a group is left only once each of its priorities *)
(* has been asked.  Last, that the variables keep their types.              *)
EXTENDS ChannelSelect, SumTheorems, TLAPS

--------------------------------------------------------------------------------
(* The tries of a request                                                   *)

Turn == RetryTimes + 1
Turns(n) == n * Turn

LEMMA TurnType == Turn \in Nat \ {0} /\ RetryTimes \in Nat /\ NumGroups \in Nat \ {0}
BY ChannelAssumption, SMT DEF Turn

LEMMA TurnsStep ==
    \A n \in Nat : Turns(n) \in Nat /\ Turns(n + 1) = Turns(n) + Turn
<1>1. TAKE n \in Nat
<1>2. Turn \in Nat
  BY TurnType
<1>3. n * Turn \in Nat /\ (n + 1) * Turn = n * Turn + Turn
  BY <1>2, SMT
<1> QED
  BY <1>3 DEF Turns

LEMMA TurnsGrow ==
    \A m, n \in Nat : m <= n => Turns(m) <= Turns(n)
<1> SUFFICES ASSUME NEW m \in Nat, NEW n \in Nat, m <= n
             PROVE  m * Turn <= n * Turn
  BY DEF Turns
<1>1. Turn \in Nat
  BY TurnType
<1>2. PICK k \in Nat : n = m + k
  BY SMT
<1>3. (m + k) * Turn = m * Turn + k * Turn /\ k * Turn \in Nat /\ m * Turn \in Nat
  BY <1>1, SMT
<1> QED
  BY <1>2, <1>3, SMT

(* What holds of a request at each point of its loop.  A request that waits *)
(* to pick has made the tries of the groups before index, and retry more.   *)
(* One that asks has made one more than that; if its next pick is in the    *)
(* next group, those of all groups before index.  The distributor's only    *)
(* try may exhaust a group when there are no retries; then there is no pick.*)
Numbers(q) ==
    /\ q.index \in 1 .. NumGroups + 1 /\ q.retry \in 0 .. RetryTimes
    /\ q.tries \in Nat /\ q.again \in BOOLEAN
Picks(q) == q.tries <= Turns(q.index - 1) + q.retry
Asks(q) ==
    \/ q.again /\ q.retry = 0 /\ q.tries <= Turns(q.index - 1)
    \/ ~q.again /\ q.index <= NumGroups /\ q.tries <= Turns(q.index - 1) + q.retry + 1
    \/ ~q.again /\ RetryTimes = 0 /\ q.tries = 1 /\ q.retry = 0
Counted(q) ==
    /\ Numbers(q)
    /\ q.pc = "new" => q.tries = 0
    /\ q.pc = "pick" => Picks(q)
    /\ q.pc = "ask" => Asks(q)
    /\ q.tries <= NumGroups * (RetryTimes + 1)

WalkInv ==
    /\ req = [r \in Requests |-> req[r]]
    /\ \A r \in Requests : Counted(req[r])

LEMMA NewCounted == \A cross \in BOOLEAN : Counted(New(cross))
<1>1. TAKE cross \in BOOLEAN
<1>2. New(cross).pc = "new" /\ New(cross).index = 1 /\ New(cross).retry = 0
      /\ New(cross).tries = 0 /\ New(cross).again = FALSE
  BY DEF New
<1>3. 0 <= NumGroups * (RetryTimes + 1)
  BY TurnType, TurnsStep DEF Turns, Turn
<1>4. New(cross).index \in 1 .. NumGroups + 1 /\ New(cross).retry \in 0 .. RetryTimes
      /\ New(cross).tries \in Nat /\ New(cross).tries <= NumGroups * (RetryTimes + 1)
  BY <1>2, <1>3, TurnType, SMT
<1>5. New(cross).again \in BOOLEAN /\ New(cross).pc # "pick" /\ New(cross).pc # "ask"
  BY <1>2
<1> QED
  BY <1>2, <1>4, <1>5, Zenon DEF Counted, Numbers

LEMMA EndCounted == \A pc \in Ended : Counted(End(pc))
<1>1. TAKE pc \in Ended
<1>2. End(pc).pc = pc /\ End(pc).index = 1 /\ End(pc).retry = 0
      /\ End(pc).tries = 0 /\ End(pc).again = FALSE
  BY DEF End
<1>3. 0 <= NumGroups * (RetryTimes + 1)
  BY TurnType, TurnsStep DEF Turns, Turn
<1>4. pc # "new" /\ pc # "pick" /\ pc # "ask"
  BY DEF Ended
<1>5. End(pc).index \in 1 .. NumGroups + 1 /\ End(pc).retry \in 0 .. RetryTimes
      /\ End(pc).tries \in Nat /\ End(pc).tries <= NumGroups * (RetryTimes + 1)
  BY <1>2, <1>3, TurnType, SMT
<1>6. End(pc).again \in BOOLEAN
  BY <1>2, Zenon
<1> QED
  BY <1>2, <1>4, <1>5, <1>6, Zenon DEF Counted, Numbers

(* A try in group g, of a request that has picked it.                       *)
LEMMA AskStays ==
    ASSUME NEW q, NEW g \in Groups, NEW c, NEW key, NEW retry \in 0 .. RetryTimes,
           q.tries \in Nat, q.tries <= Turns(g - 1) + retry
    PROVE  Counted(Asking(q, g, c, key, retry, g, FALSE))
<1> DEFINE p == Asking(q, g, c, key, retry, g, FALSE)
<1>1. p.pc = "ask" /\ p.index = g /\ p.retry = retry /\ p.again = FALSE /\ p.tries = q.tries + 1
  BY DEF Asking
<1>2. g \in Nat /\ g - 1 \in Nat /\ g <= NumGroups /\ g - 1 + 1 = g /\ g \in 1 .. NumGroups + 1
  BY TurnType, SMT DEF Groups
<1>3. Turns(g - 1) \in Nat /\ Turns(g) = Turns(g - 1) + Turn /\ Turns(g) <= Turns(NumGroups)
  BY <1>2, TurnsStep, TurnsGrow, TurnType
<1>4. q.tries + 1 <= Turns(g - 1) + retry + 1
  BY <1>3, SMT
<1>5. q.tries + 1 <= Turns(NumGroups)
  <2>1. retry + 1 <= Turn /\ retry \in Nat
    BY TurnType, SMT DEF Turn
  <2>2. Turns(g) \in Nat /\ Turns(NumGroups) \in Nat /\ Turn \in Nat
    BY <1>2, TurnsStep, TurnType
  <2> QED
    BY <1>3, <1>4, <2>1, <2>2, SMT
<1> HIDE DEF p
<1>6. Numbers(p)
  <2>1. p.index \in 1 .. NumGroups + 1 /\ p.retry \in 0 .. RetryTimes /\ p.tries \in Nat
    BY <1>1, <1>2, SMT
  <2>2. p.again \in BOOLEAN
    BY <1>1, Zenon
  <2> QED
    BY <2>1, <2>2, Zenon DEF Numbers
<1>7. Asks(p)
  BY <1>1, <1>2, <1>4 DEF Asks
<1>8. p.tries <= NumGroups * (RetryTimes + 1)
  BY <1>1, <1>5 DEF Turns, Turn
<1>9. Counted(p)
  BY <1>1, <1>6, <1>7, <1>8 DEF Counted
<1> QED
  BY <1>9 DEF p

(* The last try in group g.                                                 *)
LEMMA AskLeaves ==
    ASSUME NEW q, NEW g \in Groups, NEW c, NEW key,
           q.tries \in Nat, q.tries + 1 <= Turns(g)
    PROVE  Counted(Asking(q, g, c, key, 0, NextGroup(g), TRUE))
<1> DEFINE p == Asking(q, g, c, key, 0, NextGroup(g), TRUE)
<1>1. p.pc = "ask" /\ p.index = g + 1 /\ p.retry = 0 /\ p.again = TRUE /\ p.tries = q.tries + 1
  BY DEF Asking, NextGroup
<1>2. g \in Nat /\ g <= NumGroups /\ g + 1 - 1 = g /\ g + 1 \in 1 .. NumGroups + 1
  BY TurnType, SMT DEF Groups
<1>3. Turns(g) <= Turns(NumGroups) /\ Turns(g) \in Nat /\ Turns(NumGroups) \in Nat
  BY <1>2, TurnsStep, TurnsGrow, TurnType
<1>4. q.tries + 1 <= Turns(NumGroups)
  BY <1>3, SMT
<1> HIDE DEF p
<1>5. Numbers(p)
  <2>1. p.index \in 1 .. NumGroups + 1 /\ p.retry \in 0 .. RetryTimes /\ p.tries \in Nat
    BY <1>1, <1>2, TurnType, SMT
  <2>2. p.again \in BOOLEAN
    BY <1>1, Zenon
  <2> QED
    BY <2>1, <2>2, Zenon DEF Numbers
<1>6. Asks(p)
  BY <1>1, <1>2 DEF Asks
<1>7. p.tries <= NumGroups * (RetryTimes + 1)
  BY <1>1, <1>4 DEF Turns, Turn
<1>8. Counted(p)
  BY <1>1, <1>5, <1>6, <1>7 DEF Counted
<1> QED
  BY <1>8 DEF p

(* The next try after a failure.                                            *)
LEMMA AgainCounted ==
    ASSUME NEW q, Counted(q), q.pc = "ask", IncreaseRetry(q) <= RetryTimes
    PROVE  Counted(Again(q, IncreaseRetry(q)))
<1> DEFINE k == IncreaseRetry(q)
           p == Again(q, k)
<1>1. /\ p.pc = "pick" /\ p.index = q.index /\ p.retry = k /\ p.again = FALSE
      /\ p.tries = q.tries
  BY DEF Again
<1>2. Numbers(q) /\ Asks(q) /\ q.tries <= NumGroups * (RetryTimes + 1)
  BY Zenon DEF Counted
<1>3. q.index \in 1 .. NumGroups + 1 /\ q.retry \in 0 .. RetryTimes /\ q.tries \in Nat
      /\ q.again \in BOOLEAN
  BY <1>2 DEF Numbers
<1>4. k \in 0 .. RetryTimes
  BY <1>3, TurnType, SMT DEF IncreaseRetry
<1>5. q.tries <= Turns(q.index - 1) + k
  <2>1. CASE q.again /\ q.retry = 0 /\ q.tries <= Turns(q.index - 1)
    <3>1. k = 0
      BY <2>1 DEF IncreaseRetry
    <3>2. Turns(q.index - 1) \in Nat
      BY <1>3, TurnsStep, TurnType, SMT
    <3> QED
      BY <2>1, <3>1, <3>2, SMT
  <2>2. CASE ~q.again /\ q.index <= NumGroups /\ q.tries <= Turns(q.index - 1) + q.retry + 1
    <3>1. k = q.retry + 1
      BY <2>2 DEF IncreaseRetry
    <3>2. Turns(q.index - 1) \in Nat
      BY <1>3, TurnsStep, TurnType, SMT
    <3> QED
      BY <2>2, <3>1, <3>2, <1>3, SMT
  <2>3. CASE ~q.again /\ RetryTimes = 0 /\ q.tries = 1 /\ q.retry = 0
    <3>1. k = q.retry + 1
      BY <2>3 DEF IncreaseRetry
    <3>2. k = 1 /\ k \in 0 .. 0
      BY <2>3, <3>1, <1>4, SMT
    <3> QED
      BY <3>2, SMT
  <2> QED
    BY <1>2, <2>1, <2>2, <2>3 DEF Asks
<1> HIDE DEF k, p
<1>6. Numbers(p)
  <2>1. p.again \in BOOLEAN
    BY <1>1, Zenon
  <2> QED
    BY <1>1, <1>3, <1>4, <2>1, Zenon DEF Numbers
<1>7. p.tries <= NumGroups * (RetryTimes + 1)
  BY <1>1, <1>2
<1>8. Counted(p)
  BY <1>1, <1>5, <1>6, <1>7 DEF Counted, Picks
<1> QED
  BY <1>8 DEF p, k

(* A channel of the first group that lists one.                             *)
LEMMA FirstType ==
    ASSUME NEW index \in 1 .. NumGroups + 1, NEW g \in First(index)
    PROVE  g \in Groups /\ index <= g /\ g \in Int
BY TurnType, SMT DEF First, Usable, Groups

LEMMA PickCounted ==
    ASSUME NEW q, Counted(q), q.pc = "pick", NEW g \in First(q.index), NEW c, NEW key,
           NEW retry, retry = RetryIn(g, q.index, q.retry)
    PROVE  /\ Counted(Asking(q, g, c, key, retry, g, FALSE))
           /\ Exhausted(q, retry) => Counted(Asking(q, g, c, key, 0, NextGroup(g), TRUE))
<1>1. Numbers(q) /\ Picks(q)
  BY Zenon DEF Counted
<1>2. q.index \in 1 .. NumGroups + 1 /\ q.retry \in 0 .. RetryTimes /\ q.tries \in Nat
  BY <1>1 DEF Numbers
<1>3. g \in Groups /\ q.index <= g /\ g \in Int
  BY <1>2, FirstType
<1>4. retry \in 0 .. RetryTimes
  BY <1>2, TurnType, SMT DEF RetryIn
<1>5. g - 1 \in Nat /\ g \in Nat /\ q.index \in Nat /\ q.index - 1 \in Nat
  BY <1>2, <1>3, TurnType, SMT DEF Groups
<1>6. q.tries <= Turns(g - 1) + retry
  <2>1. CASE g = q.index
    <3>1. retry = q.retry
      BY <2>1 DEF RetryIn
    <3> QED
      BY <1>1, <2>1, <3>1 DEF Picks
  <2>2. CASE g # q.index
    <3>1. retry = 0
      BY <2>2 DEF RetryIn
    <3>2. q.index <= g - 1 /\ q.index - 1 + 1 = q.index
      BY <1>3, <1>5, <2>2, SMT
    <3>3. Turns(q.index) = Turns(q.index - 1) + Turn /\ Turns(q.index - 1) \in Nat
      BY <1>5, <3>2, TurnsStep
    <3>4. Turns(q.index) <= Turns(g - 1) /\ Turns(q.index) \in Nat /\ Turns(g - 1) \in Nat
      BY <1>5, <3>2, TurnsGrow, TurnsStep
    <3>5. q.tries <= Turns(q.index - 1) + q.retry
      BY <1>1 DEF Picks
    <3>6. q.retry <= Turn /\ q.retry \in Nat
      BY <1>2, TurnType, SMT DEF Turn
    <3> QED
      BY <1>2, <3>1, <3>3, <3>4, <3>5, <3>6, TurnType, SMT
  <2> QED
    BY <2>1, <2>2
<1>7. Counted(Asking(q, g, c, key, retry, g, FALSE))
  BY <1>2, <1>3, <1>4, <1>6, AskStays
<1>8. ASSUME Exhausted(q, retry)
      PROVE  Counted(Asking(q, g, c, key, 0, NextGroup(g), TRUE))
  <2>1. retry >= RetryTimes
    BY <1>8 DEF Exhausted
  <2>2. Turns(g) = Turns(g - 1) + Turn /\ Turns(g - 1) \in Nat
    <3>1. g - 1 + 1 = g
      BY <1>5, SMT
    <3> QED
      BY <1>5, <3>1, TurnsStep
  <2>3. retry + 1 <= Turn /\ retry \in Nat
    BY <1>4, TurnType, SMT DEF Turn
  <2>4. q.tries + 1 <= Turns(g)
    BY <1>2, <1>6, <2>2, <2>3, TurnType, SMT
  <2> QED
    BY <1>2, <1>3, <2>4, AskLeaves
<1> QED
  BY <1>7, <1>8

(* What the actions of a request make of it.                                *)
LEMMA WalkStep ==
    ASSUME NEW r \in Requests, NEW q, Counted(q), WalkInv,
           req' = [req EXCEPT ![r] = q]
    PROVE  WalkInv'
<1>1. req' = [s \in Requests |-> IF s = r THEN q ELSE req[s]]
  BY DEF WalkInv
<1>2. \A s \in Requests : req'[s] = IF s = r THEN q ELSE req[s]
  BY <1>1
<1>3. \A s \in Requests : Counted(req'[s])
  BY <1>2 DEF WalkInv
<1>4. req' = [s \in Requests |-> req'[s]]
  BY <1>1
<1> QED
  BY <1>3, <1>4 DEF WalkInv

LEMMA WalkRestart ==
    ASSUME WalkInv, Counted(End("over")), Restart
    PROVE  WalkInv'
<1>1. req' = [r \in Requests |-> IF req[r].pc = "new" THEN req[r] ELSE End("over")]
  BY DEF Restart
<1>2. \A r \in Requests : Counted(req'[r])
  BY <1>1 DEF WalkInv
<1>3. req' = [r \in Requests |-> req'[r]]
  BY <1>1
<1> QED
  BY <1>2, <1>3 DEF WalkInv

LEMMA WalkInit == Init => WalkInv
<1> SUFFICES ASSUME Init PROVE WalkInv
  OBVIOUS
<1>1. req \in [Requests -> {New(cross) : cross \in BOOLEAN}]
  BY DEF Init
<1>2. \A r \in Requests : \E cross \in BOOLEAN : req[r] = New(cross)
  BY <1>1
<1>3. \A r \in Requests : Counted(req[r])
  BY <1>2, NewCounted
<1> QED
  BY <1>1, <1>3 DEF WalkInv

LEMMA WalkNext == WalkInv /\ [Next]_vars => WalkInv'
<1> SUFFICES ASSUME WalkInv, [Next]_vars PROVE WalkInv'
  OBVIOUS
<1>same. ASSUME req' = req PROVE WalkInv'
  BY <1>same DEF WalkInv
<1>over. Counted(End("over")) /\ Counted(End("gaveup"))
  BY EndCounted DEF Ended
<1>1. ASSUME NEW r \in Requests, Distribute(r) PROVE WalkInv'
  <2> DEFINE q == req[r]
  <2>1. Counted(q) /\ q.pc = "new"
    BY <1>1 DEF WalkInv, Distribute
  <2>2. q.tries = 0
    BY <2>1 DEF Counted
  <2>3. CASE Usable(1) = {}
    <3>1. req' = [req EXCEPT ![r] = End("over")]
      BY <1>1, <2>3 DEF Distribute
    <3> QED
      BY <3>1, <1>over, WalkStep
  <2>4. CASE Usable(1) # {}
    <3>g. PICK g \in First(1) : \E c \in GetRandomSatisfiedChannel(g, 0) :
            \E key \in IF KeysUp(c, cached[c]) = {} THEN {NoKey} ELSE KeysUp(c, cached[c]) :
              req' = [req EXCEPT ![r] =
                Asking(q, g, c, key, 0, IF Exhausted(q, 0) THEN NextGroup(g) ELSE g, FALSE)]
      BY <1>1, <2>4, Zenon DEF Distribute
    <3>c. PICK c \in GetRandomSatisfiedChannel(g, 0) :
            \E key \in IF KeysUp(c, cached[c]) = {} THEN {NoKey} ELSE KeysUp(c, cached[c]) :
              req' = [req EXCEPT ![r] =
                Asking(q, g, c, key, 0, IF Exhausted(q, 0) THEN NextGroup(g) ELSE g, FALSE)]
      BY <3>g
    <3>1. PICK key : req' = [req EXCEPT ![r] =
            Asking(q, g, c, key, 0, IF Exhausted(q, 0) THEN NextGroup(g) ELSE g, FALSE)]
      BY <3>c
    <3>2. g \in Groups
      <4>1. 1 \in 1 .. NumGroups + 1
        BY TurnType, SMT
      <4> QED
        BY <4>1, FirstType
    <3>3. g - 1 \in Nat /\ g \in Nat /\ g <= NumGroups /\ g + 1 \in 1 .. NumGroups + 1
      BY <3>2, TurnType, SMT DEF Groups
    <3>4. 0 \in 0 .. RetryTimes /\ q.tries \in Nat /\ q.tries <= Turns(g - 1) + 0
      <4>1. Turns(g - 1) \in Nat
        BY <3>3, TurnsStep
      <4> QED
        BY <2>2, <4>1, TurnType, SMT
    <3>5. CASE ~Exhausted(q, 0)
      <4>1. Counted(Asking(q, g, c, key, 0, g, FALSE))
        BY <3>2, <3>4, AskStays
      <4>2. req' = [req EXCEPT ![r] = Asking(q, g, c, key, 0, g, FALSE)]
        BY <3>1, <3>5
      <4> QED
        BY <4>1, <4>2, WalkStep
    <3>6. CASE Exhausted(q, 0)
      <4> DEFINE p == Asking(q, g, c, key, 0, NextGroup(g), FALSE)
      <4>1. /\ p.pc = "ask" /\ p.index = g + 1 /\ p.retry = 0 /\ p.again = FALSE
            /\ p.tries = q.tries + 1
        BY DEF Asking, NextGroup
      <4>5. req' = [req EXCEPT ![r] = p]
        BY <3>1, <3>6
      <4> HIDE DEF p
      <4>2. RetryTimes = 0
        BY <3>6, TurnType, SMT DEF Exhausted
      <4>n. p.tries = q.tries + 1 /\ p.index = g + 1 /\ p.retry = 0
        BY <4>1
      <4>3. p.tries = 1 /\ p.index \in 1 .. NumGroups + 1 /\ p.retry \in 0 .. RetryTimes
            /\ p.tries \in Nat
        BY <2>2, <3>3, <4>n, <4>2, SMT
      <4>4. p.tries <= NumGroups * (RetryTimes + 1)
        BY <4>2, <4>3, TurnType, SMT
      <4>6. Numbers(p) /\ Asks(p)
        <5>1. p.again \in BOOLEAN
          BY <4>1, Zenon
        <5> QED
          BY <4>1, <4>2, <4>3, <5>1, Zenon DEF Numbers, Asks
      <4>7. Counted(p)
        BY <4>1, <4>4, <4>6 DEF Counted
      <4> QED
        BY <4>5, <4>7, WalkStep
    <3> QED
      BY <3>5, <3>6
  <2> QED
    BY <2>3, <2>4
<1>2. ASSUME NEW r \in Requests, Pick(r) PROVE WalkInv'
  <2> DEFINE q == req[r]
  <2>1. Counted(q) /\ q.pc = "pick"
    BY <1>2 DEF WalkInv, Pick
  <2>2. CASE Usable(q.index) = {}
    <3>1. req' = [req EXCEPT ![r] = End("gaveup")]
      BY <1>2, <2>2 DEF Pick
    <3> QED
      BY <3>1, <1>over, WalkStep
  <2>3. CASE Usable(q.index) # {}
    <3>1. PICK g \in First(q.index) : PickFrom(r, g, RetryIn(g, q.index, q.retry))
      BY <1>2, <2>3 DEF Pick
    <3> DEFINE k == RetryIn(g, q.index, q.retry)
    <3>2. PICK c \in GetRandomSatisfiedChannel(g, k) :
            IF KeysUp(c, cached[c]) = {}
            THEN req' = [req EXCEPT ![r] = End("over")]
            ELSE \E key \in KeysUp(c, cached[c]) :
                   req' = [req EXCEPT ![r] =
                       IF Exhausted(q, k)
                       THEN Asking(q, g, c, key, 0, NextGroup(g), TRUE)
                       ELSE Asking(q, g, c, key, k, g, FALSE)]
      BY <3>1, Zenon DEF PickFrom
    <3>3. CASE KeysUp(c, cached[c]) = {}
      BY <3>2, <3>3, <1>over, WalkStep
    <3>4. CASE KeysUp(c, cached[c]) # {}
      <4>1. PICK key \in KeysUp(c, cached[c]) :
              req' = [req EXCEPT ![r] =
                  IF Exhausted(q, k)
                  THEN Asking(q, g, c, key, 0, NextGroup(g), TRUE)
                  ELSE Asking(q, g, c, key, k, g, FALSE)]
        BY <3>2, <3>4
      <4>2. /\ Counted(Asking(q, g, c, key, k, g, FALSE))
            /\ Exhausted(q, k) => Counted(Asking(q, g, c, key, 0, NextGroup(g), TRUE))
        BY <2>1, PickCounted
      <4>3. Counted(IF Exhausted(q, k) THEN Asking(q, g, c, key, 0, NextGroup(g), TRUE)
                    ELSE Asking(q, g, c, key, k, g, FALSE))
        BY <4>2
      <4> QED
        BY <4>1, <4>3, WalkStep
    <3> QED
      BY <3>3, <3>4
  <2> QED
    BY <2>2, <2>3
<1>3. ASSUME NEW r \in Requests, Served(r) PROVE WalkInv'
  <2>1. req' = [req EXCEPT ![r] = End("over")]
    BY <1>3 DEF Served
  <2> QED
    BY <2>1, <1>over, WalkStep
<1>4. ASSUME NEW r \in Requests, Failed(r) PROVE WalkInv'
  <2> DEFINE q == req[r]
  <2>1. Counted(q) /\ q.pc = "ask"
    BY <1>4 DEF WalkInv, Failed
  <2>2. PICK kind \in {"channel", "status", "fatal"} :
          req' = [req EXCEPT ![r] =
            IF kind = "fatal" THEN End("over")
            ELSE IF ShouldRetry(q, kind) /\ IncreaseRetry(q) <= RetryTimes
            THEN Again(q, IncreaseRetry(q))
            ELSE End("gaveup")]
    BY <1>4, Zenon DEF Failed
  <2>3. IncreaseRetry(q) <= RetryTimes => Counted(Again(q, IncreaseRetry(q)))
    BY <2>1, AgainCounted
  <2>4. Counted(IF kind = "fatal" THEN End("over")
                ELSE IF ShouldRetry(q, kind) /\ IncreaseRetry(q) <= RetryTimes
                THEN Again(q, IncreaseRetry(q))
                ELSE End("gaveup"))
    BY <2>3, <1>over
  <2> QED
    BY <2>2, <2>4, WalkStep
<1>5. ASSUME NEW w \in Workers, WorkerStep(w) PROVE WalkInv'
  BY <1>5, <1>same DEF WorkerStep, LockStatus, CacheUpdate, ReadRow, ChangeCopy, SaveRow
<1>6. ASSUME NEW s \in Syncers, SyncStep(s) PROVE WalkInv'
  <2>1. CASE Restart
    BY <2>1, <1>over, WalkRestart
  <2>2. CASE req' = req
    BY <2>2, <1>same
  <2> QED
    BY <1>6, <2>1, <2>2 DEF SyncStep, SyncRead, SyncPanic, SyncSwap
<1>7. ASSUME NEW c \in Channels, Edit(c) PROVE WalkInv'
  BY <1>7, <1>same DEF Edit, EditStatus, EditKeys
<1>8. ASSUME LockKeys \/ AdminSave \/ TestAll \/ Test PROVE WalkInv'
  BY <1>8, <1>same DEF LockKeys, AdminSave, TestAll, Test, TestOne, TestEnd
<1>9. ASSUME UNCHANGED vars PROVE WalkInv'
  BY <1>9, <1>same DEF vars
<1> QED
  BY <1>1, <1>2, <1>3, <1>4, <1>5, <1>6, <1>7, <1>8, <1>9 DEF Next, RequestStep

(* The retry loop is bounded, whatever the groups, the priorities and the   *)
(* channels that come and go: RetryTimes + 1 tries of each group.           *)
THEOREM LoopBounded == Spec => []TriesBounded
<1>1. WalkInv => TriesBounded
  BY DEF WalkInv, Counted, TriesBounded
<1> QED
  BY WalkInit, WalkNext, <1>1, PTL DEF Spec

--------------------------------------------------------------------------------
(* Channels disabled by hand                                                *)

Table == row = [c \in Channels |-> row[c]]

LEMMA TableInit == Init => Table
BY DEF Init, Table

LEMMA TableNext == Table /\ [Next]_vars => Table'
<1> SUFFICES ASSUME Table, [Next]_vars PROVE Table'
  OBVIOUS
<1>same. ASSUME row' = row PROVE Table'
  BY <1>same DEF Table
<1>set. ASSUME NEW d, NEW e, row' = [row EXCEPT ![d] = e] PROVE Table'
  BY <1>set DEF Table
<1>1. ASSUME NEW r \in Requests, RequestStep(r) PROVE Table'
  BY <1>1, <1>same DEF RequestStep, Distribute, Pick, Served, Failed
<1>2. ASSUME NEW w \in Workers,
             LockStatus(w) \/ CacheUpdate(w) \/ ReadRow(w) \/ ChangeCopy(w)
      PROVE  Table'
  BY <1>2, <1>same DEF LockStatus, CacheUpdate, ReadRow, ChangeCopy
<1>3. ASSUME NEW w \in Workers, SaveRow(w) PROVE Table'
  BY <1>3, <1>same, <1>set DEF SaveRow
<1>4. ASSUME NEW s \in Syncers, SyncStep(s) PROVE Table'
  BY <1>4, <1>same DEF SyncStep, SyncRead, SyncPanic, SyncSwap
<1>5. ASSUME NEW c \in Channels, Edit(c) PROVE Table'
  BY <1>5, <1>same DEF Edit, EditStatus, EditKeys
<1>6. ASSUME AdminSave PROVE Table'
  BY <1>6, <1>same, <1>set DEF AdminSave
<1>7. ASSUME LockKeys \/ TestAll \/ Test PROVE Table'
  BY <1>7, <1>same DEF LockKeys, TestAll, Test, TestOne, TestEnd
<1>8. ASSUME UNCHANGED vars PROVE Table'
  BY <1>8, <1>same DEF vars
<1> QED
  BY <1>1, <1>2, <1>3, <1>4, <1>5, <1>6, <1>7, <1>8 DEF Next, WorkerStep

LEMMA SettledKept ==
    ASSUME NEW c \in Channels, Table, ManualSettled(c), [Next]_vars
    PROVE  row'[c] = row[c] /\ c \notin listed'
<1> DEFINE Kept == row'[c] = row[c] /\ c \notin listed'
<1>0. c \notin listed
  BY DEF ManualSettled
<1>same. ASSUME row' = row, listed' = listed PROVE Kept
  BY <1>0, <1>same
<1>set. ASSUME NEW d, NEW e, row' = [row EXCEPT ![d] = e], d # c PROVE row'[c] = row[c]
  BY <1>set DEF Table
<1>1. ASSUME NEW r \in Requests, RequestStep(r) PROVE Kept
  BY <1>1, <1>same DEF RequestStep, Distribute, Pick, Served, Failed, cacheVars
<1>2. ASSUME NEW w \in Workers, LockStatus(w) \/ ReadRow(w) \/ ChangeCopy(w) PROVE Kept
  BY <1>2, <1>same DEF LockStatus, ReadRow, ChangeCopy, cacheVars
<1>3. ASSUME NEW w \in Workers, CacheUpdate(w) PROVE Kept
  <2>1. row' = row /\ listed' \subseteq listed
    BY <1>3 DEF CacheUpdate, Delisted
  <2> QED
    BY <1>0, <2>1
<1>4. ASSUME NEW w \in Workers, SaveRow(w) PROVE Kept
  <2>1. job[w].pc = "save" /\ listed' = listed
    BY <1>4 DEF SaveRow, cacheVars
  <2>2. job[w].chan # c
    BY <2>1 DEF ManualSettled, Idle
  <2>3. row' = row \/ \E e : row' = [row EXCEPT ![job[w].chan] = e]
    BY <1>4 DEF SaveRow
  <2> QED
    BY <1>0, <1>set, <2>1, <2>2, <2>3
<1>5. ASSUME NEW s \in Syncers, SyncRead(s) PROVE Kept
  BY <1>5, <1>same DEF SyncRead
<1>6. ASSUME NEW s \in Syncers, SyncSwap(s) PROVE Kept
  <2>1. PICK entries \in snap[s] : listed' = Enabled(entries)
    BY <1>6 DEF SyncSwap, ListedOf
  <2>2. entries[c].status # "enabled"
    BY DEF ManualSettled
  <2>3. row' = row
    BY <1>6 DEF SyncSwap
  <2> QED
    BY <2>1, <2>2, <2>3 DEF Enabled
<1>7. ASSUME NEW d \in Channels, Edit(d) PROVE Kept
  BY <1>7, <1>same DEF Edit, EditStatus, EditKeys, cacheVars
<1>8. ASSUME AdminSave PROVE Kept
  <2>1. admin.pc # "idle" /\ listed' = listed
    BY <1>8 DEF AdminSave, cacheVars
  <2>2. admin.chan # c
    BY <2>1 DEF ManualSettled
  <2>3. row' = row \/ \E e : row' = [row EXCEPT ![admin.chan] = e]
    BY <1>8 DEF AdminSave
  <2> QED
    BY <1>0, <1>set, <2>1, <2>2, <2>3
<1>9. ASSUME LockKeys \/ TestAll \/ Test PROVE Kept
  BY <1>9, <1>same DEF LockKeys, TestAll, Test, TestOne, TestEnd, cacheVars
<1>10. ASSUME UNCHANGED vars PROVE Kept
  BY <1>10, <1>same DEF vars
<1>11. ASSUME NEW s \in Syncers, SyncPanic(s) PROVE Kept
  <2>1. CASE Restart
    <3>1. row' = row /\ listed' = Enabled(row) /\ row[c].status = "manual"
      BY <1>11, <2>1 DEF SyncPanic, Restart, ManualSettled
    <3> QED
      BY <3>1 DEF Enabled
  <2>2. CASE UNCHANGED <<row, listed>>
    BY <1>same, <2>2
  <2> QED
    BY <1>11, <2>1, <2>2 DEF SyncPanic, cacheVars
<1> QED
  BY <1>1, <1>2, <1>3, <1>4, <1>5, <1>6, <1>7, <1>8, <1>9, <1>10, <1>11
  DEF Next, WorkerStep, SyncStep

(* Neither requests, workers, tests nor synchronisations bring a settled    *)
(* channel back, however many of them there are.                            *)
THEOREM DisabledByHandStays == Spec => ManualStays
<1>1. Table /\ [Next]_vars =>
        [\A c \in Channels : ManualSettled(c) => row'[c] = row[c] /\ c \notin listed']_vars
  BY SettledKept
<1> QED
  BY TableInit, TableNext, <1>1, PTL DEF Spec, ManualStays

--------------------------------------------------------------------------------
(* The priorities of a group, by rank: the i-th try asks rank i             *)

Rank(P, p) == Cardinality({q \in P : q > p})
Top(P, i) == {p \in P : Rank(P, p) <= i}

LEMMA Ranks ==
    ASSUME NEW P \in SUBSET Nat, IsFiniteSet(P)
    PROVE  /\ Cardinality(P) \in Nat
           /\ \A p \in P : Rank(P, p) \in Nat /\ Rank(P, p) < Cardinality(P)
           /\ \A p, q \in P : p < q => Rank(P, q) < Rank(P, p)
<1>1. Cardinality(P) \in Nat
  BY FS_CardinalityType
<1>2. ASSUME NEW S \in SUBSET P, NEW T \in SUBSET S, S # T
      PROVE  /\ Cardinality(S) \in Nat /\ Cardinality(T) \in Nat
             /\ Cardinality(T) < Cardinality(S)
  <2>1. IsFiniteSet(S)
    BY FS_Subset
  <2>2. IsFiniteSet(T) /\ Cardinality(T) <= Cardinality(S) /\ Cardinality(S) # Cardinality(T)
    BY <2>1, <1>2, FS_Subset
  <2>3. Cardinality(S) \in Nat /\ Cardinality(T) \in Nat
    BY <2>1, <2>2, FS_CardinalityType
  <2> QED
    BY <2>2, <2>3
<1> DEFINE Above(p) == {q \in P : q > p}
<1>3. \A p \in P : Rank(P, p) = Cardinality(Above(p))
  BY DEF Rank
<1>4. ASSUME NEW p \in P
      PROVE  Rank(P, p) \in Nat /\ Rank(P, p) < Cardinality(P)
  <2>1. Above(p) \in SUBSET P /\ P # Above(p)
    OBVIOUS
  <2> HIDE DEF Above
  <2> QED
    BY <1>2, <1>3, <2>1
<1>5. ASSUME NEW p \in P, NEW q \in P, p < q
      PROVE  Rank(P, q) < Rank(P, p)
  <2>1. Above(p) \in SUBSET P /\ Above(q) \in SUBSET Above(p)
    <3>1. \A x \in P : x > q => x > p
      BY <1>5
    <3> QED
      BY <3>1
  <2>2. q \in Above(p) /\ q \notin Above(q)
    BY <1>5
  <2> HIDE DEF Above
  <2> QED
    BY <1>2, <1>3, <2>1, <2>2
<1> QED
  BY <1>1, <1>4, <1>5

(* The greatest of some priorities.                                         *)
LEMMA Greatest ==
    ASSUME NEW P \in SUBSET Nat, IsFiniteSet(P), NEW D \in SUBSET P, D # {}
    PROVE  \E p \in D : \A q \in D : q <= p
<1> DEFINE B == {T \in SUBSET P : \E p \in D : {q \in P : q > p} \subseteq T}
<1>1. B # {} /\ B \in SUBSET (SUBSET P)
  <2>1. P \in B
    OBVIOUS
  <2> QED
    BY <2>1
<1>2. PICK T \in B : \A x \in T : T \ {x} \notin B
  <2> HIDE DEF B
  <2> QED
    BY <1>1, SmallestSet
<1>3. PICK p \in D : {q \in P : q > p} \subseteq T
  BY <1>2
<1>4. ASSUME NEW q \in D, q > p
      PROVE  FALSE
  <2>1. q \in T
    BY <1>3, <1>4
  <2>2. {x \in P : x > q} \subseteq T \ {q}
    <3>1. \A x \in P : x > q => x > p /\ x # q
      BY <1>4
    <3> QED
      BY <1>3, <3>1
  <2>3. T \ {q} \in B
    BY <2>2
  <2> QED
    BY <1>2, <2>1, <2>3
<1> QED
  BY <1>4

(* No rank below the number of priorities is left out.                      *)
LEMMA RankReached ==
    ASSUME NEW P \in SUBSET Nat, IsFiniteSet(P), NEW i \in Nat, i < Cardinality(P)
    PROVE  \E p \in P : Rank(P, p) = i
<1>1. ASSUME NEW S \in SUBSET P, \A q \in S : Rank(P, q) < i
      PROVE  Cardinality(S) <= i
  <2> DEFINE f == [q \in S |-> Rank(P, q)]
             I == 0 .. (i - 1)
  <2>1. IsFiniteSet(I) /\ Cardinality(I) = i
    <3>1. 0 \in Int /\ i - 1 \in Int
      OBVIOUS
    <3>2. IsFiniteSet(I) /\ Cardinality(I) = IF 0 > i - 1 THEN 0 ELSE i - 1 - 0 + 1
      BY <3>1, FS_Interval
    <3> QED
      BY <3>2
  <2>2. f \in Injection(S, I)
    <3>1. f \in [S -> I]
      BY <1>1, Ranks
    <3>2. \A p, q \in S : f[p] = f[q] => p = q
      <4> SUFFICES ASSUME NEW p \in S, NEW q \in S, Rank(P, p) = Rank(P, q)
                   PROVE  p = q
        OBVIOUS
      <4>1. ~(p < q) /\ ~(q < p)
        BY Ranks
      <4> QED
        BY <4>1
    <3> QED
      BY <3>1, <3>2 DEF Injection, IsInjective
  <2> HIDE DEF f, I
  <2> QED
    BY <2>1, <2>2, FS_Injection
<1> DEFINE D == {p \in P : Rank(P, p) >= i}
<1>2. D # {}
  <2> SUFFICES ASSUME D = {} PROVE FALSE
    OBVIOUS
  <2>1. \A q \in P : Rank(P, q) < i
    BY Ranks
  <2> QED
    BY <1>1, <2>1, Ranks
<1>3. PICK p \in D : \A q \in D : q <= p
  <2> HIDE DEF D
  <2>1. D \in SUBSET P
    BY DEF D
  <2> QED
    BY <1>2, <2>1, Greatest
<1>4. Rank(P, p) <= i
  <2> DEFINE S == {q \in P : q > p}
  <2>1. S \in SUBSET P /\ \A q \in S : Rank(P, q) < i
    BY <1>3, Ranks
  <2>2. Rank(P, p) = Cardinality(S)
    BY DEF Rank
  <2> HIDE DEF S
  <2> QED
    BY <1>1, <2>1, <2>2
<1> QED
  BY <1>4, Ranks

LEMMA TargetRank ==
    ASSUME NEW P \in SUBSET Nat, IsFiniteSet(P), P # {}, NEW i \in Nat
    PROVE  /\ Target(P, i) \in P
           /\ i < Cardinality(P) => Rank(P, Target(P, i)) = i
<1> DEFINE Fits(p) == \/ Cardinality({q \in P : q > p}) = i
                      \/ Cardinality(P) <= i /\ \A q \in P : p <= q
<1>1. \E p \in P : Fits(p)
  <2>1. CASE i < Cardinality(P)
    BY <2>1, RankReached DEF Rank
  <2>2. CASE ~(i < Cardinality(P))
    <3>1. Cardinality(P) <= i
      BY <2>2, Ranks
    <3>2. \E p \in P : \A q \in P : p <= q
      <4> DEFINE n == Cardinality(P) - 1
      <4>1. Cardinality(P) # 0 /\ Cardinality(P) \in Nat
        BY FS_EmptySet, Ranks
      <4>2. PICK p \in P : Rank(P, p) = n
        BY <4>1, RankReached
      <4>3. \A q \in P : ~(q < p)
        <5> SUFFICES ASSUME NEW q \in P, q < p PROVE FALSE
          OBVIOUS
        <5>1. Rank(P, p) < Rank(P, q) /\ Rank(P, q) < Cardinality(P) /\ Rank(P, q) \in Nat
          BY Ranks
        <5> QED
          BY <4>1, <4>2, <5>1
      <4> QED
        BY <4>3
    <3> QED
      BY <3>1, <3>2
  <2> QED
    BY <2>1, <2>2
<1>2. Target(P, i) = CHOOSE p \in P : Fits(p)
  BY DEF Target
<1>3. Target(P, i) \in P /\ Fits(Target(P, i))
  <2> HIDE DEF Fits
  <2> QED
    BY <1>1, <1>2
<1>4. i < Cardinality(P) => ~(Cardinality(P) <= i)
  BY Ranks
<1> QED
  BY <1>3, <1>4 DEF Rank

(* Enough tries ask them all.                                               *)
LEMMA TopAll ==
    ASSUME NEW P \in SUBSET Nat, IsFiniteSet(P), NEW i \in Nat, Cardinality(P) <= i + 1
    PROVE  Top(P, i) = P
<1>1. \A p \in P : Rank(P, p) <= i
  BY Ranks
<1> QED
  BY <1>1 DEF Top

LEMMA TopFirst ==
    ASSUME NEW P \in SUBSET Nat, IsFiniteSet(P), P # {}
    PROVE  Top(P, 0) = {Target(P, 0)}
<1> DEFINE t == Target(P, 0)
<1>1. t \in P /\ Rank(P, t) = 0
  BY TargetRank, Ranks, FS_EmptySet
<1> HIDE DEF t
<1>2. ASSUME NEW p \in P, Rank(P, p) <= 0
      PROVE  p = t
  <2>1. Rank(P, p) = 0 /\ Rank(P, t) = 0
    BY <1>1, <1>2, Ranks
  <2>2. ~(p < t) /\ ~(t < p)
    BY <1>1, <2>1, Ranks
  <2> QED
    BY <1>1, <2>2
<1>3. Top(P, 0) = {t}
  <2>1. Rank(P, t) <= 0
    BY <1>1
  <2> QED
    BY <1>1, <1>2, <2>1 DEF Top
<1> QED
  BY <1>3 DEF t

LEMMA TopNext ==
    ASSUME NEW P \in SUBSET Nat, IsFiniteSet(P), P # {}, NEW i \in Nat, i > 0
    PROVE  Top(P, i) = Top(P, i - 1) \cup {Target(P, i)}
<1> DEFINE t == Target(P, i)
<1>1. t \in P /\ (i < Cardinality(P) => Rank(P, t) = i)
  BY TargetRank
<1>2. Cardinality(P) \in Nat /\ \A p \in P : Rank(P, p) \in Nat /\ Rank(P, p) < Cardinality(P)
  BY Ranks
<1> HIDE DEF t
<1>3. ASSUME NEW p \in P, Rank(P, p) <= i, p # t
      PROVE  Rank(P, p) <= i - 1
  <2>1. CASE i < Cardinality(P)
    <3>1. ~(p < t /\ Rank(P, p) = i) /\ ~(t < p /\ Rank(P, p) = i)
      BY <1>1, <2>1, Ranks
    <3> QED
      BY <1>1, <1>2, <1>3, <3>1
  <2>2. CASE ~(i < Cardinality(P))
    BY <1>2, <2>2
  <2> QED
    BY <2>1, <2>2
<1>4. Rank(P, t) <= i
  BY <1>1, <1>2
<1>5. \A p \in P : Rank(P, p) <= i - 1 => Rank(P, p) <= i
  BY <1>2
<1>6. Top(P, i) = Top(P, i - 1) \cup {t}
  BY <1>1, <1>3, <1>4, <1>5 DEF Top
<1> QED
  BY <1>6 DEF t

--------------------------------------------------------------------------------
(* What a request has asked of its group, as long as the group stays as it  *)
(* was: the priorities up to the rank of its last try.  A request that is   *)
(* to go on to the next group has come to the rank RetryTimes.              *)

LastRank(q) == IF q.index # q.at THEN RetryTimes
               ELSE IF q.pc = "ask" THEN q.retry ELSE q.retry - 1
Ranked(q) ==
    q.pc \in {"ask", "pick"} =>
      /\ q.tries > 0 /\ q.at \in Groups /\ q.index \in {q.at, q.at + 1}
      /\ q.seen \subseteq Channels
      /\ q.index = q.at => ~q.again
      /\ q.index # q.at => q.retry = 0
      /\ q.index # q.at /\ q.pc = "ask" => q.again \/ RetryTimes = 0
      /\ q.pc = "pick" /\ q.index = q.at => q.retry > 0
      /\ q.calm => q.prios = Top(Prios(q.seen), LastRank(q))

RankInv ==
    /\ listed \subseteq Channels
    /\ snap = [s \in Syncers |-> snap[s]]
    /\ \A r \in Requests : Ranked(req[r])

LEMMA PriosType ==
    ASSUME NEW C \in SUBSET Channels
    PROVE  /\ Prios(C) \in SUBSET Nat /\ IsFiniteSet(Prios(C))
           /\ C # {} => Prios(C) # {}
           /\ C = {} => Prios(C) = {}
<1>1. IsFiniteSet(C)
  BY ChannelAssumption, FS_Subset
<1>2. IsFiniteSet(Prios(C))
  <2> DEFINE f == [c \in C |-> Priority[c]]
  <2>1. f \in Surjection(C, Prios(C))
    BY DEF Prios, Surjection
  <2> HIDE DEF f
  <2> QED
    BY <1>1, <2>1, FS_Surjection
<1> QED
  BY <1>2, ChannelAssumption DEF Prios

(* A request that has come to the last rank has asked them all.             *)
LEMMA AllAsked ==
    ASSUME NEW q, Ranked(q), q.pc \in {"ask", "pick"}, q.calm, EnoughTries(q),
           LastRank(q) = RetryTimes \/ q.seen = {}
    PROVE  q.prios = Prios(q.seen)
<1>1. q.seen \in SUBSET Channels /\ q.prios = Top(Prios(q.seen), LastRank(q))
  BY DEF Ranked
<1>2. CASE LastRank(q) = RetryTimes
  BY <1>1, <1>2, PriosType, TopAll, TurnType DEF EnoughTries
<1>3. CASE q.seen = {}
  <2>1. Prios(q.seen) = {}
    BY <1>1, <1>3, PriosType
  <2> QED
    BY <1>1, <2>1 DEF Top
<1> QED
  BY <1>2, <1>3

LEMMA EndRanked == \A pc \in Ended : Ranked(End(pc))
BY DEF Ranked, End, Ended

(* A try in group g: the first one, or the next of those before.            *)
LEMMA AskRanked ==
    ASSUME listed \subseteq Channels, NEW q, NEW g \in Groups,
           NEW k \in 0 .. RetryTimes, NEW c \in GetRandomSatisfiedChannel(g, k),
           NEW key, NEW index, NEW again \in BOOLEAN, NEW retry,
           q.tries \in Nat,
           \/ index = g /\ retry = k /\ ~again
           \/ index = g + 1 /\ retry = 0 /\ k = RetryTimes /\ (again \/ RetryTimes = 0),
           \/ /\ q.tries > 0 /\ q.at = g /\ q.pc = "pick" /\ Ranked(q)
              /\ q.index = q.at /\ k = q.retry
           \/ ~(q.tries > 0 /\ q.at = g) /\ k = 0
    PROVE  Ranked(Asking(q, g, c, key, retry, index, again))
<1> DEFINE p == Asking(q, g, c, key, retry, index, again)
           stays == q.tries > 0 /\ q.at = g
<1>1. /\ p.pc = "ask" /\ p.index = index /\ p.retry = retry /\ p.again = again
      /\ p.at = g /\ p.tries = q.tries + 1
      /\ p.seen = (IF stays THEN q.seen ELSE Of(g))
      /\ p.calm = (stays => q.calm /\ q.seen = Of(g))
      /\ p.prios = {Priority[c]} \cup (IF stays THEN q.prios ELSE {})
  BY Zenon DEF Asking
<1>2. Of(g) \in SUBSET Channels /\ c \in Of(g) /\ Priority[c] = Target(Prios(Of(g)), k)
  BY DEF GetRandomSatisfiedChannel, Of
<1> HIDE DEF p
<1>3. g \in Int /\ k \in Nat /\ k <= RetryTimes /\ RetryTimes \in Nat
  BY TurnType DEF Groups
<1>4. LastRank(p) = k
  BY <1>1, <1>3 DEF LastRank
<1>5. ASSUME p.calm
      PROVE  p.prios = Top(Prios(p.seen), k)
  <2> DEFINE P == Prios(Of(g))
  <2>1. P \in SUBSET Nat /\ IsFiniteSet(P) /\ P # {}
    BY <1>2, PriosType
  <2>2. p.seen = Of(g)
    BY <1>1, <1>5
  <2> HIDE DEF P
  <2>3. CASE stays
    <3>1. /\ q.calm /\ q.seen = Of(g) /\ q.pc = "pick" /\ q.index = q.at /\ k = q.retry
          /\ Ranked(q)
      BY <1>1, <1>5, <2>3
    <3>2. LastRank(q) = k - 1 /\ k > 0
      BY <3>1, <1>3 DEF LastRank, Ranked
    <3>3. q.prios = Top(P, k - 1)
      BY <3>1, <3>2 DEF Ranked, P
    <3>4. Top(P, k) = Top(P, k - 1) \cup {Target(P, k)}
      BY <2>1, <1>3, <3>2, TopNext
    <3>5. p.prios = {Target(P, k)} \cup Top(P, k - 1)
      BY <1>1, <1>2, <2>3, <3>3 DEF P
    <3> QED
      BY <2>2, <3>4, <3>5 DEF P
  <2>4. CASE ~stays
    <3>1. k = 0
      BY <2>4
    <3>2. p.prios = {Target(P, 0)}
      BY <1>1, <1>2, <2>4, <3>1 DEF P
    <3>3. Top(P, 0) = {Target(P, 0)}
      BY <2>1, TopFirst
    <3> QED
      BY <2>2, <3>1, <3>2, <3>3 DEF P
  <2> QED
    BY <2>3, <2>4
<1>6. p.seen \subseteq Channels
  BY <1>1, <1>2 DEF Ranked
<1>7. p.index \in {p.at, p.at + 1} /\ p.tries > 0
  BY <1>1, <1>3
<1>8. /\ p.index = p.at => ~p.again
      /\ p.index # p.at => p.retry = 0 /\ (p.again \/ RetryTimes = 0)
  BY <1>1, <1>3
<1>9. Ranked(p)
  BY <1>1, <1>4, <1>5, <1>6, <1>7, <1>8 DEF Ranked
<1> QED
  BY <1>9 DEF p

(* The next try after a failure.                                            *)
LEMMA AgainRanked ==
    ASSUME NEW q, Counted(q), Ranked(q), q.pc = "ask", IncreaseRetry(q) <= RetryTimes
    PROVE  Ranked(Again(q, IncreaseRetry(q)))
<1> DEFINE k == IncreaseRetry(q)
           p == Again(q, k)
<1>1. /\ p.pc = "pick" /\ p.index = q.index /\ p.retry = k /\ p.again = FALSE
      /\ p.tries = q.tries /\ p.at = q.at /\ p.seen = q.seen /\ p.calm = q.calm
      /\ p.prios = q.prios
  BY DEF Again
<1>2. q.retry \in Nat /\ RetryTimes \in Nat
  BY TurnType DEF Counted, Numbers
<1>3. CASE q.index = q.at
  <2>1. k = q.retry + 1
    BY <1>3 DEF Ranked, IncreaseRetry
  <2> HIDE DEF p, k
  <2>2. LastRank(p) = LastRank(q) /\ p.retry > 0
    BY <1>1, <1>2, <1>3, <2>1 DEF LastRank
  <2>3. Ranked(p)
    BY <1>1, <1>3, <2>2 DEF Ranked
  <2> QED
    BY <2>3 DEF p, k
<1>4. CASE q.index # q.at
  <2>1. q.retry = 0 /\ (q.again \/ RetryTimes = 0)
    BY <1>4 DEF Ranked
  <2>2. k = 0
    BY <1>2, <2>1 DEF IncreaseRetry
  <2> HIDE DEF p, k
  <2>3. LastRank(p) = LastRank(q)
    BY <1>1, <1>4 DEF LastRank
  <2>4. Ranked(p)
    BY <1>1, <1>4, <2>2, <2>3 DEF Ranked
  <2> QED
    BY <2>4 DEF p, k
<1> QED
  BY <1>3, <1>4

(* A request leaves its group only once it has asked all priorities.        *)
Asked(q, p) ==
    q.pc # "gaveup" /\ Leaves(q, p) /\ Undisturbed(q) /\ EnoughTries(q)
        => q.prios = Prios(q.seen)

LEMMA OneRanked ==
    ASSUME NEW r \in Requests, NEW p, Ranked(p), Asked(req[r], p), WalkInv, RankInv,
           req' = [req EXCEPT ![r] = p], UNCHANGED <<listed, snap>>
    PROVE  RankInv' /\ \A s \in Requests : Asked(req[s], req'[s])
<1>1. \A s \in Requests : req'[s] = IF s = r THEN p ELSE req[s]
  BY DEF WalkInv
<1>2. \A s \in Requests : Ranked(req'[s])
  BY <1>1 DEF RankInv
<1>3. \A s \in Requests : Asked(req[s], req[s])
  BY Zenon DEF Asked, Leaves
<1>4. \A s \in Requests : Asked(req[s], req'[s])
  BY <1>1, <1>3
<1> QED
  BY <1>2, <1>4 DEF RankInv

LEMMA SameRanked ==
    ASSUME RankInv, req' = req, listed' \subseteq Channels,
           snap' = [s \in Syncers |-> snap'[s]]
    PROVE  RankInv' /\ \A s \in Requests : Asked(req[s], req'[s])
<1>1. \A s \in Requests : Asked(req[s], req[s])
  BY Zenon DEF Asked, Leaves
<1> QED
  BY <1>1 DEF RankInv

LEMMA NoLeave ==
    ASSUME NEW q, NEW p, p.pc # "gaveup", p.pc # "ask" \/ q.pc # "pick"
    PROVE  Asked(q, p)
BY DEF Asked, Leaves

LEMMA DistributeRanked ==
    ASSUME WalkInv, RankInv, NEW r \in Requests, Distribute(r)
    PROVE  RankInv' /\ \A s \in Requests : Asked(req[s], req'[s])
<1> DEFINE q == req[r]
<1>1. Counted(q) /\ q.pc = "new" /\ q.tries = 0 /\ UNCHANGED <<listed, snap>>
      /\ listed \subseteq Channels
  BY DEF WalkInv, RankInv, Distribute, Counted, cacheVars
<1>2. CASE Usable(1) = {}
  <2>1. req' = [req EXCEPT ![r] = End("over")]
    BY <1>2 DEF Distribute
  <2>2. Ranked(End("over")) /\ End("over").pc = "over"
    BY EndRanked DEF Ended, End
  <2> QED
    BY <1>1, <2>1, <2>2, NoLeave, OneRanked
<1>3. CASE Usable(1) # {}
  <2>g. PICK g \in First(1) : \E c \in GetRandomSatisfiedChannel(g, 0) :
          \E key \in IF KeysUp(c, cached[c]) = {} THEN {NoKey} ELSE KeysUp(c, cached[c]) :
            req' = [req EXCEPT ![r] =
              Asking(q, g, c, key, 0, IF Exhausted(q, 0) THEN NextGroup(g) ELSE g, FALSE)]
    BY <1>3, Zenon DEF Distribute
  <2>c. PICK c \in GetRandomSatisfiedChannel(g, 0) :
          \E key \in IF KeysUp(c, cached[c]) = {} THEN {NoKey} ELSE KeysUp(c, cached[c]) :
            req' = [req EXCEPT ![r] =
              Asking(q, g, c, key, 0, IF Exhausted(q, 0) THEN NextGroup(g) ELSE g, FALSE)]
    BY <2>g
  <2> DEFINE index == IF Exhausted(q, 0) THEN NextGroup(g) ELSE g
  <2>1. PICK key : req' = [req EXCEPT ![r] = Asking(q, g, c, key, 0, index, FALSE)]
    BY <2>c
  <2>2. g \in Groups
    <3>1. 1 \in 1 .. NumGroups + 1
      BY TurnType, SMT
    <3> QED
      BY <3>1, FirstType
  <2>3. index = g \/ (index = g + 1 /\ 0 = RetryTimes)
    BY TurnType DEF Exhausted, NextGroup
  <2>4. Asking(q, g, c, key, 0, index, FALSE).pc = "ask"
    BY DEF Asking
  <2> HIDE DEF index, q
  <2>5. ~(q.tries > 0 /\ q.at = g) /\ q.tries \in Nat /\ 0 \in 0 .. RetryTimes
    BY <1>1, TurnType
  <2>6. Ranked(Asking(q, g, c, key, 0, index, FALSE))
    BY <1>1, <2>2, <2>3, <2>5, AskRanked
  <2>7. Asked(q, Asking(q, g, c, key, 0, index, FALSE))
    BY <1>1, <2>4, NoLeave
  <2> QED
    BY <1>1, <2>1, <2>6, <2>7, OneRanked DEF q
<1> QED
  BY <1>2, <1>3

(* Who picks is in the group it has asked, or past it with the last rank    *)
(* reached; a group that is skipped lists nothing.                          *)
LEMMA PickLeaves ==
    ASSUME NEW q, Counted(q), Ranked(q), q.pc = "pick", Undisturbed(q), EnoughTries(q),
           q.at \notin First(q.index)
    PROVE  q.prios = Prios(q.seen)
<1>1. CASE q.index # q.at
  BY <1>1, AllAsked DEF LastRank, Undisturbed
<1>2. CASE q.index = q.at
  <2>1. q.at \in q.index .. NumGroups
    BY <1>2, TurnType DEF Ranked, Groups
  <2>2. \A h \in Usable(q.index) : q.at <= h
    BY <1>2, TurnType DEF Usable, Ranked, Groups
  <2>3. q.at \notin Usable(q.index)
    BY <2>2 DEF First
  <2>4. q.seen = {}
    BY <2>1, <2>3 DEF Usable, Undisturbed
  <2> QED
    BY <2>4, AllAsked DEF Undisturbed
<1> QED
  BY <1>1, <1>2

LEMMA PickRanked ==
    ASSUME WalkInv, RankInv, NEW r \in Requests, Pick(r)
    PROVE  RankInv' /\ \A s \in Requests : Asked(req[s], req'[s])
<1> DEFINE q == req[r]
<1>1. Counted(q) /\ Ranked(q) /\ q.pc = "pick" /\ UNCHANGED <<listed, snap>>
      /\ listed \subseteq Channels
  BY DEF WalkInv, RankInv, Pick, cacheVars
<1>o. /\ Ranked(End("over")) /\ End("over").pc = "over"
      /\ Ranked(End("gaveup")) /\ End("gaveup").pc = "gaveup"
  BY EndRanked DEF Ended, End
<1>2. CASE Usable(q.index) = {}
  <2>1. req' = [req EXCEPT ![r] = End("gaveup")]
    BY <1>2 DEF Pick
  <2>2. q.at \notin First(q.index)
    BY <1>2 DEF First
  <2>3. Asked(q, End("gaveup"))
    BY <1>1, <2>2, PickLeaves DEF Asked
  <2> QED
    BY <1>1, <1>o, <2>1, <2>3, OneRanked
<1>3. CASE Usable(q.index) # {}
  <2>1. PICK g \in First(q.index) : PickFrom(r, g, RetryIn(g, q.index, q.retry))
    BY <1>3 DEF Pick
  <2> DEFINE k == RetryIn(g, q.index, q.retry)
  <2>2. PICK c \in GetRandomSatisfiedChannel(g, k) :
          IF KeysUp(c, cached[c]) = {}
          THEN req' = [req EXCEPT ![r] = End("over")]
          ELSE \E key \in KeysUp(c, cached[c]) :
                 req' = [req EXCEPT ![r] =
                     IF Exhausted(q, k)
                     THEN Asking(q, g, c, key, 0, NextGroup(g), TRUE)
                     ELSE Asking(q, g, c, key, k, g, FALSE)]
    BY <2>1, Zenon DEF PickFrom
  <2>3. CASE KeysUp(c, cached[c]) = {}
    <3>1. Asked(q, End("over"))
      BY <1>o, NoLeave
    <3> QED
      BY <1>1, <1>o, <2>2, <2>3, <3>1, OneRanked
  <2>4. CASE KeysUp(c, cached[c]) # {}
    <3>1. PICK key \in KeysUp(c, cached[c]) :
            req' = [req EXCEPT ![r] =
                IF Exhausted(q, k)
                THEN Asking(q, g, c, key, 0, NextGroup(g), TRUE)
                ELSE Asking(q, g, c, key, k, g, FALSE)]
      BY <2>2, <2>4
    <3>2. /\ q.index \in 1 .. NumGroups + 1 /\ q.retry \in 0 .. RetryTimes
          /\ q.tries \in Nat /\ g \in Groups /\ q.index <= g /\ g \in Int
      BY <1>1, FirstType DEF Counted, Numbers
    <3>3. k \in 0 .. RetryTimes
      BY <3>2, TurnType DEF RetryIn
    <3>4. \/ /\ q.tries > 0 /\ q.at = g /\ q.pc = "pick" /\ Ranked(q)
             /\ q.index = q.at /\ k = q.retry
          \/ ~(q.tries > 0 /\ q.at = g) /\ k = 0
      <4>1. /\ q.tries > 0 /\ q.at \in Int /\ q.index \in {q.at, q.at + 1}
            /\ q.index # q.at => q.retry = 0
        BY <1>1 DEF Ranked, Groups
      <4>2. CASE q.at = g
        BY <1>1, <3>2, <4>1, <4>2 DEF RetryIn
      <4>3. CASE q.at # g
        <5>1. k = 0
          BY <4>1, <4>3 DEF RetryIn
        <5> QED
          BY <4>3, <5>1
      <4> QED
        BY <4>2, <4>3
    <3>5. Exhausted(q, k) => k = RetryTimes
      BY <3>3, TurnType DEF Exhausted
    <3> HIDE DEF k, q
    <3>6. Ranked(Asking(q, g, c, key, k, g, FALSE))
      BY <1>1, <3>2, <3>3, <3>4, AskRanked
    <3>7. ASSUME Exhausted(q, k)
          PROVE  Ranked(Asking(q, g, c, key, 0, NextGroup(g), TRUE))
      <4>1. NextGroup(g) = g + 1 /\ k = RetryTimes
        BY <3>5, <3>7 DEF NextGroup
      <4> QED
        BY <1>1, <3>2, <3>3, <3>4, <4>1, AskRanked
    <3>8. ASSUME NEW p, p.at = g
          PROVE  Asked(q, p) \/ p.pc = "gaveup"
      <4>1. CASE q.at = g
        BY <3>8, <4>1 DEF Asked, Leaves
      <4>2. CASE q.at # g
        <5>1. q.at \notin First(q.index)
          <6>1. \A h \in First(q.index) : h = g
            BY <3>2 DEF First, Usable
          <6> QED
            BY <4>2, <6>1
        <5> QED
          BY <1>1, <5>1, PickLeaves DEF Asked
      <4> QED
        BY <4>1, <4>2
    <3>9. ASSUME NEW l, NEW m, NEW b
          PROVE  Asked(q, Asking(q, g, c, key, l, m, b))
      <4> DEFINE p == Asking(q, g, c, key, l, m, b)
      <4>1. p.at = g /\ p.pc = "ask"
        BY DEF Asking
      <4> HIDE DEF p
      <4>2. Asked(q, p)
        BY <3>8, <4>1
      <4> QED
        BY <4>2 DEF p
    <3>10. CASE Exhausted(q, k)
      <4>1. req' = [req EXCEPT ![r] = Asking(q, g, c, key, 0, NextGroup(g), TRUE)]
        BY <3>1, <3>10
      <4> QED
        BY <1>1, <3>7, <3>9, <3>10, <4>1, OneRanked DEF q
    <3>11. CASE ~Exhausted(q, k)
      <4>1. req' = [req EXCEPT ![r] = Asking(q, g, c, key, k, g, FALSE)]
        BY <3>1, <3>11
      <4> QED
        BY <1>1, <3>6, <3>9, <4>1, OneRanked DEF q
    <3> QED
      BY <3>10, <3>11
  <2> QED
    BY <2>3, <2>4
<1> QED
  BY <1>2, <1>3

LEMMA FailedRanked ==
    ASSUME WalkInv, RankInv, NEW r \in Requests, Failed(r)
    PROVE  RankInv' /\ \A s \in Requests : Asked(req[s], req'[s])
<1> DEFINE q == req[r]
<1>1. Counted(q) /\ Ranked(q) /\ q.pc = "ask" /\ UNCHANGED <<listed, snap>>
  BY DEF WalkInv, RankInv, Failed, cacheVars
<1>2. PICK kind \in {"channel", "status", "fatal"} :
        req' = [req EXCEPT ![r] =
          IF kind = "fatal" THEN End("over")
          ELSE IF ShouldRetry(q, kind) /\ IncreaseRetry(q) <= RetryTimes
          THEN Again(q, IncreaseRetry(q))
          ELSE End("gaveup")]
  BY Zenon DEF Failed
<1>o. /\ Ranked(End("over")) /\ End("over").pc = "over"
      /\ Ranked(End("gaveup")) /\ End("gaveup").pc = "gaveup"
  BY EndRanked DEF Ended, End
<1>3. CASE kind = "fatal"
  <2>1. req' = [req EXCEPT ![r] = End("over")]
    BY <1>2, <1>3
  <2>2. Asked(q, End("over"))
    BY <1>o, NoLeave
  <2> QED
    BY <1>1, <1>o, <2>1, <2>2, OneRanked
<1>4. CASE kind # "fatal" /\ ShouldRetry(q, kind) /\ IncreaseRetry(q) <= RetryTimes
  <2> DEFINE p == Again(q, IncreaseRetry(q))
  <2>1. req' = [req EXCEPT ![r] = p]
    BY <1>2, <1>4
  <2>2. p.pc = "pick"
    BY DEF Again
  <2>3. Ranked(p)
    BY <1>1, <1>4, AgainRanked
  <2> HIDE DEF p
  <2>4. Asked(q, p)
    BY <1>1, <2>2, NoLeave
  <2> QED
    BY <1>1, <2>1, <2>3, <2>4, OneRanked
<1>5. CASE kind # "fatal" /\ ~(ShouldRetry(q, kind) /\ IncreaseRetry(q) <= RetryTimes)
  <2>1. req' = [req EXCEPT ![r] = End("gaveup")]
    BY <1>2, <1>5
  <2>2. q.retry \in 0 .. RetryTimes /\ RetryTimes \in Nat
    BY <1>1, TurnType DEF Counted, Numbers
  <2>3. /\ q.index = q.at => ~q.again
        /\ q.index # q.at => q.retry = 0 /\ (q.again \/ RetryTimes = 0)
    BY <1>1 DEF Ranked
  <2>4. q.retry = RetryTimes \/ q.index # q.at
    BY <1>5, <2>2, <2>3 DEF ShouldRetry, IncreaseRetry
  <2>5. LastRank(q) = RetryTimes
    BY <1>1, <2>4 DEF LastRank
  <2>6. Asked(q, End("gaveup"))
    BY <1>1, <2>5, AllAsked DEF Asked, Undisturbed
  <2> QED
    BY <1>1, <1>o, <2>1, <2>6, OneRanked
<1> QED
  BY <1>3, <1>4, <1>5

LEMMA RankInit == Init => RankInv
<1> SUFFICES ASSUME Init PROVE RankInv
  OBVIOUS
<1>1. \A r \in Requests : \E cross \in BOOLEAN : req[r] = New(cross)
  BY DEF Init
<1>2. \A cross \in BOOLEAN : New(cross).pc = "new"
  BY DEF New
<1>3. \A r \in Requests : Ranked(req[r])
  BY <1>1, <1>2 DEF Ranked
<1> QED
  BY <1>3 DEF Init, RankInv, Enabled

(* A restart ends requests in the middle of their group.                    *)
LEMMA RestartRanked ==
    ASSUME WalkInv, RankInv, Restart
    PROVE  RankInv' /\ \A s \in Requests : Asked(req[s], req'[s])
<1>1. \A s \in Requests : req'[s] = req[s] \/ req'[s] = End("over")
  BY DEF Restart
<1>2. Ranked(End("over")) /\ End("over").pc = "over"
  BY EndRanked DEF Ended, End
<1>3. \A s \in Requests : Ranked(req'[s])
  BY <1>1, <1>2 DEF RankInv
<1>4. \A s \in Requests : Asked(req[s], req[s])
  BY Zenon DEF Asked, Leaves
<1>5. \A s \in Requests : Asked(req[s], End("over"))
  BY <1>2, NoLeave
<1>6. \A s \in Requests : Asked(req[s], req'[s])
  BY <1>1, <1>4, <1>5
<1>7. listed' \subseteq Channels /\ snap' = [s \in Syncers |-> snap'[s]]
  BY DEF Restart, Enabled
<1> QED
  BY <1>3, <1>6, <1>7 DEF RankInv

LEMMA RankNext ==
    ASSUME WalkInv, RankInv, [Next]_vars
    PROVE  RankInv' /\ \A s \in Requests : Asked(req[s], req'[s])
<1> USE SameRanked
<1>0. listed \subseteq Channels /\ snap = [s \in Syncers |-> snap[s]]
  BY DEF RankInv
<1>1. ASSUME NEW r \in Requests, Served(r)
      PROVE  RankInv' /\ \A s \in Requests : Asked(req[s], req'[s])
  <2>1. Ranked(End("over")) /\ End("over").pc = "over"
    BY EndRanked DEF Ended, End
  <2>2. Asked(req[r], End("over"))
    BY <2>1, NoLeave
  <2> QED
    BY <1>1, <2>1, <2>2, OneRanked DEF Served, cacheVars
<1>2. ASSUME NEW w \in Workers, WorkerStep(w)
      PROVE  RankInv' /\ \A s \in Requests : Asked(req[s], req'[s])
  <2>1. req' = req /\ snap' = snap
    BY <1>2 DEF WorkerStep, LockStatus, CacheUpdate, ReadRow, ChangeCopy, SaveRow, cacheVars
  <2>2. listed' \subseteq listed
    BY <1>2 DEF WorkerStep, LockStatus, CacheUpdate, ReadRow, ChangeCopy, SaveRow, cacheVars, Delisted
  <2> QED
    BY <1>0, <2>1, <2>2
<1>3. ASSUME NEW s \in Syncers, SyncRead(s) \/ SyncSwap(s)
      PROVE  RankInv' /\ \A t \in Requests : Asked(req[t], req'[t])
  <2>1. req' = req /\ \E n : snap' = [snap EXCEPT ![s] = n]
    BY <1>3 DEF SyncRead, SyncSwap
  <2>2. listed' \subseteq Channels
    BY <1>0, <1>3 DEF SyncRead, SyncSwap, ListedOf, Enabled
  <2>3. snap' = [t \in Syncers |-> snap'[t]]
    BY <1>0, <2>1
  <2> QED
    BY <2>1, <2>2, <2>3
<1>4. ASSUME NEW c \in Channels, Edit(c)
      PROVE  RankInv' /\ \A s \in Requests : Asked(req[s], req'[s])
  BY <1>0, <1>4 DEF Edit, EditStatus, EditKeys, cacheVars
<1>5. ASSUME LockKeys \/ AdminSave \/ TestAll \/ Test
      PROVE  RankInv' /\ \A s \in Requests : Asked(req[s], req'[s])
  <2>1. UNCHANGED <<req, listed, snap>>
    BY <1>5 DEF LockKeys, AdminSave, TestAll, Test, TestOne, TestEnd, cacheVars
  <2> QED
    BY <1>0, <2>1
<1>6. ASSUME UNCHANGED vars
      PROVE  RankInv' /\ \A s \in Requests : Asked(req[s], req'[s])
  BY <1>0, <1>6 DEF vars
<1>7. ASSUME NEW s \in Syncers, SyncPanic(s)
      PROVE  RankInv' /\ \A t \in Requests : Asked(req[t], req'[t])
  <2>1. CASE UNCHANGED <<req, listed, snap>>
    BY <1>0, <2>1
  <2> QED
    BY <1>7, <2>1, RestartRanked DEF SyncPanic, cacheVars
<1> QED
  BY <1>1, <1>2, <1>3, <1>4, <1>5, <1>6, <1>7, DistributeRanked, PickRanked, FailedRanked
  DEF Next, RequestStep, SyncStep

(* "Each group will exhaust all its priorities before moving to the next    *)
(* group", as far as the code keeps it: whatever the channels and           *)
(* priorities, a request that leaves a group, or gives up, has asked every  *)
(* priority of it, provided there were no more than its tries and no        *)
(* channel came or went meanwhile.                                          *)
THEOREM EveryPriorityAsked == Spec => PrioritiesExhausted
<1>1. Init => WalkInv /\ RankInv
  BY WalkInit, RankInit
<1>2. WalkInv /\ RankInv /\ [Next]_vars => (WalkInv /\ RankInv)'
  BY WalkNext, RankNext
<1>3. WalkInv /\ RankInv /\ [Next]_vars =>
        [\A r \in Requests :
           /\ req[r].pc # "gaveup" /\ Leaves(req[r], req'[r])
           /\ Undisturbed(req[r]) /\ EnoughTries(req[r])
           => req[r].prios = Prios(req[r].seen)]_vars
  BY RankNext DEF Asked
<1> QED
  BY <1>1, <1>2, <1>3, PTL DEF Spec, PrioritiesExhausted

--------------------------------------------------------------------------------
(* Types.                                                                   *)

JobType(j) ==
    /\ j.pc \in {"idle", "wait", "mark", "read", "change", "save"}
    /\ j.pc # "idle" => /\ j.chan \in Channels /\ j.status \in Status
                        /\ j.copy \subseteq Entry
RequestType(q) ==
    /\ q.pc \in {"new", "ask", "pick"} \cup Ended
    /\ q.chan \subseteq Channels /\ q.key \in Keys \cup {NoKey}

TableTypes == /\ row \in Entries /\ cached \in CachedEntries /\ listed \subseteq Channels
              /\ snap \in [Syncers -> SUBSET CachedEntries]
JobTypes == job = [w \in Workers |-> job[w]] /\ \A w \in Workers : JobType(job[w])
AdminTypes == admin.pc # "idle" => admin.chan \in Channels /\ admin.new \in Entry
TesterTypes == tester.pc = "test" => tester.seen \in Entries /\ tester.todo \subseteq Channels
RequestTypes == req = [r \in Requests |-> req[r]] /\ \A r \in Requests : RequestType(req[r])

TypeInv == TableTypes /\ JobTypes /\ AdminTypes /\ TesterTypes /\ RequestTypes

LEMMA KeyEntryTypes ==
    ASSUME NEW e \in Entry, NEW key, NEW status
    PROVE  handlerMultiKeyUpdate(e, key, status) \in Entry
BY ChannelAssumption DEF handlerMultiKeyUpdate, Entry, Status

LEMMA EntryTypes ==
    ASSUME NEW e \in Entry, NEW c, NEW key, NEW status \in Status
    PROVE  Updated(c, e, key, status) \in Entry
<1>1. With(e, status) \in Entry
  BY DEF With, Entry
<1> QED BY <1>1, KeyEntryTypes DEF Updated

LEMMA OneJob ==
    ASSUME JobTypes, NEW w \in Workers, NEW j, JobType(j), job' = [job EXCEPT ![w] = j]
    PROVE  JobTypes'
<1>1. \A v \in Workers : job'[v] = IF v = w THEN j ELSE job[v]
  BY DEF JobTypes
<1>2. \A v \in Workers : JobType(job'[v])
  BY <1>1 DEF JobTypes
<1>3. job' = [v \in Workers |-> job'[v]]
  BY DEF JobTypes
<1> QED BY <1>2, <1>3 DEF JobTypes

LEMMA SpawnTypes ==
    ASSUME JobTypes, NEW c \in Channels, NEW key, NEW status \in Status, Spawn(c, key, status)
    PROVE  JobTypes'
<1>1. PICK w \in Workers : job' = [job EXCEPT ![w] = Job("wait", c, key, status)]
  BY DEF Spawn
<1>2. JobType(Job("wait", c, key, status))
  BY DEF JobType, Job
<1> QED BY <1>1, <1>2, OneJob

LEMMA StepTypes ==
    ASSUME JobTypes, NEW w \in Workers, job[w].pc # "idle",
           NEW pc \in {"mark", "read", "change", "save"}, NEW copy \in SUBSET Entry, NEW orphan,
           job' = Step(w, pc, copy, orphan) \/ job' = Done(w)
    PROVE  JobTypes'
<1> DEFINE j == [pc |-> pc, chan |-> job[w].chan, key |-> job[w].key,
                 status |-> job[w].status, copy |-> copy, orphan |-> orphan]
<1>1. JobType(j) /\ JobType([pc |-> "idle"])
  BY DEF JobTypes, JobType
<1>2. job' = [job EXCEPT ![w] = j] \/ job' = [job EXCEPT ![w] = [pc |-> "idle"]]
  BY DEF Step, Done
<1> QED BY <1>1, <1>2, OneJob

LEMMA OneRequest ==
    ASSUME RequestTypes, NEW r \in Requests, NEW q, RequestType(q),
           req' = [req EXCEPT ![r] = q]
    PROVE  RequestTypes'
<1>1. \A s \in Requests : req'[s] = IF s = r THEN q ELSE req[s]
  BY DEF RequestTypes
<1>2. \A s \in Requests : RequestType(req'[s])
  BY <1>1 DEF RequestTypes
<1>3. req' = [s \in Requests |-> req'[s]]
  BY DEF RequestTypes
<1> QED BY <1>2, <1>3 DEF RequestTypes

(* What a request chooses is a channel, and a key of it or none.            *)
LEMMA ChoiceTypes ==
    ASSUME listed \subseteq Channels
    PROVE  /\ \A g, retry : GetRandomSatisfiedChannel(g, retry) \subseteq Channels
           /\ \A c, e : KeysUp(c, e) \subseteq Keys \cup {NoKey}
           /\ \A pc \in Ended : RequestType(End(pc))
           /\ \A q, g, retry, index, again : \A c \in Channels, key \in Keys \cup {NoKey} :
                 RequestType(Asking(q, g, c, key, retry, index, again))
           /\ \A q, retry : RequestType(Again(q, retry))
<1>1. \A g, retry : GetRandomSatisfiedChannel(g, retry) \subseteq Channels
  BY DEF GetRandomSatisfiedChannel, Of
<1>2. \A c, e : KeysUp(c, e) \subseteq Keys \cup {NoKey}
  BY DEF KeysUp
<1>3. \A pc \in Ended : RequestType(End(pc))
  BY DEF RequestType, End
<1>4. ASSUME NEW q, NEW g, NEW retry, NEW index, NEW again,
             NEW c \in Channels, NEW key \in Keys \cup {NoKey}
      PROVE  RequestType(Asking(q, g, c, key, retry, index, again))
  BY DEF RequestType, Asking
<1>5. \A q, retry : RequestType(Again(q, retry))
  BY DEF RequestType, Again
<1> QED BY <1>1, <1>2, <1>3, <1>4, <1>5

LEMMA AllRead == Entries \subseteq CachedEntries
BY DEF Entries, CachedEntries

LEMMA TypesInit == Init => TypeInv
<1> SUFFICES ASSUME Init PROVE TypeInv
  OBVIOUS
<1>1. TableTypes
  <2>1. row \in Entries
    BY DEF Init, Entries, Entry
  <2>2. snap \in [Syncers -> SUBSET CachedEntries]
    BY DEF Init
  <2> QED BY <2>1, <2>2, AllRead DEF Init, TableTypes, Enabled
<1>2. JobTypes
  <2>1. job = [w \in Workers |-> [pc |-> "idle"]]
    BY DEF Init
  <2>2. job = [w \in Workers |-> job[w]] /\ \A w \in Workers : job[w].pc = "idle"
    BY <2>1
  <2> QED BY <2>2 DEF JobTypes, JobType
<1>3. AdminTypes /\ TesterTypes
  BY DEF Init, AdminTypes, TesterTypes
<1>4. RequestTypes
  <2>1. req \in [Requests -> {New(cross) : cross \in BOOLEAN}]
    BY DEF Init
  <2>2. \A cross \in BOOLEAN : RequestType(New(cross))
    BY DEF RequestType, New
  <2> QED BY <2>1, <2>2 DEF RequestTypes
<1> QED BY <1>1, <1>2, <1>3, <1>4 DEF TypeInv

LEMMA RequestStepTypes ==
    ASSUME TypeInv, NEW r \in Requests, RequestStep(r)
    PROVE  TypeInv'
<1> USE DEF TypeInv
<1>1. listed \subseteq Channels /\ RequestType(req[r])
  BY DEF TableTypes, RequestTypes
<1>2. UNCHANGED <<row, cached, listed, snap, admin, tester>>
  BY DEF RequestStep, Distribute, Pick, Served, Failed, cacheVars
<1>3. TableTypes' /\ AdminTypes' /\ TesterTypes'
  BY <1>2 DEF TableTypes, AdminTypes, TesterTypes
<1>4. JobTypes'
  <2>1. CASE Distribute(r) \/ Pick(r) \/ Served(r)
    BY <2>1 DEF Distribute, Pick, Served, JobTypes
  <2>2. CASE Failed(r)
    <3>1. job' = job \/ \E c \in req[r].chan : Spawn(c, req[r].key, "auto")
      BY <2>2 DEF Failed
    <3>2. CASE job' = job
      BY <3>2 DEF JobTypes
    <3>3. CASE \E c \in req[r].chan : Spawn(c, req[r].key, "auto")
      BY <3>3, <1>1, SpawnTypes DEF RequestType, Status
    <3> QED BY <3>1, <3>2, <3>3
  <2> QED BY <2>1, <2>2 DEF RequestStep
<1>5. RequestTypes'
  <2>1. \E q : RequestType(q) /\ req' = [req EXCEPT ![r] = q]
    <3>1. CASE Distribute(r)
      <4>1. CASE Usable(1) = {}
        BY <3>1, <4>1, <1>1, ChoiceTypes DEF Distribute, Ended
      <4>2. CASE Usable(1) # {}
        <5>1. PICK g \in First(1) : \E c \in GetRandomSatisfiedChannel(g, 0) :
                \E key \in IF KeysUp(c, cached[c]) = {} THEN {NoKey}
                           ELSE KeysUp(c, cached[c]) :
                  req' = [req EXCEPT ![r] =
                      Asking(req[r], g, c, key, 0,
                             IF Exhausted(req[r], 0) THEN NextGroup(g) ELSE g, FALSE)]
          BY <3>1, <4>2, Zenon DEF Distribute
        <5>2. PICK c \in GetRandomSatisfiedChannel(g, 0) :
                \E key \in IF KeysUp(c, cached[c]) = {} THEN {NoKey}
                           ELSE KeysUp(c, cached[c]) :
                  req' = [req EXCEPT ![r] =
                      Asking(req[r], g, c, key, 0,
                             IF Exhausted(req[r], 0) THEN NextGroup(g) ELSE g, FALSE)]
          BY <5>1
        <5>3. PICK key \in IF KeysUp(c, cached[c]) = {} THEN {NoKey}
                           ELSE KeysUp(c, cached[c]) :
                  req' = [req EXCEPT ![r] =
                      Asking(req[r], g, c, key, 0,
                             IF Exhausted(req[r], 0) THEN NextGroup(g) ELSE g, FALSE)]
          BY <5>2
        <5>4. c \in Channels /\ key \in Keys \cup {NoKey}
          BY <1>1, <5>3, ChoiceTypes
        <5> QED BY <1>1, <5>3, <5>4, ChoiceTypes
      <4> QED BY <4>1, <4>2
    <3>2. CASE Pick(r)
      <4>1. CASE Usable(req[r].index) = {}
        BY <3>2, <4>1, <1>1, ChoiceTypes DEF Pick, Ended
      <4>2. CASE Usable(req[r].index) # {}
        <5>1. PICK g, retry : PickFrom(r, g, retry)
          BY <3>2, <4>2 DEF Pick
        <5>2. PICK c \in GetRandomSatisfiedChannel(g, retry) :
                IF KeysUp(c, cached[c]) = {}
                THEN req' = [req EXCEPT ![r] = End("over")]
                ELSE \E key \in KeysUp(c, cached[c]) :
                       req' = [req EXCEPT ![r] =
                           IF Exhausted(req[r], retry)
                           THEN Asking(req[r], g, c, key, 0, NextGroup(g), TRUE)
                           ELSE Asking(req[r], g, c, key, retry, g, FALSE)]
          BY <5>1, Zenon DEF PickFrom
        <5>3. c \in Channels
          BY <1>1, <5>2, ChoiceTypes
        <5>4. CASE KeysUp(c, cached[c]) = {}
          BY <5>2, <5>4, <1>1, ChoiceTypes DEF Ended
        <5>5. CASE KeysUp(c, cached[c]) # {}
          <6>1. PICK key \in KeysUp(c, cached[c]) :
                  \/ req' = [req EXCEPT ![r] =
                               Asking(req[r], g, c, key, 0, NextGroup(g), TRUE)]
                  \/ req' = [req EXCEPT ![r] =
                               Asking(req[r], g, c, key, retry, g, FALSE)]
            BY <5>2, <5>5
          <6>2. key \in Keys \cup {NoKey}
            BY <1>1, ChoiceTypes
          <6> QED BY <1>1, <5>3, <6>1, <6>2, ChoiceTypes
        <5> QED BY <5>4, <5>5
      <4> QED BY <4>1, <4>2
    <3>3. CASE Served(r)
      BY <3>3, <1>1, ChoiceTypes DEF Served, Ended
    <3>4. CASE Failed(r)
      <4>1. \/ req' = [req EXCEPT ![r] = End("over")]
            \/ req' = [req EXCEPT ![r] = End("gaveup")]
            \/ req' = [req EXCEPT ![r] = Again(req[r], IncreaseRetry(req[r]))]
        BY <3>4, Zenon DEF Failed
      <4> QED BY <4>1, <1>1, ChoiceTypes DEF Ended
    <3> QED BY <3>1, <3>2, <3>3, <3>4 DEF RequestStep
  <2> QED BY <2>1, OneRequest
<1> QED BY <1>3, <1>4, <1>5

LEMMA WorkerStepTypes ==
    ASSUME TypeInv, NEW w \in Workers, WorkerStep(w)
    PROVE  TypeInv'
<1> USE DEF TypeInv
<1> DEFINE j == job[w]
<1>1. JobType(j)
  BY DEF JobTypes
<1>2. j.pc # "idle"
  BY DEF WorkerStep, LockStatus, CacheUpdate, ReadRow, ChangeCopy, SaveRow
<1>3. j.chan \in Channels /\ j.status \in Status /\ j.copy \subseteq Entry
  BY <1>1, <1>2 DEF JobType
<1>4. UNCHANGED <<snap, req, admin, tester>>
  BY DEF WorkerStep, LockStatus, CacheUpdate, ReadRow, ChangeCopy, SaveRow, cacheVars
<1>5. AdminTypes' /\ TesterTypes' /\ RequestTypes'
  BY <1>4 DEF AdminTypes, TesterTypes, RequestTypes
<1>6. row[j.chan] \in Entry /\ cached[j.chan] \in Entry \cup {Missing}
  BY <1>3 DEF TableTypes, Entries, CachedEntries
<1>7. CASE LockStatus(w)
  <2>1. UNCHANGED <<row, cached, listed>>
    BY <1>7 DEF LockStatus, cacheVars
  <2>2. JobTypes'
    BY <1>2, <1>7, StepTypes DEF LockStatus
  <2> QED BY <1>4, <1>5, <2>1, <2>2 DEF TableTypes
<1>8. CASE CacheUpdate(w)
  <2>1. JobTypes'
    BY <1>2, <1>8, StepTypes DEF CacheUpdate
  <2>2. cached' \in CachedEntries
    BY <1>3, <1>6, <1>8, EntryTypes DEF CacheUpdate, TableTypes, CachedEntries
  <2>3. listed' \subseteq Channels /\ row' = row
    BY <1>8 DEF CacheUpdate, Delisted, TableTypes
  <2> QED BY <1>4, <1>5, <2>1, <2>2, <2>3 DEF TableTypes
<1>9. CASE ReadRow(w)
  <2>1. UNCHANGED <<row, cached, listed>>
    BY <1>9 DEF ReadRow, cacheVars
  <2>2. With(row[j.chan], j.status) \in Entry
    BY <1>3, <1>6 DEF With, Entry
  <2>3. JobTypes'
    BY <1>2, <1>6, <1>9, <2>2, StepTypes DEF ReadRow
  <2> QED BY <1>4, <1>5, <2>1, <2>3 DEF TableTypes
<1>10. CASE SaveRow(w)
  <2>1. JobTypes'
    BY <1>2, <1>10, StepTypes DEF SaveRow
  <2>2. row' \in Entries
    BY <1>3, <1>10 DEF SaveRow, TableTypes, Entries
  <2>3. UNCHANGED <<cached, listed>>
    BY <1>10 DEF SaveRow, cacheVars
  <2> QED BY <1>4, <1>5, <2>1, <2>2, <2>3 DEF TableTypes
<1>11. CASE ChangeCopy(w)
  <2>1. UNCHANGED <<row, cached, listed>>
    BY <1>11 DEF ChangeCopy, cacheVars
  <2>2. {handlerMultiKeyUpdate(old, j.key, j.status) : old \in j.copy} \subseteq Entry
    BY <1>3, KeyEntryTypes
  <2>3. JobTypes'
    BY <1>2, <1>11, <2>2, StepTypes DEF ChangeCopy
  <2> QED BY <1>4, <1>5, <2>1, <2>3 DEF TableTypes
<1> QED BY <1>7, <1>8, <1>9, <1>10, <1>11 DEF WorkerStep

LEMMA SyncTypes ==
    ASSUME TypeInv, NEW s \in Syncers, SyncRead(s) \/ SyncSwap(s)
    PROVE  TypeInv'
<1> USE DEF TypeInv
<1>1. UNCHANGED <<row, req, tester>>
  BY DEF SyncRead, SyncSwap
<1>2. TesterTypes' /\ RequestTypes'
  BY <1>1 DEF TesterTypes, RequestTypes
<1>3. AdminTypes'
  <2>1. admin' = admin \/ admin' = [pc |-> "idle"]
    BY DEF SyncRead, SyncSwap
  <2>2. CASE admin' = admin
    BY <2>2 DEF AdminTypes
  <2>3. CASE admin' = [pc |-> "idle"]
    BY <2>3 DEF AdminTypes
  <2> QED BY <2>1, <2>2, <2>3
<1>4. CASE SyncRead(s)
  <2>1. PICK n : n \in CachedEntries /\ snap' = [snap EXCEPT ![s] = {n}]
    BY <1>4, AllRead DEF SyncRead, TableTypes, Entries, CachedEntries
  <2>3. snap' \in [Syncers -> SUBSET CachedEntries] /\ UNCHANGED <<cached, listed>>
    BY <1>4, <2>1 DEF SyncRead, TableTypes
  <2>2. JobTypes'
    BY <1>4 DEF SyncRead, JobTypes
  <2> QED BY <1>1, <1>2, <1>3, <2>3, <2>2 DEF TableTypes
<1>5. CASE SyncSwap(s)
  <2>1. /\ snap' \in [Syncers -> SUBSET CachedEntries] /\ cached' \in CachedEntries
        /\ listed' \subseteq Channels
    BY <1>5 DEF SyncSwap, TableTypes, ListedOf, Enabled
  <2>2. JobTypes'
    <3> DEFINE n(w) == IF job[w].pc = "mark" THEN Step(w, "mark", {}, TRUE)[w] ELSE job[w]
    <3>1. job' = [w \in Workers |-> n(w)]
      BY <1>5, Zenon DEF SyncSwap
    <3>2. ASSUME NEW w \in Workers PROVE JobType(n(w))
      <4>1. Step(w, "mark", {}, TRUE)[w] =
              [pc |-> "mark", chan |-> job[w].chan, key |-> job[w].key,
               status |-> job[w].status, copy |-> {}, orphan |-> TRUE]
        BY DEF Step, JobTypes
      <4>2. JobType(job[w])
        BY DEF JobTypes
      <4>3. CASE job[w].pc = "mark"
        <5>1. n(w) = Step(w, "mark", {}, TRUE)[w]
          BY <4>3
        <5>2. job[w].chan \in Channels /\ job[w].status \in Status
          BY <4>2, <4>3 DEF JobType
        <5> DEFINE j == [pc |-> "mark", chan |-> job[w].chan, key |-> job[w].key,
                         status |-> job[w].status, copy |-> {}, orphan |-> TRUE]
        <5>3. JobType(j)
          BY <5>2 DEF JobType
        <5>4. n(w) = j
          BY <4>1, <5>1
        <5> HIDE DEF n, j
        <5> QED BY <5>3, <5>4
      <4>4. CASE job[w].pc # "mark"
        BY <4>2, <4>4
      <4> QED BY <4>3, <4>4
    <3> HIDE DEF n
    <3> QED BY <3>1, <3>2 DEF JobTypes
  <2> QED BY <1>1, <1>2, <1>3, <2>1, <2>2 DEF TableTypes
<1> QED BY <1>4, <1>5

LEMMA RestartTypes ==
    ASSUME TypeInv, Restart, row' = row
    PROVE  TypeInv'
<1>1. /\ row' \in Entries /\ cached' \in CachedEntries /\ listed' \subseteq Channels
      /\ snap' \in [Syncers -> SUBSET CachedEntries]
  BY AllRead DEF Restart, Enabled, TypeInv, TableTypes
<1>2. JobTypes'
  <2>1. job' = [w \in Workers |-> [pc |-> "idle"]]
    BY DEF Restart
  <2>2. job' = [w \in Workers |-> job'[w]] /\ \A w \in Workers : job'[w].pc = "idle"
    BY <2>1
  <2> QED BY <2>2 DEF JobTypes, JobType
<1>3. AdminTypes' /\ TesterTypes'
  BY DEF Restart, AdminTypes, TesterTypes
<1>4. RequestTypes'
  <2>1. req' = [r \in Requests |-> IF req[r].pc = "new" THEN req[r] ELSE End("over")]
    BY DEF Restart
  <2>2. \A r \in Requests : RequestType(req'[r])
    <3>1. RequestType(End("over")) /\ \A r \in Requests : RequestType(req[r])
      <4>1. RequestType(End("over"))
        BY DEF RequestType, End, Ended
      <4> QED BY <4>1 DEF TypeInv, RequestTypes
    <3>2. \A r \in Requests : req'[r] = req[r] \/ req'[r] = End("over")
      BY <2>1
    <3> QED BY <3>1, <3>2
  <2>3. req' = [r \in Requests |-> req'[r]]
    BY <2>1
  <2> QED BY <2>2, <2>3 DEF RequestTypes
<1> QED BY <1>1, <1>2, <1>3, <1>4 DEF TypeInv, TableTypes

LEMMA PanicTypes ==
    ASSUME TypeInv, NEW s \in Syncers, SyncPanic(s)
    PROVE  TypeInv'
<1>1. CASE Restart
  BY <1>1, RestartTypes DEF SyncPanic
<1>2. CASE admin' = [pc |-> "idle"] /\ UNCHANGED <<row, cacheVars, req, job, tester>>
  BY <1>2 DEF TypeInv, TableTypes, JobTypes, AdminTypes, TesterTypes, RequestTypes, cacheVars
<1> QED BY <1>1, <1>2 DEF SyncPanic

LEMMA OtherTypes ==
    ASSUME TypeInv, (\E c \in Channels : Edit(c)) \/ LockKeys \/ AdminSave \/ TestAll \/ Test
    PROVE  TypeInv'
<1> USE DEF TypeInv
<1>1. UNCHANGED <<cached, listed, snap, req>>
  BY DEF Edit, EditStatus, EditKeys, LockKeys, AdminSave, TestAll, Test, TestOne, TestEnd,
         cacheVars
<1>2. RequestTypes'
  BY <1>1 DEF RequestTypes
<1>3. ASSUME NEW c \in Channels, Edit(c)
      PROVE  TypeInv'
  <2>1. UNCHANGED <<row, job, tester>>
    BY <1>3 DEF Edit, EditStatus, EditKeys
  <2>2. row[c] \in Entry
    BY DEF TableTypes, Entries
  <2>3. AdminTypes'
    BY <1>3, <2>2 DEF Edit, EditStatus, EditKeys, Begun, With, AdminTypes, Entry, Status
  <2> QED BY <1>1, <1>2, <2>1, <2>3 DEF TableTypes, JobTypes, TesterTypes
<1>4. CASE AdminSave
  <2>1. admin.chan \in Channels /\ admin.new \in Entry
    BY <1>4 DEF AdminSave, AdminTypes
  <2>2. row' \in Entries
    BY <1>4, <2>1 DEF AdminSave, TableTypes, Entries
  <2>3. AdminTypes'
    BY <1>4, <2>1 DEF AdminSave, AdminTypes, Begun
  <2>4. UNCHANGED <<job, tester>>
    BY <1>4 DEF AdminSave
  <2> QED BY <1>1, <1>2, <2>2, <2>3, <2>4 DEF TableTypes, JobTypes, TesterTypes
<1>5. CASE TestAll
  <2>1. TesterTypes'
    BY <1>5 DEF TestAll, TesterTypes, TableTypes
  <2>2. UNCHANGED <<row, job, admin>>
    BY <1>5 DEF TestAll
  <2> QED BY <1>1, <1>2, <2>1, <2>2 DEF TableTypes, JobTypes, AdminTypes
<1>6. CASE Test
  <2>1. UNCHANGED <<row, admin>>
    BY <1>6 DEF Test, TestOne, TestEnd
  <2>2. TesterTypes' /\ JobTypes'
    <3>1. CASE TestEnd
      BY <3>1 DEF TestEnd, TesterTypes, JobTypes
    <3>2. ASSUME NEW c \in tester.todo, TestOne(c), tester.pc = "test"
          PROVE  TesterTypes' /\ JobTypes'
      <4>1. c \in Channels /\ tester.seen \in Entries /\ tester.todo \subseteq Channels
        BY <3>2 DEF TesterTypes
      <4>2. TesterTypes'
        BY <3>2, <4>1 DEF TestOne, TesterTypes
      <4>3. \/ job' = job
            \/ \E key : Spawn(c, key, "auto") \/ Spawn(c, key, "enabled")
        BY <3>2 DEF TestOne
      <4>4. JobTypes'
        BY <4>1, <4>3, SpawnTypes DEF JobTypes, Status
      <4> QED BY <4>2, <4>4
    <3> QED BY <1>6, <3>1, <3>2 DEF Test
  <2> QED BY <1>1, <1>2, <2>1, <2>2 DEF TableTypes, AdminTypes
<1>7. CASE LockKeys
  <2>1. AdminTypes'
    BY <1>7 DEF LockKeys, AdminTypes, Begun
  <2>2. UNCHANGED <<row, job, tester>>
    BY <1>7 DEF LockKeys
  <2> QED BY <1>1, <1>2, <2>1, <2>2 DEF TableTypes, JobTypes, TesterTypes
<1> QED BY <1>3, <1>4, <1>5, <1>6, <1>7

LEMMA TypesNext == TypeInv /\ [Next]_vars => TypeInv'
<1>1. ASSUME TypeInv, UNCHANGED vars PROVE TypeInv'
  BY <1>1 DEF vars, TypeInv, TableTypes, JobTypes, AdminTypes, TesterTypes, RequestTypes,
              JobType, RequestType
<1> QED
  BY <1>1, RequestStepTypes, WorkerStepTypes, SyncTypes, PanicTypes, OtherTypes
  DEF Next, SyncStep

(* The types: for any number of channels, workers and requests a worker     *)
(* saves an entry of a channel, a list names channels, and no counter of    *)
(* the retry loop leaves its range.                                         *)
THEOREM TypeCorrect == Spec => []TypeOK
<1>1. Init => WalkInv /\ TypeInv
  BY WalkInit, TypesInit
<1>2. WalkInv /\ TypeInv /\ [Next]_vars => (WalkInv /\ TypeInv)'
  BY WalkNext, TypesNext
<1>3. WalkInv /\ TypeInv => TypeOK
  BY DEF WalkInv, Counted, Numbers, TypeInv, TableTypes, RequestTypes, RequestType, TypeOK
<1> QED
  BY <1>1, <1>2, <1>3, PTL DEF Spec
================================================================================
