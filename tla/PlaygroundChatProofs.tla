-------------------------- MODULE PlaygroundChatProofs --------------------------
(***************************************************************************)
(* Theorems about PlaygroundChat, for every number of requests, chunks and *)
(* mounts: a stream can be stopped unless another is opened, text stays in *)
(* the message it answers, answers are shown whole, no message is left     *)
(* unfinished, and what is finished stays.                                 *)
(*                                                                         *)
(* The page keeps one reference to a stream, which every stream that ends  *)
(* clears, and every answer writes into the last message.  Both are right  *)
(* for a request that is open and was not disturbed, because it is the     *)
(* only one open (Alone, StopInv).  ListInv says what this does to the     *)
(* list: the message of such a request is the last one (AtEnd), holds what *)
(* has come of its answer (Coming), and the list as rendered differs from  *)
(* the list as it is in that last message only (Lag), so that a handler    *)
(* that rewrites the list loses nothing of a message that was finished.    *)
(*                                                                         *)
(* The steps fall into a few classes, each with a lemma: an answer         *)
(* (AnswerRight), a list made from the one shown (MadeFrom), a list kept   *)
(* message by message (Keeps), and steps that leave the list alone.        *)
(***************************************************************************)
EXTENDS PlaygroundChat, SequenceTheorems, TLAPS

(* Nothing else is open beside an undisturbed request.                      *)
Alone == \A r \in Open \ disturbed : Open = {r}

(* ... and its stream, if it has one, is the one the page holds.            *)
Held == \A q \in Requests \ disturbed : request[q] = "stream" => source = q /\ busy

StopInv ==
    /\ request \in [Requests -> Fate]
    /\ Alone
    /\ Held

(* What is still being answered is what is open: Disturb forgets nothing.   *)
LEMMA OpenIsAnswering ==
    ASSUME StopInv
    PROVE  Answering = Open
BY DEF Answering, Open, StopInv, Held

(* Steps that open nothing, and after which nothing open is undisturbed.    *)
LEMMA Vacuous ==
    ASSUME request' \in [Requests -> Fate], Open' \subseteq disturbed'
    PROVE  StopInv'
BY DEF StopInv, Alone, Held, Open

(* A request that ends was alone, or what is left was disturbed.            *)
LEMMA Ends ==
    ASSUME StopInv, NEW q \in Requests, q \in Open, NEW f \in Fate \ {"stream", "plain"},
           request' = [request EXCEPT ![q] = f], disturbed' = disturbed
    PROVE  StopInv'
<1>1. request' \in [Requests -> Fate]
  BY DEF StopInv
<1>2. Open' = Open \ {q}
  BY DEF Open, StopInv
<1>3. Open \ {q} \subseteq disturbed
  BY DEF StopInv, Alone
<1> QED
  BY <1>1, <1>2, <1>3, Vacuous

LEMMA Sends ==
    ASSUME StopInv, NEW q \in Requests, NEW list, Send(q, list)
    PROVE  StopInv'
<1>1. disturbed' = disturbed \cup Unrendered \cup (IF Open = {} THEN {} ELSE Open \cup {q})
  BY OpenIsAnswering DEF Send, Disturb
<1>2. \E f \in {"stream", "failed", "plain"} : request' = [request EXCEPT ![q] = f]
  BY DEF Send
<1>3. request' \in [Requests -> Fate] /\ \A r \in Requests \ {q} : request'[r] = request[r]
  BY <1>2 DEF StopInv, Fate
<1>4. Open' \subseteq Open \cup {q}
  BY <1>3 DEF Open
<1>5. CASE Open # {}
  <2>1. Open' \subseteq disturbed'
    BY <1>1, <1>4, <1>5
  <2> QED
    BY <2>1, <1>3, Vacuous
<1>6. CASE Open = {}
  <2>1. Open' \subseteq {q}
    BY <1>4, <1>6
  <2>2. request'[q] = "stream" => source' = q /\ busy' = (source' # None)
    BY DEF Send, ShowList, StopInv
  <2>3. request'[q] = "stream" => source' = q /\ busy'
    BY <2>2, ChatAssumption
  <2> QED
    BY <2>1, <2>3, <1>3 DEF StopInv, Alone, Held, Open
<1> QED
  BY <1>5, <1>6

LEMMA StopStep ==
    ASSUME StopInv, [Next]_vars
    PROVE  StopInv'
<1> USE DEF netVars, pageVars, listVars
<1>1. ASSUME NEW q \in Requests, Chunk(q) PROVE StopInv'
  BY <1>1 DEF Chunk, StopInv, Alone, Held, Open
<1>2. ASSUME NEW q \in Requests, Done(q) PROVE StopInv'
  <2>1. q \in Open /\ "done" \in Fate \ {"stream", "plain"}
    BY <1>2 DEF Done, Open, Fate
  <2>2. request' = [request EXCEPT ![q] = "done"] /\ disturbed' = disturbed
    BY <1>2 DEF Done
  <2> QED
    BY <2>1, <2>2, Ends
<1>3. ASSUME NEW q \in Requests, Fails(q) PROVE StopInv'
  <2>1. q \in Open /\ "failed" \in Fate \ {"stream", "plain"}
    BY <1>3 DEF Fails, Open, Fate
  <2>2. request' = [request EXCEPT ![q] = "failed"] /\ disturbed' = disturbed
    BY <1>3 DEF Fails, FateOfFailed
  <2> QED
    BY <2>1, <2>2, Ends
<1>4. ASSUME NEW q \in Requests, Truncated(q) PROVE StopInv'
  <2>1. q \in Open /\ "truncated" \in Fate \ {"stream", "plain"}
    BY <1>4 DEF Truncated, Open, Fate
  <2>2. request' = [request EXCEPT ![q] = "truncated"] /\ disturbed' = disturbed
    BY <1>4 DEF Truncated
  <2> QED
    BY <2>1, <2>2, Ends
<1>5. ASSUME NEW q \in Requests, Answer(q) PROVE StopInv'
  <2>1. q \in Open /\ {"answered", "empty", "failed"} \subseteq Fate \ {"stream", "plain"}
    BY <1>5 DEF Answer, Open, Fate
  <2>2. /\ \E f \in {"answered", "empty", "failed"} : request' = [request EXCEPT ![q] = f]
        /\ disturbed' = disturbed
    BY <1>5 DEF Answer
  <2> QED
    BY <2>1, <2>2, Ends
<1>6. ASSUME Render PROVE StopInv'
  <2>1. /\ request' = request /\ source' = source /\ disturbed' = disturbed
        /\ busy' = (source # None)
    BY <1>6 DEF Render
  <2>2. \A q \in Requests \ disturbed : request[q] = "stream" => source = q
    BY DEF StopInv, Held
  <2>3. \A q \in Requests : source = q => busy'
    BY <2>1, ChatAssumption
  <2> QED
    BY <2>1, <2>2, <2>3 DEF StopInv, Alone, Held, Open
<1>7. ASSUME NEW q \in Requests, Submit(q) \/ Suggest(q) \/ Regenerate(q) \/ SubmitEdit(q)
      PROVE  StopInv'
  <2>1. \E list : Send(q, list)
    BY <1>7 DEF Submit, Suggest, handleSendMessage, Regenerate, SubmitEdit
  <2> QED
    BY <2>1, Sends
<1>8. ASSUME Edit \/ CancelEdit \/ UNCHANGED vars PROVE StopInv'
  <2>1. UNCHANGED <<request, source, busy, disturbed>>
    BY <1>8 DEF Edit, CancelEdit, vars
  <2> QED
    BY <2>1 DEF StopInv, Alone, Held, Open
<1>9. ASSUME SaveEdit \/ Delete PROVE StopInv'
  <2>1. request' = request /\ Disturb({})
    BY <1>9 DEF SaveEdit, Delete
  <2>2. Open \subseteq disturbed'
    BY <2>1, OpenIsAnswering DEF Disturb
  <2>3. Open' = Open
    BY <2>1 DEF Open
  <2> QED
    BY <2>1, <2>2, <2>3, Vacuous DEF StopInv
<1>10. ASSUME Stop PROVE StopInv'
  <2>1. /\ request' = [q \in Requests |-> IF q \in ClosedByStop THEN "stopped" ELSE request[q]]
        /\ disturbed' = disturbed
    BY <1>10 DEF Stop
  <2>2. request' \in [Requests -> Fate] /\ Open' = Open \ ClosedByStop
    BY <2>1 DEF StopInv, Fate, Open
  <2>3. \A r \in Open' \ disturbed : request[r] = "plain"
    BY <2>2 DEF StopInv, Held, Open, ClosedByStop
  <2>4. \A r \in Open' \ disturbed : Open' = {r}
    BY <2>2 DEF StopInv, Alone
  <2>5. \A r \in Requests \ disturbed : request'[r] # "stream"
    BY <2>1, <2>3 DEF Open
  <2> QED
    BY <2>1, <2>2, <2>4, <2>5 DEF StopInv, Alone, Held
<1>11. ASSUME Leave \/ Mount PROVE StopInv'
  <2>1. request' = [q \in Requests |-> IF q \in Open THEN "gone" ELSE request[q]]
    BY <1>11 DEF Leave, Mount, Drop
  <2>2. request' \in [Requests -> Fate] /\ Open' = {}
    BY <2>1 DEF StopInv, Fate, Open
  <2> QED
    BY <2>2, Vacuous
<1> QED
  BY <1>1, <1>2, <1>3, <1>4, <1>5, <1>6, <1>7, <1>8, <1>9, <1>10, <1>11 DEF Next

(* Streams not crossed by another: each has the reference to itself, and    *)
(* when one of several streams ends, none of the others counts any more.    *)
CrossInv ==
    /\ request \in [Requests -> Fate]
    /\ \A q \in Streams \ crossed : Streams = {q}
    /\ Stoppable

(* A step after which every open stream has been crossed.                   *)
LEMMA AllCrossed ==
    ASSUME request' \in [Requests -> Fate], Streams' \subseteq crossed'
    PROVE  CrossInv'
BY DEF CrossInv, Stoppable

(* A request that ends was the only stream, or leaves crossed ones.         *)
LEMMA CrossedEnd ==
    ASSUME CrossInv, NEW q \in Streams, NEW f \in Fate \ {"stream"},
           request' = [request EXCEPT ![q] = f], crossed' = crossed
    PROVE  CrossInv'
<1>1. request' \in [Requests -> Fate]
  BY DEF CrossInv
<1>2. Streams' = Streams \ {q}
  BY DEF CrossInv, Streams
<1>3. Streams \ {q} \subseteq crossed
  BY DEF CrossInv
<1> QED
  BY <1>1, <1>2, <1>3, AllCrossed

(* A step that leaves the streams alone, and at most renders.               *)
LEMMA SameStreams ==
    ASSUME CrossInv, request' \in [Requests -> Fate], Streams' = Streams,
           source' = source, crossed' = crossed,
           busy' = busy \/ busy' = (source # None)
    PROVE  CrossInv'
<1>1. \A q \in Streams \ crossed : source = q /\ busy /\ q # None
  BY ChatAssumption DEF CrossInv, Stoppable, Streams
<1>2. \A q \in Streams' \ crossed' : source' = q /\ busy'
  <2> SUFFICES ASSUME NEW q \in Streams \ crossed PROVE source' = q /\ busy'
    OBVIOUS
  <2>1. source' = q /\ busy /\ (source # None) = TRUE
    BY <1>1
  <2>2. CASE busy' = busy
    BY <2>1, <2>2
  <2>3. CASE busy' = (source # None)
    BY <2>1, <2>3
  <2> QED
    BY <2>1, <2>2, <2>3
<1>3. \A q \in Streams' \ crossed' : Streams' = {q}
  BY DEF CrossInv
<1> QED
  BY <1>2, <1>3 DEF CrossInv, Stoppable

LEMMA CrossedSend ==
    ASSUME CrossInv, NEW q \in Requests, NEW list, Send(q, list)
    PROVE  CrossInv'
<1>1. \E f \in {"stream", "failed", "plain"} : request' = [request EXCEPT ![q] = f]
  BY DEF Send
<1>2. request' \in [Requests -> Fate] /\ \A r \in Requests \ {q} : request'[r] = request[r]
  BY <1>1 DEF CrossInv, Fate
<1>3. request[q] = "unsent" /\ busy' = (source' # None)
  BY DEF Send, ShowList
<1>4. CASE ~streaming
  <2>1. /\ request' = [request EXCEPT ![q] = "plain"]
        /\ source' = source /\ crossed' = crossed
    BY <1>4 DEF Send, Cross
  <2>2. Streams' = Streams
    BY <2>1, <1>3 DEF CrossInv, Streams
  <2> QED
    BY <1>2, <1>3, <2>1, <2>2, SameStreams
<1>5. CASE streaming /\ Streams # {}
  <2>1. crossed' = crossed \cup Streams \cup {q}
    BY <1>5 DEF Send, Cross
  <2>2. Streams' \subseteq Streams \cup {q}
    BY <1>2 DEF Streams
  <2> QED
    BY <1>2, <2>1, <2>2, AllCrossed
<1>6. CASE streaming /\ Streams = {}
  <2>1. Streams' \subseteq {q}
    BY <1>2, <1>6 DEF Streams
  <2>2. request'[q] = "stream" => source' = q
    BY <1>6 DEF Send, CrossInv
  <2>3. \A r \in Streams' : r = q /\ source' = q /\ busy'
    BY <2>1, <2>2, <1>3, ChatAssumption DEF Streams
  <2> QED
    BY <1>2, <2>1, <2>3 DEF CrossInv, Stoppable
<1> QED
  BY <1>4, <1>5, <1>6

LEMMA CrossStep ==
    ASSUME CrossInv, [Next]_vars
    PROVE  CrossInv'
<1> USE DEF netVars, pageVars, listVars
<1>1. ASSUME NEW q \in Requests, Chunk(q) PROVE CrossInv'
  BY <1>1, SameStreams DEF Chunk, CrossInv, Streams
<1>2. ASSUME NEW q \in Requests, Done(q) PROVE CrossInv'
  <2>1. q \in Streams /\ "done" \in Fate \ {"stream"}
    BY <1>2 DEF Done, Streams, Fate
  <2> QED
    BY <1>2, <2>1, CrossedEnd DEF Done
<1>3. ASSUME NEW q \in Requests, Fails(q) PROVE CrossInv'
  <2>1. q \in Streams /\ "failed" \in Fate \ {"stream"}
    BY <1>3 DEF Fails, Streams, Fate
  <2> QED
    BY <1>3, <2>1, CrossedEnd DEF Fails, FateOfFailed
<1>4. ASSUME NEW q \in Requests, Truncated(q) PROVE CrossInv'
  <2>1. q \in Streams /\ "truncated" \in Fate \ {"stream"}
    BY <1>4 DEF Truncated, Streams, Fate
  <2> QED
    BY <1>4, <2>1, CrossedEnd DEF Truncated
<1>5. ASSUME NEW q \in Requests, Answer(q) PROVE CrossInv'
  <2>1. PICK f \in {"answered", "empty", "failed"} : request' = [request EXCEPT ![q] = f]
    BY <1>5 DEF Answer
  <2>2. request' \in [Requests -> Fate] /\ Streams' = Streams
    BY <1>5, <2>1 DEF Answer, CrossInv, Streams, Fate
  <2>3. source' = source /\ crossed' = crossed /\ busy' = busy
    BY <1>5 DEF Answer
  <2> QED
    BY <2>2, <2>3, SameStreams
<1>6. ASSUME Render \/ Edit \/ CancelEdit \/ SaveEdit \/ Delete \/ UNCHANGED vars
      PROVE  CrossInv'
  <2>1. UNCHANGED <<request, source, crossed>> /\ (busy' = busy \/ busy' = (source' # None))
    BY <1>6 DEF Render, Edit, CancelEdit, SaveEdit, Delete, ShowList, vars
  <2>2. Streams' = Streams /\ request' \in [Requests -> Fate]
    BY <2>1 DEF Streams, CrossInv
  <2> QED
    BY <2>1, <2>2, SameStreams
<1>7. ASSUME NEW q \in Requests, Submit(q) \/ Suggest(q) \/ Regenerate(q) \/ SubmitEdit(q)
      PROVE  CrossInv'
  <2>1. \E list : Send(q, list)
    BY <1>7 DEF Submit, Suggest, handleSendMessage, Regenerate, SubmitEdit
  <2> QED
    BY <2>1, CrossedSend
<1>8. ASSUME Stop PROVE CrossInv'
  <2>1. /\ request' = [q \in Requests |-> IF q \in ClosedByStop THEN "stopped" ELSE request[q]]
        /\ crossed' = crossed
    BY <1>8 DEF Stop
  <2>2. request' \in [Requests -> Fate] /\ Streams' = Streams \ ClosedByStop
    BY <2>1 DEF CrossInv, Fate, Streams
  <2>3. Streams \ crossed \subseteq ClosedByStop
    BY DEF CrossInv, Stoppable, Streams, ClosedByStop
  <2> QED
    BY <2>1, <2>2, <2>3, AllCrossed
<1>9. ASSUME Leave \/ Mount PROVE CrossInv'
  <2>1. request' = [q \in Requests |-> IF q \in Open THEN "gone" ELSE request[q]]
    BY <1>9 DEF Leave, Mount, Drop
  <2>2. request' \in [Requests -> Fate] /\ Streams' = {}
    BY <2>1 DEF CrossInv, Fate, Open, Streams
  <2> QED
    BY <2>2, AllCrossed
<1> QED
  BY <1>1, <1>2, <1>3, <1>4, <1>5, <1>6, <1>7, <1>8, <1>9 DEF Next

(* Whatever chunks, errors, renders, edits of the list and requests without *)
(* a stream come in between, a stream is the one that Stop would close, and *)
(* Stop is shown, until it ends or another stream is opened beside it.      *)
THEOREM StreamsStoppable == Spec => []Stoppable
<1>1. Init => CrossInv
  BY DEF Init, CrossInv, Stoppable, Streams, Fate
<1>2. CrossInv => Stoppable
  BY DEF CrossInv
<1> QED
  BY <1>1, <1>2, CrossStep, PTL DEF Spec

-----------------------------------------------------------------------------
(* What the messages say.                                                   *)

Own(m) == m.from = "assistant" /\ m.id \notin disturbed
Pure(m) == Range(m.text) \subseteq {m.id}

ListTypes ==
    /\ messages \in Seq(Message) /\ shown \in Seq(Message)
    /\ sent \in [Requests -> Nat] /\ dirty \in BOOLEAN

(* The list as rendered lags behind in its last message only.               *)
Lag == /\ Len(shown) = Len(messages)
       /\ \A i \in DOMAIN messages :
             \/ shown[i] = messages[i]
             \/ dirty /\ i = Len(messages) /\ Key(shown[i]) = Key(messages[i])
       /\ dirty => messages # <<>>

Distinct == \A i, j \in DOMAIN messages : Key(messages[i]) = Key(messages[j]) => i = j

(* A request that was not sent has left no trace.                           *)
Sent == /\ \A i \in DOMAIN messages : request[messages[i].id] # "unsent"
        /\ \A q \in Requests : request[q] = "unsent" => sent[q] = 0 /\ source # q

(* The message of an undisturbed request that is open, or held by the       *)
(* reference, is the last one, and holds what has come of it.               *)
AtEnd == \A q \in Requests \ disturbed :
             q \in Open \/ source = q =>
                 messages # <<>> /\ Key(Last(messages)) = <<"assistant", q>>
Coming == \A q \in Open \ disturbed :
             /\ Last(messages).status \in Unfinished
             /\ request[q] = "stream" =>
                   /\ ~ended /\ Pure(Last(messages))
                   /\ Len(Last(messages).text) = sent[q]

Texts(L) == \A i \in DOMAIN L :
                L[i].from = "assistant" =>
                    \A q \in Range(L[i].text) \ {"user"} : q # L[i].id => q \in disturbed

WholeMsg(m) ==
    Own(m) /\ request[m.id] \in {"done", "answered"} /\ m.status = "complete" /\ Pure(m)
    => Len(m.text) = sent[m.id]
SpinMsg(m, i) ==
    Own(m) /\ m.status \in Unfinished /\ Pure(m) =>
        \/ request[m.id] \in {"stream", "plain", "truncated", "empty"}
        \/ ~here /\ request[m.id] = "gone" /\ i = Len(messages)
Messages == \A i \in DOMAIN messages : WholeMsg(messages[i]) /\ SpinMsg(messages[i], i)

(* Streams and plain requests are never mixed.                              *)
Mode == /\ streaming => \A q \in Requests : request[q] # "plain"
        /\ ~streaming => source = None /\ ~busy /\ \A q \in Requests : request[q] # "stream"
        /\ source # None => busy

ListInv ==
    /\ ListTypes /\ Lag /\ Distinct /\ Sent /\ AtEnd /\ Coming
    /\ Texts(messages) /\ Texts(shown) /\ Messages /\ Mode
ChatInv == StopInv /\ ListInv

(* The last message of a list is replaced.                                  *)
Replaces(L, m, N) == L # <<>> /\ N = [L EXCEPT ![Len(L)] = m]

LEMMA Replaced ==
    ASSUME NEW L \in Seq(Message), NEW m \in Message, NEW N, Replaces(L, m, N)
    PROVE  /\ N \in Seq(Message) /\ Len(N) = Len(L) /\ N # <<>> /\ Len(L) \in DOMAIN L
           /\ DOMAIN N = DOMAIN L /\ N[Len(L)] = m /\ Last(N) = m
           /\ \A i \in DOMAIN L : i # Len(L) => N[i] = L[i]
<1>1. Len(L) \in Nat \ {0}
  BY DEF Replaces
<1>2. DOMAIN L = 1..Len(L) /\ Len(L) \in DOMAIN L
  BY <1>1
<1>3. N \in Seq(Message) /\ Len(N) = Len(L)
  BY <1>2 DEF Replaces
<1>4. DOMAIN N = DOMAIN L /\ N[Len(L)] = m /\ \A i \in DOMAIN L : i # Len(L) => N[i] = L[i]
  BY <1>2 DEF Replaces
<1> QED
  BY <1>1, <1>2, <1>3, <1>4 DEF Last

(* What an answer to q makes of the messages: it closes q or brings a       *)
(* chunk, and rewrites the last message or none.                            *)
AnswerTo(q, f, k, m) ==
    /\ q \in Open /\ f \in Fate \ {"unsent"} /\ k \in Nat /\ m \in Message
    /\ f \in {"stream", "plain"} => f = request[q]
    /\ request' = [request EXCEPT ![q] = f]
    /\ sent' = [sent EXCEPT ![q] = k]
    /\ source' \in {source, None}
    /\ UNCHANGED <<shown, busy, streaming, here, disturbed>>
    /\ \/ /\ Replaces(messages, m, messages') /\ dirty' = TRUE
          /\ Key(m) = Key(Last(messages))
          /\ Range(m.text) \subseteq Range(Last(messages).text) \cup {q}
       \/ UNCHANGED <<messages, dirty>> /\ (messages # <<>> => m = Last(messages))

LEMMA OpenOnes ==
    ASSUME ChatInv, NEW q \in Open, NEW r \in Open \ disturbed
    PROVE  r = q
BY DEF ChatInv, StopInv, Alone

LEMMA LastOne ==
    ASSUME NEW L \in Seq(Message), L # <<>>
    PROVE  Len(L) \in DOMAIN L /\ Last(L) = L[Len(L)] /\ Last(L) \in Message
           /\ DOMAIN L = 1..Len(L) /\ Len(L) \in Nat \ {0}
<1>1. Len(L) \in Nat \ {0} /\ DOMAIN L = 1..Len(L)
  OBVIOUS
<1> QED
  BY <1>1 DEF Last

LEMMA AnswerList ==
    ASSUME ChatInv, NEW q, NEW f, NEW k, NEW m, AnswerTo(q, f, k, m)
    PROVE  /\ ListTypes' /\ Lag' /\ Distinct' /\ Sent' /\ AtEnd' /\ Mode'
           /\ Texts(messages)' /\ Texts(shown)'
<1>1. /\ messages \in Seq(Message) /\ shown \in Seq(Message) /\ q \in Requests
      /\ request \in [Requests -> Fate] /\ sent \in [Requests -> Nat] /\ q \in Open
      /\ k \in Nat /\ f # "unsent" /\ m \in Message /\ dirty \in BOOLEAN
  BY DEF ChatInv, StopInv, ListInv, ListTypes, AnswerTo, Open
<1>2. /\ Len(messages') = Len(messages) /\ DOMAIN messages' = DOMAIN messages
      /\ messages' \in Seq(Message) /\ (messages' = <<>> <=> messages = <<>>)
      /\ \A i \in DOMAIN messages : Key(messages'[i]) = Key(messages[i])
      /\ \A i \in DOMAIN messages : i # Len(messages) => messages'[i] = messages[i]
      /\ messages # <<>> => Key(Last(messages')) = Key(Last(messages))
  <2>1. CASE UNCHANGED messages
    BY <1>1, <2>1
  <2>2. CASE Replaces(messages, m, messages') /\ Key(m) = Key(Last(messages))
    <3>1. messages # <<>> /\ Last(messages) = messages[Len(messages)]
      BY <2>2 DEF Replaces, Last
    <3> QED
      BY <1>1, <2>2, <3>1, Replaced
  <2> QED
    BY <2>1, <2>2 DEF AnswerTo
<1>3. ListTypes'
  BY <1>1, <1>2 DEF AnswerTo, ListTypes
<1>4. Lag'
  <2>1. shown' = shown /\ Lag
    BY DEF AnswerTo, ChatInv, ListInv
  <2>2. CASE dirty' = TRUE /\ messages # <<>>
    BY <1>2, <2>1, <2>2 DEF Lag
  <2>3. CASE UNCHANGED <<messages, dirty>>
    BY <2>1, <2>3 DEF Lag
  <2> QED
    BY <2>2, <2>3 DEF AnswerTo, Replaces
<1>5. Distinct'
  BY <1>2 DEF ChatInv, ListInv, Distinct
<1>6. Sent'
  <2>1. \A r \in Requests : request'[r] = "unsent" => request[r] = "unsent" /\ r # q
    BY <1>1 DEF AnswerTo
  <2>2. \A r \in Requests : r # q => sent'[r] = sent[r]
    BY <1>1 DEF AnswerTo
  <2>3. \A i \in DOMAIN messages : messages'[i].id = messages[i].id
    BY <1>2 DEF Key
  <2>4. \A i \in DOMAIN messages : messages[i].id \in Requests
    <3>1. \A i \in DOMAIN messages : messages[i] \in Message
      BY <1>1
    <3> QED
      BY <3>1 DEF Message
  <2>5. \A r \in Requests : source' = r => source = r
    BY ChatAssumption DEF AnswerTo
  <2> QED
    BY <1>2, <2>1, <2>2, <2>3, <2>4, <2>5 DEF ChatInv, ListInv, Sent
<1>7. Open' \subseteq Open
  BY <1>1 DEF AnswerTo, Open
<1>8. AtEnd'
  <2>1. \A r \in Requests : source' = r => source = r
    BY ChatAssumption DEF AnswerTo
  <2>2. disturbed' = disturbed
    BY DEF AnswerTo
  <2> QED
    BY <1>2, <1>7, <2>1, <2>2 DEF ChatInv, ListInv, AtEnd
<1>9. Mode'
  <2>1. \A r \in Requests : request'[r] \in {"stream", "plain"} => request'[r] = request[r]
    BY <1>1 DEF AnswerTo
  <2> QED
    BY <2>1 DEF AnswerTo, ChatInv, ListInv, Mode
<1>10. Texts(shown)'
  BY DEF AnswerTo, ChatInv, ListInv, Texts
<1>11. Texts(messages)'
  <2>1. CASE UNCHANGED messages
    BY <2>1 DEF AnswerTo, ChatInv, ListInv, Texts
  <2>2. CASE /\ Replaces(messages, m, messages')
             /\ Range(m.text) \subseteq Range(Last(messages).text) \cup {q}
    <3>0. messages # <<>>
      BY <2>2 DEF Replaces
    <3>1. Last(messages) = messages[Len(messages)] /\ Len(messages) \in DOMAIN messages
          /\ messages'[Len(messages)] = m
      BY <1>1, <2>2, <3>0, Replaced, LastOne
    <3>2. m.id = Last(messages).id /\ m.from = Last(messages).from
      BY <1>2, <3>1 DEF Key
    <3>3. q \notin disturbed => Last(messages).id = q
      BY <1>1 DEF ChatInv, ListInv, AtEnd, Key
    <3>4. Texts(messages) /\ disturbed' = disturbed
      BY DEF AnswerTo, ChatInv, ListInv
    <3>5. m.from = "assistant" => \A r \in Range(m.text) \ {"user"} : r # m.id => r \in disturbed
      BY <2>2, <3>1, <3>2, <3>3, <3>4 DEF Texts
    <3> QED
      BY <1>2, <3>1, <3>4, <3>5 DEF Texts
  <2> QED
    BY <2>1, <2>2 DEF AnswerTo
<1> QED
  BY <1>3, <1>4, <1>5, <1>6, <1>8, <1>9, <1>10, <1>11

(* What an answer does to the message it is meant for, and to another one.  *)
Serves(f, k, m) ==
    /\ f # "plain"
    /\ f = "stream" => m.status = "streaming" /\ Pure(m) /\ Len(m.text) = k /\ ~ended'
    /\ f # "stream" => m.status \notin Unfinished
    /\ f \in {"done", "answered"} => Len(m.text) = k
Foreign(m) ==
    \/ ~Pure(m) \/ m.status = "error"
    \/ m = Last(messages) \/ m = Completed(Last(messages))
AnswerRight(q, f, k, m) ==
    /\ AnswerTo(q, f, k, m)
    /\ q \notin disturbed =>
          \/ Replaces(messages, m, messages') /\ Serves(f, k, m)
          \/ UNCHANGED messages /\ f \in {"truncated", "empty"}
    /\ q \in disturbed => UNCHANGED messages \/ m.id = q \/ Foreign(m)

(* The message of an undisturbed open request is found at the end only.     *)
LEMMA OnlyLast ==
    ASSUME ChatInv, NEW i \in DOMAIN messages, Own(messages[i]),
           messages[i].id \in Open \/ source = messages[i].id
    PROVE  i = Len(messages)
<1>1. messages \in Seq(Message) /\ messages # <<>>
  BY DEF ChatInv, ListInv, ListTypes
<1>2. Len(messages) \in DOMAIN messages /\ Last(messages) = messages[Len(messages)]
  BY <1>1, LastOne
<1>3. messages[i] \in Message
  BY <1>1
<1>4. Key(Last(messages)) = Key(messages[i])
  BY <1>3 DEF ChatInv, ListInv, AtEnd, Own, Key, Message
<1> QED
  BY <1>2, <1>4 DEF ChatInv, ListInv, Distinct

LEMMA AnswerMessages ==
    ASSUME ChatInv, NEW q, NEW f, NEW k, NEW m, AnswerRight(q, f, k, m)
    PROVE  Messages' /\ Coming'
<1>1. /\ messages \in Seq(Message) /\ q \in Requests /\ request \in [Requests -> Fate]
      /\ sent \in [Requests -> Nat] /\ q \in Open /\ m \in Message /\ AnswerTo(q, f, k, m)
  BY DEF ChatInv, StopInv, ListInv, ListTypes, AnswerRight, AnswerTo, Open
<1>2. /\ \A r \in Requests \ {q} : request'[r] = request[r] /\ sent'[r] = sent[r]
      /\ request'[q] = f /\ sent'[q] = k /\ disturbed' = disturbed /\ here' = here
  BY <1>1 DEF AnswerTo
<1>3. \A i \in DOMAIN messages : messages[i] \in Message /\ messages[i].id \in Requests
  <2>1. \A i \in DOMAIN messages : messages[i] \in Message
    BY <1>1
  <2> QED
    BY <2>1 DEF Message
<1>4. Len(messages') = Len(messages) /\ DOMAIN messages' = DOMAIN messages
  <2>1. Replaces(messages, m, messages') \/ UNCHANGED messages
    BY <1>1 DEF AnswerTo
  <2> QED
    BY <1>1, <2>1, Replaced
<1>5. ASSUME NEW i \in DOMAIN messages, messages'[i] = messages[i], messages[i].id # q
      PROVE  WholeMsg(messages[i])' /\ SpinMsg(messages[i], i)'
  <2>1. WholeMsg(messages[i]) /\ SpinMsg(messages[i], i)
    BY DEF ChatInv, ListInv, Messages
  <2>2. messages[i].id \in Requests
    BY <1>3
  <2> QED
    BY <1>2, <1>4, <1>5, <2>1, <2>2 DEF WholeMsg, SpinMsg, Own, Pure
<1>6. ASSUME NEW i \in DOMAIN messages, i # Len(messages), messages[i].id = q
      PROVE  ~Own(messages[i])
  BY <1>1, <1>6, OnlyLast
<1>7. ASSUME NEW i \in DOMAIN messages, i # Len(messages) \/ UNCHANGED messages
      PROVE  messages'[i] = messages[i]
  BY <1>1, <1>7, Replaced DEF AnswerTo
<1>8. ASSUME NEW i \in DOMAIN messages, i # Len(messages)
      PROVE  WholeMsg(messages[i])' /\ SpinMsg(messages[i], i)'
  <2>1. messages'[i] = messages[i]
    BY <1>7, <1>8
  <2>2. messages[i].id = q => ~Own(messages[i])'
    BY <1>2, <1>6, <1>8, <2>1 DEF Own
  <2> QED
    BY <1>5, <2>1, <2>2 DEF WholeMsg, SpinMsg
<1>9. CASE q \notin disturbed
  <2>1. /\ messages # <<>> /\ Last(messages) = messages[Len(messages)]
        /\ Len(messages) \in DOMAIN messages
        /\ messages' # <<>> /\ Last(messages') = messages'[Len(messages)]
    <3>1. messages # <<>>
      BY <1>1, <1>9 DEF ChatInv, ListInv, AtEnd
    <3>2. Len(messages) \in DOMAIN messages /\ Last(messages) = messages[Len(messages)]
      BY <1>1, <3>1, LastOne
    <3>3. messages' # <<>> /\ Last(messages') = messages'[Len(messages)]
      BY <1>4, <3>2 DEF Last
    <3> QED
      BY <3>1, <3>2, <3>3
  <2>2. Last(messages).id = q
    BY <1>1, <1>9 DEF ChatInv, ListInv, AtEnd, Key
  <2>3. \A r \in Open' \ disturbed' : r = q /\ f = request[q] /\ f \in {"stream", "plain"}
    <3>1. Open' \subseteq Open
      BY <1>1 DEF AnswerTo, Open
    <3>2. \A r \in Open' \ disturbed' : r = q
      BY <1>1, <1>2, <3>1, OpenOnes
    <3>3. q \in Open' => f \in {"stream", "plain"}
      BY <1>1, <1>2 DEF Open
    <3> QED
      BY <1>1, <3>2, <3>3 DEF AnswerTo
  <2>4. CASE Replaces(messages, m, messages') /\ Serves(f, k, m)
    <3>1. messages'[Len(messages)] = m
      BY <1>1, <2>4, Replaced
    <3>2. m.id = q
      <4>1. m.id = Last(messages).id
        BY <1>1, <2>4, <2>1, <3>1 DEF AnswerTo, Key
      <4> QED
        BY <2>2, <4>1
    <3>3. WholeMsg(messages[Len(messages)])' /\ SpinMsg(messages[Len(messages)], Len(messages))'
      BY <1>2, <1>4, <2>4, <3>1, <3>2 DEF WholeMsg, SpinMsg, Serves, Unfinished
    <3>4. Messages'
      BY <1>4, <1>8, <3>3 DEF Messages
    <3>5. Last(messages') = m
      BY <2>1, <3>1
    <3>6. Pure(m) => Pure(Last(messages))'
      BY <3>5 DEF Pure
    <3>7. Coming'
      BY <1>2, <2>3, <2>4, <3>5, <3>6 DEF Coming, Serves, Unfinished
    <3> QED
      BY <3>4, <3>7
  <2>5. CASE UNCHANGED messages /\ f \in {"truncated", "empty"}
    <3>1. Coming'
      BY <2>3, <2>5 DEF Coming
    <3>2. messages'[Len(messages)].id = q
      BY <2>1, <2>2, <2>5
    <3>3. WholeMsg(messages[Len(messages)])' /\ SpinMsg(messages[Len(messages)], Len(messages))'
      BY <1>2, <1>4, <2>5, <3>2 DEF WholeMsg, SpinMsg
    <3> QED
      BY <1>4, <1>8, <3>1, <3>3 DEF Messages
  <2> QED
    BY <1>9, <2>4, <2>5 DEF AnswerRight
<1>10. CASE q \in disturbed
  <2>1. Coming'
    <3>1. Open' \subseteq Open
      BY <1>1 DEF AnswerTo, Open
    <3>2. \A r \in Open' \ disturbed' : r = q
      BY <1>1, <1>2, <3>1, OpenOnes
    <3> QED
      BY <1>2, <1>10, <3>2 DEF Coming
  <2>2. ASSUME NEW i \in DOMAIN messages PROVE WholeMsg(messages[i])' /\ SpinMsg(messages[i], i)'
    <3>1. CASE messages'[i] = messages[i]
      <4>1. messages[i].id = q => ~Own(messages[i])'
        BY <1>2, <1>10, <3>1 DEF Own
      <4> QED
        BY <1>5, <3>1, <4>1 DEF WholeMsg, SpinMsg
    <3>2. CASE messages'[i] # messages[i]
      <4>1. i = Len(messages) /\ Replaces(messages, m, messages') /\ Key(m) = Key(Last(messages))
        BY <1>1, <1>7, <3>2 DEF AnswerTo
      <4>2. (m.id = q \/ Foreign(m)) /\ messages'[i] = m /\ Last(messages) = messages[i]
        BY <1>1, <1>7, <1>10, <3>2, <4>1, Replaced, LastOne DEF AnswerRight, Replaces
      <4>3. m.id = messages[i].id /\ m.from = messages[i].from
        BY <4>1, <4>2 DEF Key
      <4>4. WholeMsg(messages[i]) /\ SpinMsg(messages[i], i) /\ messages[i].id \in Requests
        BY <1>3 DEF ChatInv, ListInv, Messages
      <4>5. ~Pure(m) => ~Pure(messages[i])'
        BY <4>2 DEF Pure
      <4>6. SUFFICES ASSUME Own(messages[i])', Pure(messages[i])'
                     PROVE  WholeMsg(messages[i])' /\ SpinMsg(messages[i], i)'
        BY DEF WholeMsg, SpinMsg
      <4>7. Own(messages[i]) /\ m.id # q
        BY <1>2, <1>10, <4>2, <4>3, <4>6 DEF Own
      <4>8. m.status = "error" \/ m = Completed(messages[i])
        BY <3>2, <4>2, <4>5, <4>6, <4>7 DEF Foreign
      <4>9. CASE m.status = "error"
        BY <4>2, <4>9 DEF WholeMsg, SpinMsg, Unfinished
      <4>10. CASE m = Completed(messages[i])
        <5>1. m.status \notin Unfinished /\ m.text = messages[i].text
          BY <4>10 DEF Completed, Now, Unfinished
        <5>2. messages[i].status \in Unfinished
          BY <1>3, <3>2, <4>2, <4>10 DEF Completed, Now, Message
        <5>3. Pure(messages[i])
          BY <4>2, <4>3, <4>6, <5>1 DEF Pure
        <5>4. request[m.id] \notin {"done", "answered"}
          BY <4>3, <4>4, <4>7, <5>2, <5>3 DEF SpinMsg
        <5>5. request'[m.id] \notin {"done", "answered"}
          BY <1>2, <4>3, <4>4, <4>7, <5>4
        <5> QED
          BY <4>2, <5>1, <5>5 DEF WholeMsg, SpinMsg
      <4> QED
        BY <4>8, <4>9, <4>10
    <3> QED
      BY <3>1, <3>2
  <2> QED
    BY <1>4, <2>1, <2>2 DEF Messages
<1> QED
  BY <1>9, <1>10

(* What FinalMessages says of one step.                                     *)
FinalKept ==
    \A i \in DOMAIN messages, j \in DOMAIN messages' :
        /\ Key(messages[i]) = Key(messages'[j])
        /\ messages[i].status \in {"complete", "error"}
        /\ Open \cap disturbed = {} /\ messages[i].id \notin disturbed'
        => /\ messages'[j].status = messages[i].status
           /\ messages'[j].text \in {messages[i].text, <<"user">>}

LEMMA Updates ==
    ASSUME ChatInv, NEW m, UpdateLast(m)
    PROVE  \/ /\ HasTarget /\ messages # <<>> /\ Replaces(messages, m, messages')
              /\ dirty' = TRUE
           \/ ~HasTarget /\ UNCHANGED <<messages, dirty>>
<1>1. HasTarget => messages # <<>>
  BY DEF HasTarget, Current
<1> QED
  BY <1>1 DEF UpdateLast, Current, Replaces

(* The last message, if it can be the target of an answer.                  *)
LEMMA Target ==
    ASSUME ChatInv, NEW q \in Open
    PROVE  /\ messages # <<>> => Last(messages) \in Message
           /\ q \notin disturbed =>
                 /\ HasTarget /\ Last(messages).id = q /\ Last(messages).status \in Unfinished
                 /\ request[q] = "stream" =>
                       /\ ~ended /\ Pure(Last(messages))
                       /\ Len(Last(messages).text) = sent[q]
<1>1. messages \in Seq(Message) /\ q \in Requests
  BY DEF ChatInv, ListInv, ListTypes, Open
<1>2. messages # <<>> => Last(messages) \in Message
  BY <1>1, LastOne
<1>3. q \notin disturbed => messages # <<>> /\ Key(Last(messages)) = <<"assistant", q>>
  BY <1>1 DEF ChatInv, ListInv, AtEnd
<1>4. q \notin disturbed =>
          /\ Last(messages).status \in Unfinished
          /\ request[q] = "stream" =>
                /\ ~ended /\ Pure(Last(messages))
                /\ Len(Last(messages).text) = sent[q]
  BY DEF ChatInv, ListInv, Coming
<1> QED
  BY <1>2, <1>3, <1>4 DEF HasTarget, Current, Key

LEMMA Forms ==
    ASSUME NEW m \in Message, NEW q \in Requests
    PROVE  /\ Extended(m, q) \in Message /\ Key(Extended(m, q)) = Key(m)
           /\ Range(Extended(m, q).text) \subseteq Range(m.text) \cup {q}
           /\ m.status # "error" => q \in Range(Extended(m, q).text)
                                    /\ Extended(m, q).status = "streaming"
                                    /\ Len(Extended(m, q).text) = Len(m.text) + 1
           /\ Completed(m) \in Message /\ Key(Completed(m)) = Key(m)
           /\ Completed(m).text = m.text /\ Completed(m).status \notin Unfinished
           /\ Erroneous(m) \in Message /\ Key(Erroneous(m)) = Key(m)
           /\ Range(Erroneous(m).text) = {} /\ Erroneous(m).status = "error"
           /\ Now(m, "complete", <<q>>) \in Message /\ Key(Now(m, "complete", <<q>>)) = Key(m)
           /\ Range(Now(m, "complete", <<q>>).text) = {q}
<1>1. /\ m.from \in {"user", "assistant"} /\ m.id \in Requests /\ m.status \in Status
      /\ m.text \in Seq(Requests \cup {"user"})
  BY DEF Message
<1>2. ASSUME NEW s \in Status, NEW t \in Seq(Requests \cup {"user"})
      PROVE  Now(m, s, t) \in Message /\ Key(Now(m, s, t)) = Key(m)
             /\ Now(m, s, t).text = t /\ Now(m, s, t).status = s
  BY <1>1, <1>2 DEF Now, Message, Key
<1>3. {"streaming", "complete", "error"} \subseteq Status
  BY DEF Status, Unfinished
<1>4. /\ Append(m.text, q) \in Seq(Requests \cup {"user"})
      /\ Len(Append(m.text, q)) = Len(m.text) + 1
      /\ Range(Append(m.text, q)) = Range(m.text) \cup {q}
  <2>1. /\ Append(m.text, q) \in Seq(Requests \cup {"user"})
        /\ Len(Append(m.text, q)) = Len(m.text) + 1
    BY <1>1
  <2>2. DOMAIN Append(m.text, q) = DOMAIN m.text \cup {Len(m.text) + 1}
    BY <1>1
  <2>3. Append(m.text, q)[Len(m.text) + 1] = q
        /\ \A i \in DOMAIN m.text : Append(m.text, q)[i] = m.text[i]
    BY <1>1
  <2> QED
    BY <2>1, <2>2, <2>3 DEF Range
<1>5. /\ <<>> \in Seq(Requests \cup {"user"}) /\ Range(<<>>) = {}
      /\ <<q>> \in Seq(Requests \cup {"user"}) /\ Range(<<q>>) = {q}
  BY DEF Range
<1>6. /\ Extended(m, q) \in Message /\ Key(Extended(m, q)) = Key(m)
      /\ Range(Extended(m, q).text) \subseteq Range(m.text) \cup {q}
      /\ m.status # "error" => q \in Range(Extended(m, q).text)
                               /\ Extended(m, q).status = "streaming"
                               /\ Len(Extended(m, q).text) = Len(m.text) + 1
  <2>1. CASE m.status = "error"
    BY <2>1 DEF Extended
  <2>2. CASE m.status # "error"
    <3>0. PICK t \in Seq(Requests \cup {"user"}) : t = Append(m.text, q)
      BY <1>4
    <3>1. Extended(m, q) = Now(m, "streaming", t)
      BY <2>2, <3>0 DEF Extended
    <3>a. /\ Now(m, "streaming", t) \in Message /\ Key(Now(m, "streaming", t)) = Key(m)
          /\ Now(m, "streaming", t).text = t /\ Now(m, "streaming", t).status = "streaming"
      BY <1>2, <1>3
    <3>2. /\ Extended(m, q) \in Message /\ Key(Extended(m, q)) = Key(m)
          /\ Extended(m, q).text = t /\ Extended(m, q).status = "streaming"
      BY <3>1, <3>a
    <3> HIDE DEF Extended
    <3> QED
      BY <1>4, <3>0, <3>2
  <2> QED
    BY <2>1, <2>2
<1>7. /\ Completed(m) \in Message /\ Key(Completed(m)) = Key(m)
      /\ Completed(m).text = m.text /\ Completed(m).status \notin Unfinished
  <2>1. (IF m.status \in Unfinished THEN "complete" ELSE m.status) \in Status \ Unfinished
    BY <1>1, <1>3 DEF Unfinished
  <2> QED
    BY <1>1, <1>2, <2>1 DEF Completed
<1>8. /\ Erroneous(m) \in Message /\ Key(Erroneous(m)) = Key(m)
      /\ Range(Erroneous(m).text) = {} /\ Erroneous(m).status = "error"
  BY <1>2, <1>3, <1>5 DEF Erroneous
<1>9. /\ Now(m, "complete", <<q>>) \in Message /\ Key(Now(m, "complete", <<q>>)) = Key(m)
      /\ Range(Now(m, "complete", <<q>>).text) = {q}
  BY <1>2, <1>3, <1>5
<1> QED
  BY <1>6, <1>7, <1>8, <1>9

LEMMA AnswersRight ==
    ASSUME ChatInv, NEW q \in Requests,
           Chunk(q) \/ Done(q) \/ Fails(q) \/ Truncated(q) \/ Answer(q)
    PROVE  \E f, k, m : AnswerRight(q, f, k, m)
<1>1. q \in Open /\ request \in [Requests -> Fate] /\ sent \in [Requests -> Nat]
  BY DEF ChatInv, StopInv, ListInv, ListTypes, Open, Chunk, Done, Fails, Truncated, Answer
<1>2. sent = [sent EXCEPT ![q] = sent[q]] /\ request = [request EXCEPT ![q] = request[q]]
  BY <1>1
<1> DEFINE L == Last(messages)
           some == IF messages = <<>> THEN createLoadingAssistantMessage(q) ELSE L
<1>3. some \in Message
  BY <1>1, Target DEF createLoadingAssistantMessage, Message, Status, Unfinished
<1>4. HasTarget => messages # <<>> /\ some = L /\ L \in Message
  BY <1>1, Target DEF HasTarget, Current
<1>5. q \notin disturbed => HasTarget
  BY <1>1, Target
<1>6. /\ Extended(L, q) = Extended(Last(Current), q)
      /\ Completed(L) = Completed(Last(Current)) /\ Erroneous(L) = Erroneous(Last(Current))
      /\ Now(L, "complete", <<q>>) = Now(Last(Current), "complete", <<q>>)
  BY DEF Current
<1>7. UNCHANGED <<messages, dirty>> => (messages # <<>> => some = L)
  OBVIOUS
<1> HIDE DEF some, L
<1>8. ASSUME UNCHANGED <<messages, dirty>>, sent' = sent, UNCHANGED <<shown, busy, streaming, here, disturbed>>,
             source' \in {source, None},
             NEW f \in Fate \ {"unsent", "stream", "plain"}, request' = [request EXCEPT ![q] = f],
             q \notin disturbed => f \in {"truncated", "empty"}
      PROVE  AnswerRight(q, f, sent[q], some)
  <2>1. AnswerTo(q, f, sent[q], some)
    BY <1>1, <1>2, <1>3, <1>7, <1>8 DEF AnswerTo, L
  <2> QED
    BY <1>8, <2>1 DEF AnswerRight
<1>9. ASSUME NEW m \in Message, HasTarget, Key(m) = Key(L),
             Range(m.text) \subseteq Range(L.text) \cup {q},
             UpdateLast(m), UNCHANGED <<shown, busy, streaming, here, disturbed>>,
             source' \in {source, None},
             NEW k \in Nat, sent' = [sent EXCEPT ![q] = k],
             NEW f \in Fate \ {"unsent", "plain"}, request' = [request EXCEPT ![q] = f],
             f = "stream" => f = request[q],
             q \notin disturbed => Serves(f, k, m),
             q \in disturbed => m.id = q \/ Foreign(m)
      PROVE  AnswerRight(q, f, k, m)
  <2>1. Replaces(messages, m, messages') /\ dirty' = TRUE
    BY <1>9, Updates
  <2>2. AnswerTo(q, f, k, m)
    BY <1>1, <1>9, <2>1 DEF AnswerTo, L
  <2> QED
    BY <1>9, <2>1, <2>2 DEF AnswerRight
<1>10. ASSUME NEW m, UpdateLast(m), ~HasTarget PROVE UNCHANGED <<messages, dirty>> /\ q \in disturbed
  BY <1>5, <1>10, Updates
<1>11. CASE Chunk(q)
  <2>1. /\ UpdateLast(Extended(L, q)) /\ request[q] = "stream" /\ source' = source
        /\ sent' = [sent EXCEPT ![q] = sent[q] + 1] /\ ended' = ended /\ request' = request
        /\ UNCHANGED <<shown, busy, streaming, here, disturbed>>
    BY <1>6, <1>11 DEF Chunk, pageVars
  <2>2. CASE HasTarget
    <3>1. Extended(L, q) \in Message /\ Key(Extended(L, q)) = Key(L)
          /\ Range(Extended(L, q).text) \subseteq Range(L.text) \cup {q}
      BY <1>4, <2>2, Forms
    <3>2. ASSUME q \notin disturbed PROVE Serves("stream", sent[q] + 1, Extended(L, q))
      <4>1. /\ L.id = q /\ L.status # "error" /\ ~ended /\ Pure(L) /\ Len(L.text) = sent[q]
        BY <1>1, <2>1, <3>2, Target DEF L, Unfinished
      <4>2. Extended(L, q).id = q
        BY <3>1, <4>1 DEF Key
      <4>3. Pure(Extended(L, q))
        BY <3>1, <4>1, <4>2 DEF Pure
      <4>4. Extended(L, q).status = "streaming" /\ Len(Extended(L, q).text) = sent[q] + 1
        <5>1. /\ Extended(L, q).status = "streaming"
              /\ Len(Extended(L, q).text) = Len(L.text) + 1
          BY <1>4, <2>2, <4>1, Forms
        <5> QED
          BY <4>1, <5>1
      <4> QED
        BY <2>1, <4>1, <4>3, <4>4 DEF Serves
    <3>3. ASSUME q \in disturbed PROVE Extended(L, q).id = q \/ Foreign(Extended(L, q))
      <4>1. CASE L.status = "error"
        BY <4>1 DEF Extended, Foreign, L
      <4>2. CASE L.status # "error"
        BY <1>4, <2>2, <4>2, Forms DEF Foreign, Pure
      <4> QED
        BY <4>1, <4>2
    <3>4. "stream" \in Fate \ {"unsent", "plain"} /\ sent[q] + 1 \in Nat
          /\ request' = [request EXCEPT ![q] = "stream"]
      BY <1>1, <1>2, <2>1 DEF Fate
    <3> QED
      BY <1>9, <2>1, <2>2, <3>1, <3>2, <3>3, <3>4
  <2>3. CASE ~HasTarget
    <3>1. UNCHANGED <<messages, dirty>> /\ q \in disturbed
      BY <1>10, <2>1, <2>3
    <3>2. AnswerTo(q, "stream", sent[q] + 1, some)
      BY <1>1, <1>2, <1>3, <1>7, <2>1, <3>1 DEF AnswerTo, L, Fate
    <3> QED
      BY <3>1, <3>2 DEF AnswerRight
  <2> QED
    BY <2>2, <2>3
<1>12. CASE Done(q)
  <2>1. /\ UpdateLast(Completed(L)) /\ request[q] = "stream" /\ source' = None
        /\ sent' = sent /\ request' = [request EXCEPT ![q] = "done"]
        /\ UNCHANGED <<shown, busy, streaming, here, disturbed>>
        /\ "done" \in Fate \ {"unsent", "stream", "plain"}
    BY <1>6, <1>12 DEF Done, pageVars, SourceAfter, Fate
  <2>2. CASE HasTarget
    <3>1. /\ Completed(L) \in Message /\ Key(Completed(L)) = Key(L)
          /\ Completed(L).text = L.text /\ Completed(L).status \notin Unfinished
      BY <1>4, <2>2, Forms
    <3>2. ASSUME q \notin disturbed PROVE Serves("done", sent[q], Completed(L))
      <4>1. Len(L.text) = sent[q]
        BY <1>1, <2>1, <3>2, Target DEF L
      <4> QED
        BY <3>1, <4>1 DEF Serves
    <3>3. Foreign(Completed(L))
      BY DEF Foreign, L
    <3> QED
      BY <1>1, <1>2, <1>9, <2>1, <2>2, <3>1, <3>2, <3>3
  <2>3. CASE ~HasTarget
    <3>1. UNCHANGED <<messages, dirty>> /\ q \in disturbed
      BY <1>10, <2>1, <2>3
    <3> QED
      BY <1>8, <2>1, <3>1
  <2> QED
    BY <2>2, <2>3
<1>13. ASSUME UpdateLast(Erroneous(L)), sent' = sent,
              request' = [request EXCEPT ![q] = "failed"], source' \in {source, None},
              UNCHANGED <<shown, busy, streaming, here, disturbed>>
       PROVE  \E f, k, m : AnswerRight(q, f, k, m)
  <2>1. "failed" \in Fate \ {"unsent", "stream", "plain"}
    BY DEF Fate
  <2>2. CASE HasTarget
    <3>1. /\ Erroneous(L) \in Message /\ Key(Erroneous(L)) = Key(L)
          /\ Range(Erroneous(L).text) = {} /\ Erroneous(L).status = "error"
      BY <1>4, <2>2, Forms
    <3>2. Serves("failed", sent[q], Erroneous(L)) /\ Foreign(Erroneous(L))
      BY <3>1 DEF Serves, Foreign, Unfinished
    <3> QED
      BY <1>1, <1>2, <1>9, <1>13, <2>1, <2>2, <3>1, <3>2
  <2>3. CASE ~HasTarget
    <3>1. UNCHANGED <<messages, dirty>> /\ q \in disturbed
      BY <1>10, <1>13, <2>3
    <3> QED
      BY <1>8, <1>13, <2>1, <3>1
  <2> QED
    BY <2>2, <2>3
<1>14. CASE Fails(q)
  <2>1. /\ request' = [request EXCEPT ![q] = "failed"] /\ request[q] = "stream"
        /\ sent' = sent /\ UNCHANGED <<shown, busy, streaming, here, disturbed>>
        /\ \/ ended /\ UNCHANGED <<source, messages, dirty>>
           \/ ~ended /\ source' = None /\ UpdateLast(Erroneous(L))
    BY <1>6, <1>14 DEF Fails, FateOfFailed, SourceAfter, pageVars
  <2>2. CASE ended /\ UNCHANGED <<source, messages, dirty>>
    <3>1. q \in disturbed
      BY <1>1, <2>1, <2>2, Target
    <3> QED
      BY <1>8, <2>1, <2>2, <3>1 DEF Fate
  <2> QED
    BY <1>13, <2>1, <2>2
<1>15. CASE Truncated(q)
  <2>1. /\ request' = [request EXCEPT ![q] = "truncated"] /\ source' = source
        /\ sent' = sent /\ UNCHANGED <<shown, busy, streaming, here, disturbed, messages, dirty>>
    BY <1>15 DEF Truncated, listVars, pageVars
  <2> QED
    BY <1>8, <2>1 DEF Fate
<1>16. CASE Answer(q)
  <2>1. /\ source' = source /\ UNCHANGED <<shown, busy, streaming, here, disturbed>>
        /\ \/ /\ request' = [request EXCEPT ![q] = "answered"] /\ sent' = [sent EXCEPT ![q] = 1]
              /\ UpdateLast(Now(L, "complete", <<q>>))
           \/ /\ request' = [request EXCEPT ![q] = "empty"]
              /\ UNCHANGED <<messages, dirty, sent>>
           \/ /\ request' = [request EXCEPT ![q] = "failed"]
              /\ UpdateLast(Erroneous(L)) /\ sent' = sent
    BY <1>6, <1>16 DEF Answer, pageVars
  <2>2. CASE /\ request' = [request EXCEPT ![q] = "answered"] /\ sent' = [sent EXCEPT ![q] = 1]
             /\ UpdateLast(Now(L, "complete", <<q>>))
    <3>1. "answered" \in Fate \ {"unsent", "stream", "plain"}
      BY DEF Fate
    <3>2. CASE HasTarget
      <4> DEFINE m == Now(L, "complete", <<q>>)
      <4>1. m \in Message /\ Key(m) = Key(L) /\ Range(m.text) = {q}
        BY <1>4, <3>2, Forms
      <4>2. m.status = "complete" /\ Len(m.text) = 1
        BY DEF Now
      <4>3. Serves("answered", 1, m)
        BY <4>2 DEF Serves, Unfinished
      <4>4. m.id = q \/ Foreign(m)
        BY <4>1 DEF Foreign, Pure
      <4> HIDE DEF m
      <4> QED
        BY <1>9, <2>1, <2>2, <3>1, <3>2, <4>1, <4>3, <4>4 DEF m
    <3>3. CASE ~HasTarget
      <4>1. UNCHANGED <<messages, dirty>> /\ q \in disturbed
        BY <1>10, <2>2, <3>3
      <4>2. AnswerTo(q, "answered", 1, some)
        BY <1>1, <1>2, <1>3, <1>7, <2>1, <2>2, <3>1, <4>1 DEF AnswerTo, L
      <4> QED
        BY <4>1, <4>2 DEF AnswerRight
    <3> QED
      BY <3>2, <3>3
  <2>3. CASE request' = [request EXCEPT ![q] = "empty"] /\ UNCHANGED <<messages, dirty, sent>>
    BY <1>8, <2>1, <2>3 DEF Fate
  <2>4. CASE request' = [request EXCEPT ![q] = "failed"] /\ UpdateLast(Erroneous(L)) /\ sent' = sent
    BY <1>13, <2>1, <2>4
  <2> QED
    BY <2>1, <2>2, <2>3, <2>4
<1> QED
  BY <1>11, <1>12, <1>14, <1>15, <1>16

LEMMA AnswerStep ==
    ASSUME ChatInv, NEW q \in Requests,
           Chunk(q) \/ Done(q) \/ Fails(q) \/ Truncated(q) \/ Answer(q)
    PROVE  ListInv' /\ FinalKept
<1>1. PICK f, k, m : AnswerRight(q, f, k, m)
  BY AnswersRight
<1>2. AnswerTo(q, f, k, m)
  BY <1>1 DEF AnswerRight
<1>3. ListInv'
  BY <1>1, <1>2, AnswerList, AnswerMessages DEF ListInv
<1>4. FinalKept
  <2> SUFFICES ASSUME NEW i \in DOMAIN messages, NEW j \in DOMAIN messages',
                      Key(messages[i]) = Key(messages'[j]),
                      messages[i].status \in {"complete", "error"},
                      Open \cap disturbed = {}
               PROVE  /\ messages'[j].status = messages[i].status
                      /\ messages'[j].text \in {messages[i].text, <<"user">>}
    BY DEF FinalKept
  <2>1. messages \in Seq(Message) /\ messages # <<>> /\ q \in Open \ disturbed
    BY <1>2 DEF ChatInv, ListInv, ListTypes, AnswerTo
  <2>2. Last(messages) = messages[Len(messages)] /\ Last(messages).status \in Unfinished
    BY <2>1, Target, LastOne
  <2>3. i # Len(messages)
    BY <2>2 DEF Unfinished
  <2>4. \A l \in DOMAIN messages : l # Len(messages) => messages'[l] = messages[l]
    BY <1>2, <2>1, Replaced DEF AnswerTo
  <2>5. Distinct' /\ DOMAIN messages' = DOMAIN messages
    BY <1>2, <1>3, <2>1, Replaced DEF AnswerTo, ListInv
  <2>6. messages'[i] = messages[i] /\ i = j
    BY <2>3, <2>4, <2>5 DEF Distinct, Key
  <2> QED
    BY <2>6
<1> QED
  BY <1>3, <1>4

(* Steps that leave the messages and what became of the requests alone.     *)
LEMMA QuietStep ==
    ASSUME ChatInv, Render \/ Edit \/ CancelEdit \/ UNCHANGED vars
    PROVE  ListInv' /\ FinalKept
<1>1. /\ UNCHANGED <<messages, source, ended, request, sent, streaming, here, disturbed>>
      /\ \/ UNCHANGED <<shown, busy, dirty>>
         \/ shown' = messages /\ busy' = (source # None) /\ dirty' = FALSE
  BY DEF Render, Edit, CancelEdit, vars, listVars, netVars, pageVars
<1>2. ListTypes' /\ Lag'
  <2>1. CASE UNCHANGED <<shown, busy, dirty>>
    BY <1>1, <2>1 DEF ChatInv, ListInv, ListTypes, Lag
  <2>2. CASE shown' = messages /\ dirty' = FALSE
    BY <1>1, <2>2 DEF ChatInv, ListInv, ListTypes, Lag
  <2> QED
    BY <1>1, <2>1, <2>2
<1>3. Distinct' /\ Sent' /\ AtEnd' /\ Coming'
  BY <1>1 DEF ChatInv, ListInv, Distinct, Sent, AtEnd, Coming, Open, Pure
<1>4. Texts(messages)' /\ Texts(shown)'
  BY <1>1 DEF ChatInv, ListInv, Texts
<1>5. Messages'
  BY <1>1 DEF ChatInv, ListInv, Messages, WholeMsg, SpinMsg, Own, Pure
<1>6. Mode'
  <2>1. Mode
    BY DEF ChatInv, ListInv
  <2>2. CASE busy' = busy
    BY <1>1, <2>1, <2>2 DEF Mode
  <2>3. CASE busy' = (source # None)
    <3>1. busy' <=> source # None
      BY <2>3
    <3> QED
      BY <1>1, <2>1, <3>1 DEF Mode
  <2> QED
    BY <1>1, <2>2, <2>3
<1>7. FinalKept
  BY <1>1 DEF ChatInv, ListInv, FinalKept, Distinct
<1> QED
  BY <1>2, <1>3, <1>4, <1>5, <1>6, <1>7 DEF ListInv

(* A list made from the one that is shown: its first n messages were there, *)
(* each once, some of them edited, and the others are new ones of q.        *)
Edits(m, N) == Key(m) = Key(N) /\ m.status = N.status /\ m.text = <<"user">>
MadeFrom(N, n, g, q) ==
    /\ N \in Seq(Message) /\ n \in 0..Len(N)
    /\ g \in [1..n -> DOMAIN shown]
    /\ \A i, j \in 1..n : g[i] = g[j] => i = j
    /\ \A i \in 1..n : N[i] = shown[g[i]] \/ Edits(N[i], shown[g[i]])
    /\ \A i \in (n + 1)..Len(N) : N[i].id = q /\ request[q] = "unsent"
    /\ \A i, j \in (n + 1)..Len(N) : Key(N[i]) = Key(N[j]) => i = j
    /\ \A i \in (n + 1)..Len(N) :
          N[i].from = "assistant" =>
              /\ N[i].text = <<>> /\ request'[q] \notin {"unsent", "done", "answered"}
              /\ N[i].status = "error" \/ request'[q] \in {"stream", "plain"}

LEMMA SameUndisturbed ==
    ASSUME ChatInv, NEW i \in DOMAIN shown
    PROVE  /\ i \in DOMAIN messages /\ Key(shown[i]) = Key(messages[i])
           /\ messages[i] \in Message /\ shown[i] \in Message
           /\ messages[i].id \notin Unrendered => shown[i] = messages[i]
<1>1. messages \in Seq(Message) /\ shown \in Seq(Message) /\ Len(shown) = Len(messages)
  BY DEF ChatInv, ListInv, ListTypes, Lag
<1>2. DOMAIN shown = DOMAIN messages
  BY <1>1
<1>3. \/ shown[i] = messages[i]
      \/ dirty /\ i = Len(messages) /\ Key(shown[i]) = Key(messages[i])
  BY <1>2 DEF ChatInv, ListInv, Lag
<1>4. Last(messages) = messages[Len(messages)]
  BY <1>1, <1>2, LastOne
<1>5. messages[i] \in Message /\ shown[i] \in Message
  BY <1>1, <1>2
<1> QED
  BY <1>2, <1>3, <1>4, <1>5 DEF Unrendered

LEMMA MadeMessages ==
    ASSUME ChatInv, NEW N, NEW n, NEW g, NEW q \in Requests, MadeFrom(N, n, g, q),
           messages' = N, here, disturbed \cup Unrendered \subseteq disturbed', sent' = sent,
           \A r \in Requests \ {q} : request'[r] = request[r],
           request[q] = "unsent" \/ request'[q] = request[q]
    PROVE  /\ Distinct' /\ Texts(messages)' /\ Messages' /\ FinalKept
           /\ \A i \in 1..n : request[N[i].id] # "unsent"
<1>1. /\ N \in Seq(Message) /\ n \in 0..Len(N) /\ DOMAIN N = 1..Len(N) /\ Len(N) \in Nat
      /\ g \in [1..n -> DOMAIN shown]
      /\ \A i \in 1..n : g[i] \in DOMAIN shown
      /\ \A i \in DOMAIN N : i \in 1..n \/ i \in (n + 1)..Len(N)
  BY DEF MadeFrom
<1>2. ASSUME NEW i \in 1..n
      PROVE  /\ g[i] \in DOMAIN messages /\ Key(N[i]) = Key(messages[g[i]])
             /\ messages[g[i]] \in Message
             /\ N[i].id = messages[g[i]].id /\ N[i].from = messages[g[i]].from
             /\ request[N[i].id] # "unsent" /\ N[i].id \in Requests
             /\ request'[N[i].id] = request[N[i].id]
             /\ N[i].id \notin disturbed' =>
                   N[i] = messages[g[i]] \/ Edits(N[i], messages[g[i]])
             /\ N[i] = shown[g[i]] \/ N[i].text = <<"user">>
  <2>1. g[i] \in DOMAIN shown
    BY <1>1, <1>2
  <2>2. /\ g[i] \in DOMAIN messages /\ Key(shown[g[i]]) = Key(messages[g[i]])
        /\ messages[g[i]] \in Message /\ shown[g[i]] \in Message
        /\ messages[g[i]].id \notin Unrendered => shown[g[i]] = messages[g[i]]
    BY <2>1, SameUndisturbed
  <2>3. N[i] = shown[g[i]] \/ Edits(N[i], shown[g[i]])
    BY <1>2 DEF MadeFrom
  <2>4. Key(N[i]) = Key(messages[g[i]])
    BY <2>2, <2>3 DEF Edits
  <2>5. N[i].id = messages[g[i]].id /\ N[i].from = messages[g[i]].from
    BY <2>4 DEF Key
  <2>6. request[N[i].id] # "unsent" /\ N[i].id \in Requests
    BY <2>2, <2>5 DEF ChatInv, ListInv, Sent, Message
  <2>7. request'[N[i].id] = request[N[i].id]
    BY <2>6
  <2>8. N[i].id \notin disturbed' => N[i] = messages[g[i]] \/ Edits(N[i], messages[g[i]])
    BY <2>2, <2>3, <2>5
  <2> QED
    BY <2>2, <2>3, <2>4, <2>5, <2>6, <2>7, <2>8 DEF Edits
<1>3. ASSUME NEW i \in (n + 1)..Len(N)
      PROVE  N[i].id = q /\ i \in DOMAIN N /\ request[q] = "unsent"
  BY <1>1, <1>3 DEF MadeFrom
<1>4. \A i \in 1..n, j \in (n + 1)..Len(N) : N[i].id # N[j].id
  BY <1>2, <1>3
<1>5. Distinct'
  <2> SUFFICES ASSUME NEW i \in DOMAIN N, NEW j \in DOMAIN N, Key(N[i]) = Key(N[j])
               PROVE  i = j
    BY DEF Distinct, Key
  <2>1. N[i].id = N[j].id
    BY DEF Key
  <2>2. CASE i \in 1..n /\ j \in 1..n
    <3>1. g[i] = g[j]
      BY <1>2, <2>2 DEF ChatInv, ListInv, Distinct
    <3> QED
      BY <2>2, <3>1 DEF MadeFrom
  <2>3. CASE i \in (n + 1)..Len(N) /\ j \in (n + 1)..Len(N)
    BY <2>3 DEF MadeFrom
  <2> QED
    BY <1>1, <1>4, <2>1, <2>2, <2>3
<1>6. Texts(messages)'
  <2> SUFFICES ASSUME NEW i \in DOMAIN N, N[i].from = "assistant",
                      NEW r \in Range(N[i].text) \ {"user"}, r # N[i].id
               PROVE  r \in disturbed'
    BY DEF Texts
  <2>1. CASE i \in (n + 1)..Len(N)
    <3>1. Range(N[i].text) = {}
      BY <2>1 DEF MadeFrom, Range
    <3> QED
      BY <3>1
  <2>2. CASE i \in 1..n /\ N[i] = shown[g[i]]
    BY <1>1, <2>2 DEF ChatInv, ListInv, Texts
  <2>3. CASE N[i].text = <<"user">>
    BY <2>3 DEF Range
  <2> QED
    BY <1>1, <1>2, <2>1, <2>2, <2>3
<1>7. Messages'
  <2> SUFFICES ASSUME NEW i \in DOMAIN N, Own(N[i])', Pure(N[i])'
               PROVE  WholeMsg(N[i])' /\ SpinMsg(N[i], i)'
    BY DEF Messages, WholeMsg, SpinMsg
  <2>1. CASE i \in (n + 1)..Len(N)
    BY <1>3, <2>1 DEF MadeFrom, Own, WholeMsg, SpinMsg, Unfinished
  <2>2. CASE i \in 1..n
    <3>1. /\ g[i] \in DOMAIN messages /\ N[i].id \in Requests
          /\ request'[N[i].id] = request[N[i].id]
          /\ N[i] = messages[g[i]] \/ Edits(N[i], messages[g[i]])
      BY <1>2, <2>2 DEF Own
    <3>2. N[i].text # <<"user">>
      BY <3>1, ChatAssumption DEF Pure, Range
    <3>3. N[i] = messages[g[i]]
      BY <3>1, <3>2 DEF Edits
    <3>4. WholeMsg(N[i]) /\ SpinMsg(N[i], g[i]) /\ Own(N[i]) /\ Pure(N[i])
      BY <3>1, <3>3 DEF ChatInv, ListInv, Messages, Own, Pure
    <3> QED
      BY <3>1, <3>4 DEF WholeMsg, SpinMsg
  <2> QED
    BY <1>1, <2>1, <2>2
<1>8. FinalKept
  <2> SUFFICES ASSUME NEW i \in DOMAIN messages, NEW j \in DOMAIN N,
                      Key(messages[i]) = Key(N[j]), messages[i].id \notin disturbed'
               PROVE  N[j].status = messages[i].status /\ N[j].text \in {messages[i].text, <<"user">>}
    BY DEF FinalKept
  <2>1. messages[i].id = N[j].id
    BY DEF Key
  <2>2. CASE j \in (n + 1)..Len(N)
    <3>1. messages[i].id = q /\ request[q] = "unsent"
      BY <1>3, <2>1, <2>2
    <3> QED
      BY <3>1 DEF ChatInv, ListInv, Sent
  <2>3. CASE j \in 1..n
    <3>1. g[j] = i
      BY <1>2, <2>3 DEF ChatInv, ListInv, Distinct
    <3> QED
      BY <1>2, <2>1, <2>3, <3>1 DEF Edits
  <2> QED
    BY <1>1, <2>2, <2>3
<1> QED
  BY <1>2, <1>5, <1>6, <1>7, <1>8

(* The list a handler sends an answer after: messages that were shown, and  *)
(* perhaps the new one of the user.                                         *)
SendsAfter(list, n, q) ==
    /\ list \in Seq(Message) /\ n \in 0..Len(shown)
    /\ Len(list) = n \/ (Len(list) = n + 1 /\ list[n + 1] = createUserMessage(q))
    /\ \A i \in 1..n : list[i] = shown[i] \/ Edits(list[i], shown[i])

LEMMA SendStep ==
    ASSUME ChatInv, NEW q \in Requests, NEW list, NEW n,
           SendsAfter(list, n, q), Send(q, list)
    PROVE  ListInv' /\ FinalKept
<1>1. /\ request \in [Requests -> Fate] /\ sent \in [Requests -> Nat]
      /\ shown \in Seq(Message) /\ request[q] = "unsent" /\ here
      /\ UNCHANGED <<sent, streaming, here>>
      /\ list \in Seq(Message) /\ n \in 0..Len(shown) /\ sent[q] = 0 /\ n \in Nat
  BY DEF ChatInv, StopInv, ListInv, ListTypes, Sent, Send, SendsAfter, pageVars
<1>2. disturbed' = disturbed \cup Unrendered \cup (IF Open = {} THEN {} ELSE Open \cup {q})
  BY OpenIsAnswering DEF ChatInv, Send, Disturb
<1> DEFINE a == createLoadingAssistantMessage(q)
<1>3. PICK f, m, N :
          /\ request' = [request EXCEPT ![q] = f]
          /\ \/ f = "stream" /\ streaming /\ source' = q /\ ended' = FALSE /\ m = a
             \/ f = "failed" /\ streaming /\ source' = None /\ m = Erroneous(a)
             \/ f = "plain" /\ ~streaming /\ source' = source /\ m = a
          /\ N = Append(list, m) /\ ShowList(N)
  BY DEF Send
<1>4. /\ m \in Message /\ m.from = "assistant" /\ m.id = q /\ m.text = <<>>
      /\ m.status = "error" \/ (f \in {"stream", "plain"} /\ m.status = "loading")
  <2>1. /\ <<>> \in Seq(Requests \cup {"user"}) /\ {"loading", "error"} \subseteq Status
        /\ a = [from |-> "assistant", id |-> q, status |-> "loading", text |-> <<>>]
    BY DEF createLoadingAssistantMessage, Status, Unfinished
  <2>2. CASE m = a /\ f \in {"stream", "plain"}
    BY <2>1, <2>2 DEF Message
  <2>3. CASE m = Erroneous(a)
    <3>1. m = [from |-> "assistant", id |-> q, status |-> "error", text |-> <<>>]
      BY <2>1, <2>3 DEF Erroneous, Now
    <3> QED
      BY <2>1, <3>1 DEF Message
  <2> QED
    BY <1>3, <2>2, <2>3
<1>5. /\ messages' = N /\ shown' = N /\ dirty' = FALSE /\ (busy' <=> source' # None)
  BY <1>3 DEF ShowList
<1>6. /\ N \in Seq(Message) /\ Len(N) = Len(list) + 1 /\ N[Len(N)] = m /\ N # <<>>
      /\ Last(N) = m /\ \A i \in 1..Len(list) : N[i] = list[i]
  <2>1. /\ N \in Seq(Message) /\ Len(N) = Len(list) + 1 /\ N[Len(N)] = m
        /\ \A i \in 1..Len(list) : N[i] = list[i]
    BY <1>1, <1>3, <1>4
  <2>2. N # <<>>
    BY <1>1, <2>1
  <2> QED
    BY <2>1, <2>2 DEF Last
<1>7. \A r \in Requests \ {q} : request'[r] = request[r]
  BY <1>1, <1>3
<1>8. request'[q] = f /\ f \in {"stream", "failed", "plain"}
  BY <1>1, <1>3
<1> HIDE DEF a
<1>9. MadeFrom(N, n, [i \in 1..n |-> i], q)
  <2>1. n \in 0..Len(N) /\ Len(list) \in Nat /\ Len(list) \in {n, n + 1}
    BY <1>1, <1>6 DEF SendsAfter
  <2>2. [i \in 1..n |-> i] \in [1..n -> DOMAIN shown]
    BY <1>1
  <2>3. \A i \in 1..n : N[i] = shown[i] \/ Edits(N[i], shown[i])
    <3>1. \A i \in 1..n : i \in 1..Len(list)
      BY <1>1, <2>1
    <3> QED
      BY <1>6, <3>1 DEF SendsAfter
  <2>4. ASSUME NEW i \in (n + 1)..Len(N)
        PROVE  \/ i = Len(N) /\ N[i] = m
               \/ i = n + 1 /\ Len(N) = n + 2 /\ N[i] = createUserMessage(q)
    <3>1. CASE i = Len(N)
      BY <1>6, <3>1
    <3>2. CASE i # Len(N)
      <4>1. i = n + 1 /\ Len(list) = n + 1 /\ i \in 1..Len(list)
        BY <1>1, <1>6, <2>1, <2>4, <3>2
      <4> QED
        BY <1>1, <1>6, <4>1 DEF SendsAfter
    <3> QED
      BY <3>1, <3>2
  <2>5. createUserMessage(q).id = q /\ createUserMessage(q).from = "user"
    BY DEF createUserMessage
  <2>6. \A i \in (n + 1)..Len(N) : N[i].id = q
    BY <1>4, <2>4, <2>5
  <2>7. \A i, j \in (n + 1)..Len(N) : Key(N[i]) = Key(N[j]) => i = j
    <3> SUFFICES ASSUME NEW i \in (n + 1)..Len(N), NEW j \in (n + 1)..Len(N), Key(N[i]) = Key(N[j])
                 PROVE  i = j
      OBVIOUS
    <3>1. N[i].from = N[j].from
      BY DEF Key
    <3>2. i = Len(N) <=> N[i].from = "assistant"
      BY <1>4, <1>6, <2>4, <2>5
    <3>3. j = Len(N) <=> N[j].from = "assistant"
      BY <1>4, <1>6, <2>4, <2>5
    <3>4. i # Len(N) => i = n + 1
      BY <2>4
    <3>5. j # Len(N) => j = n + 1
      BY <2>4
    <3> QED
      BY <3>1, <3>2, <3>3, <3>4, <3>5
  <2>8. \A i \in (n + 1)..Len(N) : N[i].from = "assistant" => N[i] = m
    BY <2>4, <2>5
  <2> QED
    BY <1>1, <1>4, <1>6, <1>8, <2>1, <2>2, <2>3, <2>6, <2>7, <2>8 DEF MadeFrom
<1>10. /\ Distinct' /\ Texts(messages)' /\ Messages' /\ FinalKept
       /\ \A i \in 1..n : request[N[i].id] # "unsent"
  <2>1. disturbed \cup Unrendered \subseteq disturbed'
    BY <1>2
  <2> QED
    BY <1>1, <1>5, <1>7, <1>9, <2>1, MadeMessages
<1>11. ListTypes' /\ Lag' /\ Texts(shown)'
  BY <1>1, <1>5, <1>6, <1>10 DEF ListTypes, Lag, Texts
<1>12. Sent'
  <2>1. ASSUME NEW i \in DOMAIN N PROVE request'[N[i].id] # "unsent"
    <3>1. CASE i \in 1..n
      <4>1. N[i].id # q
        BY <1>1, <1>10, <3>1
      <4>2. N[i].id \in Requests
        <5>1. N[i] \in Message
          BY <1>6
        <5> QED
          BY <5>1 DEF Message
      <4> QED
        BY <1>7, <1>10, <3>1, <4>1, <4>2
    <3>2. CASE i \in (n + 1)..Len(N)
      BY <1>8, <1>9, <3>2 DEF MadeFrom
    <3> QED
      BY <1>1, <1>6, <3>1, <3>2
  <2>2. \A r \in Requests : request'[r] = "unsent" => r # q /\ request[r] = "unsent"
    BY <1>7, <1>8
  <2>3. source' \in {source, q, None}
    BY <1>3
  <2>4. \A r \in Requests : request'[r] = "unsent" => source' # r
    BY <2>2, <2>3, ChatAssumption DEF ChatInv, ListInv, Sent
  <2> QED
    BY <1>1, <1>5, <2>1, <2>2, <2>4 DEF ChatInv, ListInv, Sent
<1>13. \A r \in Open' \ disturbed' : r = q
  <2>1. Open' \subseteq Open \cup {q}
    BY <1>7 DEF Open
  <2> QED
    BY <1>2, <2>1
<1>14. ~streaming => source = None
  BY DEF ChatInv, ListInv, Mode
<1>15. AtEnd'
  <2>1. \A r \in Requests : source' = r => r = q
    BY <1>3, <1>14, ChatAssumption
  <2>2. Key(Last(N)) = <<"assistant", q>>
    BY <1>4, <1>6 DEF Key
  <2> QED
    BY <1>5, <1>6, <1>13, <2>1, <2>2 DEF AtEnd, Key
<1>16. Coming'
  <2> SUFFICES ASSUME NEW r \in Open' \ disturbed'
               PROVE  /\ m.status \in Unfinished
                      /\ request'[r] = "stream" =>
                            /\ ~ended' /\ Range(m.text) \subseteq {m.id}
                            /\ Len(m.text) = sent'[r]
    BY <1>5, <1>6 DEF Coming, Pure
  <2>1. r = q /\ f \in {"stream", "plain"}
    BY <1>8, <1>13 DEF Open
  <2>2. m = a /\ (f = "stream" => ~ended')
    BY <1>3, <2>1
  <2>3. m.status = "loading"
    BY <2>2 DEF a, createLoadingAssistantMessage
  <2>4. Range(m.text) = {} /\ Len(m.text) = 0
    BY <1>4 DEF Range
  <2> QED
    BY <1>1, <1>8, <2>1, <2>2, <2>3, <2>4 DEF Unfinished
<1>17. Mode'
  <2>1. Mode
    BY DEF ChatInv, ListInv
  <2>2. CASE streaming
    <3>1. \A r \in Requests : request'[r] # "plain"
      BY <1>3, <1>7, <1>8, <2>1, <2>2 DEF Mode
    <3> QED
      BY <1>1, <1>5, <2>2, <3>1 DEF Mode
  <2>3. CASE ~streaming
    <3>1. source' = None /\ \A r \in Requests : request'[r] # "stream"
      BY <1>3, <1>7, <1>8, <2>1, <2>3 DEF Mode
    <3> QED
      BY <1>1, <1>5, <2>3, <3>1 DEF Mode
  <2> QED
    BY <2>2, <2>3
<1> QED
  BY <1>10, <1>11, <1>12, <1>15, <1>16, <1>17 DEF ListInv

LEMMA EditedShown ==
    ASSUME ChatInv
    PROVE  /\ EditedList \in Seq(Message) /\ Len(EditedList) = Len(shown)
           /\ \A i \in 1..Len(shown) :
                 EditedList[i] = shown[i] \/ Edits(EditedList[i], shown[i])
<1>1. shown \in Seq(Message) /\ DOMAIN shown = 1..Len(shown) /\ Len(shown) \in Nat
  BY DEF ChatInv, ListInv, ListTypes
<1>2. ASSUME NEW i \in DOMAIN shown
      PROVE  /\ Edited(shown[i]) \in Message
             /\ Edited(shown[i]) = shown[i] \/ Edits(Edited(shown[i]), shown[i])
  <2>1. shown[i] \in Message
    BY <1>1
  <2>2. <<"user">> \in Seq(Requests \cup {"user"})
    OBVIOUS
  <2>3. Now(shown[i], shown[i].status, <<"user">>) \in Message
    BY <2>1, <2>2 DEF Now, Message
  <2>4. Edits(Now(shown[i], shown[i].status, <<"user">>), shown[i])
    BY DEF Edits, Now, Key
  <2> QED
    BY <2>1, <2>3, <2>4 DEF Edited
<1>3. \A i \in 1..Len(shown) : EditedList[i] = Edited(shown[i])
  BY <1>1 DEF EditedList
<1>4. EditedList \in [1..Len(shown) -> Message]
  BY <1>1, <1>2 DEF EditedList
<1>5. EditedList \in Seq(Message) /\ Len(EditedList) = Len(shown)
  BY <1>1, <1>4
<1> QED
  BY <1>1, <1>2, <1>3, <1>5

LEMMA UserSends ==
    ASSUME ChatInv, NEW q \in Requests,
           Submit(q) \/ Suggest(q) \/ Regenerate(q) \/ SubmitEdit(q)
    PROVE  ListInv' /\ FinalKept
<1>1. shown \in Seq(Message) /\ Len(shown) \in Nat /\ DOMAIN shown = 1..Len(shown)
  BY DEF ChatInv, ListInv, ListTypes
<1>2. ASSUME handleSendMessage(q) PROVE ListInv' /\ FinalKept
  <2> DEFINE list == Append(shown, createUserMessage(q))
  <2>1. createUserMessage(q) \in Message
    <3>1. <<"user">> \in Seq(Requests \cup {"user"}) /\ "typed" \in Status
      BY DEF Status
    <3> QED
      BY <3>1 DEF createUserMessage, Message
  <2>2. SendsAfter(list, Len(shown), q)
    <3>1. PICK u \in Message : u = createUserMessage(q)
      BY <2>1
    <3>2. /\ Append(shown, u) \in Seq(Message) /\ Len(Append(shown, u)) = Len(shown) + 1
          /\ Append(shown, u)[Len(shown) + 1] = u
          /\ \A i \in 1..Len(shown) : Append(shown, u)[i] = shown[i]
      BY <1>1
    <3>3. list = Append(shown, u)
      BY <3>1
    <3> HIDE DEF list
    <3>4. /\ list \in Seq(Message) /\ Len(list) = Len(shown) + 1
          /\ list[Len(shown) + 1] = createUserMessage(q)
          /\ \A i \in 1..Len(shown) : list[i] = shown[i]
      BY <3>1, <3>2, <3>3
    <3>5. Len(shown) \in 0..Len(shown)
      BY <1>1
    <3> QED
      BY <3>4, <3>5 DEF SendsAfter
  <2> QED
    BY <1>2, <2>2, SendStep DEF handleSendMessage
<1>3. ASSUME Regenerate(q) PROVE ListInv' /\ FinalKept
  <2>1. PICK i \in DOMAIN shown : Send(q, SubSeq(shown, 1, i - 1))
    BY <1>3 DEF Regenerate
  <2> DEFINE list == SubSeq(shown, 1, i - 1)
  <2>2. /\ list \in Seq(Message) /\ Len(list) = i - 1 /\ i - 1 \in 0..Len(shown)
        /\ \A j \in 1..(i - 1) : list[j] = shown[j]
    BY <1>1
  <2>3. SendsAfter(list, i - 1, q)
    BY <2>2 DEF SendsAfter
  <2> QED
    BY <2>1, <2>3, SendStep
<1>4. ASSUME SubmitEdit(q) PROVE ListInv' /\ FinalKept
  <2>1. PICK i \in DOMAIN shown : Send(q, SubSeq(EditedList, 1, i))
    BY <1>4 DEF SubmitEdit
  <2>2. PICK E : E = EditedList
    OBVIOUS
  <2>3. /\ E \in Seq(Message) /\ Len(E) = Len(shown)
        /\ \A j \in 1..Len(shown) : E[j] = shown[j] \/ Edits(E[j], shown[j])
    BY <2>2, EditedShown
  <2> DEFINE list == SubSeq(E, 1, i)
  <2>4. /\ list \in Seq(Message) /\ Len(list) = i /\ i \in 0..Len(shown)
        /\ \A j \in 1..i : list[j] = E[j] /\ j \in 1..Len(shown)
    BY <1>1, <2>3
  <2>5. SendsAfter(list, i, q)
    BY <2>3, <2>4 DEF SendsAfter
  <2> QED
    BY <2>1, <2>2, <2>5, SendStep
<1> QED
  BY <1>2, <1>3, <1>4 DEF Submit, Suggest

(* Steps that show a list of messages that were there, and send nothing.    *)
LEMMA RewriteStep ==
    ASSUME ChatInv, NEW N, NEW n, NEW g, NEW q \in Requests, MadeFrom(N, n, g, q),
           Len(N) = n, here, UNCHANGED <<netVars, pageVars>>, ShowList(N), Disturb({}),
           source = None \/ (N # <<>> /\ Len(N) = Len(shown) /\ g[Len(N)] = Len(N))
    PROVE  ListInv' /\ FinalKept
<1>1. /\ messages' = N /\ shown' = N /\ dirty' = FALSE /\ (busy' <=> source # None)
      /\ UNCHANGED <<source, ended, request, sent, streaming, here>>
  BY DEF ShowList, netVars, pageVars
<1>2. disturbed \cup Unrendered \cup Open \subseteq disturbed'
  BY OpenIsAnswering DEF ChatInv, Disturb
<1>3. /\ Distinct' /\ Texts(messages)' /\ Messages' /\ FinalKept
      /\ \A i \in 1..n : request[N[i].id] # "unsent"
  BY <1>1, <1>2, MadeMessages
<1>4. N \in Seq(Message) /\ DOMAIN N = 1..n
  BY DEF MadeFrom
<1>5. ListTypes' /\ Lag' /\ Texts(shown)'
  BY <1>1, <1>3, <1>4 DEF ChatInv, ListInv, ListTypes, Lag, Texts
<1>6. Sent'
  BY <1>1, <1>3, <1>4 DEF ChatInv, ListInv, Sent
<1>7. Open' = Open /\ Open' \ disturbed' = {}
  BY <1>1, <1>2 DEF Open
<1>8. AtEnd'
  <2> SUFFICES ASSUME NEW r \in Requests \ disturbed', source = r
               PROVE  N # <<>> /\ Key(Last(N)) = <<"assistant", r>>
    BY <1>1, <1>7 DEF AtEnd, Key
  <2>1. N # <<>> /\ Len(N) = Len(shown) /\ g[Len(N)] = Len(N)
    BY ChatAssumption
  <2>2. Last(N) = N[Len(N)] /\ Len(N) \in 1..n
    BY <1>4, <2>1, LastOne
  <2>3. Key(N[Len(N)]) = Key(shown[Len(N)])
    BY <2>1, <2>2 DEF MadeFrom, Edits
  <2>4. Len(N) \in DOMAIN shown
    BY <2>1, <2>2 DEF MadeFrom
  <2>5. Key(shown[Len(N)]) = Key(messages[Len(N)]) /\ Len(N) = Len(messages) /\ messages # <<>>
    <3>1. Key(shown[Len(N)]) = Key(messages[Len(N)]) /\ Len(N) \in DOMAIN messages
      BY <2>4, SameUndisturbed
    <3>2. Len(messages) = Len(shown)
      BY DEF ChatInv, ListInv, Lag
    <3> QED
      BY <2>1, <3>1, <3>2
  <2>6. Key(Last(messages)) = <<"assistant", r>>
    BY <1>2 DEF ChatInv, ListInv, AtEnd
  <2> QED
    BY <2>1, <2>2, <2>3, <2>5, <2>6 DEF Last
<1>9. Coming'
  BY <1>7 DEF Coming
<1>10. Mode'
  <2>1. Mode
    BY DEF ChatInv, ListInv
  <2> QED
    BY <1>1, <2>1 DEF Mode
<1> QED
  BY <1>3, <1>5, <1>6, <1>8, <1>9, <1>10 DEF ListInv

LEMMA SaveEditStep ==
    ASSUME ChatInv, SaveEdit
    PROVE  ListInv' /\ FinalKept
<1>1. PICK i \in DOMAIN shown : Key(shown[i]) = editing
  BY DEF SaveEdit
<1>2. PICK N : N = EditedList
  OBVIOUS
<1>3. /\ N \in Seq(Message) /\ Len(N) = Len(shown)
      /\ \A j \in 1..Len(shown) : N[j] = shown[j] \/ Edits(N[j], shown[j])
  BY <1>2, EditedShown
<1>4. shown \in Seq(Message) /\ Len(shown) \in Nat /\ DOMAIN shown = 1..Len(shown)
  BY DEF ChatInv, ListInv, ListTypes
<1>5. PICK q : q \in Requests /\ q = shown[i].id
  <2>1. shown[i] \in Message
    BY <1>1, <1>4
  <2> QED
    BY <2>1 DEF Message
<1>6. PICK g : g = [j \in 1..Len(shown) |-> j]
  OBVIOUS
<1>7. MadeFrom(N, Len(shown), g, q)
  BY <1>3, <1>4, <1>6 DEF MadeFrom
<1>8. N # <<>> /\ g[Len(N)] = Len(N)
  BY <1>1, <1>3, <1>4, <1>6
<1>9. here /\ UNCHANGED <<netVars, pageVars>> /\ ShowList(N) /\ Disturb({})
  BY <1>2 DEF SaveEdit
<1> QED
  BY <1>3, <1>5, <1>7, <1>8, <1>9, RewriteStep

LEMMA DeleteStep ==
    ASSUME ChatInv, Delete
    PROVE  ListInv' /\ FinalKept
<1>1. PICK i \in DOMAIN shown : ShowList(RemoveAt(shown, i))
  BY DEF Delete
<1>2. shown \in Seq(Message) /\ Len(shown) \in Nat /\ DOMAIN shown = 1..Len(shown)
  BY DEF ChatInv, ListInv, ListTypes
<1>3. PICK N : N = RemoveAt(shown, i)
  OBVIOUS
<1>4. PICK g : g = [j \in 1..(Len(shown) - 1) |-> IF j < i THEN j ELSE j + 1]
  OBVIOUS
<1>5. PICK q : q \in Requests /\ q = shown[i].id
  <2>1. shown[i] \in Message
    BY <1>1, <1>2
  <2> QED
    BY <2>1 DEF Message
<1>6. /\ N \in Seq(Message) /\ Len(N) = Len(shown) - 1
      /\ \A j \in 1..(Len(shown) - 1) : N[j] = shown[g[j]] /\ g[j] \in DOMAIN shown
  <2> DEFINE A == SubSeq(shown, 1, i - 1)
             B == SubSeq(shown, i + 1, Len(shown))
  <2>1. N = A \o B
    BY <1>3 DEF RemoveAt
  <2>2. /\ A \in Seq(Message) /\ Len(A) = i - 1 /\ \A j \in 1..(i - 1) : A[j] = shown[j]
    BY <1>2
  <2>3. /\ B \in Seq(Message) /\ Len(B) = Len(shown) - i
        /\ \A j \in 1..(Len(shown) - i) : B[j] = shown[i + j]
    BY <1>2
  <2> HIDE DEF A, B
  <2>0. i - 1 \in Nat /\ Len(shown) - i \in Nat
    BY <1>1, <1>2
  <2>4. N \in Seq(Message) /\ Len(N) = Len(shown) - 1
    <3>1. N \in Seq(Message) /\ Len(N) = Len(A) + Len(B)
      BY <2>1, <2>2, <2>3, ConcatProperties
    <3> QED
      BY <1>2, <2>0, <2>2, <2>3, <3>1
  <2>5. ASSUME NEW j \in 1..(Len(shown) - 1) PROVE N[j] = shown[g[j]] /\ g[j] \in DOMAIN shown
    <3>1. CASE j < i
      BY <1>2, <1>4, <2>1, <2>2, <2>3, <3>1
    <3>2. CASE ~(j < i)
      <4>1. N[j] = B[j - (i - 1)] /\ j - (i - 1) \in 1..(Len(shown) - i)
        <5>1. j - (i - 1) \in 1..(Len(shown) - i) /\ j \in 1..(Len(A) + Len(B)) /\ j > Len(A)
          BY <1>2, <2>0, <2>2, <2>3, <3>2
        <5>2. (A \o B)[j] = B[j - Len(A)]
          <6>1. ~(j <= Len(A))
            BY <1>2, <2>0, <2>2, <5>1
          <6> QED
            BY <2>2, <2>3, <5>1, <6>1, ConcatProperties
        <5> QED
          BY <2>1, <2>2, <5>1, <5>2
      <4>2. B[j - (i - 1)] = shown[j + 1]
        BY <1>2, <2>3, <4>1
      <4>3. g[j] = j + 1
        BY <1>4, <3>2
      <4> QED
        BY <1>2, <4>1, <4>2, <4>3
    <3> QED
      BY <3>1, <3>2
  <2> QED
    BY <2>4, <2>5
<1>7. MadeFrom(N, Len(shown) - 1, g, q)
  <2>1. g \in [1..(Len(shown) - 1) -> DOMAIN shown]
    BY <1>4, <1>6
  <2>2. \A j, l \in 1..(Len(shown) - 1) : g[j] = g[l] => j = l
    BY <1>2, <1>4
  <2>3. Len(shown) - 1 \in 0..Len(N) /\ (Len(shown) - 1 + 1)..Len(N) = {}
    BY <1>1, <1>2, <1>6
  <2> QED
    BY <1>6, <2>1, <2>2, <2>3 DEF MadeFrom
<1>8. here /\ ~busy /\ UNCHANGED <<netVars, pageVars>> /\ ShowList(N) /\ Disturb({})
  BY <1>1, <1>3 DEF Delete
<1>9. source = None
  BY <1>8 DEF ChatInv, ListInv, Mode
<1> QED
  BY <1>5, <1>6, <1>7, <1>8, <1>9, RewriteStep

(* What may happen to the list when the user stops a stream, leaves the     *)
(* page or returns to it: every message stays where it is; one that is not  *)
(* disturbed is kept, completed, or made an error.                          *)
Keeps(N) ==
    /\ N \in Seq(Message) /\ Len(N) = Len(messages)
    /\ \A i \in DOMAIN messages :
          /\ Key(N[i]) = Key(messages[i])
          /\ \/ N[i].text = <<>>
             \/ N[i].text \in {messages[i].text, shown[i].text}
          /\ messages[i].id \notin disturbed' =>
                \/ N[i] = messages[i]
                \/ /\ messages[i].status \in Unfinished
                   /\ N[i] = Completed(messages[i]) \/ N[i].status = "error"

LEMMA KeptMessages ==
    ASSUME ChatInv, NEW N, Keeps(N), messages' = N, disturbed \subseteq disturbed',
           sent' = sent,
           \A r \in Requests : request'[r] \in {"done", "answered"} => request'[r] = request[r]
    PROVE  /\ N \in Seq(Message) /\ DOMAIN N = DOMAIN messages
           /\ \A i \in DOMAIN N : /\ N[i].id = messages[i].id /\ N[i].id \in Requests
                                  /\ N[i].from = messages[i].from
           /\ Distinct' /\ Texts(messages)' /\ FinalKept
           /\ \A i \in DOMAIN N : WholeMsg(N[i])'
           /\ \A i \in DOMAIN N :
                 Own(N[i])' /\ N[i].status \in Unfinished =>
                     N[i] = messages[i] /\ Own(messages[i])
<1>1. /\ N \in Seq(Message) /\ messages \in Seq(Message) /\ DOMAIN N = DOMAIN messages
      /\ DOMAIN shown = DOMAIN messages
  BY DEF Keeps, ChatInv, ListInv, ListTypes, Lag
<1>2. ASSUME NEW i \in DOMAIN messages
      PROVE  /\ Key(N[i]) = Key(messages[i])
             /\ N[i].id = messages[i].id /\ N[i].id \in Requests /\ N[i].from = messages[i].from
             /\ messages[i] \in Message
  <2>1. messages[i] \in Message /\ Key(N[i]) = Key(messages[i])
    BY <1>1 DEF Keeps
  <2> QED
    BY <2>1 DEF Key, Message
<1>3. Distinct'
  BY <1>1, <1>2 DEF ChatInv, ListInv, Distinct
<1>4. Texts(messages)'
  <2> SUFFICES ASSUME NEW i \in DOMAIN messages, N[i].from = "assistant",
                      NEW r \in Range(N[i].text) \ {"user"}, r # N[i].id
               PROVE  r \in disturbed'
    BY <1>1 DEF Texts
  <2>1. CASE N[i].text = <<>>
    <3>1. Range(N[i].text) = {}
      BY <2>1 DEF Range
    <3> QED
      BY <3>1
  <2>2. CASE N[i].text = messages[i].text
    BY <1>2, <2>2 DEF ChatInv, ListInv, Texts
  <2>3. CASE N[i].text = shown[i].text
    <3>1. shown[i].id = messages[i].id /\ shown[i].from = messages[i].from
      BY <1>1, SameUndisturbed DEF Key
    <3> QED
      BY <1>1, <1>2, <2>3, <3>1 DEF ChatInv, ListInv, Texts
  <2> QED
    BY <2>1, <2>2, <2>3 DEF Keeps
<1>5. ASSUME NEW i \in DOMAIN messages, messages[i].id \notin disturbed'
      PROVE  \/ N[i] = messages[i]
             \/ /\ messages[i].status \in Unfinished /\ N[i].status \notin Unfinished
                /\ N[i].status = "error" \/ N[i].text = messages[i].text
  <2>1. Completed(messages[i]).text = messages[i].text
        /\ Completed(messages[i]).status \notin Unfinished
    BY DEF Completed, Now, Unfinished
  <2>2. "error" \notin Unfinished
    BY DEF Unfinished
  <2> QED
    BY <1>5, <2>1, <2>2 DEF Keeps
<1>6. FinalKept
  <2> SUFFICES ASSUME NEW i \in DOMAIN messages, NEW j \in DOMAIN messages,
                      Key(messages[i]) = Key(N[j]), messages[i].id \notin disturbed',
                      messages[i].status \in {"complete", "error"}
               PROVE  N[j].status = messages[i].status /\ N[j].text \in {messages[i].text, <<"user">>}
    BY <1>1 DEF FinalKept
  <2>1. i = j
    BY <1>2 DEF ChatInv, ListInv, Distinct
  <2> QED
    BY <1>5, <2>1 DEF Unfinished
<1>7. ASSUME NEW i \in DOMAIN messages PROVE WholeMsg(N[i])'
  <2> SUFFICES ASSUME Own(N[i])', request'[N[i].id] \in {"done", "answered"},
                      N[i].status = "complete", Pure(N[i])'
               PROVE  Len(N[i].text) = sent[N[i].id]
    BY DEF WholeMsg
  <2>1. WholeMsg(messages[i]) /\ SpinMsg(messages[i], i)
    BY DEF ChatInv, ListInv, Messages
  <2>2. Own(messages[i]) /\ request[messages[i].id] \in {"done", "answered"}
        /\ messages[i].id \notin disturbed'
    BY <1>2 DEF Own
  <2>3. N[i] = messages[i] \/ (messages[i].status \in Unfinished /\ N[i].text = messages[i].text)
    BY <1>5, <2>2
  <2>4. Pure(messages[i])
    BY <1>2, <2>3 DEF Pure
  <2>5. messages[i].status \notin Unfinished
    BY <2>1, <2>2, <2>4 DEF SpinMsg
  <2> QED
    BY <2>1, <2>2, <2>3, <2>4, <2>5 DEF WholeMsg
<1>8. ASSUME NEW i \in DOMAIN messages, Own(N[i])', N[i].status \in Unfinished
      PROVE  N[i] = messages[i] /\ Own(messages[i])
  BY <1>2, <1>5, <1>8 DEF Own
<1> QED
  BY <1>1, <1>2, <1>3, <1>4, <1>6, <1>7, <1>8

LEMMA StopStream ==
    ASSUME ChatInv, Stop
    PROVE  ListInv' /\ FinalKept
<1>1. /\ request' = [q \in Requests |-> IF q \in ClosedByStop THEN "stopped" ELSE request[q]]
      /\ busy /\ source' = None /\ UNCHANGED <<ended, sent, streaming, here, disturbed>>
  BY DEF Stop, pageVars
<1>2. messages \in Seq(Message) /\ shown \in Seq(Message) /\ request \in [Requests -> Fate]
  BY DEF ChatInv, StopInv, ListInv, ListTypes
<1>3. streaming /\ \A q \in Requests : request[q] # "plain"
  BY <1>1 DEF ChatInv, ListInv, Mode
<1>4. Open' \ disturbed' = {}
  BY <1>1, <1>3 DEF ChatInv, StopInv, Held, Open, ClosedByStop
<1> DEFINE T == [messages EXCEPT ![Len(messages)] = Completed(Last(messages))]
<1>5. \/ /\ HasTarget /\ messages' = T /\ shown' = T /\ dirty' = FALSE /\ busy' = FALSE
      \/ /\ ~HasTarget /\ messages' = messages /\ dirty' = dirty
         /\ \/ dirty /\ shown' = messages /\ busy' = FALSE
            \/ ~dirty /\ shown' = shown /\ busy' = busy
  <2>1. CASE HasTarget
    <3>1. ShowList(T)
      BY <2>1 DEF Stop, Current
    <3> QED
      BY <1>1, <2>1, <3>1 DEF ShowList
  <2>2. CASE ~HasTarget
    BY <2>2 DEF Stop
  <2> QED
    BY <2>1, <2>2
<1>6. HasTarget => messages # <<>> /\ Last(messages) = messages[Len(messages)]
                   /\ Last(messages) \in Message
  BY <1>2, LastOne DEF HasTarget, Current
<1>7. HasTarget => /\ T \in Seq(Message) /\ Len(T) = Len(messages)
                   /\ T[Len(messages)] = Completed(messages[Len(messages)])
                   /\ \A i \in DOMAIN messages : i # Len(messages) => T[i] = messages[i]
  <2> SUFFICES ASSUME HasTarget
               PROVE  /\ T \in Seq(Message) /\ Len(T) = Len(messages)
                      /\ T[Len(messages)] = Completed(messages[Len(messages)])
                      /\ \A i \in DOMAIN messages : i # Len(messages) => T[i] = messages[i]
    OBVIOUS
  <2>1. PICK q \in Requests : TRUE
    BY <1>6 DEF Message
  <2>2. PICK m \in Message : m = Completed(Last(messages))
    BY <1>6, <2>1, Forms
  <2>3. Replaces(messages, m, T)
    BY <1>6, <2>2 DEF Replaces
  <2> HIDE DEF T
  <2> QED
    BY <1>2, <1>6, <2>2, <2>3, Replaced
<1> HIDE DEF T
<1>8. Keeps(messages')
  <2>1. CASE HasTarget
    <3>1. messages' = T
      BY <1>5, <2>1
    <3>2. ASSUME NEW i \in DOMAIN messages
          PROVE  /\ Key(T[i]) = Key(messages[i]) /\ T[i].text = messages[i].text
                 /\ \/ T[i] = messages[i]
                    \/ messages[i].status \in Unfinished /\ T[i] = Completed(messages[i])
      <4>1. messages[i] \in Message
        BY <1>2
      <4>2. T[i] = messages[i] \/ T[i] = Completed(messages[i])
        BY <1>7, <2>1
      <4>3. Key(Completed(messages[i])) = Key(messages[i])
            /\ Completed(messages[i]).text = messages[i].text
        BY DEF Completed, Now, Key
      <4>4. messages[i].status \notin Unfinished => Completed(messages[i]) = messages[i]
        BY <4>1 DEF Completed, Now, Message
      <4> QED
        BY <4>2, <4>3, <4>4
    <3> QED
      BY <1>7, <2>1, <3>1, <3>2 DEF Keeps
  <2>2. CASE ~HasTarget
    BY <1>2, <1>5, <2>2 DEF Keeps
  <2> QED
    BY <2>1, <2>2
<1>9. \A r \in Requests : request'[r] \in {"done", "answered"} => request'[r] = request[r]
  BY <1>1
<1>10. PICK N : N = messages'
  OBVIOUS
<1>11. /\ N \in Seq(Message) /\ DOMAIN N = DOMAIN messages
       /\ \A i \in DOMAIN N : /\ N[i].id = messages[i].id /\ N[i].id \in Requests
                              /\ N[i].from = messages[i].from
       /\ Distinct' /\ Texts(messages)' /\ FinalKept
       /\ \A i \in DOMAIN N : WholeMsg(N[i])'
       /\ \A i \in DOMAIN N :
             Own(N[i])' /\ N[i].status \in Unfinished =>
                 N[i] = messages[i] /\ Own(messages[i])
  BY <1>1, <1>8, <1>9, <1>10, KeptMessages
<1>12. ListTypes' /\ Lag' /\ Texts(shown)'
  <2>1. messages' \in Seq(Message) /\ sent' = sent /\ disturbed' = disturbed
    BY <1>1, <1>10, <1>11
  <2>2. CASE shown' = messages' /\ dirty' = FALSE
    BY <1>11, <2>1, <2>2 DEF ChatInv, ListInv, ListTypes, Lag, Texts
  <2>3. CASE UNCHANGED <<messages, shown, dirty>>
    BY <2>1, <2>3 DEF ChatInv, ListInv, ListTypes, Lag, Texts
  <2>4. CASE messages' = messages /\ dirty' = dirty /\ shown' = messages
    BY <1>11, <2>1, <2>4 DEF ChatInv, ListInv, ListTypes, Lag, Texts
  <2> QED
    BY <1>5, <2>2, <2>3, <2>4
<1>13. Sent'
  <2>1. \A i \in DOMAIN N : request[N[i].id] # "unsent" /\ N[i].id \in Requests
    BY <1>11 DEF ChatInv, ListInv, Sent
  <2>2. \A r \in Requests : request'[r] = "unsent" => request[r] = "unsent"
    BY <1>1
  <2> QED
    BY <1>1, <1>10, <1>11, <2>1, <2>2, ChatAssumption DEF ChatInv, ListInv, Sent
<1>14. AtEnd' /\ Coming'
  BY <1>1, <1>4, ChatAssumption DEF AtEnd, Coming
<1>15. Messages'
  <2> SUFFICES ASSUME NEW i \in DOMAIN N, Own(N[i])', Pure(N[i])', N[i].status \in Unfinished
               PROVE  SpinMsg(N[i], i)'
    BY <1>10, <1>11 DEF Messages, SpinMsg
  <2>1. N[i] = messages[i] /\ Own(messages[i]) /\ i \in DOMAIN messages /\ messages[i].id \in Requests
    BY <1>11
  <2>2. SpinMsg(messages[i], i) /\ Pure(messages[i])
    BY <2>1 DEF ChatInv, ListInv, Messages, Pure
  <2>3. source # messages[i].id
    <3> SUFFICES ASSUME source = messages[i].id PROVE FALSE
      OBVIOUS
    <3>1. i = Len(messages)
      BY <2>1, OnlyLast
    <3>2. HasTarget
      BY <2>1, <3>1 DEF Own, HasTarget, Current, Last
    <3>3. N[i] = Completed(messages[i])
      BY <1>5, <1>7, <1>10, <3>1, <3>2
    <3>4. N[i].status \notin Unfinished
      BY <3>3 DEF Completed, Now, Unfinished
    <3> QED
      BY <3>4
  <2>4. request'[messages[i].id] = request[messages[i].id]
    BY <1>1, <2>1, <2>3 DEF ClosedByStop
  <2>5. Len(messages') = Len(messages) /\ here' = here
    BY <1>1, <1>2, <1>10, <1>11
  <2> QED
    BY <2>1, <2>2, <2>4, <2>5 DEF SpinMsg
<1>16. Mode'
  BY <1>1, <1>3 DEF Mode
<1> QED
  BY <1>11, <1>10, <1>12, <1>13, <1>14, <1>15, <1>16 DEF ListInv

(* The page goes: what is open ends, and the list is what was saved.        *)
LEMMA DropStep ==
    ASSUME ChatInv, NEW N, Keeps(N), messages' = N, shown' = N, Drop,
           \A i \in DOMAIN N :
              Own(N[i])' /\ N[i] = messages[i] /\ N[i].status \in Unfinished =>
                  ~here' \/ (i # Len(messages))
    PROVE  ListInv' /\ FinalKept
<1>1. /\ request' = [q \in Requests |-> IF q \in Open THEN "gone" ELSE request[q]]
      /\ source' = None /\ ~busy' /\ ~dirty' /\ busy' = FALSE /\ dirty' = FALSE
      /\ disturbed' = disturbed \cup Unrendered /\ UNCHANGED <<sent, streaming>>
      /\ messages \in Seq(Message)
  BY DEF Drop, ChatInv, ListInv, ListTypes
<1>2. \A r \in Requests : request'[r] \in {"done", "answered"} => request'[r] = request[r]
  BY <1>1
<1>3. /\ N \in Seq(Message) /\ DOMAIN N = DOMAIN messages
      /\ \A i \in DOMAIN N : /\ N[i].id = messages[i].id /\ N[i].id \in Requests
                             /\ N[i].from = messages[i].from
      /\ Distinct' /\ Texts(messages)' /\ FinalKept
      /\ \A i \in DOMAIN N : WholeMsg(N[i])'
      /\ \A i \in DOMAIN N :
            Own(N[i])' /\ N[i].status \in Unfinished =>
                N[i] = messages[i] /\ Own(messages[i])
  BY <1>1, <1>2, KeptMessages
<1>4. ListTypes' /\ Lag' /\ Texts(shown)'
  BY <1>1, <1>3 DEF ChatInv, ListInv, ListTypes, Lag, Texts
<1>5. Sent'
  <2>1. \A i \in DOMAIN N : request[N[i].id] # "unsent" /\ N[i].id \in Requests
    BY <1>3 DEF ChatInv, ListInv, Sent
  <2>2. \A r \in Requests : request'[r] = "unsent" <=> request[r] = "unsent"
    BY <1>1 DEF Open
  <2> QED
    BY <1>1, <2>1, <2>2, ChatAssumption DEF ChatInv, ListInv, Sent
<1>6. Open' = {} /\ \A r \in Requests : source' # r
  BY <1>1, ChatAssumption DEF Open
<1>7. AtEnd' /\ Coming'
  BY <1>6 DEF AtEnd, Coming
<1>8. Mode'
  <2>1. \A r \in Requests : request'[r] \notin {"stream", "plain"}
    BY <1>6 DEF Open
  <2> QED
    BY <1>1, <2>1 DEF Mode
<1>9. Messages'
  <2> SUFFICES ASSUME NEW i \in DOMAIN N, Own(N[i])', Pure(N[i])', N[i].status \in Unfinished
               PROVE  SpinMsg(N[i], i)'
    BY <1>3 DEF Messages, SpinMsg
  <2>1. /\ N[i] = messages[i] /\ Own(messages[i]) /\ i \in DOMAIN messages
        /\ messages[i].id \in Requests /\ (~here' \/ (i # Len(messages)))
    BY <1>3
  <2>2. SpinMsg(messages[i], i) /\ Pure(messages[i])
    BY <2>1 DEF ChatInv, ListInv, Messages, Pure
  <2>3. Len(messages') = Len(messages)
    BY DEF Keeps
  <2>4. CASE messages[i].id \in Open
    <3>1. i = Len(messages)
      BY <2>1, <2>4, OnlyLast
    <3> QED
      BY <1>1, <2>1, <2>3, <2>4, <3>1 DEF SpinMsg
  <2>5. CASE messages[i].id \notin Open
    <3>1. request'[messages[i].id] = request[messages[i].id]
      BY <1>1, <2>1, <2>5
    <3>2. \/ request[messages[i].id] \in {"truncated", "empty"}
          \/ request[messages[i].id] = "gone" /\ i = Len(messages)
      BY <2>1, <2>2, <2>5 DEF SpinMsg, Open
    <3> QED
      BY <2>1, <2>3, <3>1, <3>2 DEF SpinMsg
  <2> QED
    BY <2>4, <2>5
<1> QED
  BY <1>3, <1>4, <1>5, <1>7, <1>8, <1>9 DEF ListInv

LEMMA GoesAndReturns ==
    ASSUME ChatInv, Leave \/ Mount
    PROVE  ListInv' /\ FinalKept
<1>1. Drop /\ disturbed' = disturbed \cup Unrendered
  BY DEF Leave, Mount, Drop
<1>2. messages \in Seq(Message) /\ shown \in Seq(Message) /\ Len(shown) = Len(messages)
      /\ DOMAIN shown = DOMAIN messages
  BY DEF ChatInv, ListInv, ListTypes, Lag
<1>3. ASSUME NEW saved \in Saved
      PROVE  /\ saved \in Seq(Message) /\ Len(saved) = Len(messages) /\ DOMAIN saved = DOMAIN messages
             /\ \A i \in DOMAIN messages :
                   /\ Key(saved[i]) = Key(messages[i]) /\ saved[i] \in Message
                   /\ saved[i].text \in {messages[i].text, shown[i].text}
                   /\ messages[i].id \notin disturbed' => saved[i] = messages[i]
  <2>1. CASE saved = messages
    BY <1>2, <2>1
  <2>2. CASE saved = shown
    BY <1>1, <1>2, <2>2, SameUndisturbed
  <2> QED
    BY <2>1, <2>2 DEF Saved
<1>4. CASE Leave
  <2>1. PICK saved \in Saved : messages' = saved /\ shown' = saved
    BY <1>4 DEF Leave
  <2>2. here' = FALSE
    BY <1>4 DEF Leave
  <2>3. Keeps(saved)
    BY <1>3 DEF Keeps
  <2> QED
    BY <1>1, <2>1, <2>2, <2>3, DropStep
<1>5. CASE Mount
  <2>1. PICK saved \in Saved : messages' = Load(saved) /\ shown' = Load(saved)
    BY <1>5 DEF Mount
  <2>2. PICK N : N = Load(saved)
    OBVIOUS
  <2>3. DOMAIN N = DOMAIN saved /\ Len(messages) \in Nat /\ DOMAIN saved = 1..Len(messages)
    BY <1>2, <1>3, <2>2 DEF Load
  <2>4. ASSUME NEW i \in DOMAIN saved
        PROVE  \/ /\ N[i] = saved[i]
                  /\ i \in Interrupted(saved) => \E j \in Interrupted(saved) : ~(j <= i)
               \/ N[i] = Settled(saved[i]) /\ i \in Interrupted(saved)
    BY <2>2 DEF Load
  <2>5. ASSUME NEW i \in DOMAIN saved
        PROVE  /\ N[i] \in Message /\ Key(N[i]) = Key(saved[i])
               /\ N[i].text = <<>> \/ N[i].text = saved[i].text
               /\ \/ N[i] = saved[i]
                  \/ /\ saved[i].status \in Unfinished
                     /\ N[i] = Completed(saved[i]) \/ N[i].status = "error"
    <3>1. saved[i] \in Message
      BY <1>3
    <3>2. PICK q \in Requests : TRUE
      BY <3>1 DEF Message
    <3>3. /\ Completed(saved[i]) \in Message /\ Key(Completed(saved[i])) = Key(saved[i])
          /\ Completed(saved[i]).text = saved[i].text
          /\ Erroneous(saved[i]) \in Message /\ Key(Erroneous(saved[i])) = Key(saved[i])
          /\ Erroneous(saved[i]).status = "error"
      BY <3>1, <3>2, Forms
    <3>4. Erroneous(saved[i]).text = <<>>
      BY DEF Erroneous, Now
    <3>5. Settled(saved[i]) \in {Completed(saved[i]), Erroneous(saved[i])}
      BY DEF Settled
    <3> QED
      BY <2>4, <3>1, <3>3, <3>4, <3>5 DEF Interrupted
  <2>6. N \in Seq(Message) /\ Len(N) = Len(messages)
    <3>1. N \in [1..Len(messages) -> Message]
      BY <2>2, <2>3, <2>5 DEF Load
    <3> QED
      BY <2>3, <3>1
  <2>7. Keeps(N)
    BY <1>3, <2>5, <2>6 DEF Keeps
  <2>8. ASSUME NEW i \in DOMAIN N, Own(N[i])', N[i] = messages[i], N[i].status \in Unfinished
        PROVE  i # Len(messages)
    <3>1. i \in DOMAIN saved /\ saved[i] = messages[i]
      BY <1>3, <2>3, <2>8 DEF Own
    <3>2. i \in Interrupted(saved)
      BY <2>8, <3>1 DEF Interrupted, Own
    <3>3. N[i] # Settled(saved[i])
      <4>1. Settled(saved[i]).status \notin Unfinished
        BY DEF Settled, Erroneous, Completed, Now, Unfinished
      <4> QED
        BY <2>8, <4>1
    <3>4. PICK j \in Interrupted(saved) : ~(j <= i)
      BY <2>4, <3>1, <3>2, <3>3
    <3>5. j \in 1..Len(messages) /\ i \in 1..Len(messages)
      BY <2>3, <3>1 DEF Interrupted
    <3> QED
      BY <2>3, <3>4, <3>5
  <2> QED
    BY <1>1, <2>1, <2>2, <2>7, <2>8, DropStep
<1> QED
  BY <1>4, <1>5

LEMMA ChatStep ==
    ASSUME ChatInv, [Next]_vars
    PROVE  ListInv' /\ FinalKept
<1>1. ASSUME NEW q \in Requests, Chunk(q) \/ Done(q) \/ Fails(q) \/ Truncated(q) \/ Answer(q)
      PROVE  ListInv' /\ FinalKept
  BY <1>1, AnswerStep
<1>2. ASSUME NEW q \in Requests, Submit(q) \/ Suggest(q) \/ Regenerate(q) \/ SubmitEdit(q)
      PROVE  ListInv' /\ FinalKept
  BY <1>2, UserSends
<1> QED
  BY <1>1, <1>2, QuietStep, SaveEditStep, DeleteStep, StopStream, GoesAndReturns DEF Next

(* The invariant of the page: the list as it is and as it is rendered, the  *)
(* reference, and what has become of every request, for any number of       *)
(* requests, chunks and mounts and in every order of events and clicks.     *)
THEOREM ChatCorrect == Spec => []ChatInv
<1>1. Init => ChatInv
  <2> SUFFICES ASSUME Init PROVE ChatInv
    OBVIOUS
  <2>1. StopInv
    BY DEF Init, StopInv, Alone, Held, Open, Fate
  <2>2. /\ messages = <<>> /\ shown = <<>> /\ busy = FALSE /\ dirty = FALSE /\ source = None
        /\ request = [q \in Requests |-> "unsent"] /\ sent = [q \in Requests |-> 0]
        /\ DOMAIN messages = {} /\ DOMAIN shown = {} /\ Open = {}
    BY DEF Init, Open
  <2>3. ListTypes /\ Lag /\ Distinct
    <3>1. <<>> \in Seq(Message) /\ sent \in [Requests -> Nat]
      BY <2>2
    <3>2. ListTypes
      BY <2>2, <3>1 DEF ListTypes
    <3>3. Lag
      BY <2>2 DEF Lag
    <3>4. Distinct
      BY <2>2 DEF Distinct
    <3> QED
      BY <3>2, <3>3, <3>4
  <2>4. Sent /\ AtEnd /\ Coming /\ Mode
    BY <2>2, ChatAssumption DEF Sent, AtEnd, Coming, Mode
  <2>5. Texts(messages) /\ Texts(shown) /\ Messages
    BY <2>2 DEF Texts, Messages
  <2> QED
    BY <2>1, <2>3, <2>4, <2>5 DEF ChatInv, ListInv
<1>2. ChatInv /\ [Next]_vars => ChatInv'
  BY StopStep, ChatStep DEF ChatInv
<1> QED
  BY <1>1, <1>2, PTL DEF Spec

(* What is said of the messages of the list, of each of them.               *)
LEMMA InTheList ==
    ASSUME ChatInv, NEW m \in Answers
    PROVE  \E i \in DOMAIN messages : m = messages[i] /\ m.from = "assistant"
BY DEF Answers, Range

(* A stream that has ended, failed or been stopped never writes into the    *)
(* message that came after, unless the list was rewritten under it: what an *)
(* open, undisturbed request answers is the last message, and its own.      *)
THEOREM TextIsOwn == Spec => []OwnText
<1>1. ChatInv => OwnText
  BY InTheList DEF OwnText, ChatInv, ListInv, Texts
<1> QED
  BY <1>1, ChatCorrect, PTL

(* An answer that came to its end is shown with all its chunks, although    *)
(* the handlers see the list as it was last rendered: what they lose is in  *)
(* the last message, and they are counted as disturbing it.                 *)
THEOREM AnswersWhole == Spec => []AnswerWhole
<1>1. ChatInv => AnswerWhole
  BY InTheList DEF AnswerWhole, ChatInv, ListInv, Messages, WholeMsg, Own, Pure
<1> QED
  BY <1>1, ChatCorrect, PTL

(* However a request ends, by "[DONE]", an error, Stop, leaving the page or *)
(* a reload, its message leaves "loading" and "streaming"; what is left is  *)
(* the stream cut off in good order and the answer without a choice.        *)
THEOREM NoSpinner == Spec => []NoStuckSpinner
<1>1. ChatInv => NoStuckSpinner
  BY InTheList DEF NoStuckSpinner, ChatInv, ListInv, Messages, SpinMsg, Own, Pure
<1> QED
  BY <1>1, ChatCorrect, PTL

(* No late event changes a message that is complete or has failed, as long  *)
(* as no open request was disturbed: only the user's edit does.             *)
THEOREM FinalMessagesStay == Spec => FinalMessages
<1>1. ChatInv /\ [Next]_vars => [FinalKept]_vars
  BY ChatStep
<1> QED
  BY <1>1, ChatCorrect, PTL DEF Spec, FinalMessages, FinalKept

(* The types of what is not in the list.                                    *)
PageTypes ==
    /\ {busy, dirty, ended, streaming, here} \subseteq BOOLEAN
    /\ source \in Requests \cup {None}
    /\ sent \in [Requests -> 0..MaxChunks]
    /\ editing \in ({"user", "assistant"} \X Requests) \cup {None}
    /\ mounts \in 0..MaxMounts
    /\ disturbed \subseteq Requests /\ crossed \subseteq Requests

LEMMA PageTypesStep ==
    ASSUME ChatInv, PageTypes, [Next]_vars
    PROVE  PageTypes'
<1> USE DEF netVars, pageVars, listVars
<1>1. /\ messages \in Seq(Message) /\ shown \in Seq(Message) /\ request \in [Requests -> Fate]
      /\ dirty => messages # <<>>
      /\ sent \in [Requests -> 0..MaxChunks] /\ MaxChunks \in Nat \ {0} /\ MaxMounts \in Nat
  BY ChatAssumption DEF ChatInv, StopInv, ListInv, ListTypes, Lag, PageTypes
<1>2. Unrendered \subseteq Requests
  <2>1. messages # <<>> => Last(messages) \in Message
    BY <1>1, LastOne
  <2> QED
    BY <1>1, <2>1 DEF Unrendered, Message
<1>3. ASSUME NEW S, S \subseteq Requests, Disturb(S) PROVE disturbed' \subseteq Requests
  BY <1>2, <1>3 DEF Disturb, Answering, Open, PageTypes
<1>4. ASSUME NEW m, UpdateLast(m) PROVE dirty' \in BOOLEAN
  BY <1>4 DEF UpdateLast, PageTypes
<1>5. ASSUME NEW list, ShowList(list) PROVE dirty' \in BOOLEAN /\ busy' \in BOOLEAN
  BY <1>5 DEF ShowList
<1>6. ASSUME NEW q \in Requests, Chunk(q) PROVE PageTypes'
  <2>1. sent[q] + 1 \in 0..MaxChunks
    BY <1>1, <1>6 DEF Chunk
  <2>2. dirty' \in BOOLEAN
    BY <1>4, <1>6 DEF Chunk
  <2> QED
    BY <1>1, <1>6, <2>1, <2>2 DEF Chunk, PageTypes
<1>7. ASSUME NEW q \in Requests, Done(q) \/ Fails(q) \/ Truncated(q) PROVE PageTypes'
  <2>1. dirty' \in BOOLEAN
    BY <1>4, <1>7 DEF Done, Fails, Truncated, PageTypes
  <2> QED
    BY <1>7, <2>1 DEF Done, Fails, Truncated, SourceAfter, PageTypes
<1>8. ASSUME NEW q \in Requests, Answer(q) PROVE PageTypes'
  <2>1. dirty' \in BOOLEAN
    BY <1>4, <1>8 DEF Answer, PageTypes
  <2>2. sent' \in [Requests -> 0..MaxChunks]
    BY <1>1, <1>8 DEF Answer
  <2> QED
    BY <1>8, <2>1, <2>2 DEF Answer, PageTypes
<1>9. ASSUME NEW q \in Requests, NEW list, Send(q, list), editing' \in {editing, None}
      PROVE  PageTypes'
  <2>1. dirty' \in BOOLEAN /\ busy' \in BOOLEAN
    BY <1>5, <1>9 DEF Send
  <2>2. disturbed' \subseteq Requests /\ crossed' \subseteq Requests
    BY <1>3, <1>9 DEF Send, Cross, Streams, PageTypes
  <2>3. source' \in Requests \cup {None} /\ ended' \in BOOLEAN
    BY <1>9 DEF Send, PageTypes
  <2> QED
    BY <1>9, <2>1, <2>2, <2>3 DEF Send, PageTypes
<1>10. ASSUME NEW q \in Requests, Submit(q) \/ Suggest(q) \/ Regenerate(q) \/ SubmitEdit(q)
       PROVE  PageTypes'
  <2>1. (\E list : Send(q, list)) /\ editing' \in {editing, None}
    BY <1>10 DEF Submit, Suggest, handleSendMessage, Regenerate, SubmitEdit
  <2> QED
    BY <1>9, <2>1
<1>11. ASSUME Render \/ CancelEdit \/ UNCHANGED vars PROVE PageTypes'
  BY <1>11 DEF Render, CancelEdit, vars, PageTypes
<1>12. ASSUME Edit PROVE PageTypes'
  <2>1. PICK i \in DOMAIN shown : editing' = Key(shown[i])
    BY <1>12 DEF Edit
  <2>2. shown[i] \in Message
    BY <1>1, <2>1
  <2>3. editing' \in {"user", "assistant"} \X Requests
    BY <2>1, <2>2 DEF Key, Message
  <2> QED
    BY <1>12, <2>3 DEF Edit, PageTypes
<1>13. ASSUME SaveEdit \/ Delete PROVE PageTypes'
  <2>1. (\E list : ShowList(list)) /\ Disturb({}) /\ editing' \in {editing, None}
        /\ UNCHANGED <<netVars, pageVars>>
    BY <1>13 DEF SaveEdit, Delete
  <2>2. dirty' \in BOOLEAN /\ busy' \in BOOLEAN /\ disturbed' \subseteq Requests
    BY <1>3, <1>5, <2>1
  <2> QED
    BY <2>1, <2>2 DEF PageTypes
<1>14. ASSUME Stop PROVE PageTypes'
  <2>1. dirty' \in BOOLEAN /\ busy' \in BOOLEAN
    <3>1. CASE HasTarget
      BY <1>5, <1>14, <3>1 DEF Stop
    <3>2. CASE ~HasTarget
      BY <1>14, <3>2 DEF Stop, PageTypes
    <3> QED
      BY <3>1, <3>2
  <2> QED
    BY <1>14, <2>1 DEF Stop, PageTypes
<1>15. ASSUME Leave \/ Mount PROVE PageTypes'
  <2>1. here' \in BOOLEAN /\ mounts' \in 0..MaxMounts
    <3>1. CASE Leave
      BY <3>1 DEF Leave, PageTypes
    <3>2. CASE Mount
      <4>1. mounts \in 0..MaxMounts /\ mounts < MaxMounts /\ mounts' = mounts + 1 /\ here' = TRUE
        BY <3>2 DEF Mount, PageTypes
      <4> QED
        BY <1>1, <4>1
    <3> QED
      BY <1>15, <3>1, <3>2
  <2>2. disturbed' \subseteq Requests
    BY <1>2, <1>15 DEF Leave, Mount, Drop, PageTypes
  <2> QED
    BY <1>15, <2>1, <2>2 DEF Leave, Mount, Drop, PageTypes
<1> QED
  BY <1>6, <1>7, <1>8, <1>10, <1>11, <1>12, <1>13, <1>14, <1>15 DEF Next

(* Every variable keeps its type: what the handlers make of the list are    *)
(* lists of messages, and a stream brings no more than its chunks.          *)
THEOREM TypeCorrect == Spec => []TypeOK
<1>1. Init => PageTypes
  <2> SUFFICES ASSUME Init PROVE PageTypes
    OBVIOUS
  <2>1. busy = FALSE /\ dirty = FALSE /\ ended = FALSE /\ here = TRUE /\ streaming \in BOOLEAN
    BY DEF Init
  <2>2. {busy, dirty, ended, streaming, here} \subseteq BOOLEAN
    BY <2>1
  <2>3. /\ source = None /\ sent = [q \in Requests |-> 0] /\ editing = None /\ mounts = 0
        /\ disturbed = {} /\ crossed = {} /\ 0 \in 0..MaxChunks /\ 0 \in 0..MaxMounts
    BY ChatAssumption DEF Init
  <2> QED
    BY <2>2, <2>3 DEF PageTypes
<1>2. ChatInv /\ PageTypes /\ [Next]_vars => PageTypes'
  BY PageTypesStep
<1>3. ChatInv /\ PageTypes => TypeOK
  BY DEF ChatInv, StopInv, ListInv, ListTypes, PageTypes, TypeOK
<1> QED
  BY <1>1, <1>2, <1>3, ChatCorrect, PTL DEF Spec
=============================================================================
