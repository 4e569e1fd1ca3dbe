---------------------------- MODULE PlaygroundChat ----------------------------
(* The chat of the playground page (web/default/src/features/playground):   *)
(* a list of messages that React keeps as state and saves when it renders   *)
(* it, requests answered by a stream of events or in one piece, the one     *)
(* reference to a stream that Stop closes, and handlers that rewrite the    *)
(* list as it was last rendered while answers update it as it is.           *)
(*                                                                          *)
(* A user's action is rendered before the next event; an answer changes the *)
(* state first and is rendered later (Render), so what the handlers see may *)
(* lag behind it.  A request is meant for the assistant message of its id.  *)
EXTENDS Integers, FiniteSets, SequencesExt

CONSTANTS
    Requests,     \* requests, and the pairs of messages they create
    None,         \* no request, no message
    MaxChunks,    \* chunks of a stream
    MaxMounts     \* reloads of the page and returns to it

ASSUME ChatAssumption ==
    /\ IsFiniteSet(Requests) /\ None \notin Requests /\ "user" \notin Requests
    /\ MaxChunks \in Nat \ {0} /\ MaxMounts \in Nat

VARIABLES
    messages,     \* the list, every queued update applied
    shown,        \* the list as rendered, and as saved in localStorage
    busy,         \* isGenerating, as rendered
    dirty,        \* an update waits to be rendered
    source,       \* sseSourceRef.current
    ended,        \* isStreamCompleteRef.current, which all streams share
    request,      \* what has become of each request
    sent,         \* chunks each request has delivered
    editing,      \* editingMessageKey
    streaming,    \* config.stream
    here,         \* the page is mounted
    mounts,       \* how often it was mounted again
    disturbed,    \* history: requests during which the list was rewritten
    crossed       \* history: streams beside which another one was opened

listVars == <<messages, shown, busy, dirty>>
netVars == <<source, ended, request, sent, crossed>>
pageVars == <<streaming, here, mounts>>
vars == <<listVars, netVars, pageVars, editing, disturbed>>

Unfinished == {"loading", "streaming"}
Status == Unfinished \cup {"complete", "error", "typed"}
Fate == {"unsent", "stream", "plain", "done", "answered", "empty", "failed",
         "stopped", "truncated", "gone"}

(* A message; its text is the requests whose chunks it holds, in order, and *)
(* "user" for what the user has typed.                                      *)
Message == [from : {"user", "assistant"}, id : Requests, status : Status,
            text : Seq(Requests \cup {"user"})]
Key(m) == <<m.from, m.id>>
Now(m, status, text) == [from |-> m.from, id |-> m.id, status |-> status, text |-> text]

createUserMessage(q) ==
    [from |-> "user", id |-> q, status |-> "typed", text |-> <<"user">>]

createLoadingAssistantMessage(q) ==
    [from |-> "assistant", id |-> q, status |-> "loading", text |-> <<>>]

Streams == {q \in Requests : request[q] = "stream"}
Open == {q \in Requests : request[q] \in {"stream", "plain"}}

-----------------------------------------------------------------------------
(* Answers: functional updates of the last message.                         *)

\* Mutant: an answer updates the list its handler saw when it was rendered.
CurrentAsRendered == shown

(* The list an update starts from.                                          *)
Current == messages

HasTarget == Current # <<>> /\ Last(Current).from = "assistant"

(* updateLastAssistantMessage; a list it returns as it is, is not rendered. *)
UpdateLast(m) ==
    IF HasTarget
    THEN messages' = [Current EXCEPT ![Len(Current)] = m] /\ dirty' = TRUE
    ELSE UNCHANGED <<messages, dirty>>

\* Mutant: a message none of whose text has come is not completed.
CompletedOnceStreaming(m) ==
    Now(m, IF m.status = "streaming" THEN "complete" ELSE m.status, m.text)

(* handleStreamComplete and stopGeneration: a final status stays.           *)
Completed(m) == Now(m, IF m.status \in Unfinished THEN "complete" ELSE m.status, m.text)

(* updateAssistantMessageWithError: whatever the status is.                 *)
Erroneous(m) == Now(m, "error", <<>>)

(* handleStreamUpdate ignores a failed message, and a failed one only.      *)
Extended(m, q) ==
    IF m.status = "error" THEN m
    ELSE Now(m, "streaming", Append(m.text, q))

Chunk(q) ==
    /\ request[q] = "stream" /\ sent[q] < MaxChunks
    /\ sent' = [sent EXCEPT ![q] = @ + 1]
    /\ UpdateLast(Extended(Last(Current), q))
    /\ UNCHANGED <<shown, busy, source, ended, request, crossed, pageVars, editing, disturbed>>

(* closeSource clears the one reference, whichever stream it holds.         *)
SourceAfter == None

(* "[DONE]".                                                                *)
Done(q) ==
    /\ request[q] = "stream"
    /\ request' = [request EXCEPT ![q] = "done"]
    /\ source' = SourceAfter /\ ended' = TRUE
    /\ UpdateLast(Completed(Last(Current)))
    /\ UNCHANGED <<shown, busy, sent, crossed, pageVars, editing, disturbed>>

\* Mutant: an event that does not parse is reported, the stream goes on.
FateOfFailedOpen(q) == "stream"

FateOfFailed(q) == "failed"

(* handleError, for an event that does not parse, an error event or an HTTP *)
(* status: it does nothing once any stream has seen its "[DONE]".           *)
Fails(q) ==
    /\ request[q] = "stream"
    /\ request' = [request EXCEPT ![q] = FateOfFailed(q)]
    /\ IF ended THEN UNCHANGED <<source, messages, dirty>>
       ELSE source' = SourceAfter /\ UpdateLast(Erroneous(Last(Current)))
    /\ UNCHANGED <<shown, busy, ended, sent, crossed, pageVars, editing, disturbed>>

(* The connection is closed in good order without "[DONE]": sse.js reports  *)
(* no error, and no listener of the page looks.                             *)
Truncated(q) ==
    /\ request[q] = "stream"
    /\ request' = [request EXCEPT ![q] = "truncated"]
    /\ UNCHANGED <<listVars, source, ended, sent, crossed, pageVars, editing, disturbed>>

(* sendNonStreamingChat, after its await: an answer replaces the text, an   *)
(* answer without a choice changes nothing.                                 *)
Answer(q) ==
    /\ request[q] = "plain"
    /\ \/ /\ request' = [request EXCEPT ![q] = "answered"]
          /\ sent' = [sent EXCEPT ![q] = 1]
          /\ UpdateLast(Now(Last(Current), "complete", <<q>>))
       \/ /\ request' = [request EXCEPT ![q] = "empty"]
          /\ UNCHANGED <<messages, dirty, sent>>
       \/ /\ request' = [request EXCEPT ![q] = "failed"]
          /\ UpdateLast(Erroneous(Last(Current)))
          /\ UNCHANGED sent
    /\ UNCHANGED <<shown, busy, source, ended, crossed, pageVars, editing, disturbed>>

(* React renders, and the updater has saved what it returned.               *)
Render ==
    /\ dirty
    /\ shown' = messages /\ busy' = (source # None) /\ dirty' = FALSE
    /\ UNCHANGED <<messages, netVars, pageVars, editing, disturbed>>

-----------------------------------------------------------------------------
(* What the user does, with the list as it is shown.                        *)

(* updateMessages with a list of the handler's own, rendered at once.       *)
ShowList(list) ==
    /\ messages' = list /\ shown' = list /\ dirty' = FALSE
    /\ busy' = (source' # None)

(* History: a request still shown as being answered, or one whose update is *)
(* not rendered, loses what the handler's list does not hold.               *)
Unrendered == IF dirty THEN {Last(messages).id} ELSE {}
Answering == {q \in Open : request[q] = "plain" \/ busy \/ q \in disturbed}
Disturb(S) ==
    disturbed' = disturbed \cup Unrendered \cup (IF Answering = {} THEN {} ELSE Answering \cup S)

(* History: a stream is opened, or fails to be, while others are open.      *)
Cross(q) ==
    crossed' = IF streaming /\ Streams # {} THEN crossed \cup Streams \cup {q} ELSE crossed

(* updateMessages and sendChat: the list ends in the message q is to answer.*)
Send(q, list) ==
    /\ here /\ request[q] = "unsent"
    /\ \/ /\ streaming
          /\ request' = [request EXCEPT ![q] = "stream"]
          /\ source' = q /\ ended' = FALSE
          /\ ShowList(Append(list, createLoadingAssistantMessage(q)))
       \/ /\ streaming
          /\ request' = [request EXCEPT ![q] = "failed"]
          /\ source' = None /\ ended' = FALSE
          /\ ShowList(Append(list, Erroneous(createLoadingAssistantMessage(q))))
       \/ /\ ~streaming
          /\ request' = [request EXCEPT ![q] = "plain"]
          /\ UNCHANGED <<source, ended>>
          /\ ShowList(Append(list, createLoadingAssistantMessage(q)))
    /\ Disturb({q}) /\ Cross(q)
    /\ UNCHANGED <<sent, pageVars>>

handleSendMessage(q) == Send(q, Append(shown, createUserMessage(q))) /\ UNCHANGED editing

(* The text field and its button are disabled while a stream is shown.      *)
Submit(q) == ~busy /\ handleSendMessage(q)

(* The suggestions below it are not.                                        *)
Suggest(q) == handleSendMessage(q)

(* MessageActions are drawn below what there is to read.                    *)
HasActions(m) == m.status = "error" \/ m.text # <<>>

(* The answer and what follows it make room for another one.                *)
Regenerate(q) ==
    /\ ~busy
    /\ \E i \in DOMAIN shown :
          /\ shown[i].from = "assistant" /\ HasActions(shown[i])
          /\ shown[i].status \notin Unfinished
          /\ Send(q, SubSeq(shown, 1, i - 1))
    /\ UNCHANGED editing

Edit ==
    /\ here /\ ~busy
    /\ \E i \in DOMAIN shown :
          HasActions(shown[i]) /\ editing' = Key(shown[i])
    /\ UNCHANGED <<listVars, netVars, pageVars, disturbed>>

CancelEdit ==
    /\ editing # None /\ editing' = None
    /\ UNCHANGED <<listVars, netVars, pageVars, disturbed>>

(* applyEdit: neither of its buttons is disabled while a stream is shown.   *)
Edited(m) == IF Key(m) = editing THEN Now(m, m.status, <<"user">>) ELSE m
EditedList == [i \in DOMAIN shown |-> Edited(shown[i])]

SaveEdit ==
    /\ here /\ \E i \in DOMAIN shown : Key(shown[i]) = editing
    /\ UNCHANGED <<netVars, pageVars>>
    /\ ShowList(EditedList)
    /\ editing' = None
    /\ Disturb({})

SubmitEdit(q) ==
    /\ \E i \in DOMAIN shown :
          /\ Key(shown[i]) = editing /\ shown[i].from = "user"
          /\ Send(q, SubSeq(EditedList, 1, i))
    /\ editing' = None

(* deleteMessage filters by the key, which no other message has.            *)
Delete ==
    /\ here /\ ~busy
    /\ UNCHANGED <<netVars, pageVars, editing>>
    /\ \E i \in DOMAIN shown :
          /\ HasActions(shown[i])
          /\ ShowList(RemoveAt(shown, i))
    /\ Disturb({})

\* Mutant: Stop lets go of the stream without closing it.
ClosedByStopNothing == {}

ClosedByStop == {q \in Requests : q = source /\ request[q] \in {"stream", "truncated"}}

(* stopGeneration: closes the stream that is held, completes the message.   *)
Stop ==
    /\ busy
    /\ request' = [q \in Requests |-> IF q \in ClosedByStop THEN "stopped" ELSE request[q]]
    /\ source' = None
    /\ IF HasTarget
       THEN ShowList([Current EXCEPT ![Len(Current)] = Completed(Last(Current))])
       ELSE /\ UNCHANGED <<messages, dirty>>
            /\ IF dirty THEN shown' = messages /\ busy' = FALSE
                        ELSE UNCHANGED <<shown, busy>>
    /\ UNCHANGED <<ended, sent, crossed, pageVars, editing, disturbed>>

-----------------------------------------------------------------------------
(* The page goes and comes back with what was saved.                        *)

(* sanitizeMessagesOnLoad, for the message it picks: the last unfinished.   *)
Settled(m) == IF m.text = <<>> THEN Erroneous(m) ELSE Completed(m)

Interrupted(list) ==
    {i \in DOMAIN list : list[i].from = "assistant" /\ list[i].status \in Unfinished}

(* loadMessages, which saves the list again once it has been repaired.      *)
Load(list) ==
    [i \in DOMAIN list |->
        IF i \in Interrupted(list) /\ \A j \in Interrupted(list) : j <= i
        THEN Settled(list[i]) ELSE list[i]]

(* What may be in localStorage: the list last rendered, or one more update, *)
(* as React may run a queued updater, which saves, before it renders.       *)
Saved == {shown, messages}

(* What the page holds besides the saved list goes with it.  Its streams go *)
(* on with nobody listening, or are cut off by a reload.                    *)
Drop ==
    /\ request' = [q \in Requests |-> IF q \in Open THEN "gone" ELSE request[q]]
    /\ source' = None /\ ended' = FALSE /\ editing' = None
    /\ busy' = FALSE /\ dirty' = FALSE
    /\ disturbed' = disturbed \cup Unrendered
    /\ UNCHANGED <<sent, crossed, streaming>>

Leave ==
    /\ here /\ here' = FALSE
    /\ \E saved \in Saved : messages' = saved /\ shown' = saved
    /\ Drop
    /\ UNCHANGED mounts

(* Returns to the page, or reloads it.                                      *)
Mount ==
    /\ mounts < MaxMounts /\ mounts' = mounts + 1 /\ here' = TRUE
    /\ \E saved \in Saved : messages' = Load(saved) /\ shown' = Load(saved)
    /\ Drop

Init ==
    /\ messages = <<>> /\ shown = <<>> /\ busy = FALSE /\ dirty = FALSE
    /\ source = None /\ ended = FALSE
    /\ request = [q \in Requests |-> "unsent"]
    /\ sent = [q \in Requests |-> 0]
    /\ editing = None /\ streaming \in BOOLEAN /\ here = TRUE /\ mounts = 0
    /\ disturbed = {} /\ crossed = {}

Next ==
    \/ \E q \in Requests :
          \/ Chunk(q) \/ Done(q) \/ Fails(q) \/ Truncated(q) \/ Answer(q)
          \/ Submit(q) \/ Suggest(q) \/ Regenerate(q) \/ SubmitEdit(q)
    \/ Render \/ Edit \/ CancelEdit \/ SaveEdit \/ Delete \/ Stop
    \/ Leave \/ Mount

Spec == Init /\ [][Next]_vars

-----------------------------------------------------------------------------
TypeOK ==
    /\ messages \in Seq(Message) /\ shown \in Seq(Message)
    /\ {busy, dirty, ended, streaming, here} \subseteq BOOLEAN
    /\ source \in Requests \cup {None}
    /\ request \in [Requests -> Fate]
    /\ sent \in [Requests -> 0..MaxChunks]
    /\ editing \in ({"user", "assistant"} \X Requests) \cup {None}
    /\ mounts \in 0..MaxMounts
    /\ disturbed \subseteq Requests /\ crossed \subseteq Requests

Answers == {m \in Range(messages) : m.from = "assistant"}

(* Text of one request is found in the message of another only if the user  *)
(* rewrote the list while it was being answered: a stream that has ended,   *)
(* failed or been stopped never writes into the message that came after.    *)
OwnText ==
    \A m \in Answers : \A q \in Range(m.text) \ {"user"} :
        q # m.id => q \in disturbed

(* An answer that came to its end is shown whole, in every order of chunks  *)
(* and renders, unless the user rewrote the list meanwhile.                 *)
AnswerWhole ==
    \A m \in Answers :
        /\ m.id \notin disturbed /\ request[m.id] \in {"done", "answered"}
        /\ m.status = "complete" /\ Range(m.text) \subseteq {m.id}
        => Len(m.text) = sent[m.id]

(* A stream can be stopped as long as it is open: Stop is shown, and would  *)
(* close it.  Only another stream, opened beside it by a suggestion or an   *)
(* edit, can take that away, for the page holds one reference; neither an   *)
(* edit of the list, a late render nor a request without a stream can.      *)
Stoppable == \A q \in Streams \ crossed : source = q /\ busy

(* Whichever way a request ends, its message stops being "loading" or       *)
(* "streaming", unless the user, or the answer to a message that was        *)
(* deleted, wrote into it; but for a stream that is cut off in good order,  *)
(* and an answer without a choice.                                          *)
NoStuckSpinner ==
    here => \A m \in Answers :
        m.status \in Unfinished /\ m.id \notin disturbed /\ Range(m.text) \subseteq {m.id}
        => request[m.id] \in {"stream", "plain", "truncated", "empty"}

(* What has been completed, or has failed, is not changed by a late event:  *)
(* only the user edits it.                                                  *)
FinalMessages ==
    [][\A i \in DOMAIN messages, j \in DOMAIN messages' :
          /\ Key(messages[i]) = Key(messages'[j])
          /\ messages[i].status \in {"complete", "error"}
          /\ Open \cap disturbed = {} /\ messages[i].id \notin disturbed'
          => /\ messages'[j].status = messages[i].status
             /\ messages'[j].text \in {messages[i].text, <<"user">>}]_vars
=============================================================================
