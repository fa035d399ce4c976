---------------------------- MODULE WeComStreams ----------------------------
(***************************************************************************)
(* pkg/channels/wecom/aibot.go: WeCom shows an answer as a stream that it  *)
(* polls.  Each text of a chat becomes a task, found by its stream id and, *)
(* in the order of arrival, in the queue of its chat.  Send gives an       *)
(* answer to the first task of the chat: through a channel of one place    *)
(* for the next poll, or, once the deadline has closed the stream, to its  *)
(* response URL.  One chat is modelled; its worker sends one answer at a   *)
(* time.                                                                   *)
(***************************************************************************)
EXTENDS Integers, Sequences

CONSTANTS Texts   \* bound: texts that users write in the chat, 1..Texts

ASSUME StreamsAssumption == Texts \in Nat

Stream == 1..Texts
NoText == 0

VARIABLES
    came,      \* how many texts have come
    streamTasks,  \* the tasks that a poll finds
    chatTasks,    \* the queue of the chat; a text gets the next number when it is appended, so the
                  \* tasks of the queue are in the order of their numbers
    closedStreams, finished, cancelled,  \* StreamClosed, Finished, the ctx of a task
    overdue,         \* tasks past their deadline
    answerCh,     \* answerCh[t]: the text whose answer waits in the channel of t
    poll,         \* poll[t]: where the poll of t is
    publishing,   \* tasks whose goroutine has still to publish the text
    asked,        \* texts that the agent has to answer
    send,         \* the Send call: where it is, its task, and the text that it answers
    got           \* <<text, task>>: answers that users have seen, and under which stream
streamVars == <<came, streamTasks, chatTasks, closedStreams, finished, cancelled, overdue, answerCh,
                poll, publishing, asked, send, got>>

NotSending == [at |-> "idle", task |-> NoText, text |-> NoText]
StreamsInit ==
    /\ came = 0 /\ streamTasks = {} /\ chatTasks = {} /\ closedStreams = {} /\ finished = {}
    /\ cancelled = {} /\ overdue = {} /\ answerCh = [t \in Stream |-> NoText]
    /\ poll = [t \in Stream |-> "none"] /\ publishing = {} /\ asked = <<>> /\ send = NotSending /\ got = {}

\* handleTextMessage: the task is there before the goroutine that publishes the text.
HandleText ==
    /\ came < Texts /\ came' = came + 1
    /\ streamTasks' = streamTasks \cup {came + 1} /\ chatTasks' = chatTasks \cup {came + 1}
    /\ publishing' = publishing \cup {came + 1} /\ poll' = [poll EXCEPT ![came + 1] = "look"]
    /\ UNCHANGED <<closedStreams, finished, cancelled, overdue, answerCh, asked, send, got>>
\* HandleMessage: published, or refused by the allow-list or the cancelled context.
PublishText(t) ==
    /\ t \in publishing /\ publishing' = publishing \ {t}
    /\ \/ t \notin cancelled /\ asked' = Append(asked, t)
       \/ UNCHANGED asked
    /\ UNCHANGED <<came, streamTasks, chatTasks, closedStreams, finished, cancelled, overdue, answerCh, poll, send, got>>

Spliced(t) == chatTasks \ {t}
RemoveTask(t) ==
    /\ cancelled' = cancelled \cup {t} /\ finished' = finished \cup {t}
    /\ streamTasks' = streamTasks \ {t} /\ chatTasks' = Spliced(t)

\* handleStreamMessage and getStreamResponse: the task is found, an answer is taken or
\* the deadline noticed without the lock, and the task removed or its stream closed.
PollFinds(t) ==
    /\ poll[t] = "none" /\ t \in streamTasks /\ poll' = [poll EXCEPT ![t] = "look"]
    /\ UNCHANGED <<came, streamTasks, chatTasks, closedStreams, finished, cancelled, overdue, answerCh, publishing, asked, send, got>>
PollLooks(t) ==
    /\ poll[t] = "look"
    /\ IF answerCh[t] # NoText
       THEN /\ poll' = [poll EXCEPT ![t] = "remove"] /\ answerCh' = [answerCh EXCEPT ![t] = NoText]
            /\ got' = got \cup {<<answerCh[t], t>>}
       ELSE /\ poll' = [poll EXCEPT ![t] = IF t \in overdue THEN "close" ELSE "none"]
            /\ UNCHANGED <<answerCh, got>>
    /\ UNCHANGED <<came, streamTasks, chatTasks, closedStreams, finished, cancelled, overdue, publishing, asked, send>>
PollEnds(t) ==
    /\ \/ poll[t] = "remove" /\ RemoveTask(t) /\ UNCHANGED closedStreams
       \/ /\ poll[t] = "close" /\ closedStreams' = closedStreams \cup {t} /\ streamTasks' = streamTasks \ {t}
          /\ UNCHANGED <<chatTasks, finished, cancelled>>
    /\ poll' = [poll EXCEPT ![t] = "none"]
    /\ UNCHANGED <<came, overdue, answerCh, publishing, asked, send, got>>
DeadlinePasses(t) ==
    /\ t <= came /\ t \notin overdue /\ overdue' = overdue \cup {t}
    /\ UNCHANGED <<came, streamTasks, chatTasks, closedStreams, finished, cancelled, answerCh, poll, publishing, asked, send, got>>

\* Send, for the answer that the agent has written to the oldest text.
SendBegins ==
    /\ send = NotSending /\ asked # <<>> /\ asked' = Tail(asked)
    /\ LET queue == chatTasks \ finished
           first == CHOOSE t \in queue : \A u \in queue : t <= u
       IN  send' = IF queue = {} THEN NotSending
                   ELSE [at |-> IF first \in closedStreams THEN "post" ELSE "put", task |-> first, text |-> Head(asked)]
    /\ UNCHANGED <<came, streamTasks, chatTasks, closedStreams, finished, cancelled, overdue, answerCh, poll, publishing, got>>
\* sendViaResponseURL; an error is returned as send failed, which nobody retries.
SendPosts ==
    /\ send.at = "post" /\ RemoveTask(send.task) /\ send' = NotSending
    /\ \/ got' = got \cup {<<send.text, send.task>>}
       \/ UNCHANGED got
    /\ UNCHANGED <<came, closedStreams, overdue, answerCh, poll, publishing, asked>>
\* a put that waits for room alone
SendPuts_NoContext ==
    /\ send.at = "put" /\ send' = NotSending
    /\ answerCh[send.task] = NoText /\ answerCh' = [answerCh EXCEPT ![send.task] = send.text]
    /\ UNCHANGED <<came, streamTasks, chatTasks, closedStreams, finished, cancelled, overdue, poll, publishing, asked, got>>
\* Into the channel of the task, or until the context of the task ends.
SendPuts ==
    /\ send.at = "put" /\ send' = NotSending
    /\ \/ answerCh[send.task] = NoText /\ answerCh' = [answerCh EXCEPT ![send.task] = send.text]
       \/ send.task \in cancelled /\ UNCHANGED answerCh
    /\ UNCHANGED <<came, streamTasks, chatTasks, closedStreams, finished, cancelled, overdue, poll, publishing, asked, got>>

\* cleanupOldTasks: one hour after the text, or ten minutes after its stream was closed.
CleanupOldTasks(old) ==
    /\ old # {} /\ old \subseteq overdue \cap (streamTasks \cup chatTasks)
    /\ streamTasks' = streamTasks \ old
    /\ chatTasks' = chatTasks \ (old \cup finished)
    /\ cancelled' = cancelled \cup old
    /\ UNCHANGED <<came, closedStreams, finished, overdue, answerCh, poll, publishing, asked, send, got>>

Polling(t) == PollLooks(t) \/ PollEnds(t)
Sending    == SendBegins \/ SendPosts \/ SendPuts
StreamsNext ==
    \/ HandleText \/ Sending
    \/ \E t \in Stream : PublishText(t) \/ PollFinds(t) \/ Polling(t) \/ DeadlinePasses(t)
    \/ \E old \in SUBSET Stream : CleanupOldTasks(old)
\* Requests and calls go on, time passes, and the clean-up comes to everything that is
\* old enough; WeCom need not poll.
StreamsFairness ==
    /\ WF_streamVars(Sending)
    /\ \A t \in Stream : /\ WF_streamVars(Polling(t)) /\ WF_streamVars(DeadlinePasses(t))
                       /\ WF_streamVars(\E old \in SUBSET Stream : t \in old /\ CleanupOldTasks(old))
StreamsSpec == StreamsInit /\ [][StreamsNext]_streamVars /\ StreamsFairness
-----------------------------------------------------------------------------
\* A task leaves the queue in the same step that finishes it, and whatever is out of the
\* queue has its context cancelled, so that nobody waits for it (aibot.go:976).
NoneStranded ==
    /\ chatTasks \cap finished = {}
    /\ \A t \in 1..came : t \in chatTasks \/ (t \in cancelled /\ t \notin streamTasks)

\* A Send that waits for room in the channel of a task comes back, although nobody may
\* poll any more: the clean-up cancels the task.
SendEnds == (send # NotSending) ~> (send = NotSending)

\* The two of above, of Send, the polls, the deadlines and the clean-up.
StreamsSound == []NoneStranded /\ SendEnds

\* An answer that is left in the channel is picked up by a poll (aibot.go:258): the task
\* is one that a poll finds or has found.  (Does not hold when the deadline closes
\* the stream between Send's look at the task and its put.)
AnswerPolled == \A t \in Stream : answerCh[t] # NoText /\ t \notin cancelled => t \in streamTasks \/ poll[t] # "none"
=============================================================================
