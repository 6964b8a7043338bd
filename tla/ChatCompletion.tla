--------------------------- MODULE ChatCompletion ---------------------------
(***************************************************************************)
(* A chat turn as its requester sees it: the handlers of                   *)
(* POST /v1/chat/completions (backend/internal/httpapi/openai.go), the     *)
(* answer stream they read (Subscribe, publishLocked and the unsubscribe   *)
(* closure of backend/internal/core/service.go) and the conversation they  *)
(* write to (core/conversations.go).                                       *)
(*                                                                         *)
(* Every turn is one handler goroutine with the request it created.  The   *)
(* life cycle of the request is that of module Service, reduced to what is *)
(* published: fragments are committed while it is live, and it ends with a *)
(* finish reason.  It is abandoned by its own handler only.  Text is the   *)
(* sequence of the numbers of the fragments it is made of.                 *)
(*                                                                         *)
(* A step takes the mutex s.mu at most once, except that SubmitFragment    *)
(* publishes twice when the fragment reaches the output limit: mu names    *)
(* the turn for which the second publication is due.  A receive from the   *)
(* stream takes no lock and can come in between.                           *)
(***************************************************************************)
EXTENDS Integers, Sequences, SequencesExt

CONSTANTS
  Turns,          \* chat turns, all in one conversation or in none
  BufferCap,      \* capacity of a subscriber's channel (64 in the code)
  MaxFragments,   \* bound on the fragments of an answer
  Bindings,       \* how turns refer to the conversation, see Binding
  Modes           \* "stream" and "blocking", the stream field of the body

\* No conversation_id; one, with the user's turn as the last message; one, with
\* a last message of another role.
Binding == {"unbound", "user", "other"}
Mode == {"stream", "blocking"}
FinishReasons == {"stop", "length", "partial"}

ASSUME ChatAssumption ==
  /\ BufferCap \in Nat /\ BufferCap >= 2
  /\ MaxFragments \in Nat
  /\ Bindings \subseteq Binding
  /\ Modes \subseteq Mode
  /\ "free" \notin Turns

VARIABLES
  pc,            \* where the handler is
  mode,          \* which of the two handlers serves the turn
  binding,       \* the turn's conversation_id and last message
  status,        \* the status of its request
  committed,     \* the number of committed fragments
  finish,        \* FinishReason of the request
  subscribed,    \* the handler's channel is among s.subscribers
  buffer,        \* the events in that channel
  content,       \* the text the handler has taken from it
  sent,          \* the text that has been written to the client
  answered,      \* the finish_reason written to the client, "" before
  conversation,  \* "open", or "deleted" by its owner
  transcript,    \* the messages of the conversation
  mu,            \* "free", or the turn of an unfinished SubmitFragment
  lost           \* history: events that publishLocked dropped, by turn

vars == <<pc, mode, binding, status, committed, finish, subscribed, buffer,
          content, sent, answered, conversation, transcript, mu, lost>>

requestVars == <<status, committed, finish>>
clientVars == <<content, sent, answered>>
conversationVars == <<conversation, transcript>>

Text(n) == [i \in 1..n |-> i]
FragmentEvent(text) == [type |-> "fragment", text |-> text, finish |-> ""]
DoneEventStop(reason) == [type |-> "done", text |-> <<>>, finish |-> "stop"]
DoneEvent(reason) == [type |-> "done", text |-> <<>>, finish |-> reason]

Init ==
  /\ pc = [t \in Turns |-> "idle"]
  /\ mode \in [Turns -> Modes]
  /\ binding \in [Turns -> Bindings]
  /\ status = [t \in Turns |-> "none"]
  /\ committed = [t \in Turns |-> 0]
  /\ finish = [t \in Turns |-> ""]
  /\ subscribed = [t \in Turns |-> FALSE]
  /\ buffer = [t \in Turns |-> <<>>]
  /\ content = [t \in Turns |-> <<>>]
  /\ sent = [t \in Turns |-> <<>>]
  /\ answered = [t \in Turns |-> ""]
  /\ conversation = "open"
  /\ transcript = <<>>
  /\ mu = "free"
  /\ lost = [t \in Turns |-> FALSE]

-----------------------------------------------------------------------------
(* The request, as far as it is published *)

\* A send that would block is given up: the event is dropped.
publishUnbounded(t, event) ==
  /\ buffer' = IF subscribed[t] THEN [buffer EXCEPT ![t] = Append(buffer[t], event)]
                                ELSE buffer
  /\ UNCHANGED lost
publishLocked(t, event) ==
  LET room == Len(buffer[t]) < BufferCap
  IN /\ buffer' = IF subscribed[t] /\ room
                    THEN [buffer EXCEPT ![t] = Append(buffer[t], event)] ELSE buffer
     /\ lost' = IF subscribed[t] /\ ~room THEN [lost EXCEPT ![t] = TRUE] ELSE lost

\* A fragment is committed and published; full means that it uses up the output
\* limit, so that completeLocked follows under the same lock.
SubmitFragment(t, full) ==
  /\ mu = "free"
  /\ status[t] = "live"
  /\ committed[t] < MaxFragments
  /\ committed' = [committed EXCEPT ![t] = @ + 1]
  /\ publishLocked(t, FragmentEvent(<<committed[t] + 1>>))
  /\ mu' = IF full THEN t ELSE "free"
  /\ UNCHANGED <<pc, mode, binding, status, finish, subscribed, clientVars,
                 conversationVars>>

\* completeLocked: a Finish, a disconnect or a timeout after the first fragment,
\* or the end of a SubmitFragment that has reached the limit.
completeLocked(t, reason) ==
  /\ status[t] = "live"
  /\ committed[t] > 0
  /\ mu = IF reason = "length" THEN t ELSE "free"
  /\ status' = [status EXCEPT ![t] = "completed"]
  /\ finish' = [finish EXCEPT ![t] = reason]
  /\ publishLocked(t, DoneEvent(reason))
  /\ mu' = "free"
  /\ UNCHANGED <<pc, mode, binding, committed, subscribed, clientVars,
                 conversationVars>>

-----------------------------------------------------------------------------
(* The handler *)

\* handleChatCompletions, up to the creation of the request.
handleChatCompletions(t) ==
  /\ mu = "free"
  /\ pc[t] = "idle"
  /\ status' = [status EXCEPT ![t] = "live"]
  /\ pc' = [pc EXCEPT ![t] = "created"]
  /\ UNCHANGED <<mode, binding, committed, finish, subscribed, buffer, clientVars,
                 conversationVars, mu, lost>>

\* AppendConversationMessage: an error, such as for a conversation that was
\* deleted, is ignored by both callers.
AppendConversationMessage(t, role, text) ==
  transcript' = IF conversation = "open"
                  THEN Append(transcript, [turn |-> t, role |-> role, text |-> text])
                  ELSE transcript

persistUser(t) ==
  /\ mu = "free"
  /\ pc[t] = "created"
  /\ IF binding[t] = "user" THEN AppendConversationMessage(t, "user", <<>>)
                            ELSE UNCHANGED transcript
  /\ pc' = [pc EXCEPT ![t] = "appended"]
  /\ UNCHANGED <<mode, binding, requestVars, subscribed, buffer, clientVars,
                 conversation, mu, lost>>

\* What Subscribe puts into the new channel: the accumulated answer as one
\* event, and the end of a request that has ended.
ReplayOfFragments(t) ==
  [i \in 1..committed[t] |-> FragmentEvent(<<i>>)]
    \o (IF status[t] = "live" THEN <<>> ELSE <<DoneEvent(finish[t])>>)
ReplayWithoutEnd(t) ==
  IF committed[t] = 0 THEN <<>> ELSE <<FragmentEvent(Text(committed[t]))>>
ReplayOfLast(t) ==
  (IF committed[t] = 0 THEN <<>> ELSE <<FragmentEvent(<<committed[t]>>)>>)
    \o (IF status[t] = "live" THEN <<>> ELSE <<DoneEvent(finish[t])>>)
Replay(t) ==
  (IF committed[t] = 0 THEN <<>> ELSE <<FragmentEvent(Text(committed[t]))>>)
    \o (IF status[t] = "live" THEN <<>> ELSE <<DoneEvent(finish[t])>>)

\* These sends block, with s.mu held, when the channel cannot take them.
Subscribe(t) ==
  /\ mu = "free"
  /\ pc[t] = "appended"
  /\ Len(Replay(t)) <= BufferCap
  /\ buffer' = [buffer EXCEPT ![t] = Replay(t)]
  /\ subscribed' = [subscribed EXCEPT ![t] = TRUE]
  /\ pc' = [pc EXCEPT ![t] = "waiting"]
  /\ UNCHANGED <<mode, binding, requestVars, clientVars, conversationVars, mu, lost>>

Received(t) ==
  /\ pc[t] = "waiting"
  /\ buffer[t] # <<>>
  /\ buffer' = [buffer EXCEPT ![t] = Tail(buffer[t])]
  /\ content' = [content EXCEPT ![t] = content[t] \o Head(buffer[t]).text]
  /\ pc' = IF Head(buffer[t]).type = "done" THEN [pc EXCEPT ![t] = "persist"] ELSE pc
  /\ answered' = [answered EXCEPT ![t] = Head(buffer[t]).finish]
  /\ UNCHANGED <<mode, binding, requestVars, subscribed, conversationVars, mu, lost>>

\* One event of the loop of streamChatCompletion: every event is a chunk.
streamChatCompletion(t) ==
  /\ mode[t] = "stream"
  /\ Received(t)
  /\ sent' = [sent EXCEPT ![t] = content'[t]]

\* One event of the loop of blockingChatCompletion: the response is written when
\* the answer is done.
blockingChatCompletion(t) ==
  /\ mode[t] = "blocking"
  /\ Received(t)
  /\ sent' = IF Head(buffer[t]).type = "done" THEN [sent EXCEPT ![t] = content'[t]]
                                              ELSE sent

\* persistAssistant takes the text from the request, not from the events.
PersistedContent(t) == content[t]
Persisted(t) == Text(committed[t])
persistAssistant(t) ==
  /\ mu = "free"
  /\ pc[t] = "persist"
  /\ IF binding[t] # "unbound" /\ committed[t] > 0
       THEN AppendConversationMessage(t, "assistant", Persisted(t))
       ELSE UNCHANGED transcript
  /\ pc' = [pc EXCEPT ![t] = "leaving"]
  /\ UNCHANGED <<mode, binding, requestVars, subscribed, buffer, clientVars,
                 conversation, mu, lost>>

\* The client is gone: CancelBeforeFirstFragment, then the deferred unsubscribe.
Disconnect(t) ==
  /\ mu = "free"
  /\ pc[t] = "waiting"
  /\ pc' = [pc EXCEPT ![t] = "leaving"]
  /\ IF status[t] = "live" /\ committed[t] = 0
       THEN /\ status' = [status EXCEPT ![t] = "abandoned"]
            /\ publishLocked(t, DoneEvent("stop"))
       ELSE UNCHANGED <<status, buffer, lost>>
  /\ UNCHANGED <<mode, binding, committed, finish, subscribed, clientVars,
                 conversationVars, mu>>

unsubscribe(t) ==
  /\ mu = "free"
  /\ pc[t] = "leaving"
  /\ pc' = [pc EXCEPT ![t] = "ended"]
  /\ subscribed' = [subscribed EXCEPT ![t] = FALSE]
  /\ buffer' = [buffer EXCEPT ![t] = <<>>]
  /\ UNCHANGED <<mode, binding, requestVars, clientVars, conversationVars, mu, lost>>

\* The owner deletes the conversation, while turns of it may be under way.
DeleteConversation ==
  /\ mu = "free"
  /\ conversation = "open"
  /\ conversation' = "deleted"
  /\ transcript' = <<>>
  /\ UNCHANGED <<pc, mode, binding, requestVars, subscribed, buffer, clientVars,
                 mu, lost>>

\* A step of the handler that needs nobody else.
Proceed(t) ==
  \/ persistUser(t)
  \/ Subscribe(t)
  \/ streamChatCompletion(t)
  \/ blockingChatCompletion(t)
  \/ persistAssistant(t)
  \/ unsubscribe(t)

Next ==
  \/ \E t \in Turns :
       \/ handleChatCompletions(t)
       \/ Proceed(t)
       \/ Disconnect(t)
       \/ \E full \in BOOLEAN : SubmitFragment(t, full)
       \/ \E reason \in FinishReasons : completeLocked(t, reason)
  \/ DeleteConversation

Spec == Init /\ [][Next]_vars

\* A handler goroutine that can go on does.  Other goroutines compete for the
\* mutex, which goes to the one that has waited longest; the end of a
\* SubmitFragment holds it already.
Fairness ==
  \A t \in Turns : SF_vars(Proceed(t)) /\ WF_vars(completeLocked(t, "length"))

FairSpec == Spec /\ Fairness

-----------------------------------------------------------------------------
(* Properties *)

Pending(t) == FlattenSeq([i \in 1..Len(buffer[t]) |-> buffer[t][i].text])

TypeOK ==
  /\ pc \in [Turns -> {"idle", "created", "appended", "waiting", "persist",
                       "leaving", "ended"}]
  /\ status \in [Turns -> {"none", "live", "completed", "abandoned"}]
  /\ committed \in [Turns -> 0..MaxFragments]
  /\ finish \in [Turns -> FinishReasons \cup {""}]
  /\ answered \in [Turns -> FinishReasons \cup {""}]
  /\ \A t \in Turns : Len(buffer[t]) <= BufferCap
  /\ mu \in Turns \cup {"free"}

\* The replay of Subscribe and the live events meet without a gap or an overlap,
\* whenever the handler subscribes: what it has taken and what waits for it are
\* the committed fragments, in order and each once, or all but those that
\* publishLocked dropped on a full channel.
StreamFaithful ==
  \A t \in Turns : pc[t] = "waiting" =>
    LET seen == content[t] \o Pending(t)
    IN /\ \A i, j \in DOMAIN seen : i < j => seen[i] < seen[j]
       /\ \A i \in DOMAIN seen : seen[i] <= committed[t]
       /\ ~lost[t] => seen = Text(committed[t])

\* A response that has ended gives the reason for which its request was completed
\* and, if nothing was dropped, the whole answer; until then no reason is given
\* and a blocking client has been sent nothing.
ReplyComplete ==
  \A t \in Turns :
    /\ answered[t] # "" =>
         /\ status[t] = "completed" /\ answered[t] = finish[t]
         /\ ~lost[t] => sent[t] = Text(committed[t])
    /\ answered[t] = "" /\ mode[t] = "blocking" => sent[t] = <<>>

\* The conversation holds at most one answer per turn, with all of its text even
\* where the client missed some, and a deleted conversation stays empty although
\* answers to its turns arrive later.
TranscriptSound ==
  /\ \A i \in DOMAIN transcript : transcript[i].role = "assistant" =>
       /\ transcript[i].text = Text(committed[transcript[i].turn])
       /\ status[transcript[i].turn] = "completed"
  /\ \A i, j \in DOMAIN transcript :
       transcript[i].turn = transcript[j].turn /\ transcript[i].role = transcript[j].role
         => i = j
  /\ conversation = "deleted" => transcript = <<>>

\* A handler whose request is completed ends its response, unless its client
\* leaves or events were dropped, however the completion, the subscription and
\* the last fragment interleave.
ReplyUnlessLost ==
  \A t \in Turns :
    pc[t] # "idle" /\ status[t] = "completed" ~> pc[t] = "ended" \/ lost[t]

\* A handler always gets to wait for its answer: the replay of Subscribe, which
\* is sent with the service's mutex held, never blocks.
SubscribeReturns ==
  \A t \in Turns : pc[t] = "created" ~> pc[t] \notin {"created", "appended"}
=============================================================================
