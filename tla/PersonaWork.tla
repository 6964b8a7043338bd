----------------------------- MODULE PersonaWork ----------------------------
(***************************************************************************)
(* The goroutines of the persona manager at work on the service:           *)
(* runResponder and answer, which take assignments like a person does, and *)
(* postQuestion with its conversation, which asks people and follows up    *)
(* (backend/internal/persona/manager.go).  Module PersonaManager decides   *)
(* how many of them there are.                                             *)
(*                                                                         *)
(* The service, people and the sweeper are those of module Service, and    *)
(* between two calls of a goroutine everybody else may act.  The model     *)
(* behind the personas (external) answers or fails; a chunk of its answer  *)
(* is a fragment of one of the FragmentSizes.  A responder session has one *)
(* goroutine, and is not used again; the same is true of an asker.  The    *)
(* context of a conversation ends with the process and is left out, as are *)
(* the names of personas and the texts of questions.                       *)
(***************************************************************************)
EXTENDS Service

CONSTANT
  TargetQueue   \* cfg.TargetQueue

ASSUME WorkAssumption == TargetQueue \in Nat

VARIABLES
  driver,     \* responder persona -> where its goroutine is
  job,        \* responder persona -> the request it has received
  chunk,      \* responder persona -> the client_seq of its next chunk
  cancelled,  \* responder personas whose context is cancelled
  poster,     \* asker -> where its goroutine is
  current,    \* asker -> the request its conversation is at
  posting,    \* m.posting
  active      \* m.activeConversations

driverVars == <<driver, job, chunk, cancelled>>
posterVars == <<poster, current, posting, active>>
workVars == <<driverVars, posterVars>>
allVars == <<vars, workVars>>

Bots == {s \in Answerers : KindOf[s] = "ai_persona"}

DriverStates == {"none", "mark", "wait", "snapshot", "model", "submit", "finish",
                 "skip", "backoff", "leave", "ended"}
Talking == {"waiting", "giving up", "following", "resuming", "parting"}
PosterStates == {"none", "asking", "asked", "ended"} \cup Talking

WorkInit ==
  /\ Init
  /\ driver = [b \in Bots |-> "none"]
  /\ job = [b \in Bots |-> None]
  /\ chunk = [b \in Bots |-> 1]
  /\ cancelled = {}
  /\ poster = [a \in PersonaAskers |-> "none"]
  /\ current = [a \in PersonaAskers |-> None]
  /\ posting = FALSE
  /\ active = 0

-----------------------------------------------------------------------------
(* runResponder *)

Goto(b, state) == driver' = [driver EXCEPT ![b] = state]

startResponder(b) ==
  /\ driver[b] = "none"
  /\ RegisterResponder(b)
  /\ Goto(b, "mark")
  /\ UNCHANGED <<job, chunk, cancelled, posterVars>>

\* ensureResponders or reapAll: the goroutine sees it where it looks.
cancel(b) ==
  /\ driver[b] \notin {"none", "leave", "ended"}
  /\ cancelled' = cancelled \cup {b}
  /\ UNCHANGED <<vars, driver, job, chunk, posterVars>>

markAvailable(b) ==
  /\ driver[b] = "mark"
  /\ MarkResponderAvailable(b, FALSE)
  /\ Goto(b, "wait")
  /\ UNCHANGED <<job, chunk, cancelled, posterVars>>

receive(b) ==
  /\ driver[b] = "wait"
  /\ Receive(b)
  /\ job' = [job EXCEPT ![b] = Head(inbox[b])]
  /\ Goto(b, "snapshot")
  /\ UNCHANGED <<chunk, cancelled, posterVars>>

\* The selects on ctx.Done() of the loop and of the backoff.
done(b) ==
  /\ driver[b] \in {"wait", "backoff"}
  /\ b \in cancelled
  /\ Goto(b, "leave")
  /\ UNCHANGED <<vars, job, chunk, cancelled, posterVars>>

\* After an answer the context is looked at before the next turn of the loop.
backoffOver(b) ==
  /\ driver[b] = "backoff"
  /\ Goto(b, IF b \in cancelled THEN "leave" ELSE "mark")
  /\ UNCHANGED <<vars, job, chunk, cancelled, posterVars>>

leave(b) ==
  /\ driver[b] = "leave"
  /\ UnregisterResponder(b)
  /\ Goto(b, "ended")
  /\ UNCHANGED <<job, chunk, cancelled, posterVars>>

-----------------------------------------------------------------------------
(* answer *)

\* RequestSnapshot: only questions of people are answered.
snapshot(b) ==
  /\ driver[b] = "snapshot"
  /\ mu = "free"
  /\ Goto(b, IF ByPersona(job[b]) THEN "skip" ELSE "model")
  /\ UNCHANGED <<vars, job, chunk, cancelled, posterVars>>

modelAnswers(b) ==
  /\ driver[b] = "model"
  /\ b \notin cancelled
  /\ chunk' = [chunk EXCEPT ![b] = 1]
  /\ Goto(b, "submit")
  /\ UNCHANGED <<vars, job, cancelled, posterVars>>

modelFails(b) ==
  /\ driver[b] = "model"
  /\ Goto(b, "skip")
  /\ UNCHANGED <<vars, job, chunk, cancelled, posterVars>>

\* Skip gives the request back, or fails because it is gone.
skip(b) ==
  /\ driver[b] = "skip"
  /\ \/ Skip(b)
     \/ mu = "free" /\ activeByRes[b] = None /\ UNCHANGED vars
  /\ Goto(b, "backoff")
  /\ UNCHANGED <<job, chunk, cancelled, posterVars>>

\* The session, not the request, tells SubmitFragment where the chunk belongs.
submitAccepted(b) ==
  /\ driver[b] = "submit"
  /\ b \notin cancelled
  /\ chunk[b] \in ClientSeqs
  /\ \E n \in FragmentSizes : SubmitFragment(b, chunk[b], n)
  /\ chunk' = [chunk EXCEPT ![b] = @ + 1]
  /\ UNCHANGED <<driver, job, cancelled, posterVars>>

\* The assignment is gone, or the chunk would pass the output limit.
Refused(b, n) ==
  activeByRes[b] \in
    {None} \cup {r \in Requests : AnswerLen(fragments[r]) + n > req[r].limit}
submitRefusedIgnored(b) ==
  /\ driver[b] = "submit"
  /\ b \notin cancelled
  /\ mu = "free"
  /\ chunk[b] - 1 \in ClientSeqs \cup {0}
  /\ \E n \in FragmentSizes : Refused(b, n)
  /\ chunk' = [chunk EXCEPT ![b] = @ + 1]
  /\ UNCHANGED <<vars, driver, job, cancelled, posterVars>>
submitRefusedWithoutFinish(b) ==
  /\ driver[b] = "submit"
  /\ b \notin cancelled
  /\ mu = "free"
  /\ \E n \in FragmentSizes : Refused(b, n)
  /\ Goto(b, "mark")
  /\ UNCHANGED <<vars, job, chunk, cancelled, posterVars>>
submitRefused(b) ==
  /\ driver[b] = "submit"
  /\ b \notin cancelled
  /\ mu = "free"
  /\ \E n \in FragmentSizes : Refused(b, n)
  /\ Goto(b, "finish")
  /\ UNCHANGED <<vars, job, chunk, cancelled, posterVars>>

\* The text has one chunk at least.
submitEnds(b) ==
  /\ driver[b] = "submit"
  /\ \/ b \in cancelled /\ Goto(b, "leave")
     \/ b \notin cancelled /\ chunk[b] > 1 /\ Goto(b, "finish")
  /\ UNCHANGED <<vars, job, chunk, cancelled, posterVars>>

\* Finish fails without an assignment, and without committed text.
FinishFails(b) ==
  /\ mu = "free"
  /\ activeByRes[b] \in {None} \cup {r \in Requests : fragments[r] = <<>>}
finish(b) ==
  /\ driver[b] = "finish"
  /\ Finish(b) \/ (FinishFails(b) /\ UNCHANGED vars)
  /\ Goto(b, IF b \in cancelled THEN "leave" ELSE "mark")
  /\ UNCHANGED <<job, chunk, cancelled, posterVars>>

-----------------------------------------------------------------------------
(* postQuestion and continueQuestionConversation *)

Proceed(a, state) == poster' = [poster EXCEPT ![a] = state]

\* The end of a tick: few questions are queued and beginPosting agrees.
beginPosting(a) ==
  /\ poster[a] = "none"
  /\ mu = "free"
  /\ Len(queue) < TargetQueue
  /\ ~posting
  /\ active < TargetQueue
  /\ posting' = TRUE
  /\ Proceed(a, "asking")
  /\ UNCHANGED <<vars, current, active, driverVars>>

ask(a) ==
  /\ poster[a] = "asking"
  /\ \E r \in Requests, max \in OutputLimits :
       /\ CreateRequest(a, r, TRUE, max)
       /\ current' = [current EXCEPT ![a] = r]
  /\ Proceed(a, "asked")
  /\ UNCHANGED <<posting, active, driverVars>>

enterConversation(a) ==
  /\ poster[a] = "asked"
  /\ posting' = FALSE
  /\ active' = active + 1
  /\ Proceed(a, "waiting")
  /\ UNCHANGED <<vars, current, driverVars>>

\* The deferred function of postQuestion.
ReturnUncounted(a) ==
  /\ Proceed(a, "ended")
  /\ posting' = FALSE
  /\ UNCHANGED <<current, active>>
Return(a) ==
  /\ Proceed(a, "ended")
  /\ posting' = FALSE
  /\ active' = IF poster[a] \in Talking THEN active - 1 ELSE active
  /\ UNCHANGED current

\* The model fails, or CreateRequest does.
askFails(a) ==
  /\ poster[a] = "asking"
  /\ Return(a)
  /\ UNCHANGED <<vars, driverVars>>

\* waitForPersonaAnswer: what a snapshot of the request tells.
AnsweredByPerson(r) == req[r].status = "completed" /\ req[r].responder \in People

answerArrives(a) ==
  /\ poster[a] = "waiting"
  /\ mu = "free"
  /\ AnsweredByPerson(current[a])
  /\ Proceed(a, "following")
  /\ UNCHANGED <<vars, current, posting, active, driverVars>>

conversationOver(a) ==
  /\ poster[a] = "waiting"
  /\ mu = "free"
  /\ isTerminal(req[current[a]].status)
  /\ ~AnsweredByPerson(current[a])
  /\ Return(a)
  /\ UNCHANGED <<vars, driverVars>>

\* A follow-up is still queued when FollowUpQueueTimeout has passed.
queuedTooLong(a) ==
  /\ poster[a] = "waiting"
  /\ mu = "free"
  /\ req[current[a]].preferred # None
  /\ req[current[a]].status = "queued"
  /\ Proceed(a, "giving up")
  /\ UNCHANGED <<vars, current, posting, active, driverVars>>

\* The call may come too late: then it changes nothing.
giveUp(a) ==
  /\ poster[a] = "giving up"
  /\ LET r == current[a]
     IN \/ CancelBeforeFirstFragment(r)
        \/ /\ mu = "free"
           /\ isTerminal(req[r].status) \/ fragments[r] # <<>>
           /\ UNCHANGED vars
  /\ Return(a)
  /\ UNCHANGED driverVars

followUp(a) ==
  /\ poster[a] = "following"
  /\ \E r \in Requests, max \in OutputLimits :
       /\ CreateTargetedRequest(a, r, req[current[a]].responder, max)
       /\ current' = [current EXCEPT ![a] = r]
  /\ Proceed(a, "resuming")
  /\ UNCHANGED <<posting, active, driverVars>>

followUpFails(a) ==
  /\ poster[a] = "following"
  /\ Proceed(a, "parting")
  /\ UNCHANGED <<vars, current, posting, active, driverVars>>

\* ResumeResponder refuses a session that has left; a busy one is not an error.
ResumeRefused(s) == mu = "free" /\ s \notin registered
ResumeBusy(s) == mu = "free" /\ s \in registered /\ activeByRes[s] # None

\* ResumeResponder after a follow-up; without it nobody could take the follow-up.
resumeWithoutCancel(a) ==
  LET s == req[current[a]].preferred
  IN /\ poster[a] = "resuming"
     /\ \/ /\ ResumeResponder(s) \/ (ResumeBusy(s) /\ UNCHANGED vars)
           /\ Proceed(a, "waiting")
           /\ UNCHANGED <<current, posting, active>>
        \/ ResumeRefused(s) /\ UNCHANGED vars /\ Return(a)
     /\ UNCHANGED driverVars
resume(a) ==
  LET s == req[current[a]].preferred
  IN /\ poster[a] = "resuming"
     /\ \/ /\ ResumeResponder(s) \/ (ResumeBusy(s) /\ UNCHANGED vars)
           /\ Proceed(a, "waiting")
        \/ ResumeRefused(s) /\ UNCHANGED vars /\ Proceed(a, "giving up")
     /\ UNCHANGED <<current, posting, active, driverVars>>

\* ResumeResponder without one; its error is ignored.
part(a) ==
  LET s == req[current[a]].responder
  IN /\ poster[a] = "parting"
     /\ \/ ResumeResponder(s)
        \/ (ResumeRefused(s) \/ ResumeBusy(s)) /\ UNCHANGED vars
     /\ Return(a)
     /\ UNCHANGED driverVars

-----------------------------------------------------------------------------
Drive(b) ==
  \/ startResponder(b) \/ markAvailable(b) \/ receive(b) \/ done(b)
  \/ backoffOver(b) \/ leave(b) \/ snapshot(b) \/ skip(b)
  \/ modelAnswers(b) \/ modelFails(b)
  \/ submitAccepted(b) \/ submitRefused(b) \/ submitEnds(b) \/ finish(b)

Converse(a) ==
  \/ ask(a) \/ askFails(a) \/ enterConversation(a)
  \/ answerArrives(a) \/ conversationOver(a) \/ queuedTooLong(a) \/ giveUp(a)
  \/ followUp(a) \/ followUpFails(a) \/ resume(a) \/ part(a)

\* People ask, answer and leave; ResumeResponder is the manager's.
PeopleNext ==
  \/ \E s \in People, r \in Requests, allow \in AllowChoices, max \in OutputLimits :
       CreateRequest(s, r, allow, max)
  \/ \E r \in Requests : ~ByPersona(r) /\ CancelBeforeFirstFragment(r)
  \/ \E s \in Answerers \cap People :
       \/ RegisterResponder(s) \/ UnregisterResponder(s) \/ Receive(s)
       \/ \E accept \in AcceptChoices : MarkResponderAvailable(s, accept)
       \/ Answering(s)

\* Reactions, and their time limit, are left to module Service.
TimePasses(r) == req[r].status \in Held /\ Elapse(r)

WorkNext ==
  \/ \E b \in Bots : Drive(b) \/ cancel(b)
  \/ \E a \in PersonaAskers : beginPosting(a) \/ Converse(a)
  \/ PeopleNext /\ UNCHANGED workVars
  \/ (tryAssignStep \/ tryAssignReturn) /\ UNCHANGED workVars
  \/ \E r \in Requests : (TimePasses(r) \/ SweepTimeouts(r)) /\ UNCHANGED workVars

WorkSpec == WorkInit /\ [][WorkNext]_allVars

-----------------------------------------------------------------------------
(* Properties *)

\* "else it would wedge": a persona that waits for its next assignment is offered
\* for matching, for nobody else will mark it available: neither the sweeper that
\* took its request away nor a cancellation does.  The exception is a request whose
\* output limit is smaller than a chunk: the first SubmitFragment is refused, Finish
\* fails without text, and MarkResponderAvailable finds the persona still busy.
NeverIdle ==
  \A b \in Bots :
    driver[b] = "wait" /\ inbox[b] = <<>> =>
      \/ b \in ToSet(available)
      \/ \E r \in Requests, n \in FragmentSizes :
           req[r].status # "absent" /\ req[r].limit < n

\* SubmitFragment is told a session and not a request, yet a persona's chunks go to
\* the question it has read and nowhere else, in order and without a gap, across
\* sweeps and cancellations of that question while its model was thinking.
OwnQuestion ==
  \A b \in Bots :
    activeByRes[b] # None /\ driver[b] \notin {"wait", "mark", "leave"} =>
      /\ activeByRes[b] = job[b]
      /\ driver[b] \in {"submit", "finish"} =>
           Len(fragments[job[b]]) = chunk[b] - 1

\* The books of postQuestion: activeConversations counts the conversations, and the
\* flag posting is never left behind without a goroutine that will clear it, which
\* would be the end of new questions.  (The converse fails: the end of an older
\* conversation clears the flag of one that is still asking its model.)
PostingAccounted ==
  /\ active = Cardinality({a \in PersonaAskers : poster[a] \in Talking})
  /\ posting => \E a \in PersonaAskers : poster[a] \in {"asking", "asked"}

\* A follow-up that waits in the queue, where nobody but its responder could take
\* it, has a conversation behind it that will cancel it if that responder has left,
\* or is busy or away until FollowUpQueueTimeout is over.
FollowUpWatched ==
  \A r \in Requests :
    req[r].status = "queued" /\ req[r].preferred # None =>
      \E a \in PersonaAskers :
        current[a] = r /\ poster[a] \in {"waiting", "giving up", "resuming"}
=============================================================================
