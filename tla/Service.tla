------------------------------ MODULE Service ------------------------------
(***************************************************************************)
(* The in-memory backend, backend/internal/core/service.go: the queue, the *)
(* matching of queued requests to available responders, the life cycle of  *)
(* a request from creation to a terminal status, the sweeper that ends     *)
(* silent assignments, and the points that are held, charged and paid on   *)
(* the way.                                                                *)
(*                                                                         *)
(* Every exported method of Service takes the mutex s.mu for its whole     *)
(* body, so each one is a single action here.  Two of them contain a loop  *)
(* whose length is not bounded by the call: tryAssignLocked repeats until  *)
(* no queued request has a compatible responder, and SweepTimeouts ranges  *)
(* over the map of requests in an order Go does not specify.  Variable mu  *)
(* records that such a loop is running; while it is not "free" no other    *)
(* method can start, so the iterations and the call that began them are    *)
(* one critical section, as in the code.  Only a receive from a responder's*)
(* channel, which takes no lock, can come between two iterations.          *)
(*                                                                         *)
(* Sessions, users and their signup grants exist from the start.  A session*)
(* without a user is a guest.  The text of a fragment is abstracted to its *)
(* length in runes, and time to the set `aged': the live requests whose    *)
(* timeout has run out since UpdatedAt, and the completed ones whose       *)
(* 24 hours for reactions are over.                                        *)
(***************************************************************************)
EXTENDS Slices, FiniteSetsExt, SequencesExt

CONSTANTS
  Requests,          \* request ids that newID may mint
  Sessions,          \* sessions of people and of AI personas
  Users,             \* registered accounts
  UserOf,            \* Session.UserID, NoUser for a guest
  KindOf,            \* KindOrHuman(Session.Kind)
  PersonaAskers,     \* persona sessions minted to ask (postQuestion)
  Answerers,         \* sessions that connect as responders
  NoUser,            \* the empty user id
  None,              \* the empty request or session id
  SignupGrant, QuestionCost, BaseAnswerReward, DislikeReward,
  OutputLimitChars,  \* the largest output limit of a request
  OutputLimits,      \* the max_tokens values that callers pass
  AllowChoices,      \* the allow_ai_answers values that callers pass
  AcceptChoices,     \* the accept_ai_questions values that people declare
  ReactionChoices,   \* the reactions that requesters send
  ClientSeqs,        \* the client_seq values a responder uses
  FragmentSizes,     \* the lengths of the fragments it sends
  ChannelCap         \* capacity of a responder's channel (4 in the code)

\* AcquireFallbackAssignment answers request r under the session "fallback_" + r.
FallbackSession(r) == <<"fallback", r>>
FallbackSessions == {FallbackSession(r) : r \in Requests}
Responders == Sessions \cup FallbackSessions

Kinds == {"human", "ai_persona"}
Reactions == {"none", "like", "dislike"}
LedgerKinds == {"question_charge", "answer_reward", "reaction_adjustment"}

ASSUME RequestsAssumption == IsFiniteSet(Requests) /\ None \notin Requests
ASSUME SessionsAssumption ==
  /\ None \notin Responders
  /\ Sessions \cap FallbackSessions = {}
  /\ NoUser \notin Users
  /\ UserOf \in [Sessions -> Users \cup {NoUser}]
  /\ KindOf \in [Sessions -> Kinds]
  /\ \A s \in PersonaAskers : s \in Sessions /\ KindOf[s] = "ai_persona"
  /\ Answerers \subseteq Sessions \ PersonaAskers
  \* PersonaSession mints guest sessions only
  /\ \A s \in Sessions : KindOf[s] = "ai_persona" => UserOf[s] = NoUser
ASSUME PointsAssumption ==
  /\ SignupGrant \in Nat
  /\ QuestionCost \in Nat \ {0}
  /\ BaseAnswerReward \in Nat
  /\ DislikeReward \in Nat
ASSUME LimitsAssumption ==
  /\ OutputLimitChars \in Nat \ {0}
  /\ OutputLimits \subseteq Int
  /\ AllowChoices \subseteq BOOLEAN
  /\ AcceptChoices \subseteq BOOLEAN
  /\ ReactionChoices \subseteq Reactions
  /\ FragmentSizes \subseteq Nat \ {0}
  /\ ChannelCap \in Nat \ {0}

VARIABLES
  req,          \* requests: id -> Request ("absent" before it is created)
  fragments,    \* fragments and seqSeen: id -> committed fragments, in order
  queue,        \* queue: ids waiting for a responder
  available,    \* available: sessions waiting for a request
  activeByRes,  \* activeByRes: session -> the request it is answering
  registered,   \* the keys of responders
  inbox,        \* responders: session -> assignments in its channel
  acceptAI,     \* acceptAI, an absent key being TRUE (responderAcceptsAILocked)
  ledger,       \* ledger: sum of the deltas by user, request and kind
  aged,         \* requests whose timeout or reaction window has run out
  mu            \* "free", or the loop the holder of s.mu is in

vars == <<req, fragments, queue, available, activeByRes, registered, inbox,
          acceptAI, ledger, aged, mu>>

-----------------------------------------------------------------------------
(* Requests *)

Completed == {"completed", "timeout_completed"}
Terminal == Completed \cup {"abandoned"}
Held == {"assigned", "streaming"}
isTerminal(status) == status \in Terminal

RequestType ==
  [status    : {"absent", "queued"} \cup Held \cup Terminal,
   asker     : Sessions \cup {None},      \* RequesterSessionID
   allowAI   : BOOLEAN,                   \* AllowAIAnswers
   preferred : Sessions \cup {None},      \* PreferredResponderSessionID
   responder : Responders \cup {None},    \* ResponderSessionID
   frozen    : {0, QuestionCost},         \* FrozenPoints
   charged   : BOOLEAN,                   \* QuestionCharged
   limit     : Nat,                       \* OutputLimit
   finish    : {"", "stop", "length", "partial"},
   reaction  : Reactions,
   created   : Nat]                       \* CreatedAt

AbsentRequest ==
  [status |-> "absent", asker |-> None, allowAI |-> TRUE, preferred |-> None,
   responder |-> None, frozen |-> 0, charged |-> FALSE, limit |-> 0,
   finish |-> "", reaction |-> "none", created |-> 0]

FragmentType == [from : Responders, seq : ClientSeqs, size : FragmentSizes]

RequesterUser(r) == IF req[r].asker = None THEN NoUser ELSE UserOf[req[r].asker]

\* ResponderUserID: empty for a guest, a persona and the fallback.
ResponderUser(r) ==
  IF req[r].responder \in Sessions THEN UserOf[req[r].responder] ELSE NoUser

ByPersona(r) == req[r].asker # None /\ KindOf[req[r].asker] = "ai_persona"

AnswerLen(frags) == FoldLeft(LAMBDA n, f : n + f.size, 0, frags)

\* What the code does to the fields of a request, per transition.
Assigned(q, s) == [q EXCEPT !.status = "assigned", !.responder = s]
RequeuedAsStatus(q) == [q EXCEPT !.status = "requeued", !.responder = None]
Requeued(q) == [q EXCEPT !.status = "queued", !.responder = None]
Abandoned(q) ==
  [q EXCEPT !.status = "abandoned", !.responder = None, !.frozen = 0]
StreamingKeepsHold(q) == [q EXCEPT !.status = "streaming", !.charged = TRUE]
Streaming(q) ==
  [q EXCEPT !.status = "streaming", !.charged = TRUE, !.frozen = 0]
Finished(q, reason) ==
  [q EXCEPT !.status = IF reason = "partial" THEN "timeout_completed"
                                             ELSE "completed",
            !.finish = reason]

-----------------------------------------------------------------------------
(* Points *)

addLedger(led, u, r, kind, delta) == [led EXCEPT ![<<u, r, kind>>] = @ + delta]

rewardFor(reaction) ==
  CASE reaction = "like" -> 2 * BaseAnswerReward
    [] reaction = "dislike" -> DislikeReward
    [] OTHER -> BaseAnswerReward

\* What React posts when a reaction replaces an earlier one.
AdjustmentFromBase(old, new) == rewardFor(new) - BaseAnswerReward
Adjustment(old, new) == rewardFor(new) - rewardFor(old)

\* balanceLocked: the ledger's total less what live requests hold.
TotalPoints(u) ==
  SignupGrant + MapThenSumSet(LAMBDA k : ledger[k], {u} \X Requests \X LedgerKinds)
HeldIgnored(u) == 0
HeldPoints(u) ==
  MapThenSumSet(LAMBDA r : req[r].frozen,
                {r \in Requests : RequesterUser(r) = u /\ ~isTerminal(req[r].status)})
AvailablePoints(u) == TotalPoints(u) - HeldPoints(u)

\* The question charge of the first committed fragment.
Charge(led, r) ==
  IF ~req[r].charged /\ RequesterUser(r) # NoUser
    THEN addLedger(led, RequesterUser(r), r, "question_charge", -QuestionCost)
    ELSE led

\* completeLocked pays a registered responder for a non-empty answer.
Reward(led, r, frags) ==
  IF frags # <<>> /\ ResponderUser(r) # NoUser
    THEN addLedger(led, ResponderUser(r), r, "answer_reward", BaseAnswerReward)
    ELSE led

-----------------------------------------------------------------------------
Init ==
  /\ req = [r \in Requests |-> AbsentRequest]
  /\ fragments = [r \in Requests |-> <<>>]
  /\ queue = <<>>
  /\ available = <<>>
  /\ activeByRes = [s \in Responders |-> None]
  /\ registered = {}
  /\ inbox = [s \in Sessions |-> <<>>]
  /\ acceptAI = [s \in Sessions |-> TRUE]
  /\ ledger = [k \in Users \X Requests \X LedgerKinds |-> 0]
  /\ aged = {}
  /\ mu = "free"

-----------------------------------------------------------------------------
(* Matching *)

\* The conditions of compatiblePairLocked on a queue entry and an available
\* session.  An entry that is assigned already would be taken a second time:
\* only terminal and streaming requests are skipped.
CompatibleWithoutReservation(r, s) ==
  /\ req[r].status \notin Terminal \cup {"streaming"}
  /\ activeByRes[s] = None
  /\ s \in registered
  /\ KindOf[s] = "ai_persona" => req[r].allowAI
  /\ ByPersona(r) => KindOf[s] # "ai_persona" /\ acceptAI[s]
Compatible(r, s) ==
  /\ req[r].status \notin Terminal \cup {"streaming"}
  /\ activeByRes[s] = None
  /\ s \in registered
  /\ req[r].preferred \in {None, s}
  /\ KindOf[s] = "ai_persona" => req[r].allowAI
  /\ ByPersona(r) => KindOf[s] # "ai_persona" /\ acceptAI[s]

CompatibleAt(i, j) == Compatible(queue[i], available[j])

\* compatiblePairLocked scans the queue and, for each entry, the sessions.
FirstPair(i, j) ==
  /\ CompatibleAt(i, j)
  /\ \A k \in DOMAIN queue, l \in DOMAIN available :
       CompatibleAt(k, l) => i < k \/ (i = k /\ j <= l)

\* One iteration of tryAssignLocked.  A full channel sends the request to the
\* tail of the queue; the session has left the available list either way.
AssignPair(i, j) ==
  LET r == queue[i]
      s == available[j]
  IN /\ available' = RemoveIndex(available, j)
     /\ aged' = aged \ {r}
     /\ \/ /\ Len(inbox[s]) < ChannelCap
           /\ queue' = RemoveIndex(queue, i)
           /\ req' = [req EXCEPT ![r] = Assigned(req[r], s)]
           /\ activeByRes' = [activeByRes EXCEPT ![s] = r]
           /\ inbox' = [inbox EXCEPT ![s] = Append(inbox[s], r)]
        \/ /\ Len(inbox[s]) >= ChannelCap
           /\ queue' = Append(RemoveIndex(queue, i), r)
           /\ req' = [req EXCEPT ![r] = Requeued(req[r])]
           /\ activeByRes' = [activeByRes EXCEPT ![s] = None]
           /\ inbox' = inbox
     /\ UNCHANGED <<fragments, registered, acceptAI, ledger, mu>>

tryAssignStep ==
  /\ mu = "assign"
  /\ \E i \in DOMAIN queue, j \in DOMAIN available :
       FirstPair(i, j) /\ AssignPair(i, j)

tryAssignReturn ==
  /\ mu = "assign"
  /\ \A i \in DOMAIN queue, j \in DOMAIN available : ~CompatibleAt(i, j)
  /\ mu' = "free"
  /\ UNCHANGED <<req, fragments, queue, available, activeByRes, registered,
                 inbox, acceptAI, ledger, aged>>

-----------------------------------------------------------------------------
(* Transitions shared by the methods.  Each assigns req, queue, activeByRes, *)
(* ledger and aged (UpdatedAt = now).                                        *)

ReleaseForgotten(s) == activeByRes
Release(s) == IF s = None THEN activeByRes
                          ELSE [activeByRes EXCEPT ![s] = None]

requeueLocked(r) ==
  /\ activeByRes' = Release(req[r].responder)
  /\ req' = [req EXCEPT ![r] = Requeued(req[r])]
  /\ queue' = Append(queue, r)
  /\ aged' = aged \ {r}
  /\ UNCHANGED ledger

abandonLocked(r) ==
  /\ queue' = RemoveValue(queue, r)
  /\ activeByRes' = Release(req[r].responder)
  /\ req' = [req EXCEPT ![r] = Abandoned(req[r])]
  /\ aged' = aged \ {r}
  /\ UNCHANGED ledger

completeLocked(r, reason) ==
  /\ ~isTerminal(req[r].status)
  /\ activeByRes' = Release(req[r].responder)
  /\ req' = [req EXCEPT ![r] = Finished(req[r], reason)]
  /\ aged' = aged \ {r}
  /\ ledger' = Reward(ledger, r, fragments[r])
  /\ UNCHANGED queue

\* How an assignment without a committed fragment ends when its responder is
\* gone or silent: a follow-up reserved for that responder is abandoned.
giveBackLocked(r) ==
  IF req[r].preferred # None THEN abandonLocked(r) ELSE requeueLocked(r)

\* How a disconnect and a timeout end an assignment.
endAssignmentAlwaysBack(r) == giveBackLocked(r)
endAssignment(r) ==
  IF fragments[r] = <<>> THEN giveBackLocked(r) ELSE completeLocked(r, "partial")

-----------------------------------------------------------------------------
(* Requester operations *)

\* createRequest, for a caller whose balance covers the question.
createRequest(s, r, allow, pref, max) ==
  /\ mu = "free"
  /\ req[r].status = "absent"
  /\ UserOf[s] # NoUser => AvailablePoints(UserOf[s]) >= QuestionCost
  /\ req' = [req EXCEPT ![r] =
       [AbsentRequest EXCEPT
          !.status = "queued", !.asker = s, !.allowAI = allow,
          !.preferred = pref,
          !.frozen = IF UserOf[s] # NoUser THEN QuestionCost ELSE 0,
          !.limit = IF max <= 0 \/ max > OutputLimitChars
                      THEN OutputLimitChars ELSE max,
          !.created = Cardinality({x \in Requests : req[x].status # "absent"})]]
  /\ queue' = Append(queue, r)
  /\ mu' = "assign"
  /\ UNCHANGED <<fragments, available, activeByRes, registered, inbox,
                 acceptAI, ledger, aged>>

CreateRequest(s, r, allow, max) == createRequest(s, r, allow, None, max)

\* A persona's follow-up question, reserved for the human session p that
\* answered the preceding turn.
CreateTargetedRequest(s, r, p, max) ==
  /\ KindOf[s] = "ai_persona"
  /\ createRequest(s, r, FALSE, p, max)

CancelBeforeFirstFragment(r) ==
  /\ mu = "free"
  /\ req[r].status \notin {"absent"} \cup Terminal
  /\ fragments[r] = <<>>
  /\ abandonLocked(r)
  /\ UNCHANGED <<fragments, available, registered, inbox, acceptAI, mu>>

\* React: the sum of reward and adjustments follows the latest reaction.
React(s, r, reaction) ==
  /\ mu = "free"
  /\ req[r].status # "absent"
  /\ IF UserOf[s] # NoUser THEN RequesterUser(r) = UserOf[s]
                           ELSE req[r].asker = s
  /\ req[r].status \in Completed
  /\ r \notin aged
  /\ req' = [req EXCEPT ![r].reaction = reaction]
  /\ ledger' = IF ResponderUser(r) = NoUser THEN ledger
               ELSE addLedger(ledger, ResponderUser(r), r, "reaction_adjustment",
                              Adjustment(req[r].reaction, reaction))
  /\ UNCHANGED <<fragments, queue, available, activeByRes, registered, inbox,
                 acceptAI, aged, mu>>

-----------------------------------------------------------------------------
(* Responder operations *)

\* A second registration of a session replaces its channel by an empty one.
RegisterResponder(s) ==
  /\ mu = "free"
  /\ registered' = registered \cup {s}
  /\ inbox' = [inbox EXCEPT ![s] = <<>>]
  /\ UNCHANGED <<req, fragments, queue, available, activeByRes, acceptAI,
                 ledger, aged, mu>>

\* UnregisterResponder does not call tryAssignLocked after it requeues.
UnregisterResponder(s) ==
  /\ mu = "free"
  /\ registered' = registered \ {s}
  /\ inbox' = [inbox EXCEPT ![s] = <<>>]
  /\ acceptAI' = [acceptAI EXCEPT ![s] = TRUE]
  /\ available' = RemoveValue(available, s)
  /\ LET r == activeByRes[s]
     IN IF r = None \/ (r \in Requests /\ isTerminal(req[r].status))
          THEN UNCHANGED <<req, queue, activeByRes, ledger, aged>>
          ELSE endAssignment(r)
  /\ UNCHANGED <<fragments, mu>>

\* The common tail of MarkResponderAvailable and ResumeResponder.
becomeAvailableTwice(s) == available' = Append(available, s) /\ mu' = "assign"
becomeAvailableUnmatched(s) ==
  /\ available' = IF s \in ToSet(available) THEN available
                                            ELSE Append(available, s)
  /\ mu' = mu
becomeAvailable(s) ==
  /\ available' = IF s \in ToSet(available) THEN available
                                            ELSE Append(available, s)
  /\ mu' = "assign"

MarkResponderAvailable(s, accept) ==
  /\ mu = "free"
  /\ s \in registered
  /\ acceptAI' = [acceptAI EXCEPT ![s] = accept]
  /\ IF activeByRes[s] # None THEN UNCHANGED <<available, mu>>
                              ELSE becomeAvailable(s)
  /\ UNCHANGED <<req, fragments, queue, activeByRes, registered, inbox, ledger,
                 aged>>

ResumeResponder(s) ==
  /\ mu = "free"
  /\ s \in registered
  /\ activeByRes[s] = None
  /\ becomeAvailable(s)
  /\ UNCHANGED <<req, fragments, queue, activeByRes, registered, inbox,
                 acceptAI, ledger, aged>>

\* The responder's connection takes an assignment from its channel: no lock.
Receive(s) ==
  /\ inbox[s] # <<>>
  /\ inbox' = [inbox EXCEPT ![s] = Tail(inbox[s])]
  /\ UNCHANGED <<req, fragments, queue, available, activeByRes, registered,
                 acceptAI, ledger, aged, mu>>

\* The request is one that AcquireFallbackAssignment hands out.
FallbackMayAcquire(r) ==
  /\ req[r].preferred = None
  /\ req[r].allowAI
  /\ req[r].status = "queued"
  /\ fragments[r] = <<>>

AcquireFallbackAssignment(r) ==
  /\ mu = "free"
  /\ FallbackMayAcquire(r)
  /\ queue' = RemoveValue(queue, r)
  /\ req' = [req EXCEPT ![r] = Assigned(req[r], FallbackSession(r))]
  /\ activeByRes' = [activeByRes EXCEPT ![FallbackSession(r)] = r]
  /\ aged' = aged \ {r}
  /\ UNCHANGED <<fragments, available, registered, inbox, acceptAI, ledger, mu>>

\* seqSeen: session s already committed client_seq q for this request.
SeqForgotten(r, s, q) == FALSE
SeqSeen(r, s, q) ==
  \E i \in DOMAIN fragments[r] : fragments[r][i].from = s /\ fragments[r][i].seq = q

\* The committed answer has used up the request's output limit.
LimitPassed(r, frags) == AnswerLen(frags) > req[r].limit
LimitReached(r, frags) == AnswerLen(frags) >= req[r].limit

\* A fragment of n runes.  It is refused past the limit and completes the
\* answer with finish reason "length" when it reaches the limit exactly.  A
\* retry of a client_seq seen before changes nothing.
SubmitFragment(s, q, n) ==
  LET r == activeByRes[s]
      frags == Append(fragments[r], [from |-> s, seq |-> q, size |-> n])
      full == LimitReached(r, frags)
  IN /\ mu = "free"
     /\ r # None
     /\ ~isTerminal(req[r].status)
     /\ ~SeqSeen(r, s, q)
     /\ AnswerLen(frags) <= req[r].limit
     /\ fragments' = [fragments EXCEPT ![r] = frags]
     /\ aged' = aged \ {r}
     /\ \/ /\ ~full
           /\ req' = [req EXCEPT ![r] = Streaming(req[r])]
           /\ ledger' = Charge(ledger, r)
           /\ activeByRes' = activeByRes
        \/ /\ full
           /\ req' = [req EXCEPT ![r] = Finished(Streaming(req[r]), "length")]
           /\ ledger' = Reward(Charge(ledger, r), r, frags)
           /\ activeByRes' = Release(s)
     /\ UNCHANGED <<queue, available, registered, inbox, acceptAI, mu>>

Finish(s) ==
  LET r == activeByRes[s]
  IN /\ mu = "free"
     /\ r # None
     /\ fragments[r] # <<>>
     /\ completeLocked(r, "stop")
     /\ UNCHANGED <<fragments, available, registered, inbox, acceptAI, mu>>

\* The question of a persona is abandoned when it is skipped, and so is a
\* reserved one; any other goes back to the queue and is matched again.
Skip(s) ==
  LET r == activeByRes[s]
  IN /\ mu = "free"
     /\ r # None
     /\ fragments[r] = <<>>
     /\ IF req[r].preferred # None \/ ByPersona(r)
          THEN abandonLocked(r) /\ mu' = mu
          ELSE requeueLocked(r) /\ mu' = "assign"
     /\ UNCHANGED <<fragments, available, registered, inbox, acceptAI>>

-----------------------------------------------------------------------------
(* Time *)

Elapse(r) ==
  /\ mu = "free"
  /\ req[r].status \in Held \cup Completed
  /\ r \notin aged
  /\ aged' = aged \cup {r}
  /\ UNCHANGED <<req, fragments, queue, available, activeByRes, registered,
                 inbox, acceptAI, ledger, mu>>

TimedOutAssignedOnly(r) ==
  r \in aged /\ req[r].status = "assigned" /\ fragments[r] = <<>>
TimedOut(r) ==
  /\ r \in aged
  /\ \/ req[r].status = "assigned" /\ fragments[r] = <<>>
     \/ req[r].status = "streaming" /\ fragments[r] # <<>>

\* SweepTimeouts: one iteration of its loop over the requests, the first of
\* which takes the lock.  After the last, tryAssignLocked runs if there was
\* any; a sweep that finds nothing changes nothing.
SweepTimeouts(r) ==
  /\ mu \in {"free", "sweep"}
  /\ TimedOut(r)
  /\ endAssignment(r)
  /\ mu' = IF \E x \in Requests \ {r} : TimedOut(x) THEN "sweep" ELSE "assign"
  /\ UNCHANGED <<fragments, available, registered, inbox, acceptAI>>

-----------------------------------------------------------------------------
(* Who calls what: people ask over HTTP, answer over a WebSocket and react;   *)
(* the persona manager asks with the default preference, declares its         *)
(* responders without AI questions, and reserves follow-ups for the people    *)
(* who answered.  The fallback is scheduled for HTTP questions only.          *)

People == {s \in Sessions : KindOf[s] = "human"}

RequesterNext ==
  \/ \E r \in Requests, max \in OutputLimits :
       \/ \E s \in People, allow \in AllowChoices : CreateRequest(s, r, allow, max)
       \/ \E s \in PersonaAskers : CreateRequest(s, r, TRUE, max)
       \/ \E s \in PersonaAskers, p \in People : CreateTargetedRequest(s, r, p, max)
  \/ \E r \in Requests : CancelBeforeFirstFragment(r)
  \/ \E s \in People, r \in Requests, reaction \in ReactionChoices :
       React(s, r, reaction)

\* What the connection of a responder does beside answering.
Connected(s) ==
  \/ RegisterResponder(s)
  \/ UnregisterResponder(s)
  \/ \E accept \in IF s \in People THEN AcceptChoices ELSE {FALSE} :
       MarkResponderAvailable(s, accept)
  \/ s \in People /\ ResumeResponder(s)
  \/ Receive(s)

Answering(s) ==
  \/ \E q \in ClientSeqs, n \in FragmentSizes : SubmitFragment(s, q, n)
  \/ Finish(s)
  \/ Skip(s)

ResponderNext ==
  \/ \E s \in Answerers : Connected(s)
  \/ \E r \in Requests : ~ByPersona(r) /\ AcquireFallbackAssignment(r)
  \/ \E s \in Responders : Answering(s)

Next ==
  \/ RequesterNext
  \/ ResponderNext
  \/ tryAssignStep
  \/ tryAssignReturn
  \/ \E r \in Requests : Elapse(r) \/ SweepTimeouts(r)

Spec == Init /\ [][Next]_vars

\* The sweeper's ticker fires every second and Go's mutex hands itself to the
\* goroutine that has waited longest, so a sweep that has something to do is
\* not put off forever; a loop that runs under the lock ends; time passes.
Fairness ==
  /\ WF_vars(tryAssignStep \/ tryAssignReturn)
  /\ \A r \in Requests : SF_vars(Elapse(r)) /\ SF_vars(SweepTimeouts(r))

-----------------------------------------------------------------------------
(* Properties *)

TypeOK ==
  /\ req \in [Requests -> RequestType]
  /\ fragments \in [Requests -> Seq(FragmentType)]
  /\ queue \in Seq(Requests)
  /\ available \in Seq(Sessions)
  /\ activeByRes \in [Responders -> Requests \cup {None}]
  /\ registered \in SUBSET Sessions
  /\ inbox \in [Sessions -> Seq(Requests)]
  /\ acceptAI \in [Sessions -> BOOLEAN]
  /\ ledger \in [Users \X Requests \X LedgerKinds -> Int]
  /\ aged \in SUBSET Requests
  /\ mu \in {"free", "assign", "sweep"}

\* activeByRes and the requests tell the same story: a session answers at most
\* one request, a request is answered by at most one session (SPEC 4.3), and
\* every assigned or streaming request can be reached through its session:
\* SubmitFragment, Finish, Skip and UnregisterResponder find it no other way.
\* Only an answer keeps the name of its responder after that.
OneAssignment ==
  /\ \A s \in Responders, r \in Requests :
       activeByRes[s] = r <=> req[r].status \in Held /\ req[r].responder = s
  /\ \A r \in Requests :
       req[r].status \in Held \cup Completed <=> req[r].responder # None

\* The queue holds exactly the queued requests, each once: requeueLocked appends
\* without looking, and compatiblePairLocked would hand out an assigned entry.
QueueExact ==
  /\ \A i, j \in DOMAIN queue : queue[i] = queue[j] => i = j
  /\ \A r \in Requests :
       req[r].status = "queued" <=> \E i \in DOMAIN queue : queue[i] = r

\* The sessions offered for matching are connected, idle, and offered once; a
\* session that holds an assignment is connected, so that its disconnect will
\* give the request back.
PoolConsistent ==
  /\ \A i, j \in DOMAIN available : available[i] = available[j] => i = j
  /\ \A i \in DOMAIN available :
       available[i] \in registered /\ activeByRes[available[i]] = None
  /\ \A s \in Sessions : activeByRes[s] # None => s \in registered

\* Who may answer (SPEC 4.2, 4.3): without allow_ai_answers neither a persona nor
\* the fallback, a persona's question only people, and a reserved follow-up only
\* the session it is reserved for; from assignment to the finished answer.  The
\* fallback of one request never answers another.
RespectsConsent(r) ==
  req[r].responder # None =>
    LET s == req[r].responder
        ai == s \in Sessions => KindOf[s] = "ai_persona"
    IN /\ ai => req[r].allowAI /\ ~ByPersona(r)
       /\ req[r].preferred # None => s = req[r].preferred
       /\ s \in Sessions \cup {FallbackSession(r)}
ConsentRespected == \A r \in Requests : RespectsConsent(r)

\* The committed text of an answer comes from one session, the one credited with
\* it, and every client_seq contributes once however often it is retried.
HasSingleAuthor(r) ==
  /\ \A i \in DOMAIN fragments[r] : fragments[r][i].from = req[r].responder
  /\ \A i, j \in DOMAIN fragments[r] :
       fragments[r][i].seq = fragments[r][j].seq => i = j
SingleAuthor == \A r \in Requests : HasSingleAuthor(r)

\* The output limit is never passed, an answer that reaches it is closed with
\* finish reason "length", and no other answer is.
AnswerWithinLimit ==
  \A r \in Requests : req[r].status # "absent" =>
    /\ AnswerLen(fragments[r]) <= req[r].limit
    /\ AnswerLen(fragments[r]) = req[r].limit <=> req[r].finish = "length"

\* Points of a registered requester are held from creation until the first
\* committed fragment or abandonment, never both held and charged, and the
\* charge comes with the first fragment.
HoldsUntilFirstFragment(r) ==
  /\ req[r].charged <=> fragments[r] # <<>>
  /\ fragments[r] # <<>> <=> req[r].status \in {"streaming"} \cup Completed
  /\ req[r].frozen > 0 <=> /\ req[r].status \in {"queued", "assigned"}
                           /\ RequesterUser(r) # NoUser
HoldUntilFirstFragment == \A r \in Requests : HoldsUntilFirstFragment(r)

\* The ledger of a request at any time: one charge to its requester once text was
\* committed, one base reward to its responder once completed, and adjustments
\* that bring the reward to that of the latest reaction, however often it changed.
LedgerOf(r) ==
  /\ \A u \in Users :
       /\ ledger[<<u, r, "question_charge">>] =
            IF req[r].charged /\ u = RequesterUser(r) THEN -QuestionCost ELSE 0
       /\ ledger[<<u, r, "answer_reward">>] =
            IF req[r].status \in Completed /\ u = ResponderUser(r)
              THEN BaseAnswerReward ELSE 0
       /\ ledger[<<u, r, "reaction_adjustment">>] =
            IF req[r].status \in Completed /\ u = ResponderUser(r)
              THEN rewardFor(req[r].reaction) - BaseAnswerReward ELSE 0
  /\ req[r].status \notin Completed => req[r].reaction = "none"
LedgerExact == \A r \in Requests : LedgerOf(r)

\* Holds are what keeps concurrent questions of one user within its balance: only
\* a reaction to one of its answers can take the available points below zero.
NoOverdraft ==
  [][\A u \in Users : AvailablePoints(u) >= 0 /\ AvailablePoints(u)' < 0 =>
       \E r \in Requests : ResponderUser(r) = u /\ req'[r].reaction # req[r].reaction]_vars

\* "After the first committed assistant fragment exists, the responder owns the
\* answer until finish, disconnect, or timeout" (SPEC 4.4): committed text only
\* grows, never changes hands, never goes back to the queue, and a request that
\* has ended changes in nothing but its reaction.
CommittedAnswerOwned ==
  [][\A r \in Requests :
       /\ fragments[r] # <<>> =>
            /\ IsPrefix(fragments[r], fragments'[r])
            /\ req'[r].responder = req[r].responder
            /\ req'[r].status \in {"streaming"} \cup Completed
       /\ isTerminal(req[r].status) =>
            /\ fragments'[r] = fragments[r]
            /\ req'[r] = [req[r] EXCEPT !.reaction = req'[r].reaction]]_vars

\* A queued request and an available responder that fit each other.
Unmatched ==
  \E i \in DOMAIN queue, j \in DOMAIN available : CompatibleAt(i, j)

\* Every method but UnregisterResponder leaves no such pair when it returns.
MatchedUnlessDisconnect ==
  [][mu = "free" /\ ~Unmatched /\ mu' = "free" /\ Unmatched' =>
       \E s \in registered : s \notin registered']_vars

\* A responder that goes silent does not keep a request forever: the sweeper
\* gives an assigned request back, and closes an answer that has begun.
SilenceEnds ==
  \A r \in Requests :
    /\ req[r].status = "assigned" ~> req[r].status # "assigned"
    /\ req[r].status = "streaming" ~> req[r].status \in Completed
=============================================================================
