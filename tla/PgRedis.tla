------------------------------ MODULE PgRedis ------------------------------
(***************************************************************************)
(* The Postgres and Redis backend, backend/internal/pgredis: lifecycle.go, *)
(* coordinator.go and the reads of requests_read.go they use.  Several     *)
(* pods serve one database and one Redis.                                  *)
(*                                                                         *)
(* A transaction or a single statement on Postgres is one step, and so is  *)
(* a call of Redis, a script included.  A method that makes several of     *)
(* them is an action that takes the first step and leaves the others to do *)
(* in todo[p], in the order of the code; steps of other pods come between, *)
(* and a crash of the pod loses the rest.  A pod of the model runs one     *)
(* method at a time: two methods of one process interleave as those of two *)
(* pods do, since all they share is the map of local connections.          *)
(*                                                                         *)
(* A session has at most one socket on a pod.  Time is abstracted to due,  *)
(* the rows whose updated_at is older than their timeout, and to present,  *)
(* the sessions whose heartbeat is younger than presenceTTL.  Left out are *)
(* the lock keys, which are written and never read, the messages of        *)
(* publishStream and publishAssignment, which change no state of the       *)
(* backend (module PgStream reads the stream), retried client_seqs and     *)
(* reactions (module Service), and the error paths of sessions that are    *)
(* gone, for no code deletes a session.                                    *)
(***************************************************************************)
EXTENDS Slices, FiniteSetsExt, SequencesExt

CONSTANTS
  Pods,             \* instances of the server
  Requests,         \* request ids that newID may mint
  Humans, Personas, \* sessions that connect as responders
  Declining,        \* those that declare accept_ai_questions = false
  Accounts,         \* those of registered users, who are paid
  Owned,            \* the requests of one registered user
  AskedByPersona,   \* the requests of persona sessions
  AllowChoices,     \* the allow_ai_answers values that people pass
  PreferredChoices, \* the responders that personas' follow-ups are reserved for
  Grant,            \* the user's points at the start, in units of QuestionCost
  MaxFragments,     \* bound on the fragments of an answer
  MaxCalls,         \* bound on the methods that clients call
  MaxFaults,        \* bound on crashes, failed statements and late heartbeats
  None              \* the empty id

Responders == Humans \cup Personas

\* A fallback session "fallback_" + q is named by its request q.
Sessions == Responders \cup Requests

ASSUME PgRedisAssumption ==
  /\ IsFiniteSet(Requests) /\ IsFiniteSet(Pods) /\ IsFiniteSet(Personas)
  /\ Humans \cap Personas = {} /\ Requests \cap Responders = {}
  /\ None \notin Sessions
  /\ Personas \subseteq Declining /\ Declining \subseteq Responders
  /\ Accounts \subseteq Humans
  /\ Owned \subseteq Requests /\ AskedByPersona \subseteq Requests
  \* PersonaSession mints guest sessions only
  /\ Owned \cap AskedByPersona = {}
  /\ AllowChoices \subseteq BOOLEAN /\ PreferredChoices \subseteq Humans
  /\ Grant \in Nat /\ MaxFragments \in Nat \ {0} /\ MaxFaults \in Nat
  /\ MaxCalls \in Nat

VARIABLES
  row,       \* requests and fragments: id -> row, with the authors of its answer
  reward,    \* point_ledger: id -> the responder of its answer_reward entry
  due,       \* rows whose updated_at is past the timeout of their status
  queue,     \* ds:queue
  avail,     \* ds:avail
  present,   \* ds:presence: the sessions with a fresh score
  declined,  \* ds:responder:accept-ai: the sessions with '0'
  untagged,  \* ds:responder:kind: the personas without an entry
  calls,     \* the number of methods that clients have called
  conn,      \* b.responders: session -> the pods that have it connected
  todo,      \* pod -> the steps left of the method it runs
  overdue,   \* pod -> the rows not updated since the cutoff of its sweep
  faults,    \* the faults so far
  lost,      \* history: requests that a crash or an error kept from the queue
  robbed,    \* history: requests that another session's disconnect took away
  lapsed     \* history: sessions whose hashes were deleted while connected

pgVars == <<row, reward, due, overdue>>
hashVars == <<declined, untagged, lapsed>>
redisVars == <<queue, avail, present, hashVars>>
faultVars == <<faults, lost, robbed>>
vars == <<pgVars, redisVars, conn, todo, faultVars, calls>>

-----------------------------------------------------------------------------
(* Rows *)

Answered == {"completed", "timeout_completed"}
Terminal == Answered \cup {"abandoned"}
Held == {"assigned", "streaming"}
isTerminalStatus(status) == status \in Terminal

RowType ==
  [status    : {"absent", "queued"} \cup Held \cup Terminal,
   responder : Sessions \cup {None},   \* responder_session_id
   answer    : Seq(Sessions),          \* fragments, by ordinal
   allowAI   : BOOLEAN,                \* allow_ai_answers
   preferred : Humans \cup {None},     \* preferred_responder_session_id
   frozen    : BOOLEAN,                \* frozen_points > 0
   charged   : BOOLEAN]                \* question_charged

AbsentRow ==
  [status |-> "absent", responder |-> None, answer |-> <<>>, allowAI |-> TRUE,
   preferred |-> None, frozen |-> FALSE, charged |-> FALSE]

Live(q) == row[q].status # "absent" /\ ~isTerminalStatus(row[q].status)

\* The rows that activeRequestForResponder and activeRequestTx choose from.  They
\* take the one updated last; where a session holds two, so may any.
Active(s) == {q \in Requests : row[q].responder = s /\ Live(q)}

\* The points of the user: what the ledger has, and what live requests hold.
Total == Grant - Cardinality({q \in Owned : row[q].charged})
HeldPoints == Cardinality({q \in Owned : row[q].frozen /\ Live(q)})

\* Every UPDATE of a row sets updated_at, so that it is no longer due for anyone.
Update(q, new) ==
  /\ row' = [row EXCEPT ![q] = new]
  /\ due' = due \ {q}
  /\ overdue' = [p \in Pods |-> overdue[p] \ {q}]

Assigned(q, s) == [row[q] EXCEPT !.status = "assigned", !.responder = s]
RequeuedAsStatus(q) == [row[q] EXCEPT !.status = "requeued", !.responder = None]
Requeued(q) == [row[q] EXCEPT !.status = "queued", !.responder = None]
AbandonedKeepsHold(q) == [row[q] EXCEPT !.status = "abandoned", !.responder = None]
Abandoned(q) ==
  [row[q] EXCEPT !.status = "abandoned", !.responder = None, !.frozen = FALSE]

\* completeRequestTx pays the responder s that its caller has read.
completeRequestTx(q, new, status, s) ==
  /\ Update(q, [new EXCEPT !.status = status])
  /\ reward' = IF s \in Accounts /\ reward[q] = None /\ new.answer # <<>>
                 THEN [reward EXCEPT ![q] = s] ELSE reward

-----------------------------------------------------------------------------
(* Steps *)

Ops == {"held", "enqueue", "unqueue", "drain", "pair", "busy", "remove", "push",
        "withdraw", "orphan", "release", "revoke", "silent", "expire"}

StepType == [op : Ops, request : Requests \cup {None},
             session : Sessions \cup {None}, points : Int]

Step(op, q, s) == [op |-> op, request |-> q, session |-> s, points |-> 0]
OnRequest(op, q) == Step(op, q, None)
OnSession(op, s) == Step(op, None, s)
Drain == Step("drain", None, None)

\* addAvailable removes the session's entries and pushes one, in two calls.
addAvailable(s) == <<OnSession("remove", s), OnSession("push", s)>>

Idle(p) == todo[p] = <<>>

\* A pod takes up a call of a client.
Serves(p) == Idle(p) /\ calls < MaxCalls /\ calls' = calls + 1

At(p, op) == todo[p] # <<>> /\ Head(todo[p]).op = op
Request(p) == Head(todo[p]).request
Session(p) == Head(todo[p]).session
Begin(p, steps) == todo' = [todo EXCEPT ![p] = steps]
Proceed(p, steps) == Begin(p, steps \o Tail(todo[p]))

\* A sweep drains at its end if it has changed a row.
ProceedThenDrain(p, steps) ==
  LET rest == Tail(todo[p])
  IN Begin(p, steps \o rest \o (IF Drain \in ToSet(rest) THEN <<>> ELSE <<Drain>>))

\* Whether a step of kind op for q is left to do on some pod.
Pending(op, q) ==
  \E p \in Pods : \E step \in ToSet(todo[p]) : step.op = op /\ step.request = q

\* The requests that pod p is about to put on the queue, if need be.
InHands(p) ==
  {step.request : step \in {s \in ToSet(todo[p]) : s.op \in {"enqueue", "pair"}}}

\* Everyone is connected, and the personas have said that they are available.
Init ==
  /\ row = [q \in Requests |-> AbsentRow]
  /\ reward = [q \in Requests |-> None]
  /\ due = {}
  /\ queue = <<>>
  /\ avail = SetToSeq(Personas)
  /\ present = Responders
  /\ declined = Personas
  /\ untagged = {}
  /\ conn \in [Responders -> {{p} : p \in Pods}]
  /\ todo = [p \in Pods |-> <<>>]
  /\ overdue = [p \in Pods |-> {}]
  /\ calls = 0
  /\ faults = 0
  /\ lost = {}
  /\ robbed = {}
  /\ lapsed = {}

-----------------------------------------------------------------------------
(* The requester *)

\* The INSERT of createRequest, and what follows its commit.
Insert(p, q) ==
  /\ \E allow \in AllowChoices, s \in PreferredChoices \cup {None} :
       /\ q \notin AskedByPersona => s = None
       /\ Update(q, [AbsentRow EXCEPT
                       !.status = "queued",
                       !.allowAI = IF q \in AskedByPersona THEN s = None ELSE allow,
                       !.preferred = s,
                       !.frozen = q \in Owned])
  /\ Begin(p, <<OnRequest("enqueue", q), Drain>>)

\* createRequest.  The creates of one user exclude each other by an advisory
\* lock, and the two sums of the balance check are two statements.
createRequest(p, q) ==
  /\ Serves(p)
  /\ row[q].status = "absent"
  /\ ~Pending("held", q)
  /\ IF q \in Owned
       THEN /\ \A other \in Owned : ~Pending("held", other)
            /\ Begin(p, <<[OnRequest("held", q) EXCEPT !.points = Total]>>)
            /\ UNCHANGED <<row, due, overdue>>
       ELSE Insert(p, q)
  /\ UNCHANGED <<reward, redisVars, conn, faultVars>>

checkBalance(p) ==
  /\ At(p, "held")
  /\ IF Head(todo[p]).points - HeldPoints < 1
       THEN Proceed(p, <<>>) /\ UNCHANGED <<row, due, overdue>>
       ELSE Insert(p, Request(p))
  /\ UNCHANGED <<reward, redisVars, conn, faultVars, calls>>

CancelBeforeFirstFragment(p, q) ==
  /\ Serves(p)
  /\ Live(q)
  /\ row[q].answer = <<>>
  /\ Update(q, Abandoned(q))
  /\ Begin(p, <<OnRequest("unqueue", q)>>)
  /\ UNCHANGED <<reward, redisVars, conn, faultVars>>

-----------------------------------------------------------------------------
(* The responder *)

\* Calls come from the pod of the session's socket; those of a fallback session
\* begin when AcquireFallbackAssignment has returned.
Calls(p, s) ==
  /\ Serves(p)
  /\ IF s \in Responders THEN p \in conn[s] ELSE ~Pending("unqueue", s)

SubmitFragment(p, s) ==
  /\ Calls(p, s)
  /\ \E q \in Active(s), full \in BOOLEAN :
       LET new == [row[q] EXCEPT !.answer = Append(@, s), !.charged = TRUE,
                                 !.frozen = FALSE, !.status = "streaming"]
       IN /\ Len(new.answer) <= MaxFragments
          /\ IF full
               THEN completeRequestTx(q, new, "completed", s)
               ELSE Update(q, new) /\ UNCHANGED reward
  /\ UNCHANGED <<redisVars, conn, todo, faultVars>>

Finish(p, s) ==
  /\ Calls(p, s)
  /\ \E q \in Active(s) :
       /\ row[q].answer # <<>>
       /\ completeRequestTx(q, row[q], "completed", s)
  /\ UNCHANGED <<redisVars, conn, todo, faultVars>>

Skip(p, s) ==
  /\ Calls(p, s)
  /\ \E q \in Active(s) :
       /\ row[q].answer = <<>>
       /\ IF q \in AskedByPersona
            THEN Update(q, Abandoned(q)) /\ UNCHANGED todo
            ELSE /\ Update(q, Requeued(q))
                 /\ Begin(p, <<OnRequest("enqueue", q), Drain>>)
  /\ UNCHANGED <<reward, redisVars, conn, faultVars>>

AcquireFallbackAssignment(p, q) ==
  /\ Serves(p)
  /\ row[q].status = "queued"
  /\ row[q].allowAI
  /\ row[q].preferred = None
  /\ row[q].answer = <<>>
  /\ Update(q, Assigned(q, q))
  /\ Begin(p, <<OnRequest("unqueue", q)>>)
  /\ UNCHANGED <<reward, redisVars, conn, faultVars>>

\* The kind that a person's entry would record is the default of a missing one.
RegisterResponder(p, s) ==
  /\ Serves(p)
  /\ s \in Humans
  /\ p \notin conn[s]
  /\ present' = present \cup {s}
  /\ conn' = [conn EXCEPT ![s] = @ \cup {p}]
  /\ UNCHANGED <<pgVars, queue, avail, hashVars, todo, faultVars>>

UnregisterResponder(p, s) ==
  /\ Serves(p)
  /\ p \in conn[s]
  /\ conn' = [conn EXCEPT ![s] = @ \ {p}]
  /\ present' = present \ {s}
  /\ Begin(p, <<OnSession("withdraw", s), OnSession("orphan", s)>>)
  /\ UNCHANGED <<pgVars, queue, avail, hashVars, faultVars>>

MarkResponderAvailable(p, s) ==
  /\ Serves(p)
  /\ p \in conn[s]
  /\ declined' = IF s \in Declining THEN declined \cup {s} ELSE declined \ {s}
  /\ Begin(p, <<OnSession("busy", s)>>)
  /\ UNCHANGED <<pgVars, queue, avail, present, untagged, lapsed, conn, faultVars>>

\* A persona's conversation returns the person that answered it to the pool.
ResumeResponder(p, s) ==
  /\ Serves(p)
  /\ \E q \in AskedByPersona :
       s \in Humans /\ s \in {row[q].responder, row[q].preferred}
  /\ Active(s) = {}
  /\ s \in present
  /\ Begin(p, addAvailable(s) \o <<Drain>>)
  /\ UNCHANGED <<pgVars, redisVars, conn, faultVars>>

-----------------------------------------------------------------------------
(* The sweeper and the assignment ticker *)

\* The first SELECT of SweepTimeouts, whose cutoff holds for the whole sweep.
SweepAssignedOnly(p) ==
  /\ Idle(p)
  /\ due # {}
  /\ overdue' = [overdue EXCEPT ![p] = due]
  /\ LET silent == {q \in due : row[q].status = "assigned" /\ row[q].answer = <<>>}
     IN Begin(p, SetToSeq({OnRequest("revoke", q) : q \in silent}))
  /\ UNCHANGED <<row, reward, due, redisVars, conn, faultVars, calls>>
SweepTimeouts(p) ==
  /\ Idle(p)
  /\ due # {}
  /\ overdue' = [overdue EXCEPT ![p] = due]
  /\ LET silent == {q \in due : row[q].status = "assigned" /\ row[q].answer = <<>>}
         revokes == SetToSeq({OnRequest("revoke", q) : q \in silent})
     IN Begin(p, Append(revokes, Step("silent", None, None)))
  /\ UNCHANGED <<row, reward, due, redisVars, conn, faultVars, calls>>

\* The CAS of an assigned row.  That of a targeted one leaves frozen_points alone.
revoke(p) ==
  LET q == Request(p)
  IN /\ At(p, "revoke")
     /\ IF row[q].status # "assigned" \/ q \notin overdue[p]
          THEN Proceed(p, <<>>) /\ UNCHANGED <<row, due, overdue>>
        ELSE IF row[q].preferred # None
          THEN /\ Update(q, [Abandoned(q) EXCEPT !.frozen = row[q].frozen])
               /\ ProceedThenDrain(p, <<>>)
        ELSE /\ Update(q, Requeued(q))
             /\ ProceedThenDrain(p, <<OnRequest("enqueue", q)>>)
     /\ UNCHANGED <<reward, redisVars, conn, faultVars, calls>>

\* The second SELECT, which also reads whom to pay.
selectStreaming(p) ==
  /\ At(p, "silent")
  /\ LET silent == {q \in overdue[p] : row[q].status = "streaming" /\ row[q].answer # <<>>}
     IN Proceed(p, SetToSeq({Step("expire", q, row[q].responder) : q \in silent}))
  /\ UNCHANGED <<pgVars, redisVars, conn, faultVars, calls>>

expire(p) ==
  LET q == Request(p)
  IN /\ At(p, "expire")
     /\ IF row[q].status = "streaming" /\ q \in overdue[p]
          THEN /\ completeRequestTx(q, row[q], "timeout_completed", Session(p))
               /\ ProceedThenDrain(p, <<>>)
          ELSE Proceed(p, <<>>) /\ UNCHANGED <<row, reward, due, overdue>>
     /\ UNCHANGED <<redisVars, conn, faultVars, calls>>

-----------------------------------------------------------------------------
(* The steps left to do *)

enqueueRequest(p) ==
  /\ At(p, "enqueue")
  /\ queue' = Append(queue, Request(p))
  /\ Proceed(p, <<>>)
  /\ UNCHANGED <<pgVars, avail, present, hashVars, conn, faultVars, calls>>

\* Redis refuses: the method returns, or goes on without the request in the queue.
enqueueFails(p) ==
  /\ At(p, "enqueue")
  /\ faults < MaxFaults
  /\ faults' = faults + 1
  /\ lost' = lost \cup {Request(p)}
  /\ Begin(p, <<>>) \/ Proceed(p, <<>>)
  /\ UNCHANGED <<pgVars, redisVars, conn, robbed, calls>>

removeQueued(p) ==
  /\ At(p, "unqueue")
  /\ queue' = RemoveValue(queue, Request(p))
  /\ Proceed(p, <<>>)
  /\ UNCHANGED <<pgVars, avail, present, hashVars, conn, faultVars, calls>>

removeAvailable(p) ==
  /\ At(p, "remove")
  /\ avail' = RemoveValue(avail, Session(p))
  /\ Proceed(p, <<>>)
  /\ UNCHANGED <<pgVars, queue, present, hashVars, conn, faultVars, calls>>

pushAvailable(p) ==
  /\ At(p, "push")
  /\ avail' = Append(avail, Session(p))
  /\ Proceed(p, <<>>)
  /\ UNCHANGED <<pgVars, queue, present, hashVars, conn, faultVars, calls>>

\* The rest of MarkResponderAvailable: a busy responder is not added.
addUnlessBusy(p) ==
  LET s == Session(p)
  IN /\ At(p, "busy")
     /\ IF Active(s) # {}
          THEN Proceed(p, <<>>) /\ UNCHANGED present
          ELSE /\ present' = present \cup {s}
               /\ Proceed(p, addAvailable(s) \o <<Drain>>)
     /\ UNCHANGED <<pgVars, queue, avail, hashVars, conn, faultVars, calls>>

\* The rest of UnregisterResponder: the pool and the hashes (three calls, which only
\* a MarkResponderAvailable of the same session could tell apart), its request
\* if it has one, and the transaction that gives it back or completes it.
withdraw(p) ==
  LET s == Session(p)
  IN /\ At(p, "withdraw")
     /\ avail' = RemoveValue(avail, s)
     /\ declined' = declined \ {s}
     /\ untagged' = untagged \cup ({s} \cap Personas)
     /\ Proceed(p, <<>>)
     /\ UNCHANGED <<pgVars, queue, present, lapsed, conn, faultVars, calls>>

findOrphan(p) ==
  /\ At(p, "orphan")
  /\ \/ Active(Session(p)) = {} /\ Proceed(p, <<>>)
     \/ \E q \in Active(Session(p)) : Proceed(p, <<Step("release", q, Session(p))>>)
  /\ UNCHANGED <<pgVars, redisVars, conn, faultVars, calls>>

releaseOrphan(p) ==
  LET q == Request(p)
  IN /\ At(p, "release")
     /\ IF isTerminalStatus(row[q].status)
          THEN Proceed(p, <<>>) /\ UNCHANGED <<row, reward, due, overdue>>
        ELSE IF row[q].answer # <<>>
          THEN /\ completeRequestTx(q, row[q], "timeout_completed", row[q].responder)
               /\ Proceed(p, <<Drain>>)
        ELSE IF row[q].preferred # None
          THEN /\ Update(q, Abandoned(q)) /\ UNCHANGED reward
               /\ Proceed(p, <<Drain>>)
        ELSE /\ Update(q, Requeued(q)) /\ UNCHANGED reward
             /\ Proceed(p, <<OnRequest("enqueue", q), Drain>>)
     /\ robbed' = IF Live(q) /\ row[q].responder # Session(p) THEN robbed \cup {q} ELSE robbed
     /\ UNCHANGED <<redisVars, conn, faults, lost, calls>>

\* What assignScript reads of a request and a responder.  The routing keys of a
\* request are set before it is first queued and deleted when it is terminal; a
\* missing key has the value of a person's question to anyone, or of a person.
SeenAsPersona(s) == s \in Personas \ untagged

CompatibleWithoutConsent(q, s) ==
  Live(q) =>
    /\ row[q].preferred \in {None, s}
    /\ q \in AskedByPersona => s \notin declined /\ ~SeenAsPersona(s)
Compatible(q, s) ==
  Live(q) =>
    /\ row[q].preferred \in {None, s}
    /\ SeenAsPersona(s) => row[q].allowAI
    /\ q \in AskedByPersona => s \notin declined /\ ~SeenAsPersona(s)

\* assignScript takes the first session that is present and compatible with some
\* queued request out of ds:avail, and the first such request out of ds:queue.
\* Present sessions it passes stay where they are, stale ones are dropped.  The
\* loop of drainAssignments goes on until it returns nothing.
assignNext(p) ==
  LET Fits(s) == {j \in DOMAIN queue : Compatible(queue[j], s)}
      hits == {i \in DOMAIN avail : avail[i] \in present /\ Fits(avail[i]) # {}}
      i == IF hits = {} THEN Len(avail) + 1 ELSE Min(hits)
      stale == {avail[k] : k \in 1..i - 1} \ present
  IN /\ avail' = KeepAt(avail, {k \in DOMAIN avail :
                                  k > i \/ (k < i /\ avail[k] \in present)})
     /\ declined' = declined \ stale
     /\ untagged' = untagged \cup (stale \cap Personas)
     /\ lapsed' = lapsed \cup {s \in stale : conn[s] # {}}
     /\ IF hits = {}
          THEN Begin(p, <<>>) /\ UNCHANGED queue
          ELSE LET j == Min(Fits(avail[i]))
               IN /\ queue' = RemoveIndex(queue, j)
                  /\ Begin(p, <<Step("pair", queue[j], avail[i]), Drain>>)
     /\ UNCHANGED <<pgVars, present, conn, faultVars, calls>>

drainAssignments(p) == At(p, "drain") /\ assignNext(p)

\* The ticker of every pod drains too.
tickerStopped(p) == Idle(p) /\ UNCHANGED vars
assignTicker(p) == Idle(p) /\ assignNext(p)

\* handlePair after its read of the session: the CAS of a queued row, or the
\* responder back to the pool.
handlePairUnchecked(p) ==
  /\ At(p, "pair")
  /\ Update(Request(p), Assigned(Request(p), Session(p)))
  /\ Proceed(p, <<>>)
  /\ UNCHANGED <<reward, redisVars, conn, faultVars, calls>>
handlePair(p) ==
  LET q == Request(p)
      s == Session(p)
  IN /\ At(p, "pair")
     /\ IF row[q].status = "queued" /\ row[q].preferred \in {None, s}
          THEN Update(q, Assigned(q, s)) /\ Proceed(p, <<>>)
          ELSE Proceed(p, addAvailable(s)) /\ UNCHANGED <<row, due, overdue>>
     /\ UNCHANGED <<reward, redisVars, conn, faultVars, calls>>

\* One of its statements fails: both parties go back to their pools.
handlePairFailsLosing(p) ==
  /\ At(p, "pair")
  /\ faults < MaxFaults
  /\ faults' = faults + 1
  /\ Proceed(p, addAvailable(Session(p)))
  /\ UNCHANGED <<pgVars, redisVars, conn, lost, robbed, calls>>
handlePairFails(p) ==
  /\ At(p, "pair")
  /\ faults < MaxFaults
  /\ faults' = faults + 1
  /\ Proceed(p, <<OnRequest("enqueue", Request(p))>> \o addAvailable(Session(p)))
  /\ UNCHANGED <<pgVars, redisVars, conn, lost, robbed, calls>>

-----------------------------------------------------------------------------
(* Time and faults *)

\* Timeouts are far longer than a call: a row comes due when no step on it is left.
Age(q) ==
  /\ row[q].status \in Held
  /\ q \notin due
  /\ \A p \in Pods : \A step \in ToSet(todo[p]) : step.request # q
  /\ due' = due \cup {q}
  /\ UNCHANGED <<row, reward, overdue, redisVars, conn, todo, faultVars, calls>>

heartbeat(p, s) ==
  /\ p \in conn[s]
  /\ s \notin present
  /\ present' = present \cup {s}
  /\ UNCHANGED <<pgVars, queue, avail, hashVars, conn, todo, faultVars, calls>>

\* A score grows stale when nobody renews it, or when its pod is late to.
PresenceExpires(s) ==
  /\ s \in present
  /\ present' = present \ {s}
  /\ IF conn[s] = {} THEN UNCHANGED faults
                     ELSE faults < MaxFaults /\ faults' = faults + 1
  /\ UNCHANGED <<pgVars, queue, avail, hashVars, conn, todo, lost, robbed, calls>>

\* A pod dies with the method it runs and its sockets, and is replaced.
Crash(p) ==
  /\ faults < MaxFaults
  /\ faults' = faults + 1
  /\ lost' = lost \cup InHands(p)
  /\ Begin(p, <<>>)
  /\ overdue' = [overdue EXCEPT ![p] = {}]
  /\ conn' = [s \in Responders |-> conn[s] \ {p}]
  /\ UNCHANGED <<row, reward, due, redisVars, robbed, calls>>

-----------------------------------------------------------------------------
StepOf(p) ==
  \/ checkBalance(p)
  \/ enqueueRequest(p) \/ removeQueued(p)
  \/ removeAvailable(p) \/ pushAvailable(p)
  \/ addUnlessBusy(p)
  \/ withdraw(p) \/ findOrphan(p) \/ releaseOrphan(p)
  \/ drainAssignments(p) \/ handlePair(p)
  \/ revoke(p) \/ selectStreaming(p) \/ expire(p)

Next ==
  \/ \E p \in Pods :
       \/ StepOf(p)
       \/ handlePairFails(p) \/ enqueueFails(p)
       \/ SweepTimeouts(p)
       \/ assignTicker(p)
       \/ Crash(p)
  \/ \E p \in Pods, q \in Requests :
       \/ createRequest(p, q)
       \/ CancelBeforeFirstFragment(p, q)
       \/ AcquireFallbackAssignment(p, q)
  \/ \E p \in Pods, s \in Sessions :
       SubmitFragment(p, s) \/ Finish(p, s) \/ Skip(p, s)
  \/ \E p \in Pods, s \in Responders :
       \/ RegisterResponder(p, s) \/ UnregisterResponder(p, s)
       \/ MarkResponderAvailable(p, s) \/ ResumeResponder(p, s)
       \/ heartbeat(p, s)
  \/ \E q \in Requests : Age(q)
  \/ \E s \in Responders : PresenceExpires(s)

Spec == Init /\ [][Next]_vars

-----------------------------------------------------------------------------
(* Properties *)

\* The shapes of the tables, the Redis keys and the steps.
TypeOK ==
  /\ row \in [Requests -> RowType]
  /\ reward \in [Requests -> Accounts \cup {None}]
  /\ due \in SUBSET Requests
  /\ queue \in Seq(Requests)
  /\ avail \in Seq(Responders)
  /\ present \in SUBSET Responders
  /\ declined \in SUBSET Responders
  /\ untagged \in SUBSET Personas
  /\ conn \in [Responders -> SUBSET Pods]
  /\ todo \in [Pods -> Seq(StepType)]
  /\ overdue \in [Pods -> SUBSET Requests]
  /\ calls \in 0..MaxCalls
  /\ faults \in 0..MaxFaults
  /\ lost \in SUBSET Requests
  /\ robbed \in SUBSET Requests
  /\ lapsed \in SUBSET Responders

\* "queue<->PG invariant is restored" (handlePair): a queued row is in the Redis
\* queue or in the hands of a pod that is about to put it there.  The exceptions are
\* a pod that dies with the row in its hands, an error of Redis, and a row that
\* UnregisterResponder takes from a session that is not the one that disconnects,
\* while the late removeQueued of AcquireFallbackAssignment is still to come.
Listed ==
  \A q \in Requests :
    row[q].status = "queued" =>
      \/ q \in ToSet(queue)
      \/ \E p \in Pods : q \in InHands(p)
      \/ q \in lost \cup robbed

\* SPEC 4.3: "A responder can have at most one active assignment at a time."
SingleActive == \A s \in Responders : Cardinality(Active(s)) <= 1

\* createRequest takes a lock "so the balance check is race-free": what the user's
\* live requests hold is covered by the ledger.
NoOverdraft == Total - HeldPoints >= 0

\* Who may answer (SPEC 4.2, 4.3), as in module Service, through routing keys that
\* are copies of the rows and through pairs that were matched before the row changed
\* hands.  A persona passes for a person only after its heartbeat was so late that
\* assignScript deleted its kind.
Consent ==
  \A q \in Requests :
    LET s == row[q].responder
    IN s # None =>
       /\ row[q].preferred \in {None, s}
       /\ s = q => row[q].allowAI
       /\ s \in Personas /\ (~row[q].allowAI \/ q \in AskedByPersona) => s \in lapsed

\* The hold of a request ends with its charge or with the request, and the charge
\* comes with the first fragment.
HoldExact(q) ==
  /\ row[q].frozen <=> q \in Owned /\ Live(q) /\ ~row[q].charged
  /\ row[q].charged <=> row[q].answer # <<>>

\* An answer is paid once, to the account of the session it is credited to.
PaidAuthor(q) ==
  reward[q] = IF row[q].status \in Answered /\ row[q].responder \in Accounts
                THEN row[q].responder ELSE None

\* Points on Postgres: every transaction leaves hold, charge, reward and status of
\* a request in agreement, whoever of the responder, the sweepers of several pods,
\* a disconnect and the requester ends it, and whoever came second.
PointsExact == \A q \in Requests : HoldExact(q) /\ PaidAuthor(q)

\* The rows, as the requester sees them.
Lifecycle ==
  INSTANCE RequestLifecycle WITH
    Responders <- Sessions,
    life <- [q \in Requests |-> [status |-> row[q].status,
                                 responder |-> row[q].responder,
                                 answer |-> row[q].answer]]

\* With all its pods, crashes and stale queue entries the backend keeps the promise
\* of module RequestLifecycle: before the first fragment a request may wander, after
\* it the answer belongs to one responder, grows, and ends once.
LifecycleRefined == Lifecycle!Spec
=============================================================================
