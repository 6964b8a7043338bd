--------------------------- MODULE PgRedisProofs ---------------------------
(***************************************************************************)
(* Proofs about PgRedis, for every set of pods, requests and sessions and  *)
(* every value of the other constants that the assumption admits.          *)
(***************************************************************************)
EXTENDS PgRedis, SliceProofs

-----------------------------------------------------------------------------
(* The inductive invariant *)

\* A row has a responder from its assignment to the end of its answer, and text from
\* the first fragment on.  Only personas' follow-ups are reserved for somebody.
RowSound(q) ==
  /\ row[q].status \in {"absent", "queued", "abandoned"} =>
       row[q].responder = None /\ row[q].answer = <<>>
  /\ row[q].status \in Held \cup Answered => row[q].responder \in Sessions
  /\ row[q].status = "assigned" <=> row[q].responder # None /\ row[q].answer = <<>>
  /\ row[q].preferred # None => q \in AskedByPersona

\* The ids that a step works on.
StepTyped(step) ==
  /\ step.op \in {"held", "enqueue", "unqueue", "pair", "release", "revoke", "expire"} =>
       step.request \in Requests
  /\ step.op \in {"busy", "remove", "push", "withdraw", "orphan", "pair", "release"} =>
       step.session \in Responders

\* createRequest checks the balance for a row that is not there yet.
HeldSound(step) ==
  step.op = "held" =>
    step.request \in Owned /\ row[step.request].status = "absent"

\* The other steps come after the commit of their row.
KnownRow(step) ==
  step.op \in {"enqueue", "unqueue", "pair", "release"} =>
    row[step.request].status # "absent"

\* What assignScript may match, and handlePair assign.
Allowed(q, s) ==
  /\ row[q].preferred \in {None, s}
  /\ s \in Personas /\ (~row[q].allowAI \/ q \in AskedByPersona) => s \in lapsed

\* A pair was allowed when it was matched and still is, unless the request is over.
PairSound(step) ==
  step.op = "pair" =>
    \/ isTerminalStatus(row[step.request].status)
    \/ Allowed(step.request, step.session)

\* Whom an expiry pays, as long as nobody touched the row.
ExpireSound(p, step) ==
  step.op = "expire" /\ step.request \in overdue[p] =>
    step.session = row[step.request].responder

\* The request is over, or the fallback session has it and the sweepers leave it alone.
NotGivenBack(q) ==
  \/ isTerminalStatus(row[q].status)
  \/ row[q].responder = q /\ q \notin due /\ \A p \in Pods : q \notin overdue[p]

\* As long as a late removal from the queue is to come, the request is not queued.
UnqueueSound(step) ==
  step.op = "unqueue" => step.request \in robbed \/ NotGivenBack(step.request)

\* A persona has one connection, which its MarkResponderAvailable comes from and
\* which is gone for good when its UnregisterResponder has begun.
PersonaSound(p, step) ==
  step.session \in Personas =>
    /\ step.op = "busy" => p \in conn[step.session]
    /\ step.op = "withdraw" => conn[step.session] = {} /\ step.session \notin present

StepSound(p, step) ==
  /\ StepTyped(step) /\ HeldSound(step) /\ KnownRow(step) /\ PairSound(step)
  /\ ExpireSound(p, step) /\ UnqueueSound(step) /\ PersonaSound(p, step)

\* The steps that pod p has left after the first.
Rest(p) == IF todo[p] = <<>> THEN {} ELSE ToSet(Tail(todo[p]))

\* Only the first step of a pod creates a row or has one in its hands.
FirstOps == {"held", "enqueue", "pair"}
FirstSound(p) == \A step \in Rest(p) : step.op \notin FirstOps

\* The advisory lock of createRequest.
OneCreate ==
  \A p, o \in Pods : \A a \in ToSet(todo[p]), b \in ToSet(todo[o]) :
    a.op = "held" /\ b.op = "held" => p = o

StepsSound ==
  /\ \A p \in Pods : \A step \in ToSet(todo[p]) : StepSound(p, step)
  /\ \A p \in Pods : FirstSound(p)
  /\ OneCreate

\* Redis never lists a request before it is committed; a persona has one socket, and
\* only one whose heartbeat was late is without its kind and may be matched.
PoolSound ==
  /\ \A q \in ToSet(queue) : row[q].status # "absent"
  /\ \A s \in Personas : \A p, o \in conn[s] : p = o
  /\ \A s \in untagged : s \in lapsed \/ (conn[s] = {} /\ s \notin present)

RowsSound == \A q \in Requests : RowSound(q)

Inv ==
  /\ TypeOK
  /\ RowsSound /\ StepsSound /\ PoolSound
  /\ PointsExact /\ Consent /\ Listed

-----------------------------------------------------------------------------
(* What a pod has left to do *)

\* Pod p leaves its first step behind and has the steps of N to do besides the rest.
TodoEffect(p, N) ==
  /\ todo' \in [Pods -> Seq(StepType)]
  /\ \A o \in Pods : o # p => todo'[o] = todo[o]
  /\ N \subseteq ToSet(todo'[p]) /\ ToSet(todo'[p]) \subseteq N \cup Rest(p)
  /\ FirstSound(p)'

\* The steps of the code are steps.
LEMMA StepTypes ==
  ASSUME NEW op \in Ops, NEW q \in Requests \cup {None}, NEW s \in Sessions \cup {None}
  PROVE  /\ Step(op, q, s) \in StepType
         /\ OnRequest(op, q) \in StepType /\ OnSession(op, s) \in StepType
         /\ Drain \in StepType
         /\ \A n \in Int : [OnRequest(op, q) EXCEPT !.points = n] \in StepType
BY DEF Step, OnRequest, OnSession, Drain, StepType, Ops

\* The rest of two lists, one after the other.
LEMMA TailOfConcat ==
  ASSUME NEW S, NEW s \in Seq(S), NEW t \in Seq(S), s \o t # <<>>
  PROVE  ToSet(Tail(s \o t)) \subseteq ToSet(t) \cup (IF s = <<>> THEN {} ELSE ToSet(Tail(s)))
<1>1. CASE s = <<>>
  <2>1. s \o t = t
    BY <1>1
  <2>2. t # <<>>
    BY <2>1
  <2> QED BY <1>1, <2>1, <2>2, HeadTailFacts
<1>2. CASE s # <<>>
  <2>1. Tail(s \o t) = Tail(s) \o t
    BY <1>2
  <2>2. Tail(s) \in Seq(S)
    BY <1>2
  <2>3. ToSet(Tail(s) \o t) = ToSet(Tail(s)) \cup ToSet(t)
    BY <2>2, ConcatFacts, ZenonT(40)
  <2> QED BY <1>2, <2>1, <2>3
<1> QED BY <1>1, <1>2

\* What Begin and Proceed leave to do.
LEMMA TodoEffects ==
  ASSUME TypeOK, NEW p \in Pods, FirstSound(p), NEW steps \in Seq(StepType),
         steps # <<>> => \A x \in ToSet(Tail(steps)) : x.op \notin FirstOps
  PROVE  /\ Begin(p, steps) => TodoEffect(p, ToSet(steps))
         /\ todo[p] # <<>> /\ Proceed(p, steps) => TodoEffect(p, ToSet(steps))
         /\ todo[p] # <<>> /\ ProceedThenDrain(p, steps) =>
              TodoEffect(p, ToSet(steps) \cup {Drain})
<1>1. todo \in [Pods -> Seq(StepType)] /\ todo[p] \in Seq(StepType)
  BY DEF TypeOK
<1>2. ASSUME NEW t \in Seq(StepType), Begin(p, t)
      PROVE  /\ todo' \in [Pods -> Seq(StepType)] /\ todo'[p] = t
             /\ \A o \in Pods : o # p => todo'[o] = todo[o]
  BY <1>1, <1>2 DEF Begin
<1>3. ASSUME Begin(p, steps) PROVE TodoEffect(p, ToSet(steps))
  <2>1. todo'[p] = steps
    BY <1>2, <1>3
  <2>2. FirstSound(p)'
    BY <2>1 DEF FirstSound, Rest
  <2> QED BY <1>2, <1>3, <2>1, <2>2 DEF TodoEffect
<1>4. ASSUME NEW t \in Seq(StepType), todo[p] # <<>>, Begin(p, steps \o t),
             \A x \in ToSet(t) : x.op \notin FirstOps
      PROVE  /\ todo' \in [Pods -> Seq(StepType)]
             /\ \A o \in Pods : o # p => todo'[o] = todo[o]
             /\ ToSet(todo'[p]) = ToSet(steps) \cup ToSet(t)
             /\ FirstSound(p)'
  <2>1. steps \o t \in Seq(StepType) /\ ToSet(steps \o t) = ToSet(steps) \cup ToSet(t)
    BY <1>4, ConcatFacts
  <2>2. /\ todo' \in [Pods -> Seq(StepType)] /\ todo'[p] = steps \o t
        /\ \A o \in Pods : o # p => todo'[o] = todo[o]
    BY <1>2, <1>4, <2>1
  <2>3. FirstSound(p)'
    <3>1. ASSUME steps \o t # <<>>, NEW x \in ToSet(Tail(steps \o t))
          PROVE  x.op \notin FirstOps
      <4>1. x \in ToSet(t) \cup (IF steps = <<>> THEN {} ELSE ToSet(Tail(steps)))
        BY <1>4, <3>1, TailOfConcat
      <4> QED BY <1>4, <4>1
    <3> QED BY <2>2, <3>1 DEF FirstSound, Rest
  <2> QED BY <2>1, <2>2, <2>3
<1>5. ASSUME todo[p] # <<>>
      PROVE  /\ Tail(todo[p]) \in Seq(StepType) /\ Rest(p) = ToSet(Tail(todo[p]))
             /\ \A x \in ToSet(Tail(todo[p])) : x.op \notin FirstOps
  BY <1>1, <1>5, HeadTailFacts DEF FirstSound, Rest
<1>6. ASSUME todo[p] # <<>>, Proceed(p, steps) PROVE TodoEffect(p, ToSet(steps))
  BY <1>4, <1>5, <1>6 DEF Proceed, TodoEffect
<1>7. ASSUME todo[p] # <<>>, ProceedThenDrain(p, steps)
      PROVE  TodoEffect(p, ToSet(steps) \cup {Drain})
  <2> DEFINE rest == Tail(todo[p])
             last == IF Drain \in ToSet(rest) THEN <<>> ELSE <<Drain>>
             t == rest \o last
  <2>1. rest \in Seq(StepType) /\ Rest(p) = ToSet(rest)
        /\ \A x \in ToSet(rest) : x.op \notin FirstOps
    BY <1>5, <1>7
  <2>2. Drain \in StepType /\ Drain.op \notin FirstOps
    BY DEF Drain, Step, StepType, Ops, FirstOps
  <2>3. last \in Seq(StepType) /\ ToSet(rest) \cup ToSet(last) = ToSet(rest) \cup {Drain}
    BY <2>2, ShortFacts
  <2>4. Begin(p, (steps \o rest) \o last)
    BY <1>7 DEF ProceedThenDrain
  <2> HIDE DEF rest, last
  <2>5. t \in Seq(StepType) /\ ToSet(t) = ToSet(rest) \cup {Drain}
    BY <2>1, <2>3, ConcatFacts
  <2>6. (steps \o rest) \o last = steps \o t
    BY <2>1, <2>3
  <2>7. Begin(p, steps \o t)
    BY <2>4, <2>6
  <2>8. \A x \in ToSet(t) : x.op \notin FirstOps
    BY <2>1, <2>2, <2>5
  <2> HIDE DEF t
  <2>9. /\ todo' \in [Pods -> Seq(StepType)]
        /\ \A o \in Pods : o # p => todo'[o] = todo[o]
        /\ ToSet(todo'[p]) = ToSet(steps) \cup ToSet(t)
        /\ FirstSound(p)'
    BY <1>4, <1>7, <2>5, <2>7, <2>8
  <2> QED BY <2>1, <2>5, <2>9 DEF TodoEffect
<1> QED BY <1>3, <1>6, <1>7

-----------------------------------------------------------------------------
(* What happens to a row *)

\* The five ways in which the code changes a row, from the row before to new.
Creates(q, new) ==
  /\ row[q].status = "absent"
  /\ new \in RowType /\ new.status = "queued"
  /\ new.responder = None /\ new.answer = <<>>
  /\ (new.frozen <=> q \in Owned) /\ ~new.charged
  /\ new.preferred # None => q \in AskedByPersona
Assigns(q, new) ==
  /\ row[q].status = "queued"
  /\ \E s \in Sessions :
       new = Assigned(q, s) /\ Allowed(q, s) /\ (s = q => row[q].allowAI)
Frees(q, new) ==
  /\ row[q].status \in {"queued", "assigned"}
  /\ new \in {Requeued(q), Abandoned(q)}
Commits(q, new) ==
  /\ row[q].status \in Held
  /\ \E status \in {"streaming", "completed"} :
       new = [row[q] EXCEPT !.answer = Append(@, row[q].responder), !.charged = TRUE,
                            !.frozen = FALSE, !.status = status]
Ends(q, new) ==
  /\ row[q].status = "streaming"
  /\ \E status \in Answered : new = [row[q] EXCEPT !.status = status]

\* One of them, with the reward that goes with the end of an answer.
RowChange(q, new) ==
  /\ Update(q, new)
  /\ reward' = IF new.status \in Answered /\ new.responder \in Accounts
                 THEN [reward EXCEPT ![q] = new.responder] ELSE reward
  /\ \/ Creates(q, new) \/ Assigns(q, new) \/ Frees(q, new)
     \/ Commits(q, new) \/ Ends(q, new)

\* A row is created once and keeps whom its asker has asked for; ended, it stays as it is.
RowsForward ==
  \A q \in Requests :
    /\ row[q].status # "absent" =>
         /\ row'[q].status # "absent"
         /\ row'[q].allowAI = row[q].allowAI /\ row'[q].preferred = row[q].preferred
    /\ isTerminalStatus(row[q].status) => row'[q] = row[q]

\* How a row may look, and what a change makes of it: every part of the invariant
\* that is about this row alone.
LEMMA RowChangeOne ==
  ASSUME TypeOK, NEW q \in Requests, RowSound(q), HoldExact(q), PaidAuthor(q),
         NEW new, RowChange(q, new)
  PROVE  /\ new \in RowType /\ row' \in [Requests -> RowType]
         /\ row'[q] = new /\ \A r \in Requests : r # q => row'[r] = row[r]
         /\ reward' \in [Requests -> Accounts \cup {None}]
         /\ \A r \in Requests : r # q => reward'[r] = reward[r]
         /\ ~isTerminalStatus(row[q].status) /\ new.status # "absent"
         /\ row[q].status # "absent" =>
              new.allowAI = row[q].allowAI /\ new.preferred = row[q].preferred
         /\ RowSound(q)' /\ HoldExact(q)' /\ PaidAuthor(q)'
<1> USE DEF Held, Answered, Terminal, isTerminalStatus
<1>1. /\ row \in [Requests -> RowType] /\ reward \in [Requests -> Accounts \cup {None}]
      /\ row[q] \in RowType /\ None \notin Sessions /\ Owned \cap AskedByPersona = {}
  BY PgRedisAssumption DEF TypeOK
<1>2. new \in RowType
  <2>1. CASE Creates(q, new)
    BY <2>1 DEF Creates
  <2>2. CASE Assigns(q, new)
    BY <1>1, <2>2 DEF Assigns, Assigned, RowType
  <2>3. CASE Frees(q, new)
    BY <1>1, <2>3 DEF Frees, Requeued, Abandoned, RowType
  <2>4. CASE Commits(q, new)
    <3>1. row[q].responder \in Sessions
      BY <2>4 DEF Commits, RowSound
    <3>2. Append(row[q].answer, row[q].responder) \in Seq(Sessions)
      BY <1>1, <3>1 DEF RowType
    <3> QED BY <1>1, <2>4, <3>2 DEF Commits, RowType
  <2>5. CASE Ends(q, new)
    BY <1>1, <2>5 DEF Ends, RowType
  <2> QED BY <2>1, <2>2, <2>3, <2>4, <2>5 DEF RowChange
<1>3. /\ row' \in [Requests -> RowType] /\ row'[q] = new
      /\ \A r \in Requests : r # q => row'[r] = row[r]
  BY <1>1, <1>2 DEF RowChange, Update
<1>4. /\ reward' \in [Requests -> Accounts \cup {None}]
      /\ \A r \in Requests : r # q => reward'[r] = reward[r]
      /\ reward'[q] = IF new.status \in Answered /\ new.responder \in Accounts
                        THEN new.responder ELSE reward[q]
  BY <1>1 DEF RowChange
<1>5. /\ ~isTerminalStatus(row[q].status) /\ new.status # "absent"
      /\ row[q].status # "absent" =>
           new.allowAI = row[q].allowAI /\ new.preferred = row[q].preferred
      /\ new.preferred # None => q \in AskedByPersona
  <2>1. row[q].preferred # None => q \in AskedByPersona
    BY DEF RowSound
  <2> QED BY <1>1, <2>1 DEF RowChange, Creates, Assigns, Frees, Commits, Ends,
                         Assigned, Requeued, Abandoned, RowType
<1>6. reward[q] = None
  <2>1. row[q].status \notin Answered
    BY <1>5
  <2> QED BY <2>1 DEF PaidAuthor
<1>7. PaidAuthor(q)'
  BY <1>3, <1>4, <1>6 DEF PaidAuthor
<1>8. /\ new.status \in {"absent", "queued", "abandoned"} =>
           new.responder = None /\ new.answer = <<>>
      /\ new.status \in Held \cup Answered => new.responder \in Sessions
      /\ new.status = "assigned" <=> new.responder # None /\ new.answer = <<>>
  <2>1. CASE Creates(q, new)
    BY <2>1 DEF Creates
  <2>2. CASE Assigns(q, new)
    BY <1>1, <2>2 DEF Assigns, Assigned, RowType, RowSound
  <2>3. CASE Frees(q, new)
    BY <1>1, <2>3 DEF Frees, Requeued, Abandoned, RowType, RowSound
  <2>4. CASE Commits(q, new)
    <3>1. row[q].responder \in Sessions /\ row[q].answer \in Seq(Sessions)
      BY <1>1, <2>4 DEF Commits, RowSound, RowType
    <3>2. Append(row[q].answer, row[q].responder) # <<>>
      BY <3>1
    <3> QED BY <1>1, <2>4, <3>1, <3>2 DEF Commits, RowType
  <2>5. CASE Ends(q, new)
    BY <1>1, <2>5 DEF Ends, RowType, RowSound
  <2> QED BY <2>1, <2>2, <2>3, <2>4, <2>5 DEF RowChange
<1>9. RowSound(q)'
  BY <1>3, <1>5, <1>8 DEF RowSound
<1>10. /\ new.frozen <=> q \in Owned /\ new.status # "absent"
                         /\ ~isTerminalStatus(new.status) /\ ~new.charged
       /\ new.charged <=> new.answer # <<>>
  <2>1. /\ row[q].frozen <=> q \in Owned /\ row[q].status # "absent"
                             /\ ~isTerminalStatus(row[q].status) /\ ~row[q].charged
        /\ row[q].charged <=> row[q].answer # <<>>
    BY DEF HoldExact, Live
  <2>2. CASE Creates(q, new)
    BY <2>2 DEF Creates
  <2>3. CASE Assigns(q, new)
    BY <1>1, <2>1, <2>3 DEF Assigns, Assigned, RowType
  <2>4. CASE Frees(q, new)
    BY <1>1, <2>1, <2>4 DEF Frees, Requeued, Abandoned, RowType, RowSound
  <2>5. CASE Commits(q, new)
    <3>1. row[q].responder \in Sessions /\ row[q].answer \in Seq(Sessions)
      BY <1>1, <2>5 DEF Commits, RowSound, RowType
    <3>2. Append(row[q].answer, row[q].responder) # <<>>
      BY <3>1
    <3> QED BY <1>1, <2>5, <3>1, <3>2 DEF Commits, RowType
  <2>6. CASE Ends(q, new)
    <3>1. row[q].answer # <<>>
      BY <1>1, <2>6 DEF Ends, RowSound
    <3> QED BY <1>1, <2>1, <2>6, <3>1 DEF Ends, RowType
  <2> QED BY <2>2, <2>3, <2>4, <2>5, <2>6 DEF RowChange
<1>11. HoldExact(q)'
  BY <1>3, <1>10 DEF HoldExact, Live
<1> QED BY <1>2, <1>3, <1>4, <1>5, <1>7, <1>9, <1>11

\* A change of one row leaves the invariant of the rows, of the points and of the
\* consent of the parties in place, and the sweepers have to look at the row again.
LEMMA RowChangeAll ==
  ASSUME Inv, NEW q \in Requests, NEW new, RowChange(q, new), lapsed \subseteq lapsed'
  PROVE  /\ row' \in [Requests -> RowType] /\ reward' \in [Requests -> Accounts \cup {None}]
         /\ row'[q] = new /\ \A r \in Requests : r # q => row'[r] = row[r]
         /\ due' = due \ {q} /\ due' \in SUBSET Requests
         /\ overdue' \in [Pods -> SUBSET Requests]
         /\ \A p \in Pods : overdue'[p] = overdue[p] \ {q}
         /\ ~isTerminalStatus(row[q].status) /\ new.status # "absent"
         /\ RowsForward /\ RowsSound' /\ PointsExact' /\ Consent'
<1>1. TypeOK /\ RowSound(q) /\ HoldExact(q) /\ PaidAuthor(q)
  BY DEF Inv, RowsSound, PointsExact
<1>2. /\ new \in RowType /\ row' \in [Requests -> RowType]
      /\ row'[q] = new /\ \A r \in Requests : r # q => row'[r] = row[r]
      /\ reward' \in [Requests -> Accounts \cup {None}]
      /\ \A r \in Requests : r # q => reward'[r] = reward[r]
      /\ ~isTerminalStatus(row[q].status) /\ new.status # "absent"
      /\ row[q].status # "absent" =>
           new.allowAI = row[q].allowAI /\ new.preferred = row[q].preferred
      /\ RowSound(q)' /\ HoldExact(q)' /\ PaidAuthor(q)'
  BY <1>1, RowChangeOne
<1>3. /\ due' = due \ {q} /\ due' \in SUBSET Requests
      /\ overdue' \in [Pods -> SUBSET Requests]
      /\ \A p \in Pods : overdue'[p] = overdue[p] \ {q}
  BY <1>1 DEF RowChange, Update, TypeOK
<1>4. RowsForward
  BY <1>2 DEF RowsForward
<1>5. ASSUME NEW r \in Requests PROVE RowSound(r)' /\ HoldExact(r)' /\ PaidAuthor(r)'
  <2>1. CASE r = q
    BY <1>2, <2>1
  <2>2. CASE r # q
    <3>1. row'[r] = row[r] /\ reward'[r] = reward[r]
      BY <1>2, <2>2
    <3>2. RowSound(r) /\ HoldExact(r) /\ PaidAuthor(r)
      BY DEF Inv, RowsSound, PointsExact
    <3>3. RowSound(r)'
      BY <3>1, <3>2 DEF RowSound
    <3>4. HoldExact(r)'
      BY <3>1, <3>2 DEF HoldExact, Live
    <3>5. PaidAuthor(r)'
      BY <3>1, <3>2 DEF PaidAuthor
    <3> QED BY <3>3, <3>4, <3>5
  <2> QED BY <2>1, <2>2
<1>6. RowsSound' /\ PointsExact'
  BY <1>5 DEF RowsSound, PointsExact
<1>7. Consent'
  <2> SUFFICES ASSUME NEW r \in Requests, row'[r].responder # None
               PROVE  /\ row'[r].preferred \in {None, row'[r].responder}
                      /\ row'[r].responder = r => row'[r].allowAI
                      /\ row'[r].responder \in Personas
                           /\ (~row'[r].allowAI \/ r \in AskedByPersona) =>
                             row'[r].responder \in lapsed'
    BY DEF Consent
  <2>1. /\ row[r].responder # None =>
             /\ row[r].preferred \in {None, row[r].responder}
             /\ row[r].responder = r => row[r].allowAI
             /\ row[r].responder \in Personas
                  /\ (~row[r].allowAI \/ r \in AskedByPersona) =>
                    row[r].responder \in lapsed
    BY DEF Inv, Consent
  <2>2. CASE r # q
    <3>1. row'[r] = row[r]
      BY <1>2, <2>2
    <3> QED BY <2>1, <3>1
  <2>3. CASE r = q
    <3>1. row[q] \in RowType
      BY <1>1 DEF TypeOK
    <3>2. CASE Assigns(q, new)
      <4>1. PICK s \in Sessions :
              new = Assigned(q, s) /\ Allowed(q, s) /\ (s = q => row[q].allowAI)
        BY <3>2 DEF Assigns
      <4>2. /\ new.responder = s /\ new.preferred = row[q].preferred
            /\ new.allowAI = row[q].allowAI
        BY <3>1, <4>1 DEF Assigned, RowType
      <4> QED BY <1>2, <2>3, <4>1, <4>2 DEF Allowed
    <3>3. CASE Commits(q, new) \/ Ends(q, new)
      <4>1. /\ new.responder = row[q].responder /\ new.preferred = row[q].preferred
            /\ new.allowAI = row[q].allowAI
        BY <3>1, <3>3 DEF Commits, Ends, RowType
      <4> QED BY <1>2, <2>1, <2>3, <4>1
    <3>4. CASE Creates(q, new) \/ Frees(q, new)
      <4>1. new.responder = None
        BY <3>1, <3>4 DEF Creates, Frees, Requeued, Abandoned, RowType
      <4> QED BY <1>2, <2>3, <4>1
    <3> QED BY <3>2, <3>3, <3>4 DEF RowChange
  <2> QED BY <2>2, <2>3
<1> QED BY <1>2, <1>3, <1>4, <1>6, <1>7

\* Where no row changes, the same holds for the rows.
LEMMA RowsUnchanged ==
  ASSUME Inv, UNCHANGED <<row, reward>>, lapsed \subseteq lapsed'
  PROVE  RowsForward /\ RowsSound' /\ PointsExact' /\ Consent'
<1>1. RowsForward
  BY DEF RowsForward
<1>2. RowsSound'
  BY DEF Inv, RowsSound, RowSound
<1>3. PointsExact'
  BY DEF Inv, PointsExact, HoldExact, PaidAuthor, Live
<1>4. Consent'
  BY DEF Inv, Consent
<1> QED BY <1>1, <1>2, <1>3, <1>4

-----------------------------------------------------------------------------
(* The steps that are left *)

\* What no action may do to the steps that others still have to take.
Forward ==
  /\ RowsForward
  /\ lapsed \subseteq lapsed' /\ robbed \subseteq robbed'
  \* no row appears whose balance check is still to come
  /\ \A o \in Pods : \A step \in ToSet(todo'[o]) :
       step.op = "held" /\ step \in ToSet(todo[o]) =>
         row'[step.request] = row[step.request]
  \* a row that a sweeper still takes for silent has not changed
  /\ \A o \in Pods : \A q \in overdue'[o] :
       todo[o] # <<>> => q \in overdue[o] /\ row'[q] = row[q]
  \* a request is not given back before the late removal
  /\ \A q \in Requests :
       Pending("unqueue", q) /\ NotGivenBack(q) => q \in robbed' \/ NotGivenBack(q)'
  \* a persona's connection ends with the calls that come from it
  /\ \A s \in Personas :
       /\ conn'[s] \subseteq conn[s]
       /\ \A o \in conn[s] : o \in conn'[s] \/ todo[o] = <<>> \/ todo'[o] = <<>>
       /\ conn[s] = {} /\ s \notin present => s \notin present'

\* A step that a pod still has to take stays sound.
LEMMA StepKept ==
  ASSUME Inv, Forward, NEW o \in Pods, NEW step \in ToSet(todo[o]),
         step \in ToSet(todo'[o])
  PROVE  StepSound(o, step)'
<1>1. StepSound(o, step) /\ todo[o] # <<>> /\ todo'[o] # <<>>
  <2>1. todo[o] # <<>> /\ todo'[o] # <<>>
    BY DEF ToSet
  <2> QED BY <2>1 DEF Inv, StepsSound
<1>2. StepTyped(step) /\ StepTyped(step)'
  BY <1>1 DEF StepSound, StepTyped
<1>3. HeldSound(step)'
  BY <1>1 DEF StepSound, HeldSound, Forward
<1>4. KnownRow(step)'
  BY <1>1, <1>2 DEF StepSound, KnownRow, StepTyped, Forward, RowsForward
<1>5. PairSound(step)'
  <2> SUFFICES ASSUME step.op = "pair" PROVE PairSound(step)'
    BY DEF PairSound
  <2>1. step.request \in Requests /\ row[step.request].status # "absent"
    BY <1>1, <1>2 DEF StepSound, KnownRow, StepTyped
  <2>2. CASE isTerminalStatus(row[step.request].status)
    BY <2>1, <2>2 DEF Forward, RowsForward, PairSound
  <2>3. CASE Allowed(step.request, step.session)
    BY <2>1, <2>3 DEF Forward, RowsForward, PairSound, Allowed
  <2> QED BY <1>1, <2>2, <2>3 DEF StepSound, PairSound
<1>6. ExpireSound(o, step)'
  BY <1>1 DEF StepSound, ExpireSound, Forward
<1>7. UnqueueSound(step)'
  <2> SUFFICES ASSUME step.op = "unqueue"
               PROVE  step.request \in robbed' \/ NotGivenBack(step.request)'
    BY DEF UnqueueSound
  <2>1. step.request \in Requests /\ Pending("unqueue", step.request)
    BY <1>2 DEF StepTyped, Pending
  <2>2. step.request \in robbed \/ NotGivenBack(step.request)
    BY <1>1 DEF StepSound, UnqueueSound
  <2> QED BY <2>1, <2>2 DEF Forward
<1>8. PersonaSound(o, step)'
  BY <1>1 DEF StepSound, PersonaSound, Forward
<1> QED BY <1>2, <1>3, <1>4, <1>5, <1>6, <1>7, <1>8 DEF StepSound

\* The steps after an action of pod p that leaves the steps N to do.
LEMMA StepsAfter ==
  ASSUME Inv, Forward, NEW p \in Pods, NEW N, TodoEffect(p, N),
         \A step \in N : StepSound(p, step)',
         (\E step \in N : step.op = "held") =>
           \A o \in Pods : \A step \in ToSet(todo[o]) : step.op # "held"
  PROVE  StepsSound'
<1>1. \A o \in Pods : \A step \in ToSet(todo'[o]) :
        (o = p /\ step \in N) \/ step \in ToSet(todo[o])
  <2>1. Rest(p) \subseteq ToSet(todo[p])
    <3>1. todo[p] \in Seq(StepType)
      BY DEF Inv, TypeOK
    <3> QED BY <3>1, HeadTailFacts, Zenon DEF Rest
  <2> QED BY <2>1 DEF TodoEffect
<1>2. \A o \in Pods : \A step \in ToSet(todo'[o]) : StepSound(o, step)'
  BY <1>1, StepKept
<1>3. \A o \in Pods : FirstSound(o)'
  <2>1. ASSUME NEW o \in Pods, o # p PROVE FirstSound(o)'
    <3>1. todo'[o] = todo[o] /\ FirstSound(o)
      BY <2>1 DEF TodoEffect, Inv, StepsSound
    <3> QED BY <3>1 DEF FirstSound, Rest
  <2> QED BY <2>1 DEF TodoEffect
<1>4. OneCreate'
  <2> SUFFICES ASSUME NEW x \in Pods, NEW y \in Pods,
                      NEW a \in ToSet(todo'[x]), NEW b \in ToSet(todo'[y]),
                      a.op = "held", b.op = "held"
               PROVE  x = y
    BY DEF OneCreate
  <2>1. CASE a \in N \/ b \in N
    BY <1>1, <2>1
  <2>2. CASE a \in ToSet(todo[x]) /\ b \in ToSet(todo[y])
    BY <2>2 DEF Inv, StepsSound, OneCreate
  <2> QED BY <1>1, <2>1, <2>2
<1> QED BY <1>2, <1>3, <1>4 DEF StepsSound

\* The steps after an action that leaves them alone.
LEMMA StepsUnchanged ==
  ASSUME Inv, Forward, UNCHANGED todo
  PROVE  StepsSound'
<1>1. \A o \in Pods : \A step \in ToSet(todo'[o]) : StepSound(o, step)'
  BY StepKept
<1>2. \A o \in Pods : FirstSound(o)'
  BY DEF Inv, StepsSound, FirstSound, Rest
<1>3. OneCreate'
  BY DEF Inv, StepsSound, OneCreate
<1> QED BY <1>1, <1>2, <1>3 DEF StepsSound

\* Forward, for an action that changes no row and connects or hears of no persona.
LEMMA QuietForward ==
  ASSUME Inv, UNCHANGED <<row, due, overdue, conn>>,
         lapsed \subseteq lapsed', robbed \subseteq robbed',
         \A s \in Personas : conn[s] = {} /\ s \notin present => s \notin present'
  PROVE  Forward
<1>1. RowsForward
  BY DEF RowsForward
<1>2. \A q \in Requests : NotGivenBack(q) => NotGivenBack(q)'
  BY DEF NotGivenBack
<1> QED BY <1>1, <1>2 DEF Forward

\* Forward, for an action that changes one row.
LEMMA ChangeForward ==
  ASSUME Inv, NEW q \in Requests, NEW new, RowChange(q, new),
         UNCHANGED <<conn, present, lapsed>>, robbed \subseteq robbed',
         Pending("unqueue", q) /\ NotGivenBack(q) =>
           q \in robbed' \/ isTerminalStatus(new.status) \/ new.responder = q,
         row[q].status = "absent" =>
           \A o \in Pods : \A step \in ToSet(todo'[o]) :
             step \in ToSet(todo[o]) /\ step.op = "held" => step.request # q
  PROVE  Forward
<1>1. /\ row'[q] = new /\ \A r \in Requests : r # q => row'[r] = row[r]
      /\ due' = due \ {q} /\ overdue' \in [Pods -> SUBSET Requests]
      /\ \A p \in Pods : overdue'[p] = overdue[p] \ {q}
      /\ RowsForward
  BY RowChangeAll
<1>2. \A o \in Pods : \A step \in ToSet(todo'[o]) :
        step.op = "held" /\ step \in ToSet(todo[o]) =>
          row'[step.request] = row[step.request]
  <2> SUFFICES ASSUME NEW o \in Pods, NEW step \in ToSet(todo'[o]),
                      step.op = "held", step \in ToSet(todo[o])
               PROVE  row'[step.request] = row[step.request]
    OBVIOUS
  <2>1. step.request \in Requests /\ row[step.request].status = "absent"
    BY DEF Inv, StepsSound, StepSound, StepTyped, HeldSound
  <2> QED BY <1>1, <2>1
<1>3. \A o \in Pods : \A r \in overdue'[o] : r \in overdue[o] /\ row'[r] = row[r]
  BY <1>1
<1>4. ASSUME NEW r \in Requests, Pending("unqueue", r), NotGivenBack(r)
      PROVE  r \in robbed' \/ NotGivenBack(r)'
  <2>1. CASE r = q
    BY <1>1, <1>4, <2>1 DEF NotGivenBack
  <2>2. CASE r # q
    BY <1>1, <1>4, <2>2 DEF NotGivenBack
  <2> QED BY <2>1, <2>2
<1> QED BY <1>1, <1>2, <1>3, <1>4 DEF Forward

-----------------------------------------------------------------------------
(* The queue and the pool *)

\* A step that puts request q on the queue, if need be.
Carries(step, q) == step.op \in {"enqueue", "pair"} /\ step.request = q

\* A request that is on the queue, accounted for, or in the hands of a pod with steps N.
StillListed(q, N) ==
  \/ q \in ToSet(queue') \/ q \in lost' \cup robbed'
  \/ \E step \in N : Carries(step, q)

\* Listed, after an action of pod p that leaves the steps N to do.
LEMMA ListedAfter ==
  ASSUME Inv, NEW p \in Pods, NEW N, TodoEffect(p, N),
         lost \subseteq lost', robbed \subseteq robbed',
         \A q \in Requests : row'[q].status = "queued" =>
           /\ row[q].status = "queued" \/ StillListed(q, N)
           /\ q \in ToSet(queue) => StillListed(q, N)
           /\ todo[p] # <<>> /\ Carries(Head(todo[p]), q) => StillListed(q, N)
  PROVE  Listed'
<1> SUFFICES ASSUME NEW q \in Requests, row'[q].status = "queued"
             PROVE  \/ q \in ToSet(queue') \/ q \in lost' \cup robbed'
                    \/ \E o \in Pods : \E step \in ToSet(todo'[o]) : Carries(step, q)
  BY DEF Listed, InHands, Carries
<1>1. CASE StillListed(q, N)
  BY <1>1 DEF StillListed, TodoEffect
<1>2. CASE ~StillListed(q, N)
  <2>1. row[q].status = "queued" /\ q \notin ToSet(queue) /\ q \notin lost \cup robbed
    BY <1>2 DEF StillListed
  <2>2. PICK o \in Pods : q \in InHands(o)
    BY <2>1 DEF Inv, Listed
  <2>3. PICK step \in ToSet(todo[o]) : Carries(step, q)
    BY <2>2 DEF InHands, Carries
  <2>4. o # p
    <3> SUFFICES ASSUME o = p PROVE FALSE
      OBVIOUS
    <3>1. todo[p] \in Seq(StepType) /\ todo[p] # <<>>
      BY <2>3 DEF Inv, TypeOK, ToSet
    <3>2. step = Head(todo[p]) \/ step \in Rest(p)
      BY <2>3, <3>1, HeadTailFacts DEF Rest
    <3>3. step \notin Rest(p)
      BY <2>3 DEF Inv, StepsSound, FirstSound, FirstOps, Carries
    <3> QED BY <1>2, <2>3, <3>1, <3>2, <3>3
  <2>5. todo'[o] = todo[o]
    BY <2>4 DEF TodoEffect
  <2> QED BY <2>3, <2>5
<1> QED BY <1>1, <1>2

\* Listed, after an action that leaves the steps and the queue alone and queues no row.
LEMMA ListedUnchanged ==
  ASSUME Inv, UNCHANGED <<todo, queue, lost, robbed>>,
         \A q \in Requests : row'[q].status = "queued" => row[q].status = "queued"
  PROVE  Listed'
BY DEF Inv, Listed, InHands

\* The pool and the queue, after an action that lists no absent row and takes no
\* connected persona's kind away unless its heartbeat was late.
LEMMA PoolAfter ==
  ASSUME Inv, Forward,
         \A q \in ToSet(queue') : q \in ToSet(queue) \/ row'[q].status # "absent",
         \A s \in untagged' : \/ s \in untagged \/ s \in lapsed'
                              \/ conn'[s] = {} /\ s \notin present'
  PROVE  PoolSound'
<1>1. \A q \in ToSet(queue) : q \in Requests /\ row[q].status # "absent"
  BY DEF Inv, TypeOK, PoolSound, ToSet
<1>2. \A q \in ToSet(queue') : row'[q].status # "absent"
  BY <1>1 DEF Forward, RowsForward
<1>3. \A s \in Personas : \A p, o \in conn'[s] : p = o
  BY DEF Inv, PoolSound, Forward
<1>4. ASSUME NEW s \in untagged'
      PROVE  s \in lapsed' \/ (conn'[s] = {} /\ s \notin present')
  <2>1. s \in untagged => s \in Personas
    BY DEF Inv, TypeOK
  <2> QED BY <1>4, <2>1 DEF Inv, PoolSound, Forward
<1> QED BY <1>2, <1>3, <1>4 DEF PoolSound

-----------------------------------------------------------------------------
(* The steps that the code adds *)

\* TodoEffects for the short lists of steps that the methods leave.
LEMMA ShortEffects ==
  ASSUME Inv, NEW p \in Pods
  PROVE  /\ Begin(p, <<>>) => TodoEffect(p, {})
         /\ \A a \in StepType : Begin(p, <<a>>) => TodoEffect(p, {a})
         /\ \A a, b \in StepType :
              b.op \notin FirstOps /\ Begin(p, <<a, b>>) => TodoEffect(p, {a, b})
         /\ \A a, b, c \in StepType :
              {b.op, c.op} \cap FirstOps = {} /\ Begin(p, <<a, b, c>>) =>
                TodoEffect(p, {a, b, c})
         /\ todo[p] # <<>> =>
              /\ Proceed(p, <<>>) => TodoEffect(p, {})
              /\ \A a \in StepType : Proceed(p, <<a>>) => TodoEffect(p, {a})
              /\ \A a, b \in StepType :
                   b.op \notin FirstOps /\ Proceed(p, <<a, b>>) => TodoEffect(p, {a, b})
              /\ \A a, b, c \in StepType :
                   {b.op, c.op} \cap FirstOps = {} /\ Proceed(p, <<a, b, c>>) =>
                     TodoEffect(p, {a, b, c})
              /\ ProceedThenDrain(p, <<>>) => TodoEffect(p, {Drain})
              /\ \A a \in StepType :
                   ProceedThenDrain(p, <<a>>) => TodoEffect(p, {a, Drain})
<1>1. TypeOK /\ FirstSound(p)
  BY DEF Inv, StepsSound
<1>2. <<>> \in Seq(StepType) /\ ToSet(<<>>) = {}
  BY DEF ToSet
<1>3. ASSUME NEW a \in StepType
      PROVE  /\ <<a>> \in Seq(StepType) /\ ToSet(<<a>>) = {a}
             /\ <<a>> # <<>> /\ \A x \in ToSet(Tail(<<a>>)) : x.op \notin FirstOps
  BY DEF ToSet
<1>4. ASSUME NEW a \in StepType, NEW b \in StepType, b.op \notin FirstOps
      PROVE  /\ <<a, b>> \in Seq(StepType) /\ ToSet(<<a, b>>) = {a, b}
             /\ <<a, b>> # <<>> /\ \A x \in ToSet(Tail(<<a, b>>)) : x.op \notin FirstOps
  BY <1>4 DEF ToSet
<1>5. ASSUME NEW a \in StepType, NEW b \in StepType, NEW c \in StepType,
             b.op \notin FirstOps, c.op \notin FirstOps
      PROVE  /\ <<a, b, c>> \in Seq(StepType) /\ ToSet(<<a, b, c>>) = {a, b, c}
             /\ <<a, b, c>> # <<>>
             /\ \A x \in ToSet(Tail(<<a, b, c>>)) : x.op \notin FirstOps
  BY <1>5 DEF ToSet
<1>6. /\ Begin(p, <<>>) => TodoEffect(p, {})
      /\ todo[p] # <<>> /\ Proceed(p, <<>>) => TodoEffect(p, {})
      /\ todo[p] # <<>> /\ ProceedThenDrain(p, <<>>) => TodoEffect(p, {Drain})
  <2>1. {} \cup {Drain} = {Drain}
    OBVIOUS
  <2> QED BY <1>1, <1>2, <2>1, TodoEffects
<1>7. ASSUME NEW a \in StepType
      PROVE  /\ Begin(p, <<a>>) => TodoEffect(p, {a})
             /\ todo[p] # <<>> /\ Proceed(p, <<a>>) => TodoEffect(p, {a})
             /\ todo[p] # <<>> /\ ProceedThenDrain(p, <<a>>) => TodoEffect(p, {a, Drain})
  <2>1. {a} \cup {Drain} = {a, Drain}
    OBVIOUS
  <2> QED BY <1>1, <1>3, <2>1, TodoEffects, ZenonT(40)
<1>8. ASSUME NEW a \in StepType, NEW b \in StepType, b.op \notin FirstOps
      PROVE  /\ Begin(p, <<a, b>>) => TodoEffect(p, {a, b})
             /\ todo[p] # <<>> /\ Proceed(p, <<a, b>>) => TodoEffect(p, {a, b})
  BY <1>1, <1>4, <1>8, TodoEffects, ZenonT(40)
<1>9. ASSUME NEW a \in StepType, NEW b \in StepType, NEW c \in StepType,
             b.op \notin FirstOps, c.op \notin FirstOps
      PROVE  /\ Begin(p, <<a, b, c>>) => TodoEffect(p, {a, b, c})
             /\ todo[p] # <<>> /\ Proceed(p, <<a, b, c>>) => TodoEffect(p, {a, b, c})
  <2>1. /\ <<a, b, c>> \in Seq(StepType) /\ ToSet(<<a, b, c>>) = {a, b, c}
        /\ \A x \in ToSet(Tail(<<a, b, c>>)) : x.op \notin FirstOps
    BY <1>5, <1>9
  <2> DEFINE steps == <<a, b, c>>
  <2> HIDE DEF steps
  <2>2. /\ Begin(p, steps) => TodoEffect(p, ToSet(steps))
        /\ todo[p] # <<>> /\ Proceed(p, steps) => TodoEffect(p, ToSet(steps))
    BY <1>1, <2>1, TodoEffects DEF steps
  <2> QED BY <2>1, <2>2 DEF steps
<1> QED BY <1>6, <1>7, <1>8, <1>9

\* The steps that need nothing but their ids, or that their row is there.
LEMMA NewSteps ==
  ASSUME NEW p \in Pods
  PROVE  /\ Drain \in StepType /\ Drain.op = "drain" /\ StepSound(p, Drain)'
         /\ \A q \in Requests :
              /\ OnRequest("enqueue", q) \in StepType
              /\ Carries(OnRequest("enqueue", q), q)
              /\ row'[q].status # "absent" => StepSound(p, OnRequest("enqueue", q))'
              /\ OnRequest("unqueue", q) \in StepType
              /\ OnRequest("unqueue", q).op = "unqueue"
              /\ row'[q].status # "absent" /\ NotGivenBack(q)' =>
                   StepSound(p, OnRequest("unqueue", q))'
         /\ \A s \in Responders : \A op \in {"remove", "push", "orphan", "busy", "withdraw"} :
              OnSession(op, s) \in StepType /\ OnSession(op, s).op = op
         /\ \A s \in Responders : \A op \in {"remove", "push", "orphan"} :
              StepSound(p, OnSession(op, s))'
<1> USE DEF StepSound, StepTyped, HeldSound, KnownRow, PairSound, ExpireSound,
            UnqueueSound, PersonaSound, Step, Carries
<1>1. Drain \in StepType /\ Drain.op = "drain" /\ StepSound(p, Drain)'
  BY DEF Drain, StepType, Ops
<1>2. ASSUME NEW q \in Requests
      PROVE  /\ OnRequest("enqueue", q) \in StepType
             /\ Carries(OnRequest("enqueue", q), q)
             /\ row'[q].status # "absent" => StepSound(p, OnRequest("enqueue", q))'
             /\ OnRequest("unqueue", q) \in StepType
             /\ OnRequest("unqueue", q).op = "unqueue"
             /\ row'[q].status # "absent" /\ NotGivenBack(q)' =>
                  StepSound(p, OnRequest("unqueue", q))'
  BY DEF OnRequest, StepType, Ops
<1>3. \A s \in Responders : \A op \in {"remove", "push", "orphan", "busy", "withdraw"} :
        OnSession(op, s) \in StepType /\ OnSession(op, s).op = op
  BY DEF OnSession, StepType, Ops, Sessions
<1>4. \A s \in Responders : \A op \in {"remove", "push", "orphan"} :
        StepSound(p, OnSession(op, s))'
  BY DEF OnSession
<1> QED BY <1>1, <1>2, <1>3, <1>4

-----------------------------------------------------------------------------
(* The actions that change a row *)

\* Either no row changes or one does, in one of the five ways.
RowsMove == UNCHANGED row \/ \E q \in Requests : \E new : RowChange(q, new)

\* A pod changes a row and leaves the steps N to do, which put the row on the queue
\* if it is queued now.
LEMMA ChangeWithSteps ==
  ASSUME Inv, NEW p \in Pods, NEW q \in Requests, NEW new, RowChange(q, new),
         UNCHANGED <<redisVars, conn, faults, lost>>, calls' \in 0..MaxCalls,
         robbed \subseteq robbed', robbed' \subseteq Requests,
         Pending("unqueue", q) /\ NotGivenBack(q) =>
           q \in robbed' \/ isTerminalStatus(new.status) \/ new.responder = q,
         row[q].status = "absent" =>
           \A o \in Pods : \A step \in ToSet(todo'[o]) :
             step \in ToSet(todo[o]) /\ step.op = "held" => step.request # q,
         NEW N, TodoEffect(p, N),
         \A step \in N : StepSound(p, step)' /\ step.op # "held",
         new.status = "queued" => \E step \in N : Carries(step, q),
         todo[p] # <<>> => Head(todo[p]).op # "enqueue",
         todo[p] # <<>> /\ Head(todo[p]).op = "pair" =>
           Head(todo[p]).request = q /\ new.status # "queued"
  PROVE  Inv' /\ RowsMove
<1>1. /\ row' \in [Requests -> RowType] /\ reward' \in [Requests -> Accounts \cup {None}]
      /\ row'[q] = new /\ \A r \in Requests : r # q => row'[r] = row[r]
      /\ due' \in SUBSET Requests /\ overdue' \in [Pods -> SUBSET Requests]
      /\ RowsSound' /\ PointsExact' /\ Consent'
  BY RowChangeAll DEF redisVars, hashVars
<1>2. Forward
  BY ChangeForward DEF redisVars, hashVars
<1>3. StepsSound'
  BY <1>2, StepsAfter
<1>4. PoolSound'
  BY <1>2, PoolAfter DEF redisVars, hashVars
<1>5. Listed'
  <2>1. ASSUME NEW r \in Requests, row'[r].status = "queued"
        PROVE  /\ row[r].status = "queued" \/ StillListed(r, N)
               /\ r \in ToSet(queue) => StillListed(r, N)
               /\ todo[p] # <<>> /\ Carries(Head(todo[p]), r) => StillListed(r, N)
    BY <1>1, <2>1 DEF StillListed, Carries, redisVars
  <2> QED BY <2>1, ListedAfter
<1>6. TypeOK'
  BY <1>1 DEF Inv, TypeOK, TodoEffect, redisVars, hashVars
<1> QED BY <1>1, <1>3, <1>4, <1>5, <1>6 DEF Inv, RowsMove

\* A pod changes a row and has nothing else to do.
LEMMA ChangeOnly ==
  ASSUME Inv, NEW q \in Requests, NEW new, RowChange(q, new), UNCHANGED todo,
         UNCHANGED <<redisVars, conn, faultVars>>, calls' \in 0..MaxCalls,
         row[q].status # "absent", new.status # "queued",
         isTerminalStatus(new.status) \/ new.responder = row[q].responder
  PROVE  Inv' /\ RowsMove
<1>1. /\ row' \in [Requests -> RowType] /\ reward' \in [Requests -> Accounts \cup {None}]
      /\ row'[q] = new /\ \A r \in Requests : r # q => row'[r] = row[r]
      /\ due' \in SUBSET Requests /\ overdue' \in [Pods -> SUBSET Requests]
      /\ ~isTerminalStatus(row[q].status)
      /\ RowsSound' /\ PointsExact' /\ Consent'
  BY RowChangeAll DEF redisVars, hashVars
<1>2. NotGivenBack(q) => isTerminalStatus(new.status) \/ new.responder = q
  BY <1>1 DEF NotGivenBack
<1>3. Forward
  BY <1>2, ChangeForward DEF redisVars, hashVars, faultVars
<1>4. StepsSound'
  BY <1>3, StepsUnchanged
<1>5. PoolSound'
  BY <1>3, PoolAfter DEF redisVars, hashVars
<1>6. Listed'
  BY <1>1, ListedUnchanged DEF redisVars, faultVars
<1>7. TypeOK'
  BY <1>1 DEF Inv, TypeOK, redisVars, hashVars, faultVars
<1> QED BY <1>1, <1>4, <1>5, <1>6, <1>7 DEF Inv, RowsMove

\* An action of pod p that changes no row and leaves the steps N to do.
LEMMA ForwardWithSteps ==
  ASSUME Inv, TypeOK', NEW p \in Pods, UNCHANGED <<row, reward>>,
         Forward, lost \subseteq lost',
         NEW N, TodoEffect(p, N), \A step \in N : StepSound(p, step)',
         (\E step \in N : step.op = "held") =>
           \A o \in Pods : \A step \in ToSet(todo[o]) : step.op # "held",
         \A q \in ToSet(queue') : q \in ToSet(queue) \/ row[q].status # "absent",
         \A s \in untagged' : \/ s \in untagged \/ s \in lapsed'
                              \/ conn'[s] = {} /\ s \notin present',
         \A q \in Requests : row[q].status = "queued" =>
           /\ q \in ToSet(queue) => StillListed(q, N)
           /\ todo[p] # <<>> /\ Carries(Head(todo[p]), q) => StillListed(q, N)
  PROVE  Inv' /\ RowsMove
<1>1. RowsSound' /\ PointsExact' /\ Consent'
  BY RowsUnchanged DEF Forward
<1>2. StepsSound'
  BY StepsAfter
<1>3. PoolSound'
  BY PoolAfter
<1>4. Listed'
  BY ListedAfter DEF Forward
<1> QED BY <1>1, <1>2, <1>3, <1>4 DEF Inv, RowsMove

\* An action that changes no row and no step.
LEMMA ForwardUnchanged ==
  ASSUME Inv, TypeOK', Forward,
         UNCHANGED <<row, reward, todo, queue, untagged, lost, robbed>>
  PROVE  Inv' /\ RowsMove
<1>1. RowsSound' /\ PointsExact' /\ Consent'
  BY RowsUnchanged DEF Forward
<1>2. StepsSound'
  BY StepsUnchanged
<1>3. PoolSound'
  BY PoolAfter
<1>4. Listed'
  BY ListedUnchanged
<1> QED BY <1>1, <1>2, <1>3, <1>4 DEF Inv, RowsMove

\* A pod changes no row and leaves the steps N to do.
LEMMA QuietWithSteps ==
  ASSUME Inv, TypeOK', NEW p \in Pods,
         UNCHANGED <<row, reward, due, overdue, conn>>,
         lapsed \subseteq lapsed', robbed \subseteq robbed', lost \subseteq lost',
         \A s \in Personas : conn[s] = {} /\ s \notin present => s \notin present',
         NEW N, TodoEffect(p, N), \A step \in N : StepSound(p, step)',
         (\E step \in N : step.op = "held") =>
           \A o \in Pods : \A step \in ToSet(todo[o]) : step.op # "held",
         \A q \in ToSet(queue') : q \in ToSet(queue) \/ row[q].status # "absent",
         \A s \in untagged' : \/ s \in untagged \/ s \in lapsed'
                              \/ conn[s] = {} /\ s \notin present',
         \A q \in Requests : row[q].status = "queued" =>
           /\ q \in ToSet(queue) => StillListed(q, N)
           /\ todo[p] # <<>> /\ Carries(Head(todo[p]), q) => StillListed(q, N)
  PROVE  Inv' /\ RowsMove
<1>1. Forward
  BY QuietForward
<1> QED BY <1>1, ForwardWithSteps

\* The first step of a pod is sound and is for a request or a responder.
LEMMA FirstStep ==
  ASSUME Inv, NEW p \in Pods, NEW op, At(p, op)
  PROVE  /\ todo[p] # <<>> /\ Head(todo[p]).op = op /\ Head(todo[p]) \in ToSet(todo[p])
         /\ Head(todo[p]) \in StepType /\ StepSound(p, Head(todo[p]))
<1>1. todo[p] # <<>> /\ Head(todo[p]).op = op /\ todo[p] \in Seq(StepType)
  BY DEF At, Inv, TypeOK
<1>2. Head(todo[p]) \in ToSet(todo[p]) /\ Head(todo[p]) \in StepType
  BY <1>1, HeadTailFacts
<1> QED BY <1>1, <1>2 DEF Inv, StepsSound

\* A call is taken by a pod without other steps, and counted.
LEMMA ServesFacts ==
  ASSUME Inv, NEW p \in Pods, Serves(p)
  PROVE  todo[p] = <<>> /\ calls' \in 0..MaxCalls
<1>1. calls \in 0..MaxCalls /\ MaxCalls \in Nat
  BY PgRedisAssumption DEF Inv, TypeOK
<1> QED BY <1>1 DEF Serves, Idle

\* The row that a live request has.
LEMMA LiveRow ==
  ASSUME Inv, NEW q \in Requests
  PROVE  /\ row[q] \in RowType /\ RowSound(q) /\ HoldExact(q) /\ PaidAuthor(q)
         /\ row[q].status \in {"absent", "queued"} \cup Held \cup Terminal
         /\ Live(q) <=> row[q].status \in {"queued"} \cup Held
         /\ row[q].status \in {"queued", "assigned"} => row[q].answer = <<>>
         /\ row[q].status = "streaming" => row[q].answer # <<>>
         /\ row[q].status = "queued" => row[q].responder = None
         /\ row[q].status \in Held => row[q].responder \in Sessions
         /\ Live(q) => reward[q] = None
         /\ None \notin Sessions /\ q \in Sessions /\ q \notin Responders
<1>1. row[q] \in RowType /\ RowSound(q) /\ HoldExact(q) /\ PaidAuthor(q)
  BY DEF Inv, TypeOK, RowsSound, PointsExact
<1>2. None \notin Sessions /\ q \in Sessions /\ q \notin Responders
  BY PgRedisAssumption DEF Sessions
<1>3. row[q].status \in {"absent", "queued"} \cup Held \cup Terminal
  BY <1>1 DEF RowType
<1>4. Live(q) <=> row[q].status \in {"queued"} \cup Held
  BY <1>3 DEF Live, isTerminalStatus, Terminal, Answered, Held
<1>5. Live(q) => reward[q] = None
  BY <1>1 DEF PaidAuthor, Live, isTerminalStatus, Terminal
<1>6. /\ row[q].status \in {"queued", "assigned"} => row[q].answer = <<>>
      /\ row[q].status = "streaming" => row[q].answer # <<>>
      /\ row[q].status = "queued" => row[q].responder = None
      /\ row[q].status \in Held => row[q].responder \in Sessions
  BY <1>1, <1>2 DEF RowSound, Held
<1> QED BY <1>1, <1>2, <1>3, <1>4, <1>5, <1>6

\* The INSERT of createRequest.
LEMMA InsertInv ==
  ASSUME Inv, NEW p \in Pods, NEW q \in Requests, row[q].status = "absent",
         Insert(p, q), UNCHANGED <<reward, redisVars, conn, faultVars>>,
         calls' \in 0..MaxCalls,
         todo[p] = <<>> \/ Head(todo[p]).op = "held",
         \A o \in Pods : \A step \in ToSet(todo[o]) :
           step.op = "held" /\ step.request = q => o = p
  PROVE  Inv' /\ RowsMove
<1>1. PICK allow \in AllowChoices, s \in PreferredChoices \cup {None} :
        /\ q \notin AskedByPersona => s = None
        /\ Update(q, [AbsentRow EXCEPT
                        !.status = "queued",
                        !.allowAI = IF q \in AskedByPersona THEN s = None ELSE allow,
                        !.preferred = s,
                        !.frozen = q \in Owned])
  BY DEF Insert
<1>2. \E ai, hold \in BOOLEAN :
        /\ hold <=> q \in Owned
        /\ Update(q, [AbsentRow EXCEPT !.status = "queued", !.allowAI = ai,
                                       !.preferred = s, !.frozen = hold])
  <2>1. (IF q \in AskedByPersona THEN s = None ELSE allow) \in BOOLEAN
    BY PgRedisAssumption, Zenon
  <2>2. (q \in Owned) \in BOOLEAN
    OBVIOUS
  <2> QED BY <1>1, <2>1, <2>2, Zenon
<1>3. PICK ai \in BOOLEAN, hold \in BOOLEAN :
        /\ hold <=> q \in Owned
        /\ Update(q, [AbsentRow EXCEPT !.status = "queued", !.allowAI = ai,
                                       !.preferred = s, !.frozen = hold])
  BY <1>2
<1> DEFINE new == [AbsentRow EXCEPT !.status = "queued", !.allowAI = ai,
                                    !.preferred = s, !.frozen = hold]
<1>4. /\ new \in RowType /\ new.status = "queued" /\ new.responder = None
      /\ new.answer = <<>> /\ new.frozen = hold /\ ~new.charged
      /\ new.preferred = s
  <2>1. s \in Humans \cup {None} /\ ai \in BOOLEAN /\ hold \in BOOLEAN
    BY <1>3, PgRedisAssumption
  <2>2. AbsentRow \in RowType
    BY DEF AbsentRow, RowType
  <2>3. AbsentRow.responder = None /\ AbsentRow.answer = <<>> /\ ~AbsentRow.charged
    BY DEF AbsentRow
  <2>4. /\ new \in RowType /\ new.status = "queued" /\ new.responder = AbsentRow.responder
        /\ new.answer = AbsentRow.answer /\ new.frozen = hold
        /\ new.charged = AbsentRow.charged /\ new.preferred = s
    BY <2>1, <2>2 DEF RowType
  <2> QED BY <2>3, <2>4
<1> HIDE DEF new
<1>5. RowChange(q, new)
  <2>1. Update(q, new)
    BY <1>3 DEF new
  <2> QED BY <1>1, <1>3, <1>4, <2>1 DEF RowChange, Creates, Answered
<1>6. /\ row'[q] = new /\ new.status # "absent"
  BY <1>5, RowChangeAll DEF redisVars, hashVars
<1> DEFINE enqueue == OnRequest("enqueue", q)
           N == {enqueue, Drain}
<1>7. /\ enqueue \in StepType /\ Carries(enqueue, q) /\ StepSound(p, enqueue)'
      /\ Drain \in StepType /\ Drain.op = "drain" /\ StepSound(p, Drain)'
      /\ enqueue.op = "enqueue"
  BY <1>6, NewSteps DEF OnRequest, Step
<1>8. TodoEffect(p, N)
  BY <1>7, ShortEffects DEF Insert, FirstOps
<1>9. ~Pending("unqueue", q)
  BY DEF Pending, Inv, StepsSound, StepSound, KnownRow
<1>10. \A o \in Pods : \A step \in ToSet(todo'[o]) :
        step \in ToSet(todo[o]) /\ step.op = "held" => step.request # q
  <2> SUFFICES ASSUME NEW o \in Pods, NEW step \in ToSet(todo'[o]),
                      step \in ToSet(todo[o]), step.op = "held", step.request = q
               PROVE  FALSE
    OBVIOUS
  <2>1. o = p
    OBVIOUS
  <2>2. step \in N \cup Rest(p)
    BY <1>8, <2>1 DEF TodoEffect
  <2> QED BY <1>7, <2>2 DEF Inv, StepsSound, FirstSound, FirstOps
<1>11. \A step \in N : StepSound(p, step)' /\ step.op # "held"
  BY <1>7
<1>12. \E step \in N : Carries(step, q)
  BY <1>7
<1>13. /\ robbed \subseteq robbed' /\ robbed' \subseteq Requests
       /\ UNCHANGED <<redisVars, conn, faults, lost>>
  BY DEF faultVars, Inv, TypeOK
<1> HIDE DEF N
<1> QED BY <1>5, <1>8, <1>9, <1>10, <1>11, <1>12, <1>13, ChangeWithSteps

\* createRequest inserts the row, or notes the ledger's total first.
LEMMA CreateRequestInv ==
  ASSUME Inv, NEW p \in Pods, NEW q \in Requests, createRequest(p, q)
  PROVE  Inv' /\ RowsMove
<1>1. todo[p] = <<>> /\ calls' \in 0..MaxCalls /\ row[q].status = "absent"
  BY ServesFacts DEF createRequest
<1>2. \A o \in Pods : \A step \in ToSet(todo[o]) :
        step.op = "held" => step.request \in Owned /\ Pending("held", step.request)
  BY DEF Inv, StepsSound, StepSound, HeldSound, Pending
<1>3. UNCHANGED <<reward, redisVars, conn, faultVars>>
  BY DEF createRequest
<1>4. CASE q \notin Owned
  <2>1. Insert(p, q)
    BY <1>4 DEF createRequest
  <2> QED BY <1>1, <1>2, <1>3, <1>4, <2>1, InsertInv
<1>5. CASE q \in Owned
  <2>1. /\ \A other \in Owned : ~Pending("held", other)
        /\ Begin(p, <<[OnRequest("held", q) EXCEPT !.points = Total]>>)
        /\ UNCHANGED <<row, due, overdue>>
    BY <1>5 DEF createRequest
  <2>2. Total \in Int
    <3>1. IsFiniteSet({r \in Owned : row[r].charged})
      BY PgRedisAssumption, FS_Subset
    <3>2. Cardinality({r \in Owned : row[r].charged}) \in Nat /\ Grant \in Nat
      BY <3>1, FS_CardinalityType, PgRedisAssumption
    <3> QED BY <3>2 DEF Total
  <2>3. PICK held : held = [OnRequest("held", q) EXCEPT !.points = Total]
    OBVIOUS
  <2>4. /\ held \in StepType /\ held.op = "held" /\ held.request = q /\ held.session = None
        /\ TodoEffect(p, {held})
    <3>1. held \in StepType /\ held.op = "held" /\ held.request = q /\ held.session = None
      BY <2>2, <2>3 DEF StepType, Ops, OnRequest, Step
    <3>2. Begin(p, <<held>>)
      BY <2>1, <2>3
    <3> QED BY <3>1, <3>2, ShortEffects
  <2>5. StepSound(p, held)'
    BY <1>1, <1>5, <2>1, <2>4
    DEF StepSound, StepTyped, HeldSound, KnownRow, PairSound, ExpireSound,
        UnqueueSound, PersonaSound
  <2>6. \A o \in Pods : \A step \in ToSet(todo[o]) : step.op # "held"
    BY <1>2, <2>1
  <2>7. TypeOK'
    BY <1>1, <1>3, <2>1, <2>4 DEF Inv, TypeOK, TodoEffect, redisVars, hashVars, faultVars
  <2> DEFINE N == {held}
  <2>8. /\ \A step \in N : StepSound(p, step)'
        /\ \A r \in Requests : r \in ToSet(queue) => StillListed(r, N)
    BY <1>3, <2>5 DEF StillListed, redisVars
  <2> HIDE DEF N
  <2>9. TodoEffect(p, N)
    BY <2>4 DEF N
  <2> QED BY <1>1, <1>3, <2>1, <2>6, <2>7, <2>8, <2>9, QuietWithSteps
          DEF redisVars, hashVars, faultVars
<1> QED BY <1>4, <1>5

\* The second half of the balance check inserts the row or gives up.
LEMMA CheckBalanceInv ==
  ASSUME Inv, NEW p \in Pods, checkBalance(p)
  PROVE  Inv' /\ RowsMove
<1> DEFINE q == Request(p)
<1>1. /\ todo[p] # <<>> /\ Head(todo[p]).op = "held" /\ Head(todo[p]) \in ToSet(todo[p])
      /\ StepSound(p, Head(todo[p]))
  BY FirstStep DEF checkBalance
<1>2. q \in Requests /\ q \in Owned /\ row[q].status = "absent"
  BY <1>1 DEF StepSound, StepTyped, HeldSound, Request
<1>3. UNCHANGED <<reward, redisVars, conn, faultVars, calls>>
  BY DEF checkBalance
<1>4. calls' \in 0..MaxCalls
  BY <1>3 DEF Inv, TypeOK
<1>5. CASE Insert(p, q)
  <2>1. \A o \in Pods : \A step \in ToSet(todo[o]) : step.op = "held" => o = p
    BY <1>1 DEF Inv, StepsSound, OneCreate
  <2> HIDE DEF q
  <2> QED BY <1>1, <1>2, <1>3, <1>4, <1>5, <2>1, InsertInv
<1>6. CASE Proceed(p, <<>>) /\ UNCHANGED <<row, due, overdue>>
  <2>1. TodoEffect(p, {})
    BY <1>1, <1>6, ShortEffects
  <2>2. TypeOK'
    BY <1>3, <1>4, <1>6, <2>1 DEF Inv, TypeOK, TodoEffect, redisVars, hashVars, faultVars
  <2>3. \A r \in Requests : /\ r \in ToSet(queue) => StillListed(r, {})
                            /\ ~Carries(Head(todo[p]), r)
    BY <1>1, <1>3 DEF StillListed, redisVars, Carries
  <2> QED BY <1>3, <1>6, <2>1, <2>2, <2>3, QuietWithSteps
          DEF redisVars, hashVars, faultVars
<1> QED BY <1>5, <1>6 DEF checkBalance

\* CancelBeforeFirstFragment abandons a row without text.
LEMMA CancelInv ==
  ASSUME Inv, NEW p \in Pods, NEW q \in Requests, CancelBeforeFirstFragment(p, q)
  PROVE  Inv' /\ RowsMove
<1> DEFINE new == Abandoned(q)
           unqueue == OnRequest("unqueue", q)
<1>1. /\ todo[p] = <<>> /\ calls' \in 0..MaxCalls /\ Update(q, new) /\ Begin(p, <<unqueue>>)
      /\ Live(q) /\ row[q].answer = <<>>
      /\ UNCHANGED <<reward, redisVars, conn, faultVars>>
  BY ServesFacts DEF CancelBeforeFirstFragment
<1>2. row[q].status \in {"queued", "assigned"} /\ row[q] \in RowType
  BY <1>1, LiveRow DEF Held
<1>3. new.status = "abandoned" /\ new.responder = None /\ isTerminalStatus(new.status)
  BY <1>2 DEF Abandoned, RowType, isTerminalStatus, Terminal
<1>4. RowChange(q, new)
  BY <1>1, <1>2, <1>3 DEF RowChange, Frees, Answered
<1> HIDE DEF new
<1>5. row'[q] = new
  BY <1>1, <1>4, RowChangeAll DEF redisVars, hashVars
<1>6. /\ unqueue \in StepType /\ unqueue.op = "unqueue" /\ StepSound(p, unqueue)'
  <2>1. row'[q].status # "absent" /\ NotGivenBack(q)'
    BY <1>3, <1>5 DEF NotGivenBack
  <2> QED BY <2>1, NewSteps
<1>7. TodoEffect(p, {unqueue})
  BY <1>1, <1>6, ShortEffects
<1> DEFINE N == {unqueue}
<1>8. \A step \in N : StepSound(p, step)' /\ step.op # "held"
  BY <1>6
<1>9. /\ robbed \subseteq robbed' /\ robbed' \subseteq Requests
      /\ UNCHANGED <<redisVars, conn, faults, lost>>
  BY <1>1 DEF faultVars, Inv, TypeOK
<1>10. TodoEffect(p, N)
  BY <1>7
<1> HIDE DEF N
<1> QED BY <1>1, <1>2, <1>3, <1>4, <1>8, <1>9, <1>10, ChangeWithSteps

\* completeRequestTx ends an answer and pays the responder that it is credited to.
LEMMA CompleteFacts ==
  ASSUME NEW q \in Requests, NEW new \in RowType, NEW status \in Answered,
         completeRequestTx(q, new, status, new.responder),
         reward[q] = None, new.answer # <<>>
  PROVE  LET done == [new EXCEPT !.status = status]
         IN /\ Update(q, done)
            /\ done.status = status /\ done.responder = new.responder
            /\ reward' = IF done.status \in Answered /\ done.responder \in Accounts
                           THEN [reward EXCEPT ![q] = done.responder] ELSE reward
BY DEF completeRequestTx, RowType

\* SubmitFragment commits a fragment, the first with the charge and the last with the reward.
LEMMA SubmitFragmentInv ==
  ASSUME Inv, NEW p \in Pods, NEW s \in Sessions, SubmitFragment(p, s)
  PROVE  Inv' /\ RowsMove
<1>1. /\ calls' \in 0..MaxCalls /\ UNCHANGED <<redisVars, conn, todo, faultVars>>
  BY ServesFacts DEF SubmitFragment, Calls
<1> DEFINE new(q) == [row[q] EXCEPT !.answer = Append(@, s), !.charged = TRUE,
                                    !.frozen = FALSE, !.status = "streaming"]
<1>2. PICK q \in Active(s), full \in BOOLEAN :
        IF full THEN completeRequestTx(q, new(q), "completed", s)
                ELSE Update(q, new(q)) /\ UNCHANGED reward
  BY DEF SubmitFragment
<1>3. /\ q \in Requests /\ row[q].responder = s /\ Live(q) /\ row[q] \in RowType
      /\ row[q].status \in Held /\ reward[q] = None
  <2>1. q \in Requests /\ row[q].responder = s /\ Live(q)
    BY <1>2 DEF Active
  <2> QED BY <2>1, LiveRow
<1>4. /\ new(q) \in RowType /\ new(q).status = "streaming" /\ new(q).responder = s
      /\ new(q).answer # <<>>
  <2>1. Append(row[q].answer, s) \in Seq(Sessions) /\ Append(row[q].answer, s) # <<>>
    BY <1>3 DEF RowType
  <2> QED BY <1>3, <2>1 DEF RowType, Held
<1>5. CASE full
  <2> DEFINE done == [new(q) EXCEPT !.status = "completed"]
  <2>1. /\ Update(q, done) /\ done.status = "completed" /\ done.responder = s
        /\ reward' = IF done.status \in Answered /\ done.responder \in Accounts
                       THEN [reward EXCEPT ![q] = done.responder] ELSE reward
    <3>1. completeRequestTx(q, new(q), "completed", new(q).responder)
      BY <1>2, <1>4, <1>5
    <3> HIDE DEF new
    <3> QED BY <1>3, <1>4, <3>1, CompleteFacts DEF Answered
  <2>2. Commits(q, done)
    <3>1. done = [row[q] EXCEPT !.answer = Append(@, row[q].responder), !.charged = TRUE,
                                !.frozen = FALSE, !.status = "completed"]
      BY <1>3 DEF RowType
    <3> HIDE DEF done
    <3> QED BY <1>3, <3>1 DEF Commits
  <2> HIDE DEF done
  <2>3. RowChange(q, done)
    BY <2>1, <2>2 DEF RowChange
  <2> QED BY <1>1, <1>3, <2>1, <2>3, ChangeOnly DEF Held
<1>6. CASE ~full
  <2>1. Update(q, new(q)) /\ UNCHANGED reward
    BY <1>2, <1>6
  <2>2. Commits(q, new(q))
    BY <1>3 DEF Commits
  <2> HIDE DEF new
  <2>3. RowChange(q, new(q))
    BY <1>4, <2>1, <2>2 DEF RowChange, Answered
  <2> QED BY <1>1, <1>3, <1>4, <2>3, ChangeOnly DEF Held
<1> QED BY <1>5, <1>6

\* Finish ends an answer with text.
LEMMA FinishInv ==
  ASSUME Inv, NEW p \in Pods, NEW s \in Sessions, Finish(p, s)
  PROVE  Inv' /\ RowsMove
<1>1. /\ calls' \in 0..MaxCalls /\ UNCHANGED <<redisVars, conn, todo, faultVars>>
  BY ServesFacts DEF Finish, Calls
<1>2. PICK q \in Active(s) :
        row[q].answer # <<>> /\ completeRequestTx(q, row[q], "completed", s)
  BY DEF Finish
<1>3. /\ q \in Requests /\ row[q].responder = s /\ Live(q) /\ row[q] \in RowType
      /\ row[q].status = "streaming" /\ reward[q] = None
  <2>1. q \in Requests /\ row[q].responder = s /\ Live(q)
    BY <1>2 DEF Active
  <2> QED BY <1>2, <2>1, LiveRow DEF Held
<1> DEFINE done == [row[q] EXCEPT !.status = "completed"]
<1>4. /\ Update(q, done) /\ done.status = "completed" /\ done.responder = s
      /\ reward' = IF done.status \in Answered /\ done.responder \in Accounts
                     THEN [reward EXCEPT ![q] = done.responder] ELSE reward
  BY <1>2, <1>3, CompleteFacts DEF Answered
<1>5. Ends(q, done)
  BY <1>3 DEF Ends, Answered
<1> HIDE DEF done
<1>6. RowChange(q, done)
  BY <1>4, <1>5 DEF RowChange
<1> QED BY <1>1, <1>3, <1>4, <1>6, ChangeOnly

\* A pod gives a row back to the queue, and has its enqueue and a drain to do.
LEMMA RequeueInv ==
  ASSUME Inv, NEW p \in Pods, NEW q \in Requests,
         row[q].status \in {"queued", "assigned"}, Update(q, Requeued(q)), UNCHANGED reward,
         TodoEffect(p, {OnRequest("enqueue", q), Drain}),
         UNCHANGED <<redisVars, conn, faults, lost>>, calls' \in 0..MaxCalls,
         robbed \subseteq robbed', robbed' \subseteq Requests,
         Pending("unqueue", q) /\ NotGivenBack(q) => q \in robbed',
         todo[p] # <<>> => Head(todo[p]).op \notin {"enqueue", "pair"}
  PROVE  Inv' /\ RowsMove
<1> DEFINE new == Requeued(q)
           enqueue == OnRequest("enqueue", q)
           N == {enqueue, Drain}
<1>1. row[q] \in RowType
  BY LiveRow
<1>2. new.status = "queued" /\ new.responder = None
  BY <1>1 DEF Requeued, RowType
<1>3. RowChange(q, new)
  BY <1>2 DEF RowChange, Frees, Answered
<1> HIDE DEF new
<1>4. row'[q] = new
  BY <1>3, RowChangeAll DEF redisVars, hashVars
<1>5. /\ enqueue.op = "enqueue" /\ Drain.op = "drain" /\ Carries(enqueue, q)
      /\ StepSound(p, enqueue)' /\ StepSound(p, Drain)'
  BY <1>2, <1>4, NewSteps DEF OnRequest, Step
<1>6. /\ \A step \in N : StepSound(p, step)' /\ step.op # "held"
      /\ \E step \in N : Carries(step, q)
  BY <1>5
<1> HIDE DEF N
<1> QED BY <1>3, <1>6, ChangeWithSteps DEF N

\* A pod abandons a row without text, and has at most a drain to do.
LEMMA AbandonInv ==
  ASSUME Inv, NEW p \in Pods, NEW q \in Requests,
         row[q].status \in {"queued", "assigned"}, Update(q, Abandoned(q)), UNCHANGED reward,
         TodoEffect(p, {Drain}),
         UNCHANGED <<redisVars, conn, faults, lost>>, calls' \in 0..MaxCalls,
         robbed \subseteq robbed', robbed' \subseteq Requests,
         todo[p] # <<>> => Head(todo[p]).op \notin {"enqueue", "pair"}
  PROVE  Inv' /\ RowsMove
<1> DEFINE new == Abandoned(q)
           N == {Drain}
<1>1. row[q] \in RowType
  BY LiveRow
<1>2. new.status = "abandoned" /\ isTerminalStatus(new.status)
  BY <1>1 DEF Abandoned, RowType, isTerminalStatus, Terminal
<1>3. RowChange(q, new)
  BY <1>2 DEF RowChange, Frees, Answered
<1> HIDE DEF new
<1>4. \A step \in N : StepSound(p, step)' /\ step.op # "held"
  BY NewSteps
<1> HIDE DEF N
<1> QED BY <1>2, <1>3, <1>4, ChangeWithSteps DEF N

\* A pod ends an answer, and has a drain to do.
LEMMA EndInv ==
  ASSUME Inv, NEW p \in Pods, NEW q \in Requests, row[q].status = "streaming",
         completeRequestTx(q, row[q], "timeout_completed", row[q].responder),
         TodoEffect(p, {Drain}),
         UNCHANGED <<redisVars, conn, faults, lost>>, calls' \in 0..MaxCalls,
         robbed \subseteq robbed', robbed' \subseteq Requests,
         todo[p] # <<>> => Head(todo[p]).op \notin {"enqueue", "pair"}
  PROVE  Inv' /\ RowsMove
<1> DEFINE done == [row[q] EXCEPT !.status = "timeout_completed"]
           N == {Drain}
<1>1. row[q] \in RowType /\ row[q].answer # <<>> /\ reward[q] = None
  BY LiveRow DEF Held
<1>2. /\ Update(q, done) /\ done.status = "timeout_completed"
      /\ reward' = IF done.status \in Answered /\ done.responder \in Accounts
                     THEN [reward EXCEPT ![q] = done.responder] ELSE reward
  BY <1>1, CompleteFacts DEF Answered
<1>3. Ends(q, done)
  BY DEF Ends, Answered
<1> HIDE DEF done
<1>4. RowChange(q, done) /\ isTerminalStatus(done.status)
  BY <1>2, <1>3 DEF RowChange, isTerminalStatus, Terminal, Answered
<1>5. \A step \in N : StepSound(p, step)' /\ step.op # "held"
  BY NewSteps
<1> HIDE DEF N
<1> QED BY <1>2, <1>4, <1>5, ChangeWithSteps DEF N

\* Skip gives an assignment back, or ends a persona's question with it.
LEMMA SkipInv ==
  ASSUME Inv, NEW p \in Pods, NEW s \in Sessions, Skip(p, s)
  PROVE  Inv' /\ RowsMove
<1>1. /\ todo[p] = <<>> /\ calls' \in 0..MaxCalls
      /\ UNCHANGED <<reward, redisVars, conn, faultVars>>
      /\ s \notin Responders => ~Pending("unqueue", s)
  BY ServesFacts DEF Skip, Calls
<1>2. PICK q \in Active(s) :
        /\ row[q].answer = <<>>
        /\ IF q \in AskedByPersona
             THEN Update(q, Abandoned(q)) /\ UNCHANGED todo
             ELSE /\ Update(q, Requeued(q))
                  /\ Begin(p, <<OnRequest("enqueue", q), Drain>>)
  BY DEF Skip
<1>3. /\ q \in Requests /\ row[q].responder = s /\ row[q] \in RowType
      /\ row[q].status = "assigned" /\ q \notin Responders
  <2>1. q \in Requests /\ row[q].responder = s /\ Live(q)
    BY <1>2 DEF Active
  <2> QED BY <1>2, <2>1, LiveRow DEF Held
<1>4. CASE q \in AskedByPersona
  <2> DEFINE new == Abandoned(q)
  <2>1. new.status = "abandoned" /\ isTerminalStatus(new.status)
    BY <1>3 DEF Abandoned, RowType, isTerminalStatus, Terminal
  <2>2. RowChange(q, new)
    BY <1>1, <1>2, <1>3, <1>4, <2>1 DEF RowChange, Frees, Answered
  <2> HIDE DEF new
  <2> QED BY <1>1, <1>2, <1>3, <1>4, <2>1, <2>2, ChangeOnly
<1>5. CASE q \notin AskedByPersona
  <2>1. Update(q, Requeued(q)) /\ Begin(p, <<OnRequest("enqueue", q), Drain>>)
    BY <1>2, <1>5
  <2>2. TodoEffect(p, {OnRequest("enqueue", q), Drain})
    BY <1>3, <2>1, NewSteps, ShortEffects DEF FirstOps
  <2>3. ~(Pending("unqueue", q) /\ NotGivenBack(q))
    BY <1>1, <1>3 DEF NotGivenBack, isTerminalStatus, Terminal, Answered
  <2>4. /\ robbed \subseteq robbed' /\ robbed' \subseteq Requests
        /\ UNCHANGED <<redisVars, conn, faults, lost>>
    BY <1>1 DEF faultVars, Inv, TypeOK
  <2> QED BY <1>1, <1>3, <2>1, <2>2, <2>3, <2>4, RequeueInv
<1> QED BY <1>4, <1>5

\* AcquireFallbackAssignment takes a queued row for its fallback session.
LEMMA AcquireInv ==
  ASSUME Inv, NEW p \in Pods, NEW q \in Requests, AcquireFallbackAssignment(p, q)
  PROVE  Inv' /\ RowsMove
<1> DEFINE new == Assigned(q, q)
           unqueue == OnRequest("unqueue", q)
           N == {unqueue}
<1>1. /\ todo[p] = <<>> /\ calls' \in 0..MaxCalls /\ row[q].status = "queued"
      /\ row[q].allowAI /\ row[q].preferred = None
      /\ Update(q, new) /\ Begin(p, <<unqueue>>)
      /\ UNCHANGED <<reward, redisVars, conn, faultVars>>
  BY ServesFacts DEF AcquireFallbackAssignment
<1>2. row[q] \in RowType /\ q \in Sessions /\ q \notin Responders
  BY LiveRow
<1>3. new.status = "assigned" /\ new.responder = q
  BY <1>2 DEF Assigned, RowType
<1>4. Assigns(q, new)
  <2>1. Allowed(q, q)
    BY <1>1, <1>2 DEF Allowed, Responders
  <2> QED BY <1>1, <1>2, <2>1 DEF Assigns
<1> HIDE DEF new
<1>5. RowChange(q, new)
  BY <1>1, <1>3, <1>4 DEF RowChange, Answered
<1>6. /\ row'[q] = new /\ due' = due \ {q} /\ \A o \in Pods : overdue'[o] = overdue[o] \ {q}
  BY <1>1, <1>5, RowChangeAll DEF redisVars, hashVars
<1>7. unqueue \in StepType /\ unqueue.op = "unqueue" /\ StepSound(p, unqueue)'
  <2>1. row'[q].status # "absent" /\ NotGivenBack(q)'
    BY <1>3, <1>6 DEF NotGivenBack
  <2> QED BY <2>1, NewSteps
<1>8. TodoEffect(p, N)
  BY <1>1, <1>7, ShortEffects
<1>9. \A step \in N : StepSound(p, step)' /\ step.op # "held"
  BY <1>7
<1>10. /\ robbed \subseteq robbed' /\ robbed' \subseteq Requests
       /\ UNCHANGED <<redisVars, conn, faults, lost>>
  BY <1>1 DEF faultVars, Inv, TypeOK
<1> HIDE DEF N
<1> QED BY <1>1, <1>3, <1>5, <1>8, <1>9, <1>10, ChangeWithSteps

\* A pod goes on without a change of any row, of the queue, of the pool or of a history.
LEMMA GoOnInv ==
  ASSUME Inv, NEW p \in Pods, todo[p] # <<>>, NEW N, TodoEffect(p, N),
         UNCHANGED <<row, reward, due, overdue, redisVars, conn, faultVars, calls>>,
         \A step \in N : StepSound(p, step)' /\ step.op # "held",
         \A q \in Requests : row[q].status = "queued" => ~Carries(Head(todo[p]), q)
  PROVE  Inv' /\ RowsMove
<1>1. TypeOK'
  BY DEF Inv, TypeOK, TodoEffect, redisVars, hashVars, faultVars
<1>2. \A q \in Requests : q \in ToSet(queue) => StillListed(q, N)
  BY DEF StillListed, redisVars
<1> QED BY <1>1, <1>2, QuietWithSteps DEF redisVars, hashVars, faultVars

\* The sweeper's CAS of an assigned row: it was silent for the whole time, so the
\* fallback session's late removal from the queue is long done.
LEMMA RevokeInv ==
  ASSUME Inv, NEW p \in Pods, revoke(p)
  PROVE  Inv' /\ RowsMove
<1>1. /\ todo[p] # <<>> /\ Head(todo[p]).op = "revoke" /\ StepSound(p, Head(todo[p]))
      /\ UNCHANGED <<reward, redisVars, conn, faultVars, calls>>
  BY FirstStep DEF revoke
<1>2. PICK q \in Requests : q = Request(p)
  BY <1>1 DEF StepSound, StepTyped, Request
<1>3. /\ row[q] \in RowType /\ RowSound(q) /\ HoldExact(q)
      /\ \A r \in Requests : ~Carries(Head(todo[p]), r)
  BY <1>1, LiveRow DEF Carries
<1>4. /\ calls' \in 0..MaxCalls /\ robbed \subseteq robbed' /\ robbed' \subseteq Requests
      /\ UNCHANGED <<redisVars, conn, faults, lost>>
  BY <1>1 DEF faultVars, Inv, TypeOK
<1>5. CASE row[q].status # "assigned" \/ q \notin overdue[p]
  <2>1. Proceed(p, <<>>) /\ UNCHANGED <<row, due, overdue>>
    BY <1>2, <1>5 DEF revoke
  <2>2. TodoEffect(p, {})
    BY <1>1, <2>1, ShortEffects
  <2> QED BY <1>1, <1>3, <2>1, <2>2, GoOnInv
<1>6. CASE row[q].status = "assigned" /\ q \in overdue[p] /\ row[q].preferred # None
  <2>1. /\ Update(q, [Abandoned(q) EXCEPT !.frozen = row[q].frozen])
        /\ ProceedThenDrain(p, <<>>)
    BY <1>2, <1>6 DEF revoke
  <2>2. row[q].frozen = FALSE
    <3>1. q \notin Owned
      BY <1>3, <1>6, PgRedisAssumption DEF RowSound
    <3> QED BY <1>3, <3>1 DEF HoldExact, RowType
  <2>3. [Abandoned(q) EXCEPT !.frozen = row[q].frozen] = Abandoned(q)
    BY <1>3, <2>2 DEF Abandoned, RowType
  <2>4. Update(q, Abandoned(q))
    BY <2>1, <2>3
  <2>5. TodoEffect(p, {Drain})
    BY <1>1, <2>1, ShortEffects
  <2> QED BY <1>1, <1>4, <1>6, <2>4, <2>5, AbandonInv
<1>7. CASE row[q].status = "assigned" /\ q \in overdue[p] /\ row[q].preferred = None
  <2>1. Update(q, Requeued(q)) /\ ProceedThenDrain(p, <<OnRequest("enqueue", q)>>)
    BY <1>2, <1>7 DEF revoke
  <2>2. TodoEffect(p, {OnRequest("enqueue", q), Drain})
    BY <1>1, <2>1, NewSteps, ShortEffects
  <2>3. ~NotGivenBack(q)
    BY <1>7 DEF NotGivenBack, isTerminalStatus, Terminal, Answered
  <2> QED BY <1>1, <1>4, <1>7, <2>1, <2>2, <2>3, RequeueInv
<1> QED BY <1>5, <1>6, <1>7

\* The sweeper's CAS of a streaming row pays the responder that it has read before.
LEMMA ExpireInv ==
  ASSUME Inv, NEW p \in Pods, expire(p)
  PROVE  Inv' /\ RowsMove
<1>1. /\ todo[p] # <<>> /\ Head(todo[p]).op = "expire" /\ StepSound(p, Head(todo[p]))
      /\ UNCHANGED <<redisVars, conn, faultVars, calls>>
  BY FirstStep DEF expire
<1>2. PICK q \in Requests : q = Request(p)
  BY <1>1 DEF StepSound, StepTyped, Request
<1>3. \A r \in Requests : ~Carries(Head(todo[p]), r)
  BY <1>1 DEF Carries
<1>4. /\ calls' \in 0..MaxCalls /\ robbed \subseteq robbed' /\ robbed' \subseteq Requests
      /\ UNCHANGED <<redisVars, conn, faults, lost>>
  BY <1>1 DEF faultVars, Inv, TypeOK
<1>5. CASE row[q].status = "streaming" /\ q \in overdue[p]
  <2>1. /\ completeRequestTx(q, row[q], "timeout_completed", Session(p))
        /\ ProceedThenDrain(p, <<>>)
    BY <1>2, <1>5 DEF expire
  <2>2. Session(p) = row[q].responder
    BY <1>1, <1>2, <1>5 DEF StepSound, ExpireSound, Session, Request
  <2>3. TodoEffect(p, {Drain})
    BY <1>1, <2>1, ShortEffects
  <2> QED BY <1>1, <1>4, <1>5, <2>1, <2>2, <2>3, EndInv
<1>6. CASE ~(row[q].status = "streaming" /\ q \in overdue[p])
  <2>1. Proceed(p, <<>>) /\ UNCHANGED <<row, reward, due, overdue>>
    BY <1>2, <1>6 DEF expire
  <2>2. TodoEffect(p, {})
    BY <1>1, <2>1, ShortEffects
  <2> QED BY <1>1, <1>3, <2>1, <2>2, GoOnInv
<1> QED BY <1>5, <1>6

\* The transaction of UnregisterResponder, for a row that may have changed hands.
LEMMA ReleaseInv ==
  ASSUME Inv, NEW p \in Pods, releaseOrphan(p)
  PROVE  Inv' /\ RowsMove
<1>1. /\ todo[p] # <<>> /\ Head(todo[p]).op = "release" /\ StepSound(p, Head(todo[p]))
      /\ UNCHANGED <<redisVars, conn, faults, lost, calls>>
  BY FirstStep DEF releaseOrphan
<1>2. PICK q \in Requests : q = Request(p)
  BY <1>1 DEF StepSound, StepTyped, Request
<1>3. /\ row[q].status # "absent" /\ Session(p) \in Responders
      /\ \A r \in Requests : ~Carries(Head(todo[p]), r)
  BY <1>1, <1>2 DEF StepSound, StepTyped, KnownRow, Request, Session, Carries
<1>4. robbed' = IF Live(q) /\ row[q].responder # Session(p) THEN robbed \cup {q} ELSE robbed
  BY <1>2 DEF releaseOrphan
<1>5. calls' \in 0..MaxCalls /\ robbed \subseteq robbed' /\ robbed' \subseteq Requests
  BY <1>1, <1>4 DEF Inv, TypeOK
<1>6. CASE isTerminalStatus(row[q].status)
  <2>1. Proceed(p, <<>>) /\ UNCHANGED <<row, reward, due, overdue>>
    BY <1>2, <1>6 DEF releaseOrphan
  <2>2. TodoEffect(p, {})
    BY <1>1, <2>1, ShortEffects
  <2>3. UNCHANGED faultVars
    BY <1>1, <1>4, <1>6 DEF faultVars, Live
  <2> QED BY <1>1, <1>3, <2>1, <2>2, <2>3, GoOnInv
<1>7. CASE ~isTerminalStatus(row[q].status) /\ row[q].answer # <<>>
  <2>1. /\ completeRequestTx(q, row[q], "timeout_completed", row[q].responder)
        /\ Proceed(p, <<Drain>>)
    BY <1>2, <1>7 DEF releaseOrphan
  <2>2. row[q].status = "streaming"
    BY <1>3, <1>7, LiveRow DEF isTerminalStatus, Held
  <2>3. TodoEffect(p, {Drain})
    BY <1>1, <2>1, NewSteps, ShortEffects
  <2> QED BY <1>1, <1>5, <2>1, <2>2, <2>3, EndInv
<1>8. ASSUME ~isTerminalStatus(row[q].status), row[q].answer = <<>>
      PROVE  row[q].status \in {"queued", "assigned"}
  BY <1>3, <1>8, LiveRow DEF isTerminalStatus, Held
<1>9. CASE ~isTerminalStatus(row[q].status) /\ row[q].answer = <<>> /\ row[q].preferred # None
  <2>1. Update(q, Abandoned(q)) /\ UNCHANGED reward /\ Proceed(p, <<Drain>>)
    BY <1>2, <1>9 DEF releaseOrphan
  <2>2. TodoEffect(p, {Drain})
    BY <1>1, <2>1, NewSteps, ShortEffects
  <2> QED BY <1>1, <1>5, <1>8, <1>9, <2>1, <2>2, AbandonInv
<1>10. CASE ~isTerminalStatus(row[q].status) /\ row[q].answer = <<>> /\ row[q].preferred = None
  <2>1. /\ Update(q, Requeued(q)) /\ UNCHANGED reward
        /\ Proceed(p, <<OnRequest("enqueue", q), Drain>>)
    BY <1>2, <1>10 DEF releaseOrphan
  <2>2. TodoEffect(p, {OnRequest("enqueue", q), Drain})
    BY <1>1, <2>1, NewSteps, ShortEffects DEF FirstOps
  <2>3. NotGivenBack(q) => q \in robbed'
    <3>1. Live(q) /\ q \notin Responders
      BY <1>8, <1>10, LiveRow DEF Held
    <3> QED BY <1>3, <1>4, <1>10, <3>1 DEF NotGivenBack
  <2> QED BY <1>1, <1>5, <1>8, <1>10, <2>1, <2>2, <2>3, RequeueInv
<1> QED BY <1>6, <1>7, <1>9, <1>10

\* A session that is to be put back into the pool.
LEMMA AddAvailableSteps ==
  ASSUME NEW s \in Responders, NEW p \in Pods
  PROVE  /\ addAvailable(s) = <<OnSession("remove", s), OnSession("push", s)>>
         /\ OnSession("remove", s) \in StepType /\ OnSession("push", s) \in StepType
         /\ OnSession("remove", s).op = "remove" /\ OnSession("push", s).op = "push"
         /\ StepSound(p, OnSession("remove", s))' /\ StepSound(p, OnSession("push", s))'
BY NewSteps DEF addAvailable

\* What is left to do when a session goes back to the pool, before a drain or after
\* the request it was paired with.
LEMMA AddAvailableEffects ==
  ASSUME Inv, NEW s \in Responders, NEW p \in Pods
  PROVE  /\ Begin(p, addAvailable(s) \o <<Drain>>) =>
              TodoEffect(p, {OnSession("remove", s), OnSession("push", s), Drain})
         /\ todo[p] # <<>> /\ Proceed(p, addAvailable(s) \o <<Drain>>) =>
              TodoEffect(p, {OnSession("remove", s), OnSession("push", s), Drain})
         /\ \A x \in StepType :
              todo[p] # <<>> /\ Proceed(p, <<x>> \o addAvailable(s)) =>
                TodoEffect(p, {x, OnSession("remove", s), OnSession("push", s)})
         /\ \A step \in {OnSession("remove", s), OnSession("push", s), Drain} :
              StepSound(p, step)' /\ step.op # "held"
<1>1. PICK a, b, c : a = OnSession("remove", s) /\ b = OnSession("push", s) /\ c = Drain
  OBVIOUS
<1>2. /\ {a, b, c} \subseteq StepType /\ addAvailable(s) = <<a, b>>
      /\ a.op = "remove" /\ b.op = "push" /\ c.op = "drain"
      /\ StepSound(p, a)' /\ StepSound(p, b)' /\ StepSound(p, c)'
  BY <1>1, AddAvailableSteps, NewSteps
<1>3. /\ <<a, b>> \o <<c>> = <<a, b, c>>
      /\ \A x \in StepType : <<x>> \o <<a, b>> = <<x, a, b>>
  BY <1>2, ThreeFacts
<1>4. /\ Begin(p, <<a, b, c>>) => TodoEffect(p, {a, b, c})
      /\ todo[p] # <<>> /\ Proceed(p, <<a, b, c>>) => TodoEffect(p, {a, b, c})
      /\ \A x \in StepType :
           todo[p] # <<>> /\ Proceed(p, <<x, a, b>>) => TodoEffect(p, {x, a, b})
  BY <1>2, ShortEffects DEF FirstOps
<1> QED BY <1>1, <1>2, <1>3, <1>4

\* The CAS of handlePair: the row is assigned, or the responder goes back to the pool.
LEMMA HandlePairInv ==
  ASSUME Inv, NEW p \in Pods, handlePair(p)
  PROVE  Inv' /\ RowsMove
<1>1. /\ todo[p] # <<>> /\ Head(todo[p]).op = "pair" /\ StepSound(p, Head(todo[p]))
      /\ UNCHANGED <<reward, redisVars, conn, faultVars, calls>>
  BY FirstStep DEF handlePair
<1>2. PICK q \in Requests : q = Request(p)
  BY <1>1 DEF StepSound, StepTyped, Request
<1>3. PICK s \in Responders : s = Session(p)
  BY <1>1 DEF StepSound, StepTyped, Session
<1>4. isTerminalStatus(row[q].status) \/ Allowed(q, s)
  BY <1>1, <1>2, <1>3 DEF StepSound, PairSound, Request, Session
<1>5. CASE row[q].status = "queued" /\ row[q].preferred \in {None, s}
  <2> DEFINE new == Assigned(q, s)
             N == {}
  <2>1. Update(q, new) /\ Proceed(p, <<>>)
    BY <1>2, <1>3, <1>5 DEF handlePair
  <2>2. TodoEffect(p, N)
    BY <1>1, <2>1, ShortEffects
  <2>3. /\ row[q] \in RowType /\ q \in Sessions /\ s \in Sessions /\ s # q
        /\ row[q].responder # q
    BY <1>3, <1>5, LiveRow DEF Sessions
  <2>4. new.status = "assigned" /\ new.responder = s
    BY <2>3 DEF Assigned, RowType
  <2>5. Assigns(q, new)
    BY <1>4, <1>5, <2>3 DEF Assigns, isTerminalStatus, Terminal, Answered
  <2> HIDE DEF new, N
  <2>6. RowChange(q, new)
    BY <1>1, <2>1, <2>4, <2>5 DEF RowChange, Answered
  <2>7. ~NotGivenBack(q)
    BY <1>5, <2>3 DEF NotGivenBack, isTerminalStatus, Terminal, Answered
  <2>8. /\ calls' \in 0..MaxCalls /\ robbed \subseteq robbed' /\ robbed' \subseteq Requests
        /\ UNCHANGED <<redisVars, conn, faults, lost>>
    BY <1>1 DEF faultVars, Inv, TypeOK
  <2>9. Head(todo[p]).request = q /\ \A step \in N : FALSE
    BY <1>2 DEF Request, N
  <2> QED BY <1>1, <1>5, <2>2, <2>4, <2>6, <2>7, <2>8, <2>9, ChangeWithSteps
<1>6. CASE ~(row[q].status = "queued" /\ row[q].preferred \in {None, s})
  <2> DEFINE N == {OnSession("remove", s), OnSession("push", s)}
  <2>1. Proceed(p, addAvailable(s)) /\ UNCHANGED <<row, due, overdue>>
    BY <1>2, <1>3, <1>6 DEF handlePair
  <2>2. TodoEffect(p, N) /\ \A step \in N : StepSound(p, step)' /\ step.op # "held"
    BY <1>1, <2>1, AddAvailableSteps, ShortEffects DEF FirstOps
  <2>3. row[q].status # "queued"
    BY <1>4, <1>6 DEF Allowed, isTerminalStatus, Terminal, Answered
  <2>4. \A r \in Requests : row[r].status = "queued" => ~Carries(Head(todo[p]), r)
    BY <1>2, <2>3 DEF Carries, Request
  <2> HIDE DEF N
  <2> QED BY <1>1, <2>1, <2>2, <2>4, GoOnInv
<1> QED BY <1>5, <1>6

-----------------------------------------------------------------------------
(* The actions that change no row *)

\* enqueueRequest puts a row that is there on the queue.
LEMMA EnqueueInv ==
  ASSUME Inv, NEW p \in Pods, enqueueRequest(p)
  PROVE  Inv' /\ RowsMove
<1>1. /\ todo[p] # <<>> /\ Head(todo[p]).op = "enqueue" /\ StepSound(p, Head(todo[p]))
      /\ queue' = Append(queue, Request(p)) /\ Proceed(p, <<>>)
      /\ UNCHANGED <<pgVars, avail, present, hashVars, conn, faultVars, calls>>
  BY FirstStep DEF enqueueRequest
<1>2. PICK q \in Requests : q = Request(p) /\ row[q].status # "absent"
  BY <1>1 DEF StepSound, StepTyped, KnownRow, Request
<1>3. queue' \in Seq(Requests) /\ ToSet(queue') = ToSet(queue) \cup {q}
  BY <1>1, <1>2, AppendFacts DEF Inv, TypeOK
<1> DEFINE N == {}
<1>4. TodoEffect(p, N)
  BY <1>1, ShortEffects
<1> HIDE DEF N
<1>5. TypeOK'
  BY <1>1, <1>3, <1>4 DEF Inv, TypeOK, TodoEffect, pgVars, hashVars, faultVars
<1>6. \A r \in Requests : /\ r \in ToSet(queue) => StillListed(r, N)
                          /\ Carries(Head(todo[p]), r) => StillListed(r, N)
  BY <1>2, <1>3 DEF StillListed, Carries, Request
<1>7. \A step \in N : FALSE
  BY DEF N
<1> QED BY <1>1, <1>2, <1>3, <1>4, <1>5, <1>6, <1>7, QuietWithSteps
        DEF pgVars, hashVars, faultVars

\* A fault is counted.
LEMMA FaultType ==
  ASSUME Inv, faults < MaxFaults, faults' = faults + 1
  PROVE  faults' \in 0..MaxFaults
<1>1. faults \in 0..MaxFaults /\ MaxFaults \in Nat
  BY PgRedisAssumption DEF Inv, TypeOK
<1> QED BY <1>1

\* Redis refuses: the request is lost to the queue.
LEMMA EnqueueFailsInv ==
  ASSUME Inv, NEW p \in Pods, enqueueFails(p)
  PROVE  Inv' /\ RowsMove
<1>1. /\ todo[p] # <<>> /\ Head(todo[p]).op = "enqueue" /\ StepSound(p, Head(todo[p]))
      /\ lost' = lost \cup {Request(p)} /\ (Begin(p, <<>>) \/ Proceed(p, <<>>))
      /\ UNCHANGED <<pgVars, redisVars, conn, robbed, calls>>
  BY FirstStep DEF enqueueFails
<1>2. PICK q \in Requests : q = Request(p)
  BY <1>1 DEF StepSound, StepTyped, Request
<1>3. faults' \in 0..MaxFaults
  BY FaultType DEF enqueueFails
<1> DEFINE N == {}
<1>4. TodoEffect(p, N)
  BY <1>1, ShortEffects
<1> HIDE DEF N
<1>5. TypeOK'
  BY <1>1, <1>2, <1>3, <1>4 DEF Inv, TypeOK, TodoEffect, pgVars, redisVars, hashVars
<1>6. \A r \in Requests : /\ r \in ToSet(queue) => StillListed(r, N)
                          /\ Carries(Head(todo[p]), r) => StillListed(r, N)
  BY <1>1, <1>2 DEF StillListed, Carries, Request, redisVars
<1>7. \A step \in N : FALSE
  BY DEF N
<1> QED BY <1>1, <1>4, <1>5, <1>6, <1>7, QuietWithSteps DEF pgVars, redisVars, hashVars

\* removeQueued takes a request off the queue that is over, or that is not queued
\* because the fallback session has it, or that a disconnect has taken from it.
LEMMA RemoveQueuedInv ==
  ASSUME Inv, NEW p \in Pods, removeQueued(p)
  PROVE  Inv' /\ RowsMove
<1>1. /\ todo[p] # <<>> /\ Head(todo[p]).op = "unqueue" /\ StepSound(p, Head(todo[p]))
      /\ queue' = RemoveValue(queue, Request(p)) /\ Proceed(p, <<>>)
      /\ UNCHANGED <<pgVars, avail, present, hashVars, conn, faultVars, calls>>
  BY FirstStep DEF removeQueued
<1>2. PICK q \in Requests : q = Request(p)
  BY <1>1 DEF StepSound, StepTyped, Request
<1>3. queue' \in Seq(Requests) /\ ToSet(queue') = ToSet(queue) \ {q}
  BY <1>1, <1>2, RemoveValueFacts DEF Inv, TypeOK
<1>4. row[q].status = "queued" => q \in robbed
  <2>1. q \in robbed \/ NotGivenBack(q)
    BY <1>1, <1>2 DEF StepSound, UnqueueSound, Request
  <2> QED BY <2>1, LiveRow DEF NotGivenBack, isTerminalStatus, Terminal, Answered
<1> DEFINE N == {}
<1>5. TodoEffect(p, N)
  BY <1>1, ShortEffects
<1> HIDE DEF N
<1>6. TypeOK'
  BY <1>1, <1>3, <1>5 DEF Inv, TypeOK, TodoEffect, pgVars, hashVars, faultVars
<1>7. \A r \in Requests : row[r].status = "queued" =>
        /\ r \in ToSet(queue) => StillListed(r, N)
        /\ ~Carries(Head(todo[p]), r)
  BY <1>1, <1>3, <1>4 DEF StillListed, Carries, faultVars
<1>8. \A step \in N : FALSE
  BY DEF N
<1> QED BY <1>1, <1>3, <1>5, <1>6, <1>7, <1>8, QuietWithSteps DEF pgVars, hashVars, faultVars

\* A pod changes the pool only, with its first step of an op that carries no request.
LEMMA PoolStepInv ==
  ASSUME Inv, NEW p \in Pods, todo[p] # <<>>, Head(todo[p]).op \notin {"enqueue", "pair"},
         UNCHANGED <<pgVars, queue, lapsed, conn, faultVars, calls>>,
         avail' \in Seq(Responders), present' \in SUBSET Responders,
         declined' \in SUBSET Responders, untagged' \in SUBSET Personas,
         \A s \in Personas : conn[s] = {} /\ s \notin present => s \notin present',
         \A s \in untagged' : s \in untagged \/ (conn[s] = {} /\ s \notin present'),
         NEW N, TodoEffect(p, N),
         \A step \in N : StepSound(p, step)' /\ step.op # "held"
  PROVE  Inv' /\ RowsMove
<1>1. TypeOK'
  BY DEF Inv, TypeOK, TodoEffect, pgVars, faultVars
<1>2. \A r \in Requests : /\ r \in ToSet(queue) => StillListed(r, N)
                          /\ ~Carries(Head(todo[p]), r)
  BY DEF StillListed, Carries
<1> QED BY <1>1, <1>2, QuietWithSteps DEF pgVars, faultVars

\* The two calls of addAvailable.
LEMMA RemovePushInv ==
  ASSUME Inv, NEW p \in Pods, removeAvailable(p) \/ pushAvailable(p)
  PROVE  Inv' /\ RowsMove
<1>1. /\ todo[p] # <<>> /\ Head(todo[p]).op \in {"remove", "push"}
      /\ StepSound(p, Head(todo[p])) /\ Proceed(p, <<>>)
      /\ UNCHANGED <<pgVars, queue, present, hashVars, conn, faultVars, calls>>
      /\ avail' = RemoveValue(avail, Session(p)) \/ avail' = Append(avail, Session(p))
  BY FirstStep DEF removeAvailable, pushAvailable
<1>2. Session(p) \in Responders
  BY <1>1 DEF StepSound, StepTyped, Session
<1>3. avail \in Seq(Responders)
  BY DEF Inv, TypeOK
<1>4. avail' \in Seq(Responders)
  BY <1>1, <1>2, <1>3, RemoveValueFacts, AppendFacts
<1> DEFINE N == {}
<1>5. TodoEffect(p, N) /\ \A step \in N : FALSE
  BY <1>1, ShortEffects
<1> HIDE DEF N
<1>6. /\ present' = present /\ present' \in SUBSET Responders
      /\ declined' \in SUBSET Responders
      /\ untagged' = untagged /\ untagged' \in SUBSET Personas
      /\ UNCHANGED <<pgVars, queue, lapsed, conn, faultVars, calls>>
  BY <1>1 DEF Inv, TypeOK, hashVars
<1> QED BY <1>1, <1>4, <1>5, <1>6, PoolStepInv

\* The rest of MarkResponderAvailable.
LEMMA AddUnlessBusyInv ==
  ASSUME Inv, NEW p \in Pods, addUnlessBusy(p)
  PROVE  Inv' /\ RowsMove
<1>1. /\ todo[p] # <<>> /\ Head(todo[p]).op = "busy" /\ StepSound(p, Head(todo[p]))
      /\ UNCHANGED <<pgVars, queue, avail, hashVars, conn, faultVars, calls>>
  BY FirstStep DEF addUnlessBusy
<1>2. PICK s \in Responders : s = Session(p)
  BY <1>1 DEF StepSound, StepTyped, Session
<1>3. s \in Personas => conn[s] # {}
  BY <1>1, <1>2 DEF StepSound, PersonaSound, Session
<1>4. /\ avail' \in Seq(Responders) /\ declined' \in SUBSET Responders
      /\ untagged' = untagged /\ untagged' \in SUBSET Personas
      /\ present \in SUBSET Responders
      /\ UNCHANGED <<pgVars, queue, lapsed, conn, faultVars, calls>>
  BY <1>1 DEF Inv, TypeOK, hashVars
<1>5. CASE Proceed(p, <<>>) /\ UNCHANGED present
  <2> DEFINE N == {}
  <2>1. TodoEffect(p, N) /\ \A step \in N : FALSE
    BY <1>1, <1>5, ShortEffects
  <2> HIDE DEF N
  <2> QED BY <1>1, <1>4, <1>5, <2>1, PoolStepInv
<1>6. CASE present' = present \cup {s} /\ Proceed(p, addAvailable(s) \o <<Drain>>)
  <2> DEFINE N == {OnSession("remove", s), OnSession("push", s), Drain}
  <2>1. TodoEffect(p, N) /\ \A step \in N : StepSound(p, step)' /\ step.op # "held"
    BY <1>1, <1>6, AddAvailableEffects
  <2> HIDE DEF N
  <2>2. /\ present' \in SUBSET Responders
        /\ \A z \in Personas : conn[z] = {} /\ z \notin present => z \notin present'
    BY <1>2, <1>3, <1>4, <1>6
  <2> QED BY <1>1, <1>4, <2>1, <2>2, PoolStepInv
<1> QED BY <1>2, <1>5, <1>6 DEF addUnlessBusy

\* UnregisterResponder clears the pool and the hashes of a session that has left.
LEMMA WithdrawInv ==
  ASSUME Inv, NEW p \in Pods, withdraw(p)
  PROVE  Inv' /\ RowsMove
<1>1. /\ todo[p] # <<>> /\ Head(todo[p]).op = "withdraw" /\ StepSound(p, Head(todo[p]))
      /\ Proceed(p, <<>>)
      /\ UNCHANGED <<pgVars, queue, present, lapsed, conn, faultVars, calls>>
  BY FirstStep DEF withdraw
<1>2. PICK s \in Responders : s = Session(p)
  BY <1>1 DEF StepSound, StepTyped, Session
<1>3. /\ avail' = RemoveValue(avail, s) /\ declined' = declined \ {s}
      /\ untagged' = untagged \cup ({s} \cap Personas)
  BY <1>2 DEF withdraw
<1>4. s \in Personas => conn[s] = {} /\ s \notin present
  BY <1>1, <1>2 DEF StepSound, PersonaSound, Session
<1>5. avail' \in Seq(Responders)
  BY <1>3, RemoveValueFacts DEF Inv, TypeOK
<1>6. TodoEffect(p, {})
  BY <1>1, ShortEffects
<1>7. /\ present' \in SUBSET Responders /\ declined' \in SUBSET Responders
      /\ untagged' \in SUBSET Personas
      /\ \A z \in untagged' : z \in untagged \/ (conn[z] = {} /\ z \notin present')
  BY <1>1, <1>3, <1>4 DEF Inv, TypeOK
<1> QED BY <1>1, <1>5, <1>6, <1>7, PoolStepInv

\* UnregisterResponder looks for a request that the session holds.
LEMMA FindOrphanInv ==
  ASSUME Inv, NEW p \in Pods, findOrphan(p)
  PROVE  Inv' /\ RowsMove
<1>1. /\ todo[p] # <<>> /\ Head(todo[p]).op = "orphan" /\ StepSound(p, Head(todo[p]))
      /\ UNCHANGED <<row, reward, due, overdue, redisVars, conn, faultVars, calls>>
  BY FirstStep DEF findOrphan, pgVars
<1>2. PICK s \in Responders : s = Session(p)
  BY <1>1 DEF StepSound, StepTyped, Session
<1>3. \A r \in Requests : ~Carries(Head(todo[p]), r)
  BY <1>1 DEF Carries
<1>4. CASE Proceed(p, <<>>)
  <2> DEFINE N == {}
  <2>1. TodoEffect(p, N) /\ \A step \in N : FALSE
    BY <1>1, <1>4, ShortEffects
  <2> HIDE DEF N
  <2> QED BY <1>1, <1>3, <2>1, GoOnInv
<1>5. CASE \E q \in Active(s) : Proceed(p, <<Step("release", q, s)>>)
  <2>1. PICK q \in Active(s) : Proceed(p, <<Step("release", q, s)>>)
    BY <1>5
  <2>2. q \in Requests /\ row[q].status # "absent"
    BY <2>1 DEF Active, Live
  <2>3. PICK x : x = Step("release", q, s)
    OBVIOUS
  <2>4. /\ x \in StepType /\ x.op = "release" /\ x.request = q /\ x.session = s
    BY <2>2, <2>3 DEF Step, StepType, Ops, Sessions
  <2>5. StepSound(p, x)'
    BY <1>1, <1>2, <2>2, <2>4
    DEF StepSound, StepTyped, HeldSound, KnownRow, PairSound, ExpireSound,
        UnqueueSound, PersonaSound
  <2> DEFINE N == {x}
  <2>6. TodoEffect(p, N) /\ \A step \in N : StepSound(p, step)' /\ step.op # "held"
    BY <1>1, <2>1, <2>3, <2>4, <2>5, ShortEffects
  <2> HIDE DEF N
  <2> QED BY <1>1, <1>3, <2>6, GoOnInv
<1> QED BY <1>2, <1>4, <1>5 DEF findOrphan

\* A statement of handlePair fails: the request and the responder go back.
LEMMA HandlePairFailsInv ==
  ASSUME Inv, NEW p \in Pods, handlePairFails(p)
  PROVE  Inv' /\ RowsMove
<1>1. /\ todo[p] # <<>> /\ Head(todo[p]).op = "pair" /\ StepSound(p, Head(todo[p]))
      /\ UNCHANGED <<pgVars, redisVars, conn, lost, robbed, calls>>
      /\ Proceed(p, <<OnRequest("enqueue", Request(p))>> \o addAvailable(Session(p)))
  BY FirstStep DEF handlePairFails
<1>2. PICK q \in Requests : q = Request(p) /\ row[q].status # "absent"
  BY <1>1 DEF StepSound, StepTyped, KnownRow, Request
<1>3. PICK s \in Responders : s = Session(p)
  BY <1>1 DEF StepSound, StepTyped, Session
<1>4. faults' \in 0..MaxFaults
  BY FaultType DEF handlePairFails
<1>5. row' = row /\ row'[q].status # "absent"
  BY <1>1, <1>2 DEF pgVars
<1>6. PICK x : x = OnRequest("enqueue", q)
  OBVIOUS
<1>7. x \in StepType /\ x.op = "enqueue" /\ Carries(x, q) /\ StepSound(p, x)'
  BY <1>5, <1>6, NewSteps DEF OnRequest, Step
<1> DEFINE M == {OnSession("remove", s), OnSession("push", s), Drain}
           N == {x, OnSession("remove", s), OnSession("push", s)}
<1>8. Proceed(p, <<x>> \o addAvailable(s))
  BY <1>1, <1>2, <1>3, <1>6
<1>9. TodoEffect(p, N) /\ \A step \in M : StepSound(p, step)' /\ step.op # "held"
  BY <1>1, <1>7, <1>8, AddAvailableEffects
<1>10. /\ \A step \in N : StepSound(p, step)' /\ step.op # "held"
       /\ \E step \in N : Carries(step, q)
  BY <1>7, <1>9
<1> HIDE DEF N
<1>11. TypeOK'
  BY <1>1, <1>4, <1>9 DEF Inv, TypeOK, TodoEffect, pgVars, redisVars, hashVars
<1>12. \A r \in Requests : /\ r \in ToSet(queue) => StillListed(r, N)
                           /\ Carries(Head(todo[p]), r) => StillListed(r, N)
  BY <1>1, <1>2, <1>10 DEF StillListed, Carries, Request, redisVars
<1> QED BY <1>1, <1>9, <1>10, <1>11, <1>12, QuietWithSteps DEF pgVars, redisVars, hashVars

\* A list of steps of one kind that does not have to come first.
LEMMA ListEffects ==
  ASSUME Inv, NEW p \in Pods, NEW steps \in Seq(StepType),
         \A x \in ToSet(steps) : x.op \notin FirstOps
  PROVE  /\ Begin(p, steps) => TodoEffect(p, ToSet(steps))
         /\ todo[p] # <<>> /\ Proceed(p, steps) => TodoEffect(p, ToSet(steps))
<1>1. TypeOK /\ FirstSound(p)
  BY DEF Inv, StepsSound
<1>2. ASSUME steps # <<>> PROVE \A x \in ToSet(Tail(steps)) : x.op \notin FirstOps
  BY <1>2, HeadTailFacts
<1> QED BY <1>1, <1>2, TodoEffects

\* The second SELECT of the sweeper reads whom to pay from rows that are silent.
LEMMA SelectStreamingInv ==
  ASSUME Inv, NEW p \in Pods, selectStreaming(p)
  PROVE  Inv' /\ RowsMove
<1> DEFINE silent == {q \in overdue[p] : row[q].status = "streaming" /\ row[q].answer # <<>>}
           expiry(q) == Step("expire", q, row[q].responder)
           N == {expiry(q) : q \in silent}
           steps == SetToSeq(N)
<1>1. /\ todo[p] # <<>> /\ Head(todo[p]).op = "silent" /\ Proceed(p, steps)
      /\ UNCHANGED <<row, reward, due, overdue, redisVars, conn, faultVars, calls>>
  BY FirstStep DEF selectStreaming, pgVars
<1>2. silent \in SUBSET Requests /\ IsFiniteSet(silent)
  BY PgRedisAssumption, FS_Subset DEF Inv, TypeOK
<1>3. IsFiniteSet(N)
  <2> DEFINE F == [q \in silent |-> expiry(q)]
  <2>1. F \in [silent -> N] /\ \A x \in N : \E q \in silent : F[q] = x
    OBVIOUS
  <2> HIDE DEF F, N, silent
  <2> QED BY <1>2, <2>1, Fun_IsSurj, FS_Surjection
<1>4. ASSUME NEW x \in N
      PROVE  x \in StepType /\ x.op = "expire" /\ StepSound(p, x)'
  <2>1. PICK q \in silent : x = expiry(q)
    OBVIOUS
  <2>2. q \in Requests /\ row[q].responder \in Sessions \cup {None}
    BY <1>2, <2>1 DEF Inv, TypeOK, RowType
  <2>3. /\ x \in StepType /\ x.op = "expire" /\ x.request = q
        /\ x.session = row[q].responder
    BY <2>1, <2>2 DEF Step, StepType, Ops
  <2> QED BY <1>1, <2>2, <2>3
          DEF StepSound, StepTyped, HeldSound, KnownRow, PairSound, ExpireSound,
              UnqueueSound, PersonaSound
<1> HIDE DEF N
<1>5. steps \in Seq(StepType) /\ ToSet(steps) = N
  BY <1>3, <1>4, SetToSeqFacts
<1> HIDE DEF steps
<1>6. TodoEffect(p, N)
  BY <1>1, <1>4, <1>5, ListEffects DEF FirstOps
<1>7. \A r \in Requests : ~Carries(Head(todo[p]), r)
  BY <1>1 DEF Carries
<1> QED BY <1>1, <1>4, <1>6, <1>7, GoOnInv

\* The first SELECT of the sweeper.  A row that is due is not one whose removal from
\* the queue is still to come.
LEMMA SweepInv ==
  ASSUME Inv, NEW p \in Pods, SweepTimeouts(p)
  PROVE  Inv' /\ RowsMove
<1> DEFINE silent == {q \in due : row[q].status = "assigned" /\ row[q].answer = <<>>}
           R == {OnRequest("revoke", q) : q \in silent}
           last == Step("silent", None, None)
           steps == Append(SetToSeq(R), last)
           N == R \cup {last}
<1>1. /\ todo[p] = <<>> /\ Begin(p, steps) /\ overdue' = [overdue EXCEPT ![p] = due]
      /\ UNCHANGED <<row, reward, due, redisVars, conn, faultVars, calls>>
  BY DEF SweepTimeouts, Idle
<1>2. due \in SUBSET Requests /\ overdue \in [Pods -> SUBSET Requests]
  BY DEF Inv, TypeOK
<1>3. silent \in SUBSET Requests /\ IsFiniteSet(silent)
  BY <1>2, PgRedisAssumption, FS_Subset
<1>4. IsFiniteSet(R)
  <2> DEFINE F == [q \in silent |-> OnRequest("revoke", q)]
  <2>1. F \in [silent -> R] /\ \A x \in R : \E q \in silent : F[q] = x
    OBVIOUS
  <2> HIDE DEF F, R, silent
  <2> QED BY <1>3, <2>1, Fun_IsSurj, FS_Surjection
<1>5. ASSUME NEW x \in N
      PROVE  x \in StepType /\ x.op \in {"revoke", "silent"} /\ StepSound(p, x)'
  <2>1. /\ x \in StepType /\ x.op \in {"revoke", "silent"}
        /\ x.op = "revoke" => x.request \in Requests
    BY <1>3 DEF OnRequest, Step, StepType, Ops
  <2> QED BY <2>1
          DEF StepSound, StepTyped, HeldSound, KnownRow, PairSound, ExpireSound,
              UnqueueSound, PersonaSound
<1>6. steps \in Seq(StepType) /\ ToSet(steps) = N
  <2>1. R \in SUBSET StepType /\ last \in StepType
    BY <1>5
  <2> HIDE DEF R, last
  <2>2. SetToSeq(R) \in Seq(StepType) /\ ToSet(SetToSeq(R)) = R
    BY <1>4, <2>1, SetToSeqFacts
  <2> QED BY <2>1, <2>2, AppendFacts
<1> HIDE DEF N, steps
<1>7. TodoEffect(p, N)
  BY <1>1, <1>5, <1>6, ListEffects DEF FirstOps
<1>8. /\ overdue' \in [Pods -> SUBSET Requests] /\ overdue'[p] = due
      /\ \A o \in Pods : o # p => overdue'[o] = overdue[o]
  BY <1>1, <1>2
<1>9. Forward
  <2>1. RowsForward
    BY <1>1 DEF RowsForward
  <2>2. \A q \in Requests : NotGivenBack(q) => NotGivenBack(q)'
    BY <1>1, <1>8 DEF NotGivenBack
  <2> QED BY <1>1, <1>8, <2>1, <2>2 DEF Forward, redisVars, hashVars, faultVars
<1>10. TypeOK'
  BY <1>1, <1>7, <1>8 DEF Inv, TypeOK, TodoEffect, redisVars, hashVars, faultVars
<1>11. \A r \in Requests : r \in ToSet(queue) => StillListed(r, N)
  BY <1>1 DEF StillListed, redisVars
<1> QED BY <1>1, <1>5, <1>7, <1>9, <1>10, <1>11, ForwardWithSteps
        DEF redisVars, hashVars, faultVars

\* Whom assignScript matches is allowed to answer: a present persona that passes for
\* a person has been late with its heartbeat.
LEMMA MatchAllowed ==
  ASSUME Inv, NEW q \in ToSet(queue), NEW s \in present, Compatible(q, s)
  PROVE  /\ q \in Requests /\ row[q].status # "absent"
         /\ isTerminalStatus(row[q].status) \/ Allowed(q, s)
<1>1. q \in Requests /\ row[q].status # "absent"
  BY DEF Inv, TypeOK, PoolSound, ToSet
<1>2. s \in untagged => s \in lapsed
  BY DEF Inv, PoolSound
<1> QED BY <1>1, <1>2 DEF Compatible, SeenAsPersona, Live, Allowed

\* assignScript, for the loop of drainAssignments and for the ticker.
LEMMA AssignNextInv ==
  ASSUME Inv, NEW p \in Pods, At(p, "drain") \/ Idle(p), assignNext(p)
  PROVE  Inv' /\ RowsMove
<1> DEFINE Fits(s) == {j \in DOMAIN queue : Compatible(queue[j], s)}
           hits == {i \in DOMAIN avail : avail[i] \in present /\ Fits(avail[i]) # {}}
           i == IF hits = {} THEN Len(avail) + 1 ELSE Min(hits)
           stale == {avail[k] : k \in 1..i - 1} \ present
           kept == {k \in DOMAIN avail : k > i \/ (k < i /\ avail[k] \in present)}
           j == Min(Fits(avail[i]))
<1>1. /\ avail' = KeepAt(avail, kept)
      /\ declined' = declined \ stale
      /\ untagged' = untagged \cup (stale \cap Personas)
      /\ lapsed' = lapsed \cup {s \in stale : conn[s] # {}}
      /\ hits = {} => Begin(p, <<>>) /\ UNCHANGED queue
      /\ hits # {} => /\ queue' = RemoveIndex(queue, j)
                      /\ Begin(p, <<Step("pair", queue[j], avail[i]), Drain>>)
      /\ UNCHANGED <<row, reward, due, overdue, present, conn, faultVars, calls>>
  BY DEF assignNext, pgVars
<1>2. /\ avail \in Seq(Responders) /\ queue \in Seq(Requests)
      /\ Len(avail) \in Nat /\ DOMAIN avail = 1..Len(avail)
      /\ Len(queue) \in Nat /\ DOMAIN queue = 1..Len(queue)
  BY DEF Inv, TypeOK
<1>3. hits # {} => i \in hits
  BY <1>2, MinFacts
<1>4. stale \in SUBSET Responders
  <2>1. i - 1 <= Len(avail)
    BY <1>2, <1>3
  <2>2. i \in Int
    BY <1>2, <1>3
  <2> HIDE DEF i
  <2> QED BY <1>2, <2>1, <2>2
<1>5. avail' \in Seq(Responders)
  <2>1. kept \in SUBSET DOMAIN avail
    OBVIOUS
  <2> HIDE DEF kept
  <2> QED BY <1>1, <1>2, <2>1, KeepAtFacts
<1>6. ASSUME NEW z \in untagged'
      PROVE  z \in untagged \/ z \in lapsed' \/ (conn[z] = {} /\ z \notin present')
  <2>1. z \in untagged \/ (z \in stale /\ z \notin present)
    BY <1>1, <1>6
  <2> HIDE DEF stale
  <2> QED BY <1>1, <2>1
<1> HIDE DEF stale, kept
<1>7. /\ lapsed \subseteq lapsed' /\ lapsed' \in SUBSET Responders
      /\ declined' \in SUBSET Responders /\ untagged' \in SUBSET Personas
  BY <1>1, <1>4 DEF Inv, TypeOK
<1>8. /\ lost' = lost /\ robbed' = robbed /\ faults' = faults /\ present' = present
      /\ UNCHANGED <<row, reward, due, overdue, conn>>
      /\ \A r \in Requests : todo[p] # <<>> => ~Carries(Head(todo[p]), r)
  BY <1>1 DEF faultVars, At, Idle, Carries
<1>9. CASE hits = {}
  <2> DEFINE N == {}
  <2>1. TodoEffect(p, N) /\ \A step \in N : FALSE
    BY <1>1, <1>9, ShortEffects
  <2> HIDE DEF N, hits
  <2>2. queue' = queue
    BY <1>1, <1>9
  <2>3. TypeOK'
    BY <1>1, <1>5, <1>7, <1>8, <2>1, <2>2 DEF Inv, TypeOK, TodoEffect
  <2>4. \A r \in Requests : r \in ToSet(queue) => StillListed(r, N)
    BY <2>2 DEF StillListed
  <2> QED BY <1>6, <1>7, <1>8, <2>1, <2>2, <2>3, <2>4, QuietWithSteps
<1>10. CASE hits # {}
  <2>1. PICK s \in Responders : s = avail[i] /\ s \in present /\ Fits(s) # {}
    <3> HIDE DEF i
    <3> QED BY <1>2, <1>3, <1>10
  <2>2. j \in DOMAIN queue /\ Compatible(queue[j], s)
    <3>1. Fits(s) \in SUBSET (1..Len(queue)) /\ Fits(s) # {}
      BY <1>2, <2>1
    <3>2. j = Min(Fits(s))
      BY <2>1
    <3>3. j \in Fits(s)
      <4> HIDE DEF j, Fits
      <4> QED BY <1>2, <3>1, <3>2, MinFacts
    <3> QED BY <3>3
  <2>3. PICK q : q = queue[j]
    OBVIOUS
  <2>4. /\ queue' = RemoveIndex(queue, j) /\ Begin(p, <<Step("pair", q, s), Drain>>)
    BY <1>1, <1>10, <2>1, <2>3
  <2> HIDE DEF hits, i, j, Fits
  <2>5. /\ q \in Requests /\ q \in ToSet(queue) /\ row[q].status # "absent"
        /\ isTerminalStatus(row[q].status) \/ Allowed(q, s)
    <3>1. q \in ToSet(queue)
      BY <2>2, <2>3 DEF ToSet
    <3> QED BY <2>1, <2>2, <2>3, <3>1, MatchAllowed
  <2>6. queue' \in Seq(Requests) /\ ToSet(queue) \subseteq ToSet(queue') \cup {q}
        /\ ToSet(queue') \subseteq ToSet(queue)
    <3>1. /\ queue' \in Seq(Requests)
          /\ ToSet(queue') = {queue[k] : k \in DOMAIN queue \ {j}}
      BY <1>2, <2>4, KeepAtFacts DEF RemoveIndex
    <3> QED BY <2>3, <3>1 DEF ToSet
  <2>7. PICK x : x = Step("pair", q, s)
    OBVIOUS
  <2>8. x \in StepType /\ x.op = "pair" /\ x.request = q /\ x.session = s
    BY <2>1, <2>5, <2>7 DEF Step, StepType, Ops, Sessions
  <2>9. StepSound(p, x)'
    <3>1. isTerminalStatus(row'[q].status) \/ Allowed(q, s)'
      BY <1>1, <1>7, <2>5 DEF Allowed
    <3> QED BY <1>1, <2>1, <2>5, <2>8, <3>1
            DEF StepSound, StepTyped, HeldSound, KnownRow, PairSound, ExpireSound,
                UnqueueSound, PersonaSound
  <2> DEFINE N == {x, Drain}
  <2>10. /\ TodoEffect(p, N) /\ \E step \in N : Carries(step, q)
         /\ \A step \in N : StepSound(p, step)' /\ step.op # "held"
    BY <2>4, <2>7, <2>8, <2>9, NewSteps, ShortEffects DEF FirstOps, Carries
  <2> HIDE DEF N
  <2>11. TypeOK'
    BY <1>1, <1>5, <1>7, <1>8, <2>6, <2>10 DEF Inv, TypeOK, TodoEffect
  <2>12. \A r \in Requests : r \in ToSet(queue) => StillListed(r, N)
    BY <2>6, <2>10 DEF StillListed
  <2> QED BY <1>6, <1>7, <1>8, <2>6, <2>10, <2>11, <2>12, QuietWithSteps
<1> QED BY <1>9, <1>10

\* RegisterResponder connects a person.
LEMMA RegisterInv ==
  ASSUME Inv, NEW p \in Pods, NEW s \in Responders, RegisterResponder(p, s)
  PROVE  Inv' /\ RowsMove
<1>1. /\ calls' \in 0..MaxCalls /\ s \notin Personas
      /\ present' = present \cup {s} /\ conn' = [conn EXCEPT ![s] = @ \cup {p}]
      /\ UNCHANGED <<pgVars, queue, avail, hashVars, todo, faultVars>>
  BY ServesFacts, PgRedisAssumption DEF RegisterResponder
<1>2. conn' \in [Responders -> SUBSET Pods] /\ \A z \in Personas : conn'[z] = conn[z]
  BY <1>1 DEF Inv, TypeOK, Responders
<1>3. TypeOK'
  BY <1>1, <1>2 DEF Inv, TypeOK, pgVars, hashVars, faultVars
<1>4. Forward
  <2>1. RowsForward
    BY <1>1 DEF RowsForward, pgVars
  <2>2. \A q \in Requests : NotGivenBack(q) => NotGivenBack(q)'
    BY <1>1 DEF NotGivenBack, pgVars
  <2> QED BY <1>1, <1>2, <2>1, <2>2 DEF Forward, pgVars, hashVars, faultVars
<1> QED BY <1>1, <1>3, <1>4, ForwardUnchanged DEF pgVars, hashVars, faultVars

\* UnregisterResponder begins: the connection of a persona was its only one.
LEMMA UnregisterInv ==
  ASSUME Inv, NEW p \in Pods, NEW s \in Responders, UnregisterResponder(p, s)
  PROVE  Inv' /\ RowsMove
<1>1. /\ todo[p] = <<>> /\ calls' \in 0..MaxCalls /\ p \in conn[s]
      /\ present' = present \ {s} /\ conn' = [conn EXCEPT ![s] = @ \ {p}]
      /\ Begin(p, <<OnSession("withdraw", s), OnSession("orphan", s)>>)
      /\ UNCHANGED <<pgVars, queue, avail, hashVars, faultVars>>
  BY ServesFacts DEF UnregisterResponder
<1>2. /\ conn' \in [Responders -> SUBSET Pods] /\ conn'[s] = conn[s] \ {p}
      /\ \A z \in Responders : z # s => conn'[z] = conn[z]
  BY <1>1 DEF Inv, TypeOK
<1>3. s \in Personas => conn'[s] = {} /\ s \notin present'
  BY <1>1, <1>2 DEF Inv, PoolSound
<1>4. PICK a, b : a = OnSession("withdraw", s) /\ b = OnSession("orphan", s)
  OBVIOUS
<1>5. /\ a \in StepType /\ b \in StepType /\ a.op = "withdraw" /\ b.op = "orphan"
      /\ a.session = s /\ b.session = s
  BY <1>4 DEF OnSession, Step, StepType, Ops, Sessions
<1>6. StepSound(p, a)' /\ StepSound(p, b)'
  BY <1>3, <1>5
  DEF StepSound, StepTyped, HeldSound, KnownRow, PairSound, ExpireSound,
      UnqueueSound, PersonaSound
<1> DEFINE N == {a, b}
<1>7. /\ TodoEffect(p, N)
      /\ \A step \in N : StepSound(p, step)' /\ step.op # "held"
  BY <1>1, <1>4, <1>5, <1>6, ShortEffects DEF FirstOps
<1> HIDE DEF N
<1>8. TypeOK'
  BY <1>1, <1>2, <1>7 DEF Inv, TypeOK, TodoEffect, pgVars, hashVars, faultVars
<1>9. Forward
  <2>1. RowsForward
    BY <1>1 DEF RowsForward, pgVars
  <2>2. \A q \in Requests : NotGivenBack(q) => NotGivenBack(q)'
    BY <1>1 DEF NotGivenBack, pgVars
  <2>3. \A z \in Personas :
          /\ conn'[z] \subseteq conn[z]
          /\ \A o \in conn[z] : o \in conn'[z] \/ todo[o] = <<>>
    BY <1>1, <1>2 DEF Responders
  <2> QED BY <1>1, <2>1, <2>2, <2>3 DEF Forward, pgVars, hashVars, faultVars
<1>10. \A r \in Requests : r \in ToSet(queue) => StillListed(r, N)
  BY <1>1 DEF StillListed
<1> QED BY <1>1, <1>7, <1>8, <1>9, <1>10, ForwardWithSteps DEF pgVars, hashVars, faultVars

\* MarkResponderAvailable notes what the session accepts, and asks whether it is busy.
LEMMA MarkAvailableInv ==
  ASSUME Inv, NEW p \in Pods, NEW s \in Responders, MarkResponderAvailable(p, s)
  PROVE  Inv' /\ RowsMove
<1>1. /\ todo[p] = <<>> /\ calls' \in 0..MaxCalls /\ p \in conn[s]
      /\ declined' \in {declined \cup {s}, declined \ {s}}
      /\ Begin(p, <<OnSession("busy", s)>>)
      /\ UNCHANGED <<pgVars, queue, avail, present, untagged, lapsed, conn, faultVars>>
  BY ServesFacts DEF MarkResponderAvailable
<1>2. PICK x : x = OnSession("busy", s)
  OBVIOUS
<1>3. x \in StepType /\ x.op = "busy" /\ x.session = s
  BY <1>2 DEF OnSession, Step, StepType, Ops, Sessions
<1>4. StepSound(p, x)'
  BY <1>1, <1>3
  DEF StepSound, StepTyped, HeldSound, KnownRow, PairSound, ExpireSound,
      UnqueueSound, PersonaSound
<1> DEFINE N == {x}
<1>5. TodoEffect(p, N) /\ \A step \in N : StepSound(p, step)' /\ step.op # "held"
  BY <1>1, <1>2, <1>3, <1>4, ShortEffects
<1> HIDE DEF N
<1>6. TypeOK'
  BY <1>1, <1>5 DEF Inv, TypeOK, TodoEffect, pgVars, faultVars
<1>7. \A r \in Requests : r \in ToSet(queue) => StillListed(r, N)
  BY <1>1 DEF StillListed
<1> QED BY <1>1, <1>5, <1>6, <1>7, QuietWithSteps DEF pgVars, faultVars

\* A persona's conversation returns its responder to the pool.
LEMMA ResumeInv ==
  ASSUME Inv, NEW p \in Pods, NEW s \in Responders, ResumeResponder(p, s)
  PROVE  Inv' /\ RowsMove
<1>1. /\ todo[p] = <<>> /\ calls' \in 0..MaxCalls
      /\ Begin(p, addAvailable(s) \o <<Drain>>)
      /\ UNCHANGED <<pgVars, redisVars, conn, faultVars>>
  BY ServesFacts DEF ResumeResponder
<1> DEFINE N == {OnSession("remove", s), OnSession("push", s), Drain}
<1>2. TodoEffect(p, N) /\ \A step \in N : StepSound(p, step)' /\ step.op # "held"
  BY <1>1, AddAvailableEffects
<1> HIDE DEF N
<1>3. TypeOK'
  BY <1>1, <1>2 DEF Inv, TypeOK, TodoEffect, pgVars, redisVars, hashVars, faultVars
<1>4. \A r \in Requests : r \in ToSet(queue) => StillListed(r, N)
  BY <1>1 DEF StillListed, redisVars
<1> QED BY <1>1, <1>2, <1>3, <1>4, QuietWithSteps DEF pgVars, redisVars, hashVars, faultVars

\* A row comes due when no step on it is left.
LEMMA AgeInv ==
  ASSUME Inv, NEW q \in Requests, Age(q)
  PROVE  Inv' /\ RowsMove
<1>1. /\ due' = due \cup {q}
      /\ UNCHANGED <<row, reward, overdue, redisVars, conn, todo, faultVars, calls>>
  BY DEF Age
<1>2. ~Pending("unqueue", q)
  BY DEF Age, Pending
<1>3. TypeOK'
  BY <1>1 DEF Inv, TypeOK, redisVars, hashVars, faultVars
<1>4. Forward
  <2>1. RowsForward
    BY <1>1 DEF RowsForward
  <2>2. \A r \in Requests : r # q /\ NotGivenBack(r) => NotGivenBack(r)'
    BY <1>1 DEF NotGivenBack
  <2> QED BY <1>1, <1>2, <2>1, <2>2 DEF Forward, redisVars, hashVars, faultVars
<1> QED BY <1>1, <1>3, <1>4, ForwardUnchanged DEF redisVars, hashVars, faultVars

\* A connected session is heard of again, or one is no longer heard of.
LEMMA PresenceInv ==
  ASSUME Inv, NEW s \in Responders,
         (\E p \in Pods : heartbeat(p, s)) \/ PresenceExpires(s)
  PROVE  Inv' /\ RowsMove
<1>1. /\ UNCHANGED <<pgVars, queue, avail, hashVars, conn, todo, lost, robbed, calls>>
      /\ present' = present \ {s} \/ (conn[s] # {} /\ present' = present \cup {s})
  BY DEF heartbeat, PresenceExpires, faultVars
<1>2. faults' \in 0..MaxFaults
  BY FaultType DEF heartbeat, PresenceExpires, faultVars, Inv, TypeOK
<1>3. TypeOK'
  BY <1>1, <1>2 DEF Inv, TypeOK, pgVars, hashVars
<1>4. Forward
  BY <1>1, QuietForward DEF pgVars, hashVars
<1> QED BY <1>1, <1>3, <1>4, ForwardUnchanged DEF pgVars, hashVars

\* A crash loses the steps of the pod, and the requests that it had in its hands.
LEMMA CrashInv ==
  ASSUME Inv, NEW p \in Pods, Crash(p)
  PROVE  Inv' /\ RowsMove
<1>1. /\ lost' = lost \cup InHands(p) /\ Begin(p, <<>>)
      /\ overdue' = [overdue EXCEPT ![p] = {}]
      /\ conn' = [s \in Responders |-> conn[s] \ {p}]
      /\ UNCHANGED <<row, reward, due, redisVars, robbed, calls>>
  BY DEF Crash
<1>2. faults' \in 0..MaxFaults
  BY FaultType DEF Crash
<1> DEFINE N == {}
<1>3. TodoEffect(p, N) /\ \A step \in N : FALSE
  BY <1>1, ShortEffects
<1> HIDE DEF N
<1>4. InHands(p) \in SUBSET Requests
  BY DEF InHands, Inv, StepsSound, StepSound, StepTyped
<1>5. /\ overdue' \in [Pods -> SUBSET Requests] /\ overdue'[p] = {}
      /\ \A o \in Pods : o # p => overdue'[o] = overdue[o]
      /\ conn' \in [Responders -> SUBSET Pods]
      /\ \A s \in Responders : conn'[s] = conn[s] \ {p}
  BY <1>1 DEF Inv, TypeOK
<1>6. TypeOK'
  BY <1>1, <1>2, <1>3, <1>4, <1>5 DEF Inv, TypeOK, TodoEffect, redisVars, hashVars
<1>7. Forward
  <2>1. RowsForward
    BY <1>1 DEF RowsForward
  <2>2. \A r \in Requests : NotGivenBack(r) => NotGivenBack(r)'
    BY <1>1, <1>5 DEF NotGivenBack
  <2>3. todo'[p] = <<>>
    BY <1>1 DEF Begin, Inv, TypeOK
  <2>4. \A z \in Personas :
          /\ conn'[z] \subseteq conn[z]
          /\ \A o \in conn[z] : o \in conn'[z] \/ todo'[o] = <<>>
    BY <1>5, <2>3 DEF Responders
  <2>5. \A o \in Pods : \A q \in overdue'[o] : q \in overdue[o]
    BY <1>5
  <2> QED BY <1>1, <2>1, <2>2, <2>4, <2>5 DEF Forward, redisVars, hashVars
<1>8. \A r \in Requests :
        /\ r \in ToSet(queue) => StillListed(r, N)
        /\ todo[p] # <<>> /\ Carries(Head(todo[p]), r) => StillListed(r, N)
  <2>1. todo[p] # <<>> => Head(todo[p]) \in ToSet(todo[p])
    BY HeadTailFacts DEF Inv, TypeOK
  <2> QED BY <1>1, <2>1 DEF StillListed, Carries, InHands, redisVars
<1> QED BY <1>1, <1>3, <1>6, <1>7, <1>8, ForwardWithSteps DEF redisVars, hashVars

-----------------------------------------------------------------------------
(* The theorems *)

\* Before the first call there is nothing to be wrong.
LEMMA InitInv ==
  ASSUME Init PROVE Inv
<1> USE DEF Held, Answered, Terminal, isTerminalStatus
<1>1. \A q \in Requests :
        /\ row[q] = AbsentRow /\ row[q].status = "absent" /\ row[q].responder = None
        /\ row[q].answer = <<>> /\ row[q].preferred = None
        /\ ~row[q].frozen /\ ~row[q].charged /\ reward[q] = None
  BY DEF Init, AbsentRow
<1>2. \A p \in Pods : todo[p] = <<>> /\ ToSet(todo[p]) = {}
  BY DEF Init, ToSet
<1>3. TypeOK
  <2>1. avail \in Seq(Responders)
    BY PgRedisAssumption, SetToSeqFacts DEF Init, Responders
  <2>2. AbsentRow \in RowType
    BY DEF AbsentRow, RowType
  <2>3. todo \in [Pods -> Seq(StepType)]
    BY DEF Init
  <2>4. conn \in [Responders -> SUBSET Pods]
    BY DEF Init
  <2>5. 0 \in 0..MaxCalls /\ 0 \in 0..MaxFaults
    BY PgRedisAssumption
  <2> QED BY <2>1, <2>2, <2>3, <2>4, <2>5 DEF Init, TypeOK, Responders
<1>4. RowsSound
  BY <1>1 DEF RowsSound, RowSound
<1>5. StepsSound
  BY <1>2 DEF StepsSound, FirstSound, Rest, OneCreate
<1>6. PoolSound
  <2>1. ToSet(queue) = {}
    BY DEF Init, ToSet
  <2>2. \A s \in Personas : \A p, o \in conn[s] : p = o
    BY DEF Init, Responders
  <2> QED BY <2>1, <2>2 DEF Init, PoolSound
<1>7. PointsExact
  BY <1>1 DEF PointsExact, HoldExact, PaidAuthor, Live
<1>8. Consent
  BY <1>1 DEF Consent
<1>9. Listed
  BY <1>1 DEF Listed
<1> QED BY <1>3, <1>4, <1>5, <1>6, <1>7, <1>8, <1>9 DEF Inv

\* Every action of every pod keeps the invariant, and changes rows in the five ways only.
LEMMA NextInv ==
  ASSUME Inv, Next
  PROVE  Inv' /\ RowsMove
<1>1. ASSUME NEW p \in Pods, StepOf(p) PROVE Inv' /\ RowsMove
  BY <1>1, CheckBalanceInv, EnqueueInv, RemoveQueuedInv, RemovePushInv, AddUnlessBusyInv,
     WithdrawInv, FindOrphanInv, ReleaseInv, AssignNextInv, HandlePairInv, RevokeInv,
     SelectStreamingInv, ExpireInv
  DEF StepOf, drainAssignments
<1>2. ASSUME NEW p \in Pods,
             \/ handlePairFails(p) \/ enqueueFails(p) \/ SweepTimeouts(p)
             \/ assignTicker(p) \/ Crash(p)
      PROVE  Inv' /\ RowsMove
  BY <1>2, HandlePairFailsInv, EnqueueFailsInv, SweepInv, AssignNextInv, CrashInv
  DEF assignTicker
<1>3. ASSUME NEW p \in Pods, NEW q \in Requests,
             \/ createRequest(p, q) \/ CancelBeforeFirstFragment(p, q)
             \/ AcquireFallbackAssignment(p, q)
      PROVE  Inv' /\ RowsMove
  BY <1>3, CreateRequestInv, CancelInv, AcquireInv
<1>4. ASSUME NEW p \in Pods, NEW s \in Sessions,
             SubmitFragment(p, s) \/ Finish(p, s) \/ Skip(p, s)
      PROVE  Inv' /\ RowsMove
  BY <1>4, SubmitFragmentInv, FinishInv, SkipInv
<1>5. ASSUME NEW p \in Pods, NEW s \in Responders,
             \/ RegisterResponder(p, s) \/ UnregisterResponder(p, s)
             \/ MarkResponderAvailable(p, s) \/ ResumeResponder(p, s) \/ heartbeat(p, s)
      PROVE  Inv' /\ RowsMove
  BY <1>5, RegisterInv, UnregisterInv, MarkAvailableInv, ResumeInv, PresenceInv
<1>6. ASSUME NEW q \in Requests, Age(q) PROVE Inv' /\ RowsMove
  BY <1>6, AgeInv
<1>7. ASSUME NEW s \in Responders, PresenceExpires(s) PROVE Inv' /\ RowsMove
  BY <1>7, PresenceInv
<1> QED BY <1>1, <1>2, <1>3, <1>4, <1>5, <1>6, <1>7 DEF Next

\* The invariant holds after a stuttering step too.
LEMMA StutterInv ==
  ASSUME Inv, UNCHANGED vars
  PROVE  Inv' /\ RowsMove
<1>1. /\ UNCHANGED <<row, reward, due, overdue, queue, avail, present, declined, untagged>>
      /\ UNCHANGED <<lapsed, conn, todo, faults, lost, robbed, calls>>
  BY DEF vars, pgVars, redisVars, hashVars, faultVars
<1>2. TypeOK'
  BY <1>1 DEF Inv, TypeOK
<1>3. Forward
  BY <1>1, QuietForward
<1> QED BY <1>1, <1>2, <1>3, ForwardUnchanged

\* The inductive invariant of the backend.
THEOREM Invariance == Spec => []Inv
<1>1. Init => Inv
  BY InitInv
<1>2. Inv /\ [Next]_vars => Inv'
  BY NextInv, StutterInv
<1> QED BY <1>1, <1>2, PTL DEF Spec

\* The tables, the Redis keys and the steps of every pod keep their shapes.
THEOREM TypeCorrect == Spec => []TypeOK
<1>1. Inv => TypeOK
  BY DEF Inv
<1> QED BY <1>1, Invariance, PTL

\* Hold, charge, reward and status of every request agree after every transaction,
\* however many sweepers, responders and disconnects race for its end.
THEOREM PointsAreExact == Spec => []PointsExact
<1>1. Inv => PointsExact
  BY DEF Inv
<1> QED BY <1>1, Invariance, PTL

\* Nobody answers whom the asker or the responder has excluded, although the routing
\* keys are copies and a pair may be older than the row it is applied to.
THEOREM ConsentHolds == Spec => []Consent
<1>1. Inv => Consent
  BY DEF Inv
<1> QED BY <1>1, Invariance, PTL

\* A queued row is on the Redis queue or in the hands of a pod, unless a crash, an
\* error of Redis or the disconnect of another session has cost it its place.
THEOREM ListedHolds == Spec => []Listed
<1>1. Inv => Listed
  BY DEF Inv
<1> QED BY <1>1, Invariance, PTL

\* A change of a row is a move of the life cycle.
LEMMA MoveOfRow ==
  ASSUME Inv, NEW q \in Requests, NEW new, RowChange(q, new)
  PROVE  LET Seen(r) == [status |-> r.status, responder |-> r.responder, answer |-> r.answer]
         IN Lifecycle!Moves(Seen(row[q]), Seen(new))
<1> USE DEF Held, Answered, Terminal
<1> DEFINE Seen(r) == [status |-> r.status, responder |-> r.responder, answer |-> r.answer]
           a == Seen(row[q])
           b == Seen(new)
<1>1. row[q] \in RowType /\ RowSound(q) /\ None \notin Sessions
  BY LiveRow
<1>2. /\ a.status = row[q].status /\ a.responder = row[q].responder
      /\ a.answer = row[q].answer /\ b.status = new.status
      /\ b.responder = new.responder /\ b.answer = new.answer
  OBVIOUS
<1>3. CASE Creates(q, new) \/ Assigns(q, new) \/ Frees(q, new)
  <2>1. /\ row[q].status \in {"absent", "queued", "assigned"} /\ row[q].answer = <<>>
        /\ row[q].status = "assigned" => row[q].responder \in Sessions
        /\ row[q].status # "assigned" => row[q].responder = None
    BY <1>1, <1>3 DEF RowSound, Creates, Assigns, Frees
  <2>2. /\ new.status \in {"queued", "assigned", "abandoned"} /\ new.answer = <<>>
        /\ new.status = "assigned" => new.responder \in Sessions
        /\ new.status # "assigned" => new.responder = None
        /\ new.status = "abandoned" => row[q].status # "absent"
    BY <1>1, <1>3, <2>1
    DEF Creates, Assigns, Frees, Assigned, Requeued, Abandoned, RowType
  <2> QED BY <2>1, <2>2 DEF Lifecycle!Moves, Lifecycle!Waits, Lifecycle!Unheard
<1>4. CASE Commits(q, new)
  <2>1. /\ new.status \in {"streaming", "completed"}
        /\ new.responder = row[q].responder
        /\ new.answer = Append(row[q].answer, row[q].responder)
    BY <1>1, <1>4 DEF Commits, RowType
  <2> QED BY <1>2, <1>4, <2>1 DEF Commits, Lifecycle!Moves, Lifecycle!Commits
<1>5. CASE Ends(q, new)
  <2>1. /\ new.status \in Answered /\ new.responder = row[q].responder
        /\ new.answer = row[q].answer
    BY <1>1, <1>5 DEF Ends, RowType
  <2> QED BY <1>2, <1>5, <2>1 DEF Ends, Lifecycle!Moves, Lifecycle!Ends, Lifecycle!Answered
<1> QED BY <1>3, <1>4, <1>5 DEF RowChange

\* The variable of RequestLifecycle, as Lifecycle instantiates it.
SeenRows == [q \in Requests |-> [status |-> row[q].status, responder |-> row[q].responder,
                                 answer |-> row[q].answer]]

\* What the rows do is a step of the life cycle or none.
LEMMA RowsRefine ==
  ASSUME Inv, RowsMove
  PROVE  Lifecycle!Next \/ UNCHANGED SeenRows
<1> DEFINE Seen(r) == [status |-> r.status, responder |-> r.responder, answer |-> r.answer]
<1>1. CASE UNCHANGED row
  BY <1>1 DEF SeenRows
<1>2. CASE \E q \in Requests : \E new : RowChange(q, new)
  <2>1. PICK q \in Requests : \E new : RowChange(q, new)
    BY <1>2
  <2>2. PICK new : RowChange(q, new)
    BY <2>1
  <2>3. row'[q] = new /\ \A r \in Requests : r # q => row'[r] = row[r]
    BY <2>2 DEF RowChange, Update, Inv, TypeOK
  <2>4. Lifecycle!Moves(Seen(row[q]), Seen(new))
    BY <2>2, MoveOfRow
  <2>5. /\ DOMAIN SeenRows' = Requests
        /\ SeenRows[q] = Seen(row[q]) /\ SeenRows'[q] = Seen(new)
        /\ \A r \in Requests : r # q => SeenRows'[r] = SeenRows[r]
    BY <2>3 DEF SeenRows
  <2>6. \A r \in Requests :
          SeenRows'[r] = SeenRows[r] \/ Lifecycle!Moves(SeenRows[r], SeenRows'[r])
    BY <2>4, <2>5
  <2> QED BY <2>5, <2>6 DEF Lifecycle!Next, SeenRows
<1> QED BY <1>1, <1>2 DEF RowsMove

\* The backend implements the contract of RequestLifecycle, step by step.
THEOREM ImplementsLifecycle == Spec => LifecycleRefined
<1>1. Init => Lifecycle!Init
  BY DEF Init, AbsentRow, Lifecycle!Init
<1>2. Inv /\ [Next]_vars => Lifecycle!Next \/ UNCHANGED SeenRows
  BY NextInv, StutterInv, RowsRefine
<1> QED BY <1>1, <1>2, Invariance, PTL DEF Spec, LifecycleRefined, Lifecycle!Spec, SeenRows
=============================================================================
