--------------------------- MODULE ServiceProofs ---------------------------
(***************************************************************************)
(* Proofs about Service, for every set of requests, sessions and users and *)
(* every value of the other constants that the assumptions admit.          *)
(***************************************************************************)
EXTENDS Service, SliceProofs

-----------------------------------------------------------------------------
(* Type correctness *)

USE DEF Responders

\* What the transitions do to a request leaves it a request.
LEMMA RequestTypes ==
  ASSUME NEW q \in RequestType
  PROVE  /\ \A s \in Responders : Assigned(q, s) \in RequestType
         /\ Requeued(q) \in RequestType
         /\ Abandoned(q) \in RequestType
         /\ Streaming(q) \in RequestType
         /\ \A reason \in {"stop", "length", "partial"} :
              Finished(q, reason) \in RequestType
         /\ \A x \in Reactions : [q EXCEPT !.reaction = x] \in RequestType
<1>1. \A s \in Responders : Assigned(q, s) \in RequestType
  BY DEF RequestType, Assigned, Held
<1>2. Requeued(q) \in RequestType
  BY DEF RequestType, Requeued
<1>3. Abandoned(q) \in RequestType
  BY DEF RequestType, Abandoned, Terminal
<1>4. Streaming(q) \in RequestType
  BY DEF RequestType, Streaming, Held
<1>5. ASSUME NEW reason \in {"stop", "length", "partial"}
      PROVE  Finished(q, reason) \in RequestType
  BY ZenonT(40) DEF RequestType, Finished, Terminal, Completed
<1>6. \A x \in Reactions : [q EXCEPT !.reaction = x] \in RequestType
  BY DEF RequestType
<1> QED BY <1>1, <1>2, <1>3, <1>4, <1>5, <1>6

\* The ledger: sums of points by user, request and kind.
LedgerType == [Users \X Requests \X LedgerKinds -> Int]

\* addLedgerLocked adds to one entry and leaves the others.
LEMMA AddLedgerFacts ==
  ASSUME NEW led \in LedgerType, NEW u \in Users, NEW r \in Requests,
         NEW k \in LedgerKinds, NEW d \in Int
  PROVE  /\ addLedger(led, u, r, k, d) \in LedgerType
         /\ \A v \in Users, x \in Requests, l \in LedgerKinds :
              addLedger(led, u, r, k, d)[<<v, x, l>>] =
                IF u = v /\ r = x /\ k = l THEN led[<<v, x, l>>] + d
                                         ELSE led[<<v, x, l>>]
BY DEF LedgerType, addLedger

\* Reactions are worth an integral number of points.
LEMMA RewardForType ==
  ASSUME NEW x \in Reactions
  PROVE  rewardFor(x) \in Int
BY PointsAssumption DEF rewardFor

\* The users of a request are accounts, or nobody.
LEMMA UserTypes ==
  ASSUME TypeOK, NEW r \in Requests
  PROVE  /\ RequesterUser(r) \in Users \cup {NoUser}
         /\ ResponderUser(r) \in Users \cup {NoUser}
<1>1. req[r] \in RequestType
  BY DEF TypeOK
<1> QED BY <1>1, SessionsAssumption DEF RequesterUser, ResponderUser, RequestType

\* Charging and rewarding keep the ledger a ledger.
LEMMA SettlementTypes ==
  ASSUME TypeOK, NEW r \in Requests, NEW led \in LedgerType, NEW frags
  PROVE  Charge(led, r) \in LedgerType /\ Reward(led, r, frags) \in LedgerType
<1>1. Charge(led, r) \in LedgerType
  BY AddLedgerFacts, UserTypes, PointsAssumption DEF Charge, LedgerKinds
<1>2. Reward(led, r, frags) \in LedgerType
  BY AddLedgerFacts, UserTypes, PointsAssumption DEF Reward, LedgerKinds
<1> QED BY <1>1, <1>2

\* The variables that the shared transitions assign, and their types.
LifeTypes ==
  /\ req \in [Requests -> RequestType]
  /\ queue \in Seq(Requests)
  /\ activeByRes \in [Responders -> Requests \cup {None}]
  /\ ledger \in LedgerType
  /\ aged \in SUBSET Requests

\* requeueLocked, abandonLocked, completeLocked and the two combinations of
\* them keep the types of what they assign.
LEMMA TransitionTypes ==
  ASSUME TypeOK, NEW r \in Requests
  PROVE  /\ requeueLocked(r) => LifeTypes'
         /\ abandonLocked(r) => LifeTypes'
         /\ \A reason \in {"stop", "length", "partial"} :
              completeLocked(r, reason) => LifeTypes'
         /\ giveBackLocked(r) => LifeTypes'
         /\ endAssignment(r) => LifeTypes'
<1>1. /\ req[r] \in RequestType /\ queue \in Seq(Requests) /\ LifeTypes
  BY DEF TypeOK, LifeTypes, LedgerType
<1>2. Release(req[r].responder) \in [Responders -> Requests \cup {None}]
  BY <1>1 DEF Release, LifeTypes
<1>3. requeueLocked(r) => LifeTypes'
  <2>1. Append(queue, r) \in Seq(Requests)
    BY <1>1
  <2> QED BY <1>1, <1>2, <2>1, RequestTypes DEF requeueLocked, LifeTypes
<1>4. abandonLocked(r) => LifeTypes'
  <2>1. RemoveValue(queue, r) \in Seq(Requests)
    BY <1>1, RemoveValueFacts
  <2> QED BY <1>1, <1>2, <2>1, RequestTypes DEF abandonLocked, LifeTypes
<1>5. ASSUME NEW reason \in {"stop", "length", "partial"}, completeLocked(r, reason)
      PROVE  LifeTypes'
  <2>1. Finished(req[r], reason) \in RequestType
    BY <1>1, RequestTypes
  <2>2. Reward(ledger, r, fragments[r]) \in LedgerType
    BY <1>1, SettlementTypes DEF LifeTypes
  <2> QED BY <1>1, <1>2, <1>5, <2>1, <2>2 DEF completeLocked, LifeTypes
<1>6. giveBackLocked(r) => LifeTypes'
  BY <1>3, <1>4 DEF giveBackLocked
<1>7. endAssignment(r) => LifeTypes'
  BY <1>5, <1>6 DEF endAssignment
<1> QED BY <1>3, <1>4, <1>5, <1>6, <1>7

\* The initial state has the declared types.
LEMMA InitType == Init => TypeOK
<1> SUFFICES ASSUME Init PROVE TypeOK
  OBVIOUS
<1>1. AbsentRequest \in RequestType
  BY DEF RequestType, AbsentRequest, Reactions, Terminal, Completed, Held
<1>2. req \in [Requests -> RequestType]
  BY <1>1 DEF Init
<1>3. /\ activeByRes \in [Responders -> Requests \cup {None}]
      /\ acceptAI \in [Sessions -> BOOLEAN]
  BY DEF Init
<1>4. ledger \in [Users \X Requests \X LedgerKinds -> Int]
  BY DEF Init
<1>5. /\ fragments \in [Requests -> Seq(FragmentType)]
      /\ inbox \in [Sessions -> Seq(Requests)]
  BY DEF Init
<1>6. queue \in Seq(Requests) /\ available \in Seq(Sessions)
  BY DEF Init
<1> QED BY <1>2, <1>3, <1>4, <1>5, <1>6 DEF TypeOK, Init

\* The operations of requesters keep the types.
LEMMA RequesterType == TypeOK /\ RequesterNext => TypeOK'
<1> SUFFICES ASSUME TypeOK, RequesterNext PROVE TypeOK'
  OBVIOUS
<1>1. ASSUME NEW s \in Sessions, NEW r \in Requests, NEW allow \in BOOLEAN,
             NEW pref \in Sessions \cup {None}, NEW max \in OutputLimits,
             createRequest(s, r, allow, pref, max)
      PROVE  TypeOK'
  <2> DEFINE n == Cardinality({x \in Requests : req[x].status # "absent"})
             limit == IF max <= 0 \/ max > OutputLimitChars
                        THEN OutputLimitChars ELSE max
             q == [AbsentRequest EXCEPT
                     !.status = "queued", !.asker = s, !.allowAI = allow,
                     !.preferred = pref,
                     !.frozen = IF UserOf[s] # NoUser THEN QuestionCost ELSE 0,
                     !.limit = limit, !.created = n]
  <2>1. n \in Nat
    BY RequestsAssumption, FS_Subset, FS_CardinalityType
  <2>2. limit \in Nat
    BY LimitsAssumption
  <2>3. q \in RequestType
    <3> HIDE DEF n, limit
    <3> QED BY <2>1, <2>2 DEF RequestType, AbsentRequest, Reactions
  <2>4. req' = [req EXCEPT ![r] = q] /\ queue' = Append(queue, r) /\ mu' = "assign"
        /\ UNCHANGED <<fragments, available, activeByRes, registered, inbox,
                       acceptAI, ledger, aged>>
    BY <1>1 DEF createRequest
  <2> HIDE DEF q
  <2> QED BY <2>3, <2>4 DEF TypeOK
<1>2. ASSUME NEW r \in Requests, CancelBeforeFirstFragment(r)
      PROVE  TypeOK'
  BY <1>2, TransitionTypes DEF CancelBeforeFirstFragment, LifeTypes, LedgerType, TypeOK
<1>3. ASSUME NEW s \in Sessions, NEW r \in Requests, NEW reaction \in Reactions,
             React(s, r, reaction)
      PROVE  TypeOK'
  <2>1. req[r] \in RequestType /\ req[r].reaction \in Reactions
    BY DEF TypeOK, RequestType
  <2>2. Adjustment(req[r].reaction, reaction) \in Int
    BY <2>1, RewardForType DEF Adjustment
  <2>3. ledger' \in LedgerType
    BY <1>3, <2>2, UserTypes, AddLedgerFacts DEF React, TypeOK, LedgerType, LedgerKinds
  <2>4. req' = [req EXCEPT ![r] = [req[r] EXCEPT !.reaction = reaction]]
    BY <1>3 DEF React
  <2>5. req' \in [Requests -> RequestType]
    BY <2>1, <2>4, RequestTypes DEF TypeOK
  <2> QED BY <1>3, <2>3, <2>5 DEF React, TypeOK, LedgerType
<1>4. People \subseteq Sessions /\ PersonaAskers \subseteq Sessions
  BY SessionsAssumption DEF People
<1> QED BY <1>1, <1>2, <1>3, <1>4, LimitsAssumption
        DEF RequesterNext, CreateRequest, CreateTargetedRequest

\* The operations of responders keep the types.
LEMMA ResponderType == TypeOK /\ ResponderNext => TypeOK'
<1> SUFFICES ASSUME TypeOK, ResponderNext PROVE TypeOK'
  OBVIOUS
<1>1. ASSUME NEW s \in Sessions, RegisterResponder(s) PROVE TypeOK'
  BY <1>1 DEF RegisterResponder, TypeOK
<1>2. ASSUME NEW s \in Sessions, UnregisterResponder(s) PROVE TypeOK'
  <2>1. LifeTypes'
    <3>1. CASE UNCHANGED <<req, queue, activeByRes, ledger, aged>>
      BY <3>1 DEF TypeOK, LifeTypes, LedgerType
    <3>2. CASE activeByRes[s] # None /\ endAssignment(activeByRes[s])
      <4>1. activeByRes[s] \in Requests
        BY <3>2 DEF TypeOK
      <4> QED BY <3>2, <4>1, TransitionTypes
    <3> QED BY <1>2, <3>1, <3>2 DEF UnregisterResponder
  <2>2. available' \in Seq(Sessions)
    BY <1>2, RemoveValueFacts DEF UnregisterResponder, TypeOK
  <2>3. /\ registered' \in SUBSET Sessions
        /\ inbox' \in [Sessions -> Seq(Requests)]
        /\ acceptAI' \in [Sessions -> BOOLEAN]
        /\ UNCHANGED <<fragments, mu>>
    BY <1>2 DEF UnregisterResponder, TypeOK
  <2> QED BY <2>1, <2>2, <2>3 DEF TypeOK, LifeTypes, LedgerType
<1>3. ASSUME NEW s \in Sessions, becomeAvailable(s)
      PROVE  available' \in Seq(Sessions) /\ mu' = "assign"
  BY <1>3 DEF becomeAvailable, TypeOK
<1>4. ASSUME NEW s \in Sessions, NEW accept \in BOOLEAN,
             MarkResponderAvailable(s, accept)
      PROVE  TypeOK'
  <2>1. available' \in Seq(Sessions) /\ mu' \in {"free", "assign", "sweep"}
    BY <1>3, <1>4 DEF MarkResponderAvailable, TypeOK
  <2> QED BY <1>4, <2>1 DEF MarkResponderAvailable, TypeOK
<1>5. ASSUME NEW s \in Sessions, ResumeResponder(s) PROVE TypeOK'
  BY <1>3, <1>5 DEF ResumeResponder, TypeOK
<1>6. ASSUME NEW s \in Sessions, Receive(s) PROVE TypeOK'
  <2>1. Tail(inbox[s]) \in Seq(Requests)
    BY <1>6 DEF Receive, TypeOK
  <2> QED BY <1>6, <2>1 DEF Receive, TypeOK
<1>7. ASSUME NEW r \in Requests, AcquireFallbackAssignment(r) PROVE TypeOK'
  <2>1. FallbackSession(r) \in Responders /\ req[r] \in RequestType
    BY DEF FallbackSessions, TypeOK
  <2>2. RemoveValue(queue, r) \in Seq(Requests)
    BY RemoveValueFacts DEF TypeOK
  <2>3. Assigned(req[r], FallbackSession(r)) \in RequestType
    BY <2>1, RequestTypes
  <2> QED BY <1>7, <2>1, <2>2, <2>3 DEF AcquireFallbackAssignment, TypeOK
<1>8. ASSUME NEW s \in Responders, NEW k \in ClientSeqs, NEW n \in FragmentSizes,
             SubmitFragment(s, k, n)
      PROVE  TypeOK'
  <2> DEFINE r == activeByRes[s]
             frags == Append(fragments[r], [from |-> s, seq |-> k, size |-> n])
  <2>1. r \in Requests /\ req[r] \in RequestType
    BY <1>8 DEF SubmitFragment, TypeOK
  <2>2. frags \in Seq(FragmentType)
    <3>1. [from |-> s, seq |-> k, size |-> n] \in FragmentType
      BY DEF FragmentType
    <3>2. fragments[r] \in Seq(FragmentType)
      BY <2>1 DEF TypeOK
    <3> QED BY <3>1, <3>2, AppendFacts
  <2>3. /\ Streaming(req[r]) \in RequestType
        /\ Finished(Streaming(req[r]), "length") \in RequestType
    BY <2>1, RequestTypes
  <2>4. /\ Charge(ledger, r) \in LedgerType
        /\ Reward(Charge(ledger, r), r, frags) \in LedgerType
    BY <2>1, SettlementTypes DEF TypeOK, LedgerType
  <2>5. Release(s) \in [Responders -> Requests \cup {None}]
    BY DEF Release, TypeOK
  <2>6. /\ fragments' = [fragments EXCEPT ![r] = frags]
        /\ aged' = aged \ {r}
        /\ req' = [req EXCEPT ![r] = Streaming(req[r])]
           \/ req' = [req EXCEPT ![r] = Finished(Streaming(req[r]), "length")]
        /\ ledger' = Charge(ledger, r) \/ ledger' = Reward(Charge(ledger, r), r, frags)
        /\ activeByRes' = activeByRes \/ activeByRes' = Release(s)
        /\ UNCHANGED <<queue, available, registered, inbox, acceptAI, mu>>
    BY <1>8 DEF SubmitFragment
  <2> HIDE DEF r, frags
  <2> QED BY <2>1, <2>2, <2>3, <2>4, <2>5, <2>6 DEF TypeOK, LedgerType
<1>9. ASSUME NEW s \in Responders, Finish(s) PROVE TypeOK'
  <2>1. activeByRes[s] \in Requests
    BY <1>9 DEF Finish, TypeOK
  <2>2. LifeTypes'
    BY <1>9, <2>1, TransitionTypes DEF Finish
  <2> QED BY <1>9, <2>2 DEF Finish, TypeOK, LifeTypes, LedgerType
<1>10. ASSUME NEW s \in Responders, Skip(s) PROVE TypeOK'
  <2>1. activeByRes[s] \in Requests
    BY <1>10 DEF Skip, TypeOK
  <2>2. LifeTypes' /\ mu' \in {"free", "assign", "sweep"}
    BY <1>10, <2>1, TransitionTypes DEF Skip, TypeOK
  <2> QED BY <1>10, <2>2 DEF Skip, TypeOK, LifeTypes, LedgerType
<1>11. Answerers \subseteq Sessions /\ AcceptChoices \subseteq BOOLEAN
  BY SessionsAssumption, LimitsAssumption
<1> QED BY <1>1, <1>2, <1>4, <1>5, <1>6, <1>7, <1>8, <1>9, <1>10, <1>11
        DEF ResponderNext, Connected, Answering

\* The loops under the lock and the passage of time keep the types.
LEMMA LoopType ==
  TypeOK /\ (tryAssignStep \/ tryAssignReturn
             \/ \E r \in Requests : Elapse(r) \/ SweepTimeouts(r)) => TypeOK'
<1>1. ASSUME TypeOK, NEW i \in DOMAIN queue, NEW j \in DOMAIN available,
             AssignPair(i, j)
      PROVE  TypeOK'
  <2> DEFINE r == queue[i]
             s == available[j]
  <2>1. r \in Requests /\ s \in Sessions /\ req[r] \in RequestType
    BY <1>1 DEF TypeOK
  <2>2. RemoveIndex(queue, i) \in Seq(Requests)
        /\ RemoveIndex(available, j) \in Seq(Sessions)
    BY <1>1, KeepAtFacts DEF RemoveIndex, TypeOK
  <2>3. /\ Append(RemoveIndex(queue, i), r) \in Seq(Requests)
        /\ Append(inbox[s], r) \in Seq(Requests)
    BY <1>1, <2>1, <2>2 DEF TypeOK
  <2>4. Assigned(req[r], s) \in RequestType /\ Requeued(req[r]) \in RequestType
    BY <2>1, RequestTypes
  <2>5. /\ available' = RemoveIndex(available, j)
        /\ aged' = aged \ {r}
        /\ queue' \in {RemoveIndex(queue, i), Append(RemoveIndex(queue, i), r)}
        /\ req' = [req EXCEPT ![r] = Assigned(req[r], s)]
           \/ req' = [req EXCEPT ![r] = Requeued(req[r])]
        /\ activeByRes' = [activeByRes EXCEPT ![s] = r]
           \/ activeByRes' = [activeByRes EXCEPT ![s] = None]
        /\ inbox' = inbox \/ inbox' = [inbox EXCEPT ![s] = Append(inbox[s], r)]
        /\ UNCHANGED <<fragments, registered, acceptAI, ledger, mu>>
    BY <1>1 DEF AssignPair
  <2> HIDE DEF r, s
  <2> QED BY <1>1, <2>1, <2>2, <2>3, <2>4, <2>5, ZenonT(40) DEF TypeOK
<1>2. ASSUME TypeOK, tryAssignReturn PROVE TypeOK'
  BY <1>2 DEF tryAssignReturn, TypeOK
<1>3. ASSUME TypeOK, NEW r \in Requests, Elapse(r) PROVE TypeOK'
  BY <1>3 DEF Elapse, TypeOK
<1>4. ASSUME TypeOK, NEW r \in Requests, SweepTimeouts(r) PROVE TypeOK'
  <2>1. LifeTypes' /\ mu' \in {"free", "assign", "sweep"}
    BY <1>4, TransitionTypes DEF SweepTimeouts
  <2> QED BY <1>4, <2>1 DEF SweepTimeouts, TypeOK, LifeTypes, LedgerType
<1> QED BY <1>1, <1>2, <1>3, <1>4 DEF tryAssignStep

\* Every variable of the service keeps its type, whatever callers do.
THEOREM TypeCorrect == Spec => []TypeOK
<1>1. Init => TypeOK
  BY InitType
<1>2. TypeOK /\ [Next]_vars => TypeOK'
  <2>1. TypeOK /\ UNCHANGED vars => TypeOK'
    BY DEF TypeOK, vars
  <2> QED BY <2>1, RequesterType, ResponderType, LoopType DEF Next
<1> QED BY <1>1, <1>2, PTL DEF Spec

-----------------------------------------------------------------------------
(* The life of a request *)

\* What is invariant about requests, their queue, assignments and points.
Life ==
  /\ OneAssignment
  /\ QueueExact
  /\ HoldUntilFirstFragment
  /\ SingleAuthor
  /\ ConsentRespected
  /\ LedgerExact

\* The fields that no step of matching or answering changes.
SameTerms(q, p) ==
  /\ q.asker = p.asker /\ q.allowAI = p.allowAI /\ q.preferred = p.preferred
  /\ q.reaction = p.reaction

\* QueueExact in terms of the elements of the queue.
LEMMA QueueElems ==
  QueueExact <=> /\ NoRepeat(queue)
                 /\ \A r \in Requests : req[r].status = "queued" <=> r \in ToSet(queue)
BY DEF QueueExact, NoRepeat, ToSet

\* A request that is assigned or streaming has a responder, who is active on it.
LEMMA HolderFacts ==
  ASSUME TypeOK, OneAssignment, NEW r \in Requests, req[r].status \in Held
  PROVE  /\ req[r] \in RequestType
         /\ req[r].responder \in Responders
         /\ req[r].responder # None
         /\ activeByRes[req[r].responder] = r
<1>1. req[r] \in RequestType
  BY DEF TypeOK
<1>2. req[r].responder # None
  BY DEF OneAssignment
<1>3. req[r].responder \in Responders
  BY <1>1, <1>2 DEF RequestType
<1>4. activeByRes[req[r].responder] = r
  BY <1>3 DEF OneAssignment
<1> QED BY <1>1, <1>2, <1>3, <1>4

\* What is invariant about one request, apart from queue and assignment.
PerRequest(r) ==
  /\ HoldsUntilFirstFragment(r)
  /\ HasSingleAuthor(r)
  /\ RespectsConsent(r)
  /\ LedgerOf(r)

\* The requests that a step does not touch keep what is invariant about them.
LEMMA OthersKept ==
  ASSUME Life, NEW r \in Requests,
         \A x \in Requests \ {r} : req'[x] = req[x] /\ fragments'[x] = fragments[x],
         \A u \in Users, x \in Requests \ {r}, k \in LedgerKinds :
           ledger'[<<u, x, k>>] = ledger[<<u, x, k>>],
         PerRequest(r)', OneAssignment', QueueExact'
  PROVE  Life'
<1>1. ASSUME NEW x \in Requests \ {r} PROVE PerRequest(x)'
  <2>1. /\ RequesterUser(x)' = RequesterUser(x) /\ ResponderUser(x)' = ResponderUser(x)
        /\ ByPersona(x)' = ByPersona(x)
    BY DEF RequesterUser, ResponderUser, ByPersona
  <2>2. HoldsUntilFirstFragment(x)'
    BY <2>1 DEF Life, HoldUntilFirstFragment, HoldsUntilFirstFragment
  <2>3. HasSingleAuthor(x)'
    BY DEF Life, SingleAuthor, HasSingleAuthor
  <2>4. RespectsConsent(x)'
    BY <2>1 DEF Life, ConsentRespected, RespectsConsent
  <2>5. LedgerOf(x)'
    BY <2>1 DEF Life, LedgerExact, LedgerOf, LedgerKinds
  <2> QED BY <2>2, <2>3, <2>4, <2>5 DEF PerRequest
<1> QED BY <1>1 DEF Life, PerRequest, HoldUntilFirstFragment, SingleAuthor,
           ConsentRespected, LedgerExact

\* A step that takes r from the session that holds it.
LEMMA ReleaseKeepsOne ==
  ASSUME TypeOK, OneAssignment, NEW r \in Requests, req[r].status \in Held,
         activeByRes' = [activeByRes EXCEPT ![req[r].responder] = None],
         \A x \in Requests \ {r} : req'[x] = req[x],
         req'[r].status \notin Held,
         req'[r].status \in Completed <=> req'[r].responder # None
  PROVE  OneAssignment'
<1>1. /\ req[r].responder \in Responders
      /\ activeByRes[req[r].responder] = r
  BY HolderFacts
<1>2. ASSUME NEW z \in Responders, NEW x \in Requests
      PROVE  activeByRes'[z] = x <=> req'[x].status \in Held /\ req'[x].responder = z
  <2>1. activeByRes'[z] = IF z = req[r].responder THEN None ELSE activeByRes[z]
    BY DEF TypeOK
  <2>2. activeByRes[z] = x <=> req[x].status \in Held /\ req[x].responder = z
    BY DEF OneAssignment
  <2> QED BY <1>1, <2>1, <2>2, RequestsAssumption
<1>3. ASSUME NEW x \in Requests
      PROVE  req'[x].status \in Held \cup Completed <=> req'[x].responder # None
  BY DEF OneAssignment
<1> QED BY <1>2, <1>3 DEF OneAssignment

\* A step that gives r, held by nobody, to an idle session z.
LEMMA BindKeepsOne ==
  ASSUME TypeOK, OneAssignment, NEW r \in Requests, NEW z \in Responders,
         req[r].status \notin Held, activeByRes[z] = None,
         activeByRes' = [activeByRes EXCEPT ![z] = r],
         \A x \in Requests \ {r} : req'[x] = req[x],
         req'[r].status \in Held, req'[r].responder = z
  PROVE  OneAssignment'
<1>1. ASSUME NEW y \in Responders, NEW x \in Requests
      PROVE  activeByRes'[y] = x <=> req'[x].status \in Held /\ req'[x].responder = y
  <2>1. activeByRes'[y] = IF y = z THEN r ELSE activeByRes[y]
    BY DEF TypeOK
  <2>2. activeByRes[y] = x <=> req[x].status \in Held /\ req[x].responder = y
    BY DEF OneAssignment
  <2> QED BY <2>1, <2>2, RequestsAssumption
<1>2. ASSUME NEW x \in Requests
      PROVE  req'[x].status \in Held \cup Completed <=> req'[x].responder # None
  BY SessionsAssumption DEF OneAssignment
<1> QED BY <1>1, <1>2 DEF OneAssignment

\* A step that changes no assignment.
LEMMA NoRebindKeepsOne ==
  ASSUME TypeOK, OneAssignment, NEW r \in Requests, activeByRes' = activeByRes,
         \A x \in Requests \ {r} : req'[x] = req[x],
         req'[r].status \in Held <=> req[r].status \in Held,
         req'[r].responder = req[r].responder,
         req'[r].status \in Completed <=> req[r].status \in Completed
  PROVE  OneAssignment'
BY DEF OneAssignment

\* The three ways a step treats the queue.
LEMMA QueueKept ==
  ASSUME TypeOK, QueueExact, NEW r \in Requests,
         \A x \in Requests \ {r} : req'[x] = req[x],
         \/ /\ queue' = queue
            /\ req'[r].status = "queued" <=> req[r].status = "queued"
         \/ queue' = Append(queue, r)
            /\ req[r].status # "queued" /\ req'[r].status = "queued"
         \/ queue' = RemoveValue(queue, r) /\ req'[r].status # "queued"
         \/ \E i \in DOMAIN queue :
              /\ queue[i] = r
              /\ \/ queue' = RemoveIndex(queue, i) /\ req'[r].status # "queued"
                 \/ /\ queue' = Append(RemoveIndex(queue, i), r)
                    /\ req'[r].status = "queued"
  PROVE  QueueExact'
<1>1. /\ NoRepeat(queue) /\ queue \in Seq(Requests)
      /\ \A x \in Requests : req[x].status = "queued" <=> x \in ToSet(queue)
  BY QueueElems DEF TypeOK
<1>2. SUFFICES /\ NoRepeat(queue')
               /\ \A x \in Requests :
                    req'[x].status = "queued" <=> x \in ToSet(queue')
  BY DEF QueueExact, NoRepeat, ToSet
<1>3. CASE queue' = queue /\ (req'[r].status = "queued" <=> req[r].status = "queued")
  BY <1>1, <1>3
<1>4. CASE queue' = Append(queue, r) /\ req[r].status # "queued"
           /\ req'[r].status = "queued"
  <2>1. NoRepeat(queue') /\ ToSet(queue') = ToSet(queue) \cup {r}
    BY <1>1, <1>4, AppendFacts
  <2> QED BY <1>1, <1>4, <2>1
<1>5. CASE queue' = RemoveValue(queue, r) /\ req'[r].status # "queued"
  <2>1. NoRepeat(queue') /\ ToSet(queue') = ToSet(queue) \ {r}
    BY <1>1, <1>5, RemoveValueFacts
  <2> QED BY <1>1, <1>5, <2>1
<1>6. ASSUME NEW i \in DOMAIN queue, queue[i] = r
      PROVE  LET rest == RemoveIndex(queue, i)
             IN /\ rest \in Seq(Requests) /\ NoRepeat(rest)
                /\ ToSet(rest) = ToSet(queue) \ {r}
                /\ NoRepeat(Append(rest, r)) /\ ToSet(Append(rest, r)) = ToSet(queue)
  <2> DEFINE rest == RemoveIndex(queue, i)
  <2>1. /\ rest \in Seq(Requests) /\ NoRepeat(rest)
        /\ ToSet(rest) = ToSet(queue) \ {r}
    BY <1>1, <1>6, RemoveIndexFacts
  <2>2. r \in ToSet(queue)
    BY <1>6 DEF ToSet
  <2> HIDE DEF rest
  <2>3. NoRepeat(Append(rest, r)) /\ ToSet(Append(rest, r)) = ToSet(rest) \cup {r}
    BY <2>1, AppendFacts
  <2> QED BY <2>1, <2>2, <2>3 DEF rest
<1>7. ASSUME NEW i \in DOMAIN queue, queue[i] = r,
             queue' = RemoveIndex(queue, i), req'[r].status # "queued"
      PROVE  /\ NoRepeat(queue')
             /\ \A x \in Requests : req'[x].status = "queued" <=> x \in ToSet(queue')
  BY <1>1, <1>6, <1>7
<1>8. ASSUME NEW i \in DOMAIN queue, queue[i] = r,
             queue' = Append(RemoveIndex(queue, i), r), req'[r].status = "queued"
      PROVE  /\ NoRepeat(queue')
             /\ \A x \in Requests : req'[x].status = "queued" <=> x \in ToSet(queue')
  <2>1. r \in ToSet(queue)
    BY <1>8 DEF ToSet
  <2> QED BY <1>1, <1>6, <1>8, <2>1
<1> QED BY <1>3, <1>4, <1>5, <1>7, <1>8

\* requeueLocked and abandonLocked, on a request without a committed fragment.
LEMMA GiveBackLife ==
  ASSUME TypeOK, Life, NEW r \in Requests, fragments' = fragments,
         \/ req[r].status = "assigned" /\ requeueLocked(r)
         \/ req[r].status \in {"queued", "assigned"} /\ abandonLocked(r)
  PROVE  Life'
<1>1. req[r] \in RequestType /\ OneAssignment /\ QueueExact
  BY DEF TypeOK, Life
<1>2. /\ \A x \in Requests \ {r} : req'[x] = req[x]
      /\ SameTerms(req[r], req'[r]) /\ req'[r].responder = None
      /\ req'[r].charged = req[r].charged
      /\ \/ req'[r].status = "queued" /\ req'[r].frozen = req[r].frozen
         \/ req'[r].status = "abandoned" /\ req'[r].frozen = 0
  <2>1. /\ \A x \in Requests \ {r} : req'[x] = req[x]
        /\ req'[r] = Requeued(req[r]) \/ req'[r] = Abandoned(req[r])
    BY DEF requeueLocked, abandonLocked, TypeOK
  <2>2. CASE req'[r] = Requeued(req[r])
    BY <1>1, <2>1, <2>2 DEF SameTerms, Requeued, RequestType
  <2>3. CASE req'[r] = Abandoned(req[r])
    BY <1>1, <2>1, <2>3 DEF SameTerms, Abandoned, RequestType
  <2> QED BY <2>1, <2>2, <2>3
<1>3. ledger' = ledger
  BY DEF requeueLocked, abandonLocked
<1>4. OneAssignment'
  <2>1. CASE req[r].status = "assigned"
    <3>1. req[r].responder # None
      BY <1>1, <2>1, HolderFacts DEF Held
    <3>2. activeByRes' = [activeByRes EXCEPT ![req[r].responder] = None]
      BY <3>1 DEF requeueLocked, abandonLocked, Release
    <3> QED BY <1>1, <1>2, <2>1, <3>2, ReleaseKeepsOne DEF Held, Completed
  <2>2. CASE req[r].status = "queued"
    <3>1. req[r].responder = None
      BY <1>1, <2>2 DEF OneAssignment, Held, Completed
    <3>2. activeByRes' = activeByRes
      BY <2>2, <3>1 DEF abandonLocked, Release
    <3> QED BY <1>1, <1>2, <2>2, <3>1, <3>2, NoRebindKeepsOne DEF Held, Completed
  <2> QED BY <2>1, <2>2
<1>5. QueueExact'
  <2>1. CASE req[r].status = "assigned" /\ requeueLocked(r)
    <3>1. queue' = Append(queue, r) /\ req'[r].status = "queued"
      BY <1>1, <2>1 DEF requeueLocked, Requeued, RequestType, TypeOK
    <3> QED BY <1>1, <1>2, <2>1, <3>1, QueueKept
  <2>2. CASE abandonLocked(r)
    <3>1. queue' = RemoveValue(queue, r) /\ req'[r].status = "abandoned"
      BY <1>1, <2>2 DEF abandonLocked, Abandoned, RequestType, TypeOK
    <3> QED BY <1>1, <1>2, <3>1, QueueKept
  <2> QED BY <2>1, <2>2
<1>6. PerRequest(r)'
  <2>1. RequesterUser(r)' = RequesterUser(r)
    BY <1>2 DEF RequesterUser, SameTerms
  <2>2. /\ HoldsUntilFirstFragment(r) /\ HasSingleAuthor(r) /\ LedgerOf(r)
        /\ fragments[r] = <<>>
    BY DEF Life, HoldUntilFirstFragment, SingleAuthor, LedgerExact,
           HoldsUntilFirstFragment, Completed
  <2>3. HoldsUntilFirstFragment(r)'
    BY <1>2, <2>1, <2>2 DEF HoldsUntilFirstFragment, Completed
  <2>4. HasSingleAuthor(r)'
    BY <2>2 DEF HasSingleAuthor
  <2>5. RespectsConsent(r)'
    BY <1>2 DEF RespectsConsent
  <2>6. LedgerOf(r)'
    BY <1>2, <1>3, <2>1, <2>2 DEF LedgerOf, Completed, SameTerms
  <2> QED BY <2>3, <2>4, <2>5, <2>6 DEF PerRequest
<1> QED BY <1>2, <1>3, <1>4, <1>5, <1>6, OthersKept

\* What charging the question posts for request r.
LEMMA ChargeFacts ==
  ASSUME TypeOK, NEW r \in Requests, NEW led \in LedgerType,
         NEW u \in Users, NEW x \in Requests, NEW k \in LedgerKinds
  PROVE  Charge(led, r)[<<u, x, k>>] =
           IF x = r /\ k = "question_charge" /\ ~req[r].charged
              /\ u = RequesterUser(r)
             THEN led[<<u, x, k>>] - QuestionCost ELSE led[<<u, x, k>>]
<1>1. NoUser \notin Users /\ -QuestionCost \in Int /\ led[<<u, x, k>>] \in Int
  BY SessionsAssumption, PointsAssumption DEF LedgerType
<1>2. CASE ~req[r].charged /\ RequesterUser(r) # NoUser
  <2>1. RequesterUser(r) \in Users /\ "question_charge" \in LedgerKinds
    BY <1>2, UserTypes DEF LedgerKinds
  <2>2. Charge(led, r) =
          addLedger(led, RequesterUser(r), r, "question_charge", -QuestionCost)
    BY <1>2 DEF Charge
  <2>3. Charge(led, r)[<<u, x, k>>] =
          IF RequesterUser(r) = u /\ r = x /\ "question_charge" = k
            THEN led[<<u, x, k>>] + (-QuestionCost) ELSE led[<<u, x, k>>]
    BY <1>1, <2>1, <2>2, AddLedgerFacts, SMTT(30)
  <2> QED BY <1>1, <1>2, <2>3, PointsAssumption
<1>3. CASE ~(~req[r].charged /\ RequesterUser(r) # NoUser)
  BY <1>1, <1>3 DEF Charge
<1> QED BY <1>2, <1>3

\* What rewarding the responder posts for request r.
LEMMA RewardFacts ==
  ASSUME TypeOK, NEW r \in Requests, NEW led \in LedgerType, NEW frags,
         NEW u \in Users, NEW x \in Requests, NEW k \in LedgerKinds
  PROVE  Reward(led, r, frags)[<<u, x, k>>] =
           IF x = r /\ k = "answer_reward" /\ frags # <<>> /\ u = ResponderUser(r)
             THEN led[<<u, x, k>>] + BaseAnswerReward ELSE led[<<u, x, k>>]
<1>1. NoUser \notin Users /\ BaseAnswerReward \in Int
  BY SessionsAssumption, PointsAssumption
<1>2. CASE frags # <<>> /\ ResponderUser(r) # NoUser
  <2>1. ResponderUser(r) \in Users /\ "answer_reward" \in LedgerKinds
    BY <1>2, UserTypes DEF LedgerKinds
  <2>2. Reward(led, r, frags) =
          addLedger(led, ResponderUser(r), r, "answer_reward", BaseAnswerReward)
    BY <1>2 DEF Reward
  <2>3. Reward(led, r, frags)[<<u, x, k>>] =
          IF ResponderUser(r) = u /\ r = x /\ "answer_reward" = k
            THEN led[<<u, x, k>>] + BaseAnswerReward ELSE led[<<u, x, k>>]
    BY <1>1, <2>1, <2>2, AddLedgerFacts
  <2> QED BY <1>2, <2>3
<1>3. CASE ~(frags # <<>> /\ ResponderUser(r) # NoUser)
  BY <1>1, <1>3 DEF Reward
<1> QED BY <1>2, <1>3

\* completeLocked, on an answer in progress.
LEMMA CompleteLife ==
  ASSUME TypeOK, Life, NEW r \in Requests, fragments' = fragments,
         req[r].status = "streaming", NEW reason, completeLocked(r, reason)
  PROVE  Life'
<1>1. req[r] \in RequestType /\ OneAssignment /\ QueueExact
  BY DEF TypeOK, Life
<1>2. /\ \A x \in Requests \ {r} : req'[x] = req[x]
      /\ SameTerms(req[r], req'[r]) /\ req'[r].responder = req[r].responder
      /\ req'[r].charged = req[r].charged /\ req'[r].frozen = req[r].frozen
      /\ req'[r].status \in Completed
  <2>1. /\ \A x \in Requests \ {r} : req'[x] = req[x]
        /\ req'[r] = Finished(req[r], reason)
    BY DEF completeLocked, TypeOK
  <2> QED BY <1>1, <2>1 DEF SameTerms, Finished, RequestType, Completed
<1>3. req[r].responder # None
  BY <1>1, HolderFacts DEF Held
<1>4. OneAssignment'
  <2>1. activeByRes' = [activeByRes EXCEPT ![req[r].responder] = None]
    BY <1>3 DEF completeLocked, Release
  <2> QED BY <1>1, <1>2, <1>3, <2>1, ReleaseKeepsOne DEF Held, Completed
<1>5. QueueExact'
  BY <1>1, <1>2, QueueKept DEF completeLocked, Completed
<1>6. /\ HoldsUntilFirstFragment(r) /\ HasSingleAuthor(r) /\ LedgerOf(r)
      /\ RespectsConsent(r) /\ fragments[r] # <<>>
  BY DEF Life, HoldUntilFirstFragment, SingleAuthor, LedgerExact, ConsentRespected,
         HoldsUntilFirstFragment
<1>7. /\ RequesterUser(r)' = RequesterUser(r) /\ ResponderUser(r)' = ResponderUser(r)
      /\ ByPersona(r)' = ByPersona(r)
  BY <1>2 DEF RequesterUser, ResponderUser, ByPersona, SameTerms
<1>8. \A u \in Users, x \in Requests, k \in LedgerKinds :
        ledger'[<<u, x, k>>] =
          IF x = r /\ k = "answer_reward" /\ u = ResponderUser(r)
            THEN ledger[<<u, x, k>>] + BaseAnswerReward ELSE ledger[<<u, x, k>>]
  <2>1. ledger' = Reward(ledger, r, fragments[r]) /\ ledger \in LedgerType
    BY DEF completeLocked, TypeOK, LedgerType
  <2>2. ASSUME NEW u \in Users, NEW x \in Requests, NEW k \in LedgerKinds
        PROVE  Reward(ledger, r, fragments[r])[<<u, x, k>>] =
                 IF x = r /\ k = "answer_reward" /\ fragments[r] # <<>>
                    /\ u = ResponderUser(r)
                   THEN ledger[<<u, x, k>>] + BaseAnswerReward
                   ELSE ledger[<<u, x, k>>]
    BY <2>1, RewardFacts
  <2> QED BY <1>6, <2>1, <2>2
<1>9. PerRequest(r)'
  <2>1. HoldsUntilFirstFragment(r)'
    BY <1>2, <1>6, <1>7 DEF HoldsUntilFirstFragment, Completed
  <2>2. HasSingleAuthor(r)'
    BY <1>2, <1>6 DEF HasSingleAuthor
  <2>3. RespectsConsent(r)'
    BY <1>2, <1>6, <1>7 DEF RespectsConsent, SameTerms
  <2>4. LedgerOf(r)'
    <3>1. req[r].status \notin Completed /\ req[r].reaction = "none"
      BY <1>6 DEF LedgerOf, Completed
    <3>2. req'[r].reaction = "none" /\ rewardFor("none") = BaseAnswerReward
      BY <1>2, <3>1 DEF SameTerms, rewardFor
    <3>3. BaseAnswerReward \in Int /\ BaseAnswerReward - BaseAnswerReward = 0
          /\ 0 + BaseAnswerReward = BaseAnswerReward
      BY PointsAssumption
    <3> QED BY <1>2, <1>6, <1>7, <1>8, <3>1, <3>2, <3>3 DEF LedgerOf, LedgerKinds
  <2> QED BY <2>1, <2>2, <2>3, <2>4 DEF PerRequest
<1>10. \A u \in Users, x \in Requests \ {r}, k \in LedgerKinds :
         ledger'[<<u, x, k>>] = ledger[<<u, x, k>>]
  BY <1>8
<1> QED BY <1>2, <1>4, <1>5, <1>9, <1>10, OthersKept

\* endAssignment, on a request that a session holds.
LEMMA EndAssignmentLife ==
  ASSUME TypeOK, Life, NEW r \in Requests, fragments' = fragments,
         req[r].status \in Held, endAssignment(r)
  PROVE  Life'
<1>1. req[r].status = "streaming" <=> fragments[r] # <<>>
  BY DEF Life, HoldUntilFirstFragment, HoldsUntilFirstFragment, Held, Completed
<1>2. CASE fragments[r] = <<>>
  BY <1>1, <1>2, GiveBackLife DEF endAssignment, giveBackLocked, Held
<1>3. CASE fragments[r] # <<>>
  BY <1>1, <1>3, CompleteLife DEF endAssignment
<1> QED BY <1>2, <1>3

\* createRequest: a new request joins the queue.
LEMMA CreateLife ==
  ASSUME TypeOK, Life, NEW s \in Sessions, NEW r \in Requests, NEW allow, NEW pref,
         NEW max, createRequest(s, r, allow, pref, max)
  PROVE  Life'
<1>1. req[r] \in RequestType /\ OneAssignment /\ QueueExact
  BY DEF TypeOK, Life
<1>2. /\ req[r].status = "absent" /\ fragments' = fragments /\ ledger' = ledger
      /\ activeByRes' = activeByRes /\ queue' = Append(queue, r)
      /\ \A x \in Requests \ {r} : req'[x] = req[x]
      /\ req'[r].status = "queued" /\ req'[r].asker = s
      /\ req'[r].responder = None /\ req'[r].charged = FALSE
      /\ req'[r].reaction = "none"
      /\ req'[r].frozen = IF UserOf[s] # NoUser THEN QuestionCost ELSE 0
  BY DEF createRequest, AbsentRequest, TypeOK
<1>3. req[r].responder = None
  BY <1>1, <1>2 DEF OneAssignment, Held, Completed
<1>4. OneAssignment'
  BY <1>1, <1>2, <1>3, NoRebindKeepsOne DEF Held, Completed
<1>5. QueueExact'
  BY <1>1, <1>2, QueueKept
<1>6. PerRequest(r)'
  <2>1. /\ HoldsUntilFirstFragment(r) /\ LedgerOf(r) /\ fragments[r] = <<>>
    BY <1>2 DEF Life, HoldUntilFirstFragment, LedgerExact, HoldsUntilFirstFragment,
                Completed
  <2>2. RequesterUser(r)' = UserOf[s]
    BY <1>2, SessionsAssumption DEF RequesterUser
  <2>3. HoldsUntilFirstFragment(r)'
    BY <1>2, <2>1, <2>2, PointsAssumption DEF HoldsUntilFirstFragment, Completed
  <2>4. HasSingleAuthor(r)'
    BY <1>2, <2>1 DEF HasSingleAuthor
  <2>5. RespectsConsent(r)'
    BY <1>2 DEF RespectsConsent
  <2>6. req[r].charged = FALSE
    BY <1>1, <2>1 DEF HoldsUntilFirstFragment, RequestType
  <2>7. LedgerOf(r)'
    BY <1>2, <2>1, <2>6 DEF LedgerOf, Completed
  <2> QED BY <2>3, <2>4, <2>5, <2>7 DEF PerRequest
<1> QED BY <1>2, <1>4, <1>5, <1>6, OthersKept

\* React: only the adjustment of a completed answer moves.
LEMMA ReactLife ==
  ASSUME TypeOK, Life, NEW s \in Sessions, NEW r \in Requests,
         NEW reaction \in Reactions, React(s, r, reaction)
  PROVE  Life'
<1>1. req[r] \in RequestType /\ OneAssignment /\ QueueExact
  BY DEF TypeOK, Life
<1>2. /\ req[r].status \in Completed /\ fragments' = fragments
      /\ activeByRes' = activeByRes /\ queue' = queue
      /\ \A x \in Requests \ {r} : req'[x] = req[x]
      /\ req'[r].status = req[r].status /\ req'[r].asker = req[r].asker
      /\ req'[r].responder = req[r].responder /\ req'[r].charged = req[r].charged
      /\ req'[r].frozen = req[r].frozen /\ req'[r].allowAI = req[r].allowAI
      /\ req'[r].preferred = req[r].preferred /\ req'[r].reaction = reaction
  BY <1>1 DEF React, TypeOK, RequestType
<1>3. OneAssignment' /\ QueueExact'
  BY <1>1, <1>2, NoRebindKeepsOne, QueueKept
<1>4. /\ RequesterUser(r)' = RequesterUser(r) /\ ResponderUser(r)' = ResponderUser(r)
      /\ ByPersona(r)' = ByPersona(r)
  BY <1>2 DEF RequesterUser, ResponderUser, ByPersona
<1>5. PICK d \in Int : d = Adjustment(req[r].reaction, reaction)
  <2>1. req[r].reaction \in Reactions
    BY <1>1 DEF RequestType
  <2>2. rewardFor(req[r].reaction) \in Int /\ rewardFor(reaction) \in Int
    BY <2>1, RewardForType
  <2> QED BY <2>2 DEF Adjustment
<1>6. ASSUME NEW u \in Users, NEW x \in Requests, NEW k \in LedgerKinds
      PROVE  ledger'[<<u, x, k>>] =
               IF x = r /\ k = "reaction_adjustment" /\ u = ResponderUser(r)
                 THEN ledger[<<u, x, k>>] + d ELSE ledger[<<u, x, k>>]
  <2>1. CASE ResponderUser(r) = NoUser
    BY <2>1, SessionsAssumption DEF React
  <2>2. CASE ResponderUser(r) # NoUser
    <3>1. ResponderUser(r) \in Users /\ "reaction_adjustment" \in LedgerKinds
          /\ ledger \in LedgerType
      BY <2>2, UserTypes DEF LedgerKinds, TypeOK, LedgerType
    <3>2. ledger' = addLedger(ledger, ResponderUser(r), r, "reaction_adjustment", d)
      BY <1>5, <2>2 DEF React
    <3>3. ledger'[<<u, x, k>>] =
            IF ResponderUser(r) = u /\ r = x /\ "reaction_adjustment" = k
              THEN ledger[<<u, x, k>>] + d ELSE ledger[<<u, x, k>>]
      BY <3>1, <3>2, AddLedgerFacts
    <3> QED BY <3>3
  <2> QED BY <2>1, <2>2
<1>7. PerRequest(r)'
  <2>1. /\ HoldsUntilFirstFragment(r) /\ HasSingleAuthor(r) /\ LedgerOf(r)
        /\ RespectsConsent(r)
    BY DEF Life, HoldUntilFirstFragment, SingleAuthor, LedgerExact, ConsentRespected
  <2>2. HoldsUntilFirstFragment(r)'
    BY <1>2, <1>4, <2>1 DEF HoldsUntilFirstFragment
  <2>3. HasSingleAuthor(r)'
    BY <1>2, <2>1 DEF HasSingleAuthor
  <2>4. RespectsConsent(r)'
    BY <1>2, <1>4, <2>1 DEF RespectsConsent
  <2>5. LedgerOf(r)'
    <3>1. /\ rewardFor(req[r].reaction) \in Int /\ rewardFor(reaction) \in Int
          /\ BaseAnswerReward \in Int
      <4>1. req[r].reaction \in Reactions
        BY <1>1 DEF RequestType
      <4> QED BY <4>1, RewardForType, PointsAssumption
    <3>2. (rewardFor(req[r].reaction) - BaseAnswerReward) + d
            = rewardFor(reaction) - BaseAnswerReward
      BY <1>5, <3>1 DEF Adjustment
    <3> QED BY <1>2, <1>4, <1>6, <2>1, <3>2 DEF LedgerOf, LedgerKinds
  <2> QED BY <2>2, <2>3, <2>4, <2>5 DEF PerRequest
<1> QED BY <1>2, <1>3, <1>6, <1>7, OthersKept

\* A queued request is given to an idle session that may answer it.
LEMMA BindLife ==
  ASSUME TypeOK, Life, NEW r \in Requests, NEW z \in Responders,
         req[r].status = "queued", activeByRes[z] = None,
         (z \in Sessions => KindOf[z] = "ai_persona") =>
            req[r].allowAI /\ ~ByPersona(r),
         req[r].preferred \in {None, z}, z \in Sessions \cup {FallbackSession(r)},
         req' = [req EXCEPT ![r] = Assigned(req[r], z)],
         activeByRes' = [activeByRes EXCEPT ![z] = r],
         fragments' = fragments, ledger' = ledger, QueueExact'
  PROVE  Life'
<1>1. req[r] \in RequestType /\ OneAssignment
  BY DEF TypeOK, Life
<1>2. /\ \A x \in Requests \ {r} : req'[x] = req[x]
      /\ SameTerms(req[r], req'[r])
      /\ req'[r].status = "assigned" /\ req'[r].responder = z
      /\ req'[r].charged = req[r].charged /\ req'[r].frozen = req[r].frozen
  BY <1>1 DEF Assigned, TypeOK, RequestType, SameTerms
<1>3. OneAssignment'
  BY <1>1, <1>2, BindKeepsOne DEF Held
<1>4. PerRequest(r)'
  <2>1. /\ HoldsUntilFirstFragment(r) /\ LedgerOf(r) /\ fragments[r] = <<>>
    BY DEF Life, HoldUntilFirstFragment, LedgerExact, HoldsUntilFirstFragment, Completed
  <2>2. RequesterUser(r)' = RequesterUser(r) /\ ByPersona(r)' = ByPersona(r)
    BY <1>2 DEF RequesterUser, ByPersona, SameTerms
  <2>3. HoldsUntilFirstFragment(r)'
    BY <1>2, <2>1, <2>2 DEF HoldsUntilFirstFragment, Completed
  <2>4. HasSingleAuthor(r)'
    BY <2>1 DEF HasSingleAuthor
  <2>5. RespectsConsent(r)'
    BY <1>2, <2>2 DEF RespectsConsent, SameTerms
  <2>6. LedgerOf(r)'
    BY <1>2, <2>1, <2>2 DEF LedgerOf, Completed, SameTerms
  <2> QED BY <2>3, <2>4, <2>5, <2>6 DEF PerRequest
<1> QED BY <1>2, <1>3, <1>4, OthersKept

\* One iteration of tryAssignLocked.
LEMMA AssignLife ==
  ASSUME TypeOK, Life, NEW i \in DOMAIN queue, NEW j \in DOMAIN available,
         NEW r \in Requests, NEW s \in Sessions, r = queue[i], s = available[j],
         CompatibleAt(i, j), AssignPair(i, j)
  PROVE  Life'
<1>1. /\ req[r] \in RequestType
      /\ OneAssignment /\ QueueExact
  BY DEF TypeOK, Life
<1>2. /\ req[r].status = "queued"
      /\ activeByRes[s] = None /\ req[r].preferred \in {None, s}
      /\ KindOf[s] = "ai_persona" => req[r].allowAI
      /\ ByPersona(r) => KindOf[s] # "ai_persona"
  BY <1>1 DEF CompatibleAt, Compatible, QueueExact
<1>3. fragments' = fragments /\ ledger' = ledger
  BY DEF AssignPair
<1>4. CASE /\ queue' = RemoveIndex(queue, i)
           /\ req' = [req EXCEPT ![r] = Assigned(req[r], s)]
           /\ activeByRes' = [activeByRes EXCEPT ![s] = r]
  <2>1. (\A x \in Requests \ {r} : req'[x] = req[x]) /\ req'[r].status = "assigned"
    BY <1>1, <1>4 DEF TypeOK, Assigned, RequestType
  <2>2. QueueExact'
    BY <1>1, <1>4, <2>1, QueueKept
  <2> QED BY <1>1, <1>2, <1>3, <1>4, <2>2, BindLife
<1>5. CASE /\ queue' = Append(RemoveIndex(queue, i), r)
           /\ req' = [req EXCEPT ![r] = Requeued(req[r])]
           /\ activeByRes' = [activeByRes EXCEPT ![s] = None]
  <2>1. /\ \A x \in Requests \ {r} : req'[x] = req[x]
        /\ SameTerms(req[r], req'[r])
        /\ req'[r].status = "queued" /\ req'[r].responder = None
        /\ req'[r].charged = req[r].charged /\ req'[r].frozen = req[r].frozen
    BY <1>1, <1>5 DEF TypeOK, Requeued, RequestType, SameTerms
  <2>2. QueueExact'
    BY <1>1, <1>5, <2>1, QueueKept
  <2>3. activeByRes' = activeByRes /\ req[r].responder = None
    BY <1>1, <1>2, <1>5, ZenonT(40) DEF TypeOK, OneAssignment, Held, Completed
  <2>4. OneAssignment'
    BY <1>1, <1>2, <2>1, <2>3, NoRebindKeepsOne DEF Held, Completed
  <2>5. PerRequest(r)'
    <3>1. /\ HoldsUntilFirstFragment(r) /\ LedgerOf(r) /\ HasSingleAuthor(r)
          /\ fragments[r] = <<>>
      BY <1>1, <1>2 DEF Life, HoldUntilFirstFragment, LedgerExact, SingleAuthor,
                        HoldsUntilFirstFragment, Completed
    <3>2. RequesterUser(r)' = RequesterUser(r)
      BY <2>1 DEF RequesterUser, SameTerms
    <3>3. HoldsUntilFirstFragment(r)'
      BY <1>2, <1>3, <2>1, <3>1, <3>2 DEF HoldsUntilFirstFragment, Completed
    <3>4. HasSingleAuthor(r)'
      BY <1>3, <3>1 DEF HasSingleAuthor
    <3>5. RespectsConsent(r)'
      BY <2>1 DEF RespectsConsent
    <3>6. LedgerOf(r)'
      BY <1>2, <1>3, <2>1, <3>1, <3>2 DEF LedgerOf, Completed, SameTerms
    <3> QED BY <3>3, <3>4, <3>5, <3>6 DEF PerRequest
  <2> QED BY <1>1, <1>3, <2>1, <2>2, <2>4, <2>5, OthersKept
<1> QED BY <1>4, <1>5 DEF AssignPair

\* AcquireFallbackAssignment, on a question that was asked over HTTP.
LEMMA AcquireLife ==
  ASSUME TypeOK, Life, NEW r \in Requests, ~ByPersona(r), AcquireFallbackAssignment(r)
  PROVE  Life'
<1> DEFINE z == FallbackSession(r)
<1>1. /\ z \in Responders /\ z \notin Sessions /\ z = FallbackSession(r) /\ req[r] \in RequestType
      /\ OneAssignment /\ QueueExact
  BY SessionsAssumption DEF TypeOK, Life, FallbackSessions
<1>2. /\ req[r].status = "queued" /\ req[r].preferred = None /\ req[r].allowAI
      /\ queue' = RemoveValue(queue, r)
      /\ req' = [req EXCEPT ![r] = Assigned(req[r], z)]
      /\ activeByRes' = [activeByRes EXCEPT ![z] = r]
      /\ fragments' = fragments /\ ledger' = ledger
  BY DEF AcquireFallbackAssignment, FallbackMayAcquire
<1>3. activeByRes[z] = None
  <2> SUFFICES ASSUME NEW x \in Requests, activeByRes[z] = x PROVE FALSE
    BY <1>1 DEF TypeOK
  <2>1. req[x].status \in Held /\ req[x].responder = z
    BY <1>1 DEF OneAssignment
  <2>2. RespectsConsent(x) /\ z # None
    BY <1>1, SessionsAssumption DEF Life, ConsentRespected
  <2>3. z = FallbackSession(x)
    BY <1>1, <2>1, <2>2 DEF RespectsConsent
  <2>4. x = r
    BY <2>3 DEF FallbackSession
  <2> QED BY <1>2, <2>1, <2>4 DEF Held
<1>4. QueueExact'
  <2>1. (\A x \in Requests \ {r} : req'[x] = req[x]) /\ req'[r].status = "assigned"
    BY <1>1, <1>2 DEF TypeOK, Assigned, RequestType
  <2> QED BY <1>1, <1>2, <2>1, QueueKept
<1> HIDE DEF z
<1> QED BY <1>1, <1>2, <1>3, <1>4, BindLife

\* SubmitFragment: the first fragment charges the question, the one that reaches
\* the output limit also completes the answer.
LEMMA SubmitLife ==
  ASSUME TypeOK, Life, NEW s \in Responders, NEW q \in ClientSeqs,
         NEW n \in FragmentSizes, NEW r \in Requests, r = activeByRes[s],
         SubmitFragment(s, q, n)
  PROVE  Life'
<1> DEFINE frag == [from |-> s, seq |-> q, size |-> n]
<1>1. /\ req[r] \in RequestType /\ OneAssignment /\ QueueExact
      /\ req[r].status \in Held /\ req[r].responder = s /\ s # None
  BY SessionsAssumption DEF TypeOK, Life, OneAssignment
<1>2. PICK frags : frags = Append(fragments[r], frag)
  OBVIOUS
<1>3. /\ fragments'[r] = frags
      /\ \A x \in Requests \ {r} : fragments'[x] = fragments[x]
      /\ queue' = queue /\ ~SeqSeen(r, s, q)
  BY <1>2 DEF SubmitFragment, TypeOK
<1>4. PICK full \in BOOLEAN :
        /\ req' = [req EXCEPT ![r] = IF full THEN Finished(Streaming(req[r]), "length")
                                             ELSE Streaming(req[r])]
        /\ ledger' = IF full THEN Reward(Charge(ledger, r), r, frags)
                             ELSE Charge(ledger, r)
        /\ activeByRes' = IF full THEN Release(s) ELSE activeByRes
  <2>1. CASE LimitReached(r, frags)
    BY <1>2, <2>1 DEF SubmitFragment
  <2>2. CASE ~LimitReached(r, frags)
    BY <1>2, <2>2 DEF SubmitFragment
  <2> QED BY <2>1, <2>2
<1>5. /\ fragments[r] \in Seq(FragmentType) /\ Len(fragments[r]) \in Nat
      /\ DOMAIN fragments[r] = 1..Len(fragments[r])
      /\ DOMAIN frags = 1..Len(fragments[r]) + 1
      /\ \A i \in 1..Len(fragments[r]) : frags[i] = fragments[r][i]
      /\ frags[Len(fragments[r]) + 1] = frag
      /\ frags # <<>>
  <2>1. fragments[r] \in Seq(FragmentType) /\ frag \in FragmentType
    BY DEF TypeOK, FragmentType
  <2> HIDE DEF frag
  <2> QED BY <1>2, <2>1
<1>6. /\ \A x \in Requests \ {r} : req'[x] = req[x]
      /\ SameTerms(req[r], req'[r]) /\ req'[r].responder = s
      /\ req'[r].charged = TRUE /\ req'[r].frozen = 0
      /\ req'[r].status = IF full THEN "completed" ELSE "streaming"
  <2>1. /\ \A x \in Requests \ {r} : req'[x] = req[x]
        /\ req'[r] = IF full THEN Finished(Streaming(req[r]), "length")
                             ELSE Streaming(req[r])
    BY <1>4 DEF TypeOK
  <2>2. CASE full
    BY <1>1, <2>1, <2>2 DEF SameTerms, Finished, Streaming, RequestType
  <2>3. CASE ~full
    BY <1>1, <2>1, <2>3 DEF SameTerms, Streaming, RequestType
  <2> QED BY <2>1, <2>2, <2>3
<1>7. OneAssignment'
  <2>1. CASE full
    <3>1. activeByRes' = [activeByRes EXCEPT ![req[r].responder] = None]
      BY <1>1, <1>4, <2>1 DEF Release
    <3> QED BY <1>1, <1>6, <2>1, <3>1, ReleaseKeepsOne DEF Held, Completed
  <2>2. CASE ~full
    BY <1>1, <1>4, <1>6, <2>2, NoRebindKeepsOne DEF Held, Completed
  <2> QED BY <2>1, <2>2
<1>8. QueueExact'
  BY <1>1, <1>3, <1>6, QueueKept DEF Held
<1>9. /\ HoldsUntilFirstFragment(r) /\ HasSingleAuthor(r) /\ LedgerOf(r)
      /\ RespectsConsent(r)
  BY DEF Life, HoldUntilFirstFragment, SingleAuthor, LedgerExact, ConsentRespected
<1>10. /\ RequesterUser(r)' = RequesterUser(r) /\ ResponderUser(r)' = ResponderUser(r)
       /\ ByPersona(r)' = ByPersona(r)
  BY <1>1, <1>6 DEF RequesterUser, ResponderUser, ByPersona, SameTerms
<1>11. HoldsUntilFirstFragment(r)'
  BY <1>3, <1>5, <1>6 DEF HoldsUntilFirstFragment, Completed
<1>12. HasSingleAuthor(r)'
  <2>1. \A i \in DOMAIN fragments[r] :
          fragments[r][i].from = s /\ fragments[r][i].seq # q
    BY <1>1, <1>3, <1>9 DEF HasSingleAuthor, SeqSeen
  <2>2. \A i \in DOMAIN frags : frags[i].from = s
    BY <1>5, <2>1
  <2>3. \A i, j \in DOMAIN frags : frags[i].seq = frags[j].seq => i = j
    <3>1. \A i, j \in 1..Len(fragments[r]) : frags[i].seq = frags[j].seq => i = j
      BY <1>5, <1>9, SMTT(30) DEF HasSingleAuthor
    <3>2. /\ \A i \in 1..Len(fragments[r]) : frags[i].seq # q
          /\ frags[Len(fragments[r]) + 1].seq = q
      BY <1>5, <2>1
    <3>3. \A i \in DOMAIN frags :
            i \in 1..Len(fragments[r]) \/ i = Len(fragments[r]) + 1
      BY <1>5
    <3> HIDE DEF frag
    <3> QED BY <3>1, <3>2, <3>3
  <2> QED BY <1>3, <1>6, <2>2, <2>3 DEF HasSingleAuthor
<1>13. RespectsConsent(r)'
  BY <1>1, <1>6, <1>9, <1>10 DEF RespectsConsent, SameTerms
<1>14. ASSUME NEW u \in Users, NEW x \in Requests, NEW k \in LedgerKinds
       PROVE  ledger'[<<u, x, k>>] =
                CASE x = r /\ k = "question_charge" /\ ~req[r].charged
                     /\ u = RequesterUser(r) -> ledger[<<u, x, k>>] - QuestionCost
                  [] x = r /\ k = "answer_reward" /\ full
                     /\ u = ResponderUser(r) -> ledger[<<u, x, k>>] + BaseAnswerReward
                  [] OTHER -> ledger[<<u, x, k>>]
  <2>1. ledger \in LedgerType /\ Charge(ledger, r) \in LedgerType
    BY SettlementTypes DEF TypeOK, LedgerType
  <2>2. Charge(ledger, r)[<<u, x, k>>] =
          IF x = r /\ k = "question_charge" /\ ~req[r].charged /\ u = RequesterUser(r)
            THEN ledger[<<u, x, k>>] - QuestionCost ELSE ledger[<<u, x, k>>]
    BY <2>1, ChargeFacts
  <2>3. Reward(Charge(ledger, r), r, frags)[<<u, x, k>>] =
          IF x = r /\ k = "answer_reward" /\ frags # <<>> /\ u = ResponderUser(r)
            THEN Charge(ledger, r)[<<u, x, k>>] + BaseAnswerReward
            ELSE Charge(ledger, r)[<<u, x, k>>]
    BY <2>1, RewardFacts
  <2>4. CASE full
    BY <1>4, <1>5, <2>2, <2>3, <2>4
  <2>5. CASE ~full
    BY <1>4, <2>2, <2>5
  <2> QED BY <2>4, <2>5
<1>15. LedgerOf(r)'
  <2>1. req[r].status \notin Completed /\ req[r].reaction = "none"
    BY <1>1, <1>9 DEF LedgerOf, Held, Completed
  <2>2. req'[r].reaction = "none" /\ rewardFor("none") = BaseAnswerReward
    BY <1>6, <2>1 DEF SameTerms, rewardFor
  <2>3. /\ BaseAnswerReward - BaseAnswerReward = 0
        /\ 0 + BaseAnswerReward = BaseAnswerReward /\ 0 - QuestionCost = -QuestionCost
    BY PointsAssumption
  <2>4. req'[r].status \in Completed <=> full
    BY <1>6 DEF Completed
  <2>5. ASSUME NEW u \in Users
        PROVE  ledger'[<<u, r, "question_charge">>] =
                 IF u = RequesterUser(r) THEN -QuestionCost ELSE 0
    <3>1. ledger[<<u, r, "question_charge">>] =
            IF req[r].charged /\ u = RequesterUser(r) THEN -QuestionCost ELSE 0
      BY <1>9 DEF LedgerOf
    <3>2. "question_charge" \in LedgerKinds
      BY DEF LedgerKinds
    <3>3. ledger'[<<u, r, "question_charge">>] =
            IF ~req[r].charged /\ u = RequesterUser(r)
              THEN ledger[<<u, r, "question_charge">>] - QuestionCost
              ELSE ledger[<<u, r, "question_charge">>]
      BY <1>14, <3>2
    <3> QED BY <2>3, <3>1, <3>3
  <2>6. ASSUME NEW u \in Users
        PROVE  /\ ledger'[<<u, r, "answer_reward">>] =
                    IF full /\ u = ResponderUser(r) THEN BaseAnswerReward ELSE 0
               /\ ledger'[<<u, r, "reaction_adjustment">>] = 0
    <3>1. /\ ledger[<<u, r, "answer_reward">>] = 0
          /\ ledger[<<u, r, "reaction_adjustment">>] = 0
      BY <1>9, <2>1 DEF LedgerOf
    <3>2. "answer_reward" \in LedgerKinds /\ "reaction_adjustment" \in LedgerKinds
      BY DEF LedgerKinds
    <3>3. ledger'[<<u, r, "answer_reward">>] =
            IF full /\ u = ResponderUser(r)
              THEN ledger[<<u, r, "answer_reward">>] + BaseAnswerReward
              ELSE ledger[<<u, r, "answer_reward">>]
      BY <1>14, <3>2
    <3>4. ledger'[<<u, r, "reaction_adjustment">>] =
            ledger[<<u, r, "reaction_adjustment">>]
      BY <1>14, <3>2
    <3> QED BY <2>3, <3>1, <3>3, <3>4
  <2> QED BY <1>6, <1>10, <2>2, <2>3, <2>4, <2>5, <2>6 DEF LedgerOf
<1>16. \A u \in Users, x \in Requests \ {r}, k \in LedgerKinds :
         ledger'[<<u, x, k>>] = ledger[<<u, x, k>>]
  BY <1>14, ZenonT(40)
<1>17. PerRequest(r)'
  BY <1>11, <1>12, <1>13, <1>15 DEF PerRequest
<1> QED BY <1>3, <1>6, <1>7, <1>8, <1>16, <1>17, OthersKept

\* A step that leaves requests, queue, assignments and points alone.
LEMMA LifeUnchanged ==
  ASSUME Life, UNCHANGED <<req, fragments, queue, activeByRes, ledger>>
  PROVE  Life'
<1>1. OneAssignment' /\ QueueExact'
  BY DEF Life, OneAssignment, QueueExact
<1>2. ASSUME NEW x \in Requests PROVE PerRequest(x)'
  <2>1. /\ RequesterUser(x)' = RequesterUser(x) /\ ResponderUser(x)' = ResponderUser(x)
        /\ ByPersona(x)' = ByPersona(x)
    BY DEF RequesterUser, ResponderUser, ByPersona
  <2>2. HoldsUntilFirstFragment(x)'
    BY <2>1 DEF Life, HoldUntilFirstFragment, HoldsUntilFirstFragment
  <2>3. HasSingleAuthor(x)'
    BY DEF Life, SingleAuthor, HasSingleAuthor
  <2>4. RespectsConsent(x)'
    BY <2>1 DEF Life, ConsentRespected, RespectsConsent
  <2>5. LedgerOf(x)'
    BY <2>1 DEF Life, LedgerExact, LedgerOf
  <2> QED BY <2>2, <2>3, <2>4, <2>5 DEF PerRequest
<1> QED BY <1>1, <1>2 DEF Life, PerRequest, HoldUntilFirstFragment, SingleAuthor,
           ConsentRespected, LedgerExact

-----------------------------------------------------------------------------
(* The pool of responders *)

\* What is invariant about the pool and the assignments, as sets.
LEMMA PoolElems ==
  PoolConsistent <=>
    /\ NoRepeat(available)
    /\ \A s \in ToSet(available) : s \in registered /\ activeByRes[s] = None
    /\ \A s \in Sessions : activeByRes[s] # None => s \in registered
BY DEF PoolConsistent, NoRepeat, ToSet

\* In this step no session of a person or a persona takes a new assignment.
NoneBound == \A s \in Sessions : activeByRes'[s] \in {activeByRes[s], None}

\* The transitions that end an assignment bind nobody, and release the holder.
LEMMA TransitionsRelease ==
  ASSUME TypeOK, OneAssignment, NEW r \in Requests,
         \/ requeueLocked(r)
         \/ abandonLocked(r)
         \/ \E reason \in {"stop", "length", "partial"} : completeLocked(r, reason)
         \/ giveBackLocked(r)
         \/ endAssignment(r)
  PROVE  /\ NoneBound
         /\ req[r].status \in Held => activeByRes'[req[r].responder] = None
<1>1. activeByRes' = Release(req[r].responder)
  BY DEF endAssignment, giveBackLocked, requeueLocked, abandonLocked, completeLocked
<1>2. NoneBound
  BY <1>1 DEF Release, NoneBound, TypeOK
<1>3. req[r].status \in Held => activeByRes'[req[r].responder] = None
  BY <1>1, HolderFacts DEF Release, TypeOK
<1> QED BY <1>2, <1>3

\* A step that neither binds a session nor changes the pool.
LEMMA PoolKept ==
  ASSUME TypeOK, PoolConsistent, NoneBound, UNCHANGED <<available, registered>>
  PROVE  PoolConsistent'
<1>1. \A i \in DOMAIN available : available[i] \in Sessions
  BY DEF TypeOK
<1> QED BY <1>1 DEF PoolConsistent, NoneBound

\* UnregisterResponder: what the session held is released, so that no assignment
\* stays with a session that is gone.
LEMMA UnregisterPool ==
  ASSUME TypeOK, OneAssignment, PoolConsistent, NEW s \in Sessions,
         UnregisterResponder(s)
  PROVE  PoolConsistent'
<1>1. NoneBound /\ activeByRes'[s] = None
  <2>1. CASE activeByRes[s] = None
    BY <2>1 DEF UnregisterResponder, NoneBound
  <2>2. CASE activeByRes[s] # None
    <3>1. PICK r \in Requests : r = activeByRes[s]
      BY <2>2 DEF TypeOK
    <3>2. req[r].status \in Held /\ req[r].responder = s
      BY <3>1 DEF OneAssignment
    <3>3. endAssignment(r)
      BY <3>1, <3>2, RequestsAssumption
         DEF UnregisterResponder, isTerminal, Terminal, Completed, Held
    <3> QED BY <3>2, <3>3, TransitionsRelease
  <2> QED BY <2>1, <2>2
<1>2. available \in Seq(Sessions) /\ available' = RemoveValue(available, s)
      /\ registered' = registered \ {s}
  BY DEF TypeOK, UnregisterResponder
<1>3. /\ NoRepeat(available)
      /\ \A z \in ToSet(available) : z \in registered /\ activeByRes[z] = None
      /\ \A z \in Sessions : activeByRes[z] # None => z \in registered
  BY PoolElems
<1>4. NoRepeat(available') /\ ToSet(available') = ToSet(available) \ {s}
  BY <1>2, <1>3, RemoveValueFacts
<1>5. \A z \in ToSet(available) : z \in Sessions
  BY <1>2 DEF ToSet
<1>6. /\ \A z \in ToSet(available') : z \in registered' /\ activeByRes'[z] = None
      /\ \A z \in Sessions : activeByRes'[z] # None => z \in registered'
  BY <1>1, <1>2, <1>3, <1>4, <1>5 DEF NoneBound
<1> QED BY <1>4, <1>6 DEF PoolConsistent, NoRepeat, ToSet

\* MarkResponderAvailable and ResumeResponder offer a session once.
LEMMA AvailablePool ==
  ASSUME TypeOK, PoolConsistent, NEW s \in Sessions, s \in registered,
         activeByRes[s] = None, becomeAvailable(s),
         UNCHANGED <<registered, activeByRes>>
  PROVE  PoolConsistent'
<1>1. /\ NoRepeat(available) /\ available \in Seq(Sessions)
      /\ \A z \in ToSet(available) : z \in registered /\ activeByRes[z] = None
      /\ \A z \in Sessions : activeByRes[z] # None => z \in registered
  BY PoolElems DEF TypeOK
<1>2. NoRepeat(available') /\ ToSet(available') \subseteq ToSet(available) \cup {s}
  <2>1. CASE s \in ToSet(available)
    BY <1>1, <2>1 DEF becomeAvailable
  <2>2. CASE s \notin ToSet(available)
    BY <1>1, <2>2, AppendFacts DEF becomeAvailable
  <2> QED BY <2>1, <2>2
<1>3. \A z \in ToSet(available') : z \in registered' /\ activeByRes'[z] = None
  BY <1>1, <1>2
<1> QED BY <1>1, <1>2, <1>3 DEF PoolConsistent, NoRepeat, ToSet

\* One iteration of tryAssignLocked takes the session out of the pool.
LEMMA AssignPool ==
  ASSUME TypeOK, PoolConsistent, NEW i \in DOMAIN queue, NEW j \in DOMAIN available,
         AssignPair(i, j)
  PROVE  PoolConsistent'
<1>1. PICK s \in Sessions : s = available[j]
  BY DEF TypeOK
<1>2. /\ NoRepeat(available) /\ available \in Seq(Sessions)
      /\ \A z \in ToSet(available) : z \in registered /\ activeByRes[z] = None
      /\ \A z \in Sessions : activeByRes[z] # None => z \in registered
  BY PoolElems DEF TypeOK
<1>3. /\ available' = RemoveIndex(available, j) /\ registered' = registered
      /\ \A z \in Sessions \ {s} : activeByRes'[z] = activeByRes[z]
  BY <1>1 DEF AssignPair, TypeOK
<1>4. NoRepeat(available') /\ ToSet(available') = ToSet(available) \ {s}
  BY <1>1, <1>2, <1>3, RemoveIndexFacts
<1>5. /\ \A z \in ToSet(available) : z \in Sessions
      /\ s \in ToSet(available)
  BY <1>1, <1>2 DEF ToSet
<1>6. /\ \A z \in ToSet(available') : z \in registered' /\ activeByRes'[z] = None
      /\ \A z \in Sessions : activeByRes'[z] # None => z \in registered'
  BY <1>2, <1>3, <1>4, <1>5
<1> QED BY <1>4, <1>6 DEF PoolConsistent, NoRepeat, ToSet

-----------------------------------------------------------------------------
(* The inductive invariant *)

\* None of its parts is inductive alone: matching needs QueueExact to know that
\* an entry is unassigned and PoolConsistent to know that a session is idle;
\* settling points needs HoldUntilFirstFragment, which ties fragments, status
\* and charge together; a disconnect needs OneAssignment to find what it ends.
Inv == TypeOK /\ Life /\ PoolConsistent

\* The service starts without requests and responders.
LEMMA InitInv == Init => Inv
<1> SUFFICES ASSUME Init PROVE Inv
  OBVIOUS
<1>1. TypeOK
  BY InitType
<1>2. \A r \in Requests :
        /\ req[r].status = "absent" /\ req[r].responder = None /\ req[r].frozen = 0
        /\ ~req[r].charged /\ req[r].reaction = "none" /\ fragments[r] = <<>>
  <2>1. \A r \in Requests : req[r] = AbsentRequest
    BY DEF Init
  <2>2. \A r \in Requests : fragments[r] = <<>>
    BY DEF Init
  <2>3. /\ AbsentRequest.status = "absent" /\ AbsentRequest.responder = None
        /\ AbsentRequest.frozen = 0 /\ ~AbsentRequest.charged
        /\ AbsentRequest.reaction = "none"
    BY DEF AbsentRequest
  <2> QED BY <2>1, <2>2, <2>3
<1>3. OneAssignment
  <2>1. \A s \in Responders : activeByRes[s] = None
    BY DEF Init
  <2> QED BY <1>2, <2>1, RequestsAssumption DEF OneAssignment, Held, Completed
<1>4. QueueExact /\ PoolConsistent
  <2>1. queue = <<>> /\ available = <<>> /\ \A s \in Sessions : activeByRes[s] = None
    BY DEF Init
  <2>2. DOMAIN queue = {} /\ DOMAIN available = {}
    BY <2>1
  <2>3. QueueExact
    BY <1>2, <2>2 DEF QueueExact
  <2> QED BY <2>1, <2>2, <2>3 DEF PoolConsistent
<1>5. ASSUME NEW r \in Requests PROVE PerRequest(r)
  <2>1. HoldsUntilFirstFragment(r)
    BY <1>2 DEF HoldsUntilFirstFragment, Completed
  <2>2. HasSingleAuthor(r)
    <3>1. DOMAIN fragments[r] = {}
      BY <1>2
    <3> QED BY <3>1 DEF HasSingleAuthor
  <2>3. RespectsConsent(r)
    BY <1>2 DEF RespectsConsent
  <2>4. LedgerOf(r)
    <3>1. \A u \in Users, k \in LedgerKinds : ledger[<<u, r, k>>] = 0
      BY DEF Init
    <3> QED BY <1>2, <3>1 DEF LedgerOf, Completed, LedgerKinds
  <2> QED BY <2>1, <2>2, <2>3, <2>4 DEF PerRequest
<1> QED BY <1>1, <1>3, <1>4, <1>5 DEF Inv, Life, PerRequest, HoldUntilFirstFragment,
           SingleAuthor, ConsentRespected, LedgerExact

\* A held request is streaming exactly when it has a committed fragment, and a
\* request that is neither new nor ended and has none is queued or assigned.
LEMMA StatusFacts ==
  ASSUME TypeOK, Life, NEW r \in Requests
  PROVE  /\ req[r].status = "assigned" =>
              req[r].status \in Held /\ fragments[r] = <<>>
         /\ req[r].status \in Held /\ fragments[r] = <<>> => req[r].status = "assigned"
         /\ req[r].status \in Held /\ fragments[r] # <<>> => req[r].status = "streaming"
         /\ req[r].status \notin {"absent"} \cup Terminal /\ fragments[r] = <<>> =>
              req[r].status \in {"queued", "assigned"}
<1>1. req[r] \in RequestType /\ HoldsUntilFirstFragment(r)
  BY DEF TypeOK, Life, HoldUntilFirstFragment
<1> QED BY <1>1 DEF HoldsUntilFirstFragment, Held, Completed, Terminal, RequestType

\* The operations of requesters.
LEMMA RequesterInv == Inv /\ RequesterNext => Life' /\ PoolConsistent'
<1> SUFFICES ASSUME Inv, RequesterNext PROVE Life' /\ PoolConsistent'
  OBVIOUS
<1>1. TypeOK /\ Life /\ OneAssignment /\ PoolConsistent
  BY DEF Inv, Life
<1>2. ASSUME NEW s \in Sessions, NEW r \in Requests, NEW allow, NEW pref, NEW max,
             createRequest(s, r, allow, pref, max)
      PROVE  Life' /\ PoolConsistent'
  <2>1. Life'
    BY <1>1, <1>2, CreateLife
  <2>2. NoneBound /\ UNCHANGED <<available, registered>>
    BY <1>2 DEF createRequest, NoneBound
  <2> QED BY <1>1, <2>1, <2>2, PoolKept
<1>3. ASSUME NEW r \in Requests, CancelBeforeFirstFragment(r)
      PROVE  Life' /\ PoolConsistent'
  <2>1. /\ req[r].status \in {"queued", "assigned"} /\ abandonLocked(r)
        /\ UNCHANGED <<fragments, available, registered>>
    BY <1>1, <1>3, StatusFacts DEF CancelBeforeFirstFragment
  <2>2. Life'
    BY <1>1, <2>1, GiveBackLife
  <2>3. NoneBound
    BY <1>1, <2>1, TransitionsRelease
  <2> QED BY <1>1, <2>1, <2>2, <2>3, PoolKept
<1>4. ASSUME NEW s \in Sessions, NEW r \in Requests, NEW reaction \in Reactions,
             React(s, r, reaction)
      PROVE  Life' /\ PoolConsistent'
  <2>1. Life'
    BY <1>1, <1>4, ReactLife
  <2>2. NoneBound /\ UNCHANGED <<available, registered>>
    BY <1>4 DEF React, NoneBound
  <2> QED BY <1>1, <2>1, <2>2, PoolKept
<1>5. People \subseteq Sessions /\ PersonaAskers \subseteq Sessions
  BY SessionsAssumption DEF People
<1> QED BY <1>2, <1>3, <1>4, <1>5, LimitsAssumption
        DEF RequesterNext, CreateRequest, CreateTargetedRequest

\* The operations of responders.
LEMMA ResponderInv == Inv /\ ResponderNext => Life' /\ PoolConsistent'
<1> SUFFICES ASSUME Inv, ResponderNext PROVE Life' /\ PoolConsistent'
  OBVIOUS
<1>1. TypeOK /\ Life /\ OneAssignment /\ PoolConsistent
  BY DEF Inv, Life
<1>2. ASSUME NEW s \in Sessions, RegisterResponder(s)
      PROVE  Life' /\ PoolConsistent'
  <2>1. Life'
    BY <1>1, <1>2, LifeUnchanged DEF RegisterResponder
  <2>2. PoolConsistent'
    BY <1>1, <1>2 DEF RegisterResponder, PoolConsistent
  <2> QED BY <2>1, <2>2
<1>3. ASSUME NEW s \in Sessions, UnregisterResponder(s)
      PROVE  Life' /\ PoolConsistent'
  <2>1. CASE UNCHANGED <<req, queue, activeByRes, ledger>>
    <3>1. fragments' = fragments
      BY <1>3 DEF UnregisterResponder
    <3> QED BY <1>1, <1>3, <2>1, <3>1, LifeUnchanged, UnregisterPool
  <2>2. CASE activeByRes[s] # None /\ endAssignment(activeByRes[s])
    <3>1. PICK r \in Requests : r = activeByRes[s]
      BY <1>1, <2>2 DEF TypeOK
    <3>2. req[r].status \in Held /\ endAssignment(r) /\ fragments' = fragments
      BY <1>1, <1>3, <2>2, <3>1 DEF OneAssignment, UnregisterResponder
    <3> QED BY <1>1, <1>3, <3>2, EndAssignmentLife, UnregisterPool
  <2> QED BY <1>3, <2>1, <2>2 DEF UnregisterResponder
<1>4. ASSUME NEW s \in Sessions, NEW accept, MarkResponderAvailable(s, accept)
      PROVE  Life' /\ PoolConsistent'
  <2>1. Life'
    BY <1>1, <1>4, LifeUnchanged DEF MarkResponderAvailable
  <2>2. CASE activeByRes[s] # None
    <3>1. NoneBound /\ UNCHANGED <<available, registered>>
      BY <1>4, <2>2 DEF MarkResponderAvailable, NoneBound
    <3> QED BY <1>1, <2>1, <3>1, PoolKept
  <2>3. CASE activeByRes[s] = None
    BY <1>1, <1>4, <2>1, <2>3, AvailablePool DEF MarkResponderAvailable
  <2> QED BY <2>2, <2>3
<1>5. ASSUME NEW s \in Sessions, ResumeResponder(s)
      PROVE  Life' /\ PoolConsistent'
  <2>1. Life'
    BY <1>1, <1>5, LifeUnchanged DEF ResumeResponder
  <2> QED BY <1>1, <1>5, <2>1, AvailablePool DEF ResumeResponder
<1>6. ASSUME NEW s \in Sessions, Receive(s)
      PROVE  Life' /\ PoolConsistent'
  <2>1. Life'
    BY <1>1, <1>6, LifeUnchanged DEF Receive
  <2>2. NoneBound /\ UNCHANGED <<available, registered>>
    BY <1>6 DEF Receive, NoneBound
  <2> QED BY <1>1, <2>1, <2>2, PoolKept
<1>7. ASSUME NEW r \in Requests, ~ByPersona(r), AcquireFallbackAssignment(r)
      PROVE  Life' /\ PoolConsistent'
  <2>1. Life'
    BY <1>1, <1>7, AcquireLife
  <2>2. FallbackSession(r) \notin Sessions
    BY SessionsAssumption DEF FallbackSessions
  <2>3. NoneBound /\ UNCHANGED <<available, registered>>
    BY <1>1, <1>7, <2>2 DEF AcquireFallbackAssignment, NoneBound, TypeOK
  <2> QED BY <1>1, <2>1, <2>3, PoolKept
<1>8. ASSUME NEW s \in Responders, NEW q \in ClientSeqs, NEW n \in FragmentSizes,
             SubmitFragment(s, q, n)
      PROVE  Life' /\ PoolConsistent'
  <2>1. PICK r \in Requests : r = activeByRes[s]
    BY <1>1, <1>8 DEF SubmitFragment, TypeOK
  <2>2. Life'
    BY <1>1, <1>8, <2>1, SubmitLife
  <2>3. UNCHANGED <<available, registered>> /\ activeByRes' \in {activeByRes, Release(s)}
    BY <1>8 DEF SubmitFragment
  <2>4. NoneBound
    BY <1>1, <2>3 DEF NoneBound, Release, TypeOK
  <2> QED BY <1>1, <2>2, <2>3, <2>4, PoolKept
<1>9. ASSUME NEW s \in Responders, activeByRes[s] # None
      PROVE  activeByRes[s] \in Requests /\ req[activeByRes[s]].status \in Held
  BY <1>1, <1>9 DEF TypeOK, OneAssignment
<1>10. ASSUME NEW s \in Responders, Finish(s)
       PROVE  Life' /\ PoolConsistent'
  <2>1. PICK r \in Requests : r = activeByRes[s]
    BY <1>9, <1>10 DEF Finish
  <2>2. /\ completeLocked(r, "stop") /\ req[r].status \in Held /\ fragments[r] # <<>>
        /\ UNCHANGED <<fragments, available, registered>>
    BY <1>9, <1>10, <2>1 DEF Finish
  <2>3. Life'
    BY <1>1, <2>2, StatusFacts, CompleteLife
  <2>4. NoneBound
    BY <1>1, <2>2, TransitionsRelease
  <2> QED BY <1>1, <2>2, <2>3, <2>4, PoolKept
<1>11. ASSUME NEW s \in Responders, Skip(s)
       PROVE  Life' /\ PoolConsistent'
  <2>1. PICK r \in Requests : r = activeByRes[s]
    BY <1>9, <1>11 DEF Skip
  <2>2. /\ abandonLocked(r) \/ requeueLocked(r)
        /\ req[r].status \in Held /\ fragments[r] = <<>>
        /\ UNCHANGED <<fragments, available, registered>>
    BY <1>9, <1>11, <2>1 DEF Skip
  <2>3. Life'
    BY <1>1, <2>2, StatusFacts, GiveBackLife
  <2>4. NoneBound
    BY <1>1, <2>2, TransitionsRelease
  <2> QED BY <1>1, <2>2, <2>3, <2>4, PoolKept
<1>12. Answerers \subseteq Sessions
  BY SessionsAssumption
<1> QED BY <1>2, <1>3, <1>4, <1>5, <1>6, <1>7, <1>8, <1>10, <1>11, <1>12
        DEF ResponderNext, Connected, Answering

\* The loops under the lock and the passage of time.
LEMMA LoopInv ==
  Inv /\ (tryAssignStep \/ tryAssignReturn
          \/ \E r \in Requests : Elapse(r) \/ SweepTimeouts(r))
    => Life' /\ PoolConsistent'
<1>1. Inv => TypeOK /\ Life /\ OneAssignment /\ PoolConsistent
  BY DEF Inv, Life
<1>2. ASSUME Inv, tryAssignStep PROVE Life' /\ PoolConsistent'
  <2>1. PICK i \in DOMAIN queue, j \in DOMAIN available :
          CompatibleAt(i, j) /\ AssignPair(i, j)
    BY <1>2 DEF tryAssignStep, FirstPair
  <2>2. PICK r \in Requests, s \in Sessions : r = queue[i] /\ s = available[j]
    BY <1>1, <1>2 DEF TypeOK
  <2>3. Life'
    BY <1>1, <1>2, <2>1, <2>2, AssignLife
  <2> QED BY <1>1, <1>2, <2>1, <2>3, AssignPool
<1>3. ASSUME Inv, tryAssignReturn PROVE Life' /\ PoolConsistent'
  <2>1. NoneBound /\ UNCHANGED <<available, registered>>
    BY <1>3 DEF tryAssignReturn, NoneBound
  <2>2. Life'
    BY <1>1, <1>3, LifeUnchanged DEF tryAssignReturn
  <2> QED BY <1>1, <1>3, <2>1, <2>2, PoolKept
<1>4. ASSUME Inv, NEW r \in Requests, Elapse(r) PROVE Life' /\ PoolConsistent'
  <2>1. NoneBound /\ UNCHANGED <<available, registered>>
    BY <1>4 DEF Elapse, NoneBound
  <2>2. Life'
    BY <1>1, <1>4, LifeUnchanged DEF Elapse
  <2> QED BY <1>1, <1>4, <2>1, <2>2, PoolKept
<1>5. ASSUME Inv, NEW r \in Requests, SweepTimeouts(r)
      PROVE  Life' /\ PoolConsistent'
  <2>1. /\ req[r].status \in Held /\ endAssignment(r)
        /\ UNCHANGED <<fragments, available, registered>>
    BY <1>5 DEF SweepTimeouts, TimedOut, Held
  <2>2. Life'
    BY <1>1, <1>5, <2>1, EndAssignmentLife
  <2>3. NoneBound
    BY <1>1, <1>5, <2>1, TransitionsRelease
  <2> QED BY <1>1, <1>5, <2>1, <2>2, <2>3, PoolKept
<1> QED BY <1>2, <1>3, <1>4, <1>5

\* Every step of the service keeps the invariant.
LEMMA NextInv == Inv /\ [Next]_vars => Inv'
<1>1. Inv /\ UNCHANGED vars => Inv'
  <2> SUFFICES ASSUME Inv, UNCHANGED vars PROVE Inv'
    OBVIOUS
  <2>1. TypeOK'
    BY DEF Inv, TypeOK, vars
  <2>2. Life'
    BY LifeUnchanged DEF Inv, vars
  <2>3. PoolConsistent'
    BY DEF Inv, PoolConsistent, vars
  <2> QED BY <2>1, <2>2, <2>3 DEF Inv
<1>2. Inv /\ Next => Inv'
  BY RequesterType, ResponderType, LoopType, RequesterInv, ResponderInv, LoopInv
     DEF Next, Inv
<1> QED BY <1>1, <1>2

\* The invariant holds in every reachable state.
THEOREM Invariance == Spec => []Inv
BY InitInv, NextInv, PTL DEF Spec

\* At every moment a session answers at most one request and a request is answered
\* by at most one session, however creations, disconnects, skips, timeouts and the
\* fallback interleave: activeByRes and the requests agree (tryAssignLocked,
\* AcquireFallbackAssignment, requeueLocked, abandonLocked, completeLocked).
THEOREM OneAssignmentHolds == Spec => []OneAssignment
<1>1. Inv => OneAssignment
  BY DEF Inv, Life
<1> QED BY <1>1, Invariance, PTL

\* The queue holds each queued request once and nothing else: no request is lost
\* by a requeue and none is handed out twice (compatiblePairLocked).
THEOREM QueueExactHolds == Spec => []QueueExact
<1>1. Inv => QueueExact
  BY DEF Inv, Life
<1> QED BY <1>1, Invariance, PTL

\* Only connected, idle sessions are offered for matching, each once, and only
\* connected sessions hold assignments (UnregisterResponder).
THEOREM PoolConsistentHolds == Spec => []PoolConsistent
<1>1. Inv => PoolConsistent
  BY DEF Inv
<1> QED BY <1>1, Invariance, PTL

\* Every answer comes from a session the requester consented to.
THEOREM ConsentHolds == Spec => []ConsentRespected
<1>1. Inv => ConsentRespected
  BY DEF Inv, Life
<1> QED BY <1>1, Invariance, PTL

\* An answer has one author, and no client_seq contributes to it twice.
THEOREM SingleAuthorHolds == Spec => []SingleAuthor
<1>1. Inv => SingleAuthor
  BY DEF Inv, Life
<1> QED BY <1>1, Invariance, PTL

\* Points are held until the first fragment or abandonment, and never both held
\* and charged (SubmitFragment, abandonLocked).
THEOREM HoldHolds == Spec => []HoldUntilFirstFragment
<1>1. Inv => HoldUntilFirstFragment
  BY DEF Inv, Life
<1> QED BY <1>1, Invariance, PTL

\* A request is charged once, its answer rewarded once, and the adjustments of
\* any sequence of reactions add up to the latest one (SubmitFragment,
\* completeLocked, React).
THEOREM LedgerHolds == Spec => []LedgerExact
<1>1. Inv => LedgerExact
  BY DEF Inv, Life
<1> QED BY <1>1, Invariance, PTL

-----------------------------------------------------------------------------
(* What a step may do to a request *)

\* Request x is not touched.
Untouched(x) == req'[x] = req[x] /\ fragments'[x] = fragments[x]

\* What is asked, and of whom, does not change.
SameQuestion(q, p) ==
  /\ q.asker = p.asker /\ q.allowAI = p.allowAI /\ q.preferred = p.preferred
  /\ q.limit = p.limit

\* It is created, alone, for a caller who can pay for it.
Opens(x) ==
  /\ req'[x].status = "queued" /\ req'[x].limit > 0 /\ req'[x].finish = ""
  /\ req'[x].asker \in Sessions
  /\ UserOf[req'[x].asker] # NoUser =>
       AvailablePoints(UserOf[req'[x].asker]) >= QuestionCost
  /\ \A y \in Requests \ {x} : Untouched(y)

\* Without text, it is created, handed out, taken back or given up.
Waits(x) ==
  /\ fragments[x] = <<>> /\ fragments'[x] = <<>>
  /\ req[x].status \in {"absent", "queued", "assigned"}
  /\ req'[x].status \in {"queued", "assigned", "abandoned"}
  /\ IF req[x].status = "absent" THEN Opens(x)
       ELSE /\ SameQuestion(req'[x], req[x]) /\ req'[x].finish = req[x].finish
            /\ req'[x].status = "queued" =>
                 req[x].status = "queued" \/ req[x].preferred = None

\* Its responder commits a fragment.
Commits(x) ==
  /\ req[x].status \in Held /\ req'[x].status \in {"streaming", "completed"}
  /\ req'[x].responder = req[x].responder
  /\ SameQuestion(req'[x], req[x])
  /\ AnswerLen(fragments'[x]) <= req[x].limit
  /\ IF AnswerLen(fragments'[x]) >= req[x].limit
       THEN req'[x].status = "completed" /\ req'[x].finish = "length"
       ELSE req'[x].status = "streaming" /\ req'[x].finish = req[x].finish
  /\ \E f \in FragmentType : /\ f.from = req[x].responder
                             /\ fragments'[x] = Append(fragments[x], f)

\* Its answer ends.
Ends(x) ==
  /\ req[x].status = "streaming" /\ req'[x].status \in Completed
  /\ req'[x].responder = req[x].responder /\ fragments'[x] = fragments[x]
  /\ SameQuestion(req'[x], req[x]) /\ req'[x].finish \in {"stop", "partial"}

\* Its answer is reacted to.
Reacts(x) ==
  /\ req[x].status \in Completed /\ fragments'[x] = fragments[x]
  /\ req'[x] = [req[x] EXCEPT !.reaction = req'[x].reaction]

Moves(x) == Untouched(x) \/ Waits(x) \/ Commits(x) \/ Ends(x) \/ Reacts(x)
AllMove == \A x \in Requests : Moves(x)

\* Requests without text that are given back or given up.
LEMMA GiveBackMoves ==
  ASSUME TypeOK, Life, NEW r \in Requests, UNCHANGED fragments, fragments[r] = <<>>,
         req[r].status \in {"queued", "assigned"},
         (requeueLocked(r) /\ req[r].preferred = None) \/ abandonLocked(r)
  PROVE  AllMove
<1>1. /\ \A x \in Requests \ {r} : req'[x] = req[x]
      /\ \/ req'[r] = Requeued(req[r]) /\ req[r].preferred = None
         \/ req'[r] = Abandoned(req[r])
  BY DEF requeueLocked, abandonLocked, TypeOK
<1>2. req[r] \in RequestType
  BY DEF TypeOK
<1>3. /\ req'[r].status \in {"queued", "abandoned"}
      /\ req'[r].status = "queued" => req[r].preferred = None
      /\ SameQuestion(req'[r], req[r]) /\ req'[r].finish = req[r].finish
  BY <1>1, <1>2 DEF Requeued, Abandoned, RequestType, SameQuestion
<1> QED BY <1>1, <1>3 DEF AllMove, Moves, Untouched, Waits

\* An answer with text that is closed.
LEMMA CompleteMoves ==
  ASSUME TypeOK, NEW r \in Requests, UNCHANGED fragments,
         req[r].status = "streaming", NEW reason \in {"stop", "partial"},
         completeLocked(r, reason)
  PROVE  AllMove
<1>1. /\ \A x \in Requests \ {r} : req'[x] = req[x] /\ req'[r] = Finished(req[r], reason)
      /\ req'[r] = Finished(req[r], reason)
  BY DEF completeLocked, TypeOK
<1>2. req[r] \in RequestType
  BY DEF TypeOK
<1>3. /\ req'[r].status \in Completed /\ req'[r].responder = req[r].responder
      /\ SameQuestion(req'[r], req[r]) /\ req'[r].finish = reason
  BY <1>1, <1>2 DEF Finished, RequestType, Completed, SameQuestion
<1> QED BY <1>1, <1>3 DEF AllMove, Moves, Untouched, Ends

\* A disconnect or a timeout, of a request that somebody holds.
LEMMA EndAssignmentMoves ==
  ASSUME TypeOK, Life, NEW r \in Requests, UNCHANGED fragments,
         req[r].status \in Held, endAssignment(r)
  PROVE  AllMove
<1>1. CASE fragments[r] = <<>>
  <2>1. /\ req[r].status = "assigned"
        /\ (requeueLocked(r) /\ req[r].preferred = None) \/ abandonLocked(r)
    BY <1>1, StatusFacts DEF endAssignment, giveBackLocked
  <2> QED BY <1>1, <2>1, GiveBackMoves
<1>2. CASE fragments[r] # <<>>
  <2>1. req[r].status = "streaming" /\ completeLocked(r, "partial")
    BY <1>2, StatusFacts DEF endAssignment
  <2> QED BY <2>1, CompleteMoves
<1> QED BY <1>1, <1>2

\* A fragment is committed to the answer of the session that sends it.
LEMMA SubmitMoves ==
  ASSUME TypeOK, Life, NEW s \in Responders, NEW q \in ClientSeqs,
         NEW n \in FragmentSizes, SubmitFragment(s, q, n)
  PROVE  AllMove
<1>1. PICK r \in Requests : r = activeByRes[s]
  BY DEF SubmitFragment, TypeOK
<1>2. PICK f : f = [from |-> s, seq |-> q, size |-> n]
  OBVIOUS
<1>3. f \in FragmentType /\ f.from = s
  BY <1>2 DEF FragmentType
<1>4. /\ req[r].status \in Held /\ req[r].responder = s /\ req[r] \in RequestType
  BY <1>1 DEF Life, OneAssignment, TypeOK
<1>5. PICK frags : frags = Append(fragments[r], f)
  OBVIOUS
<1>6. /\ fragments' = [fragments EXCEPT ![r] = frags]
      /\ AnswerLen(frags) <= req[r].limit
      /\ \/ /\ ~(AnswerLen(frags) >= req[r].limit)
            /\ req' = [req EXCEPT ![r] = Streaming(req[r])]
         \/ /\ AnswerLen(frags) >= req[r].limit
            /\ req' = [req EXCEPT ![r] = Finished(Streaming(req[r]), "length")]
  BY <1>1, <1>2, <1>5 DEF SubmitFragment, LimitReached
<1>7. /\ fragments'[r] = frags /\ AnswerLen(frags) <= req[r].limit
      /\ \A x \in Requests \ {r} : req'[x] = req[x] /\ fragments'[x] = fragments[x]
      /\ req'[r] = IF AnswerLen(frags) >= req[r].limit
                     THEN Finished(Streaming(req[r]), "length") ELSE Streaming(req[r])
  BY <1>6 DEF TypeOK
<1>8. Commits(r)
  <2>1. CASE AnswerLen(frags) >= req[r].limit
    <3>1. /\ req'[r].status = "completed" /\ req'[r].finish = "length"
          /\ req'[r].responder = req[r].responder /\ SameQuestion(req'[r], req[r])
      BY <1>4, <1>7, <2>1, ZenonT(40) DEF Streaming, Finished, RequestType, SameQuestion
    <3> QED BY <1>3, <1>4, <1>5, <1>7, <2>1, <3>1 DEF Commits
  <2>2. CASE ~(AnswerLen(frags) >= req[r].limit)
    <3>1. /\ req'[r].status = "streaming" /\ req'[r].finish = req[r].finish
          /\ req'[r].responder = req[r].responder /\ SameQuestion(req'[r], req[r])
      BY <1>4, <1>7, <2>2, ZenonT(40) DEF Streaming, RequestType, SameQuestion
    <3> QED BY <1>3, <1>4, <1>5, <1>7, <2>2, <3>1 DEF Commits
  <2> QED BY <2>1, <2>2
<1> QED BY <1>7, <1>8 DEF AllMove, Moves, Untouched

\* Every step moves every request in one of these ways, or not at all.
LEMMA NextMoves ==
  ASSUME Inv, [Next]_vars
  PROVE  AllMove
<1>1. TypeOK /\ Life /\ OneAssignment
  BY DEF Inv, Life
<1>2. ASSUME UNCHANGED <<req, fragments>> PROVE AllMove
  BY <1>2 DEF AllMove, Moves, Untouched
<1>3. \A x \in Requests : req[x].status \in {"absent", "queued", "assigned"} =>
        fragments[x] = <<>>
  BY <1>1 DEF Life, HoldUntilFirstFragment, HoldsUntilFirstFragment, Completed
<1>4. ASSUME NEW s \in Sessions, NEW r \in Requests, NEW allow, NEW pref,
             NEW max \in OutputLimits, createRequest(s, r, allow, pref, max)
      PROVE  AllMove
  <2>1. /\ req[r].status = "absent" /\ fragments' = fragments
        /\ req'[r].status = "queued" /\ \A x \in Requests \ {r} : req'[x] = req[x]
        /\ req'[r].finish = "" /\ req'[r].asker = s
        /\ req'[r].limit = IF max <= 0 \/ max > OutputLimitChars
                             THEN OutputLimitChars ELSE max
    BY <1>1, <1>4 DEF createRequest, AbsentRequest, TypeOK
  <2>2. req'[r].limit > 0
    <3>1. OutputLimitChars \in Int /\ OutputLimitChars > 0 /\ max \in Int
      BY LimitsAssumption
    <3>2. (IF max <= 0 \/ max > OutputLimitChars THEN OutputLimitChars ELSE max) > 0
      BY <3>1
    <3> QED BY <2>1, <3>2
  <2>3. UserOf[s] # NoUser => AvailablePoints(UserOf[s]) >= QuestionCost
    BY <1>4 DEF createRequest
  <2>4. \A x \in Requests \ {r} : Untouched(x)
    BY <2>1 DEF Untouched
  <2>5. Waits(r)
    BY <1>3, <2>1, <2>2, <2>3, <2>4 DEF Waits, Opens
  <2> QED BY <2>4, <2>5 DEF AllMove, Moves
<1>5. ASSUME NEW r \in Requests, CancelBeforeFirstFragment(r) PROVE AllMove
  BY <1>1, <1>5, StatusFacts, GiveBackMoves DEF CancelBeforeFirstFragment
<1>6. ASSUME NEW s \in Sessions, NEW r \in Requests, NEW reaction, React(s, r, reaction)
      PROVE  AllMove
  <2>1. /\ req[r].status \in Completed /\ fragments' = fragments
        /\ \A x \in Requests \ {r} : req'[x] = req[x]
        /\ req'[r] = [req[r] EXCEPT !.reaction = reaction]
    BY <1>1, <1>6 DEF React, TypeOK
  <2>2. req'[r] = [req[r] EXCEPT !.reaction = req'[r].reaction]
    BY <1>1, <2>1 DEF TypeOK, RequestType
  <2> QED BY <2>1, <2>2 DEF AllMove, Moves, Untouched, Reacts
<1>7. ASSUME NEW s \in Sessions, Connected(s) PROVE AllMove
  <2>1. CASE UNCHANGED <<req, fragments>>
    BY <1>2, <2>1
  <2>2. CASE UnregisterResponder(s) /\ activeByRes[s] # None /\ endAssignment(activeByRes[s])
    <3>1. PICK r \in Requests : r = activeByRes[s]
      BY <1>1, <2>2 DEF TypeOK
    <3>2. req[r].status \in Held /\ endAssignment(r) /\ fragments' = fragments
      BY <1>1, <2>2, <3>1 DEF OneAssignment, UnregisterResponder
    <3> QED BY <1>1, <3>2, EndAssignmentMoves
  <2> QED BY <1>7, <2>1, <2>2
          DEF Connected, RegisterResponder, UnregisterResponder, MarkResponderAvailable,
              ResumeResponder, Receive
<1>8. ASSUME NEW r \in Requests, AcquireFallbackAssignment(r) PROVE AllMove
  <2>1. /\ req[r].status = "queued" /\ fragments' = fragments /\ fragments[r] = <<>>
        /\ \A x \in Requests \ {r} : req'[x] = req[x]
        /\ req'[r].status = "assigned" /\ req'[r].finish = req[r].finish
        /\ SameQuestion(req'[r], req[r])
    BY <1>1, <1>8, ZenonT(40) DEF AcquireFallbackAssignment, FallbackMayAcquire, TypeOK, Assigned,
                      RequestType, SameQuestion
  <2> QED BY <2>1 DEF AllMove, Moves, Untouched, Waits
<1>9. ASSUME NEW s \in Responders, Answering(s) PROVE AllMove
  <2>1. ASSUME NEW q \in ClientSeqs, NEW n \in FragmentSizes, SubmitFragment(s, q, n)
        PROVE  AllMove
    BY <1>1, <2>1, SubmitMoves
  <2>2. ASSUME activeByRes[s] # None
        PROVE  activeByRes[s] \in Requests /\ req[activeByRes[s]].status \in Held
    BY <1>1, <2>2 DEF TypeOK, OneAssignment
  <2>3. CASE Finish(s)
    <3>1. PICK r \in Requests : r = activeByRes[s]
      BY <2>2, <2>3 DEF Finish
    <3>2. /\ completeLocked(r, "stop") /\ req[r].status = "streaming"
          /\ UNCHANGED fragments
      BY <1>1, <2>2, <2>3, <3>1, StatusFacts DEF Finish
    <3> QED BY <1>1, <3>2, CompleteMoves
  <2>4. CASE Skip(s)
    <3>1. PICK r \in Requests : r = activeByRes[s]
      BY <2>2, <2>4 DEF Skip
    <3>2. /\ (requeueLocked(r) /\ req[r].preferred = None) \/ abandonLocked(r)
          /\ req[r].status = "assigned" /\ fragments[r] = <<>> /\ UNCHANGED fragments
      BY <1>1, <2>2, <2>4, <3>1, StatusFacts DEF Skip
    <3> QED BY <1>1, <3>2, GiveBackMoves
  <2> QED BY <1>9, <2>1, <2>3, <2>4 DEF Answering
<1>10. CASE tryAssignStep
  <2>1. PICK i \in DOMAIN queue, j \in DOMAIN available : AssignPair(i, j)
    BY <1>10 DEF tryAssignStep
  <2>2. PICK r \in Requests, s \in Sessions : r = queue[i] /\ s = available[j]
    BY <1>1, <2>1 DEF TypeOK
  <2>3. req[r].status = "queued" /\ req[r] \in RequestType
    BY <1>1, <2>1, <2>2 DEF Life, QueueExact, TypeOK
  <2>4. /\ fragments' = fragments /\ \A x \in Requests \ {r} : req'[x] = req[x]
        /\ req'[r] \in {Assigned(req[r], s), Requeued(req[r])}
    BY <1>1, <2>1, <2>2 DEF AssignPair, TypeOK
  <2>5. /\ req'[r].status \in {"assigned", "queued"} /\ req'[r].finish = req[r].finish
        /\ SameQuestion(req'[r], req[r])
    BY <2>3, <2>4 DEF Assigned, Requeued, RequestType, SameQuestion
  <2> QED BY <1>3, <2>3, <2>4, <2>5 DEF AllMove, Moves, Untouched, Waits
<1>11. ASSUME NEW r \in Requests, SweepTimeouts(r) PROVE AllMove
  <2>1. req[r].status \in Held /\ endAssignment(r) /\ UNCHANGED fragments
    BY <1>11 DEF SweepTimeouts, TimedOut, Held
  <2> QED BY <1>1, <2>1, EndAssignmentMoves
<1>12. ASSUME NEW r \in Requests, Elapse(r) PROVE AllMove
  BY <1>2, <1>12 DEF Elapse
<1>13. People \subseteq Sessions /\ PersonaAskers \subseteq Sessions /\ Answerers \subseteq Sessions
  BY SessionsAssumption DEF People
<1>14. CASE RequesterNext
  BY <1>4, <1>5, <1>6, <1>13, <1>14 DEF RequesterNext, CreateRequest, CreateTargetedRequest
<1>15. CASE ResponderNext
  BY <1>7, <1>8, <1>9, <1>13, <1>15 DEF ResponderNext
<1>16. CASE tryAssignReturn \/ UNCHANGED vars
  BY <1>2, <1>16 DEF tryAssignReturn, vars
<1> QED BY <1>10, <1>11, <1>12, <1>14, <1>15, <1>16 DEF Next

\* A question that was asked stays asked, by the same session and on the same terms.
LEMMA AskedStays ==
  ASSUME Inv, NEW r \in Requests, Moves(r), req[r].status # "absent"
  PROVE  req'[r].status # "absent" /\ SameQuestion(req'[r], req[r])
<1>1. req[r] \in RequestType
  BY DEF Inv, TypeOK
<1> USE DEF Completed, Held
<1>2. CASE Reacts(r)
  BY <1>1, <1>2 DEF Reacts, RequestType, SameQuestion
<1> QED BY <1>2 DEF Moves, Untouched, Waits, Commits, Ends, SameQuestion

\* A slice and the slice with one element more.
LEMMA AppendPrefix ==
  ASSUME NEW S, NEW s \in Seq(S)
  PROVE  IsPrefix(s, s) /\ \A e \in S : IsPrefix(s, Append(s, e))
BY DEF IsPrefix

\* SPEC 4.4: committed text only grows, never changes hands and never goes back to
\* the queue, and a request that has ended changes in nothing but its reaction.
THEOREM CommittedAnswerOwnedHolds == Spec => CommittedAnswerOwned
<1> DEFINE Owned(r) ==
             /\ fragments[r] # <<>> =>
                  /\ IsPrefix(fragments[r], fragments'[r])
                  /\ req'[r].responder = req[r].responder
                  /\ req'[r].status \in {"streaming"} \cup Completed
             /\ isTerminal(req[r].status) =>
                  /\ fragments'[r] = fragments[r]
                  /\ req'[r] = [req[r] EXCEPT !.reaction = req'[r].reaction]
<1>1. ASSUME Inv, [Next]_vars, NEW r \in Requests PROVE Owned(r)
  <2>1. Moves(r)
    BY <1>1, NextMoves DEF AllMove
  <2>2. /\ req[r] \in RequestType /\ fragments[r] \in Seq(FragmentType)
        /\ fragments[r] # <<>> <=> req[r].status \in {"streaming"} \cup Completed
    BY <1>1 DEF Inv, TypeOK, Life, HoldUntilFirstFragment, HoldsUntilFirstFragment
  <2>3. IsPrefix(fragments[r], fragments[r])
        /\ \A f \in FragmentType : IsPrefix(fragments[r], Append(fragments[r], f))
    BY <2>2, AppendPrefix
  <2> USE DEF isTerminal, Terminal, Completed, Held
  <2>4. CASE Untouched(r)
    <3>1. req[r] = [req[r] EXCEPT !.reaction = req[r].reaction]
      BY <2>2 DEF RequestType
    <3> QED BY <2>2, <2>3, <2>4, <3>1 DEF Untouched
  <2>5. CASE Waits(r)
    BY <2>2, <2>5 DEF Waits
  <2>6. CASE Commits(r)
    BY <2>2, <2>3, <2>6 DEF Commits
  <2>7. CASE Ends(r)
    BY <2>2, <2>3, <2>7 DEF Ends
  <2>8. CASE Reacts(r)
    <3>1. req'[r].responder = req[r].responder /\ req'[r].status = req[r].status
      BY <2>2, <2>8 DEF Reacts, RequestType
    <3> QED BY <2>2, <2>3, <2>8, <3>1 DEF Reacts
  <2> QED BY <2>1, <2>4, <2>5, <2>6, <2>7, <2>8 DEF Moves
<1>2. Inv /\ [Next]_vars => \A r \in Requests : Owned(r)
  BY <1>1
<1>3. Inv /\ [Next]_vars => [\A r \in Requests : Owned(r)]_vars
  BY <1>2
<1> QED BY <1>3, Invariance, PTL DEF Spec, CommittedAnswerOwned

-----------------------------------------------------------------------------
(* The contract of RequestLifecycle *)

\* Who wrote the fragments of an answer, in order.
AuthorsOf(frags) == [i \in DOMAIN frags |-> frags[i].from]

\* The requests, as their askers see them.
Lifecycle ==
  INSTANCE RequestLifecycle WITH
    life <- [r \in Requests |-> [status |-> req[r].status,
                                 responder |-> req[r].responder,
                                 answer |-> AuthorsOf(fragments[r])]]

\* The authors follow the fragments.
LEMMA AuthorsFacts ==
  /\ AuthorsOf(<<>>) = <<>>
  /\ \A s \in Seq(FragmentType), f \in FragmentType :
       AuthorsOf(Append(s, f)) = Append(AuthorsOf(s), f.from)
<1>1. AuthorsOf(<<>>) = <<>>
  BY DEF AuthorsOf
<1>2. ASSUME NEW s \in Seq(FragmentType), NEW f \in FragmentType
      PROVE  AuthorsOf(Append(s, f)) = Append(AuthorsOf(s), f.from)
  <2> DEFINE a == AuthorsOf(Append(s, f))
             b == Append(AuthorsOf(s), f.from)
  <2>1. /\ AuthorsOf(s) \in Seq(Responders) /\ Len(AuthorsOf(s)) = Len(s)
        /\ Len(s) \in Nat /\ \A i \in 1..Len(s) : AuthorsOf(s)[i] = s[i].from
    <3>3. /\ DOMAIN s = 1..Len(s) /\ Len(s) \in Nat
          /\ \A i \in 1..Len(s) : s[i] \in FragmentType
      OBVIOUS
    <3>4. \A g \in FragmentType : g.from \in Responders
      BY DEF FragmentType
    <3>1. /\ DOMAIN s = 1..Len(s) /\ Len(s) \in Nat
          /\ \A i \in 1..Len(s) : s[i].from \in Responders
      BY <3>3, <3>4
    <3>2. AuthorsOf(s) = [i \in 1..Len(s) |-> s[i].from]
      BY <3>1 DEF AuthorsOf
    <3> QED BY <3>1, <3>2
  <2>2. /\ a \in Seq(Responders) /\ Len(a) = Len(s) + 1
        /\ \A i \in 1..Len(s) + 1 : a[i] = Append(s, f)[i].from
    BY <2>1 DEF AuthorsOf, FragmentType
  <2>3. f.from \in Responders
    BY DEF FragmentType
  <2>4. /\ b \in Seq(Responders) /\ Len(b) = Len(s) + 1
        /\ \A i \in 1..Len(s) : b[i] = s[i].from
        /\ b[Len(s) + 1] = f.from
    BY <2>1, <2>3
  <2>5. \A i \in 1..Len(s) + 1 : a[i] = b[i]
    BY <2>1, <2>2, <2>4
  <2> HIDE DEF a, b
  <2>6. a = b
    BY <2>1, <2>2, <2>4, <2>5
  <2> QED BY <2>6 DEF a, b
<1> QED BY <1>1, <1>2

\* A request without text is one that the contract says nothing about yet.
LEMMA UnheardRequest ==
  ASSUME TypeOK, OneAssignment, NEW r \in Requests, fragments[r] = <<>>,
         req[r].status \in {"absent", "queued", "assigned", "abandoned"}
  PROVE  [status |-> req[r].status, responder |-> req[r].responder,
          answer |-> AuthorsOf(fragments[r])] \in Lifecycle!Unheard
<1>1. AuthorsOf(fragments[r]) = <<>>
  BY AuthorsFacts DEF TypeOK
<1>2. req[r] \in RequestType
  BY DEF TypeOK
<1>3. CASE req[r].status = "assigned"
  BY <1>1, <1>3, HolderFacts DEF Held, Lifecycle!Unheard
<1>4. CASE req[r].status # "assigned"
  <2>1. req[r].responder = None
    BY <1>4 DEF OneAssignment, Held, Completed
  <2> QED BY <1>1, <1>4, <2>1 DEF Lifecycle!Unheard
<1> QED BY <1>3, <1>4

\* The in-memory service implements the contract of RequestLifecycle, as the
\* Postgres and Redis backend does: every step moves each request in a way that the
\* contract allows, or leaves it alone.
THEOREM ImplementsLifecycle == Spec => Lifecycle!Spec
<1> DEFINE Seen(r) == [status |-> req[r].status, responder |-> req[r].responder,
                       answer |-> AuthorsOf(fragments[r])]
           life == [r \in Requests |-> [status |-> req[r].status,
                                        responder |-> req[r].responder,
                                        answer |-> AuthorsOf(fragments[r])]]
<1>1. Init => Lifecycle!Init
  <2>1. AuthorsOf(<<>>) = <<>>
    BY AuthorsFacts
  <2>2. ASSUME Init, NEW r \in Requests
        PROVE  req[r].status = "absent" /\ req[r].responder = None /\ fragments[r] = <<>>
    BY <2>2 DEF Init, AbsentRequest
  <2>3. ASSUME Init, NEW r \in Requests
        PROVE  Seen(r) = [status |-> "absent", responder |-> None, answer |-> <<>>]
    BY <2>1, <2>2, <2>3
  <2> QED BY <2>3 DEF Lifecycle!Init
<1>2. ASSUME Inv, [Next]_vars, NEW r \in Requests
      PROVE  life'[r] = life[r] \/ Lifecycle!Moves(life[r], life'[r])
  <2>1. Inv' /\ Moves(r)
    BY <1>2, NextInv, NextMoves DEF AllMove
  <2>2. life[r] = Seen(r) /\ life'[r] = Seen(r)'
    OBVIOUS
  <2>3. /\ TypeOK /\ TypeOK' /\ OneAssignment /\ OneAssignment'
        /\ req[r] \in RequestType /\ fragments[r] \in Seq(FragmentType)
    BY <1>2, <2>1 DEF Inv, Life, TypeOK
  <2>4. CASE Untouched(r)
    BY <2>2, <2>4 DEF Untouched
  <2>5. CASE Waits(r)
    <3>1. Seen(r) \in Lifecycle!Unheard
      BY <2>3, <2>5, UnheardRequest DEF Waits
    <3>2. Seen(r)' \in Lifecycle!Unheard
      <4>1. fragments'[r] = <<>>
            /\ req'[r].status \in {"absent", "queued", "assigned", "abandoned"}
        BY <2>5 DEF Waits
      <4>2. AuthorsOf(fragments'[r]) = <<>>
        BY <4>1, AuthorsFacts
      <4>3. req'[r].status = "assigned" => req'[r].responder \in Responders
        <5>1. req'[r] \in RequestType
          BY <2>3 DEF TypeOK
        <5>2. req'[r].responder \in Responders \cup {None}
          BY <5>1 DEF RequestType
        <5> QED BY <2>3, <5>2 DEF OneAssignment, Held
      <4>4. req'[r].status # "assigned" => req'[r].responder = None
        BY <2>3, <4>1 DEF OneAssignment, Held, Completed
      <4> QED BY <4>1, <4>2, <4>3, <4>4 DEF Lifecycle!Unheard
    <3>3. Lifecycle!Waits(Seen(r), Seen(r)')
      BY <2>5, <3>1, <3>2 DEF Waits, Opens, Lifecycle!Waits
    <3> QED BY <2>2, <3>3 DEF Lifecycle!Moves
  <2>6. CASE Commits(r)
    <3>1. PICK f \in FragmentType : /\ f.from = req[r].responder
                                    /\ fragments'[r] = Append(fragments[r], f)
      BY <2>6 DEF Commits
    <3>2. AuthorsOf(fragments'[r]) = Append(AuthorsOf(fragments[r]), req[r].responder)
      BY <2>3, <3>1, AuthorsFacts
    <3>3. Lifecycle!Commits(Seen(r), Seen(r)')
      BY <2>6, <3>2 DEF Commits, Held, Lifecycle!Commits
    <3> QED BY <2>2, <3>3 DEF Lifecycle!Moves
  <2>7. CASE Ends(r)
    <3>1. Lifecycle!Ends(Seen(r), Seen(r)')
      BY <2>7 DEF Ends, Completed, Lifecycle!Ends, Lifecycle!Answered
    <3> QED BY <2>2, <3>1 DEF Lifecycle!Moves
  <2>8. CASE Reacts(r)
    <3>1. req'[r].status = req[r].status /\ req'[r].responder = req[r].responder
      BY <2>3, <2>8 DEF Reacts, RequestType
    <3> QED BY <2>2, <2>8, <3>1 DEF Reacts
  <2> QED BY <2>1, <2>4, <2>5, <2>6, <2>7, <2>8 DEF Moves
<1>3. Inv /\ [Next]_vars => Lifecycle!Next
  <2>1. DOMAIN life' = Requests
    OBVIOUS
  <2> HIDE DEF life
  <2>2. Inv /\ [Next]_vars =>
          \A r \in Requests : life'[r] = life[r] \/ Lifecycle!Moves(life[r], life'[r])
    BY <1>2
  <2> QED BY <2>1, <2>2 DEF Lifecycle!Next, life
<1> QED BY <1>1, <1>3, Invariance, PTL DEF Spec, Lifecycle!Spec

-----------------------------------------------------------------------------
(* Matching *)

\* Nothing that matching looks at gets better: the sessions offered were offered
\* before with the same preference, and so were the queued requests, unchanged.
NothingNew ==
  /\ \A j \in DOMAIN available' : \E l \in DOMAIN available : available[l] = available'[j]
  /\ \A i \in DOMAIN queue' : /\ \E k \in DOMAIN queue : queue[k] = queue'[i]
                              /\ req'[queue'[i]] = req[queue'[i]]
  /\ \A l \in DOMAIN available : acceptAI'[available[l]] = acceptAI[available[l]]

\* A step that brings nothing new brings no new pair.  The sessions in the pool are
\* connected and idle before it, so it cannot be their release or return that fits.
LEMMA NoNewPair ==
  ASSUME TypeOK, PoolConsistent, NothingNew, Unmatched'
  PROVE  Unmatched
<1>1. PICK i \in DOMAIN queue', j \in DOMAIN available' : CompatibleAt(i, j)'
  BY DEF Unmatched
<1>2. PICK k \in DOMAIN queue, l \in DOMAIN available :
        /\ queue[k] = queue'[i] /\ available[l] = available'[j]
        /\ req'[queue[k]] = req[queue[k]]
        /\ acceptAI'[available[l]] = acceptAI[available[l]]
  BY <1>1 DEF NothingNew
<1>3. PICK r, s : r = queue[k] /\ s = available[l]
  OBVIOUS
<1>4. s \in registered /\ activeByRes[s] = None
  BY <1>2, <1>3 DEF PoolConsistent
<1>5. /\ req'[r].status \notin Terminal \cup {"streaming"}
      /\ req'[r].preferred \in {None, s}
      /\ KindOf[s] = "ai_persona" => req'[r].allowAI
      /\ req'[r].asker # None /\ KindOf[req'[r].asker] = "ai_persona" =>
           KindOf[s] # "ai_persona" /\ acceptAI'[s]
  BY <1>1, <1>2, <1>3 DEF CompatibleAt, Compatible, ByPersona
<1>6. Compatible(r, s)
  BY <1>2, <1>3, <1>4, <1>5 DEF Compatible, ByPersona
<1> QED BY <1>2, <1>3, <1>6 DEF Unmatched, CompatibleAt

\* Matching runs at the end of every method that could make a pair: the pair of a
\* step that ends with the lock free is the work of a disconnect.
LEMMA FreeStepKeepsMatched ==
  ASSUME Inv, [Next]_vars, mu = "free", mu' = "free",
         registered \subseteq registered'
  PROVE  NothingNew
<1>1. TypeOK /\ Life /\ OneAssignment /\ QueueExact /\ PoolConsistent
  BY DEF Inv, Life
<1>2. \A j \in DOMAIN available : available[j] \in Sessions
  BY <1>1 DEF TypeOK
<1>3. \A i \in DOMAIN queue : queue[i] \in Requests /\ req[queue[i]].status = "queued"
  BY <1>1 DEF TypeOK, QueueExact
\* a request that is not in the queue changes, or leaves the queue as it changes
<1>4. ASSUME NEW r \in Requests, NEW q, req' = [req EXCEPT ![r] = q],
             \/ queue' = queue /\ req[r].status # "queued"
             \/ queue' = RemoveValue(queue, r),
             UNCHANGED <<available, acceptAI>>
      PROVE  NothingNew
  <2>1. \A x \in Requests \ {r} : req'[x] = req[x]
    BY <1>1, <1>4 DEF TypeOK
  <2>2. CASE queue' = queue /\ req[r].status # "queued"
    <3>1. \A i \in DOMAIN queue : queue[i] # r
      BY <1>3, <2>2
    <3> QED BY <1>3, <1>4, <2>1, <2>2, <3>1 DEF NothingNew
  <2>3. CASE queue' = RemoveValue(queue, r)
    <3>1. \A i \in DOMAIN queue' : /\ queue'[i] # r
                                   /\ \E k \in DOMAIN queue : queue[k] = queue'[i]
      <4>1. queue \in Seq(Requests)
        BY <1>1 DEF TypeOK
      <4>2. ToSet(queue') = ToSet(queue) \ {r}
        BY <2>3, <4>1, RemoveValueFacts
      <4> QED BY <4>2 DEF ToSet
    <3> QED BY <1>3, <1>4, <2>1, <3>1 DEF NothingNew
  <2> QED BY <1>4, <2>2, <2>3
<1>5. ASSUME UNCHANGED <<req, queue>>,
             \A j \in DOMAIN available' : \E l \in DOMAIN available : available[l] = available'[j],
             \A l \in DOMAIN available : acceptAI'[available[l]] = acceptAI[available[l]]
      PROVE  NothingNew
  BY <1>3, <1>5 DEF NothingNew
<1>6. ASSUME UNCHANGED <<req, queue, available, acceptAI>> PROVE NothingNew
  BY <1>5, <1>6
<1>7. ASSUME NEW s \in Sessions, NEW r \in Requests, NEW reaction, React(s, r, reaction)
      PROVE  NothingNew
  <2>1. /\ req[r].status # "queued" /\ queue' = queue /\ UNCHANGED <<available, acceptAI>>
        /\ req' = [req EXCEPT ![r] = [req[r] EXCEPT !.reaction = reaction]]
    BY <1>7 DEF React, Completed
  <2> QED BY <1>4, <2>1
<1>8. ASSUME NEW r \in Requests, abandonLocked(r), UNCHANGED <<available, acceptAI>>
      PROVE  NothingNew
  BY <1>4, <1>8 DEF abandonLocked
<1>9. ASSUME NEW s \in Sessions, Connected(s) PROVE NothingNew
  <2>1. CASE UnregisterResponder(s)
    <3>1. s \notin registered /\ activeByRes[s] = None
      BY <1>1, <2>1 DEF UnregisterResponder, PoolConsistent
    <3>2. \A l \in DOMAIN available : available[l] # s
      BY <1>1, <3>1 DEF PoolConsistent
    <3>3. \A j \in DOMAIN available' : \E l \in DOMAIN available : available[l] = available'[j]
      <4>1. available \in Seq(Sessions) /\ available' = RemoveValue(available, s)
        BY <1>1, <2>1 DEF TypeOK, UnregisterResponder
      <4>2. ToSet(available') = ToSet(available) \ {s}
        BY <4>1, RemoveValueFacts
      <4> QED BY <4>2 DEF ToSet
    <3>4. \A l \in DOMAIN available : acceptAI'[available[l]] = acceptAI[available[l]]
      BY <1>1, <1>2, <2>1, <3>2 DEF UnregisterResponder, TypeOK
    <3> QED BY <1>5, <2>1, <3>1, <3>3, <3>4 DEF UnregisterResponder
  <2>2. ASSUME NEW accept, MarkResponderAvailable(s, accept) PROVE NothingNew
    <3>1. /\ activeByRes[s] # None /\ UNCHANGED <<available, req, queue>>
          /\ acceptAI' = [acceptAI EXCEPT ![s] = accept]
      BY <2>2 DEF MarkResponderAvailable, becomeAvailable
    <3>2. \A l \in DOMAIN available : available[l] # s
      BY <1>1, <3>1 DEF PoolConsistent
    <3>3. \A l \in DOMAIN available : acceptAI'[available[l]] = acceptAI[available[l]]
      BY <1>1, <1>2, <3>1, <3>2 DEF TypeOK
    <3> QED BY <1>5, <3>1, <3>3
  <2> QED BY <1>6, <1>9, <2>1, <2>2
          DEF Connected, RegisterResponder, ResumeResponder, becomeAvailable, Receive
<1>10. ASSUME NEW s \in Responders, Answering(s) PROVE NothingNew
  <2>1. ASSUME activeByRes[s] # None
        PROVE  activeByRes[s] \in Requests /\ req[activeByRes[s]].status \in Held
    BY <1>1, <2>1 DEF TypeOK, OneAssignment
  <2>2. ASSUME NEW q \in ClientSeqs, NEW n \in FragmentSizes, SubmitFragment(s, q, n)
        PROVE  NothingNew
    <3>1. PICK r \in Requests : r = activeByRes[s]
      BY <2>1, <2>2 DEF SubmitFragment
    <3>2. /\ req[r].status # "queued" /\ queue' = queue /\ UNCHANGED <<available, acceptAI>>
          /\ \/ req' = [req EXCEPT ![r] = Streaming(req[r])]
             \/ req' = [req EXCEPT ![r] = Finished(Streaming(req[r]), "length")]
      BY <2>1, <2>2, <3>1 DEF SubmitFragment, Held
    <3> QED BY <1>4, <3>2
  <2>3. CASE Finish(s)
    <3>1. PICK r \in Requests : r = activeByRes[s]
      BY <2>1, <2>3 DEF Finish
    <3>2. /\ req[r].status # "queued" /\ queue' = queue /\ UNCHANGED <<available, acceptAI>>
          /\ req' = [req EXCEPT ![r] = Finished(req[r], "stop")]
      BY <2>1, <2>3, <3>1 DEF Finish, completeLocked, Held
    <3> QED BY <1>4, <3>2
  <2>4. CASE Skip(s)
    <3>1. PICK r \in Requests : r = activeByRes[s]
      BY <2>1, <2>4 DEF Skip
    <3>2. abandonLocked(r) /\ UNCHANGED <<available, acceptAI>>
      BY <2>4, <3>1 DEF Skip
    <3> QED BY <1>8, <3>2
  <2> QED BY <1>10, <2>2, <2>3, <2>4 DEF Answering
<1>11. ASSUME NEW r \in Requests, AcquireFallbackAssignment(r) PROVE NothingNew
  BY <1>4, <1>11 DEF AcquireFallbackAssignment
<1>12. People \subseteq Sessions /\ Answerers \subseteq Sessions
  BY SessionsAssumption DEF People
<1>13. CASE RequesterNext
  BY <1>7, <1>8, <1>12, <1>13
     DEF RequesterNext, CreateRequest, CreateTargetedRequest, createRequest,
         CancelBeforeFirstFragment
<1>14. CASE ResponderNext
  BY <1>9, <1>10, <1>11, <1>12, <1>14 DEF ResponderNext
<1>15. ASSUME NEW r \in Requests, Elapse(r) PROVE NothingNew
  BY <1>6, <1>15 DEF Elapse
<1>16. ASSUME NEW r \in Requests, SweepTimeouts(r) PROVE NothingNew
  BY <1>16 DEF SweepTimeouts
<1>17. CASE tryAssignStep \/ tryAssignReturn
  BY <1>17 DEF tryAssignStep, tryAssignReturn
<1>18. CASE UNCHANGED vars
  BY <1>6, <1>18 DEF vars
<1> QED BY <1>13, <1>14, <1>15, <1>16, <1>17, <1>18 DEF Next

\* Every method but UnregisterResponder returns with no queued request left that
\* fits an available session, if there was none when it began.
THEOREM MatchedUnlessDisconnectHolds == Spec => MatchedUnlessDisconnect
<1> DEFINE Kept ==
             mu = "free" /\ ~Unmatched /\ mu' = "free" /\ Unmatched' =>
               \E s \in registered : s \notin registered'
<1>1. ASSUME Inv, [Next]_vars PROVE Kept
  <2>1. ASSUME mu = "free", mu' = "free", Unmatched', registered \subseteq registered'
        PROVE  Unmatched
    BY <1>1, <2>1, FreeStepKeepsMatched, NoNewPair DEF Inv
  <2> QED BY <2>1
<1>2. Inv /\ [Next]_vars => [Kept]_vars
  BY <1>1
<1> QED BY <1>2, Invariance, PTL DEF Spec, MatchedUnlessDisconnect

-----------------------------------------------------------------------------
(* The output limit *)

\* The lengths of the fragments of an answer.
SizesOf(frags) == [i \in DOMAIN frags |-> frags[i].size]

\* No fragment is empty.
LEMMA SizeFacts == \A e \in FragmentType : e.size \in Int /\ e.size > 0
<1>1. \A e \in FragmentType : e.size \in FragmentSizes
  BY DEF FragmentType
<1>2. \A n \in FragmentSizes : n \in Int /\ n > 0
  BY LimitsAssumption
<1> QED BY <1>1, <1>2

\* The length of an answer is the sum of the lengths of its fragments.
LEMMA AnswerLenIsSum ==
  ASSUME NEW frags \in Seq(FragmentType)
  PROVE  AnswerLen(frags) = SumOver(SizesOf(frags), DOMAIN frags)
<1> DEFINE S == DOMAIN frags
           f == SizesOf(frags)
           IsFold(h) == h = [T \in SUBSET S |->
                               IF T = {} THEN 0 ELSE h[T \ {Max(T)}] + frags[Max(T)].size]
           fold == CHOOSE h : IsFold(h)
<1>1. IsFiniteSet(S) /\ Len(frags) \in Nat /\ S = 1..Len(frags)
  BY FS_Interval
<1>2. f \in [S -> Int] /\ \A i \in S : f[i] = frags[i].size
  <2>1. \A i \in S : frags[i] \in FragmentType
    BY <1>1
  <2>3. \A i \in S : frags[i].size \in Int
    BY <2>1, SizeFacts
  <2> QED BY <2>3 DEF SizesOf
<1>3. \A T \in SUBSET S : T # {} => Max(T) \in T
  BY <1>1, MaxFacts
<1>4. AnswerLen(frags) = fold[S]
  BY DEF AnswerLen, FoldLeft, MapThenFoldSet
<1>5. \E h : IsFold(h)
  <2>1. PICK g : SumsUp(g, f, S)
    BY <1>1, <1>2, SumsExist
  <2>2. g \in [SUBSET S -> Int] /\ g[{}] = 0
    BY <2>1 DEF SumsUp
  <2>3. ASSUME NEW T \in SUBSET S, T # {}
        PROVE  g[T] = g[T \ {Max(T)}] + frags[Max(T)].size
    <3>1. PICK x \in S : x \in T /\ x = Max(T)
      BY <1>3, <2>3
    <3>2. g[T] = g[T \ {x}] + f[x]
      BY <2>1, <3>1, Zenon DEF SumsUp
    <3> QED BY <1>2, <3>1, <3>2
  <2> QED BY <2>2, <2>3
<1>6. IsFold(fold)
  BY <1>5
<1> HIDE DEF fold
<1>7. AddsUp(fold, f, S)
  BY <1>2, <1>3, <1>6 DEF AddsUp
<1> HIDE DEF S, f
<1>8. fold[S] = SumOver(f, S)
  BY <1>1, <1>2, <1>7, FoldIsSum
<1> QED BY <1>4, <1>8 DEF S, f

\* A fragment makes the answer longer by its own length.
LEMMA AnswerLenFacts ==
  /\ AnswerLen(<<>>) = 0
  /\ \A s \in Seq(FragmentType) : AnswerLen(s) \in Int
  /\ \A s \in Seq(FragmentType), e \in FragmentType :
       AnswerLen(Append(s, e)) = AnswerLen(s) + e.size
<1>1. ASSUME NEW s \in Seq(FragmentType)
      PROVE  /\ Len(s) \in Nat /\ DOMAIN s = 1..Len(s) /\ IsFiniteSet(DOMAIN s)
             /\ SizesOf(s) \in [DOMAIN s -> Int]
  <2>1. \A i \in DOMAIN s : s[i] \in FragmentType
    OBVIOUS
  <2> QED BY <2>1, SizeFacts, FS_Interval DEF SizesOf
<1>2. AnswerLen(<<>>) = 0
  <2>1. <<>> \in Seq(FragmentType) /\ DOMAIN <<>> = {}
    OBVIOUS
  <2> QED BY <1>1, <2>1, AnswerLenIsSum, SumOverFacts
<1>3. \A s \in Seq(FragmentType) : AnswerLen(s) \in Int
  BY <1>1, AnswerLenIsSum, SumOverFacts
<1>4. ASSUME NEW s \in Seq(FragmentType), NEW e \in FragmentType
      PROVE  AnswerLen(Append(s, e)) = AnswerLen(s) + e.size
  <2> DEFINE t == Append(s, e)
             n == Len(s) + 1
  <2>1. /\ t \in Seq(FragmentType) /\ Len(t) = n /\ n \in DOMAIN t
        /\ (DOMAIN t) \ {n} = DOMAIN s /\ t[n] = e
        /\ \A i \in DOMAIN s : t[i] = s[i]
    <3>1. Len(s) \in Nat /\ DOMAIN s = 1..Len(s)
      OBVIOUS
    <3>2. /\ t \in Seq(FragmentType) /\ Len(t) = n /\ t[n] = e
          /\ \A i \in 1..Len(s) : t[i] = s[i]
      BY <3>1
    <3>3. DOMAIN t = 1..n
      BY <3>2
    <3>4. n \in 1..n /\ (1..n) \ {n} = 1..Len(s)
      BY <3>1
    <3> QED BY <3>1, <3>2, <3>3, <3>4
  <2> HIDE DEF t, n
  <2>2. SizesOf(t)[n] = e.size /\ \A i \in DOMAIN s : SizesOf(s)[i] = SizesOf(t)[i]
    BY <2>1 DEF SizesOf
  <2>3. SumOver(SizesOf(t), DOMAIN t) = SumOver(SizesOf(s), DOMAIN s) + SizesOf(t)[n]
    <3>1. /\ IsFiniteSet(DOMAIN t) /\ SizesOf(t) \in [DOMAIN t -> Int]
          /\ SizesOf(s) \in [DOMAIN s -> Int]
      BY <1>1, <2>1
    <3>2. Agree(SizesOf(s), SizesOf(t), DOMAIN s)
      BY <2>2 DEF Agree
    <3>3. DOMAIN s = (DOMAIN t) \ {n} /\ n \in DOMAIN t
      BY <2>1
    <3> QED BY <3>1, <3>2, <3>3, SumOverWithout
  <2>4. AnswerLen(t) = AnswerLen(s) + e.size
    BY <2>1, <2>2, <2>3, AnswerLenIsSum
  <2> QED BY <2>4 DEF t
<1> QED BY <1>2, <1>3, <1>4

\* Where the limit of a request stands: a request that was created has one, and it
\* has no finish reason before it has ended.
LimitKept(r) ==
  /\ req[r].status # "absent" =>
       /\ req[r].limit > 0
       /\ AnswerLen(fragments[r]) <= req[r].limit
       /\ AnswerLen(fragments[r]) = req[r].limit <=> req[r].finish = "length"
  /\ req[r].status \notin Completed => req[r].finish = ""
LimitsKept == \A r \in Requests : LimitKept(r)

\* The output limit is never passed, an answer that reaches it is closed with finish
\* reason "length" by the fragment that does, and no other answer is.
THEOREM AnswerWithinLimitHolds == Spec => []AnswerWithinLimit
<1>1. ASSUME Init PROVE LimitsKept
  <2>1. \A r \in Requests : req[r].status = "absent" /\ req[r].finish = ""
    BY <1>1 DEF Init, AbsentRequest
  <2> QED BY <2>1 DEF LimitsKept, LimitKept
<1>2. ASSUME Inv, LimitsKept, [Next]_vars, NEW r \in Requests
      PROVE  LimitKept(r)'
  <2>1. Moves(r)
    BY <1>2, NextMoves DEF AllMove
  <2>2. /\ req[r] \in RequestType /\ fragments[r] \in Seq(FragmentType)
        /\ req[r].limit \in Nat /\ LimitKept(r)
    BY <1>2 DEF Inv, TypeOK, RequestType, LimitsKept
  <2>3. AnswerLen(fragments[r]) \in Int /\ AnswerLen(<<>>) = 0
    BY <2>2, AnswerLenFacts
  <2>4. Inv' /\ req'[r] \in RequestType /\ req'[r].limit \in Nat
    BY <1>2, NextInv DEF Inv, TypeOK, RequestType
  <2> USE DEF LimitKept, Completed, Held
  <2>5. CASE Untouched(r)
    BY <2>2, <2>5 DEF Untouched
  <2>6. CASE Waits(r)
    <3>1. CASE req[r].status = "absent"
      <4>1. /\ fragments'[r] = <<>> /\ req'[r].finish = "" /\ req'[r].limit > 0
            /\ req'[r].limit \in Nat
        BY <2>4, <2>6, <3>1 DEF Waits, Opens
      <4>2. \A n \in Nat : n > 0 => 0 <= n /\ 0 # n
        OBVIOUS
      <4>3. 0 <= req'[r].limit /\ 0 # req'[r].limit
        BY <4>1, <4>2
      <4> QED BY <2>3, <4>1, <4>3
    <3>2. CASE req[r].status # "absent"
      BY <2>2, <2>3, <2>6, <3>2 DEF Waits, SameQuestion
    <3> QED BY <3>1, <3>2
  <2>7. CASE Commits(r)
    <3>1. AnswerLen(fragments'[r]) \in Int
      BY <2>4, AnswerLenFacts DEF Inv, TypeOK
    <3>2. \A m, n \in Int : m <= n => (m >= n <=> m = n)
      OBVIOUS
    <3>3. AnswerLen(fragments'[r]) >= req[r].limit <=> AnswerLen(fragments'[r]) = req[r].limit
      <4>1. req[r].limit \in Nat
        BY <2>2
      <4>2. req[r].limit \in Int
        BY <4>1
      <4>3. AnswerLen(fragments'[r]) <= req[r].limit
        BY <2>7 DEF Commits
      <4> QED BY <3>1, <3>2, <4>2, <4>3
    <3>4. /\ req[r].limit > 0 /\ req[r].finish = "" /\ req'[r].limit = req[r].limit
          /\ AnswerLen(fragments'[r]) <= req[r].limit
      BY <2>2, <2>7 DEF Commits, SameQuestion
    <3> QED BY <2>7, <3>3, <3>4 DEF Commits
  <2>8. CASE Ends(r)
    BY <2>2, <2>3, <2>8 DEF Ends, SameQuestion
  <2>9. CASE Reacts(r)
    <3>1. /\ req'[r].status = req[r].status /\ req'[r].limit = req[r].limit
          /\ req'[r].finish = req[r].finish
      BY <2>2, <2>9 DEF Reacts, RequestType
    <3> QED BY <2>2, <2>9, <3>1 DEF Reacts
  <2> QED BY <2>1, <2>5, <2>6, <2>7, <2>8, <2>9 DEF Moves
<1>3. Inv /\ LimitsKept /\ [Next]_vars => LimitsKept'
  BY <1>2 DEF LimitsKept
<1>4. LimitsKept => AnswerWithinLimit
  BY DEF LimitsKept, LimitKept, AnswerWithinLimit
<1> QED BY <1>1, <1>3, <1>4, Invariance, PTL DEF Spec

-----------------------------------------------------------------------------
(* The points of a user *)

\* What request r has brought user u so far, less what it holds.
HoldOf(u, r) ==
  IF RequesterUser(r) = u /\ ~isTerminal(req[r].status) THEN req[r].frozen ELSE 0
BookedOn(u, r) ==
  ledger[<<u, r, "question_charge">>] + ledger[<<u, r, "answer_reward">>]
    + ledger[<<u, r, "reaction_adjustment">>]
NetOf(u) == [r \in Requests |-> BookedOn(u, r) - HoldOf(u, r)]

\* The keys of a user's ledger are finitely many.
LEMMA KeysFinite ==
  ASSUME NEW u, NEW R \in SUBSET Requests
  PROVE  IsFiniteSet({u} \X R \X LedgerKinds)
<1> DEFINE K == R \X LedgerKinds
           S == {u} \X R \X LedgerKinds
           f == [p \in K |-> <<u, p[1], p[2]>>]
<1>1. IsFiniteSet(LedgerKinds)
  <2>1. LedgerKinds = ({"question_charge"} \cup {"answer_reward"}) \cup {"reaction_adjustment"}
    BY DEF LedgerKinds
  <2>2. IsFiniteSet({"question_charge"})
    BY FS_Singleton
  <2>3. IsFiniteSet({"question_charge"} \cup {"answer_reward"})
    BY <2>2, FS_AddElement
  <2>4. IsFiniteSet(({"question_charge"} \cup {"answer_reward"}) \cup {"reaction_adjustment"})
    BY <2>3, FS_AddElement
  <2> QED BY <2>1, <2>4
<1>2. IsFiniteSet(R)
  BY RequestsAssumption, FS_Subset
<1>3. IsFiniteSet(K)
  BY <1>1, <1>2, FS_Product
<1>4. f \in [K -> S]
  OBVIOUS
<1>5. \A k \in S : \E p \in K : f[p] = k
  <2>1. ASSUME NEW r \in R, NEW kind \in LedgerKinds PROVE f[<<r, kind>>] = <<u, r, kind>>
    OBVIOUS
  <2>2. \A k \in S : \E r \in R, kind \in LedgerKinds : k = <<u, r, kind>>
    OBVIOUS
  <2>3. \A r \in R, kind \in LedgerKinds : <<r, kind>> \in K
    OBVIOUS
  <2>4. ASSUME NEW k \in S PROVE \E p \in K : f[p] = k
    <3>1. PICK r \in R, kind \in LedgerKinds : k = <<u, r, kind>>
      BY <2>2
    <3>2. f[<<r, kind>>] = k /\ <<r, kind>> \in K
      BY <2>1, <2>3, <3>1
    <3> QED BY <3>2
  <2> QED BY <2>4
<1>6. f \in Surjection(K, S)
  BY <1>4, <1>5, Fun_IsSurj
<1> QED BY <1>3, <1>6, FS_Surjection

\* The sum of a user's ledger, as balanceLocked adds it up.
LEMMA TotalPointsFolds ==
  ASSUME TypeOK, NEW u \in Users
  PROVE  \E g : /\ SumsUp(g, ledger, {u} \X Requests \X LedgerKinds)
                /\ TotalPoints(u) = SignupGrant + g[{u} \X Requests \X LedgerKinds]
<1> DEFINE S == {u} \X Requests \X LedgerKinds
           f == [k \in S |-> ledger[k]]
           Pick(T) == CHOOSE x \in T : TRUE
           IsFold(h) == h = [T \in SUBSET S |->
                               IF T = {} THEN 0 ELSE ledger[Pick(T)] + h[T \ {Pick(T)}]]
           fold == CHOOSE h : IsFold(h)
<1>1. IsFiniteSet(S)
  BY KeysFinite
<1>2. f \in [S -> Int] /\ \A k \in S : f[k] = ledger[k] /\ ledger[k] \in Int
  BY DEF TypeOK
<1>3. \A T \in SUBSET S : T # {} => Pick(T) \in T
  OBVIOUS
<1>4. TotalPoints(u) = SignupGrant + fold[S]
  BY DEF TotalPoints, MapThenSumSet, MapThenFoldSet
<1> HIDE DEF f, Pick
<1>5. PICK g : SumsUp(g, f, S)
  BY <1>1, <1>2, SumsExist
<1>6. SumsUp(g, ledger, S)
  BY <1>2, <1>5 DEF SumsUp
<1>7. IsFold(g)
  <2>1. g \in [SUBSET S -> Int] /\ g[{}] = 0
    BY <1>6 DEF SumsUp
  <2>2. ASSUME NEW T \in SUBSET S, T # {} PROVE g[T] = ledger[Pick(T)] + g[T \ {Pick(T)}]
    <3>1. Pick(T) \in T /\ ledger[Pick(T)] \in Int
      BY <1>2, <1>3, <2>2
    <3>2. g[T] = g[T \ {Pick(T)}] + ledger[Pick(T)] /\ g[T \ {Pick(T)}] \in Int
      BY <1>6, <3>1 DEF SumsUp
    <3> QED BY <3>1, <3>2
  <2> QED BY <2>1, <2>2
<1>8. IsFold(fold)
  BY <1>7
<1> HIDE DEF fold
<1>9. AddsUp(fold, ledger, S)
  BY <1>2, <1>3, <1>8 DEF AddsUp
<1>10. S \subseteq S
  OBVIOUS
<1>11. fold[S] = g[S]
  <2> HIDE DEF S
  <2> QED BY <1>1, <1>6, <1>9, <1>10, SumsUnique
<1> QED BY <1>4, <1>6, <1>11

\* What the live requests of a user hold, as balanceLocked adds it up.
LEMMA HeldPointsFolds ==
  ASSUME TypeOK, NEW u \in Users
  PROVE  \E g : /\ SumsUp(g, [r \in Requests |-> HoldOf(u, r)], Requests)
                /\ HeldPoints(u) = g[{r \in Requests : /\ RequesterUser(r) = u
                                                       /\ ~isTerminal(req[r].status)}]
<1> DEFINE S == {r \in Requests : RequesterUser(r) = u /\ ~isTerminal(req[r].status)}
           f == [r \in Requests |-> HoldOf(u, r)]
           Pick(T) == CHOOSE x \in T : TRUE
           IsFold(h) == h = [T \in SUBSET S |->
                               IF T = {} THEN 0 ELSE req[Pick(T)].frozen + h[T \ {Pick(T)}]]
           fold == CHOOSE h : IsFold(h)
<1>1. IsFiniteSet(S) /\ IsFiniteSet(Requests) /\ S \subseteq Requests
  BY RequestsAssumption, FS_Subset
<1>2. f \in [Requests -> Int]
  <2>1. \A r \in Requests : req[r].frozen \in Int
    <3>1. \A r \in Requests : req[r] \in RequestType
      BY DEF TypeOK
    <3>2. \A q \in RequestType : q.frozen \in {0, QuestionCost}
      BY DEF RequestType
    <3>3. {0, QuestionCost} \subseteq Int
      BY PointsAssumption
    <3> QED BY <3>1, <3>2, <3>3
  <2> QED BY <2>1 DEF HoldOf
<1>3. \A r \in S : f[r] = req[r].frozen /\ f[r] \in Int
  BY <1>2 DEF HoldOf
<1>4. \A T \in SUBSET S : T # {} => Pick(T) \in T
  OBVIOUS
<1>5. HeldPoints(u) = fold[S]
  BY DEF HeldPoints, MapThenSumSet, MapThenFoldSet
<1> HIDE DEF f, Pick
<1>6. PICK g : SumsUp(g, f, Requests)
  BY <1>1, <1>2, SumsExist
<1>7. IsFold([T \in SUBSET S |-> g[T]])
  <2> DEFINE k == [T \in SUBSET S |-> g[T]]
  <2>1. k \in [SUBSET S -> Int] /\ k[{}] = 0
    BY <1>1, <1>6 DEF SumsUp
  <2>2. ASSUME NEW T \in SUBSET S, T # {}
        PROVE  k[T] = req[Pick(T)].frozen + k[T \ {Pick(T)}]
    <3>1. Pick(T) \in T /\ Pick(T) \in S /\ f[Pick(T)] \in Int
          /\ f[Pick(T)] = req[Pick(T)].frozen
      BY <1>3, <1>4, <2>2
    <3>2. T \in SUBSET Requests /\ T \ {Pick(T)} \in SUBSET S
      BY <1>1
    <3>3. g[T] = g[T \ {Pick(T)}] + f[Pick(T)] /\ g[T \ {Pick(T)}] \in Int
      BY <1>6, <3>1, <3>2 DEF SumsUp
    <3>4. g[T] = f[Pick(T)] + g[T \ {Pick(T)}]
      BY <3>1, <3>3
    <3> QED BY <3>1, <3>2, <3>4
  <2> HIDE DEF k
  <2>3. k = [T \in SUBSET S |-> IF T = {} THEN 0 ELSE req[Pick(T)].frozen + k[T \ {Pick(T)}]]
    BY <2>1, <2>2
  <2> QED BY <2>3 DEF k
<1>8. IsFold(fold)
  BY <1>7
<1> HIDE DEF fold
<1>9. AddsUp(fold, f, S)
  <2> HIDE DEF S
  <2>1. fold[{}] = 0
    BY <1>8
  <2>2. ASSUME NEW T \in SUBSET S, T # {}
        PROVE  /\ Pick(T) \in T /\ f[Pick(T)] \in Int
               /\ fold[T] = f[Pick(T)] + fold[T \ {Pick(T)}]
    BY <1>3, <1>4, <1>8, <2>2
  <2> QED BY <2>1, <2>2 DEF AddsUp
<1>10. fold[S] = g[S]
  <2> HIDE DEF S
  <2> QED BY <1>1, <1>6, <1>9, SumsUnique
<1> QED BY <1>5, <1>6, <1>10 DEF f

\* The entries of one request are its three kinds.
LEMMA BookedFacts ==
  ASSUME TypeOK, NEW u \in Users, NEW T \in SUBSET Requests, NEW r \in T,
         NEW g, SumsUp(g, ledger, {u} \X Requests \X LedgerKinds)
  PROVE  /\ g[{u} \X T \X LedgerKinds] =
              g[{u} \X (T \ {r}) \X LedgerKinds] + BookedOn(u, r)
         /\ g[{u} \X (T \ {r}) \X LedgerKinds] \in Int /\ BookedOn(u, r) \in Int
<1> DEFINE X == {u} \X T \X LedgerKinds
           Y == {u} \X (T \ {r}) \X LedgerKinds
           k1 == <<u, r, "question_charge">>
           k2 == <<u, r, "answer_reward">>
           k3 == <<u, r, "reaction_adjustment">>
           S == {u} \X Requests \X LedgerKinds
<1>1. /\ X \in SUBSET S /\ k1 \in X /\ k2 \in X /\ k3 \in X
      /\ k1 # k2 /\ k1 # k3 /\ k2 # k3
  BY DEF LedgerKinds
<1>2. ((X \ {k1}) \ {k2}) \ {k3} = Y
  <2>1. \A k \in X : \E x \in T, kind \in LedgerKinds : k = <<u, x, kind>>
    OBVIOUS
  <2>2. \A x \in T, kind \in LedgerKinds : <<u, x, kind>> \in Y <=> x # r
    OBVIOUS
  <2>3. \A x \in T, kind \in LedgerKinds :
          x # r <=> <<u, x, kind>> \notin {k1, k2, k3}
    BY DEF LedgerKinds
  <2>4. Y \subseteq X
    OBVIOUS
  <2> HIDE DEF X, Y, k1, k2, k3
  <2> QED BY <2>1, <2>2, <2>3, <2>4
<1>3. ledger[k1] \in Int /\ ledger[k2] \in Int /\ ledger[k3] \in Int
  BY DEF TypeOK, LedgerKinds
<1>4. BookedOn(u, r) = ledger[k1] + ledger[k2] + ledger[k3]
  BY DEF BookedOn
<1> HIDE DEF X, Y, k1, k2, k3, S
<1>5. SumsUp(g, ledger, S)
  BY DEF S
<1>6. /\ g[X] = g[X \ {k1}] + ledger[k1]
      /\ g[X \ {k1}] = g[(X \ {k1}) \ {k2}] + ledger[k2]
      /\ g[(X \ {k1}) \ {k2}] = g[((X \ {k1}) \ {k2}) \ {k3}] + ledger[k3]
      /\ g[((X \ {k1}) \ {k2}) \ {k3}] \in Int
  BY <1>1, <1>5 DEF SumsUp
<1>7. g[X] = g[Y] + ledger[k3] + ledger[k2] + ledger[k1] /\ g[Y] \in Int
  BY <1>2, <1>6
<1>8. g[X] = g[Y] + BookedOn(u, r) /\ BookedOn(u, r) \in Int
  BY <1>3, <1>4, <1>7
<1> QED BY <1>7, <1>8 DEF X, Y

\* What a user may spend is the grant and what the requests have brought it: the two
\* sums of balanceLocked are one over the requests.
LEMMA AvailableIsNet ==
  ASSUME TypeOK, NEW u \in Users
  PROVE  /\ AvailablePoints(u) = SignupGrant + SumOver(NetOf(u), Requests)
         /\ NetOf(u) \in [Requests -> Int]
<1> DEFINE L == {r \in Requests : RequesterUser(r) = u /\ ~isTerminal(req[r].status)}
           X(T) == {u} \X T \X LedgerKinds
           h == [r \in Requests |-> HoldOf(u, r)]
           n == NetOf(u)
<1>1. PICK g : SumsUp(g, ledger, X(Requests)) /\ TotalPoints(u) = SignupGrant + g[X(Requests)]
  BY TotalPointsFolds
<1>2. PICK k : SumsUp(k, h, Requests) /\ HeldPoints(u) = k[L]
  BY HeldPointsFolds
<1>3. \A r \in Requests : HoldOf(u, r) \in Int /\ (r \notin L => HoldOf(u, r) = 0)
  <2>1. \A r \in Requests : req[r] \in RequestType
    BY DEF TypeOK
  <2>2. \A q \in RequestType : q.frozen \in {0, QuestionCost}
    BY DEF RequestType
  <2>3. {0, QuestionCost} \subseteq Int
    BY PointsAssumption
  <2> QED BY <2>1, <2>2, <2>3 DEF HoldOf
<1>4. \A r \in Requests : BookedOn(u, r) \in Int
  BY <1>1, BookedFacts
<1>5. n \in [Requests -> Int] /\ \A r \in Requests : n[r] = BookedOn(u, r) - HoldOf(u, r)
  BY <1>3, <1>4 DEF NetOf
<1> HIDE DEF n
<1>6. IsFiniteSet(Requests)
  BY RequestsAssumption
<1> DEFINE m == CHOOSE f : SumsUp(f, n, Requests)
<1>7. SumsUp(m, n, Requests) /\ SumOver(n, Requests) = m[Requests]
  BY <1>5, <1>6, SumsExist DEF SumOver
<1> HIDE DEF m
<1> DEFINE B == {T \in SUBSET Requests : ~(g[X(T)] - k[T \cap L] = m[T])}
<1>8. B = {}
  <2>1. SUFFICES ASSUME B # {} PROVE FALSE
    OBVIOUS
  <2>2. PICK T \in B : \A r \in T : T \ {r} \notin B
    BY <1>6, <2>1, SmallestSubset
  <2>3. CASE T = {}
    <3>1. X(T) = {} /\ T \cap L = {}
      BY <2>3
    <3>2. g[{}] = 0 /\ k[{}] = 0 /\ m[{}] = 0
      BY <1>1, <1>2, <1>7 DEF SumsUp
    <3>3. g[X(T)] - k[T \cap L] = m[T]
      BY <2>3, <3>1, <3>2
    <3> QED BY <2>2, <3>3
  <2>4. CASE T # {}
    <3>1. PICK r \in T : r \in Requests
      BY <2>2, <2>4
    <3>2. /\ g[X(T)] = g[X(T \ {r})] + BookedOn(u, r)
          /\ g[X(T \ {r})] \in Int /\ BookedOn(u, r) \in Int
      BY <1>1, <2>2, <3>1, BookedFacts
    <3>3. m[T] = m[T \ {r}] + n[r] /\ m[T \ {r}] \in Int
      BY <1>7, <2>2, <3>1 DEF SumsUp
    <3>4. k[T \cap L] = k[(T \ {r}) \cap L] + HoldOf(u, r) /\ k[(T \ {r}) \cap L] \in Int
      <4>1. k[(T \ {r}) \cap L] \in Int
        BY <1>2, <2>2 DEF SumsUp
      <4>2. CASE r \in L
        <5>1. (T \cap L) \ {r} = (T \ {r}) \cap L /\ r \in T \cap L /\ h[r] = HoldOf(u, r)
          BY <3>1, <4>2
        <5> HIDE DEF L, h
        <5> QED BY <1>2, <2>2, <4>1, <5>1 DEF SumsUp
      <4>3. CASE r \notin L
        <5>1. T \cap L = (T \ {r}) \cap L /\ HoldOf(u, r) = 0
          BY <1>3, <3>1, <4>3
        <5>2. \A x \in Int : x = x + 0
          OBVIOUS
        <5> HIDE DEF L
        <5> QED BY <4>1, <5>1, <5>2
      <4> QED BY <4>2, <4>3
    <3>5. g[X(T \ {r})] - k[(T \ {r}) \cap L] = m[T \ {r}]
      BY <2>2, <3>1
    <3>6. HoldOf(u, r) \in Int /\ n[r] = BookedOn(u, r) - HoldOf(u, r)
      BY <1>3, <1>5, <3>1
    <3> HIDE DEF X, L
    <3>7. g[X(T)] - k[T \cap L] = m[T]
      BY <3>2, <3>3, <3>4, <3>5, <3>6
    <3> QED BY <2>2, <3>7
  <2> QED BY <2>3, <2>4
<1>9. g[X(Requests)] - k[L] = m[Requests] /\ g[X(Requests)] \in Int /\ k[L] \in Int
  <2>1. Requests \cap L = L /\ Requests \in SUBSET Requests
    OBVIOUS
  <2>2. g[X(Requests)] \in Int /\ k[L] \in Int
    BY <1>1, <1>2 DEF SumsUp
  <2> QED BY <1>8, <2>1, <2>2
<1>10. SignupGrant \in Int
  BY PointsAssumption
<1>11. AvailablePoints(u) = (SignupGrant + g[X(Requests)]) - k[L]
  BY <1>1, <1>2 DEF AvailablePoints
<1>12. SumOver(n, Requests) = g[X(Requests)] - k[L]
  BY <1>7, <1>9
<1> HIDE DEF X, L
<1>13. AvailablePoints(u) = SignupGrant + SumOver(n, Requests)
  BY <1>9, <1>10, <1>11, <1>12
<1> QED BY <1>5, <1>13 DEF n

\* What the life of a request comes to for a user: a question costs its requester
\* from the time it is asked until it is given up, and a completed answer brings its
\* responder the reward of the latest reaction.
CostOf(u, r) ==
  IF RequesterUser(r) = u /\ req[r].status \notin {"absent", "abandoned"}
    THEN QuestionCost ELSE 0
EarnedOn(u, r) ==
  IF ResponderUser(r) = u /\ req[r].status \in Completed
    THEN rewardFor(req[r].reaction) ELSE 0
BalanceExact ==
  \A u \in Users :
    /\ NetOf(u) \in [Requests -> Int]
    /\ AvailablePoints(u) = SignupGrant + SumOver(NetOf(u), Requests)
    /\ \A r \in Requests : NetOf(u)[r] = EarnedOn(u, r) - CostOf(u, r)

\* The hold becomes the charge at the first fragment without a step in between in
\* which the user has both or neither.
LEMMA BalanceFacts == Inv => BalanceExact
<1> SUFFICES ASSUME Inv, NEW u \in Users, NEW r \in Requests
             PROVE  NetOf(u)[r] = EarnedOn(u, r) - CostOf(u, r)
  BY AvailableIsNet DEF BalanceExact, Inv
<1>1. req[r] \in RequestType /\ LedgerOf(r) /\ HoldsUntilFirstFragment(r)
  BY DEF Inv, TypeOK, Life, LedgerExact, HoldUntilFirstFragment
<1>2. /\ req[r].status \in {"absent", "queued", "assigned", "streaming", "abandoned"} \cup Completed
      /\ req[r].frozen \in {0, QuestionCost} /\ QuestionCost \in Int /\ QuestionCost > 0
      /\ BaseAnswerReward \in Int /\ rewardFor(req[r].reaction) \in Int
  <2>1. \A q \in RequestType :
          /\ q.status \in {"absent", "queued", "assigned", "streaming", "abandoned"} \cup Completed
          /\ q.frozen \in {0, QuestionCost} /\ q.reaction \in Reactions
    BY DEF RequestType, Held, Terminal, Completed
  <2> QED BY <1>1, <2>1, PointsAssumption, RewardForType
<1>3. HoldOf(u, r) = IF RequesterUser(r) = u /\ req[r].status \in {"queued", "assigned"}
                       THEN QuestionCost ELSE 0
  <2>1. u # NoUser
    BY SessionsAssumption
  <2>2. req[r].frozen = IF req[r].status \in {"queued", "assigned"} /\ RequesterUser(r) # NoUser
                          THEN QuestionCost ELSE 0
    BY <1>1, <1>2 DEF HoldsUntilFirstFragment
  <2>3. req[r].status \in {"queued", "assigned"} => ~isTerminal(req[r].status)
    BY DEF isTerminal, Terminal, Completed
  <2> QED BY <2>1, <2>2, <2>3 DEF HoldOf
<1>4. ledger[<<u, r, "question_charge">>] =
        IF RequesterUser(r) = u /\ req[r].status \in {"streaming"} \cup Completed
          THEN -QuestionCost ELSE 0
  BY <1>1 DEF LedgerOf, HoldsUntilFirstFragment
<1>5. ledger[<<u, r, "answer_reward">>] + ledger[<<u, r, "reaction_adjustment">>] = EarnedOn(u, r)
  <2>1. \A b, w \in Int : b + (w - b) = w
    OBVIOUS
  <2>2. 0 + 0 = 0
    OBVIOUS
  <2> QED BY <1>1, <1>2, <2>1, <2>2, ZenonT(40) DEF LedgerOf, EarnedOn
<1>6. /\ ledger[<<u, r, "answer_reward">>] \in Int
      /\ ledger[<<u, r, "reaction_adjustment">>] \in Int
      /\ ledger[<<u, r, "question_charge">>] \in Int
  BY DEF Inv, TypeOK, LedgerKinds
<1>7. BookedOn(u, r) = EarnedOn(u, r) + ledger[<<u, r, "question_charge">>]
      /\ EarnedOn(u, r) \in Int
  BY <1>5, <1>6 DEF BookedOn
<1>8. ledger[<<u, r, "question_charge">>] - HoldOf(u, r) = -CostOf(u, r) /\ CostOf(u, r) \in Int
      /\ HoldOf(u, r) \in Int
  <2>1. \A c \in Int : -c - 0 = -c /\ 0 - c = -c /\ -c \in Int
    OBVIOUS
  <2> QED BY <1>2, <1>3, <1>4, <2>1 DEF CostOf, Completed
<1>9. BookedOn(u, r) - HoldOf(u, r) = EarnedOn(u, r) - CostOf(u, r)
  BY <1>6, <1>7, <1>8
<1> QED BY <1>9 DEF NetOf

\* A step that is no reaction to an answer of the user lowers what the user has only
\* by opening a question of that user.
LEMMA NetMoves ==
  ASSUME Inv, Inv', NEW u \in Users, NEW r \in Requests, Moves(r),
         ~(ResponderUser(r) = u /\ req'[r].reaction # req[r].reaction)
  PROVE  /\ EarnedOn(u, r) \in Int /\ CostOf(u, r) \in Int
         /\ EarnedOn(u, r)' \in Int /\ CostOf(u, r)' \in Int
         /\ EarnedOn(u, r) <= EarnedOn(u, r)'
         /\ CostOf(u, r)' <= CostOf(u, r) \/ (req[r].status = "absent" /\ Opens(r))
<1>1. req[r] \in RequestType /\ req'[r] \in RequestType
  BY DEF Inv, TypeOK
<1>2. /\ QuestionCost \in Int /\ QuestionCost >= 0
      /\ rewardFor(req[r].reaction) \in Int /\ rewardFor(req'[r].reaction) \in Int
      /\ rewardFor(req'[r].reaction) >= 0
  BY PointsAssumption DEF rewardFor
<1>3. /\ EarnedOn(u, r) \in Int /\ CostOf(u, r) \in Int
      /\ EarnedOn(u, r)' \in Int /\ CostOf(u, r)' \in Int
      /\ 0 <= EarnedOn(u, r)' /\ 0 <= CostOf(u, r)
  BY <1>2 DEF EarnedOn, CostOf
<1>4. ASSUME req[r].status \notin {"absent", "abandoned"},
             SameQuestion(req'[r], req[r])
      PROVE  CostOf(u, r)' <= CostOf(u, r)
  <2>1. RequesterUser(r)' = RequesterUser(r)
    BY <1>4 DEF RequesterUser, SameQuestion
  <2> QED BY <1>2, <1>4, <2>1 DEF CostOf
<1>5. ASSUME req[r].status \notin Completed PROVE EarnedOn(u, r) <= EarnedOn(u, r)'
  BY <1>3, <1>5 DEF EarnedOn
<1> USE DEF Completed, Held
<1>6. CASE Untouched(r)
  <2>1. EarnedOn(u, r)' = EarnedOn(u, r) /\ CostOf(u, r)' = CostOf(u, r)
    BY <1>6 DEF Untouched, EarnedOn, CostOf, RequesterUser, ResponderUser
  <2> QED BY <1>3, <2>1
<1>7. CASE Waits(r)
  BY <1>3, <1>4, <1>5, <1>7 DEF Waits
<1>8. CASE Commits(r)
  BY <1>3, <1>4, <1>5, <1>8 DEF Commits
<1>9. CASE Ends(r)
  BY <1>3, <1>4, <1>5, <1>9 DEF Ends
<1>10. CASE Reacts(r)
  <2>1. /\ req'[r].status = req[r].status /\ req'[r].asker = req[r].asker
        /\ req'[r].responder = req[r].responder
    BY <1>1, <1>10 DEF Reacts, RequestType
  <2>2. RequesterUser(r)' = RequesterUser(r) /\ ResponderUser(r)' = ResponderUser(r)
    BY <2>1 DEF RequesterUser, ResponderUser
  <2>3. EarnedOn(u, r)' = EarnedOn(u, r) /\ CostOf(u, r)' = CostOf(u, r)
    BY <2>1, <2>2 DEF EarnedOn, CostOf
  <2> QED BY <1>3, <2>3
<1> QED BY <1>3, <1>6, <1>7, <1>8, <1>9, <1>10 DEF Moves

\* Holds are what keeps concurrent questions of one user within its balance: only a
\* reaction to one of its answers can take the available points below zero.
THEOREM NoOverdraftHolds == Spec => NoOverdraft
<1> DEFINE Kept(u) ==
             AvailablePoints(u) >= 0 /\ AvailablePoints(u)' < 0 =>
               \E r \in Requests : ResponderUser(r) = u /\ req'[r].reaction # req[r].reaction
<1>1. ASSUME Inv, Inv', BalanceExact, BalanceExact', [Next]_vars, NEW u \in Users
      PROVE  Kept(u)
  <2>1. SUFFICES ASSUME AvailablePoints(u) >= 0,
                        \A r \in Requests :
                          ~(ResponderUser(r) = u /\ req'[r].reaction # req[r].reaction)
                 PROVE  ~(AvailablePoints(u)' < 0)
    OBVIOUS
  <2>2. PICK n, m : n = NetOf(u) /\ m = NetOf(u)'
    OBVIOUS
  <2>3. /\ n \in [Requests -> Int] /\ m \in [Requests -> Int]
        /\ AvailablePoints(u) = SignupGrant + SumOver(n, Requests)
        /\ AvailablePoints(u)' = SignupGrant + SumOver(m, Requests)
        /\ \A r \in Requests : n[r] = EarnedOn(u, r) - CostOf(u, r)
        /\ \A r \in Requests : m[r] = EarnedOn(u, r)' - CostOf(u, r)'
    BY <1>1, <2>2 DEF BalanceExact
  <2>4. \A r \in Requests :
          /\ EarnedOn(u, r) \in Int /\ CostOf(u, r) \in Int
          /\ EarnedOn(u, r)' \in Int /\ CostOf(u, r)' \in Int
          /\ EarnedOn(u, r) <= EarnedOn(u, r)'
          /\ CostOf(u, r)' <= CostOf(u, r) \/ (req[r].status = "absent" /\ Opens(r))
    BY <1>1, <2>1, NextMoves, NetMoves DEF AllMove
  <2>5. IsFiniteSet(Requests) /\ SignupGrant \in Int /\ QuestionCost \in Int /\ QuestionCost > 0
    BY RequestsAssumption, PointsAssumption
  <2>6. SumOver(n, Requests) \in Int /\ SumOver(m, Requests) \in Int
    BY <2>3, <2>5, SumOverFacts
  <2>7. CASE \A r \in Requests : CostOf(u, r)' <= CostOf(u, r)
    <3>1. ASSUME NEW r \in Requests PROVE n[r] <= m[r]
      <4>1. \A a, b, c, d \in Int : a <= b /\ d <= c => a - c <= b - d
        OBVIOUS
      <4> QED BY <2>3, <2>4, <2>7, <4>1
    <3>2. SumOver(n, Requests) <= SumOver(m, Requests)
      BY <2>3, <2>5, <3>1, SumOverCompare DEF AtMost
    <3>3. AvailablePoints(u)' >= 0 /\ AvailablePoints(u)' \in Int
      BY <2>1, <2>3, <2>5, <2>6, <3>2
    <3> QED BY <3>3
  <2>8. ASSUME NEW r \in Requests, ~(CostOf(u, r)' <= CostOf(u, r)) PROVE ~(AvailablePoints(u)' < 0)
    <3>1. req[r].status = "absent" /\ Opens(r)
      BY <2>4, <2>8
    <3>2. CostOf(u, r) = 0 /\ CostOf(u, r)' = QuestionCost /\ RequesterUser(r)' = u
      BY <2>5, <2>8, <3>1 DEF CostOf
    <3>3. EarnedOn(u, r) = 0 /\ EarnedOn(u, r)' = 0
      BY <3>1 DEF EarnedOn, Opens, Completed
    <3>4. AvailablePoints(u) >= QuestionCost
      <4>1. RequesterUser(r)' = UserOf[req'[r].asker]
        BY <3>1, SessionsAssumption DEF RequesterUser, Opens, Responders
      <4>2. u # NoUser
        BY SessionsAssumption
      <4> QED BY <3>1, <3>2, <4>1, <4>2 DEF Opens
    <3>5. Agree(n, m, Requests \ {r})
      <4>1. ASSUME NEW x \in Requests \ {r} PROVE n[x] = m[x]
        <5>1. req'[x] = req[x]
          BY <3>1 DEF Opens, Untouched
        <5>2. EarnedOn(u, x)' = EarnedOn(u, x) /\ CostOf(u, x)' = CostOf(u, x)
          BY <5>1 DEF EarnedOn, CostOf, RequesterUser, ResponderUser
        <5> QED BY <2>3, <5>2
      <4> QED BY <4>1 DEF Agree
    <3>6. n[r] = 0 /\ m[r] = -QuestionCost
      BY <2>3, <2>5, <3>2, <3>3
    <3>7. SumOver(m, Requests) = SumOver(n, Requests) + (-QuestionCost - 0)
      BY <2>3, <2>5, <3>5, <3>6, SumOverCompare
    <3>8. AvailablePoints(u)' >= 0 /\ AvailablePoints(u)' \in Int
      BY <2>3, <2>5, <2>6, <3>4, <3>7
    <3> QED BY <3>8
  <2> QED BY <2>7, <2>8
<1>2. Inv /\ Inv' /\ BalanceExact /\ BalanceExact' /\ [Next]_vars => [\A u \in Users : Kept(u)]_vars
  BY <1>1
<1> QED BY <1>2, Invariance, BalanceFacts, PTL DEF Spec, NoOverdraft
=============================================================================
