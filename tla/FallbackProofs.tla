--------------------------- MODULE FallbackProofs ---------------------------
(***************************************************************************)
(* What the fallback responder keeps, for every number of requests and     *)
(* sessions: it is a caller that the service of module Service allows, its *)
(* assignments are attended, and its answers are whole.                    *)
(***************************************************************************)
EXTENDS Fallback, ServiceProofs

\* The goroutine of a question asked over HTTP.
Watched(r) == watcher[r] # "none" => req[r].status # "absent" /\ ~ByPersona(r)

WatcherTypes ==
  /\ watcher \in [Requests -> WatcherState]
  /\ seq \in [Requests -> Nat \ {0}]

\* The answer of request r, if it is the fallback's, is what the goroutine has sent.
WholeOf(r) ==
  req[r].responder = FallbackSession(r) =>
    /\ Len(fragments[r]) = seq[r] - 1
    /\ \A i \in DOMAIN fragments[r] : fragments[r][i].seq = i
AttendedOf(r) ==
  activeByRes[FallbackSession(r)] # None => watcher[r] \in {"upstream", "closing"}

\* The inductive invariant: that of the service and that of every goroutine.
FallbackInv ==
  /\ Inv
  /\ WatcherTypes
  /\ \A r \in Requests : Watched(r) /\ AttendedOf(r) /\ WholeOf(r)

\* The session of the fallback of a request answers that request or nothing.
LEMMA FallbackHolder ==
  ASSUME Inv, NEW r \in Requests
  PROVE  /\ FallbackSession(r) \in Responders /\ FallbackSession(r) \notin Sessions
         /\ FallbackSession(r) # None
         /\ activeByRes[FallbackSession(r)] \in {r, None}
         /\ activeByRes[FallbackSession(r)] = r <=>
              req[r].status \in Held /\ req[r].responder = FallbackSession(r)
<1>1. /\ FallbackSession(r) \in FallbackSessions /\ FallbackSession(r) \in Responders
      /\ FallbackSession(r) \notin Sessions /\ FallbackSession(r) # None
  BY SessionsAssumption DEF FallbackSessions, Responders
<1>2. ASSUME NEW x \in Requests, activeByRes[FallbackSession(r)] = x PROVE x = r
  <2>1. req[x].responder = FallbackSession(r)
    BY <1>1, <1>2 DEF Inv, Life, OneAssignment
  <2>2. FallbackSession(r) = FallbackSession(x)
    BY <1>1, <2>1 DEF Inv, Life, ConsentRespected, RespectsConsent
  <2> QED BY <2>2 DEF FallbackSession
<1>3. activeByRes[FallbackSession(r)] \in Requests \cup {None}
  BY <1>1 DEF Inv, TypeOK
<1> QED BY <1>1, <1>2, <1>3 DEF Inv, Life, OneAssignment

\* The same after a step.
LEMMA FallbackHolderNext ==
  ASSUME Inv', NEW r \in Requests
  PROVE  /\ activeByRes'[FallbackSession(r)] \in {r, None}
         /\ activeByRes'[FallbackSession(r)] = r <=>
              req'[r].status \in Held /\ req'[r].responder = FallbackSession(r)
<1>1. /\ FallbackSession(r) \in FallbackSessions /\ FallbackSession(r) \in Responders
      /\ FallbackSession(r) \notin Sessions /\ FallbackSession(r) # None
  BY SessionsAssumption DEF FallbackSessions, Responders
<1>2. ASSUME NEW x \in Requests, activeByRes'[FallbackSession(r)] = x PROVE x = r
  <2>1. req'[x].responder = FallbackSession(r)
    BY <1>1, <1>2 DEF Inv, Life, OneAssignment
  <2>2. FallbackSession(r) = FallbackSession(x)
    BY <1>1, <2>1 DEF Inv, Life, ConsentRespected, RespectsConsent
  <2> QED BY <2>2 DEF FallbackSession
<1>3. activeByRes'[FallbackSession(r)] \in Requests \cup {None}
  BY <1>1 DEF Inv, TypeOK
<1> QED BY <1>1, <1>2, <1>3 DEF Inv, Life, OneAssignment

\* Nobody else takes an assignment for a session of the fallback, or writes in an
\* answer of the fallback.
LEMMA OthersSpare ==
  ASSUME Inv, Others, NEW r \in Requests
  PROVE  /\ activeByRes'[FallbackSession(r)] \in {activeByRes[FallbackSession(r)], None}
         /\ req[r].responder = FallbackSession(r) => fragments'[r] = fragments[r]
<1> DEFINE f == FallbackSession(r)
           Spared == /\ activeByRes'[f] \in {activeByRes[f], None}
                     /\ req[r].responder = f => fragments'[r] = fragments[r]
<1> SUFFICES Spared
  OBVIOUS
<1>1. f \in Responders /\ f \notin Sessions /\ TypeOK /\ OneAssignment
  BY FallbackHolder DEF Inv, Life
<1> HIDE DEF f
<1>2. ASSUME NEW s, activeByRes' = Release(s), UNCHANGED fragments PROVE Spared
  BY <1>1, <1>2 DEF Release, TypeOK
<1>3. ASSUME UNCHANGED <<activeByRes, fragments>> PROVE Spared
  BY <1>3
<1>4. ASSUME NEW x, endAssignment(x), UNCHANGED fragments PROVE Spared
  BY <1>2, <1>4 DEF endAssignment, giveBackLocked, requeueLocked, abandonLocked, completeLocked
<1>5. CASE RequesterNext
  <2>1. ASSUME NEW s, NEW x, NEW allow, NEW pref, NEW max,
               createRequest(s, x, allow, pref, max)
        PROVE  Spared
    BY <1>3, <2>1 DEF createRequest
  <2>2. ASSUME NEW x, CancelBeforeFirstFragment(x) PROVE Spared
    BY <1>2, <2>2 DEF CancelBeforeFirstFragment, abandonLocked
  <2>3. ASSUME NEW s, NEW x, NEW reaction, React(s, x, reaction) PROVE Spared
    BY <1>3, <2>3 DEF React
  <2> HIDE DEF Spared
  <2> QED BY <1>5, <2>1, <2>2, <2>3 DEF RequesterNext, CreateRequest, CreateTargetedRequest
<1>6. ASSUME NEW s \in Answerers, Connected(s) PROVE Spared
  BY <1>3, <1>4, <1>6 DEF Connected, RegisterResponder, UnregisterResponder,
       MarkResponderAvailable, ResumeResponder, Receive
<1>7. ASSUME NEW s \in Answerers, Answering(s) PROVE Spared
  <2>1. s \in Sessions /\ s \in Responders /\ s # f
    BY <1>1, SessionsAssumption DEF Responders
  <2>2. ASSUME NEW q \in ClientSeqs, NEW n \in FragmentSizes, SubmitFragment(s, q, n)
        PROVE  Spared
    <3>1. PICK x \in Requests : x = activeByRes[s]
      BY <1>1, <2>1, <2>2 DEF SubmitFragment, TypeOK
    <3>2. req[x].responder = s
      BY <1>1, <2>1, <3>1 DEF OneAssignment
    <3>3. \A y \in Requests \ {x} : fragments'[y] = fragments[y]
      BY <1>1, <2>2, <3>1 DEF SubmitFragment, TypeOK
    <3>4. activeByRes' = activeByRes \/ activeByRes' = Release(s)
      BY <2>2 DEF SubmitFragment
    <3>5. activeByRes'[f] \in {activeByRes[f], None}
      BY <1>1, <3>4 DEF Release, TypeOK
    <3> QED BY <2>1, <3>2, <3>3, <3>5
  <2>3. CASE Finish(s)
    BY <1>2, <2>3 DEF Finish, completeLocked
  <2>4. CASE Skip(s)
    BY <1>2, <2>4 DEF Skip, abandonLocked, requeueLocked
  <2> QED BY <1>7, <2>2, <2>3, <2>4 DEF Answering
<1>8. CASE tryAssignStep
  <2>1. PICK i \in DOMAIN queue, j \in DOMAIN available : AssignPair(i, j)
    BY <1>8 DEF tryAssignStep
  <2>2. available[j] \in Sessions /\ available[j] # f
    BY <1>1, <2>1 DEF TypeOK
  <2>3. activeByRes'[f] = activeByRes[f]
    BY <1>1, <2>1, <2>2 DEF AssignPair, TypeOK
  <2>4. UNCHANGED fragments
    BY <2>1 DEF AssignPair
  <2> QED BY <2>3, <2>4
<1>9. CASE tryAssignReturn
  BY <1>3, <1>9 DEF tryAssignReturn
<1>10. ASSUME NEW x \in Requests, Elapse(x) PROVE Spared
  BY <1>3, <1>10 DEF Elapse
<1>11. ASSUME NEW x \in Requests, SweepTimeouts(x) PROVE Spared
  BY <1>4, <1>11 DEF SweepTimeouts
<1> HIDE DEF Spared
<1> QED BY <1>5, <1>6, <1>7, <1>8, <1>9, <1>10, <1>11 DEF Others

\* The goroutine calls what the service lets it call, so that a step here is a step
\* of the service.
LEMMA FallbackStep ==
  ASSUME FallbackInv, FallbackNext
  PROVE  [Next]_vars
<1>1. ASSUME NEW r \in Requests, Watch(r) \/ submitAccepted(r) \/ upstreamEnds(r)
      PROVE  [Next]_vars
  <2>1. FallbackSession(r) \in Responders
    BY FallbackHolder DEF FallbackInv
  <2>2. ASSUME Answering(FallbackSession(r)) PROVE Next
    BY <2>1, <2>2 DEF Next, ResponderNext
  <2>3. CASE attemptAcquired(r)
    <3>1. ~ByPersona(r)
      BY <2>3 DEF attemptAcquired, FallbackInv, Watched
    <3> QED BY <2>3, <3>1 DEF attemptAcquired, Next, ResponderNext
  <2>4. CASE submitAccepted(r)
    BY <2>2, <2>4 DEF submitAccepted, Answering
  <2>5. CASE closeSubmitted(r)
    BY <2>2, <2>5 DEF closeSubmitted, Answering
  <2>6. CASE closeEmpty(r)
    BY <2>2, <2>6 DEF closeEmpty, Answering
  <2> QED BY <1>1, <2>3, <2>4, <2>5, <2>6
          DEF Watch, scheduleFallback, attemptRefused, keepWatching, submitRefused,
              upstreamEnds
<1>2. ASSUME Others PROVE Next
  <2>1. Answerers \subseteq Responders
    BY SessionsAssumption DEF Responders
  <2> QED BY <1>2, <2>1 DEF Others, Next, ResponderNext
<1> QED BY <1>1, <1>2 DEF FallbackNext

\* What everybody else does leaves the answers and the assignments of the fallback as
\* they are, or ends them.
LEMMA OthersKeep ==
  ASSUME FallbackInv, Others, UNCHANGED watcherVars, Inv', AllMove, NEW r \in Requests
  PROVE  AttendedOf(r)' /\ WholeOf(r)'
<1> DEFINE f == FallbackSession(r)
<1>1. Inv /\ AttendedOf(r) /\ WholeOf(r) /\ watcher' = watcher /\ seq' = seq
  BY DEF FallbackInv, watcherVars
<1>2. /\ activeByRes'[f] \in {activeByRes[f], None}
      /\ req[r].responder = f => fragments'[r] = fragments[r]
  BY <1>1, OthersSpare
<1>3. /\ activeByRes[f] = r <=> req[r].status \in Held /\ req[r].responder = f
      /\ activeByRes'[f] = r <=> req'[r].status \in Held /\ req'[r].responder = f
      /\ f # None /\ r # None
  BY <1>1, FallbackHolder, FallbackHolderNext, RequestsAssumption
<1>4. AttendedOf(r)'
  BY <1>1, <1>2 DEF AttendedOf
<1>5. ASSUME req'[r].responder = f PROVE req[r].responder = f
  <2>1. CASE req'[r].status \in Held
    BY <1>2, <1>3, <1>5, <2>1
  <2>2. CASE req'[r].status \notin Held
    <3>1. req'[r].status \in Completed /\ req[r] \in RequestType
      BY <1>1, <1>3, <1>5, <2>2 DEF Inv, Life, OneAssignment, TypeOK
    <3>2. CASE Reacts(r)
      BY <1>5, <3>1, <3>2 DEF Reacts, RequestType
    <3>3. ~Waits(r)
      BY <3>1 DEF Waits, Completed
    <3> QED BY <1>5, <3>2, <3>3 DEF AllMove, Moves, Untouched, Commits, Ends
  <2> QED BY <2>1, <2>2
<1>6. WholeOf(r)'
  BY <1>1, <1>2, <1>5 DEF WholeOf
<1> QED BY <1>4, <1>6

\* A step of the goroutine of request x leaves the other requests alone.
LEMMA OwnOnly ==
  ASSUME FallbackInv, NEW x \in Requests,
         Watch(x) \/ submitAccepted(x) \/ upstreamEnds(x),
         NEW r \in Requests \ {x}
  PROVE  /\ req'[r] = req[r] /\ fragments'[r] = fragments[r]
         /\ watcher'[r] = watcher[r] /\ seq'[r] = seq[r]
<1>1. Inv /\ TypeOK /\ WatcherTypes
  BY DEF FallbackInv, Inv
<1>2. watcher'[r] = watcher[r] /\ seq'[r] = seq[r]
  BY <1>1 DEF WatcherTypes, Watch, scheduleFallback, attemptAcquired, attemptRefused,
       keepWatching, submitRefused, closeSubmitted, closeEmpty, submitAccepted,
       upstreamEnds, Goto
<1>3. activeByRes[FallbackSession(x)] \in {x, None}
  BY <1>1, FallbackHolder
<1> DEFINE Same == req'[r] = req[r] /\ fragments'[r] = fragments[r]
<1>4. ASSUME UNCHANGED vars PROVE Same
  BY <1>4 DEF vars
<1>5. ASSUME attemptAcquired(x) PROVE Same
  BY <1>1, <1>5 DEF attemptAcquired, AcquireFallbackAssignment, TypeOK
<1>6. ASSUME submitAccepted(x) PROVE Same
  BY <1>1, <1>3, <1>6, SMTT(30) DEF submitAccepted, SubmitFragment, TypeOK
<1>7. ASSUME Finish(FallbackSession(x)) PROVE Same
  BY <1>1, <1>3, <1>7 DEF Finish, completeLocked, TypeOK
<1>8. ASSUME Skip(FallbackSession(x)) PROVE Same
  BY <1>1, <1>3, <1>8 DEF Skip, abandonLocked, requeueLocked, TypeOK
<1>9. Same
  BY <1>4, <1>5, <1>6, <1>7, <1>8 DEF Watch, scheduleFallback, attemptRefused, keepWatching,
       submitRefused, closeSubmitted, closeEmpty, upstreamEnds
<1> QED BY <1>2, <1>9

\* A step of the goroutine keeps its own assignment attended and its answer whole.
LEMMA OwnKeeps ==
  ASSUME FallbackInv, NEW r \in Requests, Inv', AllMove,
         Watch(r) \/ submitAccepted(r) \/ upstreamEnds(r)
  PROVE  AttendedOf(r)' /\ WholeOf(r)'
<1> DEFINE f == FallbackSession(r)
<1>1. /\ Inv /\ TypeOK /\ WatcherTypes /\ AttendedOf(r) /\ WholeOf(r)
      /\ req[r] \in RequestType /\ fragments[r] \in Seq(FragmentType)
      /\ watcher[r] \in WatcherState /\ seq[r] \in Nat \ {0}
  BY DEF FallbackInv, Inv, TypeOK, WatcherTypes
<1>2. /\ activeByRes[f] \in {r, None} /\ activeByRes'[f] \in {r, None}
      /\ activeByRes[f] = r <=> req[r].status \in Held /\ req[r].responder = f
      /\ activeByRes'[f] = r <=> req'[r].status \in Held /\ req'[r].responder = f
      /\ f # None /\ r # None /\ f \in Responders
  BY <1>1, FallbackHolder, FallbackHolderNext, RequestsAssumption
<1>3. ASSUME UNCHANGED <<vars, seq>>, watcher[r] \notin {"upstream", "closing"}
      PROVE  AttendedOf(r)' /\ WholeOf(r)'
  BY <1>1, <1>3 DEF AttendedOf, WholeOf, vars
<1>4. CASE scheduleFallback(r) \/ attemptRefused(r) \/ keepWatching(r)
  BY <1>3, <1>4 DEF scheduleFallback, attemptRefused, keepWatching
<1>5. CASE submitRefused(r) \/ upstreamEnds(r)
  <2>1. UNCHANGED <<vars, seq>> /\ watcher'[r] = "closing"
    BY <1>1, <1>5 DEF submitRefused, upstreamEnds, Goto, WatcherTypes
  <2> QED BY <1>1, <2>1 DEF AttendedOf, WholeOf, vars
<1>6. CASE attemptAcquired(r)
  <2>1. watcher'[r] = "upstream" /\ seq'[r] = 1
    BY <1>1, <1>6 DEF attemptAcquired, Goto, WatcherTypes
  <2>2. fragments'[r] = <<>>
    BY <1>6 DEF attemptAcquired, AcquireFallbackAssignment, FallbackMayAcquire
  <2> QED BY <2>1, <2>2 DEF AttendedOf, WholeOf
<1>7. CASE submitAccepted(r)
  <2>1. watcher'[r] = "upstream" /\ seq'[r] = seq[r] + 1
    BY <1>1, <1>7 DEF submitAccepted, WatcherTypes
  <2>2. PICK n \in FragmentSizes : SubmitFragment(f, seq[r], n)
    BY <1>7 DEF submitAccepted
  <2>3. PICK e : e = [from |-> f, seq |-> seq[r], size |-> n]
    OBVIOUS
  <2>4. /\ activeByRes[f] = r /\ e.seq = seq[r] /\ e \in FragmentType
        /\ fragments'[r] = Append(fragments[r], e)
    BY <1>1, <1>2, <1>7, <2>2, <2>3 DEF SubmitFragment, FragmentType, TypeOK, submitAccepted
  <2>5. /\ Len(fragments[r]) = seq[r] - 1
        /\ \A i \in DOMAIN fragments[r] : fragments[r][i].seq = i
    BY <1>1, <1>2, <2>4 DEF WholeOf
  <2>6. ASSUME NEW S, NEW s \in Seq(S), NEW k \in Nat \ {0}, Len(s) = k - 1, NEW y \in S
        PROVE  /\ Len(Append(s, y)) = k
               /\ \A i \in DOMAIN Append(s, y) :
                    IF i = k THEN Append(s, y)[i] = y
                             ELSE i \in DOMAIN s /\ Append(s, y)[i] = s[i]
    BY <2>6
  <2>7. /\ Len(fragments'[r]) = seq[r]
        /\ \A i \in DOMAIN fragments'[r] :
             IF i = seq[r] THEN fragments'[r][i] = e
                           ELSE i \in DOMAIN fragments[r] /\ fragments'[r][i] = fragments[r][i]
    BY <1>1, <2>4, <2>5, <2>6
  <2>8. \A i \in DOMAIN fragments'[r] : fragments'[r][i].seq = i
    BY <2>4, <2>5, <2>7
  <2>9. seq[r] = (seq[r] + 1) - 1
    BY <1>1
  <2> QED BY <2>1, <2>7, <2>8, <2>9 DEF AttendedOf, WholeOf
<1>8. CASE closeSubmitted(r) \/ closeEmpty(r)
  <2>1. UNCHANGED seq
    BY <1>8 DEF closeSubmitted, closeEmpty
  <2>2. CASE activeByRes[f] = None /\ UNCHANGED vars
    BY <1>1, <2>1, <2>2 DEF AttendedOf, WholeOf, vars
  <2>3. CASE Finish(f)
    <3>1. /\ req'[r] = Finished(req[r], "stop") /\ fragments' = fragments
          /\ activeByRes[f] = r
      BY <1>1, <1>2, <2>3 DEF Finish, completeLocked, TypeOK
    <3>2. req'[r].status \notin Held /\ req'[r].responder = req[r].responder
      BY <1>1, <3>1 DEF Finished, RequestType, Held
    <3> QED BY <1>1, <1>2, <2>1, <3>1, <3>2 DEF AttendedOf, WholeOf
  <2>4. CASE Skip(f)
    <3>1. activeByRes[f] = r /\ req'[r] \in {Abandoned(req[r]), Requeued(req[r])}
      BY <1>1, <1>2, <2>4 DEF Skip, abandonLocked, requeueLocked, TypeOK
    <3>2. req'[r].responder = None
      BY <1>1, <3>1 DEF Abandoned, Requeued, RequestType
    <3> QED BY <1>2, <3>2 DEF AttendedOf, WholeOf
  <2> QED BY <1>8, <2>2, <2>3, <2>4 DEF closeSubmitted, closeEmpty
<1> QED BY <1>4, <1>5, <1>6, <1>7, <1>8 DEF Watch

\* Every step keeps the invariant.
LEMMA FallbackKept == FallbackInv /\ [FallbackNext]_allVars => FallbackInv'
<1>1. ASSUME FallbackInv, UNCHANGED allVars PROVE FallbackInv'
  <2>1. Inv'
    BY <1>1, NextInv DEF FallbackInv, allVars
  <2> QED BY <1>1, <2>1 DEF FallbackInv, allVars, vars, watcherVars, WatcherTypes,
        Watched, AttendedOf, WholeOf, ByPersona
<1>2. ASSUME FallbackInv, FallbackNext PROVE FallbackInv'
  <2>1. Inv /\ [Next]_vars
    BY <1>2, FallbackStep DEF FallbackInv
  <2>2. Inv' /\ AllMove
    BY <2>1, NextInv, NextMoves
  <2>3. WatcherTypes'
    <3>1. WatcherTypes
      BY <1>2 DEF FallbackInv
    <3>2. ASSUME NEW x \in Requests, Watch(x) \/ submitAccepted(x) \/ upstreamEnds(x)
          PROVE  /\ \/ watcher' = watcher
                    \/ \E st \in WatcherState : watcher' = [watcher EXCEPT ![x] = st]
                 /\ seq' = seq \/ \E n \in {1, seq[x] + 1} : seq' = [seq EXCEPT ![x] = n]
      <4>1. watcher' = watcher
            \/ \E st \in WatcherState : watcher' = [watcher EXCEPT ![x] = st]
        BY <3>2, Zenon DEF Watch, scheduleFallback, attemptAcquired, attemptRefused, keepWatching,
             submitRefused, closeSubmitted, closeEmpty, submitAccepted, upstreamEnds, Goto,
             WatcherState, Returned
      <4>2. seq' = seq \/ \E n \in {1, seq[x] + 1} : seq' = [seq EXCEPT ![x] = n]
        BY <3>1, <3>2, Zenon DEF Watch, scheduleFallback, attemptAcquired, attemptRefused, keepWatching,
             submitRefused, closeSubmitted, closeEmpty, submitAccepted, upstreamEnds, WatcherTypes
      <4> QED BY <4>1, <4>2
    <3>3. ASSUME NEW x \in Requests PROVE {1, seq[x] + 1} \subseteq Nat \ {0}
      BY <3>1 DEF WatcherTypes
    <3> QED BY <1>2, <3>1, <3>2, <3>3 DEF FallbackNext, WatcherTypes, watcherVars
  <2>4. ASSUME NEW r \in Requests PROVE Watched(r)'
    <3>1. Watched(r) /\ WatcherTypes
      BY <1>2 DEF FallbackInv
    <3>2. watcher'[r] # "none" => req[r].status # "absent" /\ ~ByPersona(r)
      <4>1. CASE Others /\ UNCHANGED watcherVars
        BY <3>1, <4>1 DEF Watched, watcherVars
      <4>2. ASSUME NEW x \in Requests, Watch(x) \/ submitAccepted(x) \/ upstreamEnds(x),
                   r # x
            PROVE  watcher'[r] = watcher[r]
        BY <1>2, <4>2, OwnOnly
      <4>3. ASSUME Watch(r) \/ submitAccepted(r) \/ upstreamEnds(r)
            PROVE  watcher[r] # "none" \/ (req[r].status # "absent" /\ ~ByPersona(r))
        BY <4>3 DEF Watch, scheduleFallback, attemptAcquired, attemptRefused, keepWatching,
             submitRefused, closeSubmitted, closeEmpty, submitAccepted, upstreamEnds
      <4> QED BY <1>2, <3>1, <4>1, <4>2, <4>3 DEF FallbackNext, Watched
    <3>3. req[r].status # "absent" => req'[r].status # "absent" /\ req'[r].asker = req[r].asker
      BY <2>1, <2>2, AskedStays DEF AllMove, SameQuestion
    <3> QED BY <3>2, <3>3 DEF Watched, ByPersona
  <2>5. ASSUME NEW r \in Requests PROVE AttendedOf(r)' /\ WholeOf(r)'
    <3>1. CASE Others /\ UNCHANGED watcherVars
      BY <1>2, <2>2, <3>1, OthersKeep
    <3>2. ASSUME NEW x \in Requests, Watch(x) \/ submitAccepted(x) \/ upstreamEnds(x),
                 r # x
          PROVE  AttendedOf(r)' /\ WholeOf(r)'
      <4>1. /\ req'[r] = req[r] /\ fragments'[r] = fragments[r]
            /\ watcher'[r] = watcher[r] /\ seq'[r] = seq[r]
        BY <1>2, <3>2, OwnOnly
      <4>2. /\ activeByRes[FallbackSession(r)] \in {r, None}
            /\ activeByRes'[FallbackSession(r)] \in {r, None}
            /\ activeByRes'[FallbackSession(r)] = r <=> activeByRes[FallbackSession(r)] = r
        BY <2>1, <2>2, <4>1, FallbackHolder, FallbackHolderNext
      <4>3. AttendedOf(r) /\ WholeOf(r)
        BY <1>2 DEF FallbackInv
      <4> QED BY <4>1, <4>2, <4>3, RequestsAssumption DEF AttendedOf, WholeOf
    <3>3. CASE Watch(r) \/ submitAccepted(r) \/ upstreamEnds(r)
      BY <1>2, <2>2, <3>3, OwnKeeps
    <3> QED BY <1>2, <3>1, <3>2, <3>3 DEF FallbackNext
  <2> QED BY <2>2, <2>3, <2>4, <2>5 DEF FallbackInv
<1> QED BY <1>1, <1>2

\* The invariant holds in every state that the service and its fallback reach.
THEOREM FallbackInvariance == FallbackSpec => []FallbackInv
<1>1. FallbackInit => FallbackInv
  <2> SUFFICES ASSUME FallbackInit PROVE FallbackInv
    OBVIOUS
  <2>1. Inv
    BY InitInv DEF FallbackInit
  <2>2. WatcherTypes
    BY DEF FallbackInit, WatcherTypes, WatcherState
  <2>3. ASSUME NEW r \in Requests PROVE Watched(r) /\ AttendedOf(r) /\ WholeOf(r)
    <3>1. watcher[r] = "none" /\ req[r].responder = None /\ activeByRes[FallbackSession(r)] = None
          /\ FallbackSession(r) # None
      BY <2>1, FallbackHolder DEF FallbackInit, Init, AbsentRequest
    <3> QED BY <3>1 DEF Watched, AttendedOf, WholeOf
  <2> QED BY <2>1, <2>2, <2>3 DEF FallbackInv
<1> QED BY <1>1, FallbackKept, PTL DEF FallbackSpec

\* The fallback at work is a behaviour of the service: everything proved of the service
\* holds while the goroutines of scheduleFallback call it in their own order.
THEOREM FallbackImplementsService == FallbackSpec => Spec
<1>1. FallbackInit => Init
  BY DEF FallbackInit
<1>2. FallbackInv /\ [FallbackNext]_allVars => [Next]_vars
  <2>1. UNCHANGED allVars => [Next]_vars
    BY DEF allVars
  <2> QED BY <2>1, FallbackStep
<1> QED BY <1>1, <1>2, FallbackInvariance, PTL DEF FallbackSpec, Spec

\* Whatever people, the sweeper and the client do between two calls of the goroutine,
\* an assignment of the fallback has a goroutine in runFallbackResponder behind it.
THEOREM AssignmentAttendedHolds == FallbackSpec => []AssignmentAttended
<1>1. FallbackInv => AssignmentAttended
  BY DEF FallbackInv, AttendedOf, AssignmentAttended
<1> QED BY <1>1, FallbackInvariance, PTL

\* An answer of the fallback is the beginning of what one upstream call has sent,
\* although an attempt may fail after another, each with chunks numbered from one.
THEOREM FallbackAnswerWholeHolds == FallbackSpec => []FallbackAnswerWhole
<1>1. FallbackInv => FallbackAnswerWhole
  BY DEF FallbackInv, WholeOf, FallbackAnswerWhole
<1> QED BY <1>1, FallbackInvariance, PTL
=============================================================================
