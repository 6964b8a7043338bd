-------------------------- MODULE PersonaWorkProofs -------------------------
(***************************************************************************)
(* What the goroutines of the personas keep, for every number of requests, *)
(* sessions and personas: they are callers that the service of module      *)
(* Service allows, a persona answers the question it has read and is not   *)
(* left idle, and no conversation is forgotten.                            *)
(***************************************************************************)
EXTENDS PersonaWork, ServiceProofs

\* A request whose output limit is smaller than a chunk.
SmallLimit ==
  \E r \in Requests, n \in FragmentSizes : req[r].status # "absent" /\ req[r].limit < n

Offered(b) == b \in ToSet(available)

\* Between two selects the goroutine is neither offered nor sent anything, and the
\* session answers the request that was received or nothing.
AtWork == {"mark", "snapshot", "model", "submit", "finish", "skip", "backoff"}
WorkOf(b) ==
  /\ ~Offered(b) /\ inbox[b] = <<>> /\ activeByRes[b] \in {None, job[b]}
  /\ driver[b] \notin {"mark", "backoff"} => job[b] \in Requests
  /\ activeByRes[b] # None =>
       /\ driver[b] # "backoff"
       /\ driver[b] = "mark" => SmallLimit
       /\ driver[b] \in {"snapshot", "model", "skip"} => fragments[job[b]] = <<>>
       /\ driver[b] \in {"submit", "finish"} => Len(fragments[job[b]]) = chunk[b] - 1
       /\ driver[b] = "finish" /\ fragments[job[b]] = <<>> => SmallLimit

\* At the select of runResponder: offered, or with an assignment in the channel, or
\* left over by a request with a small limit.
WaitOf(b) ==
  \/ Offered(b) /\ inbox[b] = <<>>
  \/ /\ ~Offered(b)
     /\ \E r \in Requests : /\ inbox[b] = <<r>> /\ activeByRes[b] \in {None, r}
                            /\ activeByRes[b] = r => fragments[r] = <<>>
  \/ ~Offered(b) /\ inbox[b] = <<>> /\ SmallLimit

BotSound(b) ==
  /\ driver[b] \in {"none", "ended"} => b \notin registered
  /\ driver[b] = "wait" => WaitOf(b)
  /\ driver[b] \in AtWork => WorkOf(b)

\* A conversation is at a request that was asked; one that follows up or parts has an
\* answer of a person, and one that resumes has reserved its question for a person.
PosterSound(a) ==
  /\ poster[a] \in {"asked"} \cup Talking =>
       current[a] \in Requests /\ req[current[a]].status # "absent"
  /\ poster[a] \in {"following", "parting"} => AnsweredByPerson(current[a])
  /\ poster[a] = "resuming" => req[current[a]].preferred \in People

InConversation == {a \in PersonaAskers : poster[a] \in Talking}

WorkTypes ==
  /\ driver \in [Bots -> DriverStates]
  /\ job \in [Bots -> Requests \cup {None}]
  /\ chunk \in [Bots -> Nat]
  /\ poster \in [PersonaAskers -> PosterStates]
  /\ current \in [PersonaAskers -> Requests \cup {None}]
  /\ registered \subseteq Answerers

Reserved(r) == req[r].status = "queued" /\ req[r].preferred # None
WatchedBy(a, r) == current[a] = r /\ poster[a] \in {"waiting", "giving up", "resuming"}

\* The inductive invariant: that of the service, of every goroutine of a responder and
\* of every conversation.
WorkInv ==
  /\ Inv
  /\ WorkTypes
  /\ \A b \in Bots : BotSound(b)
  /\ \A a \in PersonaAskers : PosterSound(a)
  /\ IsFiniteSet(InConversation)
  /\ PostingAccounted
  /\ FollowUpWatched

-----------------------------------------------------------------------------
(* What the calls of one session do to another *)

\* Session b loses its assignment or keeps it, and nothing else about it changes.
Spared(b) ==
  /\ Offered(b)' <=> Offered(b)
  /\ inbox'[b] = inbox[b]
  /\ b \in registered' <=> b \in registered
  /\ activeByRes'[b] \in {activeByRes[b], None}
  /\ activeByRes[b] # None => fragments'[activeByRes[b]] = fragments[activeByRes[b]]

\* Session b is taken from the pool; an empty channel takes the assignment.
Handed(b) ==
  /\ Offered(b) /\ ~Offered(b)'
  /\ registered' = registered
  /\ inbox[b] = <<>> =>
       \E r \in Requests : /\ inbox'[b] = <<r>> /\ activeByRes'[b] = r
                           /\ fragments'[r] = <<>>

\* The transitions of a request, by whomever, with the pool left alone.
LEMMA TransitionSpares ==
  ASSUME Inv, NEW b \in Sessions, UNCHANGED <<fragments, available, registered, inbox>>,
         activeByRes' = activeByRes \/ \E s : activeByRes' = Release(s)
  PROVE  Spared(b)
<1>1. b \in Responders /\ TypeOK
  BY DEF Responders, Inv
<1>2. activeByRes'[b] \in {activeByRes[b], None}
  BY <1>1 DEF Release, TypeOK
<1> QED BY <1>2 DEF Spared, Offered

\* What an end of an assignment does to activeByRes.
LEMMA EndReleases ==
  ASSUME NEW r, endAssignment(r) \/ giveBackLocked(r) \/ requeueLocked(r) \/ abandonLocked(r)
                \/ \E reason : completeLocked(r, reason)
  PROVE  \E s : activeByRes' = Release(s)
BY DEF endAssignment, giveBackLocked, requeueLocked, abandonLocked, completeLocked

\* Callers that are no responders, the clock and the sweeper.
LEMMA RestSpares ==
  ASSUME Inv, NEW b \in Sessions,
         \/ \E s, r, allow, pref, max : createRequest(s, r, allow, pref, max)
         \/ \E r : CancelBeforeFirstFragment(r)
         \/ \E r : Elapse(r) \/ SweepTimeouts(r)
         \/ tryAssignReturn
         \/ UNCHANGED vars
  PROVE  Spared(b)
<1>1. ASSUME UNCHANGED <<fragments, available, registered, inbox, activeByRes>>
      PROVE  Spared(b)
  BY <1>1, TransitionSpares
<1>2. ASSUME NEW s, NEW r, NEW allow, NEW pref, NEW max, createRequest(s, r, allow, pref, max)
      PROVE  Spared(b)
  BY <1>1, <1>2 DEF createRequest
<1>3. ASSUME NEW r, CancelBeforeFirstFragment(r) PROVE Spared(b)
  <2>1. \E s : activeByRes' = Release(s)
    BY <1>3, EndReleases DEF CancelBeforeFirstFragment
  <2> QED BY <1>3, <2>1, TransitionSpares DEF CancelBeforeFirstFragment
<1>4. ASSUME NEW r, Elapse(r) PROVE Spared(b)
  BY <1>1, <1>4 DEF Elapse
<1>5. ASSUME NEW r, SweepTimeouts(r) PROVE Spared(b)
  <2>1. \E s : activeByRes' = Release(s)
    BY <1>5, EndReleases DEF SweepTimeouts
  <2> QED BY <1>5, <2>1, TransitionSpares DEF SweepTimeouts
<1>6. CASE tryAssignReturn
  BY <1>1, <1>6 DEF tryAssignReturn
<1>7. CASE UNCHANGED vars
  BY <1>1, <1>7 DEF vars
<1> QED BY <1>2, <1>3, <1>4, <1>5, <1>6, <1>7

\* The calls of one responder leave every other session alone.
LEMMA CallsSpare ==
  ASSUME Inv, NEW b \in Sessions, NEW s \in Sessions, s # b,
         \/ RegisterResponder(s) \/ UnregisterResponder(s) \/ Receive(s)
         \/ \E accept : MarkResponderAvailable(s, accept)
         \/ ResumeResponder(s) \/ Answering(s)
  PROVE  Spared(b)
<1>1. TypeOK /\ OneAssignment /\ b \in Responders /\ s \in Responders /\ available \in Seq(Sessions)
  BY DEF Inv, Life, TypeOK, Responders
<1>2. CASE RegisterResponder(s)
  BY <1>1, <1>2 DEF RegisterResponder, Spared, Offered, TypeOK
<1>3. CASE UnregisterResponder(s)
  <2>1. ToSet(available') = ToSet(available) \ {s}
    BY <1>1, <1>3, RemoveValueFacts DEF UnregisterResponder
  <2>2. activeByRes' = activeByRes \/ \E z : activeByRes' = Release(z)
    BY <1>3, EndReleases DEF UnregisterResponder
  <2>3. activeByRes'[b] \in {activeByRes[b], None}
    BY <1>1, <2>2 DEF Release, TypeOK
  <2>4. inbox'[b] = inbox[b] /\ (b \in registered' <=> b \in registered) /\ UNCHANGED fragments
    BY <1>1, <1>3 DEF UnregisterResponder, TypeOK
  <2> QED BY <2>1, <2>3, <2>4 DEF Spared, Offered
<1>4. CASE Receive(s)
  BY <1>1, <1>4 DEF Receive, Spared, Offered, TypeOK
<1>5. ASSUME available' = available \/ becomeAvailable(s),
             UNCHANGED <<fragments, activeByRes, registered, inbox>>
      PROVE  Spared(b)
  <2>1. Offered(b)' <=> Offered(b)
    <3>1. available' = available \/ available' = Append(available, s)
      BY <1>5 DEF becomeAvailable
    <3>2. ToSet(Append(available, s)) = ToSet(available) \cup {s}
      BY <1>1, AppendFacts
    <3> QED BY <3>1, <3>2 DEF Offered
  <2> QED BY <1>5, <2>1 DEF Spared
<1>6. ASSUME NEW accept, MarkResponderAvailable(s, accept) PROVE Spared(b)
  BY <1>5, <1>6 DEF MarkResponderAvailable
<1>7. CASE ResumeResponder(s)
  BY <1>5, <1>7 DEF ResumeResponder
<1>8. CASE Answering(s)
  <2>1. ASSUME NEW q \in ClientSeqs, NEW n \in FragmentSizes, SubmitFragment(s, q, n)
        PROVE  Spared(b)
    <3>1. activeByRes' = activeByRes \/ activeByRes' = Release(s)
      BY <2>1 DEF SubmitFragment
    <3>2. activeByRes'[b] \in {activeByRes[b], None}
      BY <1>1, <3>1 DEF Release, TypeOK
    <3>3. ASSUME activeByRes[b] # None
          PROVE  fragments'[activeByRes[b]] = fragments[activeByRes[b]]
      <4>1. PICK x \in Requests : x = activeByRes[b]
        BY <1>1, <3>3 DEF TypeOK
      <4>2. PICK y \in Requests : y = activeByRes[s]
        BY <1>1, <2>1 DEF TypeOK, SubmitFragment
      <4>3. x # y
        BY <1>1, <4>1, <4>2 DEF OneAssignment
      <4> QED BY <1>1, <2>1, <4>1, <4>2, <4>3 DEF SubmitFragment, TypeOK
    <3>4. UNCHANGED <<available, registered, inbox>>
      BY <2>1 DEF SubmitFragment
    <3> QED BY <3>2, <3>3, <3>4 DEF Spared, Offered
  <2>2. CASE Finish(s)
    <3>1. \E z : activeByRes' = Release(z)
      BY <2>2, EndReleases DEF Finish
    <3> QED BY <2>2, <3>1, TransitionSpares DEF Finish
  <2>3. CASE Skip(s)
    <3>1. \E z : activeByRes' = Release(z)
      BY <2>3, EndReleases DEF Skip
    <3> QED BY <2>3, <3>1, TransitionSpares DEF Skip
  <2> QED BY <1>8, <2>1, <2>2, <2>3 DEF Answering
<1> QED BY <1>2, <1>3, <1>4, <1>6, <1>7, <1>8

\* One iteration of tryAssignLocked.
LEMMA MatchSpares ==
  ASSUME Inv, NEW b \in Sessions, tryAssignStep
  PROVE  Spared(b) \/ Handed(b)
<1>1. PICK i \in DOMAIN queue, j \in DOMAIN available : AssignPair(i, j)
  BY DEF tryAssignStep
<1>2. PICK r \in Requests, s \in Sessions : r = queue[i] /\ s = available[j]
  BY <1>1 DEF Inv, TypeOK
<1>3. /\ TypeOK /\ b \in Responders /\ s \in Responders /\ available \in Seq(Sessions)
      /\ NoRepeat(available) /\ req[r].status = "queued" /\ fragments[r] = <<>>
      /\ activeByRes[s] = None /\ inbox[b] \in Seq(Requests)
  <2>1. NoRepeat(available) /\ activeByRes[s] = None
    BY <1>2 DEF Inv, PoolConsistent, NoRepeat
  <2>2. req[r].status = "queued"
    BY <1>2 DEF Inv, Life, QueueExact
  <2>3. fragments[r] = <<>>
    BY <2>2 DEF Inv, Life, HoldUntilFirstFragment, HoldsUntilFirstFragment, Completed
  <2> QED BY <2>1, <2>2, <2>3 DEF Inv, TypeOK, Responders
<1>4. ToSet(available') = ToSet(available) \ {s} /\ s \in ToSet(available)
  <2>1. available' = RemoveIndex(available, j) /\ j \in DOMAIN available
    BY <1>1 DEF AssignPair
  <2>2. ToSet(RemoveIndex(available, j)) = ToSet(available) \ {available[j]}
    BY <1>3, <2>1, RemoveIndexFacts
  <2>3. available[j] \in ToSet(available)
    BY <2>1 DEF ToSet
  <2> QED BY <1>2, <2>1, <2>2, <2>3
<1>5. UNCHANGED <<fragments, registered>>
  BY <1>1 DEF AssignPair
<1>6. CASE b # s
  <2>1. activeByRes'[b] = activeByRes[b] /\ inbox'[b] = inbox[b]
    BY <1>1, <1>2, <1>3, <1>6 DEF AssignPair, TypeOK
  <2> QED BY <1>4, <1>5, <1>6, <2>1 DEF Spared, Offered
<1>7. CASE b = s
  <2>1. ASSUME inbox[b] = <<>> PROVE inbox'[b] = <<r>> /\ activeByRes'[b] = r
    <3>1. Len(inbox[s]) < ChannelCap /\ ~(Len(inbox[s]) >= ChannelCap)
      BY <1>7, <2>1, LimitsAssumption
    <3>2. /\ activeByRes' = [activeByRes EXCEPT ![s] = r]
          /\ inbox' = [inbox EXCEPT ![s] = Append(inbox[s], r)]
      BY <1>1, <1>2, <3>1 DEF AssignPair
    <3>3. \A x \in Requests : Append(<<>>, x) = <<x>>
      OBVIOUS
    <3> QED BY <1>3, <1>7, <2>1, <3>2, <3>3 DEF TypeOK
  <2> QED BY <1>3, <1>4, <1>5, <1>7, <2>1 DEF Handed, Offered
<1> QED BY <1>6, <1>7

-----------------------------------------------------------------------------
(* The responders *)

\* Output limits do not change.
LEMMA SmallStays ==
  ASSUME Inv, AllMove, SmallLimit
  PROVE  SmallLimit'
<1>1. PICK r \in Requests, n \in FragmentSizes : req[r].status # "absent" /\ req[r].limit < n
  BY DEF SmallLimit
<1>2. req'[r].status # "absent" /\ req'[r].limit = req[r].limit
  BY <1>1, AskedStays DEF AllMove, SameQuestion
<1> QED BY <1>1, <1>2 DEF SmallLimit

\* What everybody else does keeps a persona sound wherever its goroutine is.
LEMMA BotKept ==
  ASSUME WorkInv, AllMove, NEW b \in Bots, BotSound(b), Spared(b) \/ Handed(b),
         driver'[b] = driver[b], job'[b] = job[b], chunk'[b] = chunk[b]
  PROVE  BotSound(b)'
<1>1. /\ Inv /\ TypeOK /\ PoolConsistent /\ b \in Sessions /\ b \in Responders
      /\ activeByRes[b] \in Requests \cup {None} /\ None \notin Requests
  BY SessionsAssumption, RequestsAssumption DEF WorkInv, Inv, TypeOK, Bots, Responders
<1>2. SmallLimit => SmallLimit'
  BY <1>1, SmallStays
<1>3. Offered(b) => b \in registered
  BY <1>1, PoolElems DEF Offered
<1>4. CASE Spared(b)
  <2>1. driver[b] \in {"none", "ended"} => b \notin registered'
    BY <1>4 DEF BotSound, Spared
  <2>2. ASSUME driver[b] = "wait" PROVE WaitOf(b)'
    <3>1. WaitOf(b)
      BY <2>2 DEF BotSound
    <3>2. CASE inbox[b] = <<>>
      BY <1>2, <1>4, <3>1, <3>2 DEF WaitOf, Spared
    <3>3. ASSUME NEW r \in Requests, inbox[b] = <<r>>, activeByRes[b] \in {None, r},
                 activeByRes[b] = r => fragments[r] = <<>>, ~Offered(b)
          PROVE  WaitOf(b)'
      <4>1. ~Offered(b)' /\ inbox'[b] = <<r>> /\ activeByRes'[b] \in {None, r}
        BY <1>4, <3>3 DEF Spared
      <4>2. activeByRes'[b] = r => fragments'[r] = <<>>
        BY <1>1, <1>4, <3>3 DEF Spared
      <4> QED BY <4>1, <4>2 DEF WaitOf
    <3> QED BY <3>1, <3>2, <3>3 DEF WaitOf
  <2>3. ASSUME driver[b] \in AtWork PROVE WorkOf(b)'
    <3>1. WorkOf(b)
      BY <2>3 DEF BotSound
    <3>2. /\ ~Offered(b)' /\ inbox'[b] = <<>> /\ activeByRes'[b] \in {None, job[b]}
          /\ activeByRes'[b] # None =>
               /\ activeByRes[b] # None /\ activeByRes[b] = job[b]
               /\ fragments'[job[b]] = fragments[job[b]]
      BY <1>4, <3>1 DEF Spared, WorkOf
    <3> QED BY <1>2, <3>1, <3>2 DEF WorkOf
  <2> QED BY <2>1, <2>2, <2>3 DEF BotSound
<1>5. CASE Handed(b)
  <2>1. Offered(b) /\ b \in registered /\ ~Offered(b)'
    BY <1>3, <1>5 DEF Handed
  <2>2. driver[b] \notin {"none", "ended"} \cup AtWork
    BY <2>1 DEF BotSound, WorkOf
  <2>3. ASSUME driver[b] = "wait" PROVE WaitOf(b)'
    <3>1. inbox[b] = <<>>
      BY <2>1, <2>3 DEF BotSound, WaitOf
    <3> QED BY <1>5, <2>1, <3>1 DEF Handed, WaitOf
  <2> QED BY <2>2, <2>3 DEF BotSound
<1> QED BY <1>4, <1>5

\* The session of a persona that answers: its request and its text.
LEMMA BotHolds ==
  ASSUME WorkInv, NEW b \in Bots
  PROVE  /\ b \in Sessions /\ b \in Responders /\ b \in Answerers /\ b \notin People
         /\ activeByRes[b] # None =>
              /\ activeByRes[b] \in Requests
              /\ req[activeByRes[b]].status \in Held /\ req[activeByRes[b]].responder = b
<1>1. b \in Sessions /\ b \in Responders /\ b \in Answerers /\ b \notin People
  BY SessionsAssumption DEF Bots, Responders, People
<1>2. activeByRes[b] \in Requests \cup {None} /\ OneAssignment
  BY <1>1 DEF WorkInv, Inv, TypeOK, Life
<1> QED BY <1>1, <1>2 DEF OneAssignment

\* The goroutine's own steps.
LEMMA BotDrives ==
  ASSUME WorkInv, NEW b \in Bots, Drive(b), Inv', AllMove
  PROVE  BotSound(b)'
<1>1. /\ Inv /\ TypeOK /\ PoolConsistent /\ OneAssignment /\ WorkTypes /\ BotSound(b)
      /\ b \in Sessions /\ b \in Responders /\ None \notin Requests
  BY BotHolds, RequestsAssumption DEF WorkInv, Inv, Life
<1>2. SmallLimit => SmallLimit'
  BY <1>1, SmallStays
<1>3. (Offered(b) => b \in registered) /\ (b \notin registered => activeByRes[b] = None)
  BY <1>1, PoolElems DEF Offered
<1>4. /\ driver[b] = "wait" => WaitOf(b)
      /\ driver[b] \in AtWork => WorkOf(b)
      /\ driver[b] \in {"none", "ended"} => b \notin registered
  BY <1>1 DEF BotSound
<1>5. ASSUME NEW st, Goto(b, st) PROVE driver'[b] = st
  BY <1>1, <1>5 DEF Goto, WorkTypes
<1>6. ASSUME UNCHANGED vars
      PROVE  /\ Offered(b)' = Offered(b) /\ inbox'[b] = inbox[b] /\ SmallLimit' = SmallLimit
             /\ activeByRes'[b] = activeByRes[b] /\ fragments' = fragments
  BY <1>6 DEF vars, Offered, SmallLimit
<1>7. ASSUME driver'[b] = "leave" PROVE BotSound(b)'
  BY <1>7 DEF BotSound, AtWork
<1>8. ASSUME driver'[b] \in AtWork, WorkOf(b)' PROVE BotSound(b)'
  BY <1>8 DEF BotSound, AtWork
<1>9. CASE startResponder(b)
  <2>1. driver'[b] = "mark" /\ b \notin registered
    BY <1>4, <1>5, <1>9 DEF startResponder
  <2>2. ~Offered(b)' /\ activeByRes'[b] = None /\ inbox'[b] = <<>>
    BY <1>1, <1>3, <1>9, <2>1 DEF startResponder, RegisterResponder, Offered, TypeOK
  <2> QED BY <1>8, <2>1, <2>2 DEF WorkOf, AtWork
<1>10. CASE markAvailable(b)
  <2>1. driver'[b] = "wait" /\ WorkOf(b)
    BY <1>4, <1>5, <1>10 DEF markAvailable, AtWork
  <2>2. MarkResponderAvailable(b, FALSE)
    BY <1>10 DEF markAvailable
  <2>3. CASE activeByRes[b] = None
    <3>1. Offered(b)'
      <4>1. available' = IF b \in ToSet(available) THEN available ELSE Append(available, b)
        BY <2>2, <2>3 DEF MarkResponderAvailable, becomeAvailable
      <4>2. ToSet(Append(available, b)) = ToSet(available) \cup {b}
        BY <1>1, AppendFacts DEF TypeOK
      <4> QED BY <4>1, <4>2 DEF Offered
    <3>2. inbox'[b] = <<>>
      BY <2>1, <2>2 DEF MarkResponderAvailable, WorkOf
    <3> QED BY <2>1, <3>1, <3>2 DEF BotSound, WaitOf, AtWork
  <2>4. CASE activeByRes[b] # None
    <3>1. UNCHANGED <<available, inbox>>
      BY <2>2, <2>4 DEF MarkResponderAvailable
    <3>2. SmallLimit'
      BY <1>2, <1>10, <2>1, <2>4 DEF WorkOf, markAvailable
    <3> QED BY <2>1, <3>1, <3>2 DEF BotSound, WaitOf, WorkOf, Offered, AtWork
  <2> QED BY <2>3, <2>4
<1>11. CASE receive(b)
  <2>1. driver'[b] = "snapshot" /\ WaitOf(b) /\ inbox[b] # <<>>
    BY <1>4, <1>5, <1>11 DEF receive, Receive
  <2>2. PICK r \in Requests : /\ ~Offered(b) /\ inbox[b] = <<r>> /\ activeByRes[b] \in {None, r}
                              /\ activeByRes[b] = r => fragments[r] = <<>>
    BY <2>1 DEF WaitOf
  <2>3. \A x \in Requests : Head(<<x>>) = x /\ Tail(<<x>>) = <<>>
    OBVIOUS
  <2>4. job'[b] = r /\ inbox'[b] = <<>> /\ UNCHANGED <<available, activeByRes, fragments>>
    BY <1>1, <1>11, <2>2, <2>3 DEF receive, Receive, WorkTypes, TypeOK
  <2> QED BY <1>1, <1>8, <2>1, <2>2, <2>4 DEF WorkOf, Offered, AtWork
<1>12. CASE done(b)
  BY <1>5, <1>7, <1>12 DEF done
<1>13. CASE backoffOver(b)
  <2>1. CASE driver'[b] = "mark"
    <3>1. WorkOf(b)' 
      BY <1>4, <1>6, <1>13, <2>1 DEF backoffOver, WorkOf, AtWork
    <3> QED BY <1>8, <2>1, <3>1 DEF AtWork
  <2> QED BY <1>5, <1>7, <1>13, <2>1 DEF backoffOver
<1>14. CASE leave(b)
  <2>1. driver'[b] = "ended" /\ b \notin registered'
    BY <1>5, <1>14 DEF leave, UnregisterResponder
  <2> QED BY <2>1 DEF BotSound, AtWork
<1>15. CASE snapshot(b) \/ modelFails(b)
  <2>1. /\ driver[b] \in {"snapshot", "model"} /\ driver'[b] \in {"skip", "model"}
        /\ UNCHANGED vars /\ job' = job
    BY <1>5, <1>15 DEF snapshot, modelFails
  <2>2. WorkOf(b)'
    BY <1>4, <1>6, <2>1 DEF WorkOf, AtWork
  <2> QED BY <1>8, <2>1, <2>2 DEF AtWork
<1>16. CASE modelAnswers(b)
  <2>1. /\ driver[b] = "model" /\ driver'[b] = "submit" /\ chunk'[b] = 1
        /\ UNCHANGED vars /\ job' = job
    BY <1>1, <1>5, <1>16 DEF modelAnswers, WorkTypes
  <2>2. Len(<<>>) = 1 - 1
    OBVIOUS
  <2>3. WorkOf(b)'
    BY <1>4, <1>6, <2>1, <2>2 DEF WorkOf, AtWork
  <2> QED BY <1>8, <2>1, <2>3 DEF AtWork
<1>17. CASE skip(b)
  <2>1. driver[b] = "skip" /\ driver'[b] = "backoff" /\ job' = job /\ WorkOf(b)
    BY <1>4, <1>5, <1>17 DEF skip, AtWork
  <2>2. activeByRes'[b] = None /\ UNCHANGED <<available, inbox>>
    <3>1. CASE activeByRes[b] = None /\ UNCHANGED vars
      BY <3>1 DEF vars
    <3>2. CASE Skip(b)
      <4>1. PICK r \in Requests : r = activeByRes[b] /\ req[r].status \in Held /\ req[r].responder = b
        BY <3>2, BotHolds DEF Skip
      <4>2. requeueLocked(r) \/ abandonLocked(r)
        BY <3>2, <4>1 DEF Skip
      <4>3. activeByRes'[b] = None
        BY <1>1, <4>1, <4>2, TransitionsRelease
      <4> QED BY <3>2, <4>3 DEF Skip
    <3> QED BY <1>17, <3>1, <3>2 DEF skip
  <2>3. WorkOf(b)'
    BY <2>1, <2>2 DEF WorkOf, Offered
  <2> QED BY <1>8, <2>1, <2>3 DEF AtWork
<1>18. CASE submitAccepted(b)
  <2>1. /\ driver[b] = "submit" /\ driver' = driver /\ job' = job /\ WorkOf(b)
        /\ chunk'[b] = chunk[b] + 1 /\ chunk[b] \in Nat
    BY <1>1, <1>4, <1>18 DEF submitAccepted, AtWork, WorkTypes
  <2>2. PICK n \in FragmentSizes : SubmitFragment(b, chunk[b], n)
    BY <1>18 DEF submitAccepted
  <2>3. activeByRes[b] = job[b] /\ job[b] \in Requests /\ activeByRes[b] # None
    BY <1>1, <2>1, <2>2, BotHolds DEF SubmitFragment, WorkOf
  <2>4. PICK e : e = [from |-> b, seq |-> chunk[b], size |-> n]
    OBVIOUS
  <2>5. fragments'[job[b]] = Append(fragments[job[b]], e) /\ fragments[job[b]] \in Seq(FragmentType)
        /\ e \in FragmentType
    BY <1>1, <1>18, <2>2, <2>3, <2>4 DEF SubmitFragment, TypeOK, FragmentType, submitAccepted
  <2>6. ASSUME NEW S, NEW s \in Seq(S), NEW y \in S, NEW c \in Nat, Len(s) = c - 1
        PROVE  Len(Append(s, y)) = (c + 1) - 1
    BY <2>6
  <2>7. Len(fragments'[job[b]]) = (chunk[b] + 1) - 1
    BY <2>1, <2>3, <2>5, <2>6 DEF WorkOf
  <2>8. activeByRes'[b] \in {activeByRes[b], None}
    BY <1>1, <2>2 DEF SubmitFragment, Release, TypeOK
  <2>9. UNCHANGED <<available, inbox>>
    BY <2>2 DEF SubmitFragment
  <2>10. WorkOf(b)'
    BY <2>1, <2>3, <2>7, <2>8, <2>9 DEF WorkOf, Offered
  <2> QED BY <1>8, <2>1, <2>10 DEF AtWork
<1>19. CASE submitRefused(b) \/ submitEnds(b)
  <2>1. /\ driver[b] = "submit" /\ UNCHANGED vars /\ job' = job /\ chunk' = chunk
        /\ driver'[b] \in {"finish", "leave"} /\ WorkOf(b)
        /\ chunk[b] \in Nat
    BY <1>1, <1>4, <1>5, <1>19 DEF submitRefused, submitEnds, AtWork, WorkTypes
  <2>2. ASSUME driver'[b] = "finish", activeByRes[b] # None, fragments[job[b]] = <<>>
        PROVE  SmallLimit
    <3>1. job[b] = activeByRes[b] /\ job[b] \in Requests /\ req[job[b]].status \in Held
      BY <2>1, <2>2, BotHolds DEF WorkOf
    <3>2. CASE submitEnds(b)
      <4>1. chunk[b] > 1 /\ Len(fragments[job[b]]) = chunk[b] - 1
        BY <1>5, <2>1, <2>2, <3>1, <3>2 DEF submitEnds, WorkOf
      <4>2. Len(<<>>) = 0
        OBVIOUS
      <4> QED BY <2>1, <2>2, <4>1, <4>2
    <3>3. CASE submitRefused(b)
      <4>1. PICK n \in FragmentSizes : AnswerLen(fragments[job[b]]) + n > req[job[b]].limit
        BY <1>1, <3>1, <3>3 DEF submitRefused, Refused
      <4>2. n \in Int /\ AnswerLen(fragments[job[b]]) = 0 /\ req[job[b]].limit \in Int
        <5>1. n \in Nat
          BY LimitsAssumption
        <5>2. req[job[b]].limit \in Nat
          BY <1>1, <3>1 DEF TypeOK, RequestType
        <5> QED BY <2>2, <5>1, <5>2, AnswerLenFacts
      <4>3. req[job[b]].limit < n
        BY <4>1, <4>2
      <4>4. req[job[b]].status # "absent"
        BY <3>1 DEF Held
      <4> QED BY <3>1, <4>3, <4>4 DEF SmallLimit
    <3> QED BY <1>19, <3>2, <3>3
  <2>3. CASE driver'[b] = "finish"
    <3>1. WorkOf(b)'
      BY <1>6, <2>1, <2>2, <2>3 DEF WorkOf
    <3> QED BY <1>8, <2>3, <3>1 DEF AtWork
  <2> QED BY <1>7, <2>1, <2>3
<1>20. CASE finish(b)
  <2>1. /\ driver[b] = "finish" /\ driver'[b] \in {"leave", "mark"} /\ WorkOf(b) /\ job' = job
    BY <1>4, <1>5, <1>20 DEF finish, AtWork
  <2>2. /\ UNCHANGED <<available, inbox>> /\ activeByRes'[b] \in {None, activeByRes[b]}
        /\ activeByRes'[b] # None => SmallLimit
    <3>1. CASE FinishFails(b) /\ UNCHANGED vars
      <4>1. activeByRes[b] # None => fragments[job[b]] = <<>>
        BY <2>1, <3>1 DEF FinishFails, WorkOf
      <4> QED BY <2>1, <3>1, <4>1 DEF vars, WorkOf
    <3>2. CASE Finish(b)
      <4>1. PICK r \in Requests : r = activeByRes[b] /\ req[r].status \in Held /\ req[r].responder = b
        BY <3>2, BotHolds DEF Finish
      <4>2. completeLocked(r, "stop")
        BY <3>2, <4>1 DEF Finish
      <4>3. activeByRes'[b] = None
        BY <1>1, <4>1, <4>2, TransitionsRelease
      <4> QED BY <3>2, <4>3 DEF Finish
    <3> QED BY <1>20, <3>1, <3>2 DEF finish
  <2>3. CASE driver'[b] = "mark"
    <3>1. WorkOf(b)'
      BY <1>2, <2>1, <2>2, <2>3 DEF WorkOf, Offered
    <3> QED BY <1>8, <2>3, <3>1 DEF AtWork
  <2> QED BY <1>7, <2>1, <2>3
<1> QED BY <1>9, <1>10, <1>11, <1>12, <1>13, <1>14, <1>15, <1>16, <1>17, <1>18, <1>19, <1>20
        DEF Drive

-----------------------------------------------------------------------------
(* The goroutines as callers of the service *)

\* The goroutines call what the service lets them call, so that a step here is a step
\* of the service.
LEMMA WorkStep ==
  ASSUME WorkInv, WorkNext
  PROVE  [Next]_vars
<1>1. ASSUME NEW s \in Answerers, Connected(s) \/ Answering(s) PROVE Next
  <2>1. s \in Responders
    BY SessionsAssumption DEF Responders
  <2> QED BY <1>1, <2>1 DEF Next, ResponderNext
<1>2. ASSUME NEW b \in Bots, Drive(b) \/ cancel(b) PROVE [Next]_vars
  <2>1. b \in Answerers /\ b \notin People
    BY BotHolds
  <2>2. CASE startResponder(b)
    BY <1>1, <2>1, <2>2 DEF startResponder, Connected
  <2>3. CASE markAvailable(b)
    BY <1>1, <2>1, <2>3 DEF markAvailable, Connected
  <2>4. CASE receive(b)
    BY <1>1, <2>1, <2>4 DEF receive, Connected
  <2>5. CASE leave(b)
    BY <1>1, <2>1, <2>5 DEF leave, Connected
  <2>6. CASE skip(b)
    BY <1>1, <2>1, <2>6 DEF skip, Answering
  <2>7. CASE submitAccepted(b)
    BY <1>1, <2>1, <2>7 DEF submitAccepted, Answering
  <2>8. CASE finish(b)
    BY <1>1, <2>1, <2>8 DEF finish, Answering
  <2>9. CASE \/ done(b) \/ backoffOver(b) \/ snapshot(b) \/ modelAnswers(b) \/ modelFails(b)
             \/ submitRefused(b) \/ submitEnds(b) \/ cancel(b)
    BY <2>9 DEF done, backoffOver, snapshot, modelAnswers, modelFails, submitRefused,
         submitEnds, cancel
  <2> QED BY <1>2, <2>2, <2>3, <2>4, <2>5, <2>6, <2>7, <2>8, <2>9 DEF Drive
<1>3. ASSUME NEW a \in PersonaAskers, beginPosting(a) \/ Converse(a) PROVE [Next]_vars
  <2>1. /\ PosterSound(a)
        /\ poster[a] \in Talking => current[a] \in Requests
    BY DEF WorkInv, PosterSound
  <2>2. ASSUME NEW s \in People, ResumeResponder(s) PROVE Next
    <3>1. s \in Answerers
      BY <2>2 DEF ResumeResponder, WorkInv, WorkTypes
    <3> QED BY <1>1, <2>2, <3>1 DEF Connected
  <2>3. CASE ask(a)
    BY <2>3 DEF ask, Next, RequesterNext
  <2>4. CASE followUp(a)
    <3>1. req[current[a]].responder \in People
      BY <2>1, <2>4 DEF followUp, PosterSound, AnsweredByPerson
    <3> QED BY <2>4, <3>1 DEF followUp, Next, RequesterNext
  <2>5. CASE giveUp(a)
    <3>1. current[a] \in Requests
      BY <2>1, <2>5 DEF giveUp, Talking
    <3> QED BY <2>5, <3>1 DEF giveUp, Next, RequesterNext
  <2>6. CASE resume(a)
    <3>1. req[current[a]].preferred \in People
      BY <2>1, <2>6 DEF resume, PosterSound
    <3> QED BY <2>2, <2>6, <3>1 DEF resume
  <2>7. CASE part(a)
    <3>1. req[current[a]].responder \in People
      BY <2>1, <2>7 DEF part, PosterSound, AnsweredByPerson
    <3> QED BY <2>2, <2>7, <3>1 DEF part
  <2> QED BY <1>3, <2>3, <2>4, <2>5, <2>6, <2>7
          DEF Converse, beginPosting, askFails, enterConversation, answerArrives,
              conversationOver, queuedTooLong, followUpFails
<1>4. CASE PeopleNext
  <2>1. ASSUME NEW s \in Answerers \cap People,
               \/ RegisterResponder(s) \/ UnregisterResponder(s) \/ Receive(s)
               \/ \E accept \in AcceptChoices : MarkResponderAvailable(s, accept)
               \/ Answering(s)
        PROVE  Next
    BY <1>1, <2>1 DEF Connected
  <2>2. ASSUME NEW s \in People, NEW r \in Requests, NEW allow \in AllowChoices,
               NEW max \in OutputLimits, CreateRequest(s, r, allow, max)
        PROVE  Next
    BY <2>2 DEF Next, RequesterNext
  <2>3. ASSUME NEW r \in Requests, CancelBeforeFirstFragment(r) PROVE Next
    BY <2>3 DEF Next, RequesterNext
  <2> QED BY <1>4, <2>1, <2>2, <2>3 DEF PeopleNext
<1>5. ASSUME \/ tryAssignStep \/ tryAssignReturn
             \/ \E r \in Requests : TimePasses(r) \/ SweepTimeouts(r)
      PROVE  Next
  BY <1>5 DEF Next, TimePasses
<1> QED BY <1>2, <1>3, <1>4, <1>5 DEF WorkNext

\* A persona is left alone by every step that is not its own goroutine's, except that
\* tryAssignLocked may hand it a request.
LEMMA BotOthers ==
  ASSUME WorkInv, WorkNext, NEW b \in Bots, ~Drive(b)
  PROVE  /\ Spared(b) \/ Handed(b)
         /\ driver'[b] = driver[b] /\ job'[b] = job[b] /\ chunk'[b] = chunk[b]
<1>1. /\ Inv /\ WorkTypes /\ b \in Sessions /\ b \notin People
      /\ People \subseteq Sessions /\ Answerers \subseteq Sessions
  BY BotHolds, SessionsAssumption DEF WorkInv, People
<1> DEFINE Alone == Spared(b) \/ Handed(b)
           Same == driver'[b] = driver[b] /\ job'[b] = job[b] /\ chunk'[b] = chunk[b]
<1>2. ASSUME UNCHANGED vars PROVE Alone
  BY <1>1, <1>2, RestSpares
<1>3. ASSUME NEW c \in Bots, Drive(c) PROVE Alone /\ Same
  <2>1. c # b /\ c \in Sessions
    BY <1>3, BotHolds
  <2>2. ASSUME \/ RegisterResponder(c) \/ UnregisterResponder(c) \/ Receive(c)
               \/ MarkResponderAvailable(c, FALSE) \/ Answering(c)
        PROVE  Alone
    BY <1>1, <2>1, <2>2, CallsSpare
  <2>3. Alone
    <3> HIDE DEF Alone
    <3> QED BY <1>2, <1>3, <2>2
          DEF Drive, startResponder, markAvailable, receive, leave, skip, submitAccepted, finish,
              Answering, done, backoffOver, snapshot, modelAnswers, modelFails, submitRefused,
              submitEnds
  <2>5. Same
    BY <1>1, <1>3, <2>1
       DEF WorkTypes, Drive, startResponder, markAvailable, receive, leave, skip, submitAccepted,
           finish, done, backoffOver, snapshot, modelAnswers, modelFails, submitRefused,
           submitEnds, Goto
  <2> QED BY <2>3, <2>5
<1>4. ASSUME NEW c \in Bots, cancel(c) PROVE Alone /\ Same
  BY <1>2, <1>4 DEF cancel
<1>5. ASSUME NEW a \in PersonaAskers, beginPosting(a) \/ Converse(a) PROVE Alone /\ Same
  <2>1. PosterSound(a)
    BY DEF WorkInv
  <2>2. UNCHANGED driverVars
    BY <1>5 DEF Converse, beginPosting, ask, askFails, enterConversation, answerArrives,
         conversationOver, queuedTooLong, giveUp, followUp, followUpFails, resume, part
  <2>3. ASSUME NEW s \in People, ResumeResponder(s) PROVE Alone
    BY <1>1, <2>3, CallsSpare
  <2>4. ASSUME NEW r, CancelBeforeFirstFragment(r) PROVE Alone
    BY <1>1, <2>4, RestSpares
  <2>5. ASSUME NEW r, NEW allow, NEW pref, NEW max, createRequest(a, r, allow, pref, max)
        PROVE  Alone
    BY <1>1, <2>5, RestSpares
  <2> HIDE DEF Alone
  <2>6. ASSUME ask(a) PROVE Alone
    BY <2>5, <2>6 DEF ask, CreateRequest
  <2>7. ASSUME followUp(a) PROVE Alone
    BY <2>5, <2>7 DEF followUp, CreateTargetedRequest
  <2>8. ASSUME giveUp(a) PROVE Alone
    BY <1>2, <2>4, <2>8 DEF giveUp
  <2>9. ASSUME resume(a) PROVE Alone
    <3>1. req[current[a]].preferred \in People
      BY <2>1, <2>9 DEF resume, PosterSound
    <3> QED BY <1>2, <2>3, <2>9, <3>1 DEF resume
  <2>10. ASSUME part(a) PROVE Alone
    <3>1. req[current[a]].responder \in People
      BY <2>1, <2>10 DEF part, PosterSound, AnsweredByPerson
    <3> QED BY <1>2, <2>3, <2>10, <3>1 DEF part
  <2>11. Alone
    BY <1>2, <1>5, <2>6, <2>7, <2>8, <2>9, <2>10
       DEF Converse, beginPosting, askFails, enterConversation, answerArrives,
           conversationOver, queuedTooLong, followUpFails
  <2> QED BY <2>2, <2>11 DEF driverVars
<1>6. ASSUME PeopleNext PROVE Alone
  <2>1. ASSUME NEW s \in Answerers \cap People,
               \/ RegisterResponder(s) \/ UnregisterResponder(s) \/ Receive(s)
               \/ \E accept \in AcceptChoices : MarkResponderAvailable(s, accept)
               \/ Answering(s)
        PROVE  Alone
    BY <1>1, <2>1, CallsSpare
  <2>2. ASSUME NEW s, NEW r, NEW allow, NEW max, CreateRequest(s, r, allow, max) PROVE Alone
    BY <1>1, <2>2, RestSpares DEF CreateRequest
  <2>3. ASSUME NEW r, CancelBeforeFirstFragment(r) PROVE Alone
    BY <1>1, <2>3, RestSpares
  <2> HIDE DEF Alone
  <2> QED BY <1>6, <2>1, <2>2, <2>3 DEF PeopleNext
<1>7. ASSUME tryAssignStep \/ tryAssignReturn PROVE Alone
  BY <1>1, <1>7, RestSpares, MatchSpares
<1>8. ASSUME NEW r \in Requests, TimePasses(r) \/ SweepTimeouts(r) PROVE Alone
  BY <1>1, <1>8, RestSpares DEF TimePasses
<1>9. UNCHANGED workVars => Same
  BY DEF workVars, driverVars
<1> HIDE DEF Alone, Same
<1>10. Alone /\ Same
  BY <1>3, <1>4, <1>5, <1>6, <1>7, <1>8, <1>9 DEF WorkNext
<1> QED BY <1>10 DEF Alone, Same

-----------------------------------------------------------------------------
(* The conversations *)

\* Nothing is asked.
NothingAsked ==
  \A r \in Requests : req[r].status = "absent" => req'[r].status = "absent"

\* Only the creation of a request asks something.
LEMMA OnlyCreateAsks ==
  ASSUME Inv,
         \/ \E s \in Sessions : \/ RegisterResponder(s) \/ UnregisterResponder(s) \/ Receive(s)
                                \/ \E accept : MarkResponderAvailable(s, accept)
                                \/ ResumeResponder(s) \/ Answering(s)
         \/ \E r \in Requests : CancelBeforeFirstFragment(r) \/ Elapse(r) \/ SweepTimeouts(r)
         \/ tryAssignStep \/ tryAssignReturn \/ UNCHANGED vars
  PROVE  NothingAsked
<1>1. TypeOK /\ OneAssignment /\ Life /\ "absent" \notin Held
  BY DEF Inv, Life, Held
<1>2. ASSUME UNCHANGED req PROVE NothingAsked
  BY <1>2 DEF NothingAsked
<1>3. ASSUME NEW x \in Requests, req[x].status # "absent", NEW v, req' = [req EXCEPT ![x] = v]
      PROVE  NothingAsked
  BY <1>1, <1>3 DEF NothingAsked, TypeOK
<1>4. ASSUME NEW x \in Requests, req[x].status # "absent",
             \/ endAssignment(x) \/ giveBackLocked(x) \/ requeueLocked(x) \/ abandonLocked(x)
             \/ \E reason : completeLocked(x, reason)
      PROVE  NothingAsked
  <2>1. \E v : req' = [req EXCEPT ![x] = v]
    BY <1>4 DEF endAssignment, giveBackLocked, requeueLocked, abandonLocked, completeLocked
  <2> QED BY <1>3, <1>4, <2>1
<1>5. ASSUME NEW s \in Sessions, activeByRes[s] # None
      PROVE  activeByRes[s] \in Requests /\ req[activeByRes[s]].status # "absent"
  BY <1>1, <1>5 DEF OneAssignment, TypeOK, Responders
<1> HIDE DEF NothingAsked
<1>6. ASSUME NEW s \in Sessions, UnregisterResponder(s) PROVE NothingAsked
  <2>1. UNCHANGED req \/ (activeByRes[s] # None /\ endAssignment(activeByRes[s]))
    BY <1>6 DEF UnregisterResponder
  <2> QED BY <1>2, <1>4, <1>5, <2>1
<1>7. ASSUME NEW s \in Sessions, Answering(s) PROVE NothingAsked
  <2>1. activeByRes[s] # None
    BY <1>7 DEF Answering, SubmitFragment, Finish, Skip
  <2>2. ASSUME NEW q \in ClientSeqs, NEW n \in FragmentSizes, SubmitFragment(s, q, n)
        PROVE  \E v : req' = [req EXCEPT ![activeByRes[s]] = v]
    BY <2>2 DEF SubmitFragment
  <2> QED BY <1>3, <1>4, <1>5, <1>7, <2>1, <2>2 DEF Answering, Finish, Skip
<1>8. ASSUME NEW r \in Requests, CancelBeforeFirstFragment(r) \/ SweepTimeouts(r)
      PROVE  NothingAsked
  BY <1>4, <1>8 DEF CancelBeforeFirstFragment, SweepTimeouts, TimedOut
<1>9. CASE tryAssignStep
  <2>1. PICK i \in DOMAIN queue, j \in DOMAIN available : AssignPair(i, j)
    BY <1>9 DEF tryAssignStep
  <2>2. PICK r \in Requests : r = queue[i] /\ req[r].status = "queued"
    BY <1>1, <2>1 DEF TypeOK, Life, QueueExact
  <2>3. \E v : req' = [req EXCEPT ![r] = v]
    BY <2>1, <2>2 DEF AssignPair
  <2> QED BY <1>3, <2>2, <2>3
<1> QED BY <1>2, <1>6, <1>7, <1>8, <1>9
        DEF RegisterResponder, Receive, MarkResponderAvailable, ResumeResponder, Elapse,
            tryAssignReturn, vars

\* A new question for everybody.
OpenAsk ==
  \E r \in Requests : /\ req'[r].preferred = None
                      /\ \A x \in Requests \ {r} : req'[x] = req[x]

\* Only a conversation that follows up reserves a question.
LEMMA OnlyFollowUpReserves ==
  ASSUME WorkInv, WorkNext, \A a \in PersonaAskers : ~followUp(a)
  PROVE  NothingAsked \/ OpenAsk
<1>1. /\ Inv /\ TypeOK /\ People \subseteq Sessions /\ Answerers \subseteq Sessions
      /\ PersonaAskers \subseteq Sessions /\ WorkTypes
  BY SessionsAssumption DEF WorkInv, Inv, People
<1> DEFINE Goal == NothingAsked \/ OpenAsk
<1>2. ASSUME UNCHANGED vars PROVE Goal
  BY <1>1, <1>2, OnlyCreateAsks
<1>3. ASSUME NEW s \in Sessions,
             \/ RegisterResponder(s) \/ UnregisterResponder(s) \/ Receive(s)
             \/ \E accept : MarkResponderAvailable(s, accept)
             \/ ResumeResponder(s) \/ Answering(s)
      PROVE  Goal
  BY <1>1, <1>3, OnlyCreateAsks
<1>4. ASSUME NEW s, NEW r \in Requests, NEW allow, NEW max, CreateRequest(s, r, allow, max)
      PROVE  Goal
  BY <1>1, <1>4 DEF CreateRequest, createRequest, TypeOK, OpenAsk, AbsentRequest
<1>5. ASSUME NEW r \in Requests, CancelBeforeFirstFragment(r) \/ Elapse(r) \/ SweepTimeouts(r)
      PROVE  Goal
  BY <1>1, <1>5, OnlyCreateAsks
<1>6. ASSUME tryAssignStep \/ tryAssignReturn PROVE Goal
  BY <1>1, <1>6, OnlyCreateAsks
<1> HIDE DEF Goal
<1>7. ASSUME NEW b \in Bots, Drive(b) \/ cancel(b) PROVE Goal
  <2>1. b \in Sessions
    BY BotHolds
  <2> QED BY <1>2, <1>3, <1>7, <2>1
          DEF Drive, startResponder, markAvailable, receive, leave, skip, submitAccepted, finish,
              Answering, done, backoffOver, snapshot, modelAnswers, modelFails, submitRefused,
              submitEnds, cancel
<1>8. ASSUME NEW a \in PersonaAskers, beginPosting(a) \/ Converse(a) PROVE Goal
  <2>1. PosterSound(a) /\ a \in Sessions
    BY <1>1 DEF WorkInv
  <2>2. ASSUME ask(a) PROVE Goal
    BY <1>4, <2>2 DEF ask
  <2>3. ASSUME giveUp(a) PROVE Goal
    <3>1. current[a] \in Requests
      BY <2>1, <2>3 DEF giveUp, PosterSound, Talking
    <3> QED BY <1>2, <1>5, <2>3, <3>1 DEF giveUp
  <2>4. ASSUME resume(a) PROVE Goal
    <3>1. req[current[a]].preferred \in Sessions
      BY <1>1, <2>1, <2>4 DEF resume, PosterSound
    <3> QED BY <1>2, <1>3, <2>4, <3>1 DEF resume
  <2>5. ASSUME part(a) PROVE Goal
    <3>1. req[current[a]].responder \in Sessions
      BY <1>1, <2>1, <2>5 DEF part, PosterSound, AnsweredByPerson
    <3> QED BY <1>2, <1>3, <2>5, <3>1 DEF part
  <2> QED BY <1>2, <1>8, <2>2, <2>3, <2>4, <2>5
          DEF Converse, beginPosting, askFails, enterConversation, answerArrives,
              conversationOver, queuedTooLong, followUpFails
<1>9. ASSUME PeopleNext PROVE Goal
  BY <1>1, <1>3, <1>4, <1>5, <1>9 DEF PeopleNext
<1>10. Goal
  BY <1>5, <1>6, <1>7, <1>8, <1>9 DEF WorkNext, TimePasses
<1> QED BY <1>10 DEF Goal

\* A conversation is moved by its own goroutine only.
LEMMA PosterAlone ==
  ASSUME WorkInv, WorkNext, NEW a \in PersonaAskers, ~beginPosting(a), ~Converse(a)
  PROVE  poster'[a] = poster[a] /\ current'[a] = current[a]
<1>1. WorkTypes
  BY DEF WorkInv
<1> DEFINE Same == poster'[a] = poster[a] /\ current'[a] = current[a]
<1>2. ASSUME NEW c \in PersonaAskers, beginPosting(c) \/ Converse(c) PROVE Same
  <2>1. c # a
    BY <1>2
  <2>2. (\E st : poster' = [poster EXCEPT ![c] = st])
        /\ (current' = current \/ \E r : current' = [current EXCEPT ![c] = r])
    BY <1>2 DEF Converse, beginPosting, ask, askFails, enterConversation, answerArrives,
         conversationOver, queuedTooLong, giveUp, followUp, followUpFails, resume, part,
         Proceed, Return
  <2> QED BY <1>1, <2>1, <2>2 DEF WorkTypes
<1>3. ASSUME UNCHANGED posterVars PROVE Same
  BY <1>3 DEF posterVars
<1>4. ASSUME NEW b \in Bots, Drive(b) \/ cancel(b) PROVE UNCHANGED posterVars
  BY <1>4 DEF Drive, startResponder, markAvailable, receive, leave, skip, submitAccepted, finish,
       done, backoffOver, snapshot, modelAnswers, modelFails, submitRefused, submitEnds, cancel
<1>5. UNCHANGED workVars => UNCHANGED posterVars
  BY DEF workVars
<1> HIDE DEF Same
<1>6. Same
  BY <1>2, <1>3, <1>4, <1>5 DEF WorkNext
<1> QED BY <1>6 DEF Same

\* A conversation stays at a request that was asked, and an answer of a person stays one.
LEMMA AnswerStays ==
  ASSUME Inv, AllMove, NEW r \in Requests, req[r].status # "absent"
  PROVE  /\ req'[r].status # "absent" /\ req'[r].preferred = req[r].preferred
         /\ AnsweredByPerson(r) => AnsweredByPerson(r)'
<1>1. Moves(r) /\ req[r] \in RequestType
  BY DEF AllMove, Inv, TypeOK
<1>2. ASSUME AnsweredByPerson(r) PROVE AnsweredByPerson(r)'
  <2>1. req[r].status = "completed"
    BY <1>2 DEF AnsweredByPerson
  <2>2. Untouched(r) \/ Reacts(r)
    BY <1>1, <2>1 DEF Moves, Waits, Commits, Ends, Held
  <2>3. req'[r].status = req[r].status /\ req'[r].responder = req[r].responder
    BY <1>1, <2>2 DEF Untouched, Reacts, RequestType
  <2> QED BY <1>2, <2>3 DEF AnsweredByPerson
<1> QED BY <1>1, <1>2, AskedStays DEF SameQuestion

\* Every step keeps the position of each asking goroutine sound (postQuestion,
\* runConversation).
LEMMA PosterKept ==
  ASSUME WorkInv, WorkNext, AllMove, NEW a \in PersonaAskers
  PROVE  PosterSound(a)'
<1>1. Inv /\ WorkTypes /\ PosterSound(a) /\ TypeOK
  BY DEF WorkInv, Inv
<1>2. ASSUME poster'[a] \in {poster[a], "none", "asking", "ended"}, current'[a] = current[a]
      PROVE  PosterSound(a)'
  <2>1. CASE poster[a] \in {"asked"} \cup Talking
    <3>1. current[a] \in Requests /\ req[current[a]].status # "absent"
      BY <1>1, <2>1 DEF PosterSound
    <3>2. /\ req'[current[a]].status # "absent"
          /\ req'[current[a]].preferred = req[current[a]].preferred
          /\ AnsweredByPerson(current[a]) =>
               req'[current[a]].status = "completed" /\ req'[current[a]].responder \in People
      BY <1>1, <3>1, AnswerStays DEF AnsweredByPerson
    <3> QED BY <1>1, <1>2, <3>1, <3>2 DEF PosterSound, AnsweredByPerson, Talking
  <2>2. CASE poster[a] \notin {"asked"} \cup Talking
    BY <1>2, <2>2 DEF PosterSound, Talking
  <2> QED BY <2>1, <2>2
<1>3. CASE ~beginPosting(a) /\ ~Converse(a)
  BY <1>2, <1>3, PosterAlone
<1>4. ASSUME NEW st, Proceed(a, st) PROVE poster'[a] = st
  BY <1>1, <1>4 DEF Proceed, WorkTypes
<1>5. CASE beginPosting(a)
  BY <1>2, <1>4, <1>5 DEF beginPosting
<1>6. ASSUME Return(a) PROVE PosterSound(a)'
  BY <1>2, <1>4, <1>6 DEF Return
<1>7. CASE askFails(a) \/ conversationOver(a) \/ giveUp(a) \/ part(a)
  BY <1>6, <1>7 DEF askFails, conversationOver, giveUp, part
<1>8. ASSUME NEW r \in Requests, NEW pref, NEW allow, NEW max,
             createRequest(a, r, allow, pref, max), current' = [current EXCEPT ![a] = r]
      PROVE  current'[a] = r /\ req'[r].status = "queued" /\ req'[r].preferred = pref
  BY <1>1, <1>8 DEF createRequest, TypeOK, AbsentRequest, WorkTypes
<1>9. CASE ask(a)
  <2>1. poster'[a] = "asked"
    BY <1>4, <1>9 DEF ask
  <2>2. current'[a] \in Requests /\ req'[current'[a]].status = "queued"
    BY <1>8, <1>9 DEF ask, CreateRequest
  <2> QED BY <2>1, <2>2 DEF PosterSound, Talking
<1>10. CASE followUp(a)
  <2>1. poster'[a] = "resuming" /\ req[current[a]].responder \in People
    BY <1>1, <1>4, <1>10 DEF followUp, PosterSound, AnsweredByPerson
  <2>2. current'[a] \in Requests /\ req'[current'[a]].status = "queued"
        /\ req'[current'[a]].preferred \in People
    BY <1>8, <1>10, <2>1 DEF followUp, CreateTargetedRequest
  <2> QED BY <2>1, <2>2 DEF PosterSound, Talking
<1>11. CASE enterConversation(a) \/ queuedTooLong(a) \/ resume(a)
  <2>1. /\ poster[a] \in {"asked", "waiting", "resuming"} /\ poster'[a] \in {"waiting", "giving up"}
        /\ current' = current
    BY <1>4, <1>11 DEF enterConversation, queuedTooLong, resume
  <2>2. current[a] \in Requests /\ req[current[a]].status # "absent"
    BY <1>1, <2>1 DEF PosterSound, Talking
  <2>3. req'[current[a]].status # "absent"
    BY <1>1, <2>2, AnswerStays
  <2> QED BY <2>1, <2>2, <2>3 DEF PosterSound
<1>12. CASE answerArrives(a) \/ followUpFails(a)
  <2>1. /\ poster[a] \in {"waiting", "following"} /\ poster'[a] \in {"following", "parting"}
        /\ current' = current /\ AnsweredByPerson(current[a])
    BY <1>1, <1>4, <1>12 DEF answerArrives, followUpFails, PosterSound
  <2>2. current[a] \in Requests /\ req[current[a]].status # "absent"
    BY <1>1, <2>1 DEF PosterSound, Talking
  <2>3. req'[current[a]].status # "absent" /\ AnsweredByPerson(current[a])'
    BY <1>1, <2>1, <2>2, AnswerStays DEF AnsweredByPerson
  <2> QED BY <2>1, <2>2, <2>3 DEF PosterSound, AnsweredByPerson
<1> QED BY <1>3, <1>5, <1>7, <1>9, <1>10, <1>11, <1>12 DEF Converse

\* The witness of a reserved question stays at it while it is queued.
LEMMA WatchKept ==
  ASSUME WorkInv, WorkNext, AllMove, NEW r \in Requests, Reserved(r)'
  PROVE  \E a \in PersonaAskers : WatchedBy(a, r)'
<1>1. Inv /\ WorkTypes /\ TypeOK /\ Moves(r) /\ req[r] \in RequestType
  BY DEF WorkInv, Inv, AllMove, TypeOK
<1>2. CASE req[r].status = "absent"
  <2>1. CASE \A a \in PersonaAskers : ~followUp(a)
    <3>1. CASE NothingAsked
      BY <1>2, <3>1 DEF NothingAsked, Reserved
    <3>2. CASE OpenAsk
      BY <1>2, <3>2 DEF OpenAsk, Reserved
    <3> QED BY <2>1, <3>1, <3>2, OnlyFollowUpReserves
  <2>2. ASSUME NEW a \in PersonaAskers, followUp(a) PROVE WatchedBy(a, r)'
    <3>1. PICK x \in Requests, max \in OutputLimits :
            /\ CreateTargetedRequest(a, x, req[current[a]].responder, max)
            /\ current' = [current EXCEPT ![a] = x]
      BY <2>2 DEF followUp
    <3>2. x = r
      BY <1>1, <1>2, <3>1 DEF CreateTargetedRequest, createRequest, TypeOK, Reserved
    <3>3. current'[a] = r /\ poster'[a] = "resuming"
      BY <1>1, <2>2, <3>1, <3>2 DEF WorkTypes, followUp, Proceed
    <3> QED BY <3>3 DEF WatchedBy
  <2> QED BY <2>1, <2>2
<1>3. CASE req[r].status # "absent"
  <2>1. req'[r].preferred = req[r].preferred /\ req'[r].status = "queued"
        /\ req[r].preferred # None
    BY <1>1, <1>3, AnswerStays DEF Reserved
  <2>2. req[r].status = "queued"
    <3>1. CASE Reacts(r)
      <4>1. req'[r].status = req[r].status
        BY <1>1, <3>1 DEF Reacts, RequestType
      <4> QED BY <2>1, <4>1
    <3> QED BY <1>1, <1>3, <2>1, <3>1 DEF Moves, Untouched, Waits, Commits, Ends, Completed
  <2>3. PICK a \in PersonaAskers : WatchedBy(a, r)
    BY <2>1, <2>2 DEF WorkInv, FollowUpWatched, WatchedBy
  <2>4. fragments[r] = <<>>
    BY <2>2 DEF WorkInv, Inv, Life, HoldUntilFirstFragment, HoldsUntilFirstFragment, Completed
  <2>5. CASE ~beginPosting(a) /\ ~Converse(a)
    BY <2>3, <2>5, PosterAlone DEF WatchedBy
  <2>6. poster[a] \in {"waiting", "giving up", "resuming"} /\ current[a] = r
    BY <2>3 DEF WatchedBy
  <2>7. ~isTerminal(req[r].status) /\ ~AnsweredByPerson(r)
    BY <2>2 DEF isTerminal, Terminal, Completed, AnsweredByPerson
  <2>8. CASE queuedTooLong(a) \/ resume(a)
    <3>1. current'[a] = r /\ poster'[a] \in {"waiting", "giving up"}
      BY <1>1, <2>6, <2>8 DEF queuedTooLong, resume, Proceed, WorkTypes
    <3> QED BY <3>1 DEF WatchedBy
  <2>9. CASE giveUp(a)
    <3>1. CancelBeforeFirstFragment(r)
      BY <2>4, <2>6, <2>7, <2>9 DEF giveUp
    <3>2. req'[r].status = "abandoned"
      BY <1>1, <3>1 DEF CancelBeforeFirstFragment, abandonLocked, Abandoned, TypeOK, RequestType
    <3> QED BY <2>1, <3>2
  <2> QED BY <2>5, <2>6, <2>7, <2>8, <2>9
          DEF Converse, beginPosting, ask, askFails, enterConversation, answerArrives,
              conversationOver, followUp, followUpFails, part
<1> QED BY <1>2, <1>3

\* The conversations that postQuestion counts, after a step of one of them.
LEMMA CountKept ==
  ASSUME WorkInv, NEW a \in PersonaAskers, NEW st, poster' = [poster EXCEPT ![a] = st],
         \/ active' = active /\ (poster[a] \in Talking <=> st \in Talking)
         \/ active' = active + 1 /\ poster[a] \notin Talking /\ st \in Talking
         \/ active' = active - 1 /\ poster[a] \in Talking /\ st \notin Talking,
         posting' => \/ st \in {"asking", "asked"}
                     \/ posting /\ poster[a] \notin {"asking", "asked"}
  PROVE  IsFiniteSet(InConversation)' /\ PostingAccounted'
<1>1. /\ WorkTypes /\ IsFiniteSet(InConversation) /\ active = Cardinality(InConversation)
      /\ posting => \E c \in PersonaAskers : poster[c] \in {"asking", "asked"}
  BY DEF WorkInv, PostingAccounted, InConversation
<1>2. poster'[a] = st /\ \A c \in PersonaAskers \ {a} : poster'[c] = poster[c]
  BY <1>1 DEF WorkTypes
<1>3. posting' => \E c \in PersonaAskers : poster'[c] \in {"asking", "asked"}
  BY <1>1, <1>2
<1>4. Cardinality(InConversation) \in Nat
  BY <1>1, FS_CardinalityType
<1>5. IsFiniteSet(InConversation') /\ active' = Cardinality(InConversation')
  <2>1. CASE active' = active /\ (poster[a] \in Talking <=> st \in Talking)
    <3>1. InConversation' = InConversation
      BY <1>2, <2>1 DEF InConversation
    <3> QED BY <1>1, <2>1, <3>1
  <2>2. CASE active' = active + 1 /\ poster[a] \notin Talking /\ st \in Talking
    <3>1. InConversation' = InConversation \cup {a} /\ a \notin InConversation
      BY <1>2, <2>2 DEF InConversation
    <3>2. /\ IsFiniteSet(InConversation \cup {a})
          /\ Cardinality(InConversation \cup {a}) = Cardinality(InConversation) + 1
      BY <1>1, <3>1, FS_AddElement
    <3> QED BY <1>1, <2>2, <3>1, <3>2
  <2>3. CASE active' = active - 1 /\ poster[a] \in Talking /\ st \notin Talking
    <3>1. InConversation' = InConversation \ {a} /\ a \in InConversation
      BY <1>2, <2>3 DEF InConversation
    <3>2. /\ IsFiniteSet(InConversation \ {a})
          /\ Cardinality(InConversation \ {a}) = Cardinality(InConversation) - 1
      BY <1>1, <3>1, FS_RemoveElement
    <3> QED BY <1>1, <2>3, <3>1, <3>2
  <2> QED BY <2>1, <2>2, <2>3
<1> QED BY <1>3, <1>5 DEF PostingAccounted, InConversation

\* Every step keeps the flag posting and the counter active in line with the
\* goroutines that are to reset them.
LEMMA BooksKept ==
  ASSUME WorkInv, WorkNext
  PROVE  IsFiniteSet(InConversation)' /\ PostingAccounted'
<1> DEFINE Goal == IsFiniteSet(InConversation)' /\ PostingAccounted'
<1>1. ASSUME UNCHANGED posterVars PROVE Goal
  BY <1>1 DEF posterVars, WorkInv, PostingAccounted, InConversation
<1>2. ASSUME NEW a \in PersonaAskers, NEW st, Proceed(a, st), active' = active,
             poster[a] \in Talking <=> st \in Talking,
             posting' => \/ st \in {"asking", "asked"}
                         \/ posting /\ poster[a] \notin {"asking", "asked"}
      PROVE  Goal
  BY <1>2, CountKept DEF Proceed
<1>3. ASSUME NEW a \in PersonaAskers, Return(a) PROVE Goal
  BY <1>3, CountKept DEF Return, Proceed, Talking
<1>4. ASSUME NEW a \in PersonaAskers, enterConversation(a) PROVE Goal
  BY <1>4, CountKept DEF enterConversation, Proceed, Talking
<1> HIDE DEF Goal
<1>5. ASSUME NEW a \in PersonaAskers, beginPosting(a) \/ Converse(a) PROVE Goal
  <2>1. CASE beginPosting(a)
    BY <1>2, <2>1 DEF beginPosting, Talking
  <2>2. CASE ask(a)
    BY <1>2, <2>2 DEF ask, Talking
  <2>3. CASE answerArrives(a)
    BY <1>2, <2>3 DEF answerArrives, Talking
  <2>4. CASE queuedTooLong(a)
    BY <1>2, <2>4 DEF queuedTooLong, Talking
  <2>5. CASE followUp(a)
    BY <1>2, <2>5 DEF followUp, Talking
  <2>6. CASE followUpFails(a)
    BY <1>2, <2>6 DEF followUpFails, Talking
  <2>7. CASE resume(a)
    BY <1>2, <2>7 DEF resume, Talking
  <2> QED BY <1>3, <1>4, <1>5, <2>1, <2>2, <2>3, <2>4, <2>5, <2>6, <2>7
          DEF Converse, askFails, conversationOver, giveUp, part
<1>6. ASSUME NEW b \in Bots, Drive(b) \/ cancel(b) PROVE UNCHANGED posterVars
  BY <1>6 DEF Drive, startResponder, markAvailable, receive, leave, skip, submitAccepted, finish,
       done, backoffOver, snapshot, modelAnswers, modelFails, submitRefused, submitEnds, cancel
<1>7. UNCHANGED workVars => UNCHANGED posterVars
  BY DEF workVars
<1>8. Goal
  BY <1>1, <1>5, <1>6, <1>7 DEF WorkNext
<1> QED BY <1>8 DEF Goal

\* Only the sessions that answer register.
LEMMA RegisteredKept ==
  ASSUME WorkInv, WorkNext
  PROVE  registered' \subseteq Answerers
<1>1. registered \subseteq Answerers /\ Bots \subseteq Answerers
  BY DEF WorkInv, WorkTypes, Bots
<1>2. ASSUME NEW s \in Answerers, RegisterResponder(s) PROVE registered' \subseteq Answerers
  BY <1>1, <1>2 DEF RegisterResponder
<1>3. ASSUME NEW s, UnregisterResponder(s) PROVE registered' \subseteq Answerers
  BY <1>1, <1>3 DEF UnregisterResponder
<1>4. ASSUME UNCHANGED registered PROVE registered' \subseteq Answerers
  BY <1>1, <1>4
<1>5. ASSUME NEW s, Answering(s) PROVE UNCHANGED registered
  BY <1>5 DEF Answering, SubmitFragment, Finish, Skip
<1>6. ASSUME NEW b \in Bots, Drive(b) \/ cancel(b) PROVE registered' \subseteq Answerers
  <2>1. UNCHANGED vars => UNCHANGED registered
    BY DEF vars
  <2>2. ASSUME submitAccepted(b) \/ Skip(b) \/ Finish(b) PROVE UNCHANGED registered
    BY <2>2 DEF submitAccepted, SubmitFragment, Skip, Finish
  <2> QED BY <1>1, <1>2, <1>3, <1>4, <1>6, <2>1, <2>2
          DEF Drive, startResponder, markAvailable, receive, leave, skip, finish,
              MarkResponderAvailable, Receive, done, backoffOver, snapshot, modelAnswers,
              modelFails, submitRefused, submitEnds, cancel
<1>7. ASSUME NEW a \in PersonaAskers, beginPosting(a) \/ Converse(a) PROVE UNCHANGED registered
  <2>1. UNCHANGED vars => UNCHANGED registered
    BY DEF vars
  <2> QED BY <1>7, <2>1
          DEF Converse, beginPosting, ask, askFails, enterConversation, answerArrives,
              conversationOver, queuedTooLong, giveUp, followUp, followUpFails, resume, part,
              CreateRequest, CreateTargetedRequest, createRequest, CancelBeforeFirstFragment,
              ResumeResponder
<1>8. CASE PeopleNext
  BY <1>1, <1>2, <1>3, <1>4, <1>5, <1>8
     DEF PeopleNext, CreateRequest, createRequest, CancelBeforeFirstFragment, Receive,
         MarkResponderAvailable
<1>9. ASSUME \/ tryAssignStep \/ tryAssignReturn
             \/ \E r \in Requests : TimePasses(r) \/ SweepTimeouts(r)
      PROVE  UNCHANGED registered
  BY <1>9 DEF tryAssignStep, AssignPair, tryAssignReturn, TimePasses, Elapse, SweepTimeouts
<1> QED BY <1>1, <1>6, <1>7, <1>8, <1>9 DEF WorkNext

\* Every step keeps the types of the goroutines' variables.
LEMMA WorkTypesKept ==
  ASSUME WorkInv, WorkNext
  PROVE  WorkTypes'
<1>1. WorkTypes /\ Inv
  BY DEF WorkInv
<1>2. registered' \subseteq Answerers
  BY RegisteredKept
<1>3. ASSUME NEW b \in Bots, Drive(b) \/ cancel(b)
      PROVE  /\ driver' \in [Bots -> DriverStates] /\ job' \in [Bots -> Requests \cup {None}]
             /\ chunk' \in [Bots -> Nat] /\ UNCHANGED posterVars
  <2>1. UNCHANGED posterVars
    BY <1>3 DEF Drive, startResponder, markAvailable, receive, leave, skip, submitAccepted,
         finish, done, backoffOver, snapshot, modelAnswers, modelFails, submitRefused,
         submitEnds, cancel
  <2>2. driver' = driver \/ \E st \in DriverStates : driver' = [driver EXCEPT ![b] = st]
    BY <1>3 DEF Drive, startResponder, markAvailable, receive, leave, skip, submitAccepted,
         finish, done, backoffOver, snapshot, modelAnswers, modelFails, submitRefused,
         submitEnds, cancel, Goto, DriverStates
  <2>3. job' = job \/ (inbox[b] # <<>> /\ job' = [job EXCEPT ![b] = Head(inbox[b])])
    BY <1>3 DEF Drive, startResponder, markAvailable, receive, Receive, leave, skip,
         submitAccepted, finish, done, backoffOver, snapshot, modelAnswers, modelFails,
         submitRefused, submitEnds, cancel
  <2>4. inbox[b] \in Seq(Requests)
    BY <1>1, BotHolds DEF Inv, TypeOK
  <2>5. \/ chunk' = chunk \/ chunk' = [chunk EXCEPT ![b] = 1]
        \/ chunk' = [chunk EXCEPT ![b] = @ + 1]
    BY <1>3 DEF Drive, startResponder, markAvailable, receive, leave, skip, submitAccepted,
         finish, done, backoffOver, snapshot, modelAnswers, modelFails, submitRefused,
         submitEnds, cancel
  <2>6. driver' \in [Bots -> DriverStates]
    BY <1>1, <2>2 DEF WorkTypes
  <2>7. job' \in [Bots -> Requests \cup {None}]
    <3>1. inbox[b] # <<>> => Head(inbox[b]) \in Requests
      BY <2>4
    <3> QED BY <1>1, <2>3, <3>1 DEF WorkTypes
  <2>8. chunk' \in [Bots -> Nat]
    BY <1>1, <2>5 DEF WorkTypes
  <2> QED BY <2>1, <2>6, <2>7, <2>8
<1>4. ASSUME NEW a \in PersonaAskers, beginPosting(a) \/ Converse(a)
      PROVE  /\ UNCHANGED driverVars /\ poster' \in [PersonaAskers -> PosterStates]
             /\ current' \in [PersonaAskers -> Requests \cup {None}]
  <2>1. UNCHANGED driverVars
    BY <1>4 DEF Converse, beginPosting, ask, askFails, enterConversation, answerArrives,
         conversationOver, queuedTooLong, giveUp, followUp, followUpFails, resume, part
  <2>2. \E st \in PosterStates : poster' = [poster EXCEPT ![a] = st]
    BY <1>4 DEF Converse, beginPosting, ask, askFails, enterConversation, answerArrives,
         conversationOver, queuedTooLong, giveUp, followUp, followUpFails, resume, part,
         Proceed, Return, PosterStates, Talking
  <2>3. current' = current \/ \E r \in Requests : current' = [current EXCEPT ![a] = r]
    BY <1>4 DEF Converse, beginPosting, ask, askFails, enterConversation, answerArrives,
         conversationOver, queuedTooLong, giveUp, followUp, followUpFails, resume, part, Return
  <2> QED BY <1>1, <2>1, <2>2, <2>3 DEF WorkTypes
<1>5. CASE UNCHANGED workVars
  BY <1>1, <1>2, <1>5 DEF WorkTypes, workVars, driverVars, posterVars
<1> QED BY <1>1, <1>2, <1>3, <1>4, <1>5 DEF WorkNext, WorkTypes, driverVars, posterVars

\* The invariant of the personas' goroutines is inductive.
LEMMA WorkKept == WorkInv /\ [WorkNext]_allVars => WorkInv'
<1>1. ASSUME WorkInv, UNCHANGED allVars PROVE WorkInv'
  <2>1. UNCHANGED vars /\ UNCHANGED driverVars /\ UNCHANGED posterVars
    BY <1>1 DEF allVars, workVars
  <2>2. Inv'
    BY <1>1, <2>1, NextInv DEF WorkInv
  <2>3. WorkTypes' /\ IsFiniteSet(InConversation)' /\ PostingAccounted' /\ FollowUpWatched'
    BY <1>1, <2>1 DEF WorkInv, vars, driverVars, posterVars, WorkTypes, InConversation,
         PostingAccounted, FollowUpWatched
  <2>4. ASSUME NEW b \in Bots PROVE BotSound(b)'
    BY <1>1, <2>1 DEF WorkInv, vars, driverVars, BotSound, WaitOf, WorkOf, Offered, SmallLimit
  <2>5. ASSUME NEW a \in PersonaAskers PROVE PosterSound(a)'
    BY <1>1, <2>1 DEF WorkInv, vars, posterVars, PosterSound, AnsweredByPerson
  <2> QED BY <2>2, <2>3, <2>4, <2>5 DEF WorkInv
<1>2. ASSUME WorkInv, WorkNext PROVE WorkInv'
  <2>1. Inv /\ [Next]_vars
    BY <1>2, WorkStep DEF WorkInv
  <2>2. Inv' /\ AllMove
    BY <2>1, NextInv, NextMoves
  <2>3. WorkTypes' /\ IsFiniteSet(InConversation)' /\ PostingAccounted'
    BY <1>2, WorkTypesKept, BooksKept
  <2>4. ASSUME NEW b \in Bots PROVE BotSound(b)'
    <3>1. CASE Drive(b)
      BY <1>2, <2>2, <3>1, BotDrives
    <3>2. CASE ~Drive(b)
      <4>1. BotSound(b)
        BY <1>2 DEF WorkInv
      <4> QED BY <1>2, <2>2, <3>2, <4>1, BotOthers, BotKept
    <3> QED BY <3>1, <3>2
  <2>5. ASSUME NEW a \in PersonaAskers PROVE PosterSound(a)'
    BY <1>2, <2>2, PosterKept
  <2>6. FollowUpWatched'
    <3>1. ASSUME NEW r \in Requests, Reserved(r)'
          PROVE  \E a \in PersonaAskers : WatchedBy(a, r)'
      BY <1>2, <2>2, <3>1, WatchKept
    <3> QED BY <3>1 DEF FollowUpWatched, Reserved, WatchedBy
  <2> QED BY <2>2, <2>3, <2>4, <2>5, <2>6 DEF WorkInv
<1> QED BY <1>1, <1>2

-----------------------------------------------------------------------------
(* The theorems *)

\* The invariant holds in every state that the service and the personas reach.
THEOREM WorkInvariance == WorkSpec => []WorkInv
<1>1. WorkInit => WorkInv
  <2> SUFFICES ASSUME WorkInit PROVE WorkInv
    OBVIOUS
  <2>1. Inv
    BY InitInv DEF WorkInit
  <2>2. WorkTypes
    BY DEF WorkInit, Init, WorkTypes, DriverStates, PosterStates
  <2>3. InConversation = {}
    BY DEF WorkInit, InConversation, Talking
  <2>4. IsFiniteSet(InConversation) /\ PostingAccounted
    BY <2>3, FS_EmptySet DEF WorkInit, PostingAccounted, InConversation
  <2>5. ASSUME NEW b \in Bots PROVE BotSound(b)
    BY DEF WorkInit, Init, BotSound, AtWork
  <2>6. ASSUME NEW a \in PersonaAskers PROVE PosterSound(a)
    BY DEF WorkInit, PosterSound, Talking
  <2>7. FollowUpWatched
    BY DEF WorkInit, Init, AbsentRequest, FollowUpWatched
  <2> QED BY <2>1, <2>2, <2>4, <2>5, <2>6, <2>7 DEF WorkInv
<1> QED BY <1>1, WorkKept, PTL DEF WorkSpec

\* The personas at work are a behaviour of the service: everything proved of the service
\* holds while their goroutines answer, ask and follow up.
THEOREM WorkImplementsService == WorkSpec => Spec
<1>1. WorkInit => Init
  BY DEF WorkInit
<1>2. WorkInv /\ [WorkNext]_allVars => [Next]_vars
  <2>1. UNCHANGED allVars => [Next]_vars
    BY DEF allVars
  <2> QED BY <2>1, WorkStep
<1> QED BY <1>1, <1>2, WorkInvariance, PTL DEF WorkSpec, Spec

\* A persona at its select is offered for matching or has an assignment to receive,
\* unless there is a request whose output limit is smaller than a chunk (runResponder).
THEOREM NeverIdleHolds == WorkSpec => []NeverIdle
<1>1. WorkInv => NeverIdle
  <2> SUFFICES ASSUME WorkInv, NEW b \in Bots, driver[b] = "wait", inbox[b] = <<>>
               PROVE  Offered(b) \/ SmallLimit
    BY DEF NeverIdle, Offered, SmallLimit
  <2>1. WaitOf(b)
    BY DEF WorkInv, BotSound
  <2>2. \A r \in Requests : <<>> # <<r>>
    OBVIOUS
  <2> QED BY <2>1, <2>2 DEF WaitOf
<1> QED BY <1>1, WorkInvariance, PTL

\* A persona's chunks go to the question it has read, in order and without a gap, across
\* sweeps and cancellations of it (answer, SubmitFragment).
THEOREM OwnQuestionHolds == WorkSpec => []OwnQuestion
<1>1. WorkInv => OwnQuestion
  <2> SUFFICES ASSUME WorkInv, NEW b \in Bots, activeByRes[b] # None,
                      driver[b] \notin {"wait", "mark", "leave"}
               PROVE  /\ activeByRes[b] = job[b]
                      /\ driver[b] \in {"submit", "finish"} =>
                           Len(fragments[job[b]]) = chunk[b] - 1
    BY DEF OwnQuestion
  <2>1. BotSound(b) /\ driver[b] \in DriverStates
    BY DEF WorkInv, WorkTypes
  <2>2. CASE driver[b] \in AtWork
    BY <2>1, <2>2 DEF BotSound, WorkOf
  <2>3. driver[b] \notin {"none", "ended"}
    <3>1. b \in registered
      BY BotHolds DEF WorkInv, Inv, PoolConsistent
    <3> QED BY <2>1, <3>1 DEF BotSound
  <2> QED BY <2>1, <2>2, <2>3 DEF DriverStates, AtWork
<1> QED BY <1>1, WorkInvariance, PTL

\* activeConversations counts the conversations, and the flag posting is not left behind
\* (postQuestion and its deferred function).
THEOREM PostingAccountedHolds == WorkSpec => []PostingAccounted
<1>1. WorkInv => PostingAccounted
  BY DEF WorkInv
<1> QED BY <1>1, WorkInvariance, PTL

\* A follow-up in the queue has a conversation behind it that will cancel it if its
\* responder does not come back (continueQuestionConversation).
THEOREM FollowUpWatchedHolds == WorkSpec => []FollowUpWatched
<1>1. WorkInv => FollowUpWatched
  BY DEF WorkInv
<1> QED BY <1>1, WorkInvariance, PTL
=============================================================================
