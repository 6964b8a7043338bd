------------------------------ MODULE Fallback ------------------------------
(***************************************************************************)
(* The fallback responder, backend/internal/httpapi/fallback.go, at work   *)
(* on the service: one goroutine per question asked over HTTP, which waits,*)
(* acquires the request if nobody has it, lets the upstream model answer,  *)
(* and finishes, or skips and tries again.                                 *)
(*                                                                         *)
(* The service, the requesters, the people and the sweeper are those of    *)
(* module Service; the calls that Service allows a fallback session at any *)
(* time are made here in the watcher's order.  Between two of its calls    *)
(* everybody else may act.  How long a timer runs is left open, and with it*)
(* the choice of the initial delay.  The upstream (external) sends chunks  *)
(* until it ends or fails; splitting its deltas into paced chunks makes    *)
(* each call of SubmitFragment one chunk.                                  *)
(***************************************************************************)
EXTENDS Service

VARIABLES
  watcher,   \* where the goroutine of a request is
  seq        \* the next client_seq of its attempt: submitted is seq > 1

watcherVars == <<watcher, seq>>
allVars == <<vars, watcherVars>>

\* "done" and "skip failed" are the returns of the goroutine.
Returned == {"done", "skip failed"}
WatcherState == {"none", "sleeping", "refused", "upstream", "closing"} \cup Returned

FallbackInit ==
  /\ Init
  /\ watcher = [r \in Requests |-> "none"]
  /\ seq = [r \in Requests |-> 1]

Goto(r, state) == watcher' = [watcher EXCEPT ![r] = state]

\* FallbackStillWanted: it exists, allows AI, is live and has no committed text.
StillWantedUnanswered(r) ==
  req[r].status # "absent" /\ req[r].allowAI /\ fragments[r] = <<>>
FallbackStillWanted(r) ==
  /\ req[r].status # "absent"
  /\ req[r].allowAI
  /\ ~isTerminal(req[r].status)
  /\ fragments[r] = <<>>

-----------------------------------------------------------------------------
(* scheduleFallback and its loop *)

\* handleChatCompletions starts the goroutine after it has created the request.
scheduleFallback(r) ==
  /\ watcher[r] = "none"
  /\ req[r].status # "absent"
  /\ ~ByPersona(r)
  /\ req[r].allowAI
  /\ Goto(r, "sleeping")
  /\ UNCHANGED <<vars, seq>>

\* The timer has fired.  Every attempt counts its chunks from one.
attemptAcquired(r) ==
  /\ watcher[r] = "sleeping"
  /\ AcquireFallbackAssignment(r)
  /\ Goto(r, "upstream")
  /\ seq' = [seq EXCEPT ![r] = 1]

attemptRefused(r) ==
  /\ watcher[r] = "sleeping"
  /\ mu = "free"
  /\ ~FallbackMayAcquire(r)
  /\ Goto(r, "refused")
  /\ UNCHANGED <<vars, seq>>

\* The loop goes on after a refused attempt while the request may come back.
keepWatching(r) ==
  /\ watcher[r] = "refused"
  /\ mu = "free"
  /\ Goto(r, IF FallbackStillWanted(r) THEN "sleeping" ELSE "done")
  /\ UNCHANGED <<vars, seq>>

-----------------------------------------------------------------------------
(* runFallbackResponder *)

\* The upstream sends a chunk, and it is committed.
submitAccepted(r) ==
  /\ watcher[r] = "upstream"
  /\ seq[r] \in ClientSeqs
  /\ \E n \in FragmentSizes : SubmitFragment(FallbackSession(r), seq[r], n)
  /\ seq' = [seq EXCEPT ![r] = @ + 1]
  /\ UNCHANGED watcher

\* SubmitFragment returns an error: the assignment is gone or the chunk passes
\* the output limit.  That ends the stream.
Refused(r, n) ==
  \/ activeByRes[FallbackSession(r)] = None
  \/ AnswerLen(fragments[r]) + n > req[r].limit
submitRefusedIgnored(r) ==
  /\ watcher[r] = "upstream"
  /\ mu = "free"
  /\ seq[r] \in ClientSeqs
  /\ \E n \in FragmentSizes : Refused(r, n)
  /\ seq' = [seq EXCEPT ![r] = @ + 1]
  /\ UNCHANGED <<vars, watcher>>
submitRefused(r) ==
  /\ watcher[r] = "upstream"
  /\ mu = "free"
  /\ seq[r] \in ClientSeqs
  /\ \E n \in FragmentSizes : Refused(r, n)
  /\ Goto(r, "closing")
  /\ UNCHANGED <<vars, seq>>

\* The upstream ends its answer, fails, or runs into the two minutes.
upstreamEnds(r) ==
  /\ watcher[r] = "upstream"
  /\ Goto(r, "closing")
  /\ UNCHANGED <<vars, seq>>

\* An attempt that has submitted text finishes; an error is only logged.
closeSubmitted(r) ==
  /\ watcher[r] = "closing"
  /\ seq[r] > 1
  /\ \/ Finish(FallbackSession(r))
     \/ mu = "free" /\ activeByRes[FallbackSession(r)] = None /\ UNCHANGED vars
  /\ Goto(r, "done")
  /\ UNCHANGED seq

\* An attempt without text gives the request back and is repeated; when Skip
\* fails the goroutine returns.
closeEmptyWithoutSkip(r) ==
  /\ watcher[r] = "closing"
  /\ seq[r] = 1
  /\ Goto(r, "sleeping")
  /\ UNCHANGED <<vars, seq>>
closeEmptyOnce(r) ==
  /\ watcher[r] = "closing"
  /\ seq[r] = 1
  /\ \/ Skip(FallbackSession(r)) /\ Goto(r, "done")
     \/ /\ mu = "free"
        /\ activeByRes[FallbackSession(r)] = None
        /\ Goto(r, "skip failed")
        /\ UNCHANGED vars
  /\ UNCHANGED seq
closeEmpty(r) ==
  /\ watcher[r] = "closing"
  /\ seq[r] = 1
  /\ \/ Skip(FallbackSession(r)) /\ Goto(r, "sleeping")
     \/ /\ mu = "free"
        /\ activeByRes[FallbackSession(r)] = None
        /\ Goto(r, "skip failed")
        /\ UNCHANGED vars
  /\ UNCHANGED seq

-----------------------------------------------------------------------------
\* Steps the goroutine takes without the upstream.
Watch(r) ==
  \/ scheduleFallback(r)
  \/ attemptAcquired(r)
  \/ attemptRefused(r)
  \/ keepWatching(r)
  \/ submitRefused(r)
  \/ closeSubmitted(r)
  \/ closeEmpty(r)

\* Everybody else.
Others ==
  \/ RequesterNext
  \/ \E s \in Answerers : Connected(s) \/ Answering(s)
  \/ tryAssignStep
  \/ tryAssignReturn
  \/ \E r \in Requests : Elapse(r) \/ SweepTimeouts(r)

FallbackNext ==
  \/ \E r \in Requests : Watch(r) \/ submitAccepted(r) \/ upstreamEnds(r)
  \/ Others /\ UNCHANGED watcherVars

FallbackSpec == FallbackInit /\ [][FallbackNext]_allVars

\* Beside the sweeper's Fairness: timers fire, a call gets the mutex in the end,
\* and an upstream call ends, at the latest with its two minutes.  Of the upstream
\* it is assumed that it does not fail endlessly many attempts of a request.
FallbackFairness ==
  /\ Fairness
  /\ \A r \in Requests :
       /\ SF_allVars(Watch(r))
       /\ WF_allVars(upstreamEnds(r))
       /\ SF_allVars(submitAccepted(r))

FairFallbackSpec == FallbackSpec /\ FallbackFairness

-----------------------------------------------------------------------------
(* Properties *)

\* Every assignment the fallback holds has a goroutine behind it that will end it:
\* unlike a connection's, it has no disconnect that would give the request back.
AssignmentAttended ==
  \A r \in Requests :
    activeByRes[FallbackSession(r)] # None => watcher[r] \in {"upstream", "closing"}

\* An answer of the fallback is the beginning of what one upstream call sent: no
\* chunk is left out before a later one, and none is from an earlier attempt.
FallbackAnswerWhole ==
  \A r \in Requests :
    req[r].responder = FallbackSession(r) =>
      /\ Len(fragments[r]) = seq[r] - 1
      /\ \A i \in DOMAIN fragments[r] : fragments[r][i].seq = i

\* The goroutine does not outlive its request, whoever ends it and whenever.
WatcherEnds ==
  \A r \in Requests :
    isTerminal(req[r].status) /\ watcher[r] # "none" ~> watcher[r] \in Returned

HeldByPerson(r) == req[r].status = "assigned" /\ req[r].responder \in Sessions

\* A watched request that people leave alone from some time on comes to an end,
\* across failed attempts, silent people and sweeps, unless a Skip fails.
AnsweredUnlessSkipFails ==
  \A r \in Requests :
    <>[]~HeldByPerson(r) =>
      (watcher[r] = "sleeping" ~>
         isTerminal(req[r].status) \/ watcher[r] = "skip failed")

\* service.go: a request that returns to the queue is one "the fallback keeps
\* watching instead of giving up": no goroutine returns while it is wanted.
KeepsWatching ==
  \A r \in Requests : watcher[r] \in Returned => ~FallbackStillWanted(r)
=============================================================================
