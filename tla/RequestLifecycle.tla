-------------------------- MODULE RequestLifecycle --------------------------
(***************************************************************************)
(* What every backend promises the requester of a question, whatever its   *)
(* queues, pools, locks and databases do meanwhile: the contract behind    *)
(* core.Backend (backend/internal/core/backend.go, docs/SPEC.md, 4.1-4.5). *)
(*                                                                         *)
(* Until the first fragment is committed a request may wait, be handed to  *)
(* any responder, be taken back and be given up, as often as the backend   *)
(* likes.  The commit of the first fragment binds it to the responder that *)
(* holds it: from then on it is never queued, reassigned or given up, only *)
(* that responder adds to the answer, one fragment at a time, and it ends  *)
(* once.  The module says nothing about when any of this happens.          *)
(***************************************************************************)
EXTENDS Sequences

CONSTANTS
  Requests,     \* the requests that may be asked
  Responders,   \* whoever may answer
  None          \* no responder

VARIABLE life   \* request -> its status, its responder and its answer

Answered == {"completed", "timeout_completed"}

\* The states before the first fragment.
Unheard ==
  [status : {"absent", "queued", "abandoned"}, responder : {None}, answer : {<<>>}]
    \cup [status : {"assigned"}, responder : Responders, answer : {<<>>}]

\* Waiting, handed out, taken back or given up: none of it shows.
Waits(a, b) ==
  /\ {a, b} \subseteq Unheard
  /\ a.status # "abandoned"
  /\ b.status \in {"queued", "assigned"} \cup
                  (IF a.status = "absent" THEN {} ELSE {"abandoned"})

\* The responder commits a fragment, which may use up the output limit.
Commits(a, b) ==
  /\ a.status \in {"assigned", "streaming"}
  /\ b.status \in {"streaming", "completed"}
  /\ b.responder = a.responder
  /\ b.answer = Append(a.answer, a.responder)

\* The answer is finished, or cut off by a disconnect or a timeout.
Ends(a, b) ==
  /\ a.status = "streaming"
  /\ b.status \in Answered
  /\ b.responder = a.responder
  /\ b.answer = a.answer

Moves(a, b) == Waits(a, b) \/ Commits(a, b) \/ Ends(a, b)

Init == life = [r \in Requests |-> [status |-> "absent", responder |-> None, answer |-> <<>>]]

\* One call may move several requests: the sweeper does.
Next ==
  /\ DOMAIN life' = Requests
  /\ \A r \in Requests : life'[r] = life[r] \/ Moves(life[r], life'[r])

Spec == Init /\ [][Next]_life
=============================================================================
