------------------------------ MODULE PgStream ------------------------------
(***************************************************************************)
(* The answer stream of the Postgres and Redis backend: Subscribe,         *)
(* drainFragmentsAfter and terminalState of pgredis/lifecycle.go with the  *)
(* channels of pgredis/streams.go, beside the life cycle of module PgRedis.*)
(*                                                                         *)
(* A subscriber's goroutine reads the fragments of its request from        *)
(* Postgres, in order, each time it wakes.  It wakes by a message of       *)
(* publishStream or by its ticker; pub/sub may lose or repeat messages and *)
(* the ticker always comes, so Wake is always possible and nothing else of *)
(* the messages is left.  A fragment is named by its ordinal.  Every       *)
(* request has one subscriber, and its reader takes events from the        *)
(* channel or leaves.                                                      *)
(***************************************************************************)
EXTENDS PgRedis

CONSTANT
  BufferCap   \* capacity of the channel out (64 in the code)

ASSUME StreamAssumption == BufferCap \in Nat \ {0}

VARIABLES
  flush,    \* where the subscriber's goroutine is
  rows,     \* the ordinals its query has returned and emit has not sent yet
  last,     \* lastOrdinal
  out,      \* the events in the channel
  got,      \* the events that the reader has taken
  short     \* history: the query before the final event has failed

streamVars == <<flush, rows, last, out, got, short>>
allVars == <<vars, streamVars>>

\* The values of flush: "none" before Subscribe; "drain", "emit" the first drain of a
\* flush, "check" terminalState, "redrain", "reemit" the second drain, "done" the
\* final event, "wait" between two flushes, "ended" when out is closed.
\* Events: the ordinal of a fragment, or Done.
Done == 0
Enter(q, phase) == flush' = [flush EXCEPT ![q] = phase]

StreamInit ==
  /\ Init
  /\ flush = [q \in Requests |-> "none"]
  /\ rows = [q \in Requests |-> <<>>]
  /\ last = [q \in Requests |-> 0]
  /\ out = [q \in Requests |-> <<>>]
  /\ got = [q \in Requests |-> <<>>]
  /\ short = [q \in Requests |-> FALSE]

Subscribe(q) ==
  /\ flush[q] = "none"
  /\ row[q].status # "absent"
  /\ Enter(q, "drain")
  /\ UNCHANGED <<vars, rows, last, out, got, short>>

\* The query of drainFragmentsAfter: what is committed when it runs.
drainFragmentsAfter(q) ==
  /\ flush[q] \in {"drain", "redrain"}
  /\ rows' = [rows EXCEPT ![q] = [i \in 1..(Len(row[q].answer) - last[q]) |-> last[q] + i]]
  /\ Enter(q, IF flush[q] = "drain" THEN "emit" ELSE "reemit")
  /\ UNCHANGED <<vars, last, out, got, short>>

\* It fails: the flush goes on as if there were nothing new.
drainFails(q) ==
  /\ flush[q] \in {"drain", "redrain"}
  /\ faults < MaxFaults
  /\ faults' = faults + 1
  /\ short' = [short EXCEPT ![q] = flush[q] = "redrain"]
  /\ Enter(q, IF flush[q] = "drain" THEN "check" ELSE "done")
  /\ UNCHANGED <<pgVars, redisVars, conn, todo, lost, robbed, calls, rows, last, out, got>>

\* emit waits for room in out.
emit(q) ==
  /\ flush[q] \in {"emit", "reemit"}
  /\ IF rows[q] = <<>>
       THEN /\ Enter(q, IF flush[q] = "emit" THEN "check" ELSE "done")
            /\ UNCHANGED <<rows, last, out>>
       ELSE /\ Len(out[q]) < BufferCap
            /\ out' = [out EXCEPT ![q] = Append(@, Head(rows[q]))]
            /\ last' = [last EXCEPT ![q] = Head(rows[q])]
            /\ rows' = [rows EXCEPT ![q] = Tail(@)]
            /\ UNCHANGED flush
  /\ UNCHANGED <<vars, got, short>>

terminalStateWithoutRedrain(q) ==
  /\ flush[q] = "check"
  /\ Enter(q, IF isTerminalStatus(row[q].status) THEN "done" ELSE "wait")
  /\ UNCHANGED <<vars, rows, last, out, got, short>>
terminalStateOfFinish(q) ==
  /\ flush[q] = "check"
  /\ Enter(q, IF row[q].status = "completed" THEN "redrain" ELSE "wait")
  /\ UNCHANGED <<vars, rows, last, out, got, short>>
terminalState(q) ==
  /\ flush[q] = "check"
  /\ Enter(q, IF isTerminalStatus(row[q].status) THEN "redrain" ELSE "wait")
  /\ UNCHANGED <<vars, rows, last, out, got, short>>

emitDone(q) ==
  /\ flush[q] = "done"
  /\ Len(out[q]) < BufferCap
  /\ out' = [out EXCEPT ![q] = Append(@, Done)]
  /\ Enter(q, "ended")
  /\ UNCHANGED <<vars, rows, last, got, short>>

Wake(q) ==
  /\ flush[q] = "wait"
  /\ Enter(q, "drain")
  /\ UNCHANGED <<vars, rows, last, out, got, short>>

\* The reader: the handler of the requester's connection.
Take(q) ==
  /\ out[q] # <<>>
  /\ got' = [got EXCEPT ![q] = Append(@, Head(out[q]))]
  /\ out' = [out EXCEPT ![q] = Tail(@)]
  /\ UNCHANGED <<vars, flush, rows, last, short>>

\* The reader leaves and calls stop: the goroutine gives up wherever it is, and
\* what is left in the channel is not read.
Stop(q) ==
  /\ flush[q] \notin {"none", "ended"}
  /\ Enter(q, "ended")
  /\ rows' = [rows EXCEPT ![q] = <<>>]
  /\ out' = [out EXCEPT ![q] = <<>>]
  /\ UNCHANGED <<vars, last, got, short>>

subscriber(q) ==
  \/ drainFragmentsAfter(q) \/ emit(q) \/ terminalState(q) \/ emitDone(q) \/ Wake(q)

StreamNext ==
  \/ Next /\ UNCHANGED streamVars
  \/ \E q \in Requests :
       \/ Subscribe(q) \/ subscriber(q) \/ drainFails(q) \/ Take(q) \/ Stop(q)

\* The subscriber's goroutine and the reader run until they end; every pod goes
\* on with the method it runs, and its sweeper and its ticker keep running; time
\* passes.  Nothing is assumed of the clients, nor of faults.
Fairness ==
  /\ \A p \in Pods :
       /\ WF_allVars(StepOf(p) /\ UNCHANGED streamVars)
       /\ WF_allVars(SweepTimeouts(p) /\ UNCHANGED streamVars)
       /\ WF_allVars(assignTicker(p) /\ UNCHANGED streamVars)
  /\ \A q \in Requests :
       /\ WF_allVars(Age(q) /\ UNCHANGED streamVars)
       /\ WF_allVars(subscriber(q))
       /\ WF_allVars(Take(q))

StreamSpec == StreamInit /\ [][StreamNext]_allVars
FairStreamSpec == StreamSpec /\ Fairness

-----------------------------------------------------------------------------
(* Properties *)

\* The fragments that have left the goroutine.
Sent(q) == RemoveValue(got[q] \o out[q], Done)

\* "contiguous and gap-free": a subscriber gets the fragments from the first one on,
\* each once, and the final event after the last of an ended answer, although it
\* reads the fragments and the status in separate queries.  The exception is an
\* error of the query between the two: the final event then ends a shorter text.
GapFree ==
  \A q \in Requests :
    /\ Sent(q) = [i \in 1..Len(Sent(q)) |-> i]
    /\ Len(Sent(q)) <= Len(row[q].answer)
    /\ Done \in ToSet(got[q] \o out[q]) =>
         /\ isTerminalStatus(row[q].status)
         /\ got[q] \o out[q] = Append(Sent(q), Done)
         /\ Len(Sent(q)) = Len(row[q].answer) \/ short[q]

\* Whoever ends the request, on whichever pod, and whatever messages were lost, the
\* stream of a reader that keeps reading ends.
StreamEnds ==
  \A q \in Requests :
    flush[q] # "none" /\ isTerminalStatus(row[q].status)
      ~> flush[q] = "ended" /\ out[q] = <<>>

\* A responder that goes silent, or was never told of its assignment because the
\* pod died after the row was updated, does not keep the request: some sweeper
\* gives it back, or closes the answer that has begun.
SilenceEnds ==
  \A q \in Requests :
    /\ row[q].status = "assigned" ~> row[q].status # "assigned"
    /\ row[q].status = "streaming" ~> isTerminalStatus(row[q].status)

Matchable(q, s) == q \in ToSet(queue) /\ s \in ToSet(avail) /\ Compatible(q, s)

\* A queued request and a present responder that fit do not stay beside each other,
\* also when the pod that was to match them has died: the ticker is the backstop.
BackstopMatches ==
  \A q \in Requests, s \in Responders :
    [](s \in present) => (Matchable(q, s) ~> ~Matchable(q, s))
=============================================================================
