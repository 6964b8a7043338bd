--------------------------- MODULE PgStreamProofs ---------------------------
(***************************************************************************)
(* Proofs about PgStream, beside any life cycle that PgRedis allows and    *)
(* for every capacity of the channel.                                      *)
(***************************************************************************)
EXTENDS PgStream, PgRedisProofs

-----------------------------------------------------------------------------
(* The inductive invariant *)

\* The fragments 1..n, and the k fragments after them.
Ordinals(n) == [i \in 1..n |-> i]
After(n, k) == [i \in 1..k |-> n + i]

Phases == {"none", "drain", "emit", "check", "redrain", "reemit", "done", "wait", "ended"}

StreamTypes ==
  /\ flush \in [Requests -> Phases]
  /\ rows \in [Requests -> Seq(Nat)]
  /\ last \in [Requests -> Nat]
  /\ out \in [Requests -> Seq(Nat)]
  /\ got \in [Requests -> Seq(Nat)]
  /\ short \in [Requests -> BOOLEAN]

\* Where a subscriber is in the answer of its request: in phase f, with the rows rs
\* still to send after the ordinal n and the events e sent, when the answer has len
\* fragments and is over or not.  The rows that are left follow the last one sent
\* and are committed; before the end the events are the first n fragments; what is
\* read after the status was seen to be final is all there is.
Position(f, rs, n, e, over, len, sh) ==
  /\ rs = After(n, Len(rs))
  /\ n + Len(rs) <= len
  /\ f # "ended" => e = Ordinals(n)
  /\ f = "ended" =>
       \/ \E m \in 0..n : e = Ordinals(m)
       \/ e = Append(Ordinals(n), Done) /\ over /\ (n = len \/ sh)
  /\ f \in {"redrain", "reemit", "done"} => over
  /\ f = "reemit" => n + Len(rs) = len
  /\ f = "done" => n = len \/ sh

PositionOf(q) ==
  Position(flush[q], rows[q], last[q], got[q] \o out[q], isTerminalStatus(row[q].status),
           Len(row[q].answer), short[q])

StreamInv ==
  /\ Inv
  /\ StreamTypes
  /\ \A q \in Requests : PositionOf(q)

-----------------------------------------------------------------------------
(* Ordinals *)

\* Sequences that have the same elements are the same.
LEMMA SameSequence ==
  ASSUME NEW S, NEW s \in Seq(S), NEW t \in Seq(S), Len(s) = Len(t),
         \A i \in 1..Len(t) : s[i] = t[i]
  PROVE  s = t
OBVIOUS

\* The first n fragments, and the next one.
LEMMA OrdinalsFacts ==
  ASSUME NEW n \in Nat
  PROVE  /\ Ordinals(n) \in Seq(Nat) /\ Len(Ordinals(n)) = n
         /\ \A i \in 1..n : Ordinals(n)[i] = i
         /\ n = 0 => Ordinals(n) = <<>>
         /\ Append(Ordinals(n), n + 1) = Ordinals(n + 1)
<1>1. Ordinals(n) \in Seq(Nat) /\ Len(Ordinals(n)) = n /\ \A i \in 1..n : Ordinals(n)[i] = i
  BY DEF Ordinals
<1>2. /\ Ordinals(n + 1) \in Seq(Nat) /\ Len(Ordinals(n + 1)) = n + 1
      /\ \A i \in 1..(n + 1) : Ordinals(n + 1)[i] = i
  BY DEF Ordinals
<1>3. n = 0 => Ordinals(n) = <<>>
  BY <1>1
<1>4. ASSUME NEW s \in Seq(Nat), Len(s) = n, \A i \in 1..n : s[i] = i,
             NEW u \in Seq(Nat), Len(u) = n + 1, \A i \in 1..(n + 1) : u[i] = i
      PROVE  Append(s, n + 1) = u
  <2>1. Append(s, n + 1) \in Seq(Nat) /\ Len(Append(s, n + 1)) = n + 1
    BY <1>4
  <2>2. \A i \in 1..(n + 1) : Append(s, n + 1)[i] = u[i]
    BY <1>4
  <2> QED BY <1>4, <2>1, <2>2
<1>5. Append(Ordinals(n), n + 1) = Ordinals(n + 1)
  BY <1>1, <1>2, <1>4
<1> QED BY <1>1, <1>3, <1>5

\* The rows that a query returns, and what is left after the first of them.
LEMMA AfterFacts ==
  ASSUME NEW n \in Nat, NEW k \in Nat
  PROVE  /\ After(n, k) \in Seq(Nat) /\ Len(After(n, k)) = k
         /\ k = 0 => After(n, k) = <<>>
         /\ k # 0 => /\ After(n, k) # <<>> /\ Head(After(n, k)) = n + 1
                     /\ Tail(After(n, k)) = After(n + 1, k - 1)
<1>1. After(n, k) \in Seq(Nat) /\ Len(After(n, k)) = k /\ \A i \in 1..k : After(n, k)[i] = n + i
  BY DEF After
<1>2. k = 0 => After(n, k) = <<>>
  BY <1>1
<1>3. ASSUME k # 0
      PROVE  /\ After(n + 1, k - 1) \in Seq(Nat) /\ Len(After(n + 1, k - 1)) = k - 1
             /\ \A i \in 1..(k - 1) : After(n + 1, k - 1)[i] = n + 1 + i
  BY <1>3 DEF After
<1>4. ASSUME k # 0, NEW s \in Seq(Nat), Len(s) = k, \A i \in 1..k : s[i] = n + i,
             NEW u \in Seq(Nat), Len(u) = k - 1, \A i \in 1..(k - 1) : u[i] = n + 1 + i
      PROVE  s # <<>> /\ Head(s) = n + 1 /\ Tail(s) = u
  <2>1. s # <<>> /\ Head(s) = n + 1 /\ Tail(s) \in Seq(Nat) /\ Len(Tail(s)) = k - 1
    BY <1>4
  <2>2. \A i \in 1..(k - 1) : Tail(s)[i] = u[i]
    BY <1>4
  <2>3. Tail(s) = u
    BY <1>4, <2>1, <2>2, SameSequence, Zenon
  <2> QED BY <2>1, <2>3
<1> QED BY <1>1, <1>2, <1>3, <1>4

\* What a reader takes and what is in the channel are one sequence.
LEMMA EventsFacts ==
  ASSUME NEW s \in Seq(Nat), NEW t \in Seq(Nat)
  PROVE  /\ s \o t \in Seq(Nat) /\ s \o <<>> = s
         /\ \A e \in Nat : s \o Append(t, e) = Append(s \o t, e)
         /\ t # <<>> => Append(s, Head(t)) \o Tail(t) = s \o t
<1>1. s \o t \in Seq(Nat) /\ s \o <<>> = s
  OBVIOUS
<1>2. ASSUME NEW e \in Nat PROVE s \o Append(t, e) = Append(s \o t, e)
  OBVIOUS
<1>3. ASSUME t # <<>> PROVE Append(s, Head(t)) \o Tail(t) = s \o t
  BY <1>3
<1> QED BY <1>1, <1>2, <1>3

\* A reader that has left has got a prefix of the fragments.
LEMMA PrefixFacts ==
  ASSUME NEW s \in Seq(Nat), NEW t \in Seq(Nat), NEW n \in Nat, s \o t = Ordinals(n)
  PROVE  \E m \in 0..n : s = Ordinals(m)
<1>1. Len(s) \in Nat /\ Len(t) \in Nat /\ Len(s \o t) = Len(s) + Len(t)
  OBVIOUS
<1>2. Len(s) \in 0..n
  BY <1>1, OrdinalsFacts
<1>3. \A i \in 1..Len(s) : (s \o t)[i] = s[i]
  OBVIOUS
<1>4. \A i \in 1..n : (s \o t)[i] = i
  BY OrdinalsFacts
<1>5. \A i \in 1..Len(s) : i \in 1..n
  BY <1>1, <1>2
<1>6. /\ Ordinals(Len(s)) \in Seq(Nat) /\ Len(Ordinals(Len(s))) = Len(s)
      /\ \A i \in 1..Len(s) : Ordinals(Len(s))[i] = i
  BY <1>1, OrdinalsFacts
<1>7. s = Ordinals(Len(s))
  BY <1>3, <1>4, <1>5, <1>6, SameSequence, Zenon
<1> QED BY <1>2, <1>7

\* Keeping the first n elements of a sequence.
LEMMA KeepPrefix ==
  ASSUME NEW S, NEW s \in Seq(S), NEW n \in 0..Len(s)
  PROVE  KeepAt(s, 1..n) = [i \in 1..n |-> s[i]]
<1>1. n \in Nat /\ Cardinality(1..n) = n
  BY FS_Interval
<1>2. ASSUME NEW i \in 1..n PROVE Cardinality({j \in 1..n : j <= i}) = i
  <2>1. {j \in 1..n : j <= i} = 1..i /\ i \in Nat
    BY <1>1
  <2>2. Cardinality(1..i) = i
    BY <2>1, FS_Interval
  <2> QED BY <2>1, <2>2
<1>3. ASSUME NEW i \in 1..n
      PROVE  (CHOOSE k \in 1..n : Cardinality({j \in 1..n : j <= k}) = i) = i
  BY <1>2
<1>4. \A i \in 1..n : s[CHOOSE k \in 1..n : Cardinality({j \in 1..n : j <= k}) = i] = s[i]
  BY <1>3, Zenon
<1>5. KeepAt(s, 1..n)
        = [i \in 1..n |-> s[CHOOSE k \in 1..n : Cardinality({j \in 1..n : j <= k}) = i]]
  BY <1>1, Zenon DEF KeepAt
<1> QED BY <1>4, <1>5, Zenon

\* The fragments among the events, before and after the final event.
LEMMA SentFacts ==
  ASSUME NEW n \in Nat
  PROVE  /\ RemoveValue(Ordinals(n), Done) = Ordinals(n)
         /\ RemoveValue(Append(Ordinals(n), Done), Done) = Ordinals(n)
         /\ Done \notin ToSet(Ordinals(n))
<1>1. \A i \in 1..n : i # Done
  BY DEF Done
<1>2. ASSUME NEW s \in Seq(Nat), n <= Len(s), \A i \in 1..n : s[i] = i,
             \A i \in 1..Len(s) : i \in 1..n \/ s[i] = Done
      PROVE  RemoveValue(s, Done) = Ordinals(n)
  <2>1. {i \in DOMAIN s : s[i] # Done} = 1..n
    BY <1>1, <1>2
  <2>2. n \in 0..Len(s)
    BY <1>2
  <2>3. RemoveValue(s, Done) = [i \in 1..n |-> s[i]]
    BY <2>1, <2>2, KeepPrefix DEF RemoveValue
  <2> QED BY <1>2, <2>3 DEF Ordinals
<1>3. RemoveValue(Ordinals(n), Done) = Ordinals(n)
  <2>1. \A s \in Seq(Nat) : Len(s) = n => n <= Len(s) /\ \A i \in 1..Len(s) : i \in 1..n
    OBVIOUS
  <2> QED BY <1>2, <2>1, OrdinalsFacts, Zenon
<1>4. ASSUME NEW s \in Seq(Nat), Len(s) = n, \A i \in 1..n : s[i] = i
      PROVE  RemoveValue(Append(s, Done), Done) = Ordinals(n)
  <2>1. Done \in Nat
    BY DEF Done
  <2>2. /\ Append(s, Done) \in Seq(Nat) /\ Len(Append(s, Done)) = n + 1
        /\ \A i \in 1..n : Append(s, Done)[i] = i
        /\ \A i \in 1..Len(Append(s, Done)) : i \in 1..n \/ Append(s, Done)[i] = Done
    BY <1>4, <2>1, AppendIndices
  <2>3. n <= Len(Append(s, Done))
    BY <2>2
  <2> QED BY <1>2, <2>2, <2>3, Zenon
<1>5. RemoveValue(Append(Ordinals(n), Done), Done) = Ordinals(n)
  BY <1>4, OrdinalsFacts
<1>6. Done \notin ToSet(Ordinals(n))
  BY <1>1 DEF ToSet, Ordinals
<1> QED BY <1>3, <1>5, <1>6

-----------------------------------------------------------------------------
(* A position, from step to step *)

\* The life cycle goes on: the answer grows, and a final row stays as it is.
LEMMA PositionKept ==
  ASSUME NEW f, NEW rs, NEW n \in Nat, NEW e, NEW over, NEW len \in Nat, NEW sh,
         Len(rs) \in Nat, Position(f, rs, n, e, over, len, sh),
         NEW now, NEW grown \in Nat, len <= grown, over => now /\ grown = len
  PROVE  Position(f, rs, n, e, now, grown, sh)
<1>1. n + Len(rs) <= grown
  BY DEF Position
<1> QED BY <1>1 DEF Position

\* The goroutine goes on to a phase before which nothing is to be shown.
LEMMA PositionEnters ==
  ASSUME NEW f, NEW rs, NEW n \in Nat, NEW e, NEW over, NEW len \in Nat, NEW sh, NEW sh2,
         Len(rs) \in Nat, Position(f, rs, n, e, over, len, sh), f # "ended",
         NEW g \in {"drain", "emit", "check", "wait"}
  PROVE  Position(g, rs, n, e, over, len, sh2)
BY DEF Position

\* terminalState has seen a final status.
LEMMA PositionFinal ==
  ASSUME NEW f, NEW rs, NEW n \in Nat, NEW e, NEW over, NEW len \in Nat, NEW sh,
         Position(f, rs, n, e, over, len, sh), f # "ended", over
  PROVE  Position("redrain", rs, n, e, over, len, sh)
BY DEF Position

\* The query after that reads everything.
LEMMA PositionQueried ==
  ASSUME NEW f, NEW rs, NEW n \in Nat, NEW e, NEW over, NEW len \in Nat, NEW sh,
         Len(rs) \in Nat, Position(f, rs, n, e, over, len, sh), f \in {"drain", "redrain"}
  PROVE  Position(IF f = "drain" THEN "emit" ELSE "reemit",
                  After(n, len - n), n, e, over, len, sh)
<1>1. n <= len
  BY DEF Position
<1>2. PICK k \in Nat : k = len - n /\ n + k = len
  BY <1>1
<1>3. e = Ordinals(n) /\ (f = "redrain" => over)
  BY DEF Position
<1>4. Len(After(n, k)) = k
  BY AfterFacts
<1>5. n + Len(After(n, k)) = len /\ n + Len(After(n, k)) <= len
  BY <1>2, <1>4
<1>6. Position(IF f = "drain" THEN "emit" ELSE "reemit", After(n, k), n, e, over, len, sh)
  BY <1>3, <1>4, <1>5 DEF Position
<1> QED BY <1>2, <1>6

\* It has failed: the final event may come too early, and short says so.
LEMMA PositionFailed ==
  ASSUME NEW f, NEW rs, NEW n \in Nat, NEW e, NEW over, NEW len \in Nat, NEW sh,
         Len(rs) \in Nat, Position(f, rs, n, e, over, len, sh), f \in {"drain", "redrain"}
  PROVE  Position(IF f = "drain" THEN "check" ELSE "done", rs, n, e, over, len, f = "redrain")
BY DEF Position

\* All rows of a query are sent.
LEMMA PositionEmitted ==
  ASSUME NEW f, NEW n \in Nat, NEW e, NEW over, NEW len \in Nat, NEW sh,
         Position(f, <<>>, n, e, over, len, sh), f \in {"emit", "reemit"}
  PROVE  Position(IF f = "emit" THEN "check" ELSE "done", <<>>, n, e, over, len, sh)
<1>1. Len(<<>>) = 0 /\ n + 0 = n
  OBVIOUS
<1> QED BY <1>1 DEF Position

\* One more is.
LEMMA PositionEmits ==
  ASSUME NEW f, NEW rs, NEW n \in Nat, NEW e, NEW over, NEW len \in Nat, NEW sh,
         Len(rs) \in Nat, rs # <<>>, Position(f, rs, n, e, over, len, sh),
         f \in {"emit", "reemit"}
  PROVE  /\ Head(rs) = n + 1
         /\ Position(f, Tail(rs), n + 1, Append(e, n + 1), over, len, sh)
<1>1. PICK k \in Nat : k = Len(rs)
  OBVIOUS
<1>2. rs = After(n, k) /\ k # 0
  BY <1>1, AfterFacts DEF Position
<1>3. Head(rs) = n + 1 /\ Tail(rs) = After(n + 1, k - 1)
  BY <1>2, AfterFacts
<1>4. Len(Tail(rs)) = k - 1 /\ n + 1 + (k - 1) = n + k
  <2>1. n + 1 \in Nat /\ k - 1 \in Nat /\ n + 1 + (k - 1) = n + k
    BY <1>2
  <2>2. Len(After(n + 1, k - 1)) = k - 1
    BY <2>1, AfterFacts, Zenon
  <2> QED BY <1>3, <2>1, <2>2
<1>5. Append(e, n + 1) = Ordinals(n + 1)
  BY OrdinalsFacts DEF Position
<1>6. n + k <= len /\ (f = "reemit" => over /\ n + k = len)
  BY <1>1 DEF Position
<1>7. /\ Tail(rs) = After(n + 1, Len(Tail(rs)))
      /\ n + 1 + Len(Tail(rs)) <= len
      /\ f = "reemit" => over /\ n + 1 + Len(Tail(rs)) = len
  BY <1>3, <1>4, <1>6
<1>8. Position(f, Tail(rs), n + 1, Append(e, n + 1), over, len, sh)
  BY <1>5, <1>7, Zenon DEF Position
<1> QED BY <1>3, <1>8

\* The final event.
LEMMA PositionDone ==
  ASSUME NEW rs, NEW n \in Nat, NEW e, NEW over, NEW len \in Nat, NEW sh,
         Position("done", rs, n, e, over, len, sh)
  PROVE  Position("ended", rs, n, Append(e, Done), over, len, sh)
BY DEF Position

\* The reader leaves with the first events.
LEMMA PositionStopped ==
  ASSUME NEW f, NEW rs, NEW n \in Nat, NEW s \in Seq(Nat), NEW t \in Seq(Nat),
         NEW over, NEW len \in Nat, NEW sh,
         Len(rs) \in Nat, Position(f, rs, n, s \o t, over, len, sh), f # "ended"
  PROVE  Position("ended", <<>>, n, s \o <<>>, over, len, sh)
<1>1. s \o t = Ordinals(n) /\ n <= len
  BY DEF Position
<1>2. \E m \in 0..n : s = Ordinals(m)
  BY <1>1, PrefixFacts, Zenon
<1>3. s \o <<>> = s
  OBVIOUS
<1>4. <<>> = After(n, Len(<<>>)) /\ n + Len(<<>>) <= len
  BY <1>1, AfterFacts
<1> QED BY <1>2, <1>3, <1>4, Zenon DEF Position

-----------------------------------------------------------------------------
(* The steps *)

\* What a step of PgRedis does to an answer.
LEMMA AnswersGrow ==
  ASSUME Inv, RowsMove, Inv', NEW q \in Requests
  PROVE  /\ Len(row[q].answer) \in Nat /\ Len(row'[q].answer) \in Nat
         /\ Len(row[q].answer) <= Len(row'[q].answer)
         /\ isTerminalStatus(row[q].status) =>
              isTerminalStatus(row'[q].status) /\ Len(row'[q].answer) = Len(row[q].answer)
<1> USE DEF Held, Answered, Terminal, isTerminalStatus
<1>1. row[q] \in RowType /\ row'[q] \in RowType
  BY DEF Inv, TypeOK
<1>2. \A r \in RowType : Len(r.answer) \in Nat
  <2>1. \A r \in RowType : r.answer \in Seq(Sessions)
    BY DEF RowType
  <2> QED BY <2>1
<1>3. Len(row[q].answer) \in Nat /\ Len(row'[q].answer) \in Nat
  BY <1>1, <1>2
<1>4. CASE row'[q] = row[q]
  BY <1>3, <1>4
<1>5. ASSUME NEW new, RowChange(q, new)
      PROVE  /\ Len(row[q].answer) <= Len(row'[q].answer)
             /\ ~isTerminalStatus(row[q].status)
  <2>1. row'[q] = new
    BY <1>5 DEF RowChange, Update, Inv, TypeOK
  <2>2. ~isTerminalStatus(row[q].status)
    BY <1>5 DEF RowChange, Creates, Assigns, Frees, Commits, Ends
  <2>3. CASE Commits(q, new)
    <3>1. new.answer = Append(row[q].answer, row[q].responder)
      BY <1>1, <2>3 DEF Commits, RowType
    <3>2. row[q].answer \in Seq(Sessions) /\ row[q].responder \in Sessions
      BY <1>1, <2>3, LiveRow DEF Commits, RowType
    <3>3. ASSUME NEW s \in Seq(Sessions), NEW x \in Sessions PROVE Len(s) <= Len(Append(s, x))
      OBVIOUS
    <3> QED BY <2>1, <2>2, <3>1, <3>2, <3>3
  <2>4. CASE Ends(q, new)
    <3>1. new.answer = row[q].answer
      BY <1>1, <2>4 DEF Ends, RowType
    <3> QED BY <1>3, <2>1, <2>2, <3>1
  <2>5. CASE Creates(q, new) \/ Assigns(q, new) \/ Frees(q, new)
    <3>1. row[q].answer = <<>>
      BY <2>5, LiveRow DEF Creates, Assigns, Frees, RowSound
    <3>2. Len(row[q].answer) = 0
      BY <3>1
    <3> QED BY <1>3, <2>1, <2>2, <3>2
  <2> QED BY <1>5, <2>3, <2>4, <2>5 DEF RowChange
<1>6. ASSUME NEW r \in Requests, r # q, NEW new, RowChange(r, new) PROVE row'[q] = row[q]
  BY <1>6 DEF RowChange, Update, Inv, TypeOK
<1> QED BY <1>3, <1>4, <1>5, <1>6 DEF RowsMove

\* The functions of the invariant at a request.
LEMMA StreamAt ==
  ASSUME StreamInv, NEW q \in Requests
  PROVE  /\ flush[q] \in Phases /\ rows[q] \in Seq(Nat) /\ Len(rows[q]) \in Nat
         /\ last[q] \in Nat /\ out[q] \in Seq(Nat) /\ got[q] \in Seq(Nat)
         /\ short[q] \in BOOLEAN /\ PositionOf(q) /\ Len(row[q].answer) \in Nat
<1>1. /\ flush[q] \in Phases /\ rows[q] \in Seq(Nat)
      /\ last[q] \in Nat /\ out[q] \in Seq(Nat) /\ got[q] \in Seq(Nat)
      /\ short[q] \in BOOLEAN /\ PositionOf(q)
  BY DEF StreamInv, StreamTypes
<1>2. Len(rows[q]) \in Nat
  BY <1>1
<1>3. row[q].answer \in Seq(Sessions)
  BY DEF StreamInv, Inv, TypeOK, RowType
<1>4. Len(row[q].answer) \in Nat
  BY <1>3
<1> QED BY <1>1, <1>2, <1>4

\* The life cycle takes a step and the subscribers do not.
LEMMA LifecycleStep ==
  ASSUME StreamInv, Inv', RowsMove, UNCHANGED streamVars
  PROVE  StreamInv'
<1>1. UNCHANGED <<flush, rows, last, out, got, short>>
  BY DEF streamVars
<1>2. StreamTypes'
  BY <1>1 DEF StreamInv, StreamTypes
<1>3. ASSUME NEW q \in Requests PROVE PositionOf(q)'
  <2>1. Position(flush[q], rows[q], last[q], got[q] \o out[q],
                 isTerminalStatus(row'[q].status), Len(row'[q].answer), short[q])
    BY StreamAt, AnswersGrow, PositionKept DEF StreamInv, PositionOf
  <2> QED BY <1>1, <2>1 DEF PositionOf
<1> QED BY <1>2, <1>3 DEF StreamInv

\* The new values at one request.
Sets(q, f, rs, n, o, g, sh) ==
  /\ flush' = [flush EXCEPT ![q] = f] /\ rows' = [rows EXCEPT ![q] = rs]
  /\ last' = [last EXCEPT ![q] = n] /\ out' = [out EXCEPT ![q] = o]
  /\ got' = [got EXCEPT ![q] = g] /\ short' = [short EXCEPT ![q] = sh]

\* One subscriber or its reader takes a step and the rows do not change.
LEMMA SubscriberStep ==
  ASSUME StreamInv, Inv', UNCHANGED row, NEW q \in Requests,
         NEW f \in Phases, NEW rs \in Seq(Nat), NEW n \in Nat,
         NEW o \in Seq(Nat), NEW g \in Seq(Nat), NEW sh \in BOOLEAN,
         Sets(q, f, rs, n, o, g, sh),
         Position(f, rs, n, g \o o, isTerminalStatus(row[q].status),
                  Len(row[q].answer), sh)
  PROVE  StreamInv'
<1>1. StreamTypes'
  BY DEF StreamInv, StreamTypes, Sets
<1>2. /\ flush'[q] = f /\ rows'[q] = rs /\ last'[q] = n
      /\ out'[q] = o /\ got'[q] = g /\ short'[q] = sh
  BY DEF StreamInv, StreamTypes, Sets
<1>3. \A r \in Requests \ {q} :
        /\ flush'[r] = flush[r] /\ rows'[r] = rows[r] /\ last'[r] = last[r]
        /\ out'[r] = out[r] /\ got'[r] = got[r] /\ short'[r] = short[r]
  BY DEF StreamInv, StreamTypes, Sets
<1>4. PositionOf(q)'
  BY <1>2, Zenon DEF PositionOf
<1>5. ASSUME NEW r \in Requests, r # q PROVE PositionOf(r)'
  <2>1. PositionOf(r)
    BY DEF StreamInv
  <2> QED BY <1>3, <1>5, <2>1, Zenon DEF PositionOf
<1> QED BY <1>1, <1>4, <1>5 DEF StreamInv

\* A variable that does not change, in the form of the lemma above.
LEMMA StreamSame ==
  ASSUME StreamInv, NEW q \in Requests
  PROVE  /\ flush = [flush EXCEPT ![q] = flush[q]] /\ rows = [rows EXCEPT ![q] = rows[q]]
         /\ last = [last EXCEPT ![q] = last[q]] /\ out = [out EXCEPT ![q] = out[q]]
         /\ got = [got EXCEPT ![q] = got[q]] /\ short = [short EXCEPT ![q] = short[q]]
BY DEF StreamInv, StreamTypes

\* A failing query changes nothing of the life cycle but the count of faults.
LEMMA FaultInv ==
  ASSUME Inv, faults < MaxFaults, faults' = faults + 1,
         UNCHANGED <<pgVars, redisVars, conn, todo, lost, robbed, calls>>
  PROVE  Inv'
<1>1. UNCHANGED <<row, reward, due, overdue, queue, avail, present, declined, untagged,
                  lapsed, conn, todo, lost, robbed, calls>>
  BY DEF pgVars, redisVars, hashVars
<1>2. faults' \in 0..MaxFaults
  BY FaultType
<1>3. TypeOK'
  BY <1>1, <1>2 DEF Inv, TypeOK
<1>4. Forward
  BY <1>1, QuietForward
<1> QED BY <1>1, <1>3, <1>4, ForwardUnchanged

\* Every step of a subscriber, its queries in any order with the commits of others.
LEMMA SubscriberInv ==
  ASSUME StreamInv, NEW q \in Requests,
         Subscribe(q) \/ subscriber(q) \/ drainFails(q) \/ Take(q) \/ Stop(q)
  PROVE  StreamInv'
<1> DEFINE over == isTerminalStatus(row[q].status)
           len == Len(row[q].answer)
<1>1. /\ flush[q] \in Phases /\ rows[q] \in Seq(Nat) /\ Len(rows[q]) \in Nat
      /\ last[q] \in Nat /\ out[q] \in Seq(Nat) /\ got[q] \in Seq(Nat)
      /\ short[q] \in BOOLEAN /\ len \in Nat
      /\ Position(flush[q], rows[q], last[q], got[q] \o out[q], over, len, short[q])
  BY StreamAt DEF PositionOf
<1>2. UNCHANGED row /\ Inv'
  <2>1. CASE drainFails(q)
    BY <2>1, FaultInv DEF drainFails, pgVars, StreamInv
  <2>2. CASE UNCHANGED vars
    BY <2>2, StutterInv DEF vars, pgVars, StreamInv
  <2> QED BY <2>1, <2>2 DEF Subscribe, subscriber, drainFragmentsAfter, emit, terminalState,
                            emitDone, Wake, Take, Stop
<1> HIDE DEF over, len
<1>3. ASSUME NEW f \in {"drain", "check", "wait", "redrain", "done"},
             Enter(q, f), UNCHANGED <<rows, last, out, got, short>>,
             Position(f, rows[q], last[q], got[q] \o out[q], over, len, short[q])
      PROVE  StreamInv'
  <2>1. Sets(q, f, rows[q], last[q], out[q], got[q], short[q])
    BY <1>3, StreamSame, Zenon DEF Sets, Enter
  <2>2. f \in Phases
    BY DEF Phases
  <2> QED BY <1>1, <1>2, <1>3, <2>1, <2>2, SubscriberStep, Zenon DEF over, len
<1>4. CASE Subscribe(q) \/ Wake(q)
  BY <1>1, <1>3, <1>4, PositionEnters DEF Subscribe, Wake
<1>5. CASE terminalState(q)
  BY <1>1, <1>3, <1>5, PositionEnters, PositionFinal DEF terminalState, over
<1>6. CASE drainFragmentsAfter(q)
  <2>1. PICK rs : rs = After(last[q], len - last[q])
    OBVIOUS
  <2>2. PICK f \in Phases : f = IF flush[q] = "drain" THEN "emit" ELSE "reemit"
    BY DEF Phases
  <2>3. /\ flush' = [flush EXCEPT ![q] = f] /\ rows' = [rows EXCEPT ![q] = rs]
        /\ UNCHANGED <<last, out, got, short>> /\ flush[q] \in {"drain", "redrain"}
    BY <1>6, <2>1, <2>2 DEF drainFragmentsAfter, Enter, After, len
  <2>4. rs \in Seq(Nat)
    <3>1. last[q] + Len(rows[q]) <= len
      BY <1>1 DEF Position
    <3>2. len - last[q] \in Nat
      BY <1>1, <3>1
    <3> QED BY <1>1, <2>1, <3>2, AfterFacts, Zenon
  <2>5. Position(f, rs, last[q], got[q] \o out[q], over, len, short[q])
    BY <1>1, <2>1, <2>2, <2>3, PositionQueried, Zenon
  <2>6. Sets(q, f, rs, last[q], out[q], got[q], short[q])
    BY <2>3, StreamSame, Zenon DEF Sets
  <2> QED BY <1>1, <1>2, <2>4, <2>5, <2>6, SubscriberStep, Zenon DEF over, len
<1>7. CASE drainFails(q)
  <2>1. PICK f \in Phases : f = IF flush[q] = "drain" THEN "check" ELSE "done"
    BY DEF Phases
  <2>2. PICK sh \in BOOLEAN : sh = (flush[q] = "redrain")
    OBVIOUS
  <2>3. /\ flush' = [flush EXCEPT ![q] = f] /\ short' = [short EXCEPT ![q] = sh]
        /\ UNCHANGED <<rows, last, out, got>> /\ flush[q] \in {"drain", "redrain"}
    BY <1>7, <2>1, <2>2 DEF drainFails, Enter
  <2>4. Position(f, rows[q], last[q], got[q] \o out[q], over, len, sh)
    BY <1>1, <2>1, <2>2, <2>3, PositionFailed, Zenon
  <2>5. Sets(q, f, rows[q], last[q], out[q], got[q], sh)
    BY <2>3, StreamSame, Zenon DEF Sets
  <2> QED BY <1>1, <1>2, <2>4, <2>5, SubscriberStep, Zenon DEF over, len
<1>8. CASE emit(q) /\ rows[q] = <<>>
  <2>1. PICK f \in {"check", "done"} : f = IF flush[q] = "emit" THEN "check" ELSE "done"
    OBVIOUS
  <2>2. Enter(q, f) /\ UNCHANGED <<rows, last, out, got, short>> /\ flush[q] \in {"emit", "reemit"}
    BY <1>8, <2>1 DEF emit
  <2>3. Position(f, rows[q], last[q], got[q] \o out[q], over, len, short[q])
    BY <1>1, <1>8, <2>1, <2>2, PositionEmitted, Zenon
  <2> QED BY <1>3, <2>1, <2>2, <2>3
<1>9. CASE emit(q) /\ rows[q] # <<>>
  <2>1. /\ flush[q] \in {"emit", "reemit"} /\ UNCHANGED <<flush, got, short>>
        /\ out' = [out EXCEPT ![q] = Append(out[q], Head(rows[q]))]
        /\ last' = [last EXCEPT ![q] = Head(rows[q])]
        /\ rows' = [rows EXCEPT ![q] = Tail(rows[q])]
    BY <1>9 DEF emit
  <2>2. /\ Head(rows[q]) = last[q] + 1
        /\ Position(flush[q], Tail(rows[q]), last[q] + 1, Append(got[q] \o out[q], last[q] + 1),
                    over, len, short[q])
    BY <1>1, <1>9, <2>1, PositionEmits, Zenon
  <2>3. /\ last[q] + 1 \in Nat /\ Tail(rows[q]) \in Seq(Nat)
        /\ Append(out[q], last[q] + 1) \in Seq(Nat)
    BY <1>1, <1>9
  <2>4. got[q] \o Append(out[q], last[q] + 1) = Append(got[q] \o out[q], last[q] + 1)
    BY <1>1, <2>3, EventsFacts, ZenonT(40)
  <2>5. Sets(q, flush[q], Tail(rows[q]), last[q] + 1, Append(out[q], last[q] + 1),
             got[q], short[q])
    BY <2>1, <2>2, StreamSame, Zenon DEF Sets
  <2>6. Position(flush[q], Tail(rows[q]), last[q] + 1, got[q] \o Append(out[q], last[q] + 1),
                 over, len, short[q])
    BY <2>2, <2>4
  <2> QED BY <1>1, <1>2, <2>3, <2>5, <2>6, SubscriberStep, ZenonT(40) DEF over, len
<1>10. CASE emitDone(q)
  <2>1. /\ flush[q] = "done" /\ UNCHANGED <<rows, last, got, short>>
        /\ out' = [out EXCEPT ![q] = Append(out[q], Done)]
        /\ flush' = [flush EXCEPT ![q] = "ended"]
    BY <1>10 DEF emitDone, Enter
  <2>2. Done \in Nat /\ "ended" \in Phases
    BY DEF Done, Phases
  <2>3. Append(out[q], Done) \in Seq(Nat)
    BY <1>1, <2>2
  <2>4. got[q] \o Append(out[q], Done) = Append(got[q] \o out[q], Done)
    BY <1>1, <2>2, EventsFacts, ZenonT(40)
  <2>5. Position("ended", rows[q], last[q], Append(got[q] \o out[q], Done), over, len, short[q])
    BY <1>1, <2>1, PositionDone, Zenon
  <2>6. Sets(q, "ended", rows[q], last[q], Append(out[q], Done), got[q], short[q])
    BY <2>1, StreamSame, Zenon DEF Sets
  <2> QED BY <1>1, <1>2, <2>2, <2>3, <2>4, <2>5, <2>6, SubscriberStep, ZenonT(40) DEF over, len
<1>11. CASE Take(q)
  <2>1. /\ out[q] # <<>> /\ UNCHANGED <<flush, rows, last, short>>
        /\ got' = [got EXCEPT ![q] = Append(got[q], Head(out[q]))]
        /\ out' = [out EXCEPT ![q] = Tail(out[q])]
    BY <1>11 DEF Take
  <2>2. Append(got[q], Head(out[q])) \in Seq(Nat) /\ Tail(out[q]) \in Seq(Nat)
    BY <1>1, <2>1
  <2>3. Append(got[q], Head(out[q])) \o Tail(out[q]) = got[q] \o out[q]
    BY <1>1, <2>1, EventsFacts
  <2>4. Sets(q, flush[q], rows[q], last[q], Tail(out[q]), Append(got[q], Head(out[q])),
             short[q])
    BY <2>1, StreamSame, Zenon DEF Sets
  <2> QED BY <1>1, <1>2, <2>2, <2>3, <2>4, SubscriberStep, ZenonT(40) DEF over, len
<1>12. CASE Stop(q)
  <2>1. /\ flush[q] # "ended" /\ UNCHANGED <<last, got, short>>
        /\ flush' = [flush EXCEPT ![q] = "ended"]
        /\ rows' = [rows EXCEPT ![q] = <<>>] /\ out' = [out EXCEPT ![q] = <<>>]
    BY <1>12 DEF Stop, Enter
  <2>2. <<>> \in Seq(Nat) /\ "ended" \in Phases
    BY DEF Phases
  <2>3. Position("ended", <<>>, last[q], got[q] \o <<>>, over, len, short[q])
    BY <1>1, <2>1, PositionStopped, Zenon
  <2>4. Sets(q, "ended", <<>>, last[q], <<>>, got[q], short[q])
    BY <2>1, StreamSame, Zenon DEF Sets
  <2> QED BY <1>1, <1>2, <2>2, <2>3, <2>4, SubscriberStep, Zenon DEF over, len
<1> QED BY <1>4, <1>5, <1>6, <1>7, <1>8, <1>9, <1>10, <1>11, <1>12 DEF subscriber

-----------------------------------------------------------------------------
(* The theorems *)

\* Before the first call nobody has subscribed.
LEMMA StreamInitInv ==
  ASSUME StreamInit PROVE StreamInv
<1>1. Inv
  BY InitInv DEF StreamInit
<1>2. StreamTypes
  BY DEF StreamInit, StreamTypes, Phases
<1>3. ASSUME NEW q \in Requests PROVE PositionOf(q)
  <2>1. /\ flush[q] = "none" /\ rows[q] = <<>> /\ last[q] = 0 /\ got[q] = <<>> /\ out[q] = <<>>
        /\ row[q].answer = <<>>
    BY DEF StreamInit, Init, AbsentRow
  <2>2. Ordinals(0) = <<>> /\ After(0, 0) = <<>> /\ <<>> \o <<>> = <<>> /\ Len(<<>>) = 0
    BY OrdinalsFacts, AfterFacts
  <2> QED BY <2>1, <2>2 DEF PositionOf, Position
<1> QED BY <1>1, <1>2, <1>3 DEF StreamInv

\* The inductive invariant of the life cycle and its subscribers.
THEOREM StreamInvariance == StreamSpec => []StreamInv
<1>1. StreamInit => StreamInv
  BY StreamInitInv
<1>2. ASSUME StreamInv, Next, UNCHANGED streamVars PROVE StreamInv'
  BY <1>2, NextInv, LifecycleStep DEF StreamInv
<1>3. ASSUME StreamInv, UNCHANGED allVars PROVE StreamInv'
  BY <1>3, StutterInv, LifecycleStep DEF StreamInv, allVars
<1>4. StreamInv /\ [StreamNext]_allVars => StreamInv'
  BY <1>2, <1>3, SubscriberInv DEF StreamNext
<1> QED BY <1>1, <1>4, PTL DEF StreamSpec

\* Subscribers leave the life cycle alone, except that their queries share its bound
\* on faults: every step beside it keeps the invariant of PgRedis, so that rows,
\* points and the queue stay as exact as without them.
THEOREM LifecycleBesideStreams == StreamSpec => [](PointsExact /\ Consent /\ Listed)
<1>1. StreamInv => PointsExact /\ Consent /\ Listed
  BY DEF StreamInv, Inv
<1> QED BY <1>1, StreamInvariance, PTL

\* Streams keep the promise to the requester: with its subscribers the backend
\* implements RequestLifecycle, to which a step of a subscriber is a stutter.
THEOREM StreamsImplementLifecycle == StreamSpec => LifecycleRefined
<1>1. StreamInit => Lifecycle!Init
  BY DEF StreamInit, Init, AbsentRow, Lifecycle!Init
<1>2. ASSUME StreamInv, [StreamNext]_allVars PROVE RowsMove
  <2>1. CASE Next \/ UNCHANGED vars
    BY <1>2, <2>1, NextInv, StutterInv DEF StreamInv
  <2>2. ASSUME NEW q \in Requests,
               Subscribe(q) \/ subscriber(q) \/ drainFails(q) \/ Take(q) \/ Stop(q)
        PROVE  UNCHANGED row
    BY <2>2 DEF Subscribe, subscriber, drainFragmentsAfter, drainFails, emit, terminalState,
                emitDone, Wake, Take, Stop, vars, pgVars
  <2> QED BY <1>2, <2>1, <2>2 DEF StreamNext, allVars, RowsMove
<1>3. StreamInv /\ [StreamNext]_allVars => Lifecycle!Next \/ UNCHANGED SeenRows
  BY <1>2, RowsRefine DEF StreamInv
<1> QED BY <1>1, <1>3, StreamInvariance, PTL
        DEF StreamSpec, LifecycleRefined, Lifecycle!Spec, SeenRows

\* drainFragmentsAfter and terminalState are separate queries and commits come
\* between them; still a subscriber gets the fragments from the first one on, each
\* once, and the final event after the last of them, whatever the channel's capacity.
THEOREM GapFreeHolds == StreamSpec => []GapFree
<1>1. ASSUME StreamInv, NEW q \in Requests
      PROVE  /\ Sent(q) = [i \in 1..Len(Sent(q)) |-> i]
             /\ Len(Sent(q)) <= Len(row[q].answer)
             /\ Done \in ToSet(got[q] \o out[q]) =>
                  /\ isTerminalStatus(row[q].status)
                  /\ got[q] \o out[q] = Append(Sent(q), Done)
                  /\ Len(Sent(q)) = Len(row[q].answer) \/ short[q]
  <2>1. /\ last[q] \in Nat /\ Len(rows[q]) \in Nat /\ Len(row[q].answer) \in Nat
        /\ PositionOf(q)
    BY <1>1, StreamAt
  <2>2. last[q] <= Len(row[q].answer)
    BY <2>1 DEF PositionOf, Position
  <2>3. ASSUME NEW m \in 0..last[q], got[q] \o out[q] = Ordinals(m)
        PROVE  /\ Sent(q) = Ordinals(m) /\ Len(Sent(q)) = m /\ m <= Len(row[q].answer)
               /\ Done \notin ToSet(got[q] \o out[q])
    <3>1. m \in Nat /\ m <= Len(row[q].answer)
      BY <2>1, <2>2
    <3> QED BY <2>3, <3>1, SentFacts, OrdinalsFacts DEF Sent
  <2>4. ASSUME got[q] \o out[q] = Append(Ordinals(last[q]), Done)
        PROVE  Sent(q) = Ordinals(last[q]) /\ Len(Sent(q)) = last[q]
    BY <2>1, <2>4, SentFacts, OrdinalsFacts DEF Sent
  <2>5. last[q] \in 0..last[q]
    BY <2>1
  <2>6. \/ \E m \in 0..last[q] : got[q] \o out[q] = Ordinals(m)
        \/ /\ got[q] \o out[q] = Append(Ordinals(last[q]), Done)
           /\ isTerminalStatus(row[q].status) /\ (last[q] = Len(row[q].answer) \/ short[q])
    BY <2>1, <2>5, Zenon DEF PositionOf, Position
  <2>7. CASE \E m \in 0..last[q] : got[q] \o out[q] = Ordinals(m)
    BY <2>3, <2>7 DEF Ordinals
  <2>8. CASE /\ got[q] \o out[q] = Append(Ordinals(last[q]), Done)
             /\ isTerminalStatus(row[q].status)
             /\ last[q] = Len(row[q].answer) \/ short[q]
    BY <2>2, <2>4, <2>8 DEF Ordinals
  <2> QED BY <2>6, <2>7, <2>8
<1>2. StreamInv => GapFree
  BY <1>1 DEF GapFree
<1> QED BY <1>2, StreamInvariance, PTL
=============================================================================
