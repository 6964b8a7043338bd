------------------------ MODULE ChatCompletionProofs ------------------------
(***************************************************************************)
(* What a chat turn keeps, for every number of turns, every capacity of    *)
(* the channels and every length of the answers.                           *)
(***************************************************************************)
EXTENDS ChatCompletion, SliceProofs

EventType == [type : {"fragment", "done"}, text : Seq(Nat), finish : FinishReasons \cup {""}]
MessageType == [turn : Turns, role : {"user", "assistant"}, text : Seq(Nat)]

Types ==
  /\ TypeOK
  /\ mode \in [Turns -> Mode]
  /\ binding \in [Turns -> Binding]
  /\ subscribed \in [Turns -> BOOLEAN]
  /\ lost \in [Turns -> BOOLEAN]
  /\ buffer \in [Turns -> Seq(EventType)]
  /\ content \in [Turns -> Seq(Nat)]
  /\ sent \in [Turns -> Seq(Nat)]
  /\ transcript \in Seq(MessageType)

\* The request of a turn, as its handler leaves it.
RequestSound(t) ==
  /\ pc[t] = "idle" <=> status[t] = "none"
  /\ finish[t] # "" <=> status[t] = "completed"
  /\ status[t] = "abandoned" => pc[t] \in {"leaving", "ended"}

\* The channel of a handler at its select: the final event is the last one, and
\* there only when the request is completed.
EventSound(t, i) ==
  \/ buffer[t][i].type = "fragment" /\ buffer[t][i].finish = ""
  \/ /\ buffer[t][i].type = "done" /\ buffer[t][i].text = <<>>
     /\ i = Len(buffer[t])
     /\ status[t] = "completed" /\ buffer[t][i].finish = finish[t]

\* The text of an answer with n fragments, of which the channel may have lost some.
Excerpt(seen, n, dropped) ==
  /\ \A i, j \in DOMAIN seen : i < j => seen[i] < seen[j]
  /\ \A i \in DOMAIN seen : seen[i] <= n
  /\ ~dropped => seen = Text(n)

Early == {"idle", "created", "appended"}
HandlerSound(t) ==
  /\ pc[t] \in Early =>
       /\ content[t] = <<>> /\ sent[t] = <<>> /\ answered[t] = ""
       /\ buffer[t] = <<>> /\ ~subscribed[t] /\ ~lost[t]
  /\ pc[t] = "waiting" =>
       /\ answered[t] = "" /\ subscribed[t]
       /\ \A i \in DOMAIN buffer[t] : EventSound(t, i)
       /\ Excerpt(content[t] \o Pending(t), committed[t], lost[t])
  /\ pc[t] = "persist" => answered[t] # ""

ReplyOf(t) ==
  /\ answered[t] # "" =>
       /\ status[t] = "completed" /\ answered[t] = finish[t]
       /\ ~lost[t] => sent[t] = Text(committed[t])
  /\ answered[t] = "" /\ mode[t] = "blocking" => sent[t] = <<>>

\* A message of the conversation has been written by its turn, in the one step of
\* the handler that does so.
MessageSound(i) ==
  LET t == transcript[i].turn
  IN /\ transcript[i].role = "user" => pc[t] \notin {"idle", "created"}
     /\ transcript[i].role = "assistant" =>
          /\ pc[t] \in {"leaving", "ended"}
          /\ transcript[i].text = Text(committed[t]) /\ status[t] = "completed"
OnePerTurn ==
  \A i, j \in DOMAIN transcript :
    transcript[i].turn = transcript[j].turn /\ transcript[i].role = transcript[j].role
      => i = j
TranscriptInv ==
  /\ \A i \in DOMAIN transcript : MessageSound(i)
  /\ OnePerTurn
  /\ conversation = "deleted" => transcript = <<>>

\* The inductive invariant.
ChatInv ==
  /\ Types
  /\ \A t \in Turns : RequestSound(t) /\ HandlerSound(t) /\ ReplyOf(t)
  /\ TranscriptInv

-----------------------------------------------------------------------------
(* Text *)

\* The text of an answer grows by its last fragment.
LEMMA TextFacts ==
  ASSUME NEW n \in Nat
  PROVE  /\ Text(n) \in Seq(Nat) /\ Len(Text(n)) = n
         /\ \A i \in 1..n : Text(n)[i] = i
         /\ n = 0 => Text(n) = <<>>
         /\ Append(Text(n), n + 1) = Text(n + 1)
<1>1. Text(n) \in Seq(Nat) /\ Len(Text(n)) = n /\ \A i \in 1..n : Text(n)[i] = i
  BY DEF Text
<1>2. Text(n + 1) \in Seq(Nat) /\ Len(Text(n + 1)) = n + 1 /\ \A i \in 1..(n + 1) : Text(n + 1)[i] = i
  BY DEF Text
<1>3. n = 0 => Text(n) = <<>>
  BY <1>1
<1>4. ASSUME NEW s \in Seq(Nat), Len(s) = n, \A i \in 1..n : s[i] = i,
             NEW u \in Seq(Nat), Len(u) = n + 1, \A i \in 1..(n + 1) : u[i] = i
      PROVE  Append(s, n + 1) = u
  <2>1. Append(s, n + 1) \in Seq(Nat) /\ Len(Append(s, n + 1)) = n + 1
    BY <1>4
  <2>2. \A i \in 1..(n + 1) : Append(s, n + 1)[i] = u[i]
    BY <1>4
  <2> QED BY <1>4, <2>1, <2>2
<1>5. Append(Text(n), n + 1) = Text(n + 1)
  BY <1>1, <1>2, <1>4
<1> QED BY <1>1, <1>3, <1>5

\* The texts of the events in a channel, and what they amount to.
Texts(b) == [i \in 1..Len(b) |-> b[i].text]
Ahead(b) == FlattenSeq(Texts(b))

\* What a send and a receive do to them.
LEMMA TextsFacts ==
  ASSUME NEW b \in Seq(EventType)
  PROVE  /\ Texts(b) \in Seq(Seq(Nat))
         /\ b = <<>> => Texts(b) = <<>>
         /\ \A e \in EventType : Texts(Append(b, e)) = Append(Texts(b), e.text)
         /\ b # <<>> => /\ Texts(b) # <<>> /\ Head(Texts(b)) = Head(b).text
                        /\ Texts(Tail(b)) = Tail(Texts(b))
<1>1. PICK T : T = Seq(Nat)
  OBVIOUS
<1>2. ASSUME NEW c \in Seq(EventType)
      PROVE  /\ Texts(c) \in Seq(T) /\ Len(Texts(c)) = Len(c)
             /\ \A i \in 1..Len(c) : Texts(c)[i] = c[i].text /\ c[i].text \in T
  <2>1. \A i \in 1..Len(c) : c[i].text \in T
    <3>1. \A i \in 1..Len(c) : c[i] \in EventType
      OBVIOUS
    <3>2. \A e \in EventType : e.text \in Seq(Nat)
      BY DEF EventType
    <3> QED BY <1>1, <3>1, <3>2
  <2> QED BY <2>1 DEF Texts
<1>3. Texts(b) \in Seq(T) /\ Len(Texts(b)) = Len(b) /\ \A i \in 1..Len(b) : Texts(b)[i] = b[i].text
  BY <1>2
<1>4. b = <<>> => Texts(b) = <<>>
  BY <1>3
<1>5. ASSUME NEW e \in EventType PROVE Texts(Append(b, e)) = Append(Texts(b), e.text)
  <2>1. /\ Append(b, e) \in Seq(EventType) /\ Len(Append(b, e)) = Len(b) + 1
        /\ Append(b, e)[Len(b) + 1] = e /\ \A i \in 1..Len(b) : Append(b, e)[i] = b[i]
    OBVIOUS
  <2>2. PICK c \in Seq(EventType) : c = Append(b, e)
    BY <2>1
  <2>3. /\ Texts(c) \in Seq(T) /\ Len(Texts(c)) = Len(b) + 1
        /\ \A i \in 1..(Len(b) + 1) : Texts(c)[i] = c[i].text
    BY <1>2, <2>1, <2>2
  <2>4. PICK n \in Nat : n = Len(b)
    OBVIOUS
  <2>5. PICK x \in T : x = e.text
    BY <1>1 DEF EventType
  <2>6. PICK s \in Seq(T) : s = Texts(b) /\ Len(s) = n /\ \A i \in 1..n : s[i] = b[i].text
    BY <1>3, <2>4
  <2>7. PICK u \in Seq(T) : /\ u = Texts(c) /\ Len(u) = n + 1 /\ u[n + 1] = x
                            /\ \A i \in 1..n : u[i] = s[i]
    <3>1. Texts(c)[n + 1] = x
      BY <2>1, <2>2, <2>3, <2>4, <2>5
    <3>2. \A i \in 1..n : Texts(c)[i] = s[i]
      BY <2>1, <2>2, <2>3, <2>4, <2>6
    <3> QED BY <2>3, <2>4, <3>1, <3>2
  <2>8. u = Append(s, x)
    <3>1. Len(Append(s, x)) = n + 1 /\ Append(s, x)[n + 1] = x /\ \A i \in 1..n : Append(s, x)[i] = s[i]
      BY <2>6
    <3>2. Append(s, x) \in Seq(T)
      OBVIOUS
    <3> QED BY <2>7, <3>1, <3>2
  <2> QED BY <2>2, <2>5, <2>6, <2>7, <2>8
<1>6. ASSUME b # <<>>
      PROVE  /\ Texts(b) # <<>> /\ Head(Texts(b)) = Head(b).text
             /\ Texts(Tail(b)) = Tail(Texts(b))
  <2>1. /\ Len(b) \in Nat \ {0} /\ Head(b) = b[1] /\ Tail(b) \in Seq(EventType)
        /\ Len(Tail(b)) = Len(b) - 1 /\ \A i \in 1..(Len(b) - 1) : Tail(b)[i] = b[i + 1]
    BY <1>6
  <2>2. PICK c \in Seq(EventType) : c = Tail(b)
    BY <2>1
  <2>3. PICK n \in Nat : n = Len(b) - 1 /\ n + 1 = Len(b)
    <3>1. Len(b) - 1 \in Nat /\ (Len(b) - 1) + 1 = Len(b)
      BY <2>1
    <3> QED BY <3>1
  <2>4. PICK s \in Seq(T) : /\ s = Texts(b) /\ Len(s) = n + 1
                            /\ \A i \in 1..(n + 1) : s[i] = b[i].text
    BY <1>3, <2>3
  <2>5. PICK u \in Seq(T) : /\ u = Texts(c) /\ Len(u) = n
                            /\ \A i \in 1..n : u[i] = s[i + 1]
    <3>1. Texts(c) \in Seq(T) /\ Len(Texts(c)) = n
      BY <1>2, <2>1, <2>2, <2>3
    <3>2. ASSUME NEW i \in 1..n PROVE Texts(c)[i] = s[i + 1]
      <4>1. i \in 1..Len(c) /\ i + 1 \in 1..(n + 1) /\ i \in 1..(Len(b) - 1)
        BY <2>1, <2>2, <2>3
      <4>2. Texts(c)[i] = c[i].text
        BY <1>2, <4>1
      <4>3. c[i] = b[i + 1]
        BY <2>1, <2>2, <4>1
      <4> QED BY <2>4, <4>1, <4>2, <4>3
    <3> QED BY <3>1, <3>2
  <2>6. s # <<>> /\ Head(s) = s[1] /\ u = Tail(s)
    <3>1. s # <<>>
      BY <2>4
    <3>2. Head(s) = s[1] /\ Tail(s) \in Seq(T) /\ Len(Tail(s)) = n /\ \A i \in 1..n : Tail(s)[i] = s[i + 1]
      BY <2>4, <3>1
    <3> QED BY <2>5, <3>1, <3>2
  <2> QED BY <2>1, <2>2, <2>3, <2>4, <2>5, <2>6
<1> QED BY <1>1, <1>3, <1>4, <1>5, <1>6

\* The text that waits in a channel, after a send and a receive.
LEMMA AheadFacts ==
  ASSUME NEW b \in Seq(EventType)
  PROVE  /\ Ahead(b) \in Seq(Nat)
         /\ b = <<>> => Ahead(b) = <<>>
         /\ \A e \in EventType : Ahead(Append(b, e)) = Ahead(b) \o e.text
         /\ b # <<>> => Ahead(b) = Head(b).text \o Ahead(Tail(b))
<1>1. PICK ss \in Seq(Seq(Nat)) : ss = Texts(b)
  BY TextsFacts
<1>2. /\ FlattenSeq(ss) \in Seq(Nat)
      /\ ss = <<>> => FlattenSeq(ss) = <<>>
      /\ \A x \in Seq(Nat) : FlattenSeq(Append(ss, x)) = FlattenSeq(ss) \o x
      /\ ss # <<>> => FlattenSeq(ss) = Head(ss) \o FlattenSeq(Tail(ss))
  BY FlattenFacts DEF Joined
<1>3. ASSUME NEW e \in EventType PROVE Ahead(Append(b, e)) = Ahead(b) \o e.text
  <2>1. e.text \in Seq(Nat)
    BY DEF EventType
  <2> QED BY <1>1, <1>2, <2>1, TextsFacts DEF Ahead
<1>4. b # <<>> => Ahead(b) = Head(b).text \o Ahead(Tail(b))
  BY <1>1, <1>2, TextsFacts DEF Ahead
<1> QED BY <1>1, <1>2, <1>3, <1>4, TextsFacts DEF Ahead

\* An excerpt stays one when a fragment follows, whether it is sent or dropped.
LEMMA ExcerptFacts ==
  ASSUME NEW n \in Nat
  PROVE  /\ \A d : Excerpt(Text(n), n, d)
         /\ \A s \in Seq(Nat) : \A d \in BOOLEAN : Excerpt(s, n, d) =>
              Excerpt(Append(s, n + 1), n + 1, d) /\ Excerpt(s, n + 1, TRUE)
<1>1. \A d : Excerpt(Text(n), n, d)
  <2>1. Text(n) \in Seq(Nat) /\ DOMAIN Text(n) = 1..n /\ \A i \in 1..n : Text(n)[i] = i
    BY TextFacts
  <2> QED BY <2>1 DEF Excerpt
<1>2. ASSUME NEW s \in Seq(Nat), NEW d \in BOOLEAN, Excerpt(s, n, d)
      PROVE  Excerpt(Append(s, n + 1), n + 1, d) /\ Excerpt(s, n + 1, TRUE)
  <2>1. /\ \A i, j \in 1..Len(s) : i < j => s[i] < s[j]
        /\ \A i \in 1..Len(s) : s[i] \in Nat /\ s[i] <= n
        /\ ~d => s = Text(n)
    BY <1>2 DEF Excerpt
  <2>2. PICK u \in Seq(Nat) : /\ u = Append(s, n + 1) /\ Len(u) = Len(s) + 1 /\ u[Len(s) + 1] = n + 1
                              /\ \A i \in 1..Len(s) : u[i] = s[i]
    <3>1. n + 1 \in Nat
      OBVIOUS
    <3>2. ASSUME NEW x \in Nat
          PROVE  /\ Append(s, x) \in Seq(Nat) /\ Len(Append(s, x)) = Len(s) + 1
                 /\ Append(s, x)[Len(s) + 1] = x /\ \A i \in 1..Len(s) : Append(s, x)[i] = s[i]
      OBVIOUS
    <3> QED BY <3>1, <3>2
  <2>3. ASSUME NEW i \in 1..Len(u), NEW j \in 1..Len(u), i < j PROVE u[i] < u[j]
    <3>1. i \in 1..Len(s) /\ u[i] = s[i] /\ s[i] \in Nat /\ s[i] <= n
      BY <2>1, <2>2, <2>3
    <3>2. CASE j = Len(s) + 1
      BY <2>2, <3>1, <3>2
    <3>3. CASE j \in 1..Len(s)
      BY <2>1, <2>2, <2>3, <3>1, <3>3
    <3> QED BY <2>2, <3>2, <3>3
  <2>4. \A i \in 1..Len(u) : u[i] <= n + 1
    BY <2>1, <2>2
  <2>5. ~d => u = Text(n + 1)
    BY <2>1, <2>2, TextFacts
  <2>6. Excerpt(u, n + 1, d)
    BY <2>2, <2>3, <2>4, <2>5 DEF Excerpt
  <2>7. Excerpt(s, n + 1, TRUE)
    <3>1. DOMAIN s = 1..Len(s) /\ \A i \in 1..Len(s) : s[i] <= n + 1
      BY <2>1
    <3> QED BY <2>1, <3>1 DEF Excerpt
  <2> QED BY <2>2, <2>6, <2>7
<1> QED BY <1>1, <1>2

-----------------------------------------------------------------------------
(* Steps *)

\* Everything about a turn but its messages.
Same(t) ==
  /\ pc'[t] = pc[t] /\ mode'[t] = mode[t] /\ binding'[t] = binding[t]
  /\ status'[t] = status[t] /\ committed'[t] = committed[t] /\ finish'[t] = finish[t]
  /\ subscribed'[t] = subscribed[t] /\ buffer'[t] = buffer[t] /\ lost'[t] = lost[t]
  /\ content'[t] = content[t] /\ sent'[t] = sent[t] /\ answered'[t] = answered[t]

Step(t) ==
  \/ handleChatCompletions(t) \/ Proceed(t) \/ Disconnect(t)
  \/ \E full \in BOOLEAN : SubmitFragment(t, full)
  \/ \E reason \in FinishReasons : completeLocked(t, reason)

\* What publishLocked does to the channels.
LEMMA PublishFacts ==
  ASSUME Types, NEW t \in Turns, NEW e \in EventType, publishLocked(t, e)
  PROVE  /\ buffer' \in [Turns -> Seq(EventType)] /\ lost' \in [Turns -> BOOLEAN]
         /\ \A u \in Turns : Len(buffer'[u]) <= BufferCap
         /\ \A u \in Turns \ {t} : buffer'[u] = buffer[u] /\ lost'[u] = lost[u]
         /\ \/ subscribed[t] /\ buffer'[t] = Append(buffer[t], e) /\ lost'[t] = lost[t]
            \/ subscribed[t] /\ buffer'[t] = buffer[t] /\ lost'[t] = TRUE
            \/ ~subscribed[t] /\ buffer'[t] = buffer[t] /\ lost'[t] = lost[t]
<1>1. /\ buffer \in [Turns -> Seq(EventType)] /\ lost \in [Turns -> BOOLEAN]
      /\ buffer[t] \in Seq(EventType) /\ \A u \in Turns : Len(buffer[u]) <= BufferCap
  BY DEF Types, TypeOK
<1>2. PICK b \in Seq(EventType) : b = Append(buffer[t], e) /\ Len(b) = Len(buffer[t]) + 1
  <2>1. \A s \in Seq(EventType) : Append(s, e) \in Seq(EventType) /\ Len(Append(s, e)) = Len(s) + 1
    OBVIOUS
  <2> QED BY <1>1, <2>1
<1>3. CASE subscribed[t] /\ Len(buffer[t]) < BufferCap
  <2>1. buffer' = [buffer EXCEPT ![t] = b] /\ lost' = lost
    BY <1>2, <1>3 DEF publishLocked
  <2>2. Len(b) <= BufferCap
    BY <1>1, <1>2, <1>3, ChatAssumption
  <2> QED BY <1>1, <1>2, <1>3, <2>1, <2>2
<1>4. CASE subscribed[t] /\ ~(Len(buffer[t]) < BufferCap)
  <2>1. buffer' = buffer /\ lost' = [lost EXCEPT ![t] = TRUE]
    BY <1>4 DEF publishLocked
  <2> QED BY <1>1, <1>4, <2>1
<1>5. CASE ~subscribed[t]
  <2>1. buffer' = buffer /\ lost' = lost
    BY <1>5 DEF publishLocked
  <2> QED BY <1>1, <1>5, <2>1
<1> QED BY <1>3, <1>4, <1>5

\* The events of a request.
LEMMA EventTypes ==
  /\ \A s \in Seq(Nat) : FragmentEvent(s) \in EventType
  /\ \A reason \in FinishReasons \cup {""} : DoneEvent(reason) \in EventType
<1>1. <<>> \in Seq(Nat)
  OBVIOUS
<1> QED BY <1>1 DEF FragmentEvent, DoneEvent, EventType

\* Counts of fragments are numbers.
LEMMA CommittedTypes ==
  ASSUME Types, NEW t \in Turns
  PROVE  /\ committed[t] \in 0..MaxFragments /\ committed[t] \in Nat /\ committed[t] + 1 \in Nat
         /\ <<committed[t] + 1>> \in Seq(Nat)
<1>1. committed[t] \in 0..MaxFragments /\ MaxFragments \in Nat
  BY ChatAssumption DEF Types, TypeOK
<1>2. committed[t] \in Nat /\ committed[t] + 1 \in Nat
  BY <1>1
<1>3. \A x \in Nat : <<x>> \in Seq(Nat)
  OBVIOUS
<1> QED BY <1>1, <1>2, <1>3

\* What a handler finds in its channel when it subscribes.
LEMMA ReplayFacts ==
  ASSUME Types, NEW t \in Turns
  PROVE  /\ Replay(t) \in Seq(EventType)
         /\ Ahead(Replay(t)) = Text(committed[t])
         /\ \A i \in DOMAIN Replay(t) :
              \/ Replay(t)[i].type = "fragment" /\ Replay(t)[i].finish = ""
              \/ /\ Replay(t)[i] = DoneEvent(finish[t]) /\ i = Len(Replay(t))
                 /\ status[t] # "live"
<1>1. PICK n \in Nat : n = committed[t]
  BY CommittedTypes
<1>2. PICK d \in EventType : d = DoneEvent(finish[t]) /\ d.text = <<>>
  <2>1. DoneEvent(finish[t]) \in EventType
    BY EventTypes DEF Types, TypeOK
  <2> QED BY <2>1 DEF DoneEvent
<1>3. PICK e \in EventType : e = FragmentEvent(Text(n)) /\ e.text = Text(n) /\ e.type = "fragment" /\ e.finish = ""
  <2>1. FragmentEvent(Text(n)) \in EventType
    BY EventTypes, TextFacts
  <2> QED BY <2>1 DEF FragmentEvent
<1>4. Text(n) \in Seq(Nat) /\ (n = 0 => Text(n) = <<>>)
  BY TextFacts
<1>5. PICK b \in Seq(EventType) :
        b = IF committed[t] = 0 THEN <<>> ELSE <<FragmentEvent(Text(committed[t]))>>
  <2>1. <<>> \in Seq(EventType) /\ <<e>> \in Seq(EventType)
    OBVIOUS
  <2> QED BY <1>1, <1>3, <2>1
<1>6. Ahead(b) = Text(n) /\ \A i \in DOMAIN b : b[i].type = "fragment" /\ b[i].finish = ""
  <2>1. CASE n = 0
    BY <1>1, <1>4, <1>5, <2>1, AheadFacts
  <2>2. CASE n # 0
    <3>1. b = Append(<<>>, e) /\ <<>> \in Seq(EventType)
      <4>1. b = <<e>>
        BY <1>1, <1>3, <1>5, <2>2
      <4>2. <<e>> = Append(<<>>, e) /\ <<>> \in Seq(EventType)
        OBVIOUS
      <4> QED BY <4>1, <4>2
    <3>2. Ahead(<<>>) = <<>> /\ Ahead(Append(<<>>, e)) = Ahead(<<>>) \o e.text
      BY <3>1, AheadFacts
    <3>3. <<>> \o Text(n) = Text(n)
      BY <1>4
    <3>4. DOMAIN b = {1} /\ b[1] = e
      BY <3>1
    <3> QED BY <1>3, <3>1, <3>2, <3>3, <3>4
  <2> QED BY <2>1, <2>2
<1>7. CASE status[t] = "live"
  <2>1. Replay(t) = b
    <3>1. Replay(t) = b \o <<>>
      BY <1>5, <1>7 DEF Replay
    <3> QED BY <3>1
  <2> QED BY <1>1, <1>6, <2>1
<1>8. CASE status[t] # "live"
  <2>1. Replay(t) = Append(b, d)
    <3>1. Replay(t) = b \o <<d>>
      BY <1>2, <1>5, <1>8 DEF Replay
    <3> QED BY <3>1
  <2>2. Ahead(Append(b, d)) = Ahead(b) \o <<>>
    BY <1>2, AheadFacts
  <2>3. Text(n) \o <<>> = Text(n)
    BY <1>4
  <2>4. /\ Append(b, d) \in Seq(EventType) /\ Len(Append(b, d)) = Len(b) + 1
        /\ Append(b, d)[Len(b) + 1] = d /\ \A i \in 1..Len(b) : Append(b, d)[i] = b[i]
        /\ DOMAIN Append(b, d) = 1..(Len(b) + 1) /\ DOMAIN b = 1..Len(b)
    OBVIOUS
  <2>5. Ahead(Replay(t)) = Text(committed[t])
    BY <1>1, <1>6, <2>1, <2>2, <2>3
  <2>6. ASSUME NEW i \in DOMAIN Append(b, d)
        PROVE  \/ Append(b, d)[i].type = "fragment" /\ Append(b, d)[i].finish = ""
               \/ Append(b, d)[i] = d /\ i = Len(Append(b, d))
    <3>1. CASE i = Len(b) + 1
      BY <2>4, <3>1
    <3>2. CASE i \in 1..Len(b)
      BY <1>6, <2>4, <3>2
    <3>3. i = Len(b) + 1 \/ i \in 1..Len(b)
      BY <2>4
    <3> QED BY <3>1, <3>2, <3>3
  <2> QED BY <1>2, <1>8, <2>1, <2>4, <2>5, <2>6
<1> QED BY <1>7, <1>8

\* A step of one turn leaves the others alone.
LEMMA Elsewhere ==
  ASSUME Types, NEW u \in Turns, Step(u), NEW t \in Turns, t # u
  PROVE  Same(t)
<1> USE DEF Types, TypeOK
<1>1. ASSUME handleChatCompletions(u) PROVE Same(t)
  BY <1>1 DEF handleChatCompletions, Same, clientVars
<1>2. ASSUME persistUser(u) PROVE Same(t)
  BY <1>2 DEF persistUser, Same, clientVars, requestVars
<1>3. ASSUME Subscribe(u) PROVE Same(t)
  BY <1>3 DEF Subscribe, Same, clientVars, requestVars
<1>4. ASSUME streamChatCompletion(u) \/ blockingChatCompletion(u) PROVE Same(t)
  BY <1>4, ZenonT(40) DEF streamChatCompletion, blockingChatCompletion, Received, Same, requestVars
<1>5. ASSUME persistAssistant(u) PROVE Same(t)
  BY <1>5 DEF persistAssistant, Same, clientVars, requestVars
<1>6. ASSUME unsubscribe(u) PROVE Same(t)
  BY <1>6 DEF unsubscribe, Same, clientVars, requestVars
<1>7. ASSUME Disconnect(u) PROVE Same(t)
  <2>1. buffer'[t] = buffer[t] /\ lost'[t] = lost[t]
    <3>1. CASE UNCHANGED <<status, buffer, lost>>
      BY <3>1
    <3>2. CASE publishLocked(u, DoneEvent("stop"))
      <4>1. DoneEvent("stop") \in EventType
        BY EventTypes DEF FinishReasons
      <4> QED BY <3>2, <4>1, PublishFacts
    <3> QED BY <1>7, <3>1, <3>2 DEF Disconnect
  <2> QED BY <1>7, <2>1 DEF Disconnect, Same, clientVars
<1>8. ASSUME NEW full \in BOOLEAN, SubmitFragment(u, full) PROVE Same(t)
  <2>1. FragmentEvent(<<committed[u] + 1>>) \in EventType
    BY EventTypes, CommittedTypes
  <2>2. buffer'[t] = buffer[t] /\ lost'[t] = lost[t]
    BY <1>8, <2>1, PublishFacts DEF SubmitFragment
  <2> QED BY <1>8, <2>2 DEF SubmitFragment, Same, clientVars
<1>9. ASSUME NEW reason \in FinishReasons, completeLocked(u, reason) PROVE Same(t)
  <2>1. DoneEvent(reason) \in EventType
    BY EventTypes
  <2>2. buffer'[t] = buffer[t] /\ lost'[t] = lost[t]
    BY <1>9, <2>1, PublishFacts DEF completeLocked
  <2> QED BY <1>9, <2>2 DEF completeLocked, Same, clientVars
<1> QED BY <1>1, <1>2, <1>3, <1>4, <1>5, <1>6, <1>7, <1>8, <1>9 DEF Step, Proceed

\* A receive takes the first event.
LEMMA ReceivedFacts ==
  ASSUME Types, NEW t \in Turns, buffer[t] # <<>>
  PROVE  /\ buffer[t] \in Seq(EventType) /\ Head(buffer[t]) \in EventType
         /\ Head(buffer[t]) = buffer[t][1] /\ Len(buffer[t]) \in Nat \ {0}
         /\ Tail(buffer[t]) \in Seq(EventType) /\ Len(Tail(buffer[t])) = Len(buffer[t]) - 1
         /\ \A i \in 1..(Len(buffer[t]) - 1) : Tail(buffer[t])[i] = buffer[t][i + 1]
         /\ Head(buffer[t]).text \in Seq(Nat) /\ content[t] \in Seq(Nat)
         /\ content[t] \o Head(buffer[t]).text \in Seq(Nat)
         /\ Head(buffer[t]).finish \in FinishReasons \cup {""}
         /\ (content[t] \o Head(buffer[t]).text) \o Ahead(Tail(buffer[t]))
              = content[t] \o Ahead(buffer[t])
<1>1. buffer[t] \in Seq(EventType) /\ content[t] \in Seq(Nat)
  BY DEF Types
<1>2. ASSUME NEW b \in Seq(EventType), b # <<>>
      PROVE  /\ Head(b) \in EventType /\ Head(b) = b[1] /\ Len(b) \in Nat \ {0}
             /\ Tail(b) \in Seq(EventType) /\ Len(Tail(b)) = Len(b) - 1
             /\ \A i \in 1..(Len(b) - 1) : Tail(b)[i] = b[i + 1]
  BY <1>2
<1>3. \A e \in EventType : e.text \in Seq(Nat) /\ e.finish \in FinishReasons \cup {""}
  BY DEF EventType
<1>4. Head(buffer[t]) \in EventType
  BY <1>1, <1>2
<1>5. PICK x \in Seq(Nat) : x = Head(buffer[t]).text
  BY <1>3, <1>4
<1>6. content[t] \o x \in Seq(Nat)
  BY <1>1
<1>7. PICK y \in Seq(Nat) : y = Ahead(Tail(buffer[t]))
  BY <1>1, <1>2, AheadFacts
<1>8. Ahead(buffer[t]) = x \o y
  BY <1>1, <1>5, <1>7, AheadFacts
<1>9. (content[t] \o x) \o y = content[t] \o (x \o y)
  <2>1. \A u, v, w \in Seq(Nat) : (u \o v) \o w = u \o (v \o w)
    BY SMTT(30)
  <2> QED BY <1>1, <2>1
<1> QED BY <1>1, <1>2, <1>3, <1>4, <1>5, <1>6, <1>7, <1>8, <1>9

\* One event less is not too many.
LEMMA OneLess ==
  ASSUME NEW n \in Nat, n <= BufferCap
  PROVE  n - 1 <= BufferCap
BY ChatAssumption

\* Every step keeps the types.
LEMMA TypesKept ==
  ASSUME Types, Next
  PROVE  Types'
<1>1. ASSUME NEW t \in Turns, NEW role \in {"user", "assistant"}, NEW text \in Seq(Nat),
             AppendConversationMessage(t, role, text)
      PROVE  transcript' \in Seq(MessageType)
  <2>1. [turn |-> t, role |-> role, text |-> text] \in MessageType
    BY DEF MessageType
  <2>2. \A m \in MessageType, s \in Seq(MessageType) : Append(s, m) \in Seq(MessageType)
    OBVIOUS
  <2> QED BY <1>1, <2>1, <2>2 DEF AppendConversationMessage, Types, TypeOK
<1>2. ASSUME NEW t \in Turns, handleChatCompletions(t) PROVE Types'
  BY <1>2 DEF handleChatCompletions, clientVars, conversationVars, Types, TypeOK
<1>3. ASSUME NEW t \in Turns, persistUser(t) PROVE Types'
  <2>1. transcript' \in Seq(MessageType)
    <3>1. <<>> \in Seq(Nat)
      OBVIOUS
    <3>2. AppendConversationMessage(t, "user", <<>>) \/ UNCHANGED transcript
      BY <1>3 DEF persistUser
    <3> QED BY <1>1, <3>1, <3>2 DEF Types
  <2>2. pc' \in [Turns -> {"idle", "created", "appended", "waiting", "persist", "leaving", "ended"}]
    BY <1>3 DEF persistUser, Types, TypeOK
  <2> QED BY <1>3, <2>1, <2>2 DEF persistUser, clientVars, requestVars, Types, TypeOK
<1>4. ASSUME NEW t \in Turns, Subscribe(t) PROVE Types'
  <2>1. buffer' \in [Turns -> Seq(EventType)] /\ \A u \in Turns : Len(buffer'[u]) <= BufferCap
    <3>1. PICK b \in Seq(EventType) : b = Replay(t)
      BY ReplayFacts
    <3> QED BY <1>4, <3>1 DEF Subscribe, Types, TypeOK
  <2> QED BY <1>4, <2>1 DEF Subscribe, clientVars, requestVars, conversationVars, Types, TypeOK
<1>5. ASSUME NEW t \in Turns, streamChatCompletion(t) \/ blockingChatCompletion(t) PROVE Types'
  <2>1. Received(t) /\ (sent' = [sent EXCEPT ![t] = content'[t]] \/ sent' = sent)
    BY <1>5 DEF streamChatCompletion, blockingChatCompletion
  <2>2. PICK x \in Seq(Nat), b \in Seq(EventType), f \in FinishReasons \cup {""} :
          /\ x = content[t] \o Head(buffer[t]).text /\ b = Tail(buffer[t]) /\ Len(b) = Len(buffer[t]) - 1
          /\ f = Head(buffer[t]).finish
    BY <2>1, ReceivedFacts DEF Received
  <2>3. /\ content' = [content EXCEPT ![t] = x] /\ buffer' = [buffer EXCEPT ![t] = b]
        /\ answered' = [answered EXCEPT ![t] = f]
    BY <2>1, <2>2 DEF Received, Types, TypeOK
  <2>4. content' \in [Turns -> Seq(Nat)] /\ sent' \in [Turns -> Seq(Nat)]
    BY <2>1, <2>3 DEF Types
  <2>5. \A u \in Turns : Len(buffer'[u]) <= BufferCap
    <3>1. Len(buffer[t]) \in Nat /\ Len(buffer[t]) <= BufferCap
      BY <2>1, ReceivedFacts DEF Received, Types, TypeOK
    <3>2. Len(b) <= BufferCap
      <4>1. Len(buffer[t]) - 1 <= BufferCap
        BY <3>1, OneLess
      <4> QED BY <2>2, <4>1
    <3> QED BY <2>3, <3>2 DEF Types, TypeOK
  <2>6. pc' \in [Turns -> {"idle", "created", "appended", "waiting", "persist", "leaving", "ended"}]
    BY <2>1 DEF Received, Types, TypeOK
  <2>7. answered' \in [Turns -> FinishReasons \cup {""}] /\ buffer' \in [Turns -> Seq(EventType)]
    BY <2>3 DEF Types, TypeOK
  <2> QED BY <2>1, <2>4, <2>5, <2>6, <2>7 DEF Received, requestVars, conversationVars, Types, TypeOK
<1>6. ASSUME NEW t \in Turns, persistAssistant(t) PROVE Types'
  <2>1. Persisted(t) \in Seq(Nat)
    BY CommittedTypes, TextFacts DEF Persisted
  <2>2. transcript' \in Seq(MessageType)
    BY <1>1, <1>6, <2>1 DEF persistAssistant, Types, TypeOK
  <2>3. pc' \in [Turns -> {"idle", "created", "appended", "waiting", "persist", "leaving", "ended"}]
    BY <1>6 DEF persistAssistant, Types, TypeOK
  <2> QED BY <1>6, <2>2, <2>3 DEF persistAssistant, clientVars, requestVars, Types, TypeOK
<1>7. ASSUME NEW t \in Turns, unsubscribe(t) PROVE Types'
  <2>1. <<>> \in Seq(EventType) /\ Len(<<>>) <= BufferCap
    BY ChatAssumption
  <2>2. buffer' \in [Turns -> Seq(EventType)] /\ \A u \in Turns : Len(buffer'[u]) <= BufferCap
    BY <1>7, <2>1 DEF unsubscribe, Types, TypeOK
  <2> QED BY <1>7, <2>2 DEF unsubscribe, clientVars, requestVars, conversationVars, Types, TypeOK
<1>8. ASSUME NEW t \in Turns, Disconnect(t) PROVE Types'
  <2>1. /\ buffer' \in [Turns -> Seq(EventType)] /\ lost' \in [Turns -> BOOLEAN]
        /\ \A u \in Turns : Len(buffer'[u]) <= BufferCap
    <3>1. CASE UNCHANGED <<status, buffer, lost>>
      BY <3>1 DEF Types, TypeOK
    <3>2. CASE publishLocked(t, DoneEvent("stop"))
      <4>1. DoneEvent("stop") \in EventType
        BY EventTypes DEF FinishReasons
      <4> QED BY <3>2, <4>1, PublishFacts
    <3> QED BY <1>8, <3>1, <3>2 DEF Disconnect, Types, TypeOK
  <2>2. status' \in [Turns -> {"none", "live", "completed", "abandoned"}]
    <3>1. status' = status \/ status' = [status EXCEPT ![t] = "abandoned"]
      BY <1>8 DEF Disconnect
    <3> QED BY <3>1 DEF Types, TypeOK
  <2>3. pc' \in [Turns -> {"idle", "created", "appended", "waiting", "persist", "leaving", "ended"}]
    BY <1>8 DEF Disconnect, Types, TypeOK
  <2> QED BY <1>8, <2>1, <2>2, <2>3 DEF Disconnect, clientVars, conversationVars, Types, TypeOK
<1>9. ASSUME NEW t \in Turns, NEW full \in BOOLEAN, SubmitFragment(t, full) PROVE Types'
  <2>1. FragmentEvent(<<committed[t] + 1>>) \in EventType
    BY EventTypes, CommittedTypes
  <2>2. /\ buffer' \in [Turns -> Seq(EventType)] /\ lost' \in [Turns -> BOOLEAN]
        /\ \A u \in Turns : Len(buffer'[u]) <= BufferCap
    BY <1>9, <2>1, PublishFacts DEF SubmitFragment
  <2>3. committed[t] + 1 \in 0..MaxFragments
    BY <1>9, CommittedTypes, ChatAssumption DEF SubmitFragment
  <2>4. committed' \in [Turns -> 0..MaxFragments] /\ mu' \in Turns \cup {"free"}
    BY <1>9, <2>3 DEF SubmitFragment, Types, TypeOK
  <2> QED BY <1>9, <2>2, <2>4 DEF SubmitFragment, clientVars, conversationVars, Types, TypeOK
<1>10. ASSUME NEW t \in Turns, NEW reason \in FinishReasons, completeLocked(t, reason) PROVE Types'
  <2>1. DoneEvent(reason) \in EventType
    BY EventTypes
  <2>2. /\ buffer' \in [Turns -> Seq(EventType)] /\ lost' \in [Turns -> BOOLEAN]
        /\ \A u \in Turns : Len(buffer'[u]) <= BufferCap
    BY <1>10, <2>1, PublishFacts DEF completeLocked
  <2>3. /\ status' \in [Turns -> {"none", "live", "completed", "abandoned"}]
        /\ finish' \in [Turns -> FinishReasons \cup {""}] /\ mu' \in Turns \cup {"free"}
    BY <1>10 DEF completeLocked, Types, TypeOK
  <2> QED BY <1>10, <2>2, <2>3 DEF completeLocked, clientVars, conversationVars, Types, TypeOK
<1>11. ASSUME DeleteConversation PROVE Types'
  <2>1. <<>> \in Seq(MessageType)
    OBVIOUS
  <2> QED BY <1>11, <2>1 DEF DeleteConversation, clientVars, requestVars, Types, TypeOK
<1> QED BY <1>2, <1>3, <1>4, <1>5, <1>6, <1>7, <1>8, <1>9, <1>10, <1>11 DEF Next, Proceed

-----------------------------------------------------------------------------
(* The request, the channel and the response *)

Sound(t) == RequestSound(t) /\ HandlerSound(t) /\ ReplyOf(t)

\* A turn that a step leaves alone stays sound.
LEMMA SameSound ==
  ASSUME NEW t \in Turns, Sound(t), Same(t)
  PROVE  Sound(t)'
<1>1. RequestSound(t)' /\ ReplyOf(t)'
  BY DEF Sound, Same, RequestSound, ReplyOf
<1>2. Pending(t)' = Pending(t)
  BY DEF Same, Pending
<1>3. ASSUME NEW i \in DOMAIN buffer[t], EventSound(t, i) PROVE EventSound(t, i)'
  BY <1>3 DEF Same, EventSound
<1>4. HandlerSound(t)'
  BY <1>2, <1>3 DEF Sound, Same, HandlerSound
<1> QED BY <1>1, <1>4 DEF Sound

\* Before the handler waits, there is nothing to keep but the request.
LEMMA EarlySound ==
  ASSUME Types, Types', NEW t \in Turns, Sound(t),
         handleChatCompletions(t) \/ persistUser(t)
  PROVE  Sound(t)'
<1>1. /\ pc[t] \in {"idle", "created"} /\ pc'[t] \in {"created", "appended"}
      /\ pc[t] = "idle" => status'[t] = "live" /\ status[t] = "none"
      /\ pc[t] = "created" => status'[t] = status[t]
  BY ZenonT(40) DEF handleChatCompletions, persistUser, requestVars, Types, TypeOK, Sound, RequestSound
<1>2. /\ finish'[t] = finish[t] /\ committed'[t] = committed[t] /\ mode'[t] = mode[t]
      /\ content'[t] = content[t] /\ sent'[t] = sent[t] /\ answered'[t] = answered[t]
      /\ buffer'[t] = buffer[t] /\ subscribed'[t] = subscribed[t] /\ lost'[t] = lost[t]
  BY DEF handleChatCompletions, persistUser, requestVars, clientVars
<1>3. /\ content[t] = <<>> /\ sent[t] = <<>> /\ answered[t] = ""
      /\ buffer[t] = <<>> /\ ~subscribed[t] /\ ~lost[t]
  BY <1>1 DEF Sound, HandlerSound, Early
<1>4. RequestSound(t)'
  BY <1>1, <1>2 DEF Sound, RequestSound
<1>5. HandlerSound(t)'
  BY <1>1, <1>2, <1>3 DEF HandlerSound, Early
<1>6. ReplyOf(t)'
  BY <1>1, <1>2, <1>3 DEF Sound, ReplyOf
<1> QED BY <1>4, <1>5, <1>6 DEF Sound

\* Subscribe puts the answer so far, and its end, into the channel.
LEMMA SubscribeSound ==
  ASSUME Types, Types', NEW t \in Turns, Sound(t), Subscribe(t)
  PROVE  Sound(t)'
<1>1. /\ pc[t] = "appended" /\ pc'[t] = "waiting" /\ buffer'[t] = Replay(t) /\ subscribed'[t] = TRUE
      /\ finish'[t] = finish[t] /\ committed'[t] = committed[t] /\ mode'[t] = mode[t]
      /\ content'[t] = content[t] /\ sent'[t] = sent[t] /\ answered'[t] = answered[t]
      /\ lost'[t] = lost[t] /\ status'[t] = status[t]
  <2>1. pc[t] = "appended" /\ pc' = [pc EXCEPT ![t] = "waiting"]
    BY DEF Subscribe
  <2>2. buffer' = [buffer EXCEPT ![t] = Replay(t)] /\ subscribed' = [subscribed EXCEPT ![t] = TRUE]
    BY DEF Subscribe
  <2>3. UNCHANGED <<finish, committed, mode, content, sent, answered, lost, status>>
    BY DEF Subscribe, requestVars, clientVars
  <2>4. pc'[t] = "waiting" /\ buffer'[t] = Replay(t) /\ subscribed'[t] = TRUE
    <3>1. t \in DOMAIN pc /\ t \in DOMAIN buffer /\ t \in DOMAIN subscribed
      BY ZenonT(40) DEF Types, TypeOK
    <3> QED BY <2>1, <2>2, <3>1, Zenon
  <2> QED BY <2>1, <2>3, <2>4
<1>2. /\ content[t] = <<>> /\ sent[t] = <<>> /\ answered[t] = "" /\ ~lost[t]
  BY <1>1 DEF Sound, HandlerSound, Early
<1>3. status[t] \in {"live", "completed"}
  BY <1>1 DEF Sound, RequestSound, Types, TypeOK
<1>4. RequestSound(t)'
  BY <1>1 DEF Sound, RequestSound
<1>5. ReplyOf(t)'
  BY <1>1, <1>2 DEF Sound, ReplyOf
<1>6. ASSUME NEW i \in DOMAIN Replay(t) PROVE EventSound(t, i)'
  <2>1. \/ Replay(t)[i].type = "fragment" /\ Replay(t)[i].finish = ""
        \/ Replay(t)[i] = DoneEvent(finish[t]) /\ i = Len(Replay(t)) /\ status[t] # "live"
    BY ReplayFacts
  <2>2. DoneEvent(finish[t]).type = "done" /\ DoneEvent(finish[t]).text = <<>>
        /\ DoneEvent(finish[t]).finish = finish[t]
    BY DEF DoneEvent
  <2> QED BY <1>1, <1>3, <2>1, <2>2 DEF EventSound
<1>7. Excerpt(content[t] \o Ahead(Replay(t)), committed[t], lost[t])
  <2>1. PICK n \in Nat : n = committed[t]
    BY CommittedTypes
  <2>2. Text(n) \in Seq(Nat) /\ <<>> \o Text(n) = Text(n)
    BY TextFacts
  <2>3. content[t] \o Ahead(Replay(t)) = Text(n)
    BY <1>2, <2>1, <2>2, ReplayFacts
  <2> QED BY <2>1, <2>3, ExcerptFacts
<1>8. Pending(t)' = Ahead(Replay(t))
  BY <1>1 DEF Pending, Ahead, Texts
<1>9. Excerpt(content[t] \o Pending(t), committed[t], lost[t])'
  BY <1>1, <1>7, <1>8 DEF Excerpt
<1>10. HandlerSound(t)'
  BY <1>1, <1>2, <1>6, <1>9 DEF HandlerSound, Early
<1> QED BY <1>4, <1>5, <1>10 DEF Sound

\* Where the events are after a send.
LEMMA EventAppended ==
  \A b \in Seq(EventType) : \A e \in EventType :
    /\ Len(Append(b, e)) = Len(b) + 1 /\ Append(b, e)[Len(b) + 1] = e
    /\ \A i \in 1..Len(b) : Append(b, e)[i] = b[i] /\ i # Len(b) + 1
    /\ DOMAIN Append(b, e) = 1..(Len(b) + 1) /\ DOMAIN b = 1..Len(b)
    /\ \A i \in 1..(Len(b) + 1) : i = Len(b) + 1 \/ i \in 1..Len(b)
BY AppendIndices

\* What a publication does to the channel of a handler at its select.
LEMMA PublishSound ==
  ASSUME Types, NEW t \in Turns, Sound(t), status[t] = "live", pc[t] = "waiting",
         NEW e \in EventType, publishLocked(t, e),
         \/ e.type = "fragment" /\ e.finish = "" /\ status'[t] = "live"
         \/ e.type = "done" /\ e.text = <<>> /\ status'[t] = "completed" /\ e.finish = finish'[t]
  PROVE  /\ \A i \in DOMAIN buffer'[t] : EventSound(t, i)'
         /\ \/ /\ Pending(t)' = Pending(t) \o e.text
               /\ lost'[t] = lost[t]
            \/ /\ Pending(t)' = Pending(t)
               /\ lost'[t] = TRUE
<1>1. buffer[t] \in Seq(EventType) /\ subscribed[t]
  BY DEF Types, Sound, HandlerSound
<1>2. \A i \in DOMAIN buffer[t] : buffer[t][i].type = "fragment" /\ buffer[t][i].finish = ""
  BY DEF Sound, HandlerSound, EventSound
<1>3. Pending(t) = Ahead(buffer[t]) /\ Pending(t)' = Ahead(buffer'[t])
  BY DEF Pending, Ahead, Texts
<1>4. CASE buffer'[t] = Append(buffer[t], e) /\ lost'[t] = lost[t]
  <2>1. PICK b \in Seq(EventType) : b = buffer[t]
    BY <1>1
  <2>2. /\ Len(Append(b, e)) = Len(b) + 1 /\ Append(b, e)[Len(b) + 1] = e
        /\ \A i \in 1..Len(b) : Append(b, e)[i] = b[i] /\ i # Len(b) + 1
        /\ DOMAIN Append(b, e) = 1..(Len(b) + 1) /\ DOMAIN b = 1..Len(b)
        /\ \A i \in 1..(Len(b) + 1) : i = Len(b) + 1 \/ i \in 1..Len(b)
    BY EventAppended, Zenon
  <2>3. ASSUME NEW i \in DOMAIN buffer'[t] PROVE EventSound(t, i)'
    <3>1. i = Len(b) + 1 \/ i \in 1..Len(b)
      BY <1>4, <2>1, <2>2
    <3>2. CASE i = Len(b) + 1
      BY <1>4, <2>1, <2>2, <3>2 DEF EventSound
    <3>3. CASE i \in 1..Len(b)
      BY <1>2, <1>4, <2>1, <2>2, <3>3, ZenonT(40) DEF EventSound
    <3> QED BY <3>1, <3>2, <3>3
  <2>4. Ahead(Append(b, e)) = Ahead(b) \o e.text
    BY AheadFacts
  <2> QED BY <1>3, <1>4, <2>1, <2>3, <2>4
<1>5. CASE buffer'[t] = buffer[t] /\ lost'[t] = TRUE
  BY <1>2, <1>3, <1>5 DEF EventSound
<1> QED BY <1>1, <1>4, <1>5, PublishFacts

\* A fragment follows the text that was seen, or is dropped.
LEMMA SubmitSound ==
  ASSUME Types, Types', NEW t \in Turns, Sound(t), NEW full \in BOOLEAN, SubmitFragment(t, full)
  PROVE  Sound(t)'
<1>1. PICK n \in Nat : n = committed[t]
  BY CommittedTypes
<1>2. /\ pc'[t] = pc[t] /\ status[t] = "live" /\ status'[t] = "live" /\ finish'[t] = finish[t]
      /\ committed'[t] = n + 1 /\ mode'[t] = mode[t] /\ subscribed'[t] = subscribed[t]
      /\ content'[t] = content[t] /\ sent'[t] = sent[t] /\ answered'[t] = answered[t]
  <2>1. committed' = [committed EXCEPT ![t] = committed[t] + 1] /\ status[t] = "live"
    BY DEF SubmitFragment
  <2>2. UNCHANGED <<pc, status, finish, mode, subscribed, content, sent, answered>>
    BY DEF SubmitFragment, clientVars
  <2>3. committed'[t] = committed[t] + 1
    BY <2>1 DEF Types, TypeOK
  <2> QED BY <1>1, <2>1, <2>2, <2>3
<1>3. PICK e \in EventType : /\ e = FragmentEvent(<<n + 1>>) /\ e.type = "fragment"
                             /\ e.finish = "" /\ e.text = <<n + 1>> /\ publishLocked(t, e)
  <2>1. FragmentEvent(<<n + 1>>) \in EventType
    BY <1>1, EventTypes, CommittedTypes
  <2> QED BY <1>1, <2>1 DEF SubmitFragment, FragmentEvent
<1>4. RequestSound(t)' /\ ReplyOf(t)'
  <2>1. answered[t] = "" 
    BY <1>2 DEF Sound, ReplyOf
  <2> QED BY <1>2, <2>1 DEF Sound, RequestSound, ReplyOf
<1>5. HandlerSound(t)'
  <2>1. CASE pc[t] = "waiting"
    <3>1. PICK s \in Seq(Nat) : s = content[t] \o Pending(t) /\ Excerpt(s, n, lost[t])
      <4>1. content[t] \in Seq(Nat) /\ Pending(t) \in Seq(Nat)
        BY AheadFacts DEF Types, Pending, Ahead, Texts
      <4>2. content[t] \o Pending(t) \in Seq(Nat)
        BY <4>1
      <4> QED BY <1>1, <2>1, <4>2 DEF Sound, HandlerSound
    <3>2. /\ \A i \in DOMAIN buffer'[t] : EventSound(t, i)'
          /\ \/ Pending(t)' = Pending(t) \o <<n + 1>> /\ lost'[t] = lost[t]
             \/ Pending(t)' = Pending(t) /\ lost'[t] = TRUE
      BY <1>2, <1>3, <2>1, PublishSound
    <3>3. Excerpt(content'[t] \o Pending(t)', n + 1, lost'[t])
      <4>1. CASE Pending(t)' = Pending(t) \o <<n + 1>> /\ lost'[t] = lost[t]
        <5>1. PICK c \in Seq(Nat), p \in Seq(Nat) : c = content[t] /\ p = Pending(t)
          BY AheadFacts DEF Types, Pending, Ahead, Texts
        <5>2. c \o (p \o <<n + 1>>) = Append(c \o p, n + 1)
          OBVIOUS
        <5>3. Excerpt(Append(s, n + 1), n + 1, lost[t])
          BY <3>1, ExcerptFacts DEF Types
        <5> QED BY <1>2, <3>1, <4>1, <5>1, <5>2, <5>3
      <4>2. CASE Pending(t)' = Pending(t) /\ lost'[t] = TRUE
        <5>1. Excerpt(s, n + 1, TRUE)
          BY <3>1, ExcerptFacts DEF Types
        <5> QED BY <1>2, <3>1, <4>2, <5>1
      <4> QED BY <3>2, <4>1, <4>2
    <3>4. Excerpt(content[t] \o Pending(t), committed[t], lost[t])'
      BY <1>2, <3>3 DEF Excerpt
    <3> QED BY <1>2, <2>1, <3>2, <3>4 DEF Sound, HandlerSound, Early
  <2>2. CASE pc[t] # "waiting"
    <3>1. pc[t] \in Early => buffer'[t] = buffer[t] /\ lost'[t] = lost[t]
      BY <1>3, PublishFacts DEF Sound, HandlerSound
    <3> QED BY <1>2, <2>2, <3>1 DEF Sound, HandlerSound
  <2> QED BY <2>1, <2>2
<1> QED BY <1>4, <1>5 DEF Sound

\* The final event follows all others, or is dropped.
LEMMA CompleteSound ==
  ASSUME Types, Types', NEW t \in Turns, Sound(t),
         NEW reason \in FinishReasons, completeLocked(t, reason)
  PROVE  Sound(t)'
<1>1. /\ pc'[t] = pc[t] /\ status[t] = "live" /\ status'[t] = "completed" /\ finish'[t] = reason
      /\ committed'[t] = committed[t] /\ mode'[t] = mode[t] /\ subscribed'[t] = subscribed[t]
      /\ content'[t] = content[t] /\ sent'[t] = sent[t] /\ answered'[t] = answered[t]
  <2>1. /\ status[t] = "live" /\ status' = [status EXCEPT ![t] = "completed"]
        /\ finish' = [finish EXCEPT ![t] = reason]
    BY DEF completeLocked
  <2>2. UNCHANGED <<pc, committed, mode, subscribed, content, sent, answered>>
    BY DEF completeLocked, clientVars
  <2>3. t \in DOMAIN status /\ t \in DOMAIN finish
    BY DEF Types, TypeOK
  <2> QED BY <2>1, <2>2, <2>3, Zenon
<1>2. PICK e \in EventType : /\ e.type = "done" /\ e.finish = reason /\ e.text = <<>>
                             /\ publishLocked(t, e)
  <2>1. DoneEvent(reason) \in EventType
    BY EventTypes
  <2> QED BY <2>1 DEF completeLocked, DoneEvent
<1>3. RequestSound(t)' /\ ReplyOf(t)'
  <2>1. answered[t] = ""
    BY <1>1 DEF Sound, ReplyOf
  <2>2. pc[t] # "idle" /\ reason # ""
    BY <1>1 DEF Sound, RequestSound, FinishReasons
  <2> QED BY <1>1, <2>1, <2>2 DEF Sound, RequestSound, ReplyOf
<1>4. HandlerSound(t)'
  <2>1. CASE pc[t] = "waiting"
    <3>1. /\ \A i \in DOMAIN buffer'[t] : EventSound(t, i)'
          /\ \/ Pending(t)' = Pending(t) \o <<>> /\ lost'[t] = lost[t]
             \/ Pending(t)' = Pending(t) /\ lost'[t] = TRUE
      BY <1>1, <1>2, <2>1, PublishSound
    <3>2. Pending(t)' = Pending(t) /\ (~lost'[t] => ~lost[t])
      <4>1. Pending(t) \in Seq(Nat)
        BY AheadFacts DEF Types, Pending, Ahead, Texts
      <4>2. \A s \in Seq(Nat) : s \o <<>> = s
        OBVIOUS
      <4> QED BY <3>1, <4>1, <4>2
    <3>3. Excerpt(content[t] \o Pending(t), committed[t], lost[t])
      BY <2>1 DEF Sound, HandlerSound
    <3>4. Excerpt(content[t] \o Pending(t), committed[t], lost[t])'
      BY <1>1, <3>2, <3>3 DEF Excerpt
    <3> QED BY <1>1, <2>1, <3>1, <3>4 DEF Sound, HandlerSound, Early
  <2>2. CASE pc[t] # "waiting"
    <3>1. pc[t] \in Early => buffer'[t] = buffer[t] /\ lost'[t] = lost[t]
      BY <1>2, PublishFacts DEF Sound, HandlerSound
    <3> QED BY <1>1, <2>2, <3>1 DEF Sound, HandlerSound
  <2> QED BY <2>1, <2>2
<1> QED BY <1>3, <1>4 DEF Sound

\* An event moves its text from the channel to the handler; the final one comes when
\* the channel is empty, so that the handler has it all.
LEMMA ReceiveSound ==
  ASSUME Types, Types', NEW t \in Turns, Sound(t),
         streamChatCompletion(t) \/ blockingChatCompletion(t)
  PROVE  Sound(t)'
<1>1. PICK e \in EventType : /\ pc[t] = "waiting" /\ buffer[t] # <<>> /\ e = Head(buffer[t])
                             /\ e = buffer[t][1]
  BY ReceivedFacts DEF streamChatCompletion, blockingChatCompletion, Received
<1>2. /\ buffer'[t] = Tail(buffer[t]) /\ content'[t] = content[t] \o e.text
      /\ answered'[t] = e.finish
      /\ pc'[t] = IF e.type = "done" THEN "persist" ELSE "waiting"
  <2>1. Received(t)
    BY DEF streamChatCompletion, blockingChatCompletion
  <2>2. /\ buffer' = [buffer EXCEPT ![t] = Tail(buffer[t])]
        /\ content' = [content EXCEPT ![t] = content[t] \o e.text]
        /\ answered' = [answered EXCEPT ![t] = e.finish]
    BY <1>1, <2>1 DEF Received
  <2>3. pc' = IF e.type = "done" THEN [pc EXCEPT ![t] = "persist"] ELSE pc
    BY <1>1, <2>1 DEF Received
  <2>4. t \in DOMAIN buffer /\ t \in DOMAIN content /\ t \in DOMAIN answered /\ t \in DOMAIN pc
    BY ZenonT(40) DEF Types, TypeOK
  <2>5. pc'[t] = IF e.type = "done" THEN "persist" ELSE "waiting"
    BY <1>1, <2>3, <2>4
  <2> QED BY <2>2, <2>4, <2>5, Zenon
<1>3. UNCHANGED <<mode, status, committed, finish, subscribed, lost>>
  BY DEF streamChatCompletion, blockingChatCompletion, Received, requestVars
<1>4. /\ e.type = "done" => sent'[t] = content'[t]
      /\ mode[t] = "blocking" /\ e.type # "done" => sent'[t] = sent[t]
  <2>1. t \in DOMAIN sent
    BY DEF Types
  <2>2. CASE sent' = [sent EXCEPT ![t] = content'[t]] /\ (mode[t] = "stream" \/ e.type = "done")
    BY <2>1, <2>2
  <2>3. CASE sent' = sent /\ e.type # "done"
    BY <2>3
  <2>4. \/ sent' = [sent EXCEPT ![t] = content'[t]] /\ (mode[t] = "stream" \/ e.type = "done")
        \/ sent' = sent /\ e.type # "done"
    BY <1>1 DEF streamChatCompletion, blockingChatCompletion
  <2> QED BY <2>2, <2>3, <2>4
<1>5. /\ answered[t] = "" /\ subscribed[t] /\ \A i \in DOMAIN buffer[t] : EventSound(t, i)
      /\ Excerpt(content[t] \o Pending(t), committed[t], lost[t])
  BY <1>1 DEF Sound, HandlerSound
<1>6. EventSound(t, 1) /\ Len(buffer[t]) \in Nat \ {0}
  <2>1. buffer[t] \in Seq(EventType) /\ Len(buffer[t]) \in Nat \ {0}
    BY <1>1, ReceivedFacts
  <2>2. \A s \in Seq(EventType) : DOMAIN s = 1..Len(s)
    OBVIOUS
  <2>3. \A n \in Nat \ {0} : 1 \in 1..n
    OBVIOUS
  <2>4. 1 \in DOMAIN buffer[t]
    BY <2>1, <2>2, <2>3, Zenon
  <2> QED BY <1>5, <2>1, <2>4
<1>7. Pending(t) = Ahead(buffer[t]) /\ Pending(t)' = Ahead(Tail(buffer[t]))
  BY <1>2 DEF Pending, Ahead, Texts
<1>8. content'[t] \o Pending(t)' = content[t] \o Pending(t)
  BY <1>1, <1>2, <1>7, ReceivedFacts
<1>9. RequestSound(t)'
  BY <1>1, <1>2, <1>3 DEF Sound, RequestSound
<1>10. CASE e.type = "done"
  <2>1. /\ e.text = <<>> /\ Len(buffer[t]) = 1 /\ status[t] = "completed" /\ e.finish = finish[t]
    BY <1>1, <1>6, <1>10 DEF EventSound
  <2>2. e.finish # ""
    BY <2>1 DEF Sound, RequestSound
  <2>3. Pending(t)' = <<>>
    <3>1. Tail(buffer[t]) \in Seq(EventType) /\ Len(Tail(buffer[t])) = Len(buffer[t]) - 1
      BY <1>1, ReceivedFacts
    <3>2. \A s \in Seq(EventType) : Len(s) = 0 => s = <<>>
      OBVIOUS
    <3>3. Len(Tail(buffer[t])) = 0
      BY <2>1, <3>1
    <3>4. Tail(buffer[t]) = <<>>
      BY <3>1, <3>2, <3>3
    <3> QED BY <1>7, <3>1, <3>4, AheadFacts
  <2>4. content'[t] = content[t] \o Pending(t)
    <3>1. content'[t] \in Seq(Nat)
      BY DEF Types
    <3>2. \A s \in Seq(Nat) : s \o <<>> = s
      OBVIOUS
    <3> QED BY <1>8, <2>3, <3>1, <3>2
  <2>5. ~lost[t] => sent'[t] = Text(committed[t])
    BY <1>4, <1>5, <1>10, <2>4 DEF Excerpt
  <2>6. ReplyOf(t)'
    BY <1>2, <1>3, <2>1, <2>2, <2>5 DEF ReplyOf
  <2>7. HandlerSound(t)'
    BY <1>2, <1>10, <2>2 DEF HandlerSound, Early
  <2> QED BY <1>9, <2>6, <2>7 DEF Sound
<1>11. CASE e.type # "done"
  <2>1. e.type = "fragment" /\ e.finish = ""
    BY <1>1, <1>6, <1>11 DEF EventSound
  <2>2. ReplyOf(t)'
    BY <1>2, <1>3, <1>4, <1>5, <1>11, <2>1 DEF Sound, ReplyOf
  <2>3. ASSUME NEW i \in DOMAIN buffer'[t] PROVE EventSound(t, i)'
    <3>1. PICK n \in Nat : n = Len(buffer[t]) - 1 /\ n + 1 = Len(buffer[t])
      <4>1. \A m \in Nat \ {0} : m - 1 \in Nat /\ (m - 1) + 1 = m
        OBVIOUS
      <4> QED BY <1>6, <4>1
    <3>2. /\ Len(buffer'[t]) = n /\ DOMAIN buffer'[t] = 1..n
          /\ \A j \in 1..n : buffer'[t][j] = buffer[t][j + 1]
      <4>1. /\ Tail(buffer[t]) \in Seq(EventType) /\ Len(Tail(buffer[t])) = Len(buffer[t]) - 1
            /\ \A j \in 1..(Len(buffer[t]) - 1) : Tail(buffer[t])[j] = buffer[t][j + 1]
        BY <1>1, ReceivedFacts
      <4>2. \A s \in Seq(EventType) : DOMAIN s = 1..Len(s)
        OBVIOUS
      <4> QED BY <1>2, <3>1, <4>1, <4>2, Zenon
    <3>3. i \in 1..n /\ i + 1 \in 1..(n + 1)
      BY <3>1, <3>2
    <3>4. i + 1 \in DOMAIN buffer[t]
      <4>1. \A s \in Seq(EventType) : DOMAIN s = 1..Len(s)
        OBVIOUS
      <4> QED BY <3>1, <3>3, <4>1 DEF Types
    <3>5. EventSound(t, i + 1)
      BY <1>5, <3>4
    <3>6. i + 1 = n + 1 => i = n
      BY <3>1, <3>3
    <3> QED BY <1>3, <3>1, <3>2, <3>3, <3>5, <3>6 DEF EventSound
  <2>4. Excerpt(content[t] \o Pending(t), committed[t], lost[t])'
    BY <1>3, <1>5, <1>8 DEF Excerpt
  <2>5. HandlerSound(t)'
    BY <1>2, <1>3, <1>5, <1>11, <2>1, <2>3, <2>4 DEF HandlerSound, Early
  <2> QED BY <1>9, <2>2, <2>5 DEF Sound
<1> QED BY <1>10, <1>11

\* On its way out the handler touches nothing that was promised.
LEMMA LateSound ==
  ASSUME Types, Types', NEW t \in Turns, Sound(t),
         persistAssistant(t) \/ unsubscribe(t) \/ Disconnect(t)
  PROVE  Sound(t)'
<1>1. /\ pc[t] \in {"persist", "leaving", "waiting"} /\ pc'[t] \in {"leaving", "ended"}
      /\ finish'[t] = finish[t] /\ committed'[t] = committed[t] /\ mode'[t] = mode[t]
      /\ sent'[t] = sent[t] /\ answered'[t] = answered[t]
  <2>1. /\ pc[t] \in {"persist", "leaving", "waiting"}
        /\ pc' = [pc EXCEPT ![t] = "leaving"] \/ pc' = [pc EXCEPT ![t] = "ended"]
    BY DEF persistAssistant, unsubscribe, Disconnect
  <2>2. UNCHANGED <<finish, committed, mode, sent, answered>>
    BY DEF persistAssistant, unsubscribe, Disconnect, requestVars, clientVars
  <2>3. t \in DOMAIN pc
    BY DEF Types, TypeOK
  <2> QED BY <2>1, <2>2, <2>3
<1>2. /\ status'[t] = status[t] \/ (status[t] = "live" /\ status'[t] = "abandoned")
      /\ answered[t] # "" => (~lost'[t] => ~lost[t])
  <2>1. CASE status' = status /\ lost' = lost
    BY <2>1
  <2>2. CASE /\ status[t] = "live" /\ status' = [status EXCEPT ![t] = "abandoned"]
             /\ publishLocked(t, DoneEvent("stop"))
    <3>1. answered[t] = ""
      BY <2>2 DEF Sound, ReplyOf
    <3>2. t \in DOMAIN status
      BY DEF Types, TypeOK
    <3> QED BY <2>2, <3>1, <3>2
  <2> QED BY <2>1, <2>2 DEF persistAssistant, unsubscribe, Disconnect, requestVars
<1>3. RequestSound(t)'
  BY <1>1, <1>2 DEF Sound, RequestSound
<1>4. HandlerSound(t)'
  BY <1>1 DEF HandlerSound, Early
<1>5. ReplyOf(t)'
  BY <1>1, <1>2 DEF Sound, ReplyOf
<1> QED BY <1>3, <1>4, <1>5 DEF Sound

\* Every step of a turn keeps it sound.
LEMMA StepSound ==
  ASSUME Types, Types', NEW t \in Turns, Sound(t), Step(t)
  PROVE  Sound(t)'
BY EarlySound, SubscribeSound, SubmitSound, CompleteSound, ReceiveSound, LateSound DEF Step, Proceed

-----------------------------------------------------------------------------
(* The conversation *)

\* A handler does not go back, and a completed answer does not change.
Forward(t) ==
  /\ pc[t] \notin {"idle", "created"} => pc'[t] \notin {"idle", "created"}
  /\ pc[t] \in {"leaving", "ended"} => pc'[t] \in {"leaving", "ended"}
  /\ status[t] = "completed" => status'[t] = "completed" /\ committed'[t] = committed[t]

\* Every step of a turn is such a step for all turns.
LEMMA StepForward ==
  ASSUME Types, NEW u \in Turns, Sound(u), Step(u), NEW t \in Turns
  PROVE  Forward(t)
<1>1. CASE t # u
  <2>1. Same(t)
    BY <1>1, Elsewhere
  <2> QED BY <2>1 DEF Same, Forward
<1>2. CASE t = u
  <2>1. t \in DOMAIN pc /\ t \in DOMAIN status /\ t \in DOMAIN committed
    BY DEF Types, TypeOK
  <2>2. ASSUME handleChatCompletions(t) PROVE Forward(t)
    BY <1>2, <2>1, <2>2 DEF handleChatCompletions, Forward, Sound, RequestSound
  <2>3. ASSUME persistUser(t) \/ Subscribe(t) PROVE Forward(t)
    BY <2>1, <2>3 DEF persistUser, Subscribe, Forward, requestVars
  <2>4. ASSUME streamChatCompletion(t) \/ blockingChatCompletion(t) PROVE Forward(t)
    <3>1. Received(t)
      BY <2>4 DEF streamChatCompletion, blockingChatCompletion
    <3>2. /\ pc[t] = "waiting" /\ UNCHANGED <<status, committed>>
          /\ pc' = pc \/ pc' = [pc EXCEPT ![t] = "persist"]
      BY <3>1 DEF Received, requestVars
    <3> QED BY <2>1, <3>2 DEF Forward
  <2>5. ASSUME persistAssistant(t) \/ unsubscribe(t) PROVE Forward(t)
    BY <2>1, <2>5 DEF persistAssistant, unsubscribe, Forward, requestVars
  <2>6. ASSUME Disconnect(t) PROVE Forward(t)
    <3>1. /\ pc' = [pc EXCEPT ![t] = "leaving"] /\ UNCHANGED committed
          /\ status' = status \/ status[t] = "live"
      BY <2>6 DEF Disconnect
    <3> QED BY <2>1, <3>1 DEF Forward
  <2>7. ASSUME NEW full, SubmitFragment(t, full) PROVE Forward(t)
    BY <2>7 DEF SubmitFragment, Forward
  <2>8. ASSUME NEW reason, completeLocked(t, reason) PROVE Forward(t)
    BY <2>8 DEF completeLocked, Forward
  <2> QED BY <1>2, <2>2, <2>3, <2>4, <2>5, <2>6, <2>7, <2>8 DEF Step, Proceed
<1> QED BY <1>1, <1>2

\* Messages that are there stay sound.
LEMMA MessagesForward ==
  ASSUME Types, NEW i \in DOMAIN transcript, MessageSound(i), \A t \in Turns : Forward(t),
         transcript'[i] = transcript[i]
  PROVE  MessageSound(i)'
<1>1. transcript[i].turn \in Turns
  <2>1. transcript[i] \in MessageType
    BY DEF Types
  <2> QED BY <2>1 DEF MessageType
<1> QED BY <1>1 DEF MessageSound, Forward

\* A handler appends a message that it has not written yet.
LEMMA AppendKept ==
  ASSUME Types, Types', TranscriptInv, NEW t \in Turns, \A u \in Turns : Forward(u),
         NEW role \in {"user", "assistant"}, NEW text,
         AppendConversationMessage(t, role, text), UNCHANGED conversation,
         role = "user" => pc[t] = "created" /\ pc'[t] = "appended",
         role = "assistant" =>
           /\ pc[t] = "persist" /\ pc'[t] = "leaving"
           /\ text = Text(committed'[t]) /\ status'[t] = "completed"
  PROVE  TranscriptInv'
<1>1. CASE conversation # "open"
  <2>1. transcript' = transcript
    BY <1>1 DEF AppendConversationMessage
  <2>2. \A i \in DOMAIN transcript' : MessageSound(i)'
    BY <2>1, MessagesForward DEF TranscriptInv
  <2> QED BY <2>1, <2>2 DEF TranscriptInv, OnePerTurn
<1>2. CASE conversation = "open"
  <2>1. PICK m : m = [turn |-> t, role |-> role, text |-> text]
    OBVIOUS
  <2>2. m.turn = t /\ m.role = role /\ m.text = text
    BY <2>1
  <2>3. PICK n \in Nat : n = Len(transcript)
    BY DEF Types
  <2>4. /\ transcript' = Append(transcript, m) /\ DOMAIN transcript = 1..n
        /\ DOMAIN transcript' = 1..(n + 1)
        /\ transcript'[n + 1] = m /\ \A i \in 1..n : transcript'[i] = transcript[i]
        /\ \A i \in 1..(n + 1) : i = n + 1 \/ i \in 1..n
    <3>1. transcript' = Append(transcript, m)
      BY <1>2, <2>1 DEF AppendConversationMessage
    <3>2. ASSUME NEW S, NEW s \in Seq(S), NEW x, NEW k \in Nat, k = Len(s)
          PROVE  /\ DOMAIN s = 1..k /\ DOMAIN Append(s, x) = 1..(k + 1)
                 /\ Append(s, x)[k + 1] = x /\ \A i \in 1..k : Append(s, x)[i] = s[i]
                 /\ \A i \in 1..(k + 1) : i = k + 1 \/ i \in 1..k
      BY <3>2
    <3> QED BY <2>3, <3>1, <3>2 DEF Types
  <2>5. ASSUME NEW i \in 1..n PROVE MessageSound(i)'
    BY <2>4, MessagesForward DEF TranscriptInv
  <2>6. MessageSound(n + 1)'
    BY <2>2, <2>4 DEF MessageSound
  <2>7. ASSUME NEW i \in 1..n PROVE ~(transcript[i].turn = t /\ transcript[i].role = role)
    <3>1. MessageSound(i)
      BY <2>4 DEF TranscriptInv
    <3> QED BY <3>1 DEF MessageSound
  <2>8. OnePerTurn'
    <3>1. ASSUME NEW i \in 1..(n + 1), NEW j \in 1..(n + 1),
                 transcript'[i].turn = transcript'[j].turn, transcript'[i].role = transcript'[j].role
          PROVE  i = j
      <4>1. CASE i \in 1..n /\ j \in 1..n
        BY <2>4, <3>1, <4>1 DEF TranscriptInv, OnePerTurn
      <4>2. CASE i = n + 1 /\ j \in 1..n
        BY <2>2, <2>4, <2>7, <3>1, <4>2
      <4>3. CASE j = n + 1 /\ i \in 1..n
        BY <2>2, <2>4, <2>7, <3>1, <4>3
      <4> QED BY <2>4, <4>1, <4>2, <4>3
    <3> QED BY <2>4, <3>1 DEF OnePerTurn
  <2>9. \A i \in DOMAIN transcript' : MessageSound(i)'
    BY <2>4, <2>5, <2>6
  <2>10. conversation' # "deleted"
    BY <1>2
  <2> QED BY <2>8, <2>9, <2>10 DEF TranscriptInv
<1> QED BY <1>1, <1>2

\* Every step keeps the conversation sound.
LEMMA TranscriptKept ==
  ASSUME Types, Types', TranscriptInv, \A t \in Turns : Sound(t), Next
  PROVE  TranscriptInv'
<1>1. CASE DeleteConversation
  <2>1. transcript' = <<>>
    BY <1>1 DEF DeleteConversation
  <2> QED BY <2>1 DEF TranscriptInv, OnePerTurn
<1>2. ASSUME NEW u \in Turns, Step(u) PROVE TranscriptInv'
  <2>1. \A t \in Turns : Forward(t)
    BY <1>2, StepForward
  <2>2. CASE UNCHANGED <<transcript, conversation>>
    <3>1. \A i \in DOMAIN transcript' : MessageSound(i)'
      BY <2>1, <2>2, MessagesForward DEF TranscriptInv
    <3> QED BY <2>2, <3>1 DEF TranscriptInv, OnePerTurn
  <2>3. u \in DOMAIN pc
    BY DEF Types, TypeOK
  <2>4. CASE persistUser(u)
    <3>1. pc[u] = "created" /\ pc'[u] = "appended" /\ UNCHANGED conversation
      BY <2>3, <2>4 DEF persistUser
    <3>2. AppendConversationMessage(u, "user", <<>>) \/ UNCHANGED transcript
      BY <2>4 DEF persistUser
    <3>3. CASE AppendConversationMessage(u, "user", <<>>)
      BY <2>1, <3>1, <3>3, AppendKept
    <3> QED BY <2>2, <3>1, <3>2, <3>3
  <2>5. CASE persistAssistant(u)
    <3>1. /\ pc[u] = "persist" /\ pc'[u] = "leaving"
          /\ UNCHANGED <<conversation, committed, status>>
      BY <2>3, <2>5 DEF persistAssistant, requestVars
    <3>2. status[u] = "completed"
      BY <3>1 DEF Sound, HandlerSound, ReplyOf
    <3>3. AppendConversationMessage(u, "assistant", Text(committed[u])) \/ UNCHANGED transcript
      BY <2>5 DEF persistAssistant, Persisted
    <3>4. CASE AppendConversationMessage(u, "assistant", Text(committed[u]))
      <4>1. PICK text : text = Text(committed[u]) /\ text = Text(committed'[u])
        BY <3>1
      <4> QED BY <2>1, <3>1, <3>2, <3>4, <4>1, AppendKept
    <3> QED BY <2>2, <3>1, <3>3, <3>4
  <2>6. \/ persistUser(u) \/ persistAssistant(u) \/ UNCHANGED <<transcript, conversation>>
    BY <1>2 DEF Step, Proceed, handleChatCompletions, Subscribe, streamChatCompletion,
         blockingChatCompletion, Received, unsubscribe, Disconnect, SubmitFragment,
         completeLocked, conversationVars
  <2> QED BY <2>2, <2>4, <2>5, <2>6
<1> QED BY <1>1, <1>2 DEF Next, Step

-----------------------------------------------------------------------------
(* The theorems *)

\* The invariant is inductive.
LEMMA ChatKept == ChatInv /\ [Next]_vars => ChatInv'
<1>1. ASSUME ChatInv, UNCHANGED vars PROVE ChatInv'
  <2>1. ASSUME NEW t \in Turns PROVE Sound(t)'
    <3>1. Same(t)
      BY <1>1 DEF vars, Same
    <3> QED BY <1>1, <3>1, SameSound DEF ChatInv, Sound
  <2>2. Types'
    BY <1>1 DEF ChatInv, vars, Types, TypeOK
  <2>3. TranscriptInv'
    BY <1>1 DEF ChatInv, vars, TranscriptInv, OnePerTurn, MessageSound
  <2> QED BY <2>1, <2>2, <2>3 DEF ChatInv, Sound
<1>2. ASSUME ChatInv, Next PROVE ChatInv'
  <2>1. Types /\ Types' /\ TranscriptInv /\ \A t \in Turns : Sound(t)
    BY <1>2, TypesKept DEF ChatInv, Sound
  <2>2. ASSUME NEW t \in Turns PROVE Sound(t)'
    <3>1. CASE DeleteConversation
      <4>1. Same(t)
        BY <3>1 DEF DeleteConversation, Same, requestVars, clientVars
      <4> QED BY <2>1, <4>1, SameSound
    <3>2. ASSUME NEW u \in Turns, Step(u) PROVE Sound(t)'
      <4>1. CASE u = t
        BY <2>1, <3>2, <4>1, StepSound
      <4>2. CASE u # t
        BY <2>1, <3>2, <4>2, Elsewhere, SameSound
      <4> QED BY <4>1, <4>2
    <3> QED BY <1>2, <3>1, <3>2 DEF Next, Step
  <2>3. TranscriptInv'
    BY <1>2, <2>1, TranscriptKept
  <2> QED BY <2>1, <2>2, <2>3 DEF ChatInv, Sound
<1> QED BY <1>1, <1>2

\* The invariant holds in every state that the handlers, the channels and the
\* conversation reach.
THEOREM ChatInvariance == Spec => []ChatInv
<1>1. Init => ChatInv
  <2> SUFFICES ASSUME Init PROVE ChatInv
    OBVIOUS
  <2>1. <<>> \in Seq(Nat) /\ <<>> \in Seq(EventType) /\ <<>> \in Seq(MessageType)
    OBVIOUS
  <2>2. Types
    <3>1. mode \in [Turns -> Mode] /\ binding \in [Turns -> Binding]
      BY ChatAssumption DEF Init
    <3>2. committed \in [Turns -> 0..MaxFragments]
      <4>1. 0 \in 0..MaxFragments
        BY ChatAssumption
      <4> QED BY <4>1 DEF Init
    <3>3. \A t \in Turns : buffer[t] = <<>> /\ Len(buffer[t]) <= BufferCap
      <4>1. Len(<<>>) <= BufferCap
        BY ChatAssumption
      <4> QED BY <4>1 DEF Init
    <3> QED BY <2>1, <3>1, <3>2, <3>3 DEF Init, Types, TypeOK
  <2>3. ASSUME NEW t \in Turns PROVE RequestSound(t) /\ HandlerSound(t) /\ ReplyOf(t)
    BY DEF Init, RequestSound, HandlerSound, ReplyOf, Early
  <2>4. TranscriptInv
    <3>1. transcript = <<>>
      BY DEF Init
    <3>2. DOMAIN transcript = {}
      <4>1. \A s : s = <<>> => DOMAIN s = {}
        OBVIOUS
      <4> QED BY <3>1, <4>1
    <3> QED BY <3>1, <3>2, Zenon DEF TranscriptInv, OnePerTurn
  <2> QED BY <2>2, <2>3, <2>4 DEF ChatInv
<1> QED BY <1>1, ChatKept, PTL DEF Spec

\* Types, with the bound of every channel: a send never passes its capacity.
THEOREM TypeCorrect == Spec => []TypeOK
<1>1. ChatInv => TypeOK
  BY DEF ChatInv, Types
<1> QED BY <1>1, ChatInvariance, PTL

\* Replay and live events meet without a gap or an overlap, however Subscribe, the
\* commits and the receives interleave (Subscribe, publishLocked).
THEOREM StreamFaithfulHolds == Spec => []StreamFaithful
<1>1. ChatInv => StreamFaithful
  BY DEF ChatInv, HandlerSound, Excerpt, StreamFaithful
<1> QED BY <1>1, ChatInvariance, PTL

\* A response that has ended has the reason and, if nothing was dropped, the whole
\* answer (streamChatCompletion, blockingChatCompletion).
THEOREM ReplyCompleteHolds == Spec => []ReplyComplete
<1>1. ChatInv => ReplyComplete
  BY DEF ChatInv, ReplyOf, ReplyComplete
<1> QED BY <1>1, ChatInvariance, PTL

\* One whole answer per turn, and none after a deletion (persistAssistant,
\* AppendConversationMessage).
THEOREM TranscriptSoundHolds == Spec => []TranscriptSound
<1>1. ChatInv => TranscriptSound
  BY DEF ChatInv, TranscriptInv, MessageSound, OnePerTurn, TranscriptSound
<1> QED BY <1>1, ChatInvariance, PTL
=============================================================================
