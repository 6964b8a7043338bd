# Deeperseek: TLA+ models, model checking and proofs

Deeperseek is a parody chat service: a person sends a prompt through an
OpenAI-compatible API, and another person (or, if the asker allows it, an AI
persona or a fallback model) types the answer, which is streamed back fragment by
fragment. The backend (Go, `src/backend`) keeps a queue of requests and a pool of
responders, matches the two, streams committed fragments, ends silent assignments
and moves points between accounts. This directory holds a specification of that
backend, translated from the source, with what TLC checks and TLAPS proves of it.

## 1. Inventory

Paths are relative to `src/backend/internal` unless they start with `src/`.

| Component | State | Operations | Model |
|---|---|---|---|
| Core service (`core/service.go`, `types.go`, `backend.go`) | `requests`, `fragments`, `seqSeen`, `queue`, `available`, `activeByRes`, `responders`, `acceptAI`, under one mutex | create, cancel, register/unregister, available/resume, fragment, finish, skip, acquire for the fallback, sweep | `Service` |
| Points (`core/service.go`) | `ledger`, `FrozenPoints`, `QuestionCharged`, `Reaction` | hold, charge, reward, react, balance | `Service` |
| Answer stream (`core/service.go`) | `subscribers`: one channel of 64 events per subscriber | Subscribe, publish, unsubscribe | `ChatCompletion` |
| Chat completions (`httpapi/openai.go`) | one goroutine per HTTP request | create, stream or block, persist, disconnect | `ChatCompletion` |
| Conversations (`core/conversations.go`) | conversations and their messages | append, delete; create, rename, archive, list | append and delete in `ChatCompletion` |
| Responder WebSocket (`httpapi/websocket.go`) | a reader and a writer goroutine per socket | messages `available`, `fragment`, `finish`, `skip`, `ping` | its calls in `Service` |
| Fallback (`httpapi/fallback.go`) | a watcher goroutine per request | delay, acquire, stream upstream, finish or skip, retry | `Fallback` |
| Persona manager (`persona/manager.go`, `pgredis/persona.go`) | the leader's lease, `responders`, `posting`, `activeConversations`, a goroutine per persona and per conversation | lead, count, scale, reap; answer, ask, follow up | `PersonaManager`, `PersonaWork` |
| Postgres and Redis backend (`pgredis/lifecycle.go`, `coordinator.go`, `requests_read.go`) | tables `requests`, `fragments`, `point_ledger`; Redis queue, pool, presence, preferences, routing keys, locks | the same interface, for several pods; a ticker that drains | `PgRedis` |
| Its answer stream (`pgredis/lifecycle.go`, `streams.go`) | a goroutine and a channel per subscriber | Subscribe, wake by pub/sub or ticker, drain from Postgres | `PgStream` |
| Accounts (`core/service.go`, `pgredis/auth.go`) | users, sessions, tokens | register, login, guest | not modelled; sessions exist from the start |
| Rate limiter (`httpapi/ratelimit.go`) | token buckets by address | allow, sweep | not modelled |
| Board, LLM client, server process, load simulator | | read-only view, network client, wiring, test tool | not modelled |
| Web client (`src/frontend/src/App.tsx`) | draft, committed text, socket | edit, commit, reconnect | not modelled |

How they interact. An HTTP handler calls `CreateRequest`, appends the user's turn
to the conversation, starts the fallback's watcher and subscribes to the answer.
A responder's socket registers it, declares it available and turns its messages
into `SubmitFragment`, `Finish` and `Skip`. Assignments reach the socket through a
channel of four, answers reach the handler through a channel of 64; sends into
either never wait, so a slow reader changes what the service does. A ticker calls
`SweepTimeouts` every second. The persona manager uses the same methods as people
do, and reserves follow-up questions for the session that answered. With Postgres and
Redis configured, several pods serve one database: a method is then a transaction
followed by calls of Redis, and the pods meet in the tables, the Redis lists and the
lease of the persona leader.

What is hard. All of it is concurrent: the mutex makes each method atomic, but
the order of the methods is free, so a fragment, a finish, a skip, a disconnect, a
second registration, a cancellation, the fallback and the sweeper all race for one
request. Five tables describe an assignment and must agree. Points are held,
charged and paid at different steps, and reactions change a payment afterwards.
Channels fill up. A handler subscribes after its request may already have been
answered, and its client may leave at any point. On several pods nothing but a
transaction or a script is atomic: the queue is in Redis and the status in Postgres, a
pod can die or a statement fail between the two, and what one call has read is stale
in the next. The persona manager infers how many people there are from two counts
that include its own personas. `PROJECT.json` lists the hazards with their lines.

What makes each part correct:

- matching: one responder per request and one request per responder, no request
  lost or queued twice, nobody assigned against a preference, no matching pair left
  waiting;
- life cycle: committed text has one author, only grows, and is never given to
  somebody else; a silent responder loses the assignment;
- points: a hold ends with the charge or the abandonment, each request is charged
  and paid once, adjustments follow the latest reaction, no question overdraws;
- stream and response: the client gets every committed fragment once and in
  order, then the end; nothing blocks the service;
- conversation: whole answers, one per turn, none after deletion;
- several pods: the same promises to the requester (`RequestLifecycle`), points that
  agree with the rows, a queue that agrees with the rows, streams that end;
- personas: as many as there are people, on one pod, all of them stoppable; none that is
  stuck, none that answers another question than the one it has read, no follow-up that
  nobody will take or cancel.

## 2. Modules

- `Service` models the in-memory backend. Every exported method holds `s.mu`
  throughout and is one action. Variables carry the names of the struct's fields;
  a request is a record of the fields that matter to matching and points.
  `tryAssignLocked` and `SweepTimeouts` are loops under the lock: `mu` is `"assign"`
  or `"sweep"` while one runs and disables every other method, so a call and its loop are
  one critical section, in which only a channel receive (which takes no lock) can
  intervene. `UnregisterResponder` does not start the matching loop, because the
  code does not.
- `MCService` gives `Service` its participants: sessions of two accounts, guests,
  personas that answer and personas that ask.
- `Slices` cuts elements out of a sequence, for the slices of `Service` and the lists of `PgRedis`.
- `Fallback` extends `Service` with the watcher goroutines of `fallback.go` and composes
  the two: a fallback session makes its calls in the watcher's order (`watcher` is
  the goroutine's position, `seq` the next `client_seq` of its attempt), everybody
  else acts as in `Service`. Each call takes the mutex on its own, so anybody may act
  between a refused acquisition and `FallbackStillWanted`, between two chunks, and
  between the end of the upstream and `Finish` or `Skip`.
- `MCFallback` instantiates it with the participants of `MCService`.
- `ChatCompletion` models the two handlers of `POST /v1/chat/completions`, the answer
  stream and the conversation. `pc` is the handler's position between its calls
  to the service: created, appended, waiting, persist, leaving, ended. The
  request's own life is reduced to commits and a completion at any time,
  which includes every behaviour `Service` gives it.
- `MCChatCompletion` instantiates it.
- `RequestLifecycle` is the abstract specification of a backend: what the requester of a
  question is promised. One variable holds the status, the responder and the answer
  (as the sequence of its authors) of each request. Before the first fragment a request may
  wait, be handed out, be taken back or be given up; the first fragment binds it to its
  responder; it ends once.
- `PgRedis` models the backend on Postgres and Redis, for several pods. `row` and `reward` are
  the tables, `queue`, `avail`, `present`, `declined` and `untagged` the Redis keys, `conn` the
  local connections. A transaction, a statement or a call of Redis is one step. A
  method takes its first step when it is called and leaves the others in `todo[p]`: `createRequest`
  leaves `checkBalance`, the enqueue and the drain, `UnregisterResponder` leaves `withdraw`,
  `findOrphan`, `releaseOrphan` and so on, `SweepTimeouts` its candidates one by one. `assignNext` is
  the Lua script, `handlePair` the compare-and-set of the row it has popped. `Crash` loses
  `todo[p]` and the sockets of a pod; `handlePairFails`, `enqueueFails` and a late heartbeat
  (`PresenceExpires`) are the other faults. `Lifecycle` instantiates `RequestLifecycle` with the
  rows, and `LifecycleRefined` says that every behaviour implements it.
- `PgStream` extends `PgRedis` with a subscriber per request: `flush` is the position of its
  goroutine, `rows` what its query has returned, `last` is `lastOrdinal`, `out` the channel. Pub/sub
  messages are wake-ups that may be lost or repeated, and the ticker always comes, so
  `Wake` is always possible and nothing more of them is modelled.
- `PersonaManager` models the managers of several pods: the lease (`lease`), the map of cancel
  functions (`mapped`), the drivers (`driver`, `home`) and the tick (`tick`, `count`) as a sequence of
  its calls and critical sections, with people who come and go, processes that get
  SIGTERM or die, leases and presence that expire.
- `PersonaWork` extends `Service` with the goroutines of the personas: `runResponder` and `answer`
  (`driver`, `job`, `chunk`), `postQuestion` and its conversation (`poster`, `current`), with the flag
  `posting` and the counter `active`. Every call of the service is a step, everybody else
  acts between two of them; the language model answers or fails.
- `MCPgRedis`, `MCPgStream`, `MCPersonaManager` and `MCPersonaWork` instantiate these.
- `ServiceProofs`, `FallbackProofs`, `PersonaWorkProofs`, `PersonaManagerProofs`, `ChatCompletionProofs`, `PgRedisProofs`
  and `PgStreamProofs` hold the theorems about the module they are named after. A module that
  extends another has its proofs on top of the other's: `FallbackProofs` and `PersonaWorkProofs`
  extend `ServiceProofs`, `PgStreamProofs` extends `PgRedisProofs`. `SliceProofs` has the lemmas
  on sequences, finite sets and sums that they share.

Definitions named `...Forgotten`, `...Twice`, `...Unchecked`, `...Without...`, `Replay...` and the like,
each directly before the definition it varies, are faulty variants of that
definition. `PROJECT.json` says which property each one violates; no behaviour of
the specifications uses them.

### Abstractions

- Fragment text is its length in runes in `Service`, and the fragment's number in
  `ChatCompletion`, so that order, gaps and repetitions are visible.
- Time is the set `aged`: a live request is in it when its timeout has run out
  since `UpdatedAt`, a completed one when its 24 hours for reactions are over. A
  request may age at any moment, independently of the others; that allows more
  orders than one shared clock does.
- The ledger is the sum of the deltas by user, request and kind. Entry ids and
  order are left out; a second charge or reward would show in the sum.
- A call that returns an error changes nothing and is not a step: its
  conditions are the guard of the action. Reads (`Me`, `Board`, lists, counts) are left out.
- A receive by the responder's socket is a step of its own; a socket that never
  takes it is the slow reader that fills the channel.
- `lost` in `ChatCompletion` is a history variable: it records that an event
  was dropped and guards nothing.
- Sessions and accounts, with their signup grant, exist from the start.
- In `PgRedis` an answer is the sequence of the sessions that committed its fragments, and
  points are counted in units of the question's cost. `due` is the set of rows whose
  `updated_at` is past the timeout, and every update of a row takes it out. A session has
  one socket per pod. `activeRequestForResponder` takes the row updated last; the model takes
  any. The lock keys are written and never read, so they are left out.
- History variables, which guard nothing: `lost` (a request that a crash or an error of Redis
  kept from the queue), `robbed` (taken from its holder by the disconnect of another
  session), `lapsed` (a connected session whose Redis hashes were deleted), `short` (the query
  before the final event failed), `seen` (the people online at the last count). The
  properties use them to name their exceptions.

## 3. Runs

All runs use deadlock checking except those of `ChatCompletion`, where finitely many
turns really end.

| Run | Checks | Bounds and why they suffice |
|---|---|---|
| `people` | `TypeOK`, `OneAssignment`, `QueueExact`, `HoldUntilFirstFragment`, `SingleAuthor`, `CommittedAnswerOwned`, `MatchedUnlessDisconnect` | two requests, two sessions (one registered) that ask and answer, and the fallback's calls; channel of one, so that a full one occurs. Two of each give every race for a request and every way to confuse two requests. |
| `points` | `LedgerExact`, `AnswerWithinLimit`, `NoOverdraft` | one user with points for one question, a guest, two requests: an answer is paid, the reward spent and taken back while a question is open; limits 1 and 2, `max_tokens` absent, below and above the cap, fragments of 1 and 2 runes, two `client_seq` values |
| `fallback` | `ConsentRespected`, `PoolConsistent`, `AssignmentAttended`, `FallbackAnswerWhole`, `SilenceEnds`, `WatcherEnds`, `AnsweredUnlessSkipFails` | one request, since each of these is about one; a person who answers, one for whom a follow-up may be reserved but who is not connected, an answering and an asking persona, both values of each preference; limit 2 with up to three chunks of 1 and 2 runes, so that a refused chunk can be followed by one that fits |
| `stream` | `TypeOK`, `StreamFaithful`, `ReplyComplete`, `ReplyUnlessLost`, `SubscribeReturns` | a turn with up to four fragments on a channel of two, so that replay, live events and drops mix; both handlers, all bindings |
| `transcript` | `TranscriptSound` | two turns of one conversation, up to three fragments each, deletion at any time |
| `gives_up` | `KeepsWatching`: violated | see findings |
| `pgredis` | `TypeOK`, `Listed`, `PointsExact`, `Consent`, `LifecycleRefined` | two pods, a user's question and a persona's (which may be a follow-up), a person with an account, an answering persona and the fallback; four calls of clients and one fault at any step. Two pods give every interleaving of two methods; four calls are enough for a request to be created, handed out, taken away by the one side while the other acts, and ended. |
| `two_active` | `SingleActive`: violated | see findings |
| `overdraft` | `NoOverdraft`: violated | see findings |
| `pgstream` | `GapFree`, `StreamEnds`, `SilenceEnds`, `BackstopMatches` | one pod that may crash and be replaced, one request, up to three fragments on a channel of two events, so that `emit` waits; a persona that answers and the fallback; one fault, five calls of clients. The interleavings that matter are those of the subscriber's queries with the commits, which one pod already gives. |
| `persona` | `NoOrphan`, `CountCorrect`, `EmptyHouse`, `DemotedReaps` | two pods, up to two people, two personas per pod, two faults, so that a lease can be lost twice or a handoff can fail |
| `persona_work` | `NeverIdle`, `OwnQuestion`, `PostingAccounted`, `FollowUpWatched` | two requests, so that a question and its follow-up, or two conversations, or a person's and a persona's question exist at once; a person, an answering persona, two asking ones |

`Listed`, `Consent`, `GapFree`, `NeverIdle` and `CountCorrect` name their exceptions: each has a
history variable or a condition that says what must have happened for the promise to
fail, so the run shows that nothing else breaks it. The exceptions of `Listed` are real
losses: nothing reads queued rows back into the Redis queue, so after a crash or an
error between commit and enqueue a request waits for its fallback or its cancellation, with
its points held. That of `NeverIdle` is a persona that stays busy with an empty answer: a
question whose output limit is below the size of a chunk refuses the first chunk, `Finish` fails
without text, and the persona, which is still busy, is not offered again, not even when the
sweeper has taken the request away.

The largest is `pgredis` with 1.95 million distinct states. Symmetry is
used over requests, turns, pods and askers, in safety runs only. In `stream` the channel has
room for exactly the two events of a full replay, the accumulated answer and the
end, so a longer replay would block there.

### Fairness

`fallback` assumes that time passes for a request that stays assigned or streaming
(`Elapse`), that a sweep with something to do eventually gets the
mutex (`SweepTimeouts`, strongly fair), and that a loop under the lock proceeds. The
sweeper's ticker fires every second for the life of the process, and Go's mutex
goes to the goroutine that has waited longest once one has waited a millisecond,
so neither is put off forever. Nothing is assumed of people: no responder need
answer, finish or leave. `SilenceEnds` needs no more than this.

It further assumes that the watcher's timers fire and its calls get the
mutex, that an upstream call ends (its context has a timeout of two minutes), and,
of the upstream, that it does not fail every one of endlessly many attempts; without
that no fallback could promise an answer.

`pgstream` assumes that a pod goes on with the method it runs, that its sweeper and its ticker keep
running (both are goroutines on a `time.Ticker`; a pod that crashes is replaced), that time passes
for a row that nobody updates, and that a subscriber's goroutine and its reader go on. Nothing
is assumed of clients and responders, and faults are bounded by `MaxFaults`, so
eventually they stop. Weak fairness suffices: Postgres and Redis serve each
statement, and no step of a pod is disabled by the others for good.

`persona` assumes that the ticker of `Run` keeps firing, drivers that are cancelled unwind, a process that got SIGTERM
ends, and presence and leases that nobody renews expire. It also assumes a fact about time: a
cancelled driver has unregistered before the next tick of its pod, `PollInterval` (5 s)
later, unless a fault is spent on it. Without this `EmptyHouse` fails: a tick may count a
driver's presence and then, in its second read, no longer find the driver in the map, and so
see a person who is not there, as often as it likes. The comment at
`persona/manager.go:102` claims the count to be correct on a single pod; that rests on this timing.

`stream` assumes that a handler goroutine that can go on
does (strongly fair, because it competes for the mutex and because the client may
be slow but is not stopped forever), and that a `SubmitFragment` that has reached
the limit completes the request. Nothing is assumed of the responder, the client or the
owner of the conversation.

### Findings

- `gives_up`: an upstream without text for 30 seconds loses the request to the sweeper;
  its `Skip` then fails and the watcher returns (`httpapi/fallback.go:155`), while the
  request is queued and wanted. The comment at `core/service.go:333` says the
  fallback keeps watching such a request. `AnsweredUnlessSkipFails` shows that
  this return is the only way to lose the fallback.
- `two_active`: on several pods a responder can hold two requests. `MarkResponderAvailable` reads
  that the session is idle and adds it to the pool later
  (`pgredis/lifecycle.go:571`), while another pod has already popped it in a pair; the
  update of `handlePair` asks whether the row is queued, not whether the session is idle. The run
  needs a client that says `available` twice. `src/docs/SPEC.md:216` allows one assignment at a time.
- `overdraft`: the ledger and the held points are summed in two statements
  (`pgredis/lifecycle.go:72-73`); a first fragment that commits between them is charged in
  neither sum, and a question passes that the points do not cover. The advisory lock that should
  make the check race-free excludes other creates, not fragments. The in-memory service
  checks under its mutex and never overdraws (run `points`).

Four more disagreements show as the exception of a property that holds:

- `UnregisterResponder` of the in-memory service gives a request back to the queue and returns
  without `tryAssignLocked` (`core/service.go:258`), so it waits beside an available responder until an
  unrelated call runs the matching, although `src/docs/SPEC.md:172` says a request stays queued when no
  responder is available. `MatchedUnlessDisconnect` shows that this is the only method that leaves
  such a pair. The Postgres and Redis backend drains there.
- A request that is given back goes to the tail of the queue (`core/service.go:858`), so a
  responder can receive a younger one first. `src/docs/SPEC.md:231` says the oldest comes
  first; `src/docs/DESIGN-v0.6.md:92` describes the tail.
- A full subscriber channel drops the done event (`core/service.go:899`), and the handler then waits,
  sending heartbeats, until its client leaves, although `src/docs/SPEC.md:412` promises a final
  chunk. `ReplyUnlessLost` shows that a drop is the only cause.
- A client that leaves after the first fragment takes the handler with it, and nobody writes the
  finished answer to the conversation (`httpapi/openai.go:115`), although the comment at line 64
  wants the transcript to survive a refresh. `TranscriptSound` covers what is written.

## 4. Proofs

Every safety property of a passing run, invariant or action property, is a theorem, proved for every value of
the constants that the assumptions admit: any number of requests, sessions, pods,
personas, turns and faults, any limits and channel capacities. The properties below
are defined in the model and named as in section 3.

| Module | Theorem | States |
|---|---|---|
| `ServiceProofs` | `TypeCorrect`, `Invariance` | `Spec => []TypeOK`, `Spec => []Inv` |
| | `OneAssignmentHolds`, `QueueExactHolds`, `PoolConsistentHolds`, `ConsentHolds`, `SingleAuthorHolds`, `HoldHolds`, `LedgerHolds`, `AnswerWithinLimitHolds` | `Spec => []P` for the invariant of that name |
| | `CommittedAnswerOwnedHolds`, `MatchedUnlessDisconnectHolds`, `NoOverdraftHolds` | the action properties |
| | `ImplementsLifecycle` | `Spec => Lifecycle!Spec` (`RequestLifecycle`) |
| `FallbackProofs` | `FallbackInvariance`, `AssignmentAttendedHolds`, `FallbackAnswerWholeHolds` | invariants of `FallbackSpec` |
| | `FallbackImplementsService` | `FallbackSpec => Spec` |
| `PersonaWorkProofs` | `WorkInvariance`, `NeverIdleHolds`, `OwnQuestionHolds`, `PostingAccountedHolds`, `FollowUpWatchedHolds` | invariants of `WorkSpec` |
| | `WorkImplementsService` | `WorkSpec => Spec` |
| `PersonaManagerProofs` | `ManagerInvariance`, `NoOrphanHolds`, `CountCorrectHolds` | invariants of its `Spec` |
| `ChatCompletionProofs` | `ChatInvariance`, `TypeCorrect`, `StreamFaithfulHolds`, `ReplyCompleteHolds`, `TranscriptSoundHolds` | invariants of its `Spec` |
| `PgRedisProofs` | `Invariance`, `TypeCorrect`, `PointsAreExact`, `ConsentHolds`, `ListedHolds` | invariants of its `Spec` |
| | `ImplementsLifecycle` | `Spec => LifecycleRefined` |
| `PgStreamProofs` | `StreamInvariance`, `GapFreeHolds`, `LifecycleBesideStreams` | invariants of `StreamSpec` |
| | `StreamsImplementLifecycle` | `StreamSpec => LifecycleRefined` |

Both backends implement one contract, `RequestLifecycle`. The fallback and the personas are
shown to be callers that `Service` allows, so each theorem about `Service` holds with them
running too; in particular `ConsentRespected` and `PoolConsistent`, which the run `fallback` checks
of the composition, follow for it.

### Assumptions

They are the `ASSUME`s of the modules, and TLC evaluates them in every run. `Service`: requests
are finitely many, the empty id is no request and no session, fallback sessions are
not ordinary ones, personas are guests (as `PersonaSession` creates them), the cost of
a question is positive, the limits are natural numbers. `PgRedis`: the same of its sets; pods and
personas are finitely many; personas decline questions of other personas when they register.
`PersonaManager`: enough persona sessions for every pod, since a session is minted when it is needed.
`ChatCompletion`: a channel has room for the two events of a replay (64 in the code).

### The arguments

`Service`. `Inv` is `TypeOK`, `Life` and `PoolConsistent`, and `Life` is the conjunction of six other
invariants. None is inductive alone. That a requeue does not
queue a request twice (`QueueExact`) rests on the request being assigned, which
`OneAssignment` derives from `activeByRes`. That an assignment does not take a request away
from somebody (`OneAssignment`) rests on the entry being queued, which is
`QueueExact`, since `compatiblePairLocked` does not look, and on the session being
idle. That a commit has a single author needs both, and that no text exists before
the first commit, which is part of `HoldUntilFirstFragment`. That the charge is booked once needs
`charged` to be equivalent to committed text; that the reward is, needs a completed
request to be final. The proof has one lemma per action for `Life` and
one for the pool, lemmas that describe what each shared transition
(`requeueLocked`, `abandonLocked`, `completeLocked`) does to one request and leaves
alone in the others, and lemmas on cutting elements out of a slice (`KeepAt`).

The action properties need to know what a step does to one request: each action is
shown to be one of a few moves of it. `AnswerWithinLimit` and `NoOverdraft` are about sums,
the length of an answer and the points of a user, which the model computes with folds.
Induction over data is not available, so the facts about sums are proved by a least
counterexample: a function on all subsets that obeys the equation of the fold exists and
is unique, because among finite sets on which it failed one would have least cardinality (`SumsUp`,
`SumsExist`, `SumsUnique`, `SumOver`). With them the available points of a user are the
grant plus one net amount per request, and every step but a reaction changes one net amount
in a way that `CreateRequest` has checked, or raises it.

`Fallback`. `FallbackInv` adds to `Inv` that a goroutine watches a request that exists, that an
assignment of a fallback session has its goroutine at the upstream call or closing, and that the
committed fragments are exactly those the attempt has numbered. It depends on a fallback
session answering its own request or nothing, which follows from `OneAssignment` and
`ConsentRespected`.

`PersonaWork`. `WorkInv` adds to `Inv` the position of each persona. Between two waits it is neither offered
nor sent anything and holds the request it has received or nothing; while it
waits it is offered, or has its assignment in the channel. What others do to its session
is one of two things: they leave it alone except for taking its request away (`Spared`), or they take it
from the pool and put the request into its channel (`Handed`). The exception of `NeverIdle`
(`SmallLimit`) is part of the invariant: it is the only way to wait without being offered.

`PersonaManager`. That every running persona is stoppable is inductive with its whereabouts
(`Placed`) and the room on its pod (`Room`). `CountCorrect` is about the tick before the first
fault: `Faultless` says that one pod leads, and, for each position in its tick, how the number that
it carries relates to the people it has seen and the personas that run.

`ChatCompletion`. What a handler has taken, followed by the texts in its channel, is the committed
text, or an increasing excerpt of it once an event was dropped; the final event is the last in the
channel and the request is then completed. The text in the channel is a `FlattenSeq`; what
that does on `Append` and `Tail` is again proved by a least counterexample (`Joins`,
`FlattenFacts`). The transcript needs that a message was written in the one step of the
handler that writes it.

`PgRedis`. A method is a transaction and steps that it leaves in `todo`, so the invariant is about these
too: a step that is still to be taken is sound for the state in which others have acted in the
meantime (`StepsSound`). A pair that was popped is still allowed, an `expire` names the row's responder as
long as the row is overdue, an `unqueue` is not of a request that was given back, a balance check
comes before its row. Rows change in five ways only (`Creates`, `Assigns`, `Frees`,
`Commits`, `Ends`), and `Forward` collects what no action may do to the steps of others.
`Listed` follows from where each request is: on the queue, or carried by a step.

`PgStream`. `Position` relates one subscriber to its request: the rows that it has still to
send follow the last one sent and are committed; before the end the events are the first `last`
fragments; from `redrain` on the row is final, so the second query returns all
there is, which is what makes the final event come last. A failing second query sets `short`, the
exception of `GapFree`.

### Only model-checked

- Liveness (`SilenceEnds`, `WatcherEnds`, `AnsweredUnlessSkipFails`, `ReplyUnlessLost`, `SubscribeReturns`, `StreamEnds`,
  `BackstopMatches`, `EmptyHouse`, `DemotedReaps`): fairness and `ENABLED` are beyond this prover.
- The properties of the runs that expect a violation, which the code does not have.

## 5. Plan

What is modelled is settled, and the safety properties are proved. What is left:

1. Safety facts on which the liveness properties rest, for every value of the constants, such as: a
   request that is assigned or streaming can always age and be swept; a subscriber that waits has
   sent all that was committed when it looked.
2. What the exceptions say: that `lost`, `robbed` and `short` change only in the steps that
   section 2 names.

## 6. Not modelled

- The board, the LLM client and the load simulator: a read-only view, network input, and a test
  tool.
- Accounts, sessions, passwords and tokens: each operation changes one record, and no property
  here depends on them.
- The remaining operations on conversations (create, rename, archive, list), and conversations and
  reactions on Postgres: single statements, or one transaction, that meet no other step.
- The rate limiter: arithmetic on a float clock under a mutex.
- Two sockets of one session on one pod, and acknowledgements of fragments: `UnregisterResponder`
  after a second registration is covered in `Service`, the errors that the second socket then
  gets are not.
- The web client, HTTP and JSON layout, wording, logging, configuration, migrations.
