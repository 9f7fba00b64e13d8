# A TLA+ verification of langshark

langshark is a WhatsApp sales bot. Evolution (a WhatsApp gateway) calls a webhook for each message; the messages
of a lead are collected, answered in one turn by a LangGraph of prompts, and the answer is sent back as a few
bubbles. Redis (Upstash REST) holds what must survive between requests, QStash calls back when a follow-up is due,
Supabase holds the tenants' configuration, and a web panel edits it.

This directory models the parts of the program where order, crashes, stale state and boundaries decide whether a
lead is answered once, twice or never, and with what. TLC checks small instances of every module; TLAPS proves the
most important properties for all values of the constants. Paths below are relative to the repository.

## 1. Inventory

| Part | State it keeps | Operations | What is hard, and what must hold |
|---|---|---|---|
| Webhook (`main.py` `webhook`) | dedup keys, `last_from`, unread buffer, inbox, index (Redis) | one handler per Evolution call, five or more awaits | repeated deliveries, crash between two awaits: no message answered twice, losses only where unavoidable |
| Inbox drainer (`_inbox_drainer_loop`) | a burst in memory | scan the index, pick ready inboxes, drain, enqueue | read-then-delete against concurrent pushes: order kept, nothing lost silently, nobody waits for ever |
| Queue worker (`_queue_worker_loop`, `_process_queued`) | `queue:messages`, `lock:*`, the payload in hand | pop, discard stale, delay, lock, turn, defer or drop | time: lock TTL against length of a turn, age of an answer, pause between turns; crash with a payload in hand |
| Follow-ups (`trigger_followup`, strategist node, `qstash.py`) | `followup_attempts`, `last_from`, calls at QStash, plan in the checkpoint | schedule, trigger, KillSwitch, count, cap, reset | callbacks racing the lead: a lead who replied, bought or never answers must not be pursued |
| Strategist and time extraction (`follow_up_strategist.py`, `temporal.py`) | none | classify, clamp, escalate; read hours and days from a message | boundaries and the order of the clamps; substrings, week ends |
| Conversation graph (`agent/graph.py`, `agent/nodes.py`) | the checkpoint (`SalesState`), which outlives the turn; chat list and summary in Redis | nodes and routes; history and summary; supervisor retries; flow dispatch; send | state of an earlier or a broken-off turn used in a later one; a prompt that must stay bounded and complete |
| Review, bubbles, sending (`supervisor.py`, `tools.py`, `send_node`) | unread buffer, cooldowns, chip quota, the phone | checks, chunking, reading marks, reaction, quote, posts with retries | lost answers and stops between any two requests; checks over messages of more than this turn |
| Lead memory (`lead_memory.py`, `store.py`) | facts in a Store or in Redis | read, extract, merge, write | two stores, concurrent simulations, restarts: the bot must not forget |
| Redis client (`memory/redis_store.py` `_cmd`) | a process-local fallback store | every command, remote or local | an operation split between two stores |
| Configuration cache (`panel/cache.py`, `panel/repos.py`) | entries with a TTL, a lock, rows | get, invalidate, patch | a fill after its invalidation; lost updates of sections |
| Flow and tenant caches | entries with a TTL | get | only their TTL bounds how old an entry is |
| Panel (`panel/api.py`, `views.py`, `auth.py`) | Supabase rows, session cookie | CRUD, login, simulate, clear the KillSwitch | simulate shares a lead's checkpoint; the rest is one request each |
| Checkpointer, retrieval, transcription, bootstrap, scripts | a chosen backend, short caches | startup, reads | pure I/O for our purposes |

How they interact: the webhook hands over to the drainer through the inbox, drainer and `trigger_followup` to the
worker through the queue, the worker runs the graph on the lead's checkpoint and, after it, asks QStash for the next
follow-up; QStash comes back through `trigger_followup`. `last_from` is written by webhook, graph and worker and
read by `trigger_followup`. The panel's simulation runs the same graph without the lock. All of these are asyncio
tasks of one process (`uvicorn --workers 1`), so every `await` is a point where another task may run.

`PROJECT.json` lists every component with its status, every hazard with its line and the properties that cover it,
and for every definition the lines it stands for.

## 2. Modules

Definitions called faulty (`MarkUnchecked`, `SummarizeAnew`, ...) are not part of any specification. Each stands
before the definition it distorts and shows that a property can fail.

### Message path: InboxPipeline, BatchChannel, QueueWorker

`InboxPipeline` has one action per Redis command of the webhook (`MarkFirst`, `MarkDuplicate`, `SetLastFromLead`,
`PushUnread`, `PushItem`, `PushUnlist`, `PushList`) and of the drainer (`ListActive`, `InspectReady`, `InspectSkip`,
`DrainRead`, `DrainDelete`, `DrainUnlist`, `DrainEnqueue`). `call[d]` is the program counter of the handler of
delivery `d`; several deliveries of one message are Evolution's retries. The drainer's `listed` and `ready` are what
its first and third pass have left to do. `Stop` and `Restart` end and start the process (memory is lost, Redis
stays); the `Expire` actions are the TTLs, with the guards that follow from their lengths: 300 s is longer than any
handler, and 600 s longer than any inbox waits that a live drainer looks at. Whether an inbox is ready depends on
clock readings; the model lets a non-empty inbox be ready at any time and passes over a long one never.

`BatchChannel` says what all this is for: one lossy FIFO mailbox per lead, taken from the front in batches.
`ImplementsChannel` is the refinement, with the drainer's burst and the inbox together as the mailbox.

`QueueWorker` has the queue, the lock and any number of processes that run `_queue_worker_loop`. Time is discrete:
payloads carry their age, the lock its remaining life, a worker the rest of its delay or turn; `Tick` moves all of
them and waits until no worker has anything to do at this instant. The graph is one step of a duration up to
`MaxTurn`. The lock has no owner, as in the code: `Release` and `Drop` delete whoever's lock is there. `Crash`
leaves the lock to its TTL, `Shutdown` (cancellation) runs the `finally` that deletes it. `served` are the processes
whose next payload is not their first: only they wait.

### Follow-ups: FollowUp, Strategist, Temporal

`FollowUp` is one lead, from message to message: `trigger_followup` in its two awaits, the worker's turn from the
strategist to the call of QStash (`Bought`, `Tagged` and `Classified` are the three ways through the graph,
`PersistUser`, `PersistReply` and `MarkAgent` the three writes of `last_from`, `Count` the counter with the hard
gate, `Schedule`/`ScheduleNot` the publish). `planned` and `converted` are checkpoint fields and survive the turn.
A call remembers in `seen` how many messages the lead had written when it was asked for. `ExpireLastFrom` is the end of
`last_from` after 72 hours, which a call may outlast.

`Strategist` leaves the interleavings to `FollowUp` and has the decision instead: `ClassifyLead` with
`_validate_decision` as `Classification`, `Escalate` and `Delay`, `_fallback_decision`, and the turns that feed one
decision into the next (`InboundTurn`, `FollowUpTurn`). The model's answer is any record of `Raw`, or none.
`Temporal` is `temporal.py`: a message is what the regular expressions and keyword searches find in it (`relative`,
`clock`, `says`), time is minutes since Monday 00:00. The keywords stand in the order of the dictionaries, because
the order of the search decides; `Inside` has the substrings.

### The turn: GraphTurn, Conversation, ReplyText, Supervisor, Delivery

Three views of the same nodes, each with the state that one kind of property needs.

`GraphTurn` has the routes, the supervisor's loop and the dispatch of flows, over a checkpoint that survives the
turns of a conversation. `state` holds the fields in question (`reply` stands for reply and chunks and carries the
number of the turn that wrote it). `Abort` may follow any node: an exception, the recursion limit, or a stop; the
checkpoint stays as the last node left it.

`Conversation` has what the bot remembers and what the model is shown: the chat list and the summary in Redis, the
messages of the checkpoint, the medium of a turn (`vision`), and `mute`, which is `_debug_no_send`. `Begin` is
the input of a turn with `load_history` (the reducer adds the history behind what the checkpoint has), then
`Summarize`/`SummarizeNot`/`SummarizeEmpty`, `Vision`, `DetectIntent`, `Reply`, `Approve`/`Reject`, `Persist`,
`Send`/`SendFails`. A summary is the set of messages it covers. Turns of the lead, follow-ups and simulations share it
all. `persist_node` runs before `send_node`: a reply may be in the chat of which no bubble comes (`SendFails`), or
in whose place a flow was sent (`dispatched`); these are `unsent`. `Abort` in `persist_node` may leave the lead's
words without the reply.

`ReplyText` (parse_tags and chunk_for_whatsapp) and `Supervisor` (the checks before its model is asked) have no
variables. A text is a sequence of pieces with lengths and the boundaries between them; for the checks it is a set
of words and a few numbers, and what they look at are the newest of the graph's messages. The loops of the chunking
are folds, with a step each (`SplitStep`, `FillStep`, `MergeStep`). `Delivery` uses both, from the model's words to the phone: `Specialist`, the review,
`FetchUnread`/`MarkRead`, `React`, `Quote` with their cooldowns, and for each post of a bubble `Delivered`,
`AnswerLost` (it comes, and the bot does not know) or `NotDelivered`. `Stop` may come between any two steps. A
follow-up has no message of the lead: `NoWords` is the placeholder that `load_history` puts in its place. `heard`,
`told`, `late` and `unsent` are the lead's own view of the conversation and what he missed of it; no action reads
them. The facts of the lead are chosen anew in each turn (`LeadMemory` says how they change). `ExpireUnread` is the
end of the unread buffer a day after the lead's last message: by then that message had its turn or will have none.

### Stores: LeadMemory, RedisClient, ConfigCache

`LeadMemory` is `lead_memory_node` in its two steps with the model's answer between them (`Start`, `Extract`), for
the worker's turns and simulations at the same time, over a Store that may fail in either, and may be opened as
another kind after a `Restart`. `ExpireStore` and `ExpireFacts` are the ends of the two copies after 90 and 30 days.
`ValidateFacts` is the merge.

`RedisClient` runs the commands of `push_inbox`, `drain_inbox`, the dedup and the counter one by one against two
stores. `Outcomes` says what a command may do: it is answered by Redis, or it fails before or after Redis has
carried it out, and the fallback answers. A list keeps its time when it is pushed to, and `EXPIRE` sets it; the
fallback keeps a list's time too, but only `GET` and `SET NX` look at one. Without Upstash, `redis` holds what a Redis would hold, to compare.

`ConfigCache` is `ProjectConfigCache.get` (`Get` with its first look, `Locked` with the second, `FetchReads` when
the row is read at Supabase, `Fill` when it is put into the cache) and `patch_config`/`patch_section` with
their reads, writes and invalidations, one action per await.

## 3. Runs

| Run | Asks | States |
|---|---|---|
| `inbox` | two leads, a burst of two with one repeated delivery, a message without id, one crash, all TTLs | 343 thousand |
| `queue_worker` | one worker, turns up to 90 s, one crash or shutdown | 37 thousand |
| `two_workers` | two processes, turns shorter than the lock | 237 thousand |
| `follow_up` | two messages, cap of two, one repeated QStash call, one intervention in the panel, one expiry of `last_from` | 126 thousand |
| `kill_switch` | does a reply cancel the pending follow-up? Violated: the bot's answer hides the reply | |
| `graph_turn` | three turns that may break off anywhere | 3 thousand |
| `strategist` | every kind of time in a message, answers of every temperature, chains of follow-ups to the cap | 89 thousand |
| `lead_memory` | the worker and a simulation, three turns, two failures or restarts, one expiry | 574 thousand |
| `redis_client` | three arrivals of two messages, drains, counter; two failed commands, or no Redis at all | 1.2 million |
| `conversation` | three turns with text, media, follow-ups, flows, simulations; three of: turns broken off or without bubbles, empty summaries, expiries | 5.3 million |
| `delivery` | three turns from text to phone, one failure or expiry anywhere | 2.9 million |
| `config_cache` | two turns and two editors, two projects in a cache of one | 1.2 million |

What the properties say is written above each of them. The ones that need a word more:

* `LossOnlyInWindow` is an exact account of how a message can vanish. It would be broken by a drainer that loses
  what it has read, or by a handler that gives up a message.
* `DefersBoundedByStops`: with one worker the only lock one can meet is that of a process that died, and its 60 s
  run out during the delay of at least 60 s that comes before every payload but the first. So the drop after five
  defers needs as many crashes. This depends on delay and TTL being equal; `AcquireTooLong` shows it.
* `OneTurnPerLead` needs two processes (a rolling deployment, or a second instance on the same Redis): one worker is
  serial anyway. It holds without crashes and while turns are shorter than the TTL. With a crash it is not claimed:
  `Drop` then deletes a lock that may be live. Nor with three processes, where a drop by one deletes the lock of the
  second while the third is about to ask for it.
* `OwnReviewedReply` exempts purchase turns, which run no specialist: `send_node` then sends the chunks that the
  checkpoint holds, that is, the last reply once more.
* `FeedbackDoesNotLeak` speaks of attempts only for turns that answer. If the supervisor's model rejects without
  feedback and without a reason, `supervisor_node` has already cleared the reply and counted an attempt, the route
  goes on for want of feedback, the lead gets no answer, and the attempt is carried over.
* `QuickFollowUpsEnd`: the strategist reads the counter before the turn is counted, so the third silent follow-up
  still finds two, and one quick call is still to come. The fallback, used when the model fails, does not escalate a
  time in the message, so quick follow-ups go on to the cap.
* `TimeIsKept`: a time is kept but for one minute, because `datetime_to_minutes_from_now` takes a second reading of
  the clock and truncates; only the very next minute is kept as it is.
* `NothingForgotten`, `ChatIsWhatWasSaid`: the first says that the prompt has all of the chat, the second what that
  chat is worth: no rejected reply is in it, and each of its replies came to the lead but for those whose bubbles all
  failed, for which a flow was sent, whose turn broke off, or that a mute thread kept back. The bot goes on as if these
  had been said. The summary may cover more than the chat.
* `RejectionsBounded` counts rejections. A retry that answers with an empty reply is no rejection: the supervisor
  returns early, the feedback stays, and the specialist runs again until the recursion limit (`MaxRuns`).
* `EveryPayloadResolved` counts a payload that was in the worker's hand at a stop as resolved, for it is lost for good;
  the property says that no other one is.
* `RepeatedOnlyByFaults`: of the faults, some let a message be pushed once more, and the others let what the stores
  hold be handed on once more. With `again` of the first kind that makes `(1 + again) * (1 + faults - again)`.
* `ForgetsOnlyForCause` and `PhoneShowsTheTurns`, `QuotaCounts`, `RepeatedOnlyByFaults`, `EditsLostByOverlapOnly`
  relate what goes wrong to the number of failures, in `ForgetsOnlyForCause` also to the expiries of the facts. Without
  a failure, overlap or expiry they say that nothing does.
* `ReadOrWaiting`: a message whose turn never runs (stale, dropped or lost) keeps its mark waiting for the next turn
  that sends; if none comes within a day the buffer expires, and the code counts the message as read.
* `AckedIsRead` exempts projects whose row was being fetched when the cache was cleared; `FreshWithinTtl` says for
  how long that can matter.

### Bounds, and why they are enough

* Inbox: two leads suffice to mix them up, a burst of two to reorder or split it, one repeated delivery for the
  dedup, `MaxSize = 2` to reach a full inbox, one crash to lose something at every point. Deliveries are not
  symmetric (one repeats another), so no symmetry is used.
* Queue: the unit is 30 s: TTL 2, delay 2 to 4 as configured. `MaxStale` is 4 (10 in the code) and `MaxDefers` 1 or
  2 (5 in the code), so that three or four payloads are enough to make payloads stale, deferred and dropped.
  `MaxTurn` is 3 with one worker, 1 where the lock is supposed to hold.
* Follow-up: a cap of 2 (10 in the code) tells the first, the last allowed and the forbidden follow-up apart.
  Counters of history (`wrote`, `redelivered`, `cleared`, `expiries`) are bounded by guards; `attempts` and `scheduled` are not,
  the cap bounds them.
* Strategist: a cap of 5 is past the escalation after 3 attempts and its effect one turn later. The messages have
  every shape the tables tell apart: substrings, two keywords in the other order, a clock with a period, a clock
  that is none, each relative pattern. The moments are a Monday at 10:00 and a Sunday at 17:29, so that a clock time
  is before or after now and a week ends in between. Model minutes are 0 (none) and 100, which is under, inside and
  over the limits of the temperatures once it is doubled.
* Graph: the code's two retries, runs of a specialist up to 4 (the recursion limit), three turns: one that leaves
  something, one that meets it, one more.
* Conversation: a window of 4, a limit of 3, a threshold of 2 and one message kept have the order of the code's 200,
  40, 30 and 10, so that three turns fill and shorten each of them. One retry, three failures: two turns that break
  off or do not come, and an expiry or an empty summary between them.
* Delivery: one of two texts has the link, and said again each of them is near itself; the layout of the other needs
  each rule of the chunking. `Lookback` 2 (4 in the code) and `HumanLookback` 1 (3) let three
  turns go past them. Two posts per bubble (3 in the code), one failure or expiry.
* Lead memory: one platform and one objection (the merge treats them alike), four of the six stages with the two of
  equal rank, three turns of which two may overlap, two failures: one to write to the other store, one to read it;
  one expiry, of either copy.
* Redis client: a TTL of 2 in a time of 2 expires every kind of key once; three arrivals of two messages repeat one;
  two failures are what `LostOnlyByFaults` needs to go wrong. Messages are symmetric.
* Configuration: TTL 2 and a time-out of 1 keep the order of the code's 60 s and 5 s; two projects in a cache of
  one evict each other; two sections are needed to lose one. Projects, sections, readers and editors are symmetric.

Deadlock is checked for the queue, the strategist and the Redis client, where something can always happen. It is
switched off where all work may be done: all deliveries handled, the lead silent, the last turn over.

### Fairness

* InboxPipeline: weak fairness of the drainer's steps and of `Restart` (asyncio runs what can run; `railway.toml`
  restarts a failed container), strong fairness of `InspectReady`: an inbox that stays listed and non-empty is
  looked at in every pass and becomes idle or old sooner or later (`INBOX_DEBOUNCE_S`, `INBOX_MAX_AGE_S`). The
  webhook's steps and crashes are not fair.
* QueueWorker: weak fairness of each worker's steps, of `Restart` and of time.
* FollowUp: weak fairness of `Trigger` (QStash makes the calls it has accepted) and of `Turn` (the worker takes what
  is queued and goes on). Drain, lead, panel and crash are not fair.
* The other modules have no liveness property: their turns are a fixed number of steps.

## 4. Proofs

Most theorems are of the form `Spec => []Inv` or `Spec => [][A]_vars` (in `GraphTurn` and `RedisClient`, whose
proofs share a module with others, the specification has another name), and one says that `InboxPipeline` implements
`BatchChannel`. They hold for every value of the constants that meets the module's named assumption (bounds are naturals, a limit is not above a window, and the like). What a theorem
needs beyond that is in its statement.

* `Inbox_proofs`, about `InboxPipeline`: `TypeCorrect`, and `AnsweredAtMostOnce`. `AtMostOnce` speaks of the queue
  only and is not inductive. The invariant is `OnePlace(m)` for every message whose dedup key has not expired: over
  handlers that carry it, inbox, burst in the drainer's hand and queue there is at most one place that holds `m`, and
  none while it is unmarked. `DrainRead` would create a second place (Redis still has the list); the burst therefore
  counts as a place only from the `DEL` on, when the list is gone. `PlaceStep` says that a step which creates no place
  keeps the invariant; each action is one use of it, and only `MarkFirst` opens a place, for a message that had none.
  `LossesAreKnown` and `PipelineIsChannel` rest on `DrainInv`: between `LRANGE` and `DEL` the burst is the oldest part
  of the inbox, for pushes add newer messages only. So the `DEL` loses what was pushed since and nothing else, and
  each command is a push, a batch, a loss at one end or a stutter of `BatchChannel`.
* `Inbox_proofs`, about `RedisClient`: `FallbackIsRedis`, `LossNeedsTwoFaults` and `RepeatsNeedFaults`. A command
  touches one key, so its effect is first described entry by entry (`After` in Redis, `AfterLocally` in the fallback),
  and then each script command by command. `SameInv`: without Upstash the two stores are twins, value and time, but
  for the time of a list between its change and its `EXPIRE`, because the fallback keeps the old one. `LossInv`: an
  accepted message is in a store that counts, in the drain's hand or not pushed yet. `CopiesInv` is the account of
  `RepeatedOnlyByFaults`: no place has more copies than the message was pushed, and delivered and waiting copies
  together stay below the bound; the `Fits` lemmas say what each command does to these numbers. `LiveInv` (a key in
  Redis has its whole time) and `HeldInv` (what a drain holds is what it read) connect them.
* `QueueWorker_proofs`: `TypeCorrect`; `AnswersAreFresh` for any number of workers (`AgeInv`: while a worker waits,
  the age of its payload and the rest of the delay are together at most `MaxStale + MaxDelay`); `TurnsArePaced` for
  one worker (`PaceInv`: the pause so far and the rest of the delay are at least `MinDelay`); `DefersNeedStops` for
  one worker whose delay is not shorter than the lock (`DeferInv`: a process that has served finds every lock expired
  when its delay is over, so only its first payload can meet one, which then is that of the last stop); and `LockSerialisesTurns` for
  two workers that do not stop, with turns shorter than lock and delay (`OneInv`: the lock of a running turn
  outlasts it, or the other worker, which has deleted it, has a delay before it that does).
* `FollowUp_proofs`: `TypeCorrect`, and `ExhaustedLeadIsLeft`, the action property `NoScheduleWhenExhausted`. The
  strategist reads the counter long before QStash is called. `PlanInv` carries what it saw to the call: between them
  the counter only falls, except in `Count`, and there the hard gate stops a follow-up turn. The proof shows why
  both places are needed. `ChainsDoNotMultiply`: calls that are pending or passed, follow-ups in the queue and the
  running turn of whatever kind are together at most the inbound turns answered and the calls repeated by QStash
  (`ChainInv`); a turn hands its place to the call it asks for.
* `Graph_proofs`, about `Strategist`: `FollowUpsKeepCadence`, `StopsAreRespected`, `QuickOnesEnd`, for any messages, answers,
  moments and cap. Half of it shows that the time extraction always gives a time (a first match, a first keyword, an
  hour, a day), so that the clamps have a number to work on; `Decided` is what a decision that plans something
  says. `CadenceInv` adds to the properties that a quick follow-up is planned at three attempts at most (the
  decision was taken below three, and counted once since), and that quick follow-ups are among those counted.
  `NamedTimeIsKept`: what is planned was computed from the message and the moment that are still there (`PlanInv`);
  the day and hour found lie ahead and keep the clock. `TimeIsReadAsWritten`: but for the two substrings that the
  property exempts, the search finds a keyword exactly if it is written, so the first it finds is the first written.
* `Graph_proofs`, about `GraphTurn`: `TypeCorrect`, `RetriesEnd`, `SendsOwnReply` and `LeavesNoFeedback`. None is inductive. Before
  a reply is let through, the rejections of this turn are among the attempts in the checkpoint (`CountedInv`), so
  attempts inherited from a turn that broke off only make the loop shorter; feedback in the checkpoint is that of a
  rejection (`RejectedInv`), so a turn that meets it cannot slip past the review; `OwnInv` and `CleanInv` then say
  what may be in the checkpoint after the review.
* `Conversation_proofs`: `ChatWasSaid` (`SaidInv`: every reply in the chat or in the checkpoint, but for that of the
  running turn, was received or is accounted for, as a purchase turn may persist the checkpoint's reply once more); `PromptStaysBounded` (`PromptInv` counts node by node how many messages a turn has
  added; a turn that breaks off pays for its own history); `ChatIsShown` (`CoverInv`: all but the last two of the
  chat, which the running turn may just have added, are covered by what the checkpoint or Redis has, and those two are
  in the history that is loaded, because the limit is at least two); `MediaAreConsumed` (`MediaInv`: the medium in
  the checkpoint belongs to a turn that no specialist has answered).
* `LeadMemory_proofs`: `TypeCorrect` and `NothingIsForgottenWithoutCause`. `BudgetInv` gives each failure and each
  overlap two credits, each expiry one, and says how many of them must be left, by how many turns are running and which copies of the
  facts (what would be read, what a turn has read) know less than what was last told.
* `ConfigCache_proofs`: `TypeCorrect`; `ReadsAreFresh` (`FreshInv`: a row that is under way or cached was the
  newest when the request for it began, and a request does not outlast its time-out); `AnsweredEditsAreRead`
  (`AckInv`: an older row that could still be filled in belongs to a fetch that the invalidation saw);
  `LostEditsAreOverlaps` (`RiskInv`: edits lost, stale copies in an editor's hand and edits about to be written are
  together at most one more than the overlaps, and no more if none is about to be written).
* `Delivery_proofs`, the phone: `BubblesComeInOrder`, `QuotaIsSound`, `MarksAreKept`. `PlaceInv` keeps the bubbles of
  the turn at or before the current one; `RepeatInv` lets the current one be there already only if an answer was lost;
  `CoolInv` pays with a fault for each key that is not set; `QuotaInv` allows the turns that came to be one ahead
  while a turn is open.
* `Delivery_proofs`, the review: `RepliesAreNew` and `LinkIsWanted`. A check looks at the newest of the graph's
  messages, and the property speaks of what the lead saw and wrote. `DraftInv` says that the persisted history lies in
  the graph's messages right before the turn's own message and drafts; `HeardInv` and `ToldInv` that this history is
  behind the lead's view by no more than what failed. So the newest messages contain the newest of the lead's, and the
  verdict, which is that of the first failing check, speaks of them.

* `Delivery_proofs`, the bubbles: `BubblesAreWhole`. `ChunkParts` says it of `Chunk` for every sequence of pieces, and
  rests on what each fold of `ReplyText` does: `SplitKeeps`, `FillKeeps`, `MergeShortKeeps` (pieces and order stay, and
  what is joined fits), `FlattenParts` (if each group is replaced by parts that are together the group, all of them are
  together the text), `CapParts`. The library's induction theorems take an operator, which the provers cannot
  instantiate; `UpTo` and `SeqUpTo` do with a set what those do with a predicate, from the fact that a set of numbers
  has a least element. `FoldExists` shows that the function that a fold chooses exists, `FoldResult` that it is
  the step of the fold, element by element.

Only model-checked: liveness (`ListedInboxIsDrained`, `EveryPayloadResolved`, `FollowUpsEnd`), which is out of this
prover's reach. The counterexample of `kill_switch` is a run, too.

## 5. What the runs found

One run ends in a counterexample that contradicts two lines of the repository: the KillSwitch forgets the lead's
reply as soon as the bot has answered it (`kill_switch`; `PROJECT.json` quotes them).

The others are part of what the code does and appear as exceptions in the properties or as a remark in the models:

* Message path. A message pushed between `LRANGE` and `DEL` of `drain_inbox` is deleted unread, and the same holds
  for the unread marks. A push that overlaps a drain leaves an inbox out of the index: it waits for the lead's next
  message, or expires. The lock lives for 60 s and a turn may take longer; two processes then work on one
  conversation.
* Fallback. Without Upstash the drainer never finds an inbox ready, because `LINDEX` is not among the commands of the
  fallback and answers `None`. A list that `LREM` empties stays, lists do not expire, and `INCR` goes on
  with a counter that has. With it, a
  failed `DEL` leaves the inbox to be drained again, a failed `LRANGE` lets the drain delete it unread.
* Purchase turns run no specialist: they send the last reply once more, and schedule a follow-up from
  `schedule_minutes` of an earlier turn. `tests/test_graph.py:55-65` expects a purchase turn to send nothing; its thread
  has no earlier reply, and on one that has, the code sends it again. `flow_name` is never cleared: in every later turn the flow is sent in place
  of the reply.
* Forgetting. The facts of a lead end after 90 days in the Store and 30 in Redis: a lead who comes back later is
  asked again, with no failure. The unread marks end after a day, and `last_from` after 72 hours, while a follow-up
  may be scheduled for seven days: the KillSwitch then no longer knows who spoke last.
* Review. The check for fraud looks for the tag `[COMPROU]`, which `parse_tags` has removed, and never fails. A
  reply rejected for its punctuation is rejected as a repetition if it comes back with the same words, because
  rejected replies stay among the messages. A turn that breaks off lets an older confirmation count for the link. A
  rejection in silence leaves its attempt to the next turn and the lead without an answer. A retry that is empty is
  not counted and runs again until the recursion limit.
* Sending. The reply is in the chat before it is sent, and stays there if none of its bubbles comes or a flow was
  sent. A lost answer doubles a bubble; an exception of the typing before it drops one. After a simulation the
  lead's thread is mute. The last resort of the chunking, "Espaços (último recurso)" (`tools.py:139`), does not
  exist: a piece without a comma stays as long as it is.
* Time. A relative time loses its last minute, "depois de amanhã" is read as "amanhã", "amanhã" without a clock time
  is 9:00 because "manhã" is inside it, and the model's `horario_explicito` goes before the message's own time. STOP
  becomes SCHEDULED if the message names a time.
* History. The history is added to the checkpoint's messages in every turn; a summary without text drops what it
  should have covered.
* Configuration. A row fetched before an edit is cached after its invalidation, for one TTL; two editors of
  different sections lose one of them.

## 6. Not modelled

* Prompts, wording and what the models say: a free choice. `tenant_resolver`, `load_system_prompt` and `retrieve`
  only put text into the prompt. Tool calls are off by default. Which specialist answers is not told apart.
* The tenant cache: a dictionary with a TTL of 300 s and no invalidation; nothing can interleave between its look and
  its fill but a second identical fetch. The flow registry's cache has no await at all.
* Where regular expressions split a text, and how long the bot seems to type: the pieces are given, the delays are
  not looked at. The supervisor's checks of one reply alone (phrases, prices, length) are one free choice per text.
* The panel's CRUD, views, authentication, CSRF and rate limits; creating and connecting instances: one request, or
  one comparison, each. Retrieval, transcription, bootstrap, self check, scripts and deployment files: I/O without
  state of their own.
* The choice of the checkpointer's backend: the models take a checkpoint that lasts. Redis fails only in
  `RedisClient`, which is sequential; a failing Redis under the interleavings of `InboxPipeline` is not modelled.
* `features/` repeats code of `agent/` and nothing under `agent/` uses it.

## 7. Plan

Done: the message path, follow-ups, the turn in its three views, the stores, and proofs of every safety property that
a run checks. What remains, in order:

1. The composition of InboxPipeline and QueueWorker: from delivery to turn, with the unread buffer of `Delivery`.
2. An abstract specification of a turn that `GraphTurn` and `Delivery` implement together.
3. `RedisClient` under concurrent operations, and the queue and lock over it.
4. Tool calls of the specialists, for when they are switched on.

## 8. Running

    tlc -workers 2 -config MCFollowUp.cfg MCFollowUp
    tlapm Graph_proofs.tla

Each `.cfg` belongs to the MC module that `PROJECT.json` names for it. The longest runs (`conversation`,
`strategist`, `delivery`) take one to three minutes on two cores; the largest proofs (`Inbox_proofs`,
`Delivery_proofs`) several minutes each, the others less.
