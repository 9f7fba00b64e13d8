----------------------------- MODULE QueueWorker -----------------------------
(***************************************************************************)
(* The global queue and its workers: main.py _queue_worker_loop and        *)
(* _process_queued with the queue and the lock of redis_store.py.  A worker*)
(* pops one payload, drops it if it is stale, waits the anti-ban delay,    *)
(* takes the lead's lock and runs one turn of the graph under it.          *)
(*                                                                         *)
(* Time passes in Tick; a step that the code takes without waiting comes   *)
(* before the next Tick.  The polls, the half second after a defer and the *)
(* Redis calls are shorter than a unit.  The graph is one step that takes  *)
(* up to MaxTurn; whether it answers or raises makes no difference here.   *)
(* What follows it (tracking, follow-up scheduling) is FollowUp's.         *)
(***************************************************************************)
EXTENDS Integers, Sequences

CONSTANTS
  Lead,        \* the leads
  Worker,      \* processes that run _queue_worker_loop on the same Redis
  MaxStale,    \* QUEUE_MAX_STALE_SECONDS
  LockTTL,     \* EX of the lock
  MinDelay,    \* the shortest delay of any SCHED_DELAY profile; 0 when switched off
  MaxDelay,    \* the longest one
  MaxTurn,     \* the longest turn of the graph
  MaxDefers,   \* defers after which a payload is dropped
  MaxPayloads, \* bound: payloads ever enqueued
  MaxStops     \* bound: how often a process stops or crashes

ASSUME WorkerAssumption ==
  /\ {MaxStale, LockTTL, MinDelay, MaxDelay, MaxTurn, MaxDefers, MaxPayloads, MaxStops} \subseteq Nat
  /\ LockTTL > 0
  /\ MinDelay <= MaxDelay

VARIABLES
  queue,       \* queue:messages, next to pop first
  lock,        \* lock[l]: time the key lock:l still lives, 0 if there is none
  worker,      \* worker[w]: [pc, msg, left]
  served,      \* the processes that have been through _process_queued
  stops,
  quiet,       \* time since the last turn of any worker, at most MinDelay
  fate         \* the payloads enqueued so far: what became of each

vars == <<queue, lock, worker, served, stops, quiet, fate>>

\* Ages above MaxAge are not told apart: no payload that old is served.
MaxAge == MaxStale + MaxDelay + 1
Payload == [id : 1..MaxPayloads, lead : Lead, age : 0..MaxAge, defers : 0..MaxDefers]
Nothing == [id |-> 0]

\* "poll": about to pop; "contended": the lock was taken; "run": in the graph;
\* "release": the graph is over, the lock not yet given back.
Pc == {"poll", "delay", "acquire", "contended", "run", "release", "down"}
Fresh == [pc |-> "poll", msg |-> Nothing, left |-> 0]
Fate == {"waiting", "turn", "stale", "dropped", "lost"}

Init ==
  /\ queue = <<>>
  /\ lock = [l \in Lead |-> 0]
  /\ worker = [w \in Worker |-> Fresh]
  /\ served = {}
  /\ stops = 0
  /\ quiet = MinDelay
  /\ fate = <<>>

\* The end of _process_queued.
Polls(w) == worker' = [worker EXCEPT ![w] = Fresh] /\ served' = served \cup {w}
Goes(w, pc) == worker' = [worker EXCEPT ![w].pc = pc]
Ends(m, how) == fate' = [fate EXCEPT ![m.id] = how]

-----------------------------------------------------------------------------
\* enqueue_message by the drainer or by trigger_followup: LPUSH.
Enqueue(l) ==
  /\ Len(fate) < MaxPayloads
  /\ queue' = Append(queue, [id |-> Len(fate) + 1, lead |-> l, age |-> 0, defers |-> 0])
  /\ fate' = Append(fate, "waiting")
  /\ UNCHANGED <<lock, worker, served, stops, quiet>>

\* RPOP of a payload that waited too long.
DequeueStale(w) ==
  /\ worker[w].pc = "poll" /\ queue # <<>>
  /\ Head(queue).age > MaxStale
  /\ queue' = Tail(queue)
  /\ Ends(Head(queue), "stale")
  /\ UNCHANGED <<lock, worker, served, stops, quiet>>

\* Faulty: the age is not looked at.
DequeueAnyAge(w) ==
  /\ worker[w].pc = "poll" /\ queue # <<>>
  /\ queue' = Tail(queue)
  /\ \E d \in (IF w \in served THEN MinDelay..MaxDelay ELSE {0}) :
       worker' = [worker EXCEPT ![w].pc = "delay", ![w].msg = Head(queue), ![w].left = d]
  /\ UNCHANGED <<lock, served, stops, quiet, fate>>

\* Faulty: the sampled delay is not clamped from below.
DequeueUnclamped(w) ==
  /\ worker[w].pc = "poll" /\ queue # <<>>
  /\ Head(queue).age <= MaxStale
  /\ queue' = Tail(queue)
  /\ \E d \in (IF w \in served THEN 0..MaxDelay ELSE {0}) :
       worker' = [worker EXCEPT ![w].pc = "delay", ![w].msg = Head(queue), ![w].left = d]
  /\ UNCHANGED <<lock, served, stops, quiet, fate>>

\* RPOP of a payload to serve; only the first one of a process is not delayed.
Dequeue(w) ==
  /\ worker[w].pc = "poll" /\ queue # <<>>
  /\ Head(queue).age <= MaxStale
  /\ queue' = Tail(queue)
  /\ \E d \in (IF w \in served THEN MinDelay..MaxDelay ELSE {0}) :
       worker' = [worker EXCEPT ![w].pc = "delay", ![w].msg = Head(queue), ![w].left = d]
  /\ UNCHANGED <<lock, served, stops, quiet, fate>>

DelayOver(w) ==
  /\ worker[w].pc = "delay" /\ worker[w].left = 0
  /\ Goes(w, "acquire")
  /\ UNCHANGED <<queue, lock, served, stops, quiet, fate>>

\* Faulty: SET without NX.
AcquireAlways(w) ==
  /\ worker[w].pc = "acquire"
  /\ lock' = [lock EXCEPT ![worker[w].msg.lead] = LockTTL]
  /\ \E d \in 0..MaxTurn : worker' = [worker EXCEPT ![w].pc = "run", ![w].left = d]
  /\ UNCHANGED <<queue, served, stops, quiet, fate>>

\* Faulty: the expiry is ten times too long.
AcquireTooLong(w) ==
  /\ worker[w].pc = "acquire"
  /\ lock[worker[w].msg.lead] = 0
  /\ lock' = [lock EXCEPT ![worker[w].msg.lead] = 10 * LockTTL]
  /\ \E d \in 0..MaxTurn : worker' = [worker EXCEPT ![w].pc = "run", ![w].left = d]
  /\ UNCHANGED <<queue, served, stops, quiet, fate>>

\* SET NX EX of the lock: taken, or left to whoever holds it.
Acquire(w) ==
  /\ worker[w].pc = "acquire"
  /\ lock[worker[w].msg.lead] = 0
  /\ lock' = [lock EXCEPT ![worker[w].msg.lead] = LockTTL]
  /\ \E d \in 0..MaxTurn : worker' = [worker EXCEPT ![w].pc = "run", ![w].left = d]
  /\ UNCHANGED <<queue, served, stops, quiet, fate>>

Contend(w) ==
  /\ worker[w].pc = "acquire"
  /\ lock[worker[w].msg.lead] > 0
  /\ Goes(w, "contended")
  /\ UNCHANGED <<queue, lock, served, stops, quiet, fate>>

\* Faulty: the payload is not pushed back.
DeferForgetting(w) ==
  /\ worker[w].pc = "contended" /\ worker[w].msg.defers < MaxDefers
  /\ Polls(w)
  /\ UNCHANGED <<queue, lock, stops, quiet, fate>>

\* defer_message: to the end of the queue, with its first enqueue time.
Defer(w) ==
  /\ worker[w].pc = "contended" /\ worker[w].msg.defers < MaxDefers
  /\ queue' = Append(queue, [worker[w].msg EXCEPT !.defers = @ + 1])
  /\ Polls(w)
  /\ UNCHANGED <<lock, stops, quiet, fate>>

\* Too many defers: the lock is taken for a zombie and deleted, the payload dropped.
Drop(w) ==
  /\ worker[w].pc = "contended" /\ worker[w].msg.defers >= MaxDefers
  /\ lock' = [lock EXCEPT ![worker[w].msg.lead] = 0]
  /\ Ends(worker[w].msg, "dropped")
  /\ Polls(w)
  /\ UNCHANGED <<queue, stops, quiet>>

\* The graph answers, or raises: the loop logs the exception.
TurnOver(w) ==
  /\ worker[w].pc = "run" /\ worker[w].left = 0
  /\ Ends(worker[w].msg, "turn")
  /\ Goes(w, "release")
  /\ quiet' = 0
  /\ UNCHANGED <<queue, lock, served, stops>>

\* finally: DEL of the lock, whoever holds it by now.
Release(w) ==
  /\ worker[w].pc = "release"
  /\ lock' = [lock EXCEPT ![worker[w].msg.lead] = 0]
  /\ Polls(w)
  /\ UNCHANGED <<queue, stops, quiet, fate>>

-----------------------------------------------------------------------------
Holding(w) == worker[w].pc \in {"delay", "acquire", "contended", "run"}

\* The process of w ends; the payload it holds is gone from Redis.
GoesDown(w) ==
  /\ worker[w].pc # "down" /\ stops < MaxStops
  /\ stops' = stops + 1
  /\ IF Holding(w) THEN Ends(worker[w].msg, "lost") ELSE UNCHANGED fate
  /\ quiet' = IF worker[w].pc = "run" THEN 0 ELSE quiet
  /\ worker' = [worker EXCEPT ![w] = [Fresh EXCEPT !.pc = "down"]]
  /\ served' = served \ {w}
  /\ UNCHANGED queue

\* A crash: its lock stays until the TTL.
Crash(w) == GoesDown(w) /\ UNCHANGED lock

\* The lifespan ends: the task is cancelled, and its finally gives the lock back.
Shutdown(w) ==
  /\ GoesDown(w)
  /\ lock' = IF worker[w].pc \in {"run", "release"}
             THEN [lock EXCEPT ![worker[w].msg.lead] = 0]
             ELSE lock

Restart(w) ==
  /\ worker[w].pc = "down"
  /\ worker' = [worker EXCEPT ![w] = Fresh]
  /\ UNCHANGED <<queue, lock, served, stops, quiet, fate>>

\* Nothing is left to do at this instant; a process may be down for a while.
Idle(w) ==
  \/ worker[w].pc = "poll" /\ queue = <<>>
  \/ worker[w].pc \in {"delay", "run"} /\ worker[w].left > 0
  \/ worker[w].pc = "down"

Up(n, top) == IF n < top THEN n + 1 ELSE top
Down(n) == IF n > 0 THEN n - 1 ELSE 0
Older(m) == [m EXCEPT !.age = Up(@, MaxAge)]

Tick ==
  /\ \A w \in Worker : Idle(w)
  /\ queue' = [i \in DOMAIN queue |-> Older(queue[i])]
  /\ lock' = [l \in Lead |-> Down(lock[l])]
  /\ worker' = [w \in Worker |->
       IF Holding(w) THEN [worker[w] EXCEPT !.left = @ - 1, !.msg = Older(@)] ELSE worker[w]]
  /\ quiet' = Up(quiet, MinDelay)
  /\ UNCHANGED <<served, stops, fate>>

Step(w) ==
  \/ DequeueStale(w) \/ Dequeue(w) \/ DelayOver(w) \/ Acquire(w) \/ Contend(w)
  \/ Defer(w) \/ Drop(w) \/ TurnOver(w) \/ Release(w)

Next ==
  \/ \E l \in Lead : Enqueue(l)
  \/ \E w \in Worker : Step(w) \/ Crash(w) \/ Shutdown(w) \/ Restart(w)
  \/ Tick

Spec == Init /\ [][Next]_vars

\* A loop that can go on does, time passes, and a stopped container is started again.
FairSpec ==
  /\ Spec
  /\ WF_vars(Tick)
  /\ \A w \in Worker : WF_vars(Step(w)) /\ WF_vars(Restart(w))

-----------------------------------------------------------------------------
(* Properties *)

TypeOK ==
  /\ queue \in Seq(Payload)
  /\ lock \in [Lead -> 0..LockTTL]
  /\ worker \in [Worker -> [pc : Pc, msg : Payload \cup {Nothing},
                            left : 0..(MaxDelay + MaxTurn)]]
  /\ served \subseteq Worker
  /\ \A w \in Worker : Holding(w) \/ worker[w].pc = "release" => worker[w].msg # Nothing
  /\ stops \in 0..MaxStops
  /\ quiet \in 0..MinDelay
  /\ fate \in Seq(Fate)

(***************************************************************************)
(* README.md:21 "Redis lock prevents concurrent graph runs on the same     *)
(* conversation".  Two processes never run the graph for one lead at once. *)
(***************************************************************************)
OneTurnPerLead ==
  \A v, w \in Worker :
    worker[v].pc = "run" /\ worker[w].pc = "run" /\ worker[v].msg.lead = worker[w].msg.lead
      => v = w

(***************************************************************************)
(* The lock of a dead process is the only one the single worker can meet,  *)
(* and it expires during the delay: a payload is deferred at most once for *)
(* each stop, so the drop after MaxDefers defers, which throws a lead's    *)
(* message away, needs that many crashes.                                  *)
(***************************************************************************)
DefersBoundedByStops ==
  /\ \A i \in DOMAIN queue : queue[i].defers <= stops
  /\ \A w \in Worker : Holding(w) => worker[w].msg.defers <= stops

(***************************************************************************)
(* main.py:54 discards what waited too long.  The age is looked at before  *)
(* the delay and defers keep the first enqueue time, so a turn starts at   *)
(* most one delay later than that.                                         *)
(***************************************************************************)
AnswerAgeBound ==
  [][\A w \in Worker : worker[w].pc = "acquire" /\ worker'[w].pc = "run"
       => worker[w].msg.age <= MaxStale + MaxDelay]_vars

(***************************************************************************)
(* The anti-ban pause: a process that has served a payload starts no turn  *)
(* before MinDelay has passed since the last turn ended, whatever stale    *)
(* payloads, defers and drops come in between.                             *)
(***************************************************************************)
PacedTurns ==
  [][\A w \in Worker : w \in served /\ worker[w].pc = "acquire" /\ worker'[w].pc = "run"
       => quiet >= MinDelay]_vars

(***************************************************************************)
(* No payload is forgotten: whatever is enqueued gets its turn, or is      *)
(* discarded, dropped or lost in a stop.                                   *)
(***************************************************************************)
EveryPayloadResolved ==
  \A i \in 1..MaxPayloads :
    (i \in DOMAIN fate /\ fate[i] = "waiting") ~> (i \in DOMAIN fate /\ fate[i] # "waiting")
=============================================================================
