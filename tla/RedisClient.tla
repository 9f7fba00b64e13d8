----------------------------- MODULE RedisClient -----------------------------
(***************************************************************************)
(* RedisStore._cmd and its process-local fallback, redis_store.py.  When   *)
(* Upstash is not configured every command is run by _local_cmd on a       *)
(* dictionary of the process; when it is, each command that fails is, on   *)
(* its own.  The operations that use it here are those whose commands can  *)
(* be torn apart: the inbox of one lead with its index, the deduplication  *)
(* and the follow-up counter.                                              *)
(*                                                                         *)
(* Operations come one after the other (InboxPipeline has the interleavings*)
(* with a Redis that does not fail).  Values are sequences: the items of a *)
(* list, or the one number or string of a key; <<>> is no key.             *)
(***************************************************************************)
EXTENDS Integers, Sequences, FiniteSets, SequencesExt

CONSTANTS
  Message,     \* messages of the lead
  Modes,       \* whether Upstash is configured: a set of Booleans
  Ttl,         \* EX or EXPIRE of each kind of key: [inbox, attempts, dedup]
  MaxTime,     \* bound: the clock
  MaxArrivals, \* bound: calls of the webhook
  MaxCounts,   \* bound: uses of the counter
  MaxFaults    \* bound: commands that fail, and restarts

ListKey == {"inbox", "index"}
Key == ListKey \cup {"attempts"} \cup Message

ASSUME RedisClientAssumption ==
  /\ Message \cap (ListKey \cup {"attempts"}) = {}
  /\ Modes \subseteq BOOLEAN
  /\ Ttl \in [{"inbox", "attempts", "dedup"} -> Nat \ {0}]
  /\ {MaxTime, MaxArrivals, MaxCounts, MaxFaults} \subseteq Nat

VARIABLES
  configured,
  redis,      \* what Upstash holds; if not configured, what a Redis would hold
  local,      \* self._fallback of the process
  now,
  op,         \* the operation under way: [name, step, msg, held]
  \* history and bounds
  arrivals, counts, faults,
  accepted,   \* messages the webhook has taken
  delivered,  \* how often each was handed to the queue
  blind,      \* a drain's LRANGE of the inbox has been answered by the fallback instead
  outlived    \* keys of the fallback that were there beyond their time

clientVars == <<configured, redis, local, now, op, arrivals, counts, faults, accepted, delivered, blind, outlived>>

Never == MaxTime + Ttl.inbox + Ttl.attempts + Ttl.dedup + 1
NoEntry == [value |-> <<>>, exp |-> Never]
Nil == <<>>

Command(name, key, arg, ttl) == [name |-> name, key |-> key, arg |-> arg, ttl |-> ttl]
Put(s, key, value, exp) == [s EXCEPT ![key] = [value |-> value, exp |-> exp]]
Without(list, item) == SelectSeq(list, LAMBDA v : v # item)

-----------------------------------------------------------------------------
(* What a command does to a store and what it answers. *)

\* Redis, which drops a key when its time is over.
RedisAfter(s, c) ==
  LET value == s[c.key].value
      exp == IF value = <<>> THEN Never ELSE s[c.key].exp
  IN  CASE c.name = "SETNX" /\ value = <<>> -> Put(s, c.key, c.arg, now + c.ttl)
        [] c.name = "DEL" -> [s EXCEPT ![c.key] = NoEntry]
        [] c.name = "LPUSH" -> Put(s, c.key, c.arg \o value, exp)
        [] c.name = "LREM" -> LET rest == Without(value, c.arg[1])
                              IN  IF rest = <<>> THEN [s EXCEPT ![c.key] = NoEntry] ELSE Put(s, c.key, rest, exp)
        [] c.name = "INCR" -> Put(s, c.key, <<IF value = <<>> THEN 1 ELSE value[1] + 1>>, exp)
        [] c.name = "EXPIRE" /\ value # <<>> -> Put(s, c.key, value, now + c.ttl)
        [] OTHER -> s

RedisReply(s, c) ==
  LET value == s[c.key].value
  IN  CASE c.name = "SETNX" -> IF value = <<>> THEN <<"OK">> ELSE Nil
        [] c.name = "LINDEX" -> IF value = <<>> THEN Nil ELSE <<value[1]>>
        [] c.name \in {"LRANGE", "GET"} -> value
        [] OTHER -> <<"OK">>

\* The fallback: GET and SET NX look at the time, the others do not; a list that LREM
\* empties stays as an empty list, with the time it had.
Expired(e) == e.value # <<>> /\ e.exp <= now

\* Faulty: SET NX does not look at the time.
LocalAfterUntimed(s, c) ==
  IF c.name = "GET" /\ Expired(s[c.key]) THEN [s EXCEPT ![c.key] = NoEntry] ELSE RedisAfter(s, c)

LocalAfter(s, c) ==
  CASE c.name = "GET" /\ Expired(s[c.key]) -> [s EXCEPT ![c.key] = NoEntry]
    [] c.name = "SETNX" /\ Expired(s[c.key]) -> RedisAfter([s EXCEPT ![c.key] = NoEntry], c)
    [] c.name = "LREM" -> [s EXCEPT ![c.key].value = Without(@, c.arg[1])]
    [] c.name = "LPUSH" -> [s EXCEPT ![c.key].value = c.arg \o @]
    [] c.name = "EXPIRE" /\ s[c.key] # NoEntry -> [s EXCEPT ![c.key].exp = now + c.ttl]
    [] OTHER -> RedisAfter(s, c)

\* LINDEX is not among the commands of the fallback, which answers None then.
LocalReply(s, c) ==
  CASE c.name = "LINDEX" -> Nil
    [] c.name \in {"GET", "SETNX"} /\ Expired(s[c.key]) -> RedisReply([s EXCEPT ![c.key] = NoEntry], c)
    [] OTHER -> RedisReply(s, c)

\* A command that fails has reached Redis, or has not; the fallback answers it.
Outcomes(c) ==
  LET fallen(r, f) == [redis |-> r, local |-> LocalAfter(local, c), faults |-> f, reply |-> LocalReply(local, c)]
      answered == [redis |-> RedisAfter(redis, c), local |-> local, faults |-> faults, reply |-> RedisReply(redis, c)]
  IN  CASE ~configured -> {fallen(RedisAfter(redis, c), faults)}
        [] configured /\ faults = MaxFaults -> {answered}
        [] OTHER -> {answered, fallen(redis, faults + 1), fallen(RedisAfter(redis, c), faults + 1)}

-----------------------------------------------------------------------------
(* The operations, as the commands they send. *)

\* mark_message_processed and push_inbox.
PushScript(m) ==
  <<Command("SETNX", m, <<"1">>, Ttl.dedup),
    Command("LPUSH", "inbox", <<m>>, 0), Command("EXPIRE", "inbox", <<>>, Ttl.inbox),
    Command("LREM", "index", <<"lead">>, 0), Command("LPUSH", "index", <<"lead">>, 0),
    Command("EXPIRE", "index", <<>>, Ttl.inbox)>>

\* Faulty: the inbox is left to its expiry.
DrainScriptWithoutDel ==
  <<Command("LRANGE", "index", <<>>, 0), Command("LINDEX", "inbox", <<>>, 0),
    Command("LRANGE", "inbox", <<>>, 0), Command("LREM", "index", <<"lead">>, 0)>>

\* Faulty: the inbox is deleted before it is read.
DrainScriptDelFirst ==
  <<Command("LRANGE", "index", <<>>, 0), Command("LINDEX", "inbox", <<>>, 0),
    Command("DEL", "inbox", <<>>, 0), Command("LRANGE", "inbox", <<>>, 0),
    Command("LREM", "index", <<"lead">>, 0)>>

\* list_active_inbox_leads, peek_inbox_newest_ts and drain_inbox.
DrainScript ==
  <<Command("LRANGE", "index", <<>>, 0), Command("LINDEX", "inbox", <<>>, 0),
    Command("LRANGE", "inbox", <<>>, 0), Command("DEL", "inbox", <<>>, 0),
    Command("LREM", "index", <<"lead">>, 0)>>

\* increment_, get_ and reset_follow_up_attempts.
CounterScript(name) ==
  CASE name = "count" -> <<Command("INCR", "attempts", <<>>, 0), Command("EXPIRE", "attempts", <<>>, Ttl.attempts)>>
    [] name = "read" -> <<Command("GET", "attempts", <<>>, 0)>>
    [] name = "reset" -> <<Command("DEL", "attempts", <<>>, 0)>>

Script(name, m) ==
  IF name = "push" THEN PushScript(m) ELSE IF name = "drain" THEN DrainScript ELSE CounterScript(name)

NoOp == [name |-> "none", step |-> 0, msg |-> "none", held |-> <<>>]
Starts(name, m) == op = NoOp /\ op' = [name |-> name, step |-> 1, msg |-> m, held |-> <<>>]

ClientInit ==
  /\ configured \in Modes
  /\ redis = [k \in Key |-> NoEntry] /\ local = [k \in Key |-> NoEntry]
  /\ now = 0
  /\ op = NoOp
  /\ arrivals = 0 /\ counts = 0 /\ faults = 0
  /\ accepted = {}
  /\ delivered = [m \in Message |-> 0]
  /\ blind = FALSE /\ outlived = {}

stores == <<configured, redis, local, faults>>

\* The webhook, also a repeated call for the same message.
Arrive(m) ==
  /\ arrivals < MaxArrivals /\ arrivals' = arrivals + 1
  /\ Starts("push", m)
  /\ UNCHANGED <<stores, now, counts, accepted, delivered, blind, outlived>>

\* The drainer's next pass.
StartDrain ==
  /\ Starts("drain", "none")
  /\ UNCHANGED <<stores, now, arrivals, counts, accepted, delivered, blind, outlived>>

UseCounter(name) ==
  /\ counts < MaxCounts /\ counts' = counts + 1
  /\ Starts(name, "none")
  /\ UNCHANGED <<stores, now, arrivals, accepted, delivered, blind, outlived>>

\* A duplicate, an inbox that is not listed, one whose newest message is not to be had.
GivesUp(reply) == reply = Nil /\ <<op.name, op.step>> \in {<<"push", 1>>, <<"drain", 1>>, <<"drain", 2>>}

Times(m, s) == Cardinality({i \in DOMAIN s : s[i] = m})

\* The next command of the operation.
Step ==
  /\ op # NoOp
  /\ LET script == Script(op.name, op.msg)
         c == script[op.step]
     IN  \E o \in Outcomes(c) :
           LET reads == <<op.name, c.name, c.key>> = <<"drain", "LRANGE", "inbox">>
               held == IF reads THEN o.reply ELSE op.held
           IN  /\ redis' = o.redis /\ local' = o.local /\ faults' = o.faults
               /\ op' = IF GivesUp(o.reply) \/ op.step = Len(script) THEN NoOp
                        ELSE [op EXCEPT !.step = @ + 1, !.held = held]
               /\ accepted' = IF op.name = "push" /\ ~GivesUp(o.reply) THEN accepted \cup {op.msg} ELSE accepted
               /\ delivered' = IF op.name = "drain" /\ op.step = Len(script)
                               THEN [m \in Message |-> delivered[m] + Times(m, held)]
                               ELSE delivered
               /\ blind' = (blind \/ (reads /\ o.faults > faults))
  /\ UNCHANGED <<configured, now, arrivals, counts, outlived>>

\* The process starts again, and its dictionary is empty.
RestartClient ==
  /\ op = NoOp /\ faults < MaxFaults /\ faults' = faults + 1
  /\ local' = [k \in Key |-> NoEntry]
  /\ UNCHANGED <<configured, redis, now, op, arrivals, counts, accepted, delivered, blind, outlived>>

Tick ==
  /\ op = NoOp /\ now < MaxTime /\ now' = now + 1
  /\ redis' = [k \in Key |-> IF redis[k].exp <= now' THEN NoEntry ELSE redis[k]]
  /\ outlived' = outlived \cup {k \in Key \ Message : local[k].value # <<>> /\ local[k].exp <= now'}
  /\ UNCHANGED <<configured, local, op, arrivals, counts, faults, accepted, delivered, blind>>

ClientNext ==
  \/ \E m \in Message : Arrive(m)
  \/ \E name \in {"count", "read", "reset"} : UseCounter(name)
  \/ StartDrain \/ Step \/ RestartClient \/ Tick

ClientSpec == ClientInit /\ [][ClientNext]_clientVars

-----------------------------------------------------------------------------
(* Properties *)

(***************************************************************************)
(* redis_store.py:82-252: without Upstash the fallback holds what a Redis  *)
(* would hold, key by key, until a list or a counter outlives its time.    *)
(* (What LINDEX answers is another matter.)                                *)
(***************************************************************************)
LocalHoldsWhatRedisWould ==
  ~configured /\ faults = 0 =>
    \A k \in Key \ outlived :
      redis[k].value = IF k \notin ListKey /\ Expired(local[k]) THEN <<>> ELSE local[k].value

(***************************************************************************)
(* redis_store.py:77, degrading command by command: while its deduplication*)
(* key lives, a message is handed on more than once only if commands fail: *)
(* some that let it be pushed once more, the others so that what is in a   *)
(* list is handed on once more.                                            *)
(***************************************************************************)
RepeatedOnlyByFaults ==
  now < Ttl.dedup =>
    \A m \in Message : \E again \in 0..faults : delivered[m] <= (1 + again) * (1 + faults - again)

(***************************************************************************)
(* While nothing expires, an accepted message stays in one of the two      *)
(* stores until it is handed on, unless a drain whose LRANGE failed takes  *)
(* the inbox for empty and deletes it, or two things fail: its push goes to*)
(* the fallback, and a DEL of a drain, or a restart, removes it unread.    *)
(***************************************************************************)
Kept(m) ==
  \/ m \in ToSet(redis["inbox"].value) \cup ToSet(local["inbox"].value) \cup ToSet(op.held)
  \/ op.name = "push" /\ op.msg = m
LostOnlyByFaults ==
  now < Ttl.inbox => \A m \in accepted : delivered[m] > 0 \/ Kept(m) \/ blind \/ faults >= 2
=============================================================================
