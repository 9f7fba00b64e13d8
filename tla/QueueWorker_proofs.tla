-------------------------- MODULE QueueWorker_proofs --------------------------
(***************************************************************************)
(* For any number of leads and payloads and any limits: the types of       *)
(* QueueWorker, the age of what is answered, and, with the one worker that *)
(* the deployment has, the pause between turns and the bound on defers.    *)
(* For two workers the lock does its work under three assumptions that the *)
(* theorem names.                                                          *)
(***************************************************************************)
EXTENDS QueueWorker, SequenceTheorems, TLAPS

Process == [pc : Pc, msg : Payload \cup {Nothing}, left : 0..(MaxDelay + MaxTurn)]

-----------------------------------------------------------------------------
(* Numbers and payloads. *)

\* The bounds are natural numbers.
LEMMA Bounds ==
  /\ MaxStale \in Nat /\ LockTTL \in Nat /\ MinDelay \in Nat /\ MaxDelay \in Nat
  /\ MaxTurn \in Nat /\ MaxDefers \in Nat /\ MaxPayloads \in Nat /\ MaxStops \in Nat
  /\ LockTTL > 0 /\ MinDelay <= MaxDelay
  /\ MaxAge \in Nat /\ MaxAge = MaxStale + MaxDelay + 1
BY WorkerAssumption DEF MaxAge

\* A payload has an id above zero.
LEMMA NothingIsNoPayload == Nothing \notin Payload
<1> SUFFICES ASSUME Nothing \in Payload PROVE FALSE
  OBVIOUS
<1>1. Nothing.id \in 1..MaxPayloads
  BY DEF Payload
<1>2. Nothing.id = 0
  BY DEF Nothing
<1> QED
  BY <1>1, <1>2, Bounds

\* Time makes a payload older by at most one unit and changes nothing else.
LEMMA OlderPayload ==
  ASSUME NEW m \in Payload
  PROVE  /\ Older(m) \in Payload
         /\ Older(m).lead = m.lead /\ Older(m).id = m.id /\ Older(m).defers = m.defers
         /\ Older(m).age \in Nat /\ m.age \in Nat /\ Older(m).age <= m.age + 1
<1> USE Bounds
<1>1. m.age \in 0..MaxAge
  BY DEF Payload
<1>2. Up(m.age, MaxAge) \in 0..MaxAge /\ Up(m.age, MaxAge) <= m.age + 1
  BY <1>1 DEF Up
<1>3. Older(m) = [m EXCEPT !.age = Up(m.age, MaxAge)]
  BY DEF Older
<1> QED
  BY <1>1, <1>2, <1>3 DEF Payload

\* A payload deferred once more.
LEMMA DeferredPayload ==
  ASSUME NEW m \in Payload, m.defers < MaxDefers
  PROVE  /\ [m EXCEPT !.defers = @ + 1] \in Payload
         /\ [m EXCEPT !.defers = @ + 1].defers = m.defers + 1
  BY Bounds DEF Payload

\* What becomes of a payload is noted in the history.
LEMMA EndsType ==
  ASSUME fate \in Seq(Fate), NEW m, NEW how \in Fate, Ends(m, how)
  PROVE  fate' \in Seq(Fate)
<1>1. fate \in [1..Len(fate) -> Fate] /\ Len(fate) \in Nat
  OBVIOUS
<1>2. fate' \in [1..Len(fate) -> Fate]
  BY <1>1 DEF Ends
<1> QED
  BY <1>1, <1>2, SeqDef

-----------------------------------------------------------------------------
(* Types. *)

\* The parts of the type that the steps of time are about.
LEMMA Parts ==
  ASSUME TypeOK
  PROVE  /\ queue \in Seq(Payload) /\ lock \in [Lead -> 0..LockTTL] /\ worker \in [Worker -> Process]
         /\ served \subseteq Worker /\ stops \in 0..MaxStops /\ quiet \in 0..MinDelay
         /\ fate \in Seq(Fate)
  BY Zenon DEF TypeOK, Process

\* A process that goes on holds what it held.
LEMMA GoesType ==
  ASSUME TypeOK, NEW w \in Worker, NEW pc \in Pc, Goes(w, pc)
  PROVE  /\ worker' \in [Worker -> Process]
         /\ worker'[w].pc = pc /\ worker'[w].msg = worker[w].msg /\ worker'[w].left = worker[w].left
         /\ \A x \in Worker \ {w} : worker'[x] = worker[x]
  BY DEF TypeOK, Goes, Process

\* A process that is done with its payload holds none.
LEMMA PollsType ==
  ASSUME TypeOK, NEW w \in Worker, Polls(w)
  PROVE  /\ worker' \in [Worker -> Process] /\ served' \subseteq Worker
         /\ worker'[w] = Fresh
         /\ \A x \in Worker \ {w} : worker'[x] = worker[x]
<1>1. Fresh \in Process
  BY Bounds, SMT DEF Fresh, Process, Pc
<1> HIDE DEF Fresh
<1> QED
  BY <1>1 DEF TypeOK, Polls, Process

\* The initial states have the types.
LEMMA TypeInit == Init => TypeOK
<1> SUFFICES ASSUME Init PROVE TypeOK
  OBVIOUS
<1> USE Bounds DEF Init
<1>1. Fresh \in Process
  BY SMT DEF Fresh, Process, Pc
<1>2. worker \in [Worker -> Process] /\ \A w \in Worker : worker[w].pc = "poll"
  BY <1>1 DEF Fresh
<1>3. /\ queue \in Seq(Payload) /\ lock \in [Lead -> 0..LockTTL] /\ served \subseteq Worker
      /\ stops \in 0..MaxStops /\ quiet \in 0..MinDelay /\ fate \in Seq(Fate)
  OBVIOUS
<1> QED
  BY <1>2, <1>3 DEF TypeOK, Process, Holding


\* A process that takes the next payload waits for d.
LEMMA DequeueType ==
  ASSUME TypeOK, NEW w \in Worker, Dequeue(w)
  PROVE  \E d \in (IF w \in served THEN MinDelay..MaxDelay ELSE {0}) :
           /\ d \in 0..MaxDelay
           /\ worker' \in [Worker -> Process] /\ Head(queue) \in Payload /\ Head(queue) # Nothing
           /\ worker'[w] = [pc |-> "delay", msg |-> Head(queue), left |-> d]
           /\ \A x \in Worker \ {w} : worker'[x] = worker[x]
           /\ queue' \in Seq(Payload)
<1> USE Bounds
<1>1. queue \in Seq(Payload) /\ queue # << >> /\ worker \in [Worker -> Process]
  BY DEF TypeOK, Dequeue, Process
<1>2. Head(queue) \in Payload /\ Tail(queue) \in Seq(Payload)
  BY <1>1, HeadTailProperties
<1>3. PICK d \in (IF w \in served THEN MinDelay..MaxDelay ELSE {0}) :
        worker' = [worker EXCEPT ![w].pc = "delay", ![w].msg = Head(queue), ![w].left = d]
  BY Zenon DEF Dequeue
<1>4. d \in 0..MaxDelay /\ d \in 0..(MaxDelay + MaxTurn)
  BY <1>3
<1>5. worker'[w] = [pc |-> "delay", msg |-> Head(queue), left |-> d]
  BY <1>1, <1>3 DEF Process
<1>6. [pc |-> "delay", msg |-> Head(queue), left |-> d] \in Process
  BY <1>2, <1>4 DEF Process, Pc
<1>7. worker' \in [Worker -> Process] /\ \A x \in Worker \ {w} : worker'[x] = worker[x]
  BY <1>1, <1>3, <1>5, <1>6
<1>8. queue' \in Seq(Payload)
  BY <1>2 DEF Dequeue
<1> QED
  BY <1>2, <1>3, <1>4, <1>5, <1>7, <1>8, NothingIsNoPayload

\* A process that takes the lock runs for at most the longest turn.
LEMMA AcquireType ==
  ASSUME TypeOK, NEW w \in Worker, Acquire(w)
  PROVE  \E d \in 0..MaxTurn :
           /\ worker' \in [Worker -> Process]
           /\ worker'[w] = [pc |-> "run", msg |-> worker[w].msg, left |-> d]
           /\ \A x \in Worker \ {w} : worker'[x] = worker[x]
           /\ worker[w].msg \in Payload
           /\ lock[worker[w].msg.lead] = 0
           /\ lock' \in [Lead -> 0..LockTTL]
           /\ lock'[worker[w].msg.lead] = LockTTL
           /\ \A l \in Lead \ {worker[w].msg.lead} : lock'[l] = lock[l]
<1> USE Bounds
<1>1. worker \in [Worker -> Process] /\ lock \in [Lead -> 0..LockTTL] /\ worker[w].pc = "acquire"
  BY DEF TypeOK, Acquire, Process
<1>2. worker[w].msg \in Payload
  BY <1>1 DEF TypeOK, Holding, Process
<1>3. PICK d \in 0..MaxTurn : worker' = [worker EXCEPT ![w].pc = "run", ![w].left = d]
  BY Zenon DEF Acquire
<1>4. d \in 0..(MaxDelay + MaxTurn)
  BY <1>3
<1>5. worker'[w] = [pc |-> "run", msg |-> worker[w].msg, left |-> d]
  BY <1>1, <1>3 DEF Process
<1>6. [pc |-> "run", msg |-> worker[w].msg, left |-> d] \in Process
  BY <1>2, <1>4 DEF Process, Pc
<1>7. worker' \in [Worker -> Process] /\ \A x \in Worker \ {w} : worker'[x] = worker[x]
  BY <1>1, <1>3, <1>5, <1>6
<1>8. worker[w].msg.lead \in Lead
  BY <1>2 DEF Payload
<1>9. /\ lock[worker[w].msg.lead] = 0 /\ lock' \in [Lead -> 0..LockTTL]
      /\ lock'[worker[w].msg.lead] = LockTTL
      /\ \A l \in Lead \ {worker[w].msg.lead} : lock'[l] = lock[l]
  <2>1. lock' = [lock EXCEPT ![worker[w].msg.lead] = LockTTL] /\ lock[worker[w].msg.lead] = 0
    BY DEF Acquire
  <2>2. LockTTL \in 0..LockTTL
    OBVIOUS
  <2> QED
    BY <2>1, <2>2, <1>1, <1>8
<1> QED
  BY <1>2, <1>3, <1>5, <1>7, <1>9

\* A lock is given back, also one that somebody else holds.
LEMMA UnlockType ==
  ASSUME TypeOK, NEW l, lock' = [lock EXCEPT ![l] = 0]
  PROVE  /\ lock' \in [Lead -> 0..LockTTL]
         /\ \A k \in Lead : lock'[k] = IF k = l THEN 0 ELSE lock[k]
<1>1. lock \in [Lead -> 0..LockTTL] /\ 0 \in 0..LockTTL
  BY Parts, Bounds
<1> HIDE DEF TypeOK
<1>2. lock' = [k \in Lead |-> IF k = l THEN 0 ELSE lock[k]]
  BY <1>1, Zenon
<1> QED
  BY <1>1, <1>2

\* A process that stops loses its payload; its lock may stay.
LEMMA DownType ==
  ASSUME TypeOK, NEW w \in Worker, Crash(w) \/ Shutdown(w)
  PROVE  /\ worker' \in [Worker -> Process]
         /\ worker'[w].pc = "down"
         /\ \A x \in Worker \ {w} : worker'[x] = worker[x]
         /\ served' = served \ {w} /\ queue' = queue
         /\ stops < MaxStops /\ stops' = stops + 1 /\ stops' \in 1..MaxStops
         /\ quiet' \in 0..MinDelay /\ (quiet' = quiet \/ worker[w].pc = "run")
         /\ fate' \in Seq(Fate)
         /\ lock' \in [Lead -> 0..LockTTL] /\ \A l \in Lead : lock'[l] = lock[l] \/ lock'[l] = 0
<1> USE Bounds
<1>0. GoesDown(w)
  BY DEF Crash, Shutdown
<1>1. [Fresh EXCEPT !.pc = "down"] \in Process /\ [Fresh EXCEPT !.pc = "down"].pc = "down"
  BY SMT DEF Fresh, Process, Pc
<1>2. /\ worker' \in [Worker -> Process] /\ worker'[w].pc = "down"
      /\ \A x \in Worker \ {w} : worker'[x] = worker[x]
  <2> HIDE DEF Fresh
  <2> QED
    BY <1>0, <1>1 DEF GoesDown, TypeOK, Process
<1>3. fate' \in Seq(Fate)
  <2>1. fate' = fate \/ Ends(worker[w].msg, "lost")
    BY <1>0 DEF GoesDown
  <2>2. fate \in Seq(Fate) /\ "lost" \in Fate
    BY DEF TypeOK, Fate
  <2> QED
    BY <2>1, <2>2, EndsType
<1>4. lock' \in [Lead -> 0..LockTTL] /\ \A l \in Lead : lock'[l] = lock[l] \/ lock'[l] = 0
  <2>1. lock' = lock \/ lock' = [lock EXCEPT ![worker[w].msg.lead] = 0]
    BY DEF Crash, Shutdown
  <2>2. lock \in [Lead -> 0..LockTTL]
    BY DEF TypeOK
  <2> QED
    BY <2>1, <2>2, UnlockType
<1>5. /\ served' = served \ {w} /\ queue' = queue
      /\ stops < MaxStops /\ stops' = stops + 1 /\ stops' \in 1..MaxStops
  BY <1>0, SMTT(40) DEF GoesDown, TypeOK
<1>6. quiet' \in 0..MinDelay /\ (quiet' = quiet \/ worker[w].pc = "run")
  <2>1. quiet' = IF worker[w].pc = "run" THEN 0 ELSE quiet
    BY <1>0 DEF GoesDown
  <2> QED
    BY <2>1 DEF TypeOK
<1> QED
  BY <1>2, <1>3, <1>4, <1>5, <1>6

\* One unit of time.
LEMMA TickType ==
  ASSUME TypeOK, Tick
  PROVE  /\ \A w \in Worker :
              /\ worker[w].pc \in {"poll", "delay", "run", "down"}
              /\ worker'[w] \in Process /\ worker'[w].pc = worker[w].pc
              /\ worker[w].pc \in {"delay", "run"} =>
                   /\ worker[w].left > 0 /\ worker'[w].left = worker[w].left - 1
                   /\ worker[w].msg \in Payload /\ worker'[w].msg = Older(worker[w].msg)
         /\ DOMAIN worker' = Worker /\ worker' \in [Worker -> Process]
         /\ lock' \in [Lead -> 0..LockTTL]
         /\ \A l \in Lead : lock'[l] = IF lock[l] > 0 THEN lock[l] - 1 ELSE 0
         /\ Len(queue') = Len(queue) /\ queue' \in Seq(Payload)
         /\ \A i \in 1..Len(queue) : queue'[i] = Older(queue[i])
         /\ quiet' \in 0..MinDelay /\ quiet' = IF quiet < MinDelay THEN quiet + 1 ELSE MinDelay
<1> USE Bounds
<1>1. ASSUME NEW w \in Worker
      PROVE  /\ worker[w].pc \in {"poll", "delay", "run", "down"}
             /\ worker'[w] \in Process /\ worker'[w].pc = worker[w].pc
             /\ worker[w].pc \in {"delay", "run"} =>
                  /\ worker[w].left > 0 /\ worker'[w].left = worker[w].left - 1
                  /\ worker[w].msg \in Payload /\ worker'[w].msg = Older(worker[w].msg)
  <2>1. Idle(w) /\ worker[w] \in Process
    BY DEF Tick, TypeOK, Process
  <2>2. worker'[w] = IF Holding(w) THEN [worker[w] EXCEPT !.left = @ - 1, !.msg = Older(@)] ELSE worker[w]
    BY Zenon DEF Tick
  <2>3. CASE worker[w].pc \in {"delay", "run"}
    <3>1. Holding(w) /\ worker[w].left > 0 /\ worker[w].left \in 0..(MaxDelay + MaxTurn)
      BY <2>1, <2>3 DEF Holding, Idle, Process
    <3>2. worker[w].msg \in Payload
      BY <2>1, <3>1 DEF TypeOK, Process
    <3>3. Older(worker[w].msg) \in Payload
      BY <3>2, OlderPayload
    <3>4. worker'[w] = [pc |-> worker[w].pc, msg |-> Older(worker[w].msg), left |-> worker[w].left - 1]
      <4> DEFINE o == Older(worker[w].msg)
      <4>1. worker'[w] = [worker[w] EXCEPT !.left = worker[w].left - 1, !.msg = o]
        BY <2>2, <3>1, Zenon
      <4> HIDE DEF o
      <4>2. worker'[w] = [pc |-> worker[w].pc, msg |-> o, left |-> worker[w].left - 1]
        BY <2>1, <4>1 DEF Process
      <4> QED
        BY <4>2 DEF o
    <3>5. worker[w].left - 1 \in 0..(MaxDelay + MaxTurn) /\ worker[w].pc \in Pc
      BY <3>1, <2>1 DEF Process
    <3>6. worker'[w] \in Process
      BY <3>3, <3>4, <3>5 DEF Process
    <3> QED
      BY <2>3, <3>1, <3>2, <3>4, <3>6
  <2>4. CASE worker[w].pc \notin {"delay", "run"}
    BY <2>1, <2>2, <2>4 DEF Idle, Holding
  <2> QED
    BY <2>3, <2>4
<1>2. DOMAIN worker' = Worker /\ worker' = [w \in Worker |-> worker'[w]]
  BY Zenon DEF Tick
<1>3. worker' \in [Worker -> Process]
  BY <1>1, <1>2
<1>4. /\ lock' \in [Lead -> 0..LockTTL]
      /\ \A l \in Lead : lock'[l] = IF lock[l] > 0 THEN lock[l] - 1 ELSE 0
  <2>1. lock \in [Lead -> 0..LockTTL] /\ lock' = [l \in Lead |-> Down(lock[l])]
    BY DEF Tick, TypeOK
  <2>2. ASSUME NEW l \in Lead PROVE Down(lock[l]) \in 0..LockTTL
    BY <2>1 DEF Down
  <2> QED
    BY <2>1, <2>2 DEF Down
<1>5. /\ Len(queue') = Len(queue) /\ queue' \in Seq(Payload)
      /\ \A i \in 1..Len(queue) : queue'[i] = Older(queue[i])
  <2>1. /\ queue \in Seq(Payload) /\ DOMAIN queue = 1..Len(queue) /\ Len(queue) \in Nat
        /\ queue' = [i \in DOMAIN queue |-> Older(queue[i])]
    <3>1. queue' = [i \in DOMAIN queue |-> Older(queue[i])]
      BY Zenon DEF Tick
    <3> QED
      BY <3>1, Parts
  <2>2. ASSUME NEW i \in 1..Len(queue)
        PROVE  Older(queue[i]) \in Payload
    BY <2>1, OlderPayload, ElementOfSeq
  <2>3. queue' \in [1..Len(queue) -> Payload]
    BY <2>1, <2>2
  <2>4. queue' \in Seq(Payload) /\ Len(queue') = Len(queue)
    BY <2>1, <2>3, SeqDef
  <2> QED
    BY <2>1, <2>4
<1>6. quiet' \in 0..MinDelay /\ quiet' = IF quiet < MinDelay THEN quiet + 1 ELSE MinDelay
  <2>1. quiet' = Up(quiet, MinDelay) /\ quiet \in 0..MinDelay
    BY Parts, Zenon DEF Tick
  <2> QED
    BY <2>1 DEF Up
<1> QED
  BY <1>1, <1>2, <1>3, <1>4, <1>5, <1>6


\* Every step keeps the types.
LEMMA TypeStep == TypeOK /\ [Next]_vars => TypeOK'
<1> SUFFICES ASSUME TypeOK, [Next]_vars PROVE TypeOK'
  OBVIOUS
<1> USE Bounds
<1> DEFINE Holds(x) == Holding(x) \/ worker[x].pc = "release" => worker[x].msg # Nothing
<1>p. /\ queue \in Seq(Payload) /\ lock \in [Lead -> 0..LockTTL] /\ worker \in [Worker -> Process]
      /\ served \subseteq Worker /\ stops \in 0..MaxStops /\ quiet \in 0..MinDelay
      /\ fate \in Seq(Fate)
  BY Parts
<1>h. \A x \in Worker : Holds(x)
  BY DEF TypeOK
<1>o. ASSUME NEW w \in Worker, \A x \in Worker \ {w} : worker'[x] = worker[x], Holds(w)'
      PROVE  \A x \in Worker : Holds(x)'
  BY <1>h, <1>o DEF Holding
<1>f. {"turn", "stale", "dropped", "waiting"} \subseteq Fate
  BY DEF Fate
<1>s. Fresh.pc = "poll"
  BY DEF Fresh
<1> DEFINE Rest == /\ queue' \in Seq(Payload) /\ lock' \in [Lead -> 0..LockTTL]
                   /\ served' \subseteq Worker /\ stops' \in 0..MaxStops /\ quiet' \in 0..MinDelay
                   /\ fate' \in Seq(Fate)
<1>q. ASSUME Rest, worker' \in [Worker -> Process], \A x \in Worker : Holds(x)'
      PROVE  TypeOK'
  BY <1>q, Zenon DEF TypeOK, Process
<1> HIDE DEF TypeOK
<1>1. ASSUME NEW l \in Lead, Enqueue(l)
      PROVE  TypeOK'
  <2>1. [id |-> Len(fate) + 1, lead |-> l, age |-> 0, defers |-> 0] \in Payload
    BY <1>1, <1>p DEF Enqueue, Payload
  <2>2. Rest
    BY <1>1, <1>p, <1>f, <2>1 DEF Enqueue
  <2>3. worker' = worker
    BY <1>1 DEF Enqueue
  <2> HIDE DEF Rest
  <2> QED
    BY <2>2, <2>3, <1>p, <1>h, <1>q DEF Holding
<1>2. ASSUME NEW w \in Worker, DequeueStale(w)
      PROVE  TypeOK'
  <2>1. /\ queue # << >> /\ queue' = Tail(queue) /\ Ends(Head(queue), "stale")
        /\ UNCHANGED <<lock, worker, served, stops, quiet>>
    BY <1>2 DEF DequeueStale
  <2>2. fate' \in Seq(Fate)
    BY <2>1, <1>p, <1>f, EndsType
  <2>3. queue' \in Seq(Payload)
    BY <2>1, <1>p, HeadTailProperties
  <2>4. Rest
    BY <2>1, <2>2, <2>3, <1>p
  <2> HIDE DEF Rest
  <2> QED
    BY <2>1, <2>4, <1>p, <1>h, <1>q DEF Holding
<1>3. ASSUME NEW w \in Worker, Dequeue(w)
      PROVE  TypeOK'
  <2>1. /\ worker' \in [Worker -> Process] /\ Holds(w)' /\ queue' \in Seq(Payload)
        /\ \A x \in Worker \ {w} : worker'[x] = worker[x]
    <3>1. PICK d \in 0..MaxDelay :
            /\ worker' \in [Worker -> Process] /\ Head(queue) \in Payload /\ Head(queue) # Nothing
            /\ worker'[w] = [pc |-> "delay", msg |-> Head(queue), left |-> d]
            /\ \A x \in Worker \ {w} : worker'[x] = worker[x]
            /\ queue' \in Seq(Payload)
      BY <1>3, DequeueType
    <3> QED
      BY <3>1
  <2>2. Rest
    BY <1>3, <2>1, <1>p DEF Dequeue
  <2> HIDE DEF Rest, Holds
  <2> QED
    BY <2>1, <2>2, <1>o, <1>q
<1>4. ASSUME NEW w \in Worker, DelayOver(w) \/ Contend(w)
      PROVE  TypeOK'
  <2>1. PICK pc \in {"acquire", "contended"} : Goes(w, pc)
    BY <1>4 DEF DelayOver, Contend
  <2>2. pc \in Pc
    BY <2>1 DEF Pc
  <2>3. /\ worker' \in [Worker -> Process] /\ worker'[w].msg = worker[w].msg
        /\ \A x \in Worker \ {w} : worker'[x] = worker[x]
    BY <2>1, <2>2, GoesType
  <2>4. worker[w].msg # Nothing
    BY <1>4, <1>h DEF DelayOver, Contend, Holding
  <2>5. Rest
    BY <1>4, <1>p DEF DelayOver, Contend
  <2>6. Holds(w)'
    BY <2>3, <2>4
  <2> HIDE DEF Rest, Holds
  <2> QED
    BY <2>3, <2>5, <2>6, <1>o, <1>q
<1>5. ASSUME NEW w \in Worker, Acquire(w)
      PROVE  TypeOK'
  <2>1. /\ worker' \in [Worker -> Process] /\ worker'[w].msg \in Payload
        /\ \A x \in Worker \ {w} : worker'[x] = worker[x]
        /\ lock' \in [Lead -> 0..LockTTL]
    <3>1. PICK d \in 0..MaxTurn :
            /\ worker' \in [Worker -> Process]
            /\ worker'[w] = [pc |-> "run", msg |-> worker[w].msg, left |-> d]
            /\ \A x \in Worker \ {w} : worker'[x] = worker[x]
            /\ worker[w].msg \in Payload /\ lock' \in [Lead -> 0..LockTTL]
      BY <1>5, AcquireType
    <3> QED
      BY <3>1
  <2>2. Rest
    BY <1>5, <2>1, <1>p DEF Acquire
  <2>3. Holds(w)'
    BY <2>1, NothingIsNoPayload
  <2> HIDE DEF Rest, Holds
  <2> QED
    BY <2>1, <2>2, <2>3, <1>o, <1>q
<1>6. ASSUME NEW w \in Worker, Defer(w) \/ Drop(w) \/ Release(w)
      PROVE  TypeOK'
  <2>1. Polls(w)
    BY <1>6 DEF Defer, Drop, Release
  <2>2. /\ worker' \in [Worker -> Process] /\ served' \subseteq Worker /\ worker'[w] = Fresh
        /\ \A x \in Worker \ {w} : worker'[x] = worker[x]
    BY <2>1, PollsType
  <2>3. Holds(w)'
    BY <2>2, <1>s DEF Holding
  <2>4. queue' \in Seq(Payload)
    <3>1. CASE Defer(w)
      <4>1. worker[w].msg # Nothing /\ worker[w].msg.defers < MaxDefers
        BY <3>1, <1>h DEF Defer, Holding
      <4>2. worker[w].msg \in Payload
        BY <4>1, <1>p DEF Process
      <4>3. [worker[w].msg EXCEPT !.defers = @ + 1] \in Payload
        BY <4>1, <4>2, DeferredPayload
      <4>4. queue' = Append(queue, [worker[w].msg EXCEPT !.defers = @ + 1])
        BY <3>1, Zenon DEF Defer
      <4> QED
        BY <4>3, <4>4, <1>p, AppendProperties
    <3>2. CASE Drop(w) \/ Release(w)
      BY <3>2, <1>p DEF Drop, Release
    <3> QED
      BY <3>1, <3>2, <1>6
  <2>5. lock' \in [Lead -> 0..LockTTL]
    <3>1. lock' = lock \/ lock' = [lock EXCEPT ![worker[w].msg.lead] = 0]
      BY <1>6, Zenon DEF Defer, Drop, Release
    <3> QED
      BY <3>1, <1>p, UnlockType
  <2>6. fate' \in Seq(Fate)
    <3>1. fate' = fate \/ Ends(worker[w].msg, "dropped")
      BY <1>6 DEF Defer, Drop, Release
    <3> QED
      BY <3>1, <1>p, <1>f, EndsType
  <2>7. stops' = stops /\ quiet' = quiet
    BY <1>6 DEF Defer, Drop, Release
  <2>8. Rest
    BY <2>2, <2>4, <2>5, <2>6, <2>7, <1>p
  <2> HIDE DEF Rest, Holds
  <2> QED
    BY <2>2, <2>3, <2>8, <1>o, <1>q
<1>7. ASSUME NEW w \in Worker, TurnOver(w)
      PROVE  TypeOK'
  <2>1. /\ Goes(w, "release") /\ "release" \in Pc /\ worker[w].pc = "run"
        /\ Ends(worker[w].msg, "turn") /\ quiet' = 0 /\ UNCHANGED <<queue, lock, served, stops>>
    BY <1>7 DEF TurnOver, Pc
  <2>2. /\ worker' \in [Worker -> Process] /\ worker'[w].msg = worker[w].msg
        /\ \A x \in Worker \ {w} : worker'[x] = worker[x]
    BY <2>1, GoesType
  <2>3. Holds(w)'
    BY <2>1, <2>2, <1>h DEF Holding
  <2>4. fate' \in Seq(Fate)
    BY <2>1, <1>p, <1>f, EndsType
  <2>5. Rest
    BY <2>1, <2>4, <1>p
  <2> HIDE DEF Rest, Holds
  <2> QED
    BY <2>2, <2>3, <2>5, <1>o, <1>q
<1>8. ASSUME NEW w \in Worker, Crash(w) \/ Shutdown(w)
      PROVE  TypeOK'
  <2>1. /\ worker' \in [Worker -> Process] /\ worker'[w].pc = "down"
        /\ \A x \in Worker \ {w} : worker'[x] = worker[x]
        /\ served' = served \ {w} /\ queue' = queue /\ stops' \in 1..MaxStops
        /\ quiet' \in 0..MinDelay /\ fate' \in Seq(Fate) /\ lock' \in [Lead -> 0..LockTTL]
    BY <1>8, DownType
  <2>2. Rest
    BY <2>1, <1>p
  <2>3. Holds(w)'
    BY <2>1 DEF Holding
  <2> HIDE DEF Rest, Holds
  <2> QED
    BY <2>1, <2>2, <2>3, <1>o, <1>q
<1>9. ASSUME NEW w \in Worker, Restart(w)
      PROVE  TypeOK'
  <2>1. worker' = [worker EXCEPT ![w] = Fresh] /\ UNCHANGED <<queue, lock, served, stops, quiet, fate>>
    BY <1>9 DEF Restart
  <2>2. Fresh \in Process
    BY SMT DEF Fresh, Process, Pc
  <2>3. worker' \in [Worker -> Process] /\ worker'[w].pc = "poll"
        /\ \A x \in Worker \ {w} : worker'[x] = worker[x]
    <3> HIDE DEF Fresh
    <3> QED
      BY <2>1, <2>2, <1>p, <1>s
  <2>4. Rest
    BY <2>1, <1>p
  <2>5. Holds(w)'
    BY <2>3 DEF Holding
  <2> HIDE DEF Rest, Holds
  <2> QED
    BY <2>3, <2>4, <2>5, <1>o, <1>q
<1>10. CASE Tick
  <2>1. /\ \A w \in Worker :
              /\ worker[w].pc \in {"poll", "delay", "run", "down"}
              /\ worker'[w].pc = worker[w].pc
              /\ worker[w].pc \in {"delay", "run"} =>
                   /\ worker[w].msg \in Payload /\ worker'[w].msg = Older(worker[w].msg)
        /\ worker' \in [Worker -> Process] /\ lock' \in [Lead -> 0..LockTTL]
        /\ queue' \in Seq(Payload) /\ quiet' \in 0..MinDelay
    BY <1>10, TickType
  <2>2. \A x \in Worker : Holds(x)'
    BY <2>1, OlderPayload, NothingIsNoPayload DEF Holding
  <2>3. Rest
    BY <1>10, <2>1, <1>p DEF Tick
  <2> HIDE DEF Rest, Holds
  <2> QED
    BY <2>1, <2>2, <2>3, <1>q
<1>11. CASE UNCHANGED vars
  BY <1>11, <1>p, <1>h, <1>q DEF vars, Holding
<1> QED
  BY <1>1, <1>2, <1>3, <1>4, <1>5, <1>6, <1>7, <1>8, <1>9, <1>10, <1>11 DEF Next, Step

\* Every state of every run has the types.
THEOREM TypeCorrect == Spec => []TypeOK
BY TypeInit, TypeStep, PTL DEF Spec


-----------------------------------------------------------------------------
(* What a step of one process does to the fields the theorems are about.   *)

\* The payload of a process that has one.
LEMMA Held ==
  ASSUME TypeOK, NEW w \in Worker, Holding(w) \/ worker[w].pc = "release"
  PROVE  /\ worker[w].msg \in Payload /\ worker[w].msg.lead \in Lead
         /\ worker[w].msg.age \in Nat /\ worker[w].msg.defers \in Nat
<1>1. worker[w].msg # Nothing /\ worker[w].msg \in Payload \cup {Nothing}
  BY DEF TypeOK
<1>2. worker[w].msg \in Payload
  BY <1>1
<1> QED
  BY <1>2, Bounds DEF Payload

\* Only the time at which a process takes a payload, and the next, may be in the way of the
\* age: every other step ends a payload or leaves the process as it is.
Elsewhere(w) == worker'[w].pc \notin {"delay", "acquire"}

\* The payloads in the queue.
LEMMA Waiting ==
  ASSUME TypeOK
  PROVE  /\ Len(queue) \in Nat
         /\ \A i \in 1..Len(queue) : queue[i] \in Payload /\ queue[i].defers \in Nat
<1>1. queue \in Seq(Payload)
  BY Parts
<1>2. Len(queue) \in Nat /\ \A i \in 1..Len(queue) : queue[i] \in Payload
  BY <1>1, ElementOfSeq
<1>3. ASSUME NEW m \in Payload PROVE m.defers \in Nat
  BY Bounds DEF Payload
<1> QED
  BY <1>2, <1>3

\* The steps of a process that neither begin nor end its delay.
LEMMA OtherSteps ==
  ASSUME TypeOK, NEW w \in Worker,
         \/ Acquire(w) \/ Contend(w) \/ Defer(w) \/ Drop(w) \/ TurnOver(w) \/ Release(w)
         \/ Crash(w) \/ Shutdown(w) \/ Restart(w)
  PROVE  /\ \A x \in Worker \ {w} : worker'[x] = worker[x]
         /\ Elsewhere(w)
<1>f. Fresh.pc = "poll"
  BY DEF Fresh
<1>1. CASE Acquire(w)
  <2>1. PICK d \in 0..MaxTurn :
          /\ worker'[w] = [pc |-> "run", msg |-> worker[w].msg, left |-> d]
          /\ \A x \in Worker \ {w} : worker'[x] = worker[x]
    BY <1>1, AcquireType
  <2> QED
    BY <2>1 DEF Elsewhere
<1>2. CASE Contend(w) \/ TurnOver(w)
  <2>1. PICK pc \in {"contended", "release"} : Goes(w, pc)
    BY <1>2 DEF Contend, TurnOver
  <2>2. pc \in Pc
    BY <2>1 DEF Pc
  <2> QED
    BY <2>1, <2>2, GoesType DEF Elsewhere
<1>3. CASE Defer(w) \/ Drop(w) \/ Release(w)
  <2>1. Polls(w)
    BY <1>3 DEF Defer, Drop, Release
  <2> QED
    BY <2>1, <1>f, PollsType DEF Elsewhere
<1>4. CASE Crash(w) \/ Shutdown(w)
  BY <1>4, DownType DEF Elsewhere
<1>5. CASE Restart(w)
  <2>1. worker' = [worker EXCEPT ![w] = Fresh] /\ worker \in [Worker -> Process]
    BY <1>5, Parts DEF Restart
  <2> HIDE DEF Fresh
  <2> QED
    BY <2>1, <1>f DEF Elsewhere
<1> QED
  BY <1>1, <1>2, <1>3, <1>4, <1>5

-----------------------------------------------------------------------------
(* The age of a payload: looked at once, before a delay that is bounded.   *)

AgeInv ==
  \A w \in Worker :
    /\ worker[w].pc = "delay" => worker[w].msg.age + worker[w].left <= MaxStale + MaxDelay
    /\ worker[w].pc = "acquire" => worker[w].msg.age <= MaxStale + MaxDelay

\* At first every process polls.
LEMMA AgeInit == Init => AgeInv
<1> SUFFICES ASSUME Init, NEW w \in Worker PROVE worker[w].pc = "poll"
  BY DEF AgeInv
<1>1. Fresh.pc = "poll"
  BY DEF Fresh
<1> QED
  BY <1>1 DEF Init

\* Time moves from what is left of the delay to the age.
LEMMA AgeStep == TypeOK /\ AgeInv /\ [Next]_vars => AgeInv'
<1> SUFFICES ASSUME TypeOK, AgeInv, [Next]_vars PROVE AgeInv'
  OBVIOUS
<1> USE Bounds
<1> HIDE DEF TypeOK
<1> DEFINE Good(x) == /\ worker[x].pc = "delay" => worker[x].msg.age + worker[x].left <= MaxStale + MaxDelay
                      /\ worker[x].pc = "acquire" => worker[x].msg.age <= MaxStale + MaxDelay
<1>g. \A x \in Worker : Good(x)
  BY DEF AgeInv
<1>s. ASSUME NEW w \in Worker, \A x \in Worker \ {w} : worker'[x] = worker[x], Good(w)'
      PROVE  AgeInv'
  BY <1>s, <1>g DEF AgeInv
<1>1. ASSUME NEW w \in Worker, Dequeue(w)
      PROVE  AgeInv'
  <2>1. PICK d \in 0..MaxDelay :
          /\ Head(queue) \in Payload
          /\ worker'[w] = [pc |-> "delay", msg |-> Head(queue), left |-> d]
          /\ \A x \in Worker \ {w} : worker'[x] = worker[x]
    BY <1>1, DequeueType
  <2>2. Head(queue).age <= MaxStale /\ Head(queue).age \in Nat
    BY <1>1, <2>1, SMTT(40) DEF Dequeue, Payload
  <2>3. Good(w)'
    BY <2>1, <2>2
  <2> QED
    BY <2>1, <2>3, <1>s
<1>2. ASSUME NEW w \in Worker, DelayOver(w)
      PROVE  AgeInv'
  <2>1. Goes(w, "acquire") /\ "acquire" \in Pc /\ worker[w].pc = "delay" /\ worker[w].left = 0
    BY <1>2 DEF DelayOver, Pc
  <2>2. /\ worker'[w].pc = "acquire" /\ worker'[w].msg = worker[w].msg
        /\ \A x \in Worker \ {w} : worker'[x] = worker[x]
    BY <2>1, GoesType
  <2>3. worker[w].msg.age \in Nat
    BY <2>1, Held DEF Holding
  <2>4. Good(w)'
    BY <2>1, <2>2, <2>3, <1>g
  <2> QED
    BY <2>2, <2>4, <1>s
<1>3. ASSUME NEW w \in Worker,
             \/ Acquire(w) \/ Contend(w) \/ Defer(w) \/ Drop(w) \/ TurnOver(w) \/ Release(w)
             \/ Crash(w) \/ Shutdown(w) \/ Restart(w)
      PROVE  AgeInv'
  <2>1. Elsewhere(w) /\ \A x \in Worker \ {w} : worker'[x] = worker[x]
    BY <1>3, OtherSteps
  <2>2. Good(w)'
    BY <2>1 DEF Elsewhere
  <2> QED
    BY <2>1, <2>2, <1>s
<1>4. CASE Tick
  <2> SUFFICES ASSUME NEW w \in Worker PROVE Good(w)'
    BY DEF AgeInv
  <2>1. /\ worker[w].pc \in {"poll", "delay", "run", "down"} /\ worker'[w].pc = worker[w].pc
        /\ worker[w].pc = "delay" =>
             /\ worker[w].left > 0 /\ worker'[w].left = worker[w].left - 1
             /\ worker[w].msg \in Payload /\ worker'[w].msg = Older(worker[w].msg)
    BY <1>4, TickType
  <2>2. CASE worker[w].pc = "delay"
    <3>1. /\ worker'[w].msg.age \in Nat /\ worker[w].msg.age \in Nat
          /\ worker'[w].msg.age <= worker[w].msg.age + 1
      BY <2>1, <2>2, OlderPayload
    <3>2. worker[w].left \in Nat
      BY Parts DEF Process
    <3> QED
      BY <2>1, <2>2, <3>1, <3>2, <1>g
  <2>3. CASE worker[w].pc # "delay"
    BY <2>1, <2>3
  <2> QED
    BY <2>2, <2>3
<1>5. CASE UNCHANGED worker
  BY <1>5 DEF AgeInv
<1> HIDE DEF Good
<1>6. (\E l \in Lead : Enqueue(l)) \/ (\E w \in Worker : DequeueStale(w)) \/ UNCHANGED vars => UNCHANGED worker
  BY DEF Enqueue, DequeueStale, vars
<1> QED
  BY <1>1, <1>2, <1>3, <1>4, <1>5, <1>6 DEF Next, Step

\* main.py:54: in every run, with any number of processes, a turn starts at most one delay
\* after the age at which a payload is discarded.
THEOREM AnswersAreFresh == Spec => AnswerAgeBound
<1>1. AgeInv => [\A w \in Worker : worker[w].pc = "acquire" /\ worker'[w].pc = "run"
                   => worker[w].msg.age <= MaxStale + MaxDelay]_vars
  BY DEF AgeInv
<1> QED
  BY <1>1, TypeInit, TypeStep, AgeInit, AgeStep, PTL DEF Spec, AnswerAgeBound


-----------------------------------------------------------------------------
(* One process: the pause before its next turn.                            *)

PaceInv ==
  \A w \in served :
    /\ worker[w].pc = "delay" => quiet + worker[w].left >= MinDelay
    /\ worker[w].pc = "acquire" => quiet >= MinDelay

\* The only process has not served yet.
LEMMA PaceInit == Init => PaceInv
BY DEF Init, PaceInv

\* The pause grows as the delay runs out; what resets it, a turn, leaves no delay.
LEMMA PaceStep ==
  ASSUME NEW p, Worker = {p}
  PROVE  TypeOK /\ PaceInv /\ [Next]_vars => PaceInv'
<1> SUFFICES ASSUME TypeOK, PaceInv, [Next]_vars, p \in served'
             PROVE  /\ worker'[p].pc = "delay" => quiet' + worker'[p].left >= MinDelay
                    /\ worker'[p].pc = "acquire" => quiet' >= MinDelay
  <2>1. TypeOK /\ [Next]_vars => served' \subseteq Worker
    BY TypeStep, Parts DEF TypeOK
  <2> QED
    BY <2>1 DEF PaceInv
<1> USE Bounds
<1> HIDE DEF TypeOK
<1>q. quiet \in Nat /\ worker[p].left \in Nat
  BY Parts DEF Process
<1>1. CASE Dequeue(p)
  <2>1. PICK d \in (IF p \in served THEN MinDelay..MaxDelay ELSE {0}) :
          worker'[p] = [pc |-> "delay", msg |-> Head(queue), left |-> d]
    BY <1>1, DequeueType
  <2>2. served' = served /\ quiet' = quiet
    BY <1>1 DEF Dequeue
  <2>3. d >= MinDelay /\ d \in Nat
    BY <2>1, <2>2
  <2> QED
    BY <2>1, <2>2, <2>3, <1>q
<1>2. CASE DelayOver(p)
  <2>1. /\ Goes(p, "acquire") /\ "acquire" \in Pc /\ worker[p].pc = "delay" /\ worker[p].left = 0
        /\ served' = served /\ quiet' = quiet
    BY <1>2 DEF DelayOver, Pc
  <2>2. worker'[p].pc = "acquire"
    BY <2>1, GoesType
  <2> QED
    BY <2>1, <2>2, <1>q DEF PaceInv
<1>3. CASE \/ Acquire(p) \/ Contend(p) \/ Defer(p) \/ Drop(p) \/ TurnOver(p) \/ Release(p)
           \/ Crash(p) \/ Shutdown(p) \/ Restart(p)
  BY <1>3, OtherSteps DEF Elsewhere
<1>4. CASE Tick
  <2>1. /\ worker[p].pc \in {"poll", "delay", "run", "down"} /\ worker'[p].pc = worker[p].pc
        /\ worker[p].pc = "delay" => worker[p].left > 0 /\ worker'[p].left = worker[p].left - 1
        /\ quiet' = IF quiet < MinDelay THEN quiet + 1 ELSE MinDelay
    BY <1>4, TickType
  <2>2. served' = served
    BY <1>4 DEF Tick
  <2>3. CASE worker[p].pc = "delay"
    <3>1. quiet + worker[p].left >= MinDelay /\ worker'[p].left = worker[p].left - 1
      BY <2>1, <2>2, <2>3 DEF PaceInv
    <3>2. worker[p].left - 1 \in Nat
      BY <2>1, <2>3, <1>q
    <3>3. quiet' + worker'[p].left >= MinDelay
      BY <2>1, <3>1, <3>2, <1>q
    <3> QED
      BY <2>1, <2>3, <3>3
  <2> QED
    BY <2>1, <2>3
<1>5. CASE UNCHANGED <<worker, served, quiet>>
  BY <1>5 DEF PaceInv
<1>6. (\E l \in Lead : Enqueue(l)) \/ DequeueStale(p) \/ UNCHANGED vars
        => UNCHANGED <<worker, served, quiet>>
  BY DEF Enqueue, DequeueStale, vars
<1> QED
  BY <1>1, <1>2, <1>3, <1>4, <1>5, <1>6 DEF Next, Step

\* The anti-ban pause: a single process that has served starts no turn before the shortest
\* delay has passed since its last one.
THEOREM TurnsArePaced ==
  ASSUME NEW p, Worker = {p}
  PROVE  Spec => PacedTurns
<1>1. TypeOK /\ PaceInv =>
        [\A w \in Worker : w \in served /\ worker[w].pc = "acquire" /\ worker'[w].pc = "run"
           => quiet >= MinDelay]_vars
  BY DEF PaceInv
<1>2. TypeOK /\ PaceInv /\ [Next]_vars => PaceInv'
  BY PaceStep
<1> QED
  BY <1>1, <1>2, TypeInit, TypeStep, PaceInit, PTL DEF Spec, PacedTurns

-----------------------------------------------------------------------------
(* One process: its payloads meet no lock but that of a stop before.       *)

\* The stops a payload can have met the lock of: the last one only counts once the process
\* has served again, because its lock is met by the first payload, which is not delayed.
Past(w) == IF w \in served \/ stops = 0 THEN stops ELSE stops - 1

DeferInv ==
  \A w \in Worker :
    /\ \A i \in 1..Len(queue) : queue[i].defers <= Past(w)
    /\ Holding(w) => worker[w].msg.defers <= Past(w)
    /\ worker[w].pc = "contended" => w \notin served /\ stops > 0
    /\ w \in served /\ worker[w].pc = "delay" => \A l \in Lead : lock[l] <= worker[w].left
    /\ w \in served /\ worker[w].pc = "acquire" => \A l \in Lead : lock[l] = 0
    /\ w \notin served /\ stops = 0 /\ worker[w].pc \notin {"run", "release"} => \A l \in Lead : lock[l] = 0

\* No payload, no lock.
LEMMA DeferInit == Init => DeferInv
<1> SUFFICES ASSUME Init, NEW w \in Worker
             PROVE  /\ \A i \in 1..Len(queue) : queue[i].defers <= Past(w)
                    /\ worker[w].pc = "poll"
                    /\ \A l \in Lead : lock[l] = 0
  BY DEF DeferInv, Holding
<1>1. Fresh.pc = "poll"
  BY DEF Fresh
<1> HIDE DEF Fresh
<1> QED
  BY <1>1 DEF Init


\* A payload is deferred only when the lock of the last stop is in its way, and then the
\* delay before the next one outlasts that lock.
LEMMA DeferStep ==
  ASSUME NEW p, Worker = {p}, LockTTL <= MinDelay
  PROVE  TypeOK /\ DeferInv /\ [Next]_vars => DeferInv'
<1> SUFFICES ASSUME TypeOK, DeferInv, [Next]_vars PROVE DeferInv'
  OBVIOUS
<1> USE Bounds
<1> HIDE DEF TypeOK
<1> DEFINE Queued == \A i \in 1..Len(queue) : queue[i].defers <= Past(p)
           Has == Holding(p) => worker[p].msg.defers <= Past(p)
           Met == worker[p].pc = "contended" => p \notin served /\ stops > 0
           Waits == p \in served /\ worker[p].pc = "delay" => \A l \in Lead : lock[l] <= worker[p].left
           Free == p \in served /\ worker[p].pc = "acquire" => \A l \in Lead : lock[l] = 0
           First == p \notin served /\ stops = 0 /\ worker[p].pc \notin {"run", "release"}
                      => \A l \in Lead : lock[l] = 0
<1>g. Queued /\ Has /\ Met /\ Waits /\ Free /\ First
  BY DEF DeferInv
<1>s. ASSUME Queued', Has', Met', Waits', Free', First'
      PROVE  DeferInv'
  BY <1>s DEF DeferInv
<1>p. /\ queue \in Seq(Payload) /\ lock \in [Lead -> 0..LockTTL] /\ worker \in [Worker -> Process]
      /\ stops \in Nat /\ Past(p) \in Nat /\ Past(p) <= stops
  <2>1. stops \in Nat
    BY Parts
  <2>2. Past(p) \in Nat /\ Past(p) <= stops
    BY <2>1 DEF Past
  <2> QED
    BY <2>1, <2>2, Parts
<1>q. /\ Len(queue) \in Nat /\ \A i \in 1..Len(queue) : queue[i] \in Payload /\ queue[i].defers \in Nat
  BY Waiting
<1>l. \A l \in Lead : lock[l] \in Nat /\ lock[l] <= LockTTL
  BY <1>p
<1>f. Fresh.pc = "poll"
  BY DEF Fresh
<1>1. ASSUME NEW l \in Lead, Enqueue(l)
      PROVE  DeferInv'
  <2> DEFINE new == [id |-> Len(fate) + 1, lead |-> l, age |-> 0, defers |-> 0]
  <2>1. queue' = Append(queue, new) /\ UNCHANGED <<lock, worker, served, stops>>
    BY <1>1 DEF Enqueue
  <2>2. new.defers = 0 /\ new \in Payload
    BY <1>1, Parts DEF Enqueue, Payload
  <2> HIDE DEF new
  <2>3. /\ Len(queue') = Len(queue) + 1 /\ queue'[Len(queue) + 1] = new
        /\ \A i \in 1..Len(queue) : queue'[i] = queue[i]
    BY <2>1, <2>2, <1>p, AppendProperties
  <2>4. Past(p)' = Past(p)
    BY <2>1 DEF Past
  <2>5. Queued'
    BY <2>2, <2>3, <2>4, <1>g, <1>p, <1>q
  <2>6. Has' /\ Met' /\ Waits' /\ Free' /\ First'
    BY <2>1, <2>4, <1>g DEF Holding
  <2> QED
    BY <2>5, <2>6, <1>s
<1>t. ASSUME queue' = Tail(queue), queue # << >>, Past(p)' = Past(p)
      PROVE  Queued' /\ Head(queue) \in Payload /\ Head(queue).defers <= Past(p)
  <2>1. /\ Len(queue') = Len(queue) - 1 /\ \A i \in 1..Len(queue') : queue'[i] = queue[i + 1]
        /\ Head(queue) = queue[1] /\ 1 \in 1..Len(queue)
    BY <1>t, <1>p, HeadTailProperties, EmptySeq
  <2>2. \A i \in 1..Len(queue') : i + 1 \in 1..Len(queue)
    BY <2>1, <1>q
  <2> QED
    BY <2>1, <2>2, <1>t, <1>g, <1>q
<1>2. CASE DequeueStale(p)
  <2>1. queue' = Tail(queue) /\ queue # << >> /\ UNCHANGED <<lock, worker, served, stops>>
    BY <1>2 DEF DequeueStale
  <2>2. Past(p)' = Past(p)
    BY <2>1 DEF Past
  <2>3. Queued'
    BY <2>1, <2>2, <1>t
  <2>4. Has' /\ Met' /\ Waits' /\ Free' /\ First'
    BY <2>1, <2>2, <1>g DEF Holding
  <2> QED
    BY <2>3, <2>4, <1>s
<1>3. CASE Dequeue(p)
  <2>1. PICK d \in (IF p \in served THEN MinDelay..MaxDelay ELSE {0}) :
          worker'[p] = [pc |-> "delay", msg |-> Head(queue), left |-> d]
    BY <1>3, DequeueType
  <2>2. /\ queue' = Tail(queue) /\ queue # << >> /\ UNCHANGED <<lock, served, stops>>
        /\ worker[p].pc = "poll"
    BY <1>3 DEF Dequeue
  <2>3. Past(p)' = Past(p)
    BY <2>2 DEF Past
  <2>4. Queued' /\ Head(queue).defers <= Past(p)
    BY <2>2, <2>3, <1>t
  <2>5. Has'
    BY <2>1, <2>3, <2>4
  <2>6. Waits'
    <3>1. p \in served => d >= LockTTL /\ d \in Nat
      BY <2>1
    <3> QED
      BY <2>1, <2>2, <3>1, <1>l
  <2>7. Met' /\ Free' /\ First'
    BY <2>1, <2>2, <1>g
  <2> QED
    BY <2>4, <2>5, <2>6, <2>7, <1>s
<1>4. CASE DelayOver(p)
  <2>1. /\ Goes(p, "acquire") /\ "acquire" \in Pc /\ worker[p].pc = "delay" /\ worker[p].left = 0
        /\ UNCHANGED <<queue, lock, served, stops>>
    BY <1>4 DEF DelayOver, Pc
  <2>2. worker'[p].pc = "acquire" /\ worker'[p].msg = worker[p].msg
    BY <2>1, GoesType
  <2>3. Past(p)' = Past(p)
    BY <2>1 DEF Past
  <2>4. Free'
    BY <2>1, <2>2, <1>g, <1>l
  <2>5. Queued' /\ Has' /\ Met' /\ Waits' /\ First'
    BY <2>1, <2>2, <2>3, <1>g DEF Holding
  <2> QED
    BY <2>4, <2>5, <1>s
<1>5. CASE Acquire(p)
  <2>1. PICK d \in 0..MaxTurn : worker'[p] = [pc |-> "run", msg |-> worker[p].msg, left |-> d]
    BY <1>5, AcquireType
  <2>2. UNCHANGED <<queue, served, stops>> /\ worker[p].pc = "acquire"
    BY <1>5 DEF Acquire
  <2>3. Past(p)' = Past(p)
    BY <2>2 DEF Past
  <2>4. Queued' /\ Has' /\ Met' /\ Waits' /\ Free' /\ First'
    BY <2>1, <2>2, <2>3, <1>g DEF Holding
  <2> QED
    BY <2>4, <1>s
<1>6. CASE Contend(p)
  <2>1. /\ Goes(p, "contended") /\ "contended" \in Pc /\ worker[p].pc = "acquire"
        /\ lock[worker[p].msg.lead] > 0 /\ UNCHANGED <<queue, lock, served, stops>>
    BY <1>6 DEF Contend, Pc
  <2>2. worker'[p].pc = "contended" /\ worker'[p].msg = worker[p].msg
    BY <2>1, GoesType
  <2>3. worker[p].msg.lead \in Lead
    BY <2>1, Held DEF Holding
  <2>4. p \notin served /\ stops > 0
    BY <2>1, <2>3, <1>g, <1>p
  <2>5. Past(p)' = Past(p)
    BY <2>1 DEF Past
  <2>6. Queued' /\ Has' /\ Met' /\ Waits' /\ Free' /\ First'
    BY <2>1, <2>2, <2>4, <2>5, <1>g DEF Holding
  <2> QED
    BY <2>6, <1>s
<1>7. CASE Defer(p) \/ Drop(p) \/ Release(p)
  <2>1. Polls(p) /\ stops' = stops
    BY <1>7 DEF Defer, Drop, Release
  <2>2. worker'[p].pc = "poll" /\ p \in served'
    BY <2>1, <1>f, PollsType DEF Polls
  <2>3. Past(p)' = stops
    BY <2>1, <2>2 DEF Past
  <2>4. Queued'
    <3>1. CASE Defer(p)
      <4>1. worker[p].pc = "contended" /\ worker[p].msg.defers < MaxDefers
        BY <3>1 DEF Defer
      <4>2. worker[p].msg \in Payload /\ worker[p].msg.defers \in Nat /\ worker[p].msg.defers <= stops - 1
        BY <4>1, Held, <1>g, <1>p DEF Holding, Past
      <4> DEFINE new == [worker[p].msg EXCEPT !.defers = @ + 1]
      <4>3. queue' = Append(queue, new)
        BY <3>1, Zenon DEF Defer
      <4>4. new \in Payload /\ new.defers <= stops
        BY <4>1, <4>2, DeferredPayload, <1>p, SMTT(40)
      <4> HIDE DEF new
      <4>5. /\ Len(queue') = Len(queue) + 1 /\ queue'[Len(queue) + 1] = new
            /\ \A i \in 1..Len(queue) : queue'[i] = queue[i]
        BY <4>3, <4>4, <1>p, AppendProperties
      <4> QED
        BY <4>4, <4>5, <2>3, <1>g, <1>p, <1>q
    <3>2. CASE Drop(p) \/ Release(p)
      <4>1. queue' = queue
        BY <3>2 DEF Drop, Release
      <4> QED
        BY <4>1, <2>3, <1>g, <1>p, <1>q
    <3> QED
      BY <3>1, <3>2, <1>7
  <2>5. Has' /\ Met' /\ Waits' /\ Free' /\ First'
    BY <2>2 DEF Holding
  <2> QED
    BY <2>4, <2>5, <1>s
<1>8. CASE TurnOver(p)
  <2>1. /\ Goes(p, "release") /\ "release" \in Pc /\ UNCHANGED <<queue, served, stops>>
    BY <1>8 DEF TurnOver, Pc
  <2>2. worker'[p].pc = "release"
    BY <2>1, GoesType
  <2>3. Past(p)' = Past(p)
    BY <2>1 DEF Past
  <2>4. Queued' /\ Has' /\ Met' /\ Waits' /\ Free' /\ First'
    BY <2>1, <2>2, <2>3, <1>g DEF Holding
  <2> QED
    BY <2>4, <1>s
<1>9. CASE Crash(p) \/ Shutdown(p)
  <2>1. worker'[p].pc = "down" /\ served' = served \ {p} /\ queue' = queue /\ stops' = stops + 1
    BY <1>9, DownType
  <2>2. Past(p)' = stops
    BY <2>1, <1>p DEF Past
  <2>3. Queued'
    BY <2>1, <2>2, <1>g, <1>p, <1>q
  <2>4. Has' /\ Met' /\ Waits' /\ Free' /\ First'
    BY <2>1, <1>p DEF Holding
  <2> QED
    BY <2>3, <2>4, <1>s
<1>10. CASE Restart(p)
  <2>1. /\ worker' = [worker EXCEPT ![p] = Fresh] /\ worker[p].pc = "down"
        /\ UNCHANGED <<queue, lock, served, stops>>
    BY <1>10 DEF Restart
  <2>2. worker'[p].pc = "poll"
    <3> HIDE DEF Fresh
    <3> QED
      BY <2>1, <1>f, <1>p
  <2>3. Past(p)' = Past(p)
    BY <2>1 DEF Past
  <2>4. Queued' /\ Has' /\ Met' /\ Waits' /\ Free' /\ First'
    BY <2>1, <2>2, <2>3, <1>g DEF Holding
  <2> QED
    BY <2>4, <1>s
<1>11. CASE Tick
  <2>1. /\ worker[p].pc \in {"poll", "delay", "run", "down"} /\ worker'[p].pc = worker[p].pc
        /\ worker[p].pc \in {"delay", "run"} =>
             /\ worker[p].left > 0 /\ worker'[p].left = worker[p].left - 1
             /\ worker[p].msg \in Payload /\ worker'[p].msg = Older(worker[p].msg)
        /\ \A l \in Lead : lock'[l] = IF lock[l] > 0 THEN lock[l] - 1 ELSE 0
        /\ Len(queue') = Len(queue) /\ \A i \in 1..Len(queue) : queue'[i] = Older(queue[i])
    BY <1>11, TickType
  <2>2. UNCHANGED <<served, stops>>
    BY <1>11 DEF Tick
  <2>3. Past(p)' = Past(p)
    BY <2>2 DEF Past
  <2>4. \A i \in 1..Len(queue) : queue'[i].defers = queue[i].defers
    BY <2>1, <1>q, OlderPayload
  <2>5. Queued'
    BY <2>1, <2>3, <2>4, <1>g
  <2>6. Has'
    <3>1. CASE worker[p].pc \in {"delay", "run"}
      <4>1. worker'[p].msg.defers = worker[p].msg.defers
        BY <2>1, <3>1, OlderPayload
      <4> QED
        BY <4>1, <2>3, <3>1, <1>g DEF Holding
    <3>2. CASE worker[p].pc \in {"poll", "down"}
      BY <2>1, <3>2 DEF Holding
    <3> QED
      BY <2>1, <3>1, <3>2
  <2>7. Met' /\ Free'
    BY <2>1
  <2>8. Waits'
    <3>1. worker[p].left \in Nat
      BY <1>p DEF Process
    <3> QED
      BY <2>1, <2>2, <3>1, <1>g, <1>l
  <2>9. First'
    BY <2>1, <2>2, <1>g, <1>l
  <2> QED
    BY <2>5, <2>6, <2>7, <2>8, <2>9, <1>s
<1>12. CASE UNCHANGED vars
  BY <1>12 DEF vars, DeferInv, Past, Holding
<1> QED
  BY <1>1, <1>2, <1>3, <1>4, <1>5, <1>6, <1>7, <1>8, <1>9, <1>10, <1>11, <1>12 DEF Next, Step

\* With one process, whose delays outlast the lock, a payload is deferred at most once for
\* each stop: the drop after MaxDefers defers takes that many stops.
THEOREM DefersNeedStops ==
  ASSUME NEW p, Worker = {p}, LockTTL <= MinDelay
  PROVE  Spec => []DefersBoundedByStops
<1>1. TypeOK /\ DeferInv /\ [Next]_vars => DeferInv'
  BY DeferStep
<1>2. TypeOK /\ DeferInv => DefersBoundedByStops
  <2> SUFFICES ASSUME TypeOK, DeferInv PROVE DefersBoundedByStops
    OBVIOUS
  <2>1. stops \in Nat /\ queue \in Seq(Payload) /\ DOMAIN queue = 1..Len(queue)
    BY Parts
  <2> HIDE DEF TypeOK
  <2>2. /\ \A i \in 1..Len(queue) : queue[i].defers \in Nat
        /\ Holding(p) => worker[p].msg.defers \in Nat
    BY Waiting, Held
  <2>3. Past(p) \in Nat /\ Past(p) <= stops
    BY <2>1 DEF Past
  <2> QED
    BY <2>1, <2>2, <2>3 DEF DeferInv, DefersBoundedByStops
<1> QED
  BY <1>1, <1>2, TypeInit, TypeStep, DeferInit, PTL DEF Spec


-----------------------------------------------------------------------------
(* Two processes: a turn is over before its lock expires, and also before  *)
(* the process that deleted it as a zombie has waited for its next turn.   *)

\* Process w takes no lock within the next n units of time.
Away(w, n) == w \in served /\ (worker[w].pc = "poll" \/ (worker[w].pc = "delay" /\ worker[w].left > n))

Apart(v, w) ==
  /\ worker[v].pc \in {"run", "release"} /\ worker[w].pc \in {"run", "release"} =>
       worker[v].msg.lead # worker[w].msg.lead
  /\ worker[v].pc = "run" =>
       /\ worker[v].left <= MaxTurn
       /\ lock[worker[v].msg.lead] > worker[v].left \/ Away(w, worker[v].left)
  /\ worker[v].pc = "release" => lock[worker[v].msg.lead] > 0 \/ Away(w, 0)

OneInv == \A v, w \in Worker : v # w => Apart(v, w)

\* Nobody runs.
LEMMA OneInit == Init => OneInv
<1> SUFFICES ASSUME Init, NEW w \in Worker PROVE worker[w].pc = "poll"
  BY DEF OneInv, Apart
<1>1. Fresh.pc = "poll"
  BY DEF Fresh
<1> HIDE DEF Fresh
<1> QED
  BY <1>1 DEF Init

\* A step of a, while the other process b stands still.
LEMMA OneStepOf ==
  ASSUME TypeOK, NEW a \in Worker, NEW b \in Worker, a # b, Apart(a, b), Apart(b, a),
         MaxTurn < LockTTL, MaxTurn < MinDelay, MaxStops = 0,
         Step(a) \/ Crash(a) \/ Shutdown(a) \/ Restart(a)
  PROVE  Apart(a, b)' /\ Apart(b, a)'
<1> USE Bounds
<1> HIDE DEF TypeOK
<1>p. /\ lock \in [Lead -> 0..LockTTL] /\ worker \in [Worker -> Process]
      /\ worker[a].left \in Nat /\ worker[b].left \in Nat
  <2>1. worker \in [Worker -> Process] /\ lock \in [Lead -> 0..LockTTL]
    BY Parts
  <2> QED
    BY <2>1 DEF Process
<1>l. \A l \in Lead : lock[l] \in Nat
  BY <1>p
<1>a. worker[a].pc \in {"run", "release", "acquire", "contended"} => worker[a].msg.lead \in Lead
  BY Held DEF Holding
<1>b. worker[b].pc \in {"run", "release"} => worker[b].msg.lead \in Lead
  BY Held DEF Holding
<1>f. Fresh.pc = "poll"
  BY DEF Fresh
<1>1. CASE DequeueStale(a)
  BY <1>1 DEF DequeueStale, Apart, Away
<1>2. CASE Dequeue(a)
  <2>1. PICK d \in (IF a \in served THEN MinDelay..MaxDelay ELSE {0}) :
          /\ worker'[a] = [pc |-> "delay", msg |-> Head(queue), left |-> d]
          /\ \A x \in Worker \ {a} : worker'[x] = worker[x]
    BY <1>2, DequeueType
  <2>2. UNCHANGED <<lock, served>> /\ worker[a].pc = "poll" /\ worker'[b] = worker[b]
    BY <1>2, <2>1 DEF Dequeue
  <2>3. worker'[a].pc = "delay" /\ worker'[a].left = d
    BY <2>1
  <2>4. a \in served => d > MaxTurn /\ d \in Nat
    BY <2>1
  <2> QED
    BY <2>2, <2>3, <2>4, <1>p DEF Apart, Away
<1>3. CASE DelayOver(a)
  <2>1. /\ Goes(a, "acquire") /\ "acquire" \in Pc /\ worker[a].pc = "delay" /\ worker[a].left = 0
        /\ UNCHANGED <<lock, served>>
    BY <1>3 DEF DelayOver, Pc
  <2>2. worker'[a].pc = "acquire" /\ worker'[b] = worker[b]
    BY <2>1, GoesType
  <2> QED
    BY <2>1, <2>2, <1>p DEF Apart, Away
<1>4. CASE Acquire(a)
  <2>1. PICK d \in 0..MaxTurn :
          /\ worker'[a] = [pc |-> "run", msg |-> worker[a].msg, left |-> d]
          /\ \A x \in Worker \ {a} : worker'[x] = worker[x]
          /\ lock[worker[a].msg.lead] = 0 /\ lock'[worker[a].msg.lead] = LockTTL
          /\ \A l \in Lead \ {worker[a].msg.lead} : lock'[l] = lock[l]
    BY <1>4, AcquireType
  <2>2. worker[a].pc = "acquire" /\ served' = served /\ worker'[b] = worker[b]
    BY <1>4, <2>1 DEF Acquire
  <2>3. worker'[a].pc = "run" /\ worker'[a].msg = worker[a].msg /\ worker'[a].left = d /\ d \in Nat
    BY <2>1
  <2>4. worker[b].pc \in {"run", "release"} =>
          /\ worker[b].msg.lead # worker[a].msg.lead
          /\ lock'[worker[b].msg.lead] = lock[worker[b].msg.lead]
    <3>1. worker[b].pc = "run" => lock[worker[b].msg.lead] > worker[b].left
      BY <2>2 DEF Apart, Away
    <3>2. worker[b].pc = "release" => lock[worker[b].msg.lead] > 0
      BY <2>2 DEF Apart, Away
    <3> QED
      BY <2>1, <3>1, <3>2, <1>p, <1>b
  <2>5. Apart(a, b)'
    BY <2>1, <2>2, <2>3, <2>4 DEF Apart
  <2>6. Apart(b, a)'
    BY <2>2, <2>3, <2>4 DEF Apart, Away
  <2> QED
    BY <2>5, <2>6
<1>5. CASE Contend(a)
  <2>1. /\ Goes(a, "contended") /\ "contended" \in Pc /\ worker[a].pc = "acquire"
        /\ UNCHANGED <<lock, served>>
    BY <1>5 DEF Contend, Pc
  <2>2. worker'[a].pc = "contended" /\ worker'[b] = worker[b]
    BY <2>1, GoesType
  <2> QED
    BY <2>1, <2>2 DEF Apart, Away
<1>6. CASE Defer(a) \/ Drop(a) \/ Release(a)
  <2>1. Polls(a)
    BY <1>6 DEF Defer, Drop, Release
  <2>2. worker'[a].pc = "poll" /\ a \in served' /\ worker'[b] = worker[b]
    BY <2>1, <1>f, PollsType DEF Polls
  <2> QED
    BY <2>2 DEF Apart, Away
<1>7. CASE TurnOver(a)
  <2>1. /\ Goes(a, "release") /\ "release" \in Pc /\ worker[a].pc = "run" /\ worker[a].left = 0
        /\ UNCHANGED <<lock, served>>
    BY <1>7 DEF TurnOver, Pc
  <2>2. worker'[a].pc = "release" /\ worker'[a].msg = worker[a].msg /\ worker'[b] = worker[b]
    BY <2>1, GoesType
  <2> QED
    BY <2>1, <2>2 DEF Apart, Away
<1>8. CASE Crash(a) \/ Shutdown(a)
  <2>1. stops < 0 /\ stops \in Nat
    BY <1>8, DownType, Parts
  <2> QED
    BY <2>1
<1>9. CASE Restart(a)
  <2>1. worker' = [worker EXCEPT ![a] = Fresh] /\ worker[a].pc = "down" /\ UNCHANGED <<lock, served>>
    BY <1>9 DEF Restart
  <2>2. worker'[a].pc = "poll" /\ worker'[b] = worker[b]
    <3> HIDE DEF Fresh
    <3> QED
      BY <2>1, <1>f, <1>p
  <2> QED
    BY <2>1, <2>2 DEF Apart, Away
<1> QED
  BY <1>1, <1>2, <1>3, <1>4, <1>5, <1>6, <1>7, <1>8, <1>9 DEF Step

\* One unit of time brings the end of the turn as near as the end of the lock and of the delay.
LEMMA OneTick ==
  ASSUME TypeOK, NEW v \in Worker, NEW w \in Worker, v # w, Apart(v, w), Tick
  PROVE  Apart(v, w)'
<1> USE Bounds
<1> HIDE DEF TypeOK
<1>1. \A x \in Worker :
        /\ worker[x].pc \in {"poll", "delay", "run", "down"} /\ worker'[x].pc = worker[x].pc
        /\ worker[x].pc \in {"delay", "run"} =>
             /\ worker[x].left > 0 /\ worker'[x].left = worker[x].left - 1
             /\ worker'[x].msg.lead = worker[x].msg.lead /\ worker[x].msg.lead \in Lead
  BY TickType, OlderPayload, ZenonT(40) DEF Payload
<1>2. \A l \in Lead : lock[l] \in Nat /\ lock'[l] = IF lock[l] > 0 THEN lock[l] - 1 ELSE 0
  BY TickType, Parts
<1>3. served' = served
  BY DEF Tick
<1>4. worker[v].left \in Nat /\ worker[w].left \in Nat
  BY Parts DEF Process
<1> QED
  BY <1>1, <1>2, <1>3, <1>4 DEF Apart, Away

\* README.md:21: two processes without a stop run no two turns of a lead at once, if a turn is
\* shorter than the lock and than the shortest delay.
THEOREM LockSerialisesTurns ==
  ASSUME NEW p, NEW q, Worker = {p, q}, MaxTurn < LockTTL, MaxTurn < MinDelay, MaxStops = 0
  PROVE  Spec => []OneTurnPerLead
<1>1. TypeOK /\ OneInv /\ [Next]_vars => OneInv'
  <2> SUFFICES ASSUME TypeOK, OneInv, [Next]_vars, NEW v \in Worker, NEW w \in Worker, v # w
               PROVE  Apart(v, w)'
    BY DEF OneInv
  <2> HIDE DEF TypeOK
  <2>1. Apart(v, w) /\ Apart(w, v)
    BY DEF OneInv
  <2>2. ASSUME NEW a \in Worker, Step(a) \/ Crash(a) \/ Shutdown(a) \/ Restart(a)
        PROVE  Apart(v, w)'
    <3>1. a = v \/ a = w
      OBVIOUS
    <3> QED
      BY <2>1, <2>2, <3>1, OneStepOf
  <2>3. CASE Tick
    BY <2>1, <2>3, OneTick
  <2>4. CASE UNCHANGED <<lock, worker, served>>
    BY <2>1, <2>4 DEF Apart, Away
  <2>5. (\E l \in Lead : Enqueue(l)) \/ UNCHANGED vars => UNCHANGED <<lock, worker, served>>
    BY DEF Enqueue, vars
  <2> QED
    BY <2>2, <2>3, <2>4, <2>5 DEF Next
<1>2. OneInv => OneTurnPerLead
  BY DEF OneInv, Apart, OneTurnPerLead
<1> QED
  BY <1>1, <1>2, TypeInit, TypeStep, OneInit, PTL DEF Spec
==============================================================================
