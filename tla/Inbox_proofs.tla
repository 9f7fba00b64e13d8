---------------------------- MODULE Inbox_proofs ----------------------------
(***************************************************************************)
(* Theorems about the way of a message to the queue: InboxPipeline, with a *)
(* Redis that does not fail and every interleaving of webhooks, drainer and*)
(* stops; and RedisClient, with a Redis that fails under one operation at a*)
(* time.  They hold for every set of leads, messages and deliveries and    *)
(* every bound.                                                            *)
(***************************************************************************)
EXTENDS InboxPipeline, RedisClient, SequenceTheorems, FiniteSetTheorems, TLAPS

-----------------------------------------------------------------------------
(* InboxPipeline. *)

\* Reverse keeps the elements' set: the items read from an inbox are messages.
LEMMA ReverseType ==
  ASSUME NEW S, NEW s \in Seq(S)
  PROVE  Reverse(s) \in Seq(S)
BY DEF Reverse

\* TypeOK holds at the start.
LEMMA TypeInit == Init => TypeOK
<1> USE PipelineAssumption
<1> QED BY DEF Init, TypeOK, CallPc, DrainPc, IdleDrainer, Payload

\* Every step keeps TypeOK.
LEMMA TypeStep == TypeOK /\ [Next]_vars => TypeOK'
<1> USE PipelineAssumption DEF TypeOK, CallPc, DrainPc, IdleDrainer
<1> SUFFICES ASSUME TypeOK, [Next]_vars PROVE TypeOK'
  OBVIOUS
<1>1. ASSUME NEW d \in Delivery, Webhook(d) PROVE TypeOK'
  <2>0. DLead(d) \in Lead /\ MsgOf[d] \in Msg
    BY DEF DLead
  <2>1. CASE MarkFirst(d)
    BY <2>0, <2>1 DEF MarkFirst, Goto
  <2>2. CASE MarkDuplicate(d)
    BY <2>0, <2>2 DEF MarkDuplicate, Goto, redisVars
  <2>3. CASE SetLastFromLead(d)
    BY <2>0, <2>3 DEF SetLastFromLead, Goto
  <2>4. CASE PushUnread(d)
    BY <2>0, <2>4 DEF PushUnread, Goto
  <2>5. CASE PushItem(d)
    <3>1. <<MsgOf[d]>> \o inbox[DLead(d)] \in Seq(Msg)
      BY <2>0
    <3> QED BY <2>0, <2>5, <3>1 DEF PushItem, Goto
  <2>6. CASE PushUnlist(d)
    BY <2>0, <2>6 DEF PushUnlist, Goto
  <2>7. CASE PushList(d)
    BY <2>0, <2>7 DEF PushList, Goto
  <2> QED BY <1>1, <2>1, <2>2, <2>3, <2>4, <2>5, <2>6, <2>7 DEF Webhook
<1>2. CASE ListActive
  BY <1>2 DEF ListActive, redisVars
<1>3. ASSUME NEW l \in Lead, DrainVisit(l) PROVE TypeOK'
  <2>1. CASE InspectReady(l)
    BY <2>1 DEF InspectReady, redisVars
  <2>2. CASE InspectSkip(l)
    BY <2>2 DEF InspectSkip, redisVars
  <2>3. CASE DrainRead(l)
    <3>1. Reverse(inbox[l]) \in Seq(Msg)
      BY ReverseType
    <3> QED BY <2>3, <3>1 DEF DrainRead, redisVars
  <2> QED BY <1>3, <2>1, <2>2, <2>3 DEF DrainVisit
<1>4. ASSUME NEW l \in Lead, ExpireInbox(l) PROVE TypeOK'
  BY <1>4 DEF ExpireInbox
<1>5. CASE DrainDelete
  <2>1. inbox' \in [Lead -> Seq(Msg)]
    BY <1>5 DEF DrainDelete
  <2>2. /\ drainer' \in [pc : DrainPc, listed : SUBSET Lead, ready : SUBSET Lead,
                         target : Lead \cup {NoLead}, items : Seq(Msg)]
        /\ drainer'.target \in Lead
    BY <1>5 DEF DrainDelete
  <2> QED BY <1>5, <2>1, <2>2 DEF DrainDelete
<1>6. CASE DrainUnlist
  BY <1>6 DEF DrainUnlist
<1>7. CASE DrainEnqueue
  <2>1. [lead |-> drainer.target, msgs |-> drainer.items] \in Payload
    BY <1>7 DEF DrainEnqueue, Payload
  <2>2. queue' \in Seq(Payload)
    BY <1>7, <2>1 DEF DrainEnqueue
  <2>3. /\ drainer' \in [pc : DrainPc, listed : SUBSET Lead, ready : SUBSET Lead,
                         target : Lead \cup {NoLead}, items : Seq(Msg)]
        /\ drainer'.pc = "pass"
    <3>1. drainer' = [drainer EXCEPT !.pc = "pass", !.target = NoLead, !.items = <<>>]
      BY <1>7 DEF DrainEnqueue
    <3>2. <<>> \in Seq(Msg)
      OBVIOUS
    <3> QED BY <3>1, <3>2
  <2> QED BY <1>7, <2>2, <2>3 DEF DrainEnqueue
<1>8. CASE Stop
  <2>1. /\ up' \in BOOLEAN
        /\ stops' \in 0..MaxStops
    <3>1. up' = FALSE /\ stops' = stops + 1 /\ stops < MaxStops
      BY <1>8 DEF Stop
    <3>2. up' \in BOOLEAN
      BY <3>1, Zenon
    <3>3. stops' \in 0..MaxStops
      BY <3>1, SMT
    <3> QED BY <3>2, <3>3
  <2>2. call' \in [Delivery -> CallPc]
    BY <1>8 DEF Stop
  <2>3. /\ drainer' \in [pc : DrainPc, listed : SUBSET Lead, ready : SUBSET Lead,
                         target : Lead \cup {NoLead}, items : Seq(Msg)]
        /\ drainer'.pc = "down"
    <3>1. drainer' = [pc |-> "down", listed |-> {}, ready |-> {}, target |-> NoLead, items |-> <<>>]
      BY <1>8 DEF Stop
    <3> QED BY <3>1
  <2> QED BY <1>8, <2>1, <2>2, <2>3 DEF Stop, redisVars
<1>9. CASE Restart
  BY <1>9 DEF Restart, redisVars
<1>10. CASE ExpireIndex
  BY <1>10 DEF ExpireIndex
<1>11. ASSUME NEW m \in Msg, ExpireDedup(m) PROVE TypeOK'
  BY <1>11 DEF ExpireDedup
<1>12. CASE UNCHANGED vars
  BY <1>12 DEF vars, redisVars
<1> QED
  BY <1>1, <1>2, <1>3, <1>4, <1>5, <1>6, <1>7, <1>8, <1>9, <1>10, <1>11, <1>12
  DEF Next, DrainStep

(***************************************************************************)
(* Type correctness: in particular a payload always names a lead, and a    *)
(* drainer in the middle of drain_inbox knows whose inbox it drains.       *)
(***************************************************************************)
THEOREM TypeCorrect == Spec => []TypeOK
BY TypeInit, TypeStep, PTL DEF Spec

-----------------------------------------------------------------------------
(***************************************************************************)
(* AtMostOnce is not inductive: it says nothing of the messages that are   *)
(* still on their way to the queue.  The invariant that is says, of every  *)
(* tracked message, that it is in at most ONE place altogether: in the     *)
(* hands of one webhook call, at one position of one inbox, of the items   *)
(* the drainer has read, or of one payload; and that its dedup key exists  *)
(* as long as it is anywhere, so that no call can bring it in again.  The  *)
(* one exception is the window of drain_inbox, between LRANGE and DEL,     *)
(* when the items read are still in the target's inbox as well.            *)
(***************************************************************************)
In(s, m) == \E i \in 1..Len(s) : s[i] = m
Once(s, m) == \A i, j \in 1..Len(s) : s[i] = m /\ s[j] = m => i = j

Carries(d, m) == Carrying(d) /\ MsgOf[d] = m
Read(m) == drainer.pc \in {"delete", "unlist", "enqueue"} /\ In(drainer.items, m)
Queued(m) == \E i \in 1..Len(queue) : In(queue[i].msgs, m)

InLists(m) == (\E l \in Lead : In(inbox[l], m)) \/ Read(m) \/ Queued(m)

OnePlace(m) ==
  /\ InLists(m) \/ (\E d \in Delivery : Carries(d, m)) => m \in dedup
  /\ \A d, e \in Delivery : Carries(d, m) /\ Carries(e, m) => d = e
  /\ \A d \in Delivery : Carries(d, m) => ~InLists(m)
  /\ \A l \in Lead : Once(inbox[l], m)
  /\ \A l, k \in Lead : In(inbox[l], m) /\ In(inbox[k], m) => l = k
  /\ Read(m) => Once(drainer.items, m)
  /\ \A l \in Lead : Read(m) /\ In(inbox[l], m) => drainer.pc = "delete" /\ l = drainer.target
  /\ \A i \in 1..Len(queue) : Once(queue[i].msgs, m)
  /\ \A i, j \in 1..Len(queue) : In(queue[i].msgs, m) /\ In(queue[j].msgs, m) => i = j
  /\ Queued(m) => ~Read(m) /\ \A l \in Lead : ~In(inbox[l], m)

IInv == TypeOK /\ \A m \in Msg : Tracked(m) => OnePlace(m)

\* Nothing is in the empty list.
LEMMA InEmpty == \A m : ~In(<<>>, m) /\ Once(<<>>, m)
BY DEF In, Once

\* What is in a list with a new first element.
LEMMA InCons ==
  ASSUME NEW S, NEW s \in Seq(S), NEW x \in S, NEW m
  PROVE  /\ In(<<x>> \o s, m) <=> x = m \/ In(s, m)
         /\ Once(s, m) /\ (x = m => ~In(s, m)) => Once(<<x>> \o s, m)
<1> DEFINE t == <<x>> \o s
<1>1. Len(t) = Len(s) + 1 /\ t[1] = x /\ \A i \in 1..Len(s) : t[i + 1] = s[i]
  OBVIOUS
<1>2. \A i \in 1..Len(t) : i = 1 \/ (i - 1 \in 1..Len(s) /\ t[i] = s[i - 1])
  <2> TAKE i \in 1..Len(t)
  <2>1. CASE i = 1
    BY <2>1
  <2>2. CASE i # 1
    <3>1. Len(s) \in Nat /\ i \in 2..(Len(s) + 1)
      BY <1>1, <2>2
    <3> QED BY <3>1
  <2> QED BY <2>1, <2>2
<1> HIDE DEF t
<1>3. In(t, m) <=> x = m \/ In(s, m)
  <2>1. In(t, m) => x = m \/ In(s, m)
    BY <1>1, <1>2 DEF In
  <2>2. x = m => In(t, m)
    <3>1. 1 \in 1..Len(t)
      BY <1>1
    <3> QED BY <1>1, <3>1 DEF In
  <2>3. In(s, m) => In(t, m)
    <3>1. \A i \in 1..Len(s) : i + 1 \in 1..Len(t)
      BY <1>1
    <3> QED BY <1>1, <3>1 DEF In
  <2> QED BY <2>1, <2>2, <2>3
<1>4. Once(s, m) /\ (x = m => ~In(s, m)) => Once(t, m)
  BY <1>1, <1>2 DEF In, Once
<1> QED BY <1>3, <1>4 DEF t

\* A reversed list has the same elements, as often.
LEMMA InReverse ==
  ASSUME NEW S, NEW s \in Seq(S), NEW m
  PROVE  /\ In(Reverse(s), m) <=> In(s, m)
         /\ Once(s, m) => Once(Reverse(s), m)
<1>1. /\ Len(Reverse(s)) = Len(s)
      /\ \A i \in 1..Len(s) : Reverse(s)[i] = s[Len(s) - i + 1]
  BY DEF Reverse
<1>2. \A i \in 1..Len(s) : Len(s) - i + 1 \in 1..Len(s) /\ Len(s) - (Len(s) - i + 1) + 1 = i
  OBVIOUS
<1>3. In(Reverse(s), m) <=> In(s, m)
  BY <1>1, <1>2 DEF In
<1>4. Once(s, m) => Once(Reverse(s), m)
  BY <1>1, <1>2 DEF Once
<1> QED BY <1>3, <1>4

\* A step that brings m nowhere keeps OnePlace(m).
LEMMA NoNewPlace ==
  ASSUME NEW m, OnePlace(m), m \in dedup => m \in dedup', queue' = queue,
         \A d \in Delivery : Carries(d, m)' => Carries(d, m),
         \A l \in Lead : inbox'[l] \in {inbox[l], <<>>},
         Read(m)' => /\ Read(m)
                     /\ drainer'.items = drainer.items /\ drainer'.target = drainer.target
                     /\ drainer.pc = "delete" => drainer'.pc = "delete"
  PROVE  OnePlace(m)'
<1>1. \A l \in Lead : In(inbox'[l], m) => inbox'[l] = inbox[l]
  BY InEmpty
<1>2. Queued(m)' <=> Queued(m)
  BY DEF Queued
<1>3. InLists(m)' => InLists(m)
  BY <1>1, <1>2 DEF InLists
<1>4. \A l \in Lead : Once(inbox'[l], m)
  BY InEmpty DEF OnePlace
<1>5. (InLists(m) \/ (\E d \in Delivery : Carries(d, m)) => m \in dedup)'
  BY <1>3 DEF OnePlace
<1>6. (\A d \in Delivery : Carries(d, m) => ~InLists(m))'
  BY <1>3 DEF OnePlace
<1>7. (\A d, e \in Delivery : Carries(d, m) /\ Carries(e, m) => d = e)'
  BY DEF OnePlace
<1>8. (\A l, k \in Lead : In(inbox[l], m) /\ In(inbox[k], m) => l = k)'
  BY <1>1 DEF OnePlace
<1>9. (Read(m) => Once(drainer.items, m))'
  BY DEF OnePlace
<1>10. (\A l \in Lead : Read(m) /\ In(inbox[l], m) => drainer.pc = "delete" /\ l = drainer.target)'
  BY <1>1 DEF OnePlace
<1>11. (Queued(m) => ~Read(m) /\ \A l \in Lead : ~In(inbox[l], m))'
  BY <1>1, <1>2 DEF OnePlace
<1>12. /\ (\A i \in 1..Len(queue) : Once(queue[i].msgs, m))'
       /\ (\A i, j \in 1..Len(queue) : In(queue[i].msgs, m) /\ In(queue[j].msgs, m) => i = j)'
  BY DEF OnePlace
<1> QED BY <1>4, <1>5, <1>6, <1>7, <1>8, <1>9, <1>10, <1>11, <1>12 DEF OnePlace

\* No step that leaves m tracked puts it in a second place.
LEMMA PlaceStep ==
  ASSUME TypeOK, [Next]_vars, NEW m \in Msg, Tracked(m)', Tracked(m) => OnePlace(m)
  PROVE  OnePlace(m)'
<1> USE PipelineAssumption
<1>0. Tracked(m) /\ OnePlace(m)
  <2>1. expired \subseteq expired'
    BY DEF Next, Webhook, MarkFirst, MarkDuplicate, SetLastFromLead, PushUnread, PushItem,
       PushUnlist, PushList, ListActive, DrainVisit, InspectReady, InspectSkip, DrainRead,
       ExpireInbox, DrainStep, DrainDelete, DrainUnlist, DrainEnqueue, Stop, Restart,
       ExpireIndex, ExpireDedup, vars, redisVars
  <2> QED BY <2>1 DEF Tracked
<1>1. ASSUME NEW d \in Delivery, MarkFirst(d) PROVE OnePlace(m)'
  <2>1. UNCHANGED <<queue, inbox, drainer>>
    BY <1>1 DEF MarkFirst
  <2>2. \A e \in Delivery : Carries(e, m)' => Carries(e, m) \/ e = d
    BY <1>1 DEF MarkFirst, Goto, Carries, Carrying, TypeOK
  <2>3. dedup' = dedup \cup {MsgOf[d]}
    BY <1>1 DEF MarkFirst
  <2>4. CASE MsgOf[d] # m
    <3>1. \A e \in Delivery : Carries(e, m)' => Carries(e, m)
      BY <2>2, <2>4 DEF Carries
    <3> QED BY <1>0, <2>1, <2>3, <3>1, NoNewPlace DEF Read
  <2>5. CASE MsgOf[d] = m
    <3>1. m \notin dedup /\ m \in dedup'
      BY <1>1, <2>3, <2>5 DEF MarkFirst
    <3>2. ~InLists(m) /\ \A e \in Delivery : ~Carries(e, m)
      BY <1>0, <3>1 DEF OnePlace
    <3>3. ~InLists(m)' /\ \A e \in Delivery : Carries(e, m)' => e = d
      BY <2>1, <2>2, <3>2 DEF InLists, Read, Queued
    <3> QED BY <1>0, <2>1, <3>1, <3>3 DEF OnePlace, Read, Queued, InLists
  <2> QED BY <2>4, <2>5
<1>2. ASSUME NEW d \in Delivery, PushItem(d) PROVE OnePlace(m)'
  <2> DEFINE k == DLead(d)
  <2>0. k \in Lead /\ MsgOf[d] \in Msg /\ inbox[k] \in Seq(Msg) /\ call[d] = "push"
    BY <1>2 DEF DLead, TypeOK, PushItem, Goto
  <2>1. UNCHANGED <<dedup, queue, drainer>>
    BY <1>2 DEF PushItem
  <2>2. inbox' = [inbox EXCEPT ![k] = <<MsgOf[d]>> \o inbox[k]]
    BY <1>2 DEF PushItem
  <2>3. \A e \in Delivery : Carries(e, m)' => Carries(e, m) /\ e # d
    BY <1>2 DEF PushItem, Goto, Carries, Carrying, TypeOK
  <2>4. /\ In(inbox'[k], m) <=> MsgOf[d] = m \/ In(inbox[k], m)
        /\ Once(inbox[k], m) /\ (MsgOf[d] = m => ~In(inbox[k], m)) => Once(inbox'[k], m)
    BY <2>0, <2>2, InCons DEF TypeOK
  <2>5. \A l \in Lead \ {k} : inbox'[l] = inbox[l]
    BY <2>2 DEF TypeOK
  <2>6. (Read(m) <=> Read(m)') /\ (Queued(m) <=> Queued(m)')
    BY <2>1 DEF Read, Queued
  <2> HIDE DEF k
  <2>7. CASE MsgOf[d] # m
    <3>1. \A l \in Lead : In(inbox'[l], m) <=> In(inbox[l], m)
      BY <2>4, <2>5, <2>7
    <3>2. \A l \in Lead : Once(inbox'[l], m)
      BY <1>0, <2>4, <2>5, <2>7 DEF OnePlace
    <3> QED BY <1>0, <2>1, <2>3, <2>6, <3>1, <3>2 DEF OnePlace, InLists
  <2>8. CASE MsgOf[d] = m
    <3>1. Carries(d, m)
      BY <2>0, <2>8 DEF Carries, Carrying
    <3>2. ~InLists(m) /\ m \in dedup
      BY <1>0, <3>1 DEF OnePlace
    <3>3. \A e \in Delivery : ~Carries(e, m)'
      BY <1>0, <2>3, <3>1 DEF OnePlace
    <3>4. \A l \in Lead : In(inbox'[l], m) => l = k
      BY <2>5, <3>2 DEF InLists
    <3>5. \A l \in Lead : Once(inbox'[l], m)
      BY <1>0, <2>0, <2>4, <2>5, <3>2 DEF OnePlace, InLists
    <3>6. ~Read(m)' /\ ~Queued(m)'
      BY <2>6, <3>2 DEF InLists
    <3> QED BY <1>0, <2>1, <3>2, <3>3, <3>4, <3>5, <3>6 DEF OnePlace
  <2> QED BY <2>7, <2>8
<1>3. ASSUME NEW d \in Delivery,
             \/ MarkDuplicate(d) \/ SetLastFromLead(d) \/ PushUnread(d) 
             \/ PushUnlist(d) \/ PushList(d)
      PROVE  OnePlace(m)'
  <2>1. \A e \in Delivery : Carries(e, m)' => Carries(e, m)
    BY <1>0, <1>3 DEF MarkDuplicate, SetLastFromLead, PushUnread, PushUnlist, PushList, Goto,
       Carries, Carrying, Tracked, TypeOK
  <2>2. UNCHANGED <<dedup, queue, inbox, drainer>>
    BY <1>3 DEF MarkDuplicate, SetLastFromLead, PushUnread, PushUnlist, PushList, redisVars
  <2> QED BY <1>0, <2>1, <2>2, NoNewPlace DEF Read
<1>4. ASSUME NEW l \in Lead, DrainRead(l) PROVE OnePlace(m)'
  <2>1. UNCHANGED <<dedup, queue, inbox, call>>
    BY <1>4 DEF DrainRead, redisVars
  <2>2. /\ drainer'.pc = "delete" /\ drainer'.target = l
        /\ drainer'.items = Reverse(inbox[l])
    BY <1>4 DEF DrainRead, TypeOK
  <2>3. /\ Read(m)' <=> In(inbox[l], m)
        /\ Once(drainer'.items, m)
    BY <1>0, <2>2, InReverse DEF Read, OnePlace, TypeOK
  <2>4. \A d \in Delivery : Carries(d, m)' <=> Carries(d, m)
    BY <2>1 DEF Carries, Carrying
  <2>5. Queued(m)' <=> Queued(m)
    BY <2>1 DEF Queued
  <2>6. InLists(m)' => InLists(m)
    BY <2>1, <2>3, <2>5 DEF InLists
  <2>7. (\A k \in Lead : Read(m) /\ In(inbox[k], m) => drainer.pc = "delete" /\ k = drainer.target)'
    BY <1>0, <2>1, <2>2, <2>3 DEF OnePlace
  <2>8. (Queued(m) => ~Read(m) /\ \A k \in Lead : ~In(inbox[k], m))'
    BY <1>0, <2>1, <2>3, <2>5 DEF OnePlace
  <2> QED BY <1>0, <2>1, <2>3, <2>4, <2>6, <2>7, <2>8 DEF OnePlace
<1>5. CASE DrainDelete
  <2>1. UNCHANGED <<dedup, queue, call>>
    BY <1>5 DEF DrainDelete
  <2>2. /\ drainer.pc = "delete" /\ drainer'.pc = "unlist"
        /\ drainer'.items = drainer.items /\ drainer'.target = drainer.target
    BY <1>5 DEF DrainDelete, TypeOK
  <2>3. inbox'[drainer.target] = <<>> /\ \A l \in Lead \ {drainer.target} : inbox'[l] = inbox[l]
    BY <1>5, <2>2 DEF DrainDelete, TypeOK
  <2>4. (Read(m)' <=> Read(m)) /\ (Queued(m)' <=> Queued(m))
    BY <2>1, <2>2 DEF Read, Queued
  <2>5. \A l \in Lead : In(inbox'[l], m) => In(inbox[l], m) /\ l # drainer.target
    BY <2>3, InEmpty
  <2>6. InLists(m)' => InLists(m)
    BY <2>4, <2>5 DEF InLists
  <2>7. \A l \in Lead : Once(inbox'[l], m)
    BY <1>0, <2>3, InEmpty DEF OnePlace
  <2>8. \A d \in Delivery : Carries(d, m)' <=> Carries(d, m)
    BY <2>1 DEF Carries, Carrying
  <2>9. \A l \in Lead : ~(Read(m)' /\ In(inbox'[l], m))
    BY <1>0, <2>4, <2>5 DEF OnePlace
  <2> QED BY <1>0, <2>1, <2>2, <2>4, <2>5, <2>6, <2>7, <2>8, <2>9 DEF OnePlace
<1>6. CASE DrainEnqueue
  <2> DEFINE p == [lead |-> drainer.target, msgs |-> drainer.items]
  <2>1. UNCHANGED <<dedup, inbox, call>>
    BY <1>6 DEF DrainEnqueue
  <2>2. drainer.pc = "enqueue" /\ drainer'.pc = "pass" /\ queue' = Append(queue, p)
    BY <1>6 DEF DrainEnqueue, TypeOK
  <2>3. /\ Len(queue) \in Nat /\ Len(queue') = Len(queue) + 1
        /\ queue'[Len(queue) + 1].msgs = drainer.items
        /\ \A i \in 1..Len(queue) : queue'[i] = queue[i]
    BY <2>2 DEF TypeOK
  <2> HIDE DEF p
  <2>4. \A i \in 1..Len(queue') : i \in 1..Len(queue) \/ i = Len(queue) + 1
    BY <2>3
  <2>5. Read(m) <=> In(drainer.items, m)
    BY <2>2 DEF Read
  <2>6. ~Read(m)' /\ (Queued(m)' <=> Queued(m) \/ Read(m))
    BY <2>2, <2>3, <2>4, <2>5 DEF Read, Queued
  <2>7. InLists(m)' => InLists(m)
    BY <2>1, <2>6 DEF InLists
  <2>8. \A d \in Delivery : Carries(d, m)' <=> Carries(d, m)
    BY <2>1 DEF Carries, Carrying
  <2>9. \A i \in 1..Len(queue') : Once(queue'[i].msgs, m)
    <3>1. Once(drainer.items, m)
      BY <1>0, <2>5 DEF OnePlace, In, Once
    <3> QED BY <1>0, <2>3, <2>4, <3>1 DEF OnePlace
  <2>10. \A i, j \in 1..Len(queue') :
           In(queue'[i].msgs, m) /\ In(queue'[j].msgs, m) => i = j
    <3>1. In(drainer.items, m) => \A i \in 1..Len(queue) : ~In(queue[i].msgs, m)
      BY <1>0, <2>5 DEF OnePlace, Queued
    <3> QED BY <1>0, <2>3, <2>4, <3>1 DEF OnePlace
  <2>11. \A l \in Lead : Queued(m)' => ~In(inbox'[l], m)
    BY <1>0, <2>1, <2>2, <2>6 DEF OnePlace
  <2> QED BY <1>0, <2>1, <2>6, <2>7, <2>8, <2>9, <2>10, <2>11 DEF OnePlace
<1>7. CASE DrainUnlist
  <2>1. UNCHANGED <<dedup, queue, inbox, call>>
    BY <1>7 DEF DrainUnlist
  <2>2. /\ drainer'.items = drainer.items /\ drainer.pc # "delete"
        /\ Read(m)' => Read(m) /\ drainer'.target = drainer.target
    BY <1>7 DEF DrainUnlist, TypeOK, Read
  <2> QED BY <1>0, <2>1, <2>2, NoNewPlace DEF Carries, Carrying
<1>8. ASSUME ListActive \/ (\E l \in Lead : InspectReady(l) \/ InspectSkip(l)) PROVE OnePlace(m)'
  <2>1. UNCHANGED <<dedup, queue, inbox, call>> /\ drainer'.pc = "pass"
    BY <1>8 DEF ListActive, InspectReady, InspectSkip, redisVars, TypeOK
  <2> QED BY <1>0, <2>1, NoNewPlace DEF Carries, Carrying, Read
<1>9. CASE Stop \/ Restart
  <2>1. UNCHANGED <<dedup, queue, inbox>> /\ drainer'.pc \in {"down", "pass"}
    BY <1>9 DEF Stop, Restart, redisVars, IdleDrainer
  <2>2. \A e \in Delivery : Carries(e, m)' => Carries(e, m)
    BY <1>9 DEF Stop, Restart, Carries, Carrying
  <2> QED BY <1>0, <2>1, <2>2, NoNewPlace DEF Read
<1>10. ASSUME ExpireIndex \/ (\E l \in Lead : ExpireInbox(l)) \/ (\E n \in Msg : ExpireDedup(n))
       PROVE  OnePlace(m)'
  <2>1. UNCHANGED <<queue, call, drainer>>
    BY <1>10 DEF ExpireIndex, ExpireInbox, ExpireDedup
  <2>2. m \in dedup => m \in dedup'
    BY <1>10 DEF ExpireIndex, ExpireInbox, ExpireDedup, Tracked
  <2>3. \A l \in Lead : inbox'[l] \in {inbox[l], <<>>}
    BY <1>10 DEF ExpireIndex, ExpireInbox, ExpireDedup, TypeOK
  <2> QED BY <1>0, <2>1, <2>2, <2>3, NoNewPlace DEF Carries, Carrying, Read
<1>11. CASE UNCHANGED vars
  BY <1>0, <1>11, NoNewPlace DEF vars, redisVars, Carries, Carrying, Read
<1> QED
  BY <1>1, <1>2, <1>3, <1>4, <1>5, <1>6, <1>7, <1>8, <1>9, <1>10, <1>11
  DEF Next, Webhook, DrainVisit, DrainStep

\* At first nothing is anywhere.
LEMMA InvInit == Init => IInv
<1> SUFFICES ASSUME Init PROVE IInv
  OBVIOUS
<1>1. TypeOK
  BY TypeInit
<1>2. ASSUME NEW m \in Msg PROVE OnePlace(m)
  <2>1. queue = <<>> /\ \A l \in Lead : inbox[l] = <<>>
    BY DEF Init
  <2>2. ~Queued(m) /\ Len(queue) = 0
    BY <2>1 DEF Queued
  <2>3. ~Read(m) /\ \A d \in Delivery : ~Carries(d, m)
    BY DEF Init, IdleDrainer, Read, Carries, Carrying
  <2>4. \A l \in Lead : ~In(inbox[l], m) /\ Once(inbox[l], m)
    BY <2>1, InEmpty
  <2> QED BY <2>2, <2>3, <2>4 DEF OnePlace, InLists
<1> QED BY <1>1, <1>2 DEF IInv

\* Every step keeps types and places.
LEMMA InvStep == IInv /\ [Next]_vars => IInv'
BY TypeStep, PlaceStep DEF IInv

\* One place at most is one answer at most.
LEMMA InvImplies == IInv => AtMostOnce
<1> SUFFICES ASSUME IInv, NEW i \in DOMAIN queue, NEW j \in DOMAIN queue,
                    NEW a \in DOMAIN queue[i].msgs, NEW b \in DOMAIN queue[j].msgs,
                    queue[i].msgs[a] = queue[j].msgs[b], Tracked(queue[i].msgs[a])
             PROVE  i = j /\ a = b
  BY DEF AtMostOnce
<1> DEFINE m == queue[i].msgs[a]
<1>1. /\ i \in 1..Len(queue) /\ j \in 1..Len(queue)
      /\ queue[i].msgs \in Seq(Msg) /\ queue[j].msgs \in Seq(Msg)
  <2>1. queue \in Seq(Payload)
    BY DEF IInv, TypeOK
  <2>2. i \in 1..Len(queue) /\ j \in 1..Len(queue)
    BY <2>1
  <2>3. queue[i] \in Payload /\ queue[j] \in Payload
    BY <2>1, <2>2
  <2> QED BY <2>2, <2>3 DEF Payload
<1>2. a \in 1..Len(queue[i].msgs) /\ b \in 1..Len(queue[j].msgs) /\ m \in Msg
  BY <1>1
<1>3. OnePlace(m) /\ In(queue[i].msgs, m) /\ In(queue[j].msgs, m)
  BY <1>1, <1>2 DEF IInv, In
<1>4. i = j
  BY <1>1, <1>3 DEF OnePlace
<1>5. a = b
  BY <1>1, <1>2, <1>3, <1>4 DEF OnePlace, Once
<1> QED BY <1>4, <1>5

(***************************************************************************)
(* A message that Evolution delivers several times is in at most one       *)
(* place of one payload while its dedup key lives, for any number of       *)
(* deliveries, leads and stops: the dedup of main.py:528 is enough, also   *)
(* though drain_inbox is not atomic.                                       *)
(***************************************************************************)
THEOREM AnsweredAtMostOnce == Spec => []AtMostOnce
BY InvInit, InvStep, InvImplies, PTL DEF Spec

-----------------------------------------------------------------------------
(***************************************************************************)
(* The two other promises of the pipeline rest on what the drainer has in  *)
(* its hand.  Between LRANGE and DEL the items it has read are the oldest  *)
(* of the inbox, for pushes add newer ones only and nobody else takes any  *)
(* out; so the DEL loses what was pushed since, and nothing else.          *)
(***************************************************************************)
DrainInv ==
  /\ ~up => drainer.pc = "down"
  /\ drainer.pc = "enqueue" => drainer.items # <<>>
  /\ drainer.pc = "delete" =>
       LET list == inbox[drainer.target]
       IN  /\ Len(drainer.items) <= Len(list)
           /\ \A i \in 1..Len(drainer.items) : drainer.items[i] = list[Len(list) + 1 - i]

\* The length and the elements of a reversed list, and of one with a new first element.
LEMMA ReverseElements ==
  ASSUME NEW S, NEW s \in Seq(S)
  PROVE  /\ Reverse(s) \in Seq(S) /\ Len(Reverse(s)) = Len(s)
         /\ \A i \in 1..Len(s) : Reverse(s)[i] = s[Len(s) + 1 - i]
<1>1. \A i \in 1..Len(s) : Len(s) - i + 1 = Len(s) + 1 - i
  OBVIOUS
<1> QED
  BY <1>1, ReverseType DEF Reverse

\* A new first element is the last one of the reversed list.
LEMMA ReverseCons ==
  ASSUME NEW S, NEW s \in Seq(S), NEW x \in S
  PROVE  Reverse(<<x>> \o s) = Append(Reverse(s), x)
<1> DEFINE t == <<x>> \o s
           r == Append(Reverse(s), x)
<1>1. t \in Seq(S) /\ Len(t) = Len(s) + 1 /\ t[1] = x /\ \A i \in 1..Len(s) : t[i + 1] = s[i]
  OBVIOUS
<1>2. /\ Reverse(t) \in Seq(S) /\ Len(Reverse(t)) = Len(t)
      /\ \A i \in 1..Len(t) : Reverse(t)[i] = t[Len(t) + 1 - i]
  BY <1>1, ReverseElements
<1>3. /\ Reverse(s) \in Seq(S) /\ Len(Reverse(s)) = Len(s)
      /\ \A i \in 1..Len(s) : Reverse(s)[i] = s[Len(s) + 1 - i]
  BY ReverseElements
<1>4. r \in Seq(S) /\ Len(r) = Len(s) + 1 /\ r[Len(s) + 1] = x /\ \A i \in 1..Len(s) : r[i] = Reverse(s)[i]
  BY <1>3
<1> HIDE DEF t, r
<1>5. \A i \in 1..Len(s) + 1 : Reverse(t)[i] = r[i]
  <2> TAKE i \in 1..Len(s) + 1
  <2>1. CASE i = Len(s) + 1
    BY <1>1, <1>2, <1>4, <2>1
  <2>2. CASE i \in 1..Len(s)
    <3>1. Len(s) + 1 - i \in 1..Len(s) /\ Len(t) + 1 - i = (Len(s) + 1 - i) + 1
      BY <1>1, <2>2
    <3> QED
      BY <1>1, <1>2, <1>3, <1>4, <2>2, <3>1
  <2> QED
    BY <2>1, <2>2
<1>6. Reverse(t) = r
  BY <1>1, <1>2, <1>4, <1>5, SeqEqual
<1> QED
  BY <1>6 DEF t, r

\* Of two lists put together, either is what is left when the other is cut off.
LEMMA ConcatParts ==
  ASSUME NEW S, NEW s \in Seq(S), NEW t \in Seq(S)
  PROVE  /\ s \o t \in Seq(S) /\ Len(s \o t) = Len(s) + Len(t)
         /\ SubSeq(s \o t, 1, Len(s)) = s
         /\ SubSeq(s \o t, Len(s) + 1, Len(s \o t)) = t
<1> DEFINE u == s \o t
<1>1. /\ u \in Seq(S) /\ Len(u) = Len(s) + Len(t) /\ Len(s) \in Nat /\ Len(t) \in Nat
      /\ \A i \in 1..Len(s) + Len(t) : u[i] = IF i <= Len(s) THEN s[i] ELSE t[i - Len(s)]
  BY ConcatProperties
<1>2. \A i \in 1..Len(u) : u[i] \in S
  BY <1>1
<1> HIDE DEF u
<1>3. SubSeq(u, 1, Len(s)) = s
  <2> DEFINE v == SubSeq(u, 1, Len(s))
  <2>1. v \in Seq(S) /\ Len(v) = Len(s) /\ \A i \in 1..Len(s) : v[i] = u[i]
    BY <1>1, <1>2
  <2>2. \A i \in 1..Len(s) : v[i] = s[i]
    BY <1>1, <2>1
  <2> HIDE DEF v
  <2>3. v = s
    BY <2>1, <2>2, SeqEqual
  <2> QED
    BY <2>3 DEF v
<1>4. SubSeq(u, Len(s) + 1, Len(u)) = t
  <2> DEFINE v == SubSeq(u, Len(s) + 1, Len(u))
  <2>1. v \in Seq(S) /\ Len(v) = Len(t) /\ \A i \in 1..Len(t) : v[i] = u[Len(s) + i]
    BY <1>1, <1>2
  <2>2. \A i \in 1..Len(t) : v[i] = t[i]
    BY SMTT(30), <1>1, <2>1
  <2> HIDE DEF v
  <2>3. v = t
    BY <2>1, <2>2, SeqEqual
  <2> QED
    BY <2>3 DEF v
<1> QED
  BY <1>1, <1>3, <1>4 DEF u

\* To append to the second of two lists is to append to both.
LEMMA ConcatAppend ==
  ASSUME NEW S, NEW s \in Seq(S), NEW t \in Seq(S), NEW x \in S
  PROVE  s \o Append(t, x) = Append(s \o t, x)
<1>1. <<x>> \in Seq(S) /\ s \o t \in Seq(S)
  OBVIOUS
<1>2. Append(t, x) = t \o <<x>> /\ Append(s \o t, x) = (s \o t) \o <<x>>
  BY <1>1, AppendIsConcat
<1>3. (s \o t) \o <<x>> = s \o (t \o <<x>>)
  BY <1>1, ConcatAssociative
<1> QED
  BY <1>2, <1>3

\* Every step keeps what the drainer holds the end of what it reads.
LEMMA DrainStepInv == TypeOK /\ DrainInv /\ [Next]_vars => DrainInv'
<1> SUFFICES ASSUME TypeOK, DrainInv, [Next]_vars
             PROVE  DrainInv'
  OBVIOUS
<1> USE PipelineAssumption
<1>1. ASSUME UNCHANGED <<drainer, inbox>>, ~up' => ~up
      PROVE  DrainInv'
  BY <1>1 DEF DrainInv
<1>2. ASSUME drainer'.pc \notin {"enqueue", "delete"}, up' \/ drainer'.pc = "down"
      PROVE  DrainInv'
  BY <1>2 DEF DrainInv
<1>3. ASSUME NEW d \in Delivery, PushItem(d)
      PROVE  DrainInv'
  <2>1. DLead(d) \in Lead /\ MsgOf[d] \in Msg
    BY DEF DLead
  <2>2. UNCHANGED <<drainer, up>> /\ inbox' = [inbox EXCEPT ![DLead(d)] = <<MsgOf[d]>> \o @]
    BY <1>3 DEF PushItem
  <2>3. CASE drainer.pc = "delete" /\ drainer.target = DLead(d)
    <3> DEFINE s == inbox[DLead(d)]
               t == <<MsgOf[d]>> \o s
    <3>1. s \in Seq(Msg) /\ inbox'[DLead(d)] = t
      BY <2>1, <2>2 DEF TypeOK
    <3>2. t \in Seq(Msg) /\ Len(t) = Len(s) + 1 /\ \A i \in 1..Len(s) : t[i + 1] = s[i]
      BY <2>1, <3>1
    <3>3. /\ Len(drainer.items) <= Len(s) /\ Len(drainer.items) \in Nat /\ Len(s) \in Nat
          /\ \A i \in 1..Len(drainer.items) : drainer.items[i] = s[Len(s) + 1 - i]
      BY <2>3, <3>1 DEF DrainInv, TypeOK
    <3> HIDE DEF s, t
    <3>4. \A i \in 1..Len(drainer.items) :
            Len(s) + 1 - i \in 1..Len(s) /\ Len(t) + 1 - i = (Len(s) + 1 - i) + 1
      BY <3>2, <3>3
    <3>5. \A i \in 1..Len(drainer.items) : drainer.items[i] = t[Len(t) + 1 - i]
      BY <3>2, <3>3, <3>4
    <3>6. Len(drainer.items) <= Len(t)
      BY <3>2, <3>3
    <3> QED
      BY <2>2, <2>3, <3>1, <3>5, <3>6 DEF DrainInv
  <2>4. CASE drainer.pc = "delete" /\ drainer.target # DLead(d)
    <3>1. inbox'[drainer.target] = inbox[drainer.target]
      BY <2>1, <2>2, <2>4 DEF TypeOK
    <3> QED
      BY <2>2, <2>4, <3>1 DEF DrainInv
  <2>5. CASE drainer.pc # "delete"
    BY <2>2, <2>5 DEF DrainInv
  <2> QED
    BY <2>3, <2>4, <2>5
<1>4. ASSUME NEW d \in Delivery, Webhook(d), ~PushItem(d)
      PROVE  DrainInv'
  BY <1>1, <1>4 DEF Webhook, MarkFirst, MarkDuplicate, SetLastFromLead, PushUnread, PushUnlist, PushList, redisVars
<1>5. ASSUME NEW l \in Lead, DrainRead(l)
      PROVE  DrainInv'
  <2>1. inbox[l] \in Seq(Msg)
    BY DEF TypeOK
  <2>2. /\ Len(Reverse(inbox[l])) = Len(inbox[l])
        /\ \A i \in 1..Len(inbox[l]) : Reverse(inbox[l])[i] = inbox[l][Len(inbox[l]) + 1 - i]
    BY <2>1, ReverseElements
  <2>3. drainer'.pc = "delete" /\ drainer'.target = l /\ drainer'.items = Reverse(inbox[l])
    BY <1>5 DEF DrainRead, TypeOK
  <2>4. inbox' = inbox /\ up' = up /\ (~up => drainer.pc = "down") /\ drainer.pc = "pass"
    BY <1>5 DEF DrainRead, redisVars, DrainInv
  <2>5. Len(inbox[l]) \in Nat
    BY <2>1
  <2> QED
    BY <2>2, <2>3, <2>4, <2>5 DEF DrainInv
<1>6. ASSUME NEW l \in Lead, InspectReady(l) \/ InspectSkip(l)
      PROVE  DrainInv'
  <2>1. drainer.pc = "pass" /\ drainer'.pc = "pass" /\ up' = up
    BY <1>6 DEF InspectReady, InspectSkip, TypeOK
  <2> QED
    BY <1>2, <2>1 DEF DrainInv
<1>7. CASE ListActive
  <2>1. drainer.pc = "pass" /\ drainer'.pc = "pass" /\ up' = up
    BY <1>7 DEF ListActive, TypeOK
  <2> QED
    BY <1>2, <2>1 DEF DrainInv
<1>8. ASSUME NEW l \in Lead, ExpireInbox(l)
      PROVE  DrainInv'
  <2>1. /\ UNCHANGED <<drainer, up>> /\ (drainer.target = l => drainer.pc # "delete")
        /\ inbox' = [inbox EXCEPT ![l] = <<>>]
    BY <1>8 DEF ExpireInbox
  <2>2. drainer.pc = "delete" => inbox'[drainer.target] = inbox[drainer.target]
    BY <2>1 DEF TypeOK
  <2> QED
    BY <2>1, <2>2 DEF DrainInv
<1>9. CASE DrainDelete
  <2>1. drainer.pc = "delete" /\ drainer'.pc = "unlist" /\ up' = up
    BY <1>9 DEF DrainDelete, TypeOK
  <2> QED
    BY <1>2, <2>1 DEF DrainInv
<1>10. CASE DrainUnlist
  <2>1. drainer.pc = "unlist" /\ up' = up
    BY <1>10 DEF DrainUnlist
  <2>2. drainer'.pc = "pass" \/ (drainer'.pc = "enqueue" /\ drainer'.items # <<>>)
    BY <1>10 DEF DrainUnlist, TypeOK
  <2> QED
    BY <2>1, <2>2 DEF DrainInv
<1>11. CASE DrainEnqueue
  <2>1. drainer.pc = "enqueue" /\ drainer'.pc = "pass" /\ up' = up
    BY <1>11 DEF DrainEnqueue, TypeOK
  <2> QED
    BY <1>2, <2>1 DEF DrainInv
<1>12. CASE Stop
  <2>1. drainer'.pc = "down"
    BY <1>12 DEF Stop, IdleDrainer
  <2> QED
    BY <1>2, <2>1
<1>13. CASE Restart
  <2>1. drainer'.pc = "pass" /\ up'
    BY <1>13 DEF Restart, IdleDrainer
  <2> QED
    BY <1>2, <2>1
<1>14. CASE ExpireIndex \/ UNCHANGED vars
  BY <1>1, <1>14 DEF ExpireIndex, vars, redisVars
<1>15. ASSUME NEW m \in Msg, ExpireDedup(m)
      PROVE  DrainInv'
  BY <1>1, <1>15 DEF ExpireDedup
<1> QED
  BY <1>3, <1>4, <1>5, <1>6, <1>7, <1>8, <1>9, <1>10, <1>11, <1>12, <1>13, <1>14, <1>15
  DEF Next, DrainVisit, DrainStep

\* Types and hand throughout.
LEMMA DrainAlways == Spec => [](TypeOK /\ DrainInv)
<1>1. Init => DrainInv
  BY DEF Init, DrainInv, IdleDrainer
<1> QED
  BY <1>1, TypeInit, TypeStep, DrainStepInv, PTL DEF Spec

-----------------------------------------------------------------------------
(* The refinement of BatchChannel.  A mailbox is what waits of its lead.   *)

\* What waits of a lead is a list of messages.
LEMMA WaitingType == TypeOK => \A l \in Lead : Waiting(l) \in Seq(Msg) /\ Len(Waiting(l)) \in Nat
<1> SUFFICES ASSUME TypeOK, NEW l \in Lead
             PROVE  Waiting(l) \in Seq(Msg)
  OBVIOUS
<1>1. Reverse(inbox[l]) \in Seq(Msg) /\ drainer.items \in Seq(Msg)
  BY ReverseType DEF TypeOK
<1> QED
  BY <1>1 DEF Waiting

\* A step that leaves all mailboxes and the queue alone is no step of the channel.
LEMMA MailStays ==
  ASSUME queue' = queue, \A l \in Lead : Waiting(l)' = Waiting(l)
  PROVE  UNCHANGED Channel!channelVars
BY DEF Channel!channelVars

\* A step that keeps a stretch of one mailbox and all of the others loses the rest of it.
LEMMA MailLost ==
  ASSUME TypeOK, queue' = queue, NEW k \in Lead,
         NEW i \in 1..Len(Waiting(k)) + 1, NEW j \in 0..Len(Waiting(k)),
         Waiting(k)' = SubSeq(Waiting(k), i, j),
         \A l \in Lead \ {k} : Waiting(l)' = Waiting(l)
  PROVE  Channel!ChannelNext
<1> DEFINE box == [l \in Lead |-> Waiting(l)]
<1>1. box' = [box EXCEPT ![k] = SubSeq(@, i, j)]
  OBVIOUS
<1>2. i \in 1..(Len(box[k]) + 1) /\ j \in 0..Len(box[k])
  OBVIOUS
<1>3. Channel!Lose(k, i, j)
  BY <1>1 DEF Channel!Lose
<1> QED
  BY <1>2, <1>3 DEF Channel!ChannelNext

\* LPUSH puts a message at the back of its lead's mailbox.
LEMMA PushIsPush ==
  ASSUME TypeOK, NEW d \in Delivery, PushItem(d)
  PROVE  Channel!ChannelNext
<1> USE PipelineAssumption
<1> DEFINE k == DLead(d)
           m == MsgOf[d]
           box == [l \in Lead |-> Waiting(l)]
<1>1. k \in Lead /\ m \in Msg /\ k = LeadOf[m]
  BY DEF DLead
<1>2. UNCHANGED <<drainer, queue>> /\ inbox' = [inbox EXCEPT ![k] = <<m>> \o @]
  BY DEF PushItem
<1>3. inbox[k] \in Seq(Msg) /\ Reverse(inbox[k]) \in Seq(Msg) /\ drainer.items \in Seq(Msg)
  BY <1>1, ReverseType DEF TypeOK
<1> HIDE DEF k, m
<1>4. Reverse(inbox'[k]) = Append(Reverse(inbox[k]), m)
  <2>1. inbox'[k] = <<m>> \o inbox[k]
    BY <1>1, <1>2 DEF TypeOK
  <2> QED
    BY <1>1, <1>3, <2>1, ReverseCons
<1>5. drainer.items \o Append(Reverse(inbox[k]), m) = Append(drainer.items \o Reverse(inbox[k]), m)
  <2> DEFINE s == drainer.items
             t == Reverse(inbox[k])
  <2>1. s \in Seq(Msg) /\ t \in Seq(Msg) /\ m \in Msg
    BY <1>1, <1>3
  <2> HIDE DEF s, t
  <2>2. s \o Append(t, m) = Append(s \o t, m)
    BY <2>1, ConcatAppend
  <2> QED
    BY <2>2 DEF s, t
<1>6. Waiting(k)' = Append(Waiting(k), m)
  BY <1>2, <1>4, <1>5 DEF Waiting
<1>7. \A l \in Lead \ {k} : Waiting(l)' = Waiting(l)
  BY <1>1, <1>2 DEF Waiting, TypeOK
<1>8. Channel!Push(m)
  <2>1. box' = [box EXCEPT ![LeadOf[m]] = Append(@, m)]
    BY <1>1, <1>6, <1>7
  <2> QED
    BY <1>2, <2>1 DEF Channel!Push
<1> QED
  BY <1>1, <1>8 DEF Channel!ChannelNext

\* What the DEL of the inbox takes beyond the items in hand is lost from the mailbox.
LEMMA DeleteLoses ==
  ASSUME TypeOK, DrainInv, DrainDelete
  PROVE  Channel!ChannelNext
<1>0. PICK k \in Lead : k = drainer.target
  BY DEF TypeOK, DrainDelete
<1> DEFINE items == drainer.items
           list == inbox[k]
<1>1. k \in Lead /\ items \in Seq(Msg) /\ list \in Seq(Msg) /\ Len(items) \in Nat /\ Len(list) \in Nat
  BY <1>0 DEF TypeOK, DrainDelete
<1>2. /\ drainer.pc = "delete" /\ drainer.target = k /\ drainer'.pc = "unlist" /\ drainer'.target = k /\ drainer'.items = items
      /\ inbox' = [inbox EXCEPT ![k] = <<>>] /\ queue' = queue
  BY <1>0 DEF TypeOK, DrainDelete
<1>3. Len(items) <= Len(list) /\ \A i \in 1..Len(items) : items[i] = list[Len(list) + 1 - i]
  BY <1>2 DEF DrainInv
<1>4. Waiting(k) = Reverse(list)
  BY <1>2 DEF Waiting
<1>5. Waiting(k)' = items
  <2>1. inbox'[k] = <<>> /\ Reverse(<<>>) = <<>>
    <3>1. Reverse(<<>>) \in Seq(Msg) /\ Len(Reverse(<<>>)) = 0
      BY ReverseElements, EmptySeq
    <3> QED
      BY <1>1, <1>2, <3>1, EmptySeq DEF TypeOK
  <2>2. Waiting(k)' = items \o <<>>
    BY <1>2, <2>1 DEF Waiting
  <2> QED
    BY <1>1, <2>2, ConcatEmptySeq
<1>6. \A l \in Lead \ {k} : Waiting(l)' = Waiting(l)
  BY <1>1, <1>2 DEF Waiting, TypeOK
<1> HIDE DEF items, list
<1>7. /\ Reverse(list) \in Seq(Msg) /\ Len(Reverse(list)) = Len(list)
      /\ \A i \in 1..Len(list) : Reverse(list)[i] = list[Len(list) + 1 - i]
  BY <1>1, ReverseElements
<1>8. items = SubSeq(Reverse(list), 1, Len(items))
  <2> DEFINE part == SubSeq(Reverse(list), 1, Len(items))
  <2>1. part \in Seq(Msg) /\ Len(part) = Len(items) /\ \A i \in 1..Len(items) : part[i] = Reverse(list)[i]
    BY <1>1, <1>3, <1>7
  <2>2. \A i \in 1..Len(items) : i \in 1..Len(list) /\ part[i] = items[i]
    BY <1>1, <1>3, <1>7, <2>1
  <2> HIDE DEF part
  <2>3. items = part
    BY <1>1, <2>1, <2>2, SeqEqual
  <2> QED
    BY <2>3 DEF part
<1>9. 1 \in 1..Len(Waiting(k)) + 1 /\ Len(items) \in 0..Len(Waiting(k))
  BY <1>1, <1>3, <1>4, <1>7
<1>10. Waiting(k)' = SubSeq(Waiting(k), 1, Len(items))
  BY <1>4, <1>5, <1>8
<1> QED
  BY <1>1, <1>2, <1>6, <1>9, <1>10, MailLost

\* The expiry of an inbox keeps what the drainer has in its hand.
LEMMA ExpiryLoses ==
  ASSUME TypeOK, NEW k \in Lead, ExpireInbox(k)
  PROVE  Channel!ChannelNext
<1>1. /\ UNCHANGED <<drainer, queue>> /\ inbox' = [inbox EXCEPT ![k] = <<>>]
      /\ (drainer.target = k => drainer.pc # "delete")
  BY DEF ExpireInbox
<1>2. inbox'[k] = <<>> /\ \A l \in Lead \ {k} : Waiting(l)' = Waiting(l)
  BY <1>1 DEF Waiting, TypeOK
<1>3. Reverse(<<>>) = <<>>
  <2>1. Reverse(<<>>) \in Seq(Msg) /\ Len(Reverse(<<>>)) = 0
    BY ReverseElements, EmptySeq
  <2> QED
    BY <2>1, EmptySeq
<1>4. Reverse(inbox[k]) \in Seq(Msg) /\ drainer.items \in Seq(Msg) /\ Len(drainer.items) \in Nat
  BY ReverseType DEF TypeOK
<1>5. Waiting(k) \in Seq(Msg) /\ Len(Waiting(k)) \in Nat
  BY WaitingType
<1>6. CASE drainer.pc \in {"unlist", "enqueue"} /\ drainer.target = k
  <2>1. Waiting(k) = drainer.items \o Reverse(inbox[k])
    BY <1>6 DEF Waiting
  <2>2. Waiting(k)' = drainer.items
    <3>1. Waiting(k)' = drainer.items \o <<>>
      BY <1>1, <1>2, <1>3, <1>6 DEF Waiting
    <3> QED
      BY <1>4, <3>1, ConcatEmptySeq
  <2>3. drainer.items = SubSeq(Waiting(k), 1, Len(drainer.items)) /\ Len(drainer.items) <= Len(Waiting(k))
    <3> DEFINE s == drainer.items
               t == Reverse(inbox[k])
               u == Waiting(k)
    <3>1. s \in Seq(Msg) /\ t \in Seq(Msg) /\ u = s \o t
      BY <1>4, <2>1
    <3> HIDE DEF s, t, u
    <3>2. Len(s) \in Nat /\ Len(t) \in Nat
      BY <3>1
    <3>3. SubSeq(u, 1, Len(s)) = s /\ Len(u) = Len(s) + Len(t)
      BY <3>1, ConcatParts
    <3>4. s = SubSeq(u, 1, Len(s)) /\ Len(s) <= Len(u)
      BY <3>2, <3>3
    <3> QED
      BY <3>4 DEF s, u
  <2>4. 1 \in 1..Len(Waiting(k)) + 1 /\ Len(drainer.items) \in 0..Len(Waiting(k))
    BY <1>4, <1>5, <2>3
  <2> QED
    BY <1>1, <1>2, <2>2, <2>3, <2>4, MailLost
<1>7. CASE ~(drainer.pc \in {"unlist", "enqueue"} /\ drainer.target = k)
  <2>1. Waiting(k)' = <<>>
    BY <1>1, <1>2, <1>3, <1>7 DEF Waiting
  <2>2. SubSeq(Waiting(k), 1, 0) = <<>>
    BY SubSeqEmpty
  <2>3. 1 \in 1..Len(Waiting(k)) + 1 /\ 0 \in 0..Len(Waiting(k))
    BY <1>5
  <2> QED
    BY <1>1, <1>2, <2>1, <2>2, <2>3, MailLost
<1> QED
  BY <1>6, <1>7

\* A stop loses what the drainer has in its hand.
LEMMA StopLoses ==
  ASSUME TypeOK, Stop
  PROVE  [Channel!ChannelNext]_(Channel!channelVars)
<1>1. UNCHANGED <<inbox, queue>> /\ drainer'.pc = "down"
  BY DEF Stop, redisVars, IdleDrainer
<1>2. \A l \in Lead : Waiting(l)' = Reverse(inbox[l])
  BY <1>1 DEF Waiting
<1>3. CASE drainer.pc \in {"unlist", "enqueue"}
  <2>0. PICK k \in Lead : k = drainer.target
    BY <1>3 DEF TypeOK
  <2>1. drainer.items \in Seq(Msg) /\ Reverse(inbox[k]) \in Seq(Msg) /\ Len(drainer.items) \in Nat
    BY ReverseType DEF TypeOK
  <2>2. Waiting(k) = drainer.items \o Reverse(inbox[k]) /\ \A l \in Lead \ {k} : Waiting(l)' = Waiting(l)
    BY <1>2, <1>3, <2>0 DEF Waiting
  <2>3. Waiting(k) \in Seq(Msg) /\ Len(Waiting(k)) \in Nat
    BY <2>1, WaitingType
  <2>4. /\ Reverse(inbox[k]) = SubSeq(Waiting(k), Len(drainer.items) + 1, Len(Waiting(k)))
        /\ Len(drainer.items) <= Len(Waiting(k))
    <3> DEFINE s == drainer.items
               t == Reverse(inbox[k])
               u == Waiting(k)
    <3>1. s \in Seq(Msg) /\ t \in Seq(Msg) /\ u = s \o t
      BY <2>1, <2>2
    <3> HIDE DEF s, t, u
    <3>2. Len(s) \in Nat /\ Len(t) \in Nat
      BY <3>1
    <3>3. SubSeq(u, Len(s) + 1, Len(u)) = t /\ Len(u) = Len(s) + Len(t)
      BY <3>1, ConcatParts
    <3>4. t = SubSeq(u, Len(s) + 1, Len(u)) /\ Len(s) <= Len(u)
      BY <3>2, <3>3
    <3> QED
      BY <3>4 DEF s, t, u
  <2>5. Len(drainer.items) + 1 \in 1..Len(Waiting(k)) + 1 /\ Len(Waiting(k)) \in 0..Len(Waiting(k))
    BY <2>1, <2>3, <2>4
  <2> QED
    BY <1>1, <1>2, <2>1, <2>2, <2>4, <2>5, MailLost
<1>4. CASE drainer.pc \notin {"unlist", "enqueue"}
  BY <1>1, <1>2, <1>4, MailStays DEF Waiting
<1> QED
  BY <1>3, <1>4

\* The LPUSH to the queue hands over a batch from the front of the mailbox.
LEMMA EnqueueIsBatch ==
  ASSUME TypeOK, DrainInv, DrainEnqueue
  PROVE  Channel!ChannelNext
<1>0. PICK k \in Lead : k = drainer.target
  BY DEF TypeOK, DrainEnqueue
<1> DEFINE items == drainer.items
           box == [l \in Lead |-> Waiting(l)]
<1>1. k \in Lead /\ items \in Seq(Msg) /\ items # <<>> /\ Reverse(inbox[k]) \in Seq(Msg) /\ Len(items) \in Nat
  BY ReverseType DEF TypeOK, DrainInv, DrainEnqueue
<1>2. /\ drainer.pc = "enqueue" /\ drainer'.pc = "pass" /\ inbox' = inbox
      /\ queue' = Append(queue, [lead |-> k, msgs |-> items])
  BY <1>0 DEF TypeOK, DrainEnqueue
<1>3. Waiting(k) = items \o Reverse(inbox[k]) /\ Waiting(k)' = Reverse(inbox[k])
  BY <1>0, <1>2 DEF Waiting
<1>4. \A l \in Lead \ {k} : Waiting(l)' = Waiting(l)
  BY <1>0, <1>2 DEF Waiting
<1> HIDE DEF items
<1>5. /\ Len(Waiting(k)) = Len(items) + Len(Reverse(inbox[k])) /\ Len(Waiting(k)) \in Nat
      /\ SubSeq(Waiting(k), 1, Len(items)) = items
      /\ SubSeq(Waiting(k), Len(items) + 1, Len(Waiting(k))) = Reverse(inbox[k])
  BY <1>1, <1>3, ConcatParts
<1>6. Len(items) \in 1..Len(box[k])
  <2>1. Len(items) > 0 /\ Len(Reverse(inbox[k])) \in Nat
    BY <1>1
  <2> QED
    BY <1>1, <1>5, <2>1
<1>7. Channel!Batch(k, Len(items))
  <2>1. box' = [box EXCEPT ![k] = SubSeq(@, Len(items) + 1, Len(@))]
    BY <1>1, <1>3, <1>4, <1>5
  <2>2. queue' = Append(queue, [lead |-> k, msgs |-> SubSeq(box[k], 1, Len(items))])
    BY <1>1, <1>2, <1>5
  <2> QED
    BY <2>1, <2>2 DEF Channel!Batch
<1> QED
  BY <1>1, <1>6, <1>7 DEF Channel!ChannelNext

\* The other steps of the pipeline move nothing.
LEMMA PipelineStep ==
  TypeOK /\ DrainInv /\ [Next]_vars => [Channel!ChannelNext]_(Channel!channelVars)
<1> SUFFICES ASSUME TypeOK, DrainInv, [Next]_vars
             PROVE  [Channel!ChannelNext]_(Channel!channelVars)
  OBVIOUS
<1>1. ASSUME UNCHANGED <<inbox, queue>>, drainer'.items = drainer.items, drainer'.target = drainer.target,
             drainer'.pc = drainer.pc \/ {drainer.pc, drainer'.pc} \cap {"unlist", "enqueue"} = {}
                                      \/ {drainer.pc, drainer'.pc} \subseteq {"unlist", "enqueue"}
      PROVE  UNCHANGED Channel!channelVars
  <2>1. \A l \in Lead : Waiting(l)' = Waiting(l)
    BY <1>1 DEF Waiting
  <2> QED
    BY <1>1, <2>1, MailStays
<1>2. ASSUME UNCHANGED <<inbox, queue>>, {drainer.pc, drainer'.pc} \cap {"unlist", "enqueue"} = {}
      PROVE  UNCHANGED Channel!channelVars
  <2>1. \A l \in Lead : Waiting(l)' = Waiting(l)
    BY <1>2 DEF Waiting
  <2> QED
    BY <1>2, <2>1, MailStays
<1>3. ASSUME NEW d \in Delivery, Webhook(d)
      PROVE  [Channel!ChannelNext]_(Channel!channelVars)
  <2>1. CASE PushItem(d)
    BY <2>1, PushIsPush
  <2>2. CASE ~PushItem(d)
    <3>1. UNCHANGED <<inbox, queue, drainer>>
      BY <1>3, <2>2 DEF Webhook, MarkFirst, MarkDuplicate, SetLastFromLead, PushUnread, PushUnlist, PushList,
         redisVars
    <3> QED
      BY <1>1, <3>1
  <2> QED
    BY <2>1, <2>2
<1>4. ASSUME NEW l \in Lead, DrainVisit(l)
      PROVE  UNCHANGED Channel!channelVars
  <2>1. UNCHANGED <<inbox, queue>> /\ drainer.pc = "pass" /\ drainer'.pc \in {"pass", "delete"}
    BY <1>4 DEF DrainVisit, InspectReady, InspectSkip, DrainRead, redisVars, TypeOK
  <2> QED
    BY <1>2, <2>1
<1>5. CASE ListActive
  <2>1. UNCHANGED <<inbox, queue>> /\ drainer.pc = "pass" /\ drainer'.pc = "pass"
    BY <1>5 DEF ListActive, redisVars, TypeOK
  <2> QED
    BY <1>2, <2>1
<1>6. CASE DrainUnlist
  <2>1. UNCHANGED <<inbox, queue>> /\ drainer.pc = "unlist" /\ drainer.target \in Lead
    BY <1>6 DEF DrainUnlist, TypeOK
  <2>2. CASE drainer.items = <<>>
    <3>1. drainer'.pc = "pass"
      BY <1>6, <2>2 DEF DrainUnlist, TypeOK
    <3>2. \A l \in Lead : <<>> \o Reverse(inbox[l]) = Reverse(inbox[l])
      BY ReverseType, ConcatEmptySeq DEF TypeOK
    <3>3. \A l \in Lead : Waiting(l)' = Waiting(l)
      BY <2>1, <2>2, <3>1, <3>2 DEF Waiting
    <3> QED
      BY <2>1, <3>3, MailStays
  <2>3. CASE drainer.items # <<>>
    <3>1. drainer'.pc = "enqueue" /\ drainer'.items = drainer.items /\ drainer'.target = drainer.target
      BY <1>6, <2>3 DEF DrainUnlist, TypeOK
    <3> QED
      BY <1>1, <2>1, <3>1
  <2> QED
    BY <2>2, <2>3
<1>7. CASE Restart
  <2>1. UNCHANGED <<inbox, queue>> /\ drainer.pc = "down" /\ drainer'.pc = "pass"
    BY <1>7 DEF Restart, redisVars, DrainInv, IdleDrainer
  <2> QED
    BY <1>2, <2>1
<1>8. CASE ExpireIndex \/ UNCHANGED vars
  BY <1>1, <1>8 DEF ExpireIndex, vars, redisVars
<1>9. ASSUME NEW m \in Msg, ExpireDedup(m)
      PROVE  UNCHANGED Channel!channelVars
  BY <1>1, <1>9 DEF ExpireDedup
<1> QED
  BY <1>3, <1>4, <1>5, <1>6, <1>7, <1>8, <1>9, DeleteLoses, ExpiryLoses, StopLoses, EnqueueIsBatch DEF Next, DrainStep

(***************************************************************************)
(* redis_store.py:282-370, main.py:627-716: inbox and drainer are a lossy  *)
(* FIFO mailbox per lead, for any leads, messages, deliveries and stops.   *)
(* Payloads leave in arrival order, from the front, and never mix leads.   *)
(***************************************************************************)
THEOREM PipelineIsChannel == Spec => ImplementsChannel
<1>1. Init => Channel!ChannelInit
  <2> SUFFICES ASSUME Init
               PROVE  Channel!ChannelInit
    OBVIOUS
  <2>1. Reverse(<<>>) = <<>>
    <3>1. Reverse(<<>>) \in Seq(Msg) /\ Len(Reverse(<<>>)) = 0
      BY ReverseElements, EmptySeq
    <3> QED
      BY <3>1, EmptySeq
  <2>2. \A l \in Lead : Waiting(l) = <<>>
    BY <2>1 DEF Init, IdleDrainer, Waiting
  <2> QED
    BY <2>2 DEF Init, Channel!ChannelInit
<1> QED
  BY <1>1, DrainAlways, PipelineStep, PTL DEF Spec, ImplementsChannel, Channel!ChannelSpec
-----------------------------------------------------------------------------
(* What may vanish.  ToSet is expanded in the first lemma only.            *)

\* What is in a list of messages, in an empty one and in one with one more.
LEMMA ListedElements ==
  /\ \A s, m : m \in ToSet(s) <=> \E i \in DOMAIN s : s[i] = m
  /\ \A s \in Seq(Msg) : \A m : m \in ToSet(s) <=> \E i \in 1..Len(s) : s[i] = m
  /\ \A s \in Seq(Msg), x \in Msg :
       /\ x \in ToSet(<<x>> \o s)
       /\ ToSet(s) \subseteq ToSet(<<x>> \o s)
<1>1. \A s, m : m \in ToSet(s) <=> \E i \in DOMAIN s : s[i] = m
  BY DEF ToSet
<1>2. \A s \in Seq(Msg) : DOMAIN s = 1..Len(s)
  OBVIOUS
<1>3. \A s \in Seq(Msg) : \A m : m \in ToSet(s) <=> \E i \in 1..Len(s) : s[i] = m
  BY <1>1, <1>2
<1>4. ASSUME NEW s \in Seq(Msg), NEW x \in Msg
      PROVE  x \in ToSet(<<x>> \o s) /\ ToSet(s) \subseteq ToSet(<<x>> \o s)
  <2> DEFINE t == <<x>> \o s
  <2>1. /\ t \in Seq(Msg) /\ t[1] = x /\ 1 \in 1..Len(t)
        /\ \A i \in 1..Len(s) : i + 1 \in 1..Len(t) /\ t[i + 1] = s[i]
    OBVIOUS
  <2> HIDE DEF t
  <2>2. x \in ToSet(t)
    BY <1>3, <2>1
  <2>3. \A m : m \in ToSet(s) => m \in ToSet(t)
    BY <1>3, <2>1
  <2> QED
    BY <2>2, <2>3 DEF t
<1> QED
  BY <1>1, <1>3, <1>4

\* A message stays where a step leaves everything that could hold it.
LEMMA HeldStaysAlive ==
  ASSUME NEW m \in Msg, Alive(m), queue' = queue,
         inbox'[LeadOf[m]] = inbox[LeadOf[m]],
         \A d \in Delivery : Carrying(d) => Carrying(d)',
         InHand(m) => InHand(m)'
  PROVE  Alive(m)'
<1>1. InInbox(m) => InInbox(m)'
  BY DEF InInbox
<1>2. InQueue(m) => InQueue(m)'
  BY DEF InQueue
<1> QED
  BY <1>1, <1>2 DEF Alive

\* The DEL of the inbox takes what was pushed since the LRANGE; the rest is in hand.
LEMMA DeleteKeepsRead ==
  ASSUME TypeOK, DrainInv, DrainDelete, NEW m \in Msg, Alive(m),
         ~(LeadOf[m] = drainer.target /\ PushedSinceRead(m))
  PROVE  Alive(m)'
<1> USE PipelineAssumption
<1>1. /\ drainer.pc = "delete" /\ drainer'.pc = "unlist" /\ drainer'.items = drainer.items
      /\ drainer.target \in Lead /\ queue' = queue /\ call' = call
      /\ inbox' = [inbox EXCEPT ![drainer.target] = <<>>]
  BY DEF DrainDelete, TypeOK
<1>2. \A d \in Delivery : Carrying(d) => Carrying(d)'
  BY <1>1 DEF Carrying
<1>3. CASE LeadOf[m] = drainer.target /\ InInbox(m)
  <2> DEFINE list == inbox[drainer.target]
             items == drainer.items
  <2>1. list \in Seq(Msg) /\ items \in Seq(Msg) /\ m \in ToSet(list)
    BY <1>1, <1>3 DEF TypeOK, InInbox
  <2>2. /\ Len(items) <= Len(list)
        /\ \A i \in 1..Len(items) : items[i] = list[Len(list) + 1 - i]
    BY <1>1 DEF DrainInv
  <2>3. m \notin ToSet(SubSeq(list, 1, Len(list) - Len(items)))
    BY <1>3 DEF PushedSinceRead
  <2> HIDE DEF list, items
  <2>4. PICK i \in 1..Len(list) : list[i] = m
    BY <2>1, ListedElements
  <2>5. i > Len(list) - Len(items)
    <3> DEFINE new == SubSeq(list, 1, Len(list) - Len(items))
    <3>1. Len(list) \in Nat /\ Len(items) \in Nat /\ Len(list) - Len(items) \in 0..Len(list)
      BY <2>1, <2>2
    <3>2. /\ new \in Seq(Msg) /\ Len(new) = Len(list) - Len(items)
          /\ \A j \in 1..Len(new) : new[j] = list[j]
      BY <2>1, <3>1
    <3>3. ~\E j \in 1..Len(new) : new[j] = m
      <4> HIDE DEF new
      <4>1. m \notin ToSet(new)
        BY <2>3 DEF new
      <4> QED
        BY <3>2, <4>1, ListedElements
    <3> HIDE DEF new
    <3> QED
      BY <2>4, <3>1, <3>2, <3>3
  <2>6. m \in ToSet(items)
    <3>1. /\ Len(list) + 1 - i \in 1..Len(items)
          /\ Len(list) + 1 - (Len(list) + 1 - i) = i
      BY <2>1, <2>2, <2>4, <2>5
    <3>2. items[Len(list) + 1 - i] = m
      BY <2>2, <2>4, <3>1
    <3> QED
      BY <2>1, <3>1, <3>2, ListedElements
  <2>7. InHand(m)'
    BY <1>1, <2>6 DEF InHand, items
  <2> QED
    BY <2>7 DEF Alive
<1>4. CASE LeadOf[m] # drainer.target
  <2>1. inbox'[LeadOf[m]] = inbox[LeadOf[m]]
    BY <1>1, <1>4 DEF TypeOK
  <2>2. ~InHand(m)
    BY <1>1 DEF InHand
  <2> QED
    BY <1>1, <1>2, <2>1, <2>2, HeldStaysAlive
<1>5. CASE ~InInbox(m)
  <2>1. (\E d \in Delivery : MsgOf[d] = m /\ Carrying(d)) \/ InQueue(m)
    BY <1>1, <1>5 DEF Alive, InHand
  <2>2. InQueue(m) => InQueue(m)'
    BY <1>1 DEF InQueue
  <2> QED
    BY <1>2, <2>1, <2>2 DEF Alive
<1> QED
  BY <1>3, <1>4, <1>5

\* What the webhook carries reaches the inbox.
LEMMA PushKeeps ==
  ASSUME TypeOK, NEW d \in Delivery, PushItem(d), NEW m \in Msg, Alive(m)
  PROVE  Alive(m)'
<1> USE PipelineAssumption
<1>1. /\ DLead(d) \in Lead /\ MsgOf[d] \in Msg /\ LeadOf[m] \in Lead /\ DLead(d) = LeadOf[MsgOf[d]]
      /\ UNCHANGED <<queue, drainer>> /\ inbox' = [inbox EXCEPT ![DLead(d)] = <<MsgOf[d]>> \o @]
      /\ call' = [call EXCEPT ![d] = "unlist"]
  BY DEF DLead, PushItem, Goto
<1>2. inbox[DLead(d)] \in Seq(Msg) /\ inbox'[DLead(d)] = <<MsgOf[d]>> \o inbox[DLead(d)]
  BY <1>1 DEF TypeOK
<1>3. ToSet(inbox[DLead(d)]) \subseteq ToSet(inbox'[DLead(d)]) /\ MsgOf[d] \in ToSet(inbox'[DLead(d)])
  BY <1>1, <1>2, ListedElements
<1>4. CASE MsgOf[d] = m
  BY <1>1, <1>3, <1>4 DEF Alive, InInbox
<1>5. CASE MsgOf[d] # m
  <2>1. InInbox(m) => InInbox(m)'
    <3>1. LeadOf[m] # DLead(d) => inbox'[LeadOf[m]] = inbox[LeadOf[m]]
      BY <1>1 DEF TypeOK
    <3> QED
      BY <1>3, <3>1 DEF InInbox
  <2>2. \A e \in Delivery : MsgOf[e] = m /\ Carrying(e) => Carrying(e)'
    BY <1>1, <1>5 DEF Carrying, TypeOK
  <2>3. (InHand(m) => InHand(m)') /\ (InQueue(m) => InQueue(m)')
    BY <1>1 DEF InHand, InQueue
  <2> QED
    BY <2>1, <2>2, <2>3 DEF Alive
<1> QED
  BY <1>4, <1>5

\* What the drainer has in hand reaches the queue.
LEMMA EnqueueKeeps ==
  ASSUME TypeOK, DrainEnqueue, NEW m \in Msg, Alive(m)
  PROVE  Alive(m)'
<1> DEFINE batch == [lead |-> drainer.target, msgs |-> drainer.items]
<1>1. /\ drainer.pc = "enqueue" /\ UNCHANGED <<inbox, call>>
      /\ queue \in Seq(Payload) /\ batch \in Payload /\ queue' = Append(queue, batch)
  BY DEF TypeOK, DrainEnqueue, Payload
<1>2. batch.msgs = drainer.items
  OBVIOUS
<1> HIDE DEF batch
<1>3. /\ DOMAIN queue \subseteq DOMAIN queue' /\ \A i \in DOMAIN queue : queue'[i] = queue[i]
      /\ Len(queue) + 1 \in DOMAIN queue' /\ queue'[Len(queue) + 1] = batch
  BY <1>1
<1>4. InHand(m) => InQueue(m)'
  BY <1>2, <1>3 DEF InHand, InQueue
<1>5. InQueue(m) => InQueue(m)'
  BY <1>3 DEF InQueue
<1>6. (InInbox(m) => InInbox(m)') /\ \A d \in Delivery : Carrying(d) => Carrying(d)'
  BY <1>1 DEF InInbox, Carrying
<1> QED
  BY <1>4, <1>5, <1>6 DEF Alive

\* A message vanishes in the three ways that LossOnlyInWindow names only.
LEMMA LossStep ==
  ASSUME TypeOK, DrainInv, [Next]_vars, NEW m \in Msg, Alive(m), ~Alive(m)'
  PROVE  \/ up /\ ~up'
         \/ ~up \/ LeadOf[m] \notin index
         \/ drainer.pc = "delete" /\ LeadOf[m] = drainer.target /\ PushedSinceRead(m)
<1> USE PipelineAssumption
<1>1. CASE \E d \in Delivery : PushItem(d)
  BY <1>1, PushKeeps
<1>2. ASSUME NEW d \in Delivery, Webhook(d), ~PushItem(d)
      PROVE  FALSE
  <2>1. UNCHANGED <<queue, inbox, drainer>>
    BY <1>2 DEF Webhook, MarkFirst, MarkDuplicate, SetLastFromLead, PushUnread, PushUnlist, PushList, redisVars
  <2>2. \A e \in Delivery : Carrying(e) => Carrying(e)'
    BY <1>2 DEF Webhook, MarkFirst, MarkDuplicate, SetLastFromLead, PushUnread, PushUnlist, PushList,
       Goto, Carrying, TypeOK
  <2>3. InHand(m) => InHand(m)'
    BY <2>1 DEF InHand
  <2> QED
    BY <2>1, <2>2, <2>3, HeldStaysAlive
<1>3. ASSUME UNCHANGED <<queue, inbox, call>>, drainer.pc = "pass"
      PROVE  FALSE
  <2>1. \A e \in Delivery : Carrying(e) => Carrying(e)'
    BY <1>3 DEF Carrying
  <2>2. ~InHand(m)
    BY <1>3 DEF InHand
  <2> QED
    BY <1>3, <2>1, <2>2, HeldStaysAlive
<1>4. CASE \E l \in Lead : DrainVisit(l)
  BY <1>3, <1>4 DEF DrainVisit, InspectReady, InspectSkip, DrainRead, redisVars
<1>5. CASE ListActive
  BY <1>3, <1>5 DEF ListActive, redisVars
<1>6. ASSUME UNCHANGED <<queue, inbox, call, drainer>>
      PROVE  FALSE
  <2>1. \A e \in Delivery : Carrying(e) => Carrying(e)'
    BY <1>6 DEF Carrying
  <2>2. InHand(m) => InHand(m)'
    BY <1>6 DEF InHand
  <2> QED
    BY <1>6, <2>1, <2>2, HeldStaysAlive
<1>7. CASE ExpireIndex \/ UNCHANGED vars
  BY <1>6, <1>7 DEF ExpireIndex, vars, redisVars
<1>8. CASE \E n \in Msg : ExpireDedup(n)
  BY <1>6, <1>8 DEF ExpireDedup
<1>9. CASE DrainDelete
  <2>1. drainer.pc = "delete"
    BY <1>9 DEF DrainDelete
  <2> QED
    BY <1>9, <2>1, DeleteKeepsRead
<1>10. CASE DrainUnlist
  <2>1. /\ UNCHANGED <<queue, inbox, call>> /\ drainer.pc = "unlist" /\ drainer'.items = drainer.items
        /\ drainer'.pc = "enqueue" \/ drainer.items = <<>>
    BY <1>10 DEF DrainUnlist, TypeOK
  <2>2. drainer.items = <<>> => m \notin ToSet(drainer.items)
    BY ListedElements
  <2>3. InHand(m) => InHand(m)'
    BY <2>1, <2>2 DEF InHand
  <2>4. \A e \in Delivery : Carrying(e) => Carrying(e)'
    BY <2>1 DEF Carrying
  <2> QED
    BY <2>1, <2>3, <2>4, HeldStaysAlive
<1>11. CASE DrainEnqueue
  BY <1>11, EnqueueKeeps
<1>12. CASE Stop
  BY <1>12 DEF Stop
<1>13. CASE Restart
  BY <1>13 DEF Restart
<1>14. ASSUME NEW l \in Lead, ExpireInbox(l)
       PROVE  ~up \/ LeadOf[m] \notin index
  <2>1. CASE LeadOf[m] = l
    BY <1>14, <2>1 DEF ExpireInbox
  <2>2. CASE LeadOf[m] # l
    <3>1. /\ UNCHANGED <<queue, call, drainer>> /\ inbox'[LeadOf[m]] = inbox[LeadOf[m]]
      BY <1>14, <2>2 DEF ExpireInbox, TypeOK
    <3>2. \A e \in Delivery : Carrying(e) => Carrying(e)'
      BY <3>1 DEF Carrying
    <3>3. InHand(m) => InHand(m)'
      BY <3>1 DEF InHand
    <3> QED
      BY <3>1, <3>2, <3>3, HeldStaysAlive
  <2> QED
    BY <2>1, <2>2
<1> QED
  BY <1>1, <1>2, <1>4, <1>5, <1>7, <1>8, <1>9, <1>10, <1>11, <1>12, <1>13, <1>14
  DEF Next, DrainStep

(***************************************************************************)
(* For any number of leads, deliveries and stops, a message that the       *)
(* webhook accepted vanishes in three ways only: the process stops under   *)
(* it, its TTL runs out where no drainer looks, or the DEL of drain_inbox  *)
(* takes it with it because it was pushed after the LRANGE.                *)
(***************************************************************************)
THEOREM LossesAreKnown == Spec => LossOnlyInWindow
<1>1. ASSUME TypeOK, DrainInv, [Next]_vars
      PROVE  [\A m \in Msg : Alive(m) /\ ~Alive(m)' =>
                \/ up /\ ~up'
                \/ ~up \/ LeadOf[m] \notin index
                \/ drainer.pc = "delete" /\ LeadOf[m] = drainer.target /\ PushedSinceRead(m)]_vars
  BY <1>1, LossStep
<1> QED
  BY <1>1, DrainAlways, PTL DEF Spec, LossOnlyInWindow

-----------------------------------------------------------------------------
(***************************************************************************)
(* RedisClient, for any messages, times to live and bounds, with Upstash or*)
(* without.  Operations come one after the other here, so that the proofs  *)
(* are about what one command does to two stores.                          *)
(***************************************************************************)

\* What the constants are.
LEMMA ClientConstants ==
  /\ "inbox" \in Key /\ "index" \in Key /\ "attempts" \in Key
  /\ \A m \in Message : m \in Key /\ m # "inbox" /\ m # "index" /\ m # "attempts"
  /\ \A k \in Key : k \in Message \/ k = "inbox" \/ k = "index" \/ k = "attempts"
  /\ Ttl.inbox \in Nat /\ Ttl.attempts \in Nat /\ Ttl.dedup \in Nat
  /\ Ttl.inbox > 0 /\ Ttl.attempts > 0 /\ Ttl.dedup > 0
  /\ MaxTime \in Nat /\ MaxFaults \in Nat
  /\ Never \in Int /\ Never > MaxTime /\ Never > Ttl.inbox /\ Never > Ttl.dedup
<1>1. Ttl.inbox \in Nat \ {0} /\ Ttl.attempts \in Nat \ {0} /\ Ttl.dedup \in Nat \ {0}
  BY RedisClientAssumption
<1>2. MaxTime \in Nat /\ MaxFaults \in Nat
  BY RedisClientAssumption
<1>3. \A m \in Message : m # "inbox" /\ m # "index" /\ m # "attempts"
  BY RedisClientAssumption DEF ListKey
<1>4. "inbox" \in Key /\ "index" \in Key /\ "attempts" \in Key /\ \A m \in Message : m \in Key
  BY DEF Key, ListKey
<1>5. \A k \in Key : k \in Message \/ k = "inbox" \/ k = "index" \/ k = "attempts"
  BY DEF Key, ListKey
<1>6. Never \in Int /\ Never > MaxTime /\ Never > Ttl.inbox /\ Never > Ttl.dedup
  BY <1>1, <1>2 DEF Never
<1> QED
  BY <1>1, <1>2, <1>3, <1>4, <1>5, <1>6

\* The commands that the operations send.
IsCommand(c) ==
  \/ c.key \in Message /\ c.name = "SETNX" /\ c.arg = <<"1">> /\ c.ttl = Ttl.dedup
  \/ c.key = "inbox" /\ c.name = "LPUSH" /\ \E m \in Message : c.arg = <<m>>
  \/ c.key = "inbox" /\ c.name = "EXPIRE" /\ c.ttl = Ttl.inbox
  \/ c.key = "inbox" /\ c.name \in {"LRANGE", "LINDEX", "DEL"}
  \/ c.key = "index" /\ c.name \in {"LREM", "LPUSH", "LRANGE"}
  \/ c.key = "index" /\ c.name = "EXPIRE" /\ c.ttl = Ttl.inbox
  \/ c.key = "attempts" /\ c.name \in {"INCR", "GET", "DEL"}
  \/ c.key = "attempts" /\ c.name = "EXPIRE" /\ c.ttl = Ttl.attempts

\* The command of an operation's step.
Current == Script(op.name, op.msg)[op.step]

\* The operation is one that is begun, at one of its commands.
Operations == {"push", "drain", "count", "read", "reset"}
OpOK ==
  \/ op = NoOp
  \/ /\ op \in [name : Operations, step : Nat \ {0}, msg : Message \cup {"none"}, held : Seq(Message)]
     /\ op.step \in 1..Len(Script(op.name, op.msg))
     /\ op.name = "push" => op.msg \in Message

\* The steps of a push,
LEMMA PushCommands ==
  ASSUME NEW m
  PROVE  /\ Script("push", m) = PushScript(m) /\ Len(PushScript(m)) = 6
         /\ PushScript(m)[1] = Command("SETNX", m, <<"1">>, Ttl.dedup)
         /\ PushScript(m)[2] = Command("LPUSH", "inbox", <<m>>, 0)
         /\ PushScript(m)[3] = Command("EXPIRE", "inbox", <<>>, Ttl.inbox)
         /\ PushScript(m)[4] = Command("LREM", "index", <<"lead">>, 0)
         /\ PushScript(m)[5] = Command("LPUSH", "index", <<"lead">>, 0)
         /\ PushScript(m)[6] = Command("EXPIRE", "index", <<>>, Ttl.inbox)
<1> HIDE DEF Command
<1>1. Script("push", m) = PushScript(m)
  BY Zenon DEF Script
<1> QED
  BY <1>1 DEF PushScript

\* of a drain,
LEMMA DrainCommands ==
  ASSUME NEW m
  PROVE  /\ Script("drain", m) = DrainScript /\ Len(DrainScript) = 5
         /\ DrainScript[1] = Command("LRANGE", "index", <<>>, 0)
         /\ DrainScript[2] = Command("LINDEX", "inbox", <<>>, 0)
         /\ DrainScript[3] = Command("LRANGE", "inbox", <<>>, 0)
         /\ DrainScript[4] = Command("DEL", "inbox", <<>>, 0)
         /\ DrainScript[5] = Command("LREM", "index", <<"lead">>, 0)
<1> HIDE DEF Command
<1>1. "drain" # "push"
  OBVIOUS
<1>2. Script("drain", m) = DrainScript
  BY <1>1, Zenon DEF Script
<1> QED
  BY <1>2 DEF DrainScript

\* and of the counter.
LEMMA CounterCommands ==
  ASSUME NEW m, NEW name \in {"count", "read", "reset"}
  PROVE  /\ Script(name, m) = CounterScript(name)
         /\ Len(CounterScript(name)) \in 1..2
         /\ \A i \in 1..Len(CounterScript(name)) :
              /\ IsCommand(CounterScript(name)[i])
              /\ CounterScript(name)[i].key = "attempts"
<1>1. name # "push" /\ name # "drain"
  OBVIOUS
<1>2. Script(name, m) = CounterScript(name)
  BY <1>1, Zenon DEF Script
<1>3. CASE name = "count"
  <2>1. CounterScript(name) =
          <<Command("INCR", "attempts", <<>>, 0), Command("EXPIRE", "attempts", <<>>, Ttl.attempts)>>
    BY <1>3 DEF CounterScript
  <2> QED
    BY <1>2, <2>1 DEF IsCommand, Command
<1>4. CASE name = "read"
  <2>1. CounterScript(name) = <<Command("GET", "attempts", <<>>, 0)>>
    BY <1>4 DEF CounterScript
  <2> QED
    BY <1>2, <2>1 DEF IsCommand, Command
<1>5. CASE name = "reset"
  <2>1. CounterScript(name) = <<Command("DEL", "attempts", <<>>, 0)>>
    BY <1>5 DEF CounterScript
  <2> QED
    BY <1>2, <2>1 DEF IsCommand, Command
<1> QED
  BY <1>3, <1>4, <1>5

\* The rest is as the commands are.
LEMMA CurrentIsCommand ==
  ASSUME OpOK, op # NoOp
  PROVE  /\ IsCommand(Current)
         /\ \/ op.name = "push" /\ op.step \in 1..6 /\ op.msg \in Message
            \/ op.name = "drain" /\ op.step \in 1..5
            \/ op.name \in {"count", "read", "reset"} /\ op.step \in Nat /\ Current.key = "attempts"
         /\ op \in [name : Operations, step : Nat \ {0}, msg : Message \cup {"none"}, held : Seq(Message)]
<1>1. /\ op \in [name : Operations, step : Nat \ {0}, msg : Message \cup {"none"}, held : Seq(Message)]
      /\ op.step \in 1..Len(Script(op.name, op.msg))
      /\ op.name = "push" => op.msg \in Message
  BY DEF OpOK
<1>2. CASE op.name = "push"
  <2>0. Script("push", op.msg) = PushScript(op.msg) /\ Len(PushScript(op.msg)) = 6
    BY PushCommands
  <2>1. op.msg \in Message /\ op.step \in 1..6
    BY <1>1, <1>2, <2>0
  <2>2. op.step = 1 \/ op.step = 2 \/ op.step = 3 \/ op.step = 4 \/ op.step = 5 \/ op.step = 6
    BY <2>1
  <2>3. Current = PushScript(op.msg)[op.step]
    BY <1>2, <2>0 DEF Current
  <2>4. \/ Current = Command("SETNX", op.msg, <<"1">>, Ttl.dedup)
        \/ Current = Command("LPUSH", "inbox", <<op.msg>>, 0)
        \/ Current = Command("EXPIRE", "inbox", <<>>, Ttl.inbox)
        \/ Current = Command("LREM", "index", <<"lead">>, 0)
        \/ Current = Command("LPUSH", "index", <<"lead">>, 0)
        \/ Current = Command("EXPIRE", "index", <<>>, Ttl.inbox)
    <3> HIDE DEF Command
    <3> QED
      BY <2>2, <2>3, PushCommands
  <2>5. IsCommand(Current)
    BY <2>1, <2>4 DEF IsCommand, Command
  <2> QED
    BY <1>1, <1>2, <2>1, <2>5
<1>3. CASE op.name = "drain"
  <2>1. op.step \in 1..5
    BY <1>1, <1>3, DrainCommands
  <2>2. op.step = 1 \/ op.step = 2 \/ op.step = 3 \/ op.step = 4 \/ op.step = 5
    BY <2>1
  <2>3. Current = DrainScript[op.step]
    BY <1>3, DrainCommands DEF Current
  <2>4. IsCommand(Current)
    BY <2>2, <2>3, DrainCommands DEF IsCommand, Command
  <2> QED
    BY <1>1, <1>3, <2>1, <2>4
<1>4. CASE op.name \in {"count", "read", "reset"}
  <2>1. op.step \in 1..Len(CounterScript(op.name)) /\ Current = CounterScript(op.name)[op.step]
    BY <1>1, <1>4, CounterCommands DEF Current
  <2>2. IsCommand(Current) /\ Current.key = "attempts"
    BY <1>4, <2>1, CounterCommands
  <2> QED
    BY <1>1, <1>4, <2>2
<1> QED
  BY <1>1, <1>2, <1>3, <1>4 DEF Operations

(* What a command does to a store, entry by entry. *)

StoreOK(s) ==
  /\ DOMAIN s = Key
  /\ s["inbox"].value \in Seq(Message)
  /\ \A k \in Key : s[k] = [value |-> s[k].value, exp |-> s[k].exp] /\ s[k].exp \in Int

Entry(value, exp) == [value |-> value, exp |-> exp]
Unset(e) == e.value = <<>>

\* In Redis,
After(e, c) ==
  LET exp == IF Unset(e) THEN Never ELSE e.exp
      rest == Without(e.value, c.arg[1])
  IN  IF c.name = "SETNX" /\ Unset(e) THEN Entry(c.arg, now + c.ttl)
      ELSE IF c.name = "DEL" THEN NoEntry
      ELSE IF c.name = "LPUSH" THEN Entry(c.arg \o e.value, exp)
      ELSE IF c.name = "LREM" THEN IF rest = <<>> THEN NoEntry ELSE Entry(rest, exp)
      ELSE IF c.name = "INCR" THEN Entry(<<IF Unset(e) THEN 1 ELSE e.value[1] + 1>>, exp)
      ELSE IF c.name = "EXPIRE" /\ ~Unset(e) THEN Entry(e.value, now + c.ttl)
      ELSE e

\* and in the fallback.
AfterLocally(e, c) ==
  IF c.name = "GET" /\ Expired(e) THEN NoEntry
  ELSE IF c.name = "SETNX" /\ Expired(e) THEN After(NoEntry, c)
  ELSE IF c.name = "LREM" THEN Entry(Without(e.value, c.arg[1]), e.exp)
  ELSE IF c.name = "LPUSH" THEN Entry(c.arg \o e.value, e.exp)
  ELSE IF c.name = "EXPIRE" /\ e # NoEntry THEN Entry(e.value, now + c.ttl)
  ELSE After(e, c)

LEMMA CommandNames ==
  ASSUME NEW c, IsCommand(c)
  PROVE  /\ c.key \in Key
         /\ c.name \in {"SETNX", "DEL", "LPUSH", "LREM", "INCR", "EXPIRE", "LRANGE", "LINDEX", "GET"}
  BY ClientConstants DEF IsCommand

LEMMA RedisEffects ==
  ASSUME NEW s, DOMAIN s = Key, NEW c, IsCommand(c)
  PROVE  /\ DOMAIN RedisAfter(s, c) = Key
         /\ \A k \in Key : k # c.key => RedisAfter(s, c)[k] = s[k]
         /\ RedisAfter(s, c)[c.key] = After(s[c.key], c)
<1> DEFINE value == s[c.key].value
           exp == IF value = <<>> THEN Never ELSE s[c.key].exp
           rest == Without(value, c.arg[1])
<1>0. /\ c.key \in Key
      /\ c.name \in {"SETNX", "DEL", "LPUSH", "LREM", "INCR", "EXPIRE", "LRANGE", "LINDEX", "GET"}
  BY CommandNames
<1>s. ASSUME NEW e, RedisAfter(s, c) = [s EXCEPT ![c.key] = e], After(s[c.key], c) = e
      PROVE  /\ DOMAIN RedisAfter(s, c) = Key
             /\ \A k \in Key : k # c.key => RedisAfter(s, c)[k] = s[k]
             /\ RedisAfter(s, c)[c.key] = After(s[c.key], c)
  BY <1>s, <1>0
<1>n. ASSUME RedisAfter(s, c) = s, After(s[c.key], c) = s[c.key]
      PROVE  /\ DOMAIN RedisAfter(s, c) = Key
             /\ \A k \in Key : k # c.key => RedisAfter(s, c)[k] = s[k]
             /\ RedisAfter(s, c)[c.key] = After(s[c.key], c)
  BY <1>n
<1>1. CASE c.name = "SETNX"
  <2>1. CASE value = <<>>
    <3>1. RedisAfter(s, c) = [s EXCEPT ![c.key] = [value |-> c.arg, exp |-> now + c.ttl]]
      BY <1>1, <2>1, Zenon DEF RedisAfter, Put
    <3>2. After(s[c.key], c) = [value |-> c.arg, exp |-> now + c.ttl]
      BY <1>1, <2>1, Zenon DEF After, Unset, Entry
    <3> QED
      BY <1>s, <3>1, <3>2
  <2>2. CASE value # <<>>
    <3>1. RedisAfter(s, c) = s
      BY <1>1, <2>2 DEF RedisAfter
    <3>2. After(s[c.key], c) = s[c.key]
      BY <1>1, <2>2 DEF After, Unset
    <3> QED
      BY <1>n, <3>1, <3>2
  <2> QED
    BY <2>1, <2>2
<1>2. CASE c.name = "DEL"
  <2>1. RedisAfter(s, c) = [s EXCEPT ![c.key] = NoEntry]
    BY <1>2 DEF RedisAfter
  <2>2. After(s[c.key], c) = NoEntry
    BY <1>2 DEF After
  <2> QED
    BY <1>s, <2>1, <2>2
<1>3. CASE c.name = "LPUSH"
  <2>1. RedisAfter(s, c) = [s EXCEPT ![c.key] = [value |-> c.arg \o value, exp |-> exp]]
    BY <1>3 DEF RedisAfter, Put
  <2>2. After(s[c.key], c) = [value |-> c.arg \o value, exp |-> exp]
    BY <1>3 DEF After, Unset, Entry
  <2> QED
    BY <1>s, <2>1, <2>2
<1>4. CASE c.name = "LREM"
  <2>1. CASE rest = <<>>
    <3>1. RedisAfter(s, c) = [s EXCEPT ![c.key] = NoEntry]
      BY <1>4, <2>1 DEF RedisAfter
    <3>2. After(s[c.key], c) = NoEntry
      BY <1>4, <2>1 DEF After
    <3> QED
      BY <1>s, <3>1, <3>2
  <2>2. CASE rest # <<>>
    <3>1. RedisAfter(s, c) = [s EXCEPT ![c.key] = [value |-> rest, exp |-> exp]]
      BY <1>4, <2>2 DEF RedisAfter, Put
    <3>2. After(s[c.key], c) = [value |-> rest, exp |-> exp]
      BY <1>4, <2>2 DEF After, Unset, Entry
    <3> QED
      BY <1>s, <3>1, <3>2
  <2> QED
    BY <2>1, <2>2
<1>5. CASE c.name = "INCR"
  <2> DEFINE new == <<IF value = <<>> THEN 1 ELSE value[1] + 1>>
  <2>1. RedisAfter(s, c) = [s EXCEPT ![c.key] = [value |-> new, exp |-> exp]]
    BY <1>5 DEF RedisAfter, Put
  <2>2. After(s[c.key], c) = [value |-> new, exp |-> exp]
    BY <1>5 DEF After, Unset, Entry
  <2> QED
    BY <1>s, <2>1, <2>2
<1>6. CASE c.name = "EXPIRE"
  <2>1. CASE value # <<>>
    <3>1. RedisAfter(s, c) = [s EXCEPT ![c.key] = [value |-> value, exp |-> now + c.ttl]]
      BY <1>6, <2>1 DEF RedisAfter, Put
    <3>2. After(s[c.key], c) = [value |-> value, exp |-> now + c.ttl]
      BY <1>6, <2>1 DEF After, Unset, Entry
    <3> QED
      BY <1>s, <3>1, <3>2
  <2>2. CASE value = <<>>
    <3>1. RedisAfter(s, c) = s
      BY <1>6, <2>2 DEF RedisAfter
    <3>2. After(s[c.key], c) = s[c.key]
      BY <1>6, <2>2 DEF After, Unset
    <3> QED
      BY <1>n, <3>1, <3>2
  <2> QED
    BY <2>1, <2>2
<1>7. CASE c.name \in {"LRANGE", "LINDEX", "GET"}
  <2>1. RedisAfter(s, c) = s
    BY <1>7 DEF RedisAfter
  <2>2. After(s[c.key], c) = s[c.key]
    BY <1>7 DEF After
  <2> QED
    BY <1>n, <2>1, <2>2
<1> QED
  BY <1>0, <1>1, <1>2, <1>3, <1>4, <1>5, <1>6, <1>7

LEMMA LocalEffects ==
  ASSUME NEW s, DOMAIN s = Key, NEW c, IsCommand(c),
         s[c.key] = [value |-> s[c.key].value, exp |-> s[c.key].exp]
  PROVE  /\ DOMAIN LocalAfter(s, c) = Key
         /\ \A k \in Key : k # c.key => LocalAfter(s, c)[k] = s[k]
         /\ LocalAfter(s, c)[c.key] = AfterLocally(s[c.key], c)
<1>0. /\ c.key \in Key
      /\ c.name \in {"SETNX", "DEL", "LPUSH", "LREM", "INCR", "EXPIRE", "LRANGE", "LINDEX", "GET"}
  BY CommandNames
<1>s. ASSUME NEW e, LocalAfter(s, c) = [s EXCEPT ![c.key] = e], AfterLocally(s[c.key], c) = e
      PROVE  /\ DOMAIN LocalAfter(s, c) = Key
             /\ \A k \in Key : k # c.key => LocalAfter(s, c)[k] = s[k]
             /\ LocalAfter(s, c)[c.key] = AfterLocally(s[c.key], c)
  BY <1>s, <1>0
<1>1. CASE c.name = "GET" /\ Expired(s[c.key])
  <2>1. LocalAfter(s, c) = [s EXCEPT ![c.key] = NoEntry]
    BY <1>1 DEF LocalAfter
  <2>2. AfterLocally(s[c.key], c) = NoEntry
    BY <1>1 DEF AfterLocally
  <2> QED
    BY <1>s, <2>1, <2>2
<1>2. CASE c.name = "SETNX" /\ Expired(s[c.key])
  <2> DEFINE t == [s EXCEPT ![c.key] = NoEntry]
  <2>1. LocalAfter(s, c) = RedisAfter(t, c)
    BY <1>2 DEF LocalAfter
  <2>2. AfterLocally(s[c.key], c) = After(NoEntry, c)
    BY <1>2 DEF AfterLocally
  <2>3. DOMAIN t = Key /\ t[c.key] = NoEntry /\ \A k \in Key : k # c.key => t[k] = s[k]
    BY <1>0
  <2> HIDE DEF t
  <2>4. /\ DOMAIN RedisAfter(t, c) = Key
        /\ \A k \in Key : k # c.key => RedisAfter(t, c)[k] = t[k]
        /\ RedisAfter(t, c)[c.key] = After(t[c.key], c)
    BY <2>3, RedisEffects
  <2> QED
    BY <2>1, <2>2, <2>3, <2>4
<1>3. CASE c.name = "LREM"
  <2>1. LocalAfter(s, c) = [s EXCEPT ![c.key].value = Without(s[c.key].value, c.arg[1])]
    BY <1>3 DEF LocalAfter
  <2>2. AfterLocally(s[c.key], c) = [value |-> Without(s[c.key].value, c.arg[1]), exp |-> s[c.key].exp]
    BY <1>3 DEF AfterLocally, Entry
  <2>3. LocalAfter(s, c) = [s EXCEPT ![c.key] = [value |-> Without(s[c.key].value, c.arg[1]), exp |-> s[c.key].exp]]
    BY <2>1
  <2> QED
    BY <1>s, <2>2, <2>3
<1>4. CASE c.name = "LPUSH"
  <2>1. LocalAfter(s, c) = [s EXCEPT ![c.key].value = c.arg \o s[c.key].value]
    BY <1>4 DEF LocalAfter
  <2>2. AfterLocally(s[c.key], c) = [value |-> c.arg \o s[c.key].value, exp |-> s[c.key].exp]
    BY <1>4 DEF AfterLocally, Entry
  <2>3. LocalAfter(s, c) = [s EXCEPT ![c.key] = [value |-> c.arg \o s[c.key].value, exp |-> s[c.key].exp]]
    BY <2>1
  <2> QED
    BY <1>s, <2>2, <2>3
<1>5. CASE c.name = "EXPIRE" /\ s[c.key] # NoEntry
  <2>1. LocalAfter(s, c) = [s EXCEPT ![c.key].exp = now + c.ttl]
    BY <1>5 DEF LocalAfter
  <2>2. AfterLocally(s[c.key], c) = [value |-> s[c.key].value, exp |-> now + c.ttl]
    BY <1>5 DEF AfterLocally, Entry
  <2>3. LocalAfter(s, c) = [s EXCEPT ![c.key] = [value |-> s[c.key].value, exp |-> now + c.ttl]]
    BY <2>1
  <2> QED
    BY <1>s, <2>2, <2>3
<1>6. CASE ~(c.name \in {"GET", "SETNX"} /\ Expired(s[c.key])) /\ c.name \notin {"LREM", "LPUSH"}
           /\ ~(c.name = "EXPIRE" /\ s[c.key] # NoEntry)
  <2>1. LocalAfter(s, c) = RedisAfter(s, c)
    BY <1>6 DEF LocalAfter
  <2>2. AfterLocally(s[c.key], c) = After(s[c.key], c)
    BY <1>6 DEF AfterLocally
  <2> QED
    BY <2>1, <2>2, RedisEffects
<1> QED
  BY <1>1, <1>2, <1>3, <1>4, <1>5, <1>6

(* A step, as what it does to each part of the state. *)

\* The outcomes of a command: both stores take it, or Redis, or the fallback and perhaps Redis.
Both(o, c) ==
  /\ o.redis = RedisAfter(redis, c) /\ o.local = LocalAfter(local, c)
  /\ o.faults = faults /\ o.reply = LocalReply(local, c)
Answered(o, c) ==
  /\ o.redis = RedisAfter(redis, c) /\ o.local = local
  /\ o.faults = faults /\ o.reply = RedisReply(redis, c)
Fallen(o, c) ==
  /\ faults # MaxFaults /\ o.faults = faults + 1
  /\ o.redis = redis \/ o.redis = RedisAfter(redis, c)
  /\ o.local = LocalAfter(local, c) /\ o.reply = LocalReply(local, c)

LEMMA OutcomeCases ==
  ASSUME NEW c, NEW o \in Outcomes(c), configured \in BOOLEAN
  PROVE  \/ ~configured /\ Both(o, c)
         \/ configured /\ Answered(o, c)
         \/ configured /\ Fallen(o, c)
<1> DEFINE fallen(r, f) == [redis |-> r, local |-> LocalAfter(local, c), faults |-> f, reply |-> LocalReply(local, c)]
           answered == [redis |-> RedisAfter(redis, c), local |-> local, faults |-> faults, reply |-> RedisReply(redis, c)]
<1>1. CASE ~configured
  <2>1. o = fallen(RedisAfter(redis, c), faults)
    BY <1>1 DEF Outcomes
  <2> QED
    BY <1>1, <2>1 DEF Both
<1>2. CASE configured /\ faults = MaxFaults
  <2>1. o = answered
    BY <1>2 DEF Outcomes
  <2> QED
    BY <1>2, <2>1 DEF Answered
<1>3. CASE configured /\ faults # MaxFaults
  <2>1. o = answered \/ o = fallen(redis, faults + 1) \/ o = fallen(RedisAfter(redis, c), faults + 1)
    BY <1>3 DEF Outcomes
  <2> QED
    BY <1>3, <2>1 DEF Answered, Fallen
<1> QED
  BY <1>1, <1>2, <1>3

\* What the operation becomes.
Reads == op.name = "drain" /\ op.step = 3
Got(o) == IF Reads THEN o.reply ELSE op.held
GoesOn(o) == op' = [op EXCEPT !.step = @ + 1, !.held = Got(o)]
Pushing(o) ==
  \/ op.step = 1 /\ o.reply = Nil /\ op' = NoOp /\ accepted' = accepted
  \/ op.step = 1 /\ o.reply # Nil /\ GoesOn(o) /\ accepted' = accepted \cup {op.msg}
  \/ op.step \in 2..5 /\ GoesOn(o) /\ accepted' = accepted \cup {op.msg}
  \/ op.step = 6 /\ op' = NoOp /\ accepted' = accepted \cup {op.msg}
Draining(o) ==
  \/ op.step \in 1..2 /\ o.reply = Nil /\ op' = NoOp /\ delivered' = delivered
  \/ op.step \in 1..2 /\ o.reply # Nil /\ GoesOn(o) /\ delivered' = delivered
  \/ op.step \in 3..4 /\ GoesOn(o) /\ delivered' = delivered
  \/ op.step = 5 /\ op' = NoOp /\ delivered' = [m \in Message |-> delivered[m] + Times(m, op.held)]
Counting(o) == op' = NoOp \/ (op.step # Len(Script(op.name, op.msg)) /\ GoesOn(o))

Moves(o) ==
  /\ redis' = o.redis /\ local' = o.local /\ faults' = o.faults
  /\ op.name = "push" => Pushing(o)
  /\ op.name = "drain" => Draining(o)
  /\ op.name \in {"count", "read", "reset"} => Counting(o)
  /\ op.name # "push" => accepted' = accepted
  /\ op.name # "drain" => delivered' = delivered
  /\ blind' = (blind \/ (Reads /\ o.faults > faults))
  /\ UNCHANGED <<configured, now, arrivals, counts, outlived>>

LEMMA StepMoves ==
  ASSUME OpOK, Step
  PROVE  op # NoOp /\ \E o \in Outcomes(Current) : Moves(o)
<1> DEFINE c == Current
           script == Script(op.name, op.msg)
           reads == <<op.name, c.name, c.key>> = <<"drain", "LRANGE", "inbox">>
           held(o) == IF reads THEN o.reply ELSE op.held
<1>1. /\ op # NoOp
      /\ \E o \in Outcomes(c) :
           /\ redis' = o.redis /\ local' = o.local /\ faults' = o.faults
           /\ op' = IF GivesUp(o.reply) \/ op.step = Len(script) THEN NoOp
                    ELSE [op EXCEPT !.step = @ + 1, !.held = held(o)]
           /\ accepted' = IF op.name = "push" /\ ~GivesUp(o.reply) THEN accepted \cup {op.msg} ELSE accepted
           /\ delivered' = IF op.name = "drain" /\ op.step = Len(script)
                           THEN [m \in Message |-> delivered[m] + Times(m, held(o))]
                           ELSE delivered
           /\ blind' = (blind \/ (reads /\ o.faults > faults))
      /\ UNCHANGED <<configured, now, arrivals, counts, outlived>>
  BY DEF Step, Current
<1>2. PICK o \in Outcomes(c) :
        /\ redis' = o.redis /\ local' = o.local /\ faults' = o.faults
        /\ op' = IF GivesUp(o.reply) \/ op.step = Len(script) THEN NoOp
                 ELSE [op EXCEPT !.step = @ + 1, !.held = held(o)]
        /\ accepted' = IF op.name = "push" /\ ~GivesUp(o.reply) THEN accepted \cup {op.msg} ELSE accepted
        /\ delivered' = IF op.name = "drain" /\ op.step = Len(script)
                        THEN [m \in Message |-> delivered[m] + Times(m, held(o))]
                        ELSE delivered
        /\ blind' = (blind \/ (reads /\ o.faults > faults))
  BY <1>1
<1>3. /\ \/ op.name = "push" /\ op.step \in 1..6 /\ op.msg \in Message
         \/ op.name = "drain" /\ op.step \in 1..5
         \/ op.name \in {"count", "read", "reset"} /\ op.step \in Nat
  BY <1>1, CurrentIsCommand
<1>4. op.name = "drain" => /\ script = DrainScript /\ Len(script) = 5
                           /\ op.step = 3 => reads
                           /\ op.step # 3 => ~reads
  <2>1. SUFFICES ASSUME op.name = "drain"
                 PROVE  /\ script = DrainScript /\ Len(script) = 5
                        /\ op.step = 3 => reads
                        /\ op.step # 3 => ~reads
    OBVIOUS
  <2>2. script = DrainScript /\ Len(script) = 5
    BY <2>1, DrainCommands
  <2>3. op.step = 1 \/ op.step = 2 \/ op.step = 3 \/ op.step = 4 \/ op.step = 5
    BY <1>3, <2>1
  <2>4. c = DrainScript[op.step]
    BY <2>2 DEF Current
  <2>5. op.step = 3 => c.name = "LRANGE" /\ c.key = "inbox"
    BY <2>4, DrainCommands DEF Command
  <2>6. op.step # 3 => ~(c.name = "LRANGE" /\ c.key = "inbox")
    BY <2>3, <2>4, DrainCommands DEF Command
  <2> HIDE DEF c
  <2> QED
    BY <2>1, <2>2, <2>5, <2>6
<1>5. reads <=> Reads
  BY <1>4 DEF Reads
<1>6. op.name = "push" => Len(script) = 6
  <2>1. Script("push", op.msg) = PushScript(op.msg) /\ Len(PushScript(op.msg)) = 6
    BY PushCommands
  <2> QED
    BY <2>1
<1> HIDE DEF c, script, reads
<1>7. held(o) = Got(o)
  BY <1>5 DEF Got
<1> HIDE DEF held
<1>8. GivesUp(o.reply) <=> o.reply = Nil /\ ((op.name = "push" /\ op.step = 1) \/ (op.name = "drain" /\ op.step \in 1..2))
  BY <1>3 DEF GivesUp
<1>9. Moves(o)
  <2>1. ASSUME op.name = "push" PROVE Pushing(o)
    BY <1>2, <1>3, <1>6, <1>7, <1>8, <2>1 DEF Pushing, GoesOn
  <2>2. ASSUME op.name = "drain" PROVE Draining(o)
    <3>1. op.step = 5 => Got(o) = op.held
      BY DEF Got, Reads
    <3> QED
      BY <1>2, <1>3, <1>4, <1>7, <1>8, <2>2, <3>1 DEF Draining, GoesOn
  <2>3. ASSUME op.name \in {"count", "read", "reset"} PROVE Counting(o)
    BY <1>2, <1>7, <2>3 DEF Counting, GoesOn, script
  <2>4. op.name # "push" => accepted' = accepted
    BY <1>2
  <2>5. op.name # "drain" => delivered' = delivered
    BY <1>2
  <2> QED
    BY <1>1, <1>2, <1>5, <2>1, <2>2, <2>3, <2>4, <2>5 DEF Moves
<1> QED
  BY <1>1, <1>2, <1>9 DEF c

(* Types and times. *)

ClientOK ==
  /\ configured \in BOOLEAN
  /\ StoreOK(redis) /\ StoreOK(local)
  /\ now \in 0..MaxTime
  /\ faults \in 0..MaxFaults
  /\ OpOK
  /\ accepted \subseteq Message
  /\ delivered \in [Message -> Nat]
  /\ blind \in BOOLEAN

\* Redis holds nothing beyond its time, and the inbox and a deduplication key for the whole of it.
LiveInv ==
  /\ \A k \in Key : redis[k].exp > now
  /\ redis["inbox"].exp >= Ttl.inbox
  /\ \A m \in Message : redis[m].exp >= Ttl.dedup

\* Only a drain that has read holds messages; without Redis it finds no inbox ready.
HeldInv ==
  /\ op.name # "drain" \/ op.step <= 3 => op.held = <<>>
  /\ op.name = "drain" /\ op.step = 4 /\ ~blind => op.held = redis["inbox"].value
  /\ ~configured => delivered = [m \in Message |-> 0] /\ (op.name = "drain" => op.step <= 2)

\* An entry after a command is an entry, whose time is the one it had, none or the command's.
LEMMA AfterIsEntry ==
  ASSUME NEW e, e = [value |-> e.value, exp |-> e.exp], e.exp \in Int,
         NEW c, IsCommand(c), now \in Int
  PROVE  /\ After(e, c) = [value |-> After(e, c).value, exp |-> After(e, c).exp]
         /\ AfterLocally(e, c) = [value |-> AfterLocally(e, c).value, exp |-> AfterLocally(e, c).exp]
         /\ After(e, c).exp \in Int /\ AfterLocally(e, c).exp \in Int
         /\ After(e, c).exp \in {e.exp, Never, now + c.ttl}
         /\ After(e, c).exp \notin {e.exp, Never} => c.name \in {"SETNX", "EXPIRE"}
<1>1. Never \in Int
  BY ClientConstants
<1>2. c.name \in {"SETNX", "EXPIRE"} => c.ttl \in Int
  BY ClientConstants DEF IsCommand
<1>3. \A value, exp : /\ Entry(value, exp) = [value |-> Entry(value, exp).value, exp |-> Entry(value, exp).exp]
                      /\ Entry(value, exp).exp = exp
  BY DEF Entry
<1>4. NoEntry = Entry(<<>>, Never)
  BY DEF NoEntry, Entry
<1>5. ASSUME NEW d, d = [value |-> d.value, exp |-> d.exp], d.exp \in Int
      PROVE  /\ After(d, c) = [value |-> After(d, c).value, exp |-> After(d, c).exp]
             /\ After(d, c).exp \in Int
             /\ After(d, c).exp \in {d.exp, Never, now + c.ttl}
             /\ After(d, c).exp \notin {d.exp, Never} => c.name \in {"SETNX", "EXPIRE"}
  <2> DEFINE exp == IF Unset(d) THEN Never ELSE d.exp
  <2>1. \/ After(d, c) = d
        \/ \E value : After(d, c) = Entry(value, exp)
        \/ \E value : After(d, c) = Entry(value, Never)
        \/ c.name \in {"SETNX", "EXPIRE"} /\ \E value : After(d, c) = Entry(value, now + c.ttl)
    BY <1>4, Zenon DEF After
  <2> QED
    BY <1>1, <1>2, <1>3, <1>5, <2>1
<1>6. /\ AfterLocally(e, c) = [value |-> AfterLocally(e, c).value, exp |-> AfterLocally(e, c).exp]
      /\ AfterLocally(e, c).exp \in Int
  <2>1. \/ AfterLocally(e, c) = NoEntry
        \/ AfterLocally(e, c) = After(NoEntry, c)
        \/ \E value : AfterLocally(e, c) = Entry(value, e.exp)
        \/ c.name = "EXPIRE" /\ AfterLocally(e, c) = Entry(e.value, now + c.ttl)
        \/ AfterLocally(e, c) = After(e, c)
    BY Zenon DEF AfterLocally
  <2>2. NoEntry = [value |-> NoEntry.value, exp |-> NoEntry.exp] /\ NoEntry.exp \in Int
    BY <1>1 DEF NoEntry
  <2> QED
    BY <1>2, <1>3, <1>5, <2>1, <2>2
<1> QED
  BY <1>5, <1>6

\* The inbox stays a sequence of messages.
LEMMA InboxAfter ==
  ASSUME NEW s, StoreOK(s), NEW c, IsCommand(c)
  PROVE  /\ c.key # "inbox" \/ c.name \notin {"LPUSH", "DEL"} =>
              /\ RedisAfter(s, c)["inbox"].value = s["inbox"].value
              /\ LocalAfter(s, c)["inbox"].value = s["inbox"].value
         /\ c.key = "inbox" /\ c.name = "LPUSH" =>
              /\ RedisAfter(s, c)["inbox"].value = c.arg \o s["inbox"].value
              /\ LocalAfter(s, c)["inbox"].value = c.arg \o s["inbox"].value
         /\ c.key = "inbox" /\ c.name = "DEL" =>
              RedisAfter(s, c)["inbox"].value = <<>> /\ LocalAfter(s, c)["inbox"].value = <<>>
<1>1. /\ \A k \in Key : k # c.key => RedisAfter(s, c)[k] = s[k] /\ LocalAfter(s, c)[k] = s[k]
      /\ RedisAfter(s, c)[c.key] = After(s[c.key], c)
      /\ LocalAfter(s, c)[c.key] = AfterLocally(s[c.key], c)
      /\ c.key \in Key
  BY RedisEffects, LocalEffects, CommandNames DEF StoreOK
<1>2. "inbox" \in Key
  BY ClientConstants
<1>3. CASE c.key # "inbox"
  BY <1>1, <1>2, <1>3
<1>4. CASE c.key = "inbox"
  <2> DEFINE e == s["inbox"]
  <2>1. RedisAfter(s, c)["inbox"] = After(e, c) /\ LocalAfter(s, c)["inbox"] = AfterLocally(e, c)
    BY <1>1, <1>4
  <2>2. c.name \in {"LPUSH", "EXPIRE", "LRANGE", "LINDEX", "DEL"}
    BY <1>4, ClientConstants DEF IsCommand
  <2> HIDE DEF e
  <2>3. CASE c.name = "LPUSH"
    <3>1. After(e, c).value = c.arg \o e.value /\ AfterLocally(e, c).value = c.arg \o e.value
      BY <2>3 DEF After, AfterLocally, Entry
    <3> QED
      BY <1>4, <2>1, <2>3, <3>1 DEF e
  <2>4. CASE c.name = "DEL"
    <3>1. After(e, c) = NoEntry /\ AfterLocally(e, c) = NoEntry
      BY <2>4 DEF After, AfterLocally
    <3> QED
      BY <1>4, <2>1, <2>4, <3>1 DEF NoEntry
  <2>5. CASE c.name \in {"EXPIRE", "LRANGE", "LINDEX"}
    <3>1. After(e, c).value = e.value
      BY <2>5 DEF After, Entry
    <3>2. AfterLocally(e, c) = After(e, c) \/ AfterLocally(e, c) = Entry(e.value, now + c.ttl)
      BY <2>5 DEF AfterLocally
    <3>3. AfterLocally(e, c).value = e.value
      BY <3>1, <3>2 DEF Entry
    <3> QED
      BY <1>4, <2>1, <2>5, <3>1, <3>3 DEF e
  <2> QED
    BY <2>2, <2>3, <2>4, <2>5
<1> QED
  BY <1>3, <1>4

LEMMA StoresStayStores ==
  ASSUME NEW s, StoreOK(s), NEW c, IsCommand(c), now \in Int
  PROVE  StoreOK(RedisAfter(s, c)) /\ StoreOK(LocalAfter(s, c))
<1>1. /\ DOMAIN RedisAfter(s, c) = Key /\ DOMAIN LocalAfter(s, c) = Key
      /\ \A k \in Key : k # c.key => RedisAfter(s, c)[k] = s[k] /\ LocalAfter(s, c)[k] = s[k]
      /\ RedisAfter(s, c)[c.key] = After(s[c.key], c)
      /\ LocalAfter(s, c)[c.key] = AfterLocally(s[c.key], c)
      /\ c.key \in Key
  BY RedisEffects, LocalEffects, CommandNames DEF StoreOK
<1>2. \A k \in Key : s[k] = [value |-> s[k].value, exp |-> s[k].exp] /\ s[k].exp \in Int
  BY DEF StoreOK
<1>3. /\ After(s[c.key], c) = [value |-> After(s[c.key], c).value, exp |-> After(s[c.key], c).exp]
      /\ AfterLocally(s[c.key], c) = [value |-> AfterLocally(s[c.key], c).value, exp |-> AfterLocally(s[c.key], c).exp]
      /\ After(s[c.key], c).exp \in Int /\ AfterLocally(s[c.key], c).exp \in Int
  BY <1>1, <1>2, AfterIsEntry
<1>4. c.key = "inbox" /\ c.name = "LPUSH" => c.arg \in Seq(Message)
  <2>1. c.key = "inbox" /\ c.name = "LPUSH" => \E m \in Message : c.arg = <<m>>
    BY ClientConstants DEF IsCommand
  <2>2. \A m \in Message : <<m>> \in Seq(Message)
    OBVIOUS
  <2> QED
    BY <2>1, <2>2, Zenon
<1>5. RedisAfter(s, c)["inbox"].value \in Seq(Message) /\ LocalAfter(s, c)["inbox"].value \in Seq(Message)
  <2>1. s["inbox"].value \in Seq(Message)
    BY DEF StoreOK
  <2>2. CASE c.key # "inbox" \/ c.name \notin {"LPUSH", "DEL"}
    BY <2>1, <2>2, InboxAfter
  <2>3. CASE c.key = "inbox" /\ c.name = "LPUSH"
    <3>1. c.arg \o s["inbox"].value \in Seq(Message)
      BY <1>4, <2>1, <2>3
    <3> QED
      BY <2>3, <3>1, InboxAfter
  <2>4. CASE c.key = "inbox" /\ c.name = "DEL"
    <3>1. <<>> \in Seq(Message)
      OBVIOUS
    <3> QED
      BY <2>4, <3>1, InboxAfter
  <2> QED
    BY <2>2, <2>3, <2>4
<1>6. \A k \in Key : /\ RedisAfter(s, c)[k] = [value |-> RedisAfter(s, c)[k].value, exp |-> RedisAfter(s, c)[k].exp]
                     /\ RedisAfter(s, c)[k].exp \in Int
  BY <1>1, <1>2, <1>3
<1>7. \A k \in Key : /\ LocalAfter(s, c)[k] = [value |-> LocalAfter(s, c)[k].value, exp |-> LocalAfter(s, c)[k].exp]
                     /\ LocalAfter(s, c)[k].exp \in Int
  BY <1>1, <1>2, <1>3
<1> QED
  BY <1>1, <1>5, <1>6, <1>7 DEF StoreOK

\* What the command of each step is.
LEMMA CurrentCases ==
  ASSUME OpOK, op # NoOp
  PROVE  /\ op.name = "push" =>
              /\ op.step = 1 => Current.name = "SETNX" /\ Current.key = op.msg /\ Current.arg = <<"1">>
              /\ op.step = 2 => Current.name = "LPUSH" /\ Current.key = "inbox" /\ Current.arg = <<op.msg>>
              /\ op.step = 3 => Current.name = "EXPIRE" /\ Current.key = "inbox"
              /\ op.step = 4 => Current.name = "LREM" /\ Current.key = "index"
              /\ op.step = 5 => Current.name = "LPUSH" /\ Current.key = "index"
              /\ op.step = 6 => Current.name = "EXPIRE" /\ Current.key = "index"
         /\ op.name = "drain" =>
              /\ op.step = 1 => Current.name = "LRANGE" /\ Current.key = "index"
              /\ op.step = 2 => Current.name = "LINDEX" /\ Current.key = "inbox"
              /\ op.step = 3 => Current.name = "LRANGE" /\ Current.key = "inbox"
              /\ op.step = 4 => Current.name = "DEL" /\ Current.key = "inbox"
              /\ op.step = 5 => Current.name = "LREM" /\ Current.key = "index"
<1>1. ASSUME op.name = "push"
      PROVE  /\ op.step = 1 => Current.name = "SETNX" /\ Current.key = op.msg /\ Current.arg = <<"1">>
             /\ op.step = 2 => Current.name = "LPUSH" /\ Current.key = "inbox" /\ Current.arg = <<op.msg>>
             /\ op.step = 3 => Current.name = "EXPIRE" /\ Current.key = "inbox"
             /\ op.step = 4 => Current.name = "LREM" /\ Current.key = "index"
             /\ op.step = 5 => Current.name = "LPUSH" /\ Current.key = "index"
             /\ op.step = 6 => Current.name = "EXPIRE" /\ Current.key = "index"
  <2>1. Script("push", op.msg) = PushScript(op.msg)
    BY PushCommands
  <2>2. Current = PushScript(op.msg)[op.step]
    BY <1>1, <2>1 DEF Current
  <2>3. /\ PushScript(op.msg)[1] = Command("SETNX", op.msg, <<"1">>, Ttl.dedup)
        /\ PushScript(op.msg)[2] = Command("LPUSH", "inbox", <<op.msg>>, 0)
        /\ PushScript(op.msg)[3] = Command("EXPIRE", "inbox", <<>>, Ttl.inbox)
        /\ PushScript(op.msg)[4] = Command("LREM", "index", <<"lead">>, 0)
        /\ PushScript(op.msg)[5] = Command("LPUSH", "index", <<"lead">>, 0)
        /\ PushScript(op.msg)[6] = Command("EXPIRE", "index", <<>>, Ttl.inbox)
    BY PushCommands
  <2> QED
    BY <2>2, <2>3 DEF Command
<1>2. ASSUME op.name = "drain"
      PROVE  /\ op.step = 1 => Current.name = "LRANGE" /\ Current.key = "index"
             /\ op.step = 2 => Current.name = "LINDEX" /\ Current.key = "inbox"
             /\ op.step = 3 => Current.name = "LRANGE" /\ Current.key = "inbox"
             /\ op.step = 4 => Current.name = "DEL" /\ Current.key = "inbox"
             /\ op.step = 5 => Current.name = "LREM" /\ Current.key = "index"
  <2>1. Current = DrainScript[op.step]
    BY <1>2, DrainCommands DEF Current
  <2> QED
    BY <2>1, DrainCommands DEF Command
<1> QED
  BY <1>1, <1>2

\* What a drain reads of the inbox.
LEMMA ReadIsInbox ==
  ASSUME OpOK, op # NoOp, Reads
  PROVE  /\ RedisReply(redis, Current) = redis["inbox"].value
         /\ LocalReply(local, Current) = local["inbox"].value
<1>1. Current.name = "LRANGE" /\ Current.key = "inbox"
  BY CurrentCases DEF Reads
<1>2. RedisReply(redis, Current) = redis["inbox"].value
  BY <1>1 DEF RedisReply
<1>3. LocalReply(local, Current) = RedisReply(local, Current)
  BY <1>1 DEF LocalReply
<1>4. RedisReply(local, Current) = local["inbox"].value
  BY <1>1 DEF RedisReply
<1> QED
  BY <1>2, <1>3, <1>4

LEMMA OpGoesOn ==
  ASSUME OpOK, op # NoOp, NEW o, GoesOn(o), Got(o) \in Seq(Message),
         op.step # Len(Script(op.name, op.msg))
  PROVE  /\ OpOK'
         /\ op'.name = op.name /\ op'.step = op.step + 1 /\ op'.msg = op.msg /\ op'.held = Got(o)
         /\ op' # NoOp
<1>1. /\ op \in [name : Operations, step : Nat \ {0}, msg : Message \cup {"none"}, held : Seq(Message)]
      /\ op.step \in 1..Len(Script(op.name, op.msg))
      /\ op.name = "push" => op.msg \in Message
  BY DEF OpOK
<1>2. /\ op' \in [name : Operations, step : Nat \ {0}, msg : Message \cup {"none"}, held : Seq(Message)]
      /\ op'.name = op.name /\ op'.step = op.step + 1 /\ op'.msg = op.msg /\ op'.held = Got(o)
  <2> DEFINE got == Got(o)
  <2>1. op' = [op EXCEPT !.step = @ + 1, !.held = got]
    BY DEF GoesOn
  <2> HIDE DEF got
  <2>2. got \in Seq(Message)
    BY DEF got
  <2>3. /\ op = [name |-> op.name, step |-> op.step, msg |-> op.msg, held |-> op.held]
        /\ op.name \in Operations /\ op.step \in Nat \ {0} /\ op.msg \in Message \cup {"none"}
    BY <1>1
  <2>4. op' = [name |-> op.name, step |-> op.step + 1, msg |-> op.msg, held |-> got]
    BY <2>1, <2>3
  <2>5. op.step + 1 \in Nat \ {0}
    BY <2>3
  <2>6. /\ op' \in [name : Operations, step : Nat \ {0}, msg : Message \cup {"none"}, held : Seq(Message)]
        /\ op'.name = op.name /\ op'.step = op.step + 1 /\ op'.msg = op.msg /\ op'.held = got
    BY <2>2, <2>3, <2>4, <2>5
  <2> QED
    BY <2>6 DEF got
<1>3. Len(Script(op.name, op.msg)) \in Nat
  <2>1. op.name = "push" => Len(Script(op.name, op.msg)) = 6
    <3>1. Script("push", op.msg) = PushScript(op.msg) /\ Len(PushScript(op.msg)) = 6
      BY PushCommands
    <3> QED
      BY <3>1
  <2>2. op.name = "drain" => Len(Script(op.name, op.msg)) = 5
    BY DrainCommands
  <2>3. op.name \in {"count", "read", "reset"} => Len(Script(op.name, op.msg)) \in Nat
    BY CounterCommands
  <2> QED
    BY <1>1, <2>1, <2>2, <2>3 DEF Operations
<1>4. op'.step \in 1..Len(Script(op'.name, op'.msg))
  BY <1>1, <1>2, <1>3
<1>5. OpOK'
  BY <1>1, <1>2, <1>4 DEF OpOK
<1>6. op' # NoOp
  BY <1>1, <1>2 DEF NoOp
<1> QED
  BY <1>2, <1>5, <1>6

\* Every step of a step, with the type of what it reads.
LEMMA StepOp ==
  ASSUME OpOK, op # NoOp, NEW o, Moves(o), Got(o) \in Seq(Message)
  PROVE  /\ OpOK'
         /\ \/ op' = NoOp
            \/ /\ op'.name = op.name /\ op'.step = op.step + 1 /\ op'.msg = op.msg /\ op'.held = Got(o)
               /\ op' # NoOp
<1>1. \/ op.name = "push" /\ op.step \in 1..6 /\ op.msg \in Message
      \/ op.name = "drain" /\ op.step \in 1..5
      \/ op.name \in {"count", "read", "reset"} /\ op.step \in Nat
  BY CurrentIsCommand
<1>2. op.name = "push" => Len(Script(op.name, op.msg)) = 6
  <2>1. Script("push", op.msg) = PushScript(op.msg) /\ Len(PushScript(op.msg)) = 6
    BY PushCommands
  <2> QED
    BY <2>1
<1>3. op.name = "drain" => Len(Script(op.name, op.msg)) = 5
  BY DrainCommands
<1>4. op' = NoOp \/ (GoesOn(o) /\ op.step # Len(Script(op.name, op.msg)))
  <2>1. CASE op.name = "push" /\ op.step \in 1..6
    <3>1. Pushing(o)
      BY <2>1 DEF Moves
    <3>2. (op.step \in 1..5 /\ GoesOn(o)) \/ op' = NoOp
      BY <3>1 DEF Pushing
    <3>3. op.step \in 1..5 => op.step # 6
      OBVIOUS
    <3>4. Len(Script(op.name, op.msg)) = 6
      BY <1>2, <2>1, Zenon
    <3> QED
      BY <3>2, <3>3, <3>4
  <2>2. CASE op.name = "drain" /\ op.step \in 1..5
    <3>1. Draining(o)
      BY <2>2 DEF Moves
    <3>2. (op.step \in 1..4 /\ GoesOn(o)) \/ op' = NoOp
      BY <3>1 DEF Draining
    <3>3. op.step \in 1..4 => op.step # 5
      OBVIOUS
    <3>4. Len(Script(op.name, op.msg)) = 5
      BY <1>3, <2>2, Zenon
    <3> QED
      BY <3>2, <3>3, <3>4
  <2>3. CASE op.name \in {"count", "read", "reset"}
    <3>1. Counting(o)
      BY <2>3 DEF Moves
    <3> QED
      BY <3>1 DEF Counting
  <2> QED
    BY <1>1, <2>1, <2>2, <2>3
<1>5. op' = NoOp => OpOK'
  BY DEF OpOK
<1> QED
  BY <1>4, <1>5, OpGoesOn

\* A step from a good state, with what holds of its outcome.
Outcome(o) ==
  \/ ~configured /\ Both(o, Current)
  \/ configured /\ Answered(o, Current)
  \/ configured /\ Fallen(o, Current)

LEMMA StepFacts ==
  ASSUME ClientOK, Step
  PROVE  /\ op # NoOp /\ IsCommand(Current)
         /\ \E o : /\ Moves(o) /\ Outcome(o)
                   /\ StoreOK(o.redis) /\ StoreOK(o.local)
                   /\ o.faults \in 0..MaxFaults
                   /\ Got(o) \in Seq(Message)
<1>1. op # NoOp /\ \E o \in Outcomes(Current) : Moves(o)
  BY StepMoves DEF ClientOK
<1>2. PICK o \in Outcomes(Current) : Moves(o)
  BY <1>1
<1>3. Outcome(o)
  BY OutcomeCases DEF ClientOK, Outcome
<1>4. /\ IsCommand(Current)
      /\ op \in [name : Operations, step : Nat \ {0}, msg : Message \cup {"none"}, held : Seq(Message)]
  BY <1>1, CurrentIsCommand DEF ClientOK
<1>5. /\ o.redis = redis \/ o.redis = RedisAfter(redis, Current)
      /\ o.local = local \/ o.local = LocalAfter(local, Current)
      /\ o.reply = RedisReply(redis, Current) \/ o.reply = LocalReply(local, Current)
      /\ o.faults = faults \/ (faults # MaxFaults /\ o.faults = faults + 1)
  BY <1>3 DEF Outcome, Both, Answered, Fallen
<1>6. StoreOK(o.redis) /\ StoreOK(o.local)
  <2>1. now \in Int
    BY ClientConstants DEF ClientOK
  <2> QED
    BY <1>4, <1>5, <2>1, StoresStayStores DEF ClientOK
<1>7. o.faults \in 0..MaxFaults
  BY <1>5, ClientConstants DEF ClientOK
<1>8. Got(o) \in Seq(Message)
  <2>1. Reads => o.reply = redis["inbox"].value \/ o.reply = local["inbox"].value
    BY <1>1, <1>5, ReadIsInbox DEF ClientOK
  <2>2. redis["inbox"].value \in Seq(Message) /\ local["inbox"].value \in Seq(Message)
    BY DEF ClientOK, StoreOK
  <2> QED
    BY <1>4, <2>1, <2>2 DEF Got
<1> QED
  BY <1>1, <1>2, <1>3, <1>4, <1>6, <1>7, <1>8

\* The messages of a sequence can be counted.
LEMMA TimesIsNat ==
  ASSUME NEW m, NEW s \in Seq(Message)
  PROVE  Times(m, s) \in Nat /\ (Times(m, s) = 0 <=> \A i \in DOMAIN s : s[i] # m)
<1> DEFINE at == {i \in DOMAIN s : s[i] = m}
<1>1. IsFiniteSet(at)
  <2>1. DOMAIN s = 1..Len(s) /\ Len(s) \in Nat
    OBVIOUS
  <2>2. IsFiniteSet(DOMAIN s)
    BY <2>1, FS_Interval
  <2> QED
    BY <2>2, FS_Subset
<1>2. Cardinality(at) \in Nat /\ (Cardinality(at) = 0 <=> at = {})
  BY <1>1, FS_CardinalityType, FS_EmptySet
<1> QED
  BY <1>2 DEF Times

LEMMA StoreOfNothing ==
  StoreOK([k \in Key |-> NoEntry])
<1> DEFINE s == [k \in Key |-> NoEntry]
<1>1. \A k \in Key : s[k] = NoEntry
  OBVIOUS
<1>2. NoEntry = [value |-> NoEntry.value, exp |-> NoEntry.exp] /\ NoEntry.exp \in Int /\ NoEntry.value = <<>>
  BY ClientConstants DEF NoEntry
<1>3. s["inbox"].value = <<>>
  BY <1>1, <1>2, ClientConstants
<1>4. s["inbox"].value \in Seq(Message)
  <2>1. <<>> \in Seq(Message)
    OBVIOUS
  <2> QED
    BY <1>3, <2>1, Zenon
<1>5. DOMAIN s = Key
  OBVIOUS
<1> HIDE DEF s
<1> QED
  BY <1>1, <1>2, <1>4, <1>5 DEF StoreOK, s

LEMMA TypesInit ==
  ASSUME ClientInit
  PROVE  ClientOK
<1>1. configured \in BOOLEAN
  BY RedisClientAssumption DEF ClientInit
<1>2. OpOK
  BY DEF ClientInit, OpOK
<1>3. StoreOK(redis) /\ StoreOK(local)
  BY StoreOfNothing DEF ClientInit
<1>4. now \in 0..MaxTime /\ faults \in 0..MaxFaults
  BY ClientConstants DEF ClientInit
<1>5. accepted \subseteq Message /\ delivered \in [Message -> Nat] /\ blind \in BOOLEAN
  BY DEF ClientInit
<1> QED
  BY <1>1, <1>2, <1>3, <1>4, <1>5 DEF ClientOK

LEMMA TypesStep ==
  ASSUME ClientOK, Step
  PROVE  ClientOK'
<1>1. op # NoOp /\ IsCommand(Current)
  BY StepFacts
<1>2. PICK o : /\ Moves(o) /\ StoreOK(o.redis) /\ StoreOK(o.local)
               /\ o.faults \in 0..MaxFaults /\ Got(o) \in Seq(Message)
  BY StepFacts
<1>3. /\ redis' = o.redis /\ local' = o.local /\ faults' = o.faults
      /\ configured' = configured /\ now' = now
      /\ blind' = (blind \/ (Reads /\ o.faults > faults))
  BY <1>2 DEF Moves
<1>4. OpOK'
  BY <1>1, <1>2, StepOp DEF ClientOK
<1>5. accepted' \subseteq Message
  <2>1. accepted' = accepted \/ (op.name = "push" /\ accepted' = accepted \cup {op.msg})
    BY <1>2 DEF Moves, Pushing
  <2>2. op.name = "push" => op.msg \in Message
    BY <1>1 DEF ClientOK, OpOK
  <2> QED
    BY <2>1, <2>2 DEF ClientOK
<1>6. delivered' \in [Message -> Nat]
  <2>1. \/ delivered' = delivered
        \/ delivered' = [m \in Message |-> delivered[m] + Times(m, op.held)]
    BY <1>1, <1>2 DEF Moves, Draining
  <2>2. op.held \in Seq(Message)
    BY <1>1, CurrentIsCommand DEF ClientOK
  <2>3. \A m \in Message : delivered[m] + Times(m, op.held) \in Nat
    BY <2>2, TimesIsNat DEF ClientOK
  <2>4. [m \in Message |-> delivered[m] + Times(m, op.held)] \in [Message -> Nat]
    BY <2>3
  <2> QED
    BY <2>1, <2>4 DEF ClientOK
<1>7. StoreOK(redis)' /\ StoreOK(local)'
  BY <1>2, <1>3 DEF StoreOK
<1> QED
  BY <1>2, <1>3, <1>4, <1>5, <1>6, <1>7 DEF ClientOK

LEMMA TypesRest ==
  ASSUME ClientOK, [ClientNext]_clientVars, ~Step
  PROVE  ClientOK'
<1>0. /\ configured \in BOOLEAN /\ StoreOK(redis) /\ StoreOK(local) /\ now \in 0..MaxTime
      /\ faults \in 0..MaxFaults /\ OpOK /\ accepted \subseteq Message
      /\ delivered \in [Message -> Nat] /\ blind \in BOOLEAN
  BY DEF ClientOK
<1>1. ASSUME NEW name \in Operations, NEW m \in Message \cup {"none"},
             name = "push" => m \in Message, Starts(name, m)
      PROVE  OpOK'
  <2>1. op' = [name |-> name, step |-> 1, msg |-> m, held |-> <<>>]
    BY <1>1 DEF Starts
  <2>2. 1 \in 1..Len(Script(name, m))
    <3>1. name = "push" => Len(Script(name, m)) = 6
      <4>1. Script("push", m) = PushScript(m) /\ Len(PushScript(m)) = 6
        BY PushCommands
      <4> QED
        BY <4>1
    <3>2. name = "drain" => Len(Script(name, m)) = 5
      BY DrainCommands
    <3>3. name \in {"count", "read", "reset"} => Len(Script(name, m)) \in 1..2
      BY CounterCommands
    <3> QED
      BY <3>1, <3>2, <3>3 DEF Operations
  <2>3. op'.name = name /\ op'.step = 1 /\ op'.msg = m /\ op'.held = <<>>
    BY <2>1
  <2>4. op' \in [name : Operations, step : Nat \ {0}, msg : Message \cup {"none"}, held : Seq(Message)]
    BY <1>1, <2>1
  <2> QED
    BY <1>1, <2>2, <2>3, <2>4 DEF OpOK
<1>2. ASSUME NEW m \in Message, Arrive(m) PROVE ClientOK'
  <2>1. OpOK'
    BY <1>1, <1>2 DEF Arrive, Operations
  <2> QED
    BY <1>0, <1>2, <2>1 DEF Arrive, stores, ClientOK, StoreOK
<1>3. ASSUME StartDrain PROVE ClientOK'
  <2>1. OpOK'
    BY <1>1, <1>3 DEF StartDrain, Operations
  <2> QED
    BY <1>0, <1>3, <2>1 DEF StartDrain, stores, ClientOK, StoreOK
<1>4. ASSUME NEW name \in {"count", "read", "reset"}, UseCounter(name) PROVE ClientOK'
  <2>1. OpOK'
    BY <1>1, <1>4 DEF UseCounter, Operations
  <2> QED
    BY <1>0, <1>4, <2>1 DEF UseCounter, stores, ClientOK, StoreOK
<1>5. ASSUME RestartClient PROVE ClientOK'
  <2>1. OpOK'
    BY <1>0, <1>5 DEF RestartClient, OpOK
  <2>2. StoreOK(local)'
    BY <1>5, StoreOfNothing DEF RestartClient, StoreOK
  <2>3. faults' \in 0..MaxFaults
    BY <1>0, <1>5, ClientConstants DEF RestartClient
  <2>4. StoreOK(redis)'
    BY <1>0, <1>5 DEF RestartClient, StoreOK
  <2> QED
    BY <1>0, <1>5, <2>1, <2>2, <2>3, <2>4 DEF RestartClient, ClientOK
<1>6. ASSUME Tick PROVE ClientOK'
  <2>1. OpOK'
    BY <1>0, <1>6 DEF Tick, OpOK
  <2>2. \A k \in Key : redis'[k] = NoEntry \/ redis'[k] = redis[k]
    BY <1>6 DEF Tick
  <2>3. NoEntry = [value |-> NoEntry.value, exp |-> NoEntry.exp] /\ NoEntry.exp \in Int /\ NoEntry.value = <<>>
    BY ClientConstants DEF NoEntry
  <2>4. DOMAIN redis' = Key
    BY <1>6 DEF Tick
  <2>5. redis'["inbox"].value \in Seq(Message)
    <3>1. redis'["inbox"].value = <<>> \/ redis'["inbox"].value = redis["inbox"].value
      BY <2>2, <2>3, ClientConstants
    <3>2. <<>> \in Seq(Message)
      OBVIOUS
    <3> QED
      BY <1>0, <3>1, <3>2 DEF StoreOK
  <2>6. StoreOK(redis)'
    BY <1>0, <2>2, <2>3, <2>4, <2>5 DEF StoreOK
  <2>7. now' \in 0..MaxTime
    BY <1>0, <1>6, ClientConstants DEF Tick
  <2> QED
    BY <1>0, <1>6, <2>1, <2>6, <2>7 DEF Tick, ClientOK, StoreOK
<1>7. ASSUME UNCHANGED clientVars PROVE ClientOK'
  BY <1>0, <1>7 DEF clientVars, ClientOK, StoreOK, OpOK
<1> QED
  BY <1>2, <1>3, <1>4, <1>5, <1>6, <1>7 DEF ClientNext

\* The steps that are not commands begin an operation, or leave none under way.
LEMMA RestOp ==
  ASSUME [ClientNext]_clientVars, ~Step
  PROVE  \/ op' = op
         \/ \E name \in Operations, m \in Message \cup {"none"} :
              /\ Starts(name, m)
              /\ name = "push" => m \in Message
              /\ UNCHANGED <<stores, now, accepted, delivered, blind, outlived>>
<1>1. ASSUME NEW m \in Message, Arrive(m)
      PROVE  Starts("push", m) /\ UNCHANGED <<stores, now, accepted, delivered, blind, outlived>>
  BY <1>1 DEF Arrive
<1>2. ASSUME StartDrain
      PROVE  Starts("drain", "none") /\ UNCHANGED <<stores, now, accepted, delivered, blind, outlived>>
  BY <1>2 DEF StartDrain
<1>3. ASSUME NEW name \in {"count", "read", "reset"}, UseCounter(name)
      PROVE  Starts(name, "none") /\ UNCHANGED <<stores, now, accepted, delivered, blind, outlived>>
  BY <1>3 DEF UseCounter
<1>4. RestartClient \/ Tick \/ UNCHANGED clientVars => op' = op
  BY DEF RestartClient, Tick, clientVars
<1> QED
  BY <1>1, <1>2, <1>3, <1>4, Zenon DEF ClientNext, Operations

LEMMA LiveAfter ==
  ASSUME ClientOK, LiveInv, NEW c, IsCommand(c)
  PROVE  /\ \A k \in Key : RedisAfter(redis, c)[k].exp > now
         /\ RedisAfter(redis, c)["inbox"].exp >= Ttl.inbox
         /\ \A m \in Message : RedisAfter(redis, c)[m].exp >= Ttl.dedup
<1>1. /\ DOMAIN redis = Key /\ now \in Int /\ now >= 0 /\ now <= MaxTime /\ MaxTime \in Int
      /\ \A k \in Key : redis[k] = [value |-> redis[k].value, exp |-> redis[k].exp] /\ redis[k].exp \in Int
  BY ClientConstants DEF ClientOK, StoreOK
<1>2. /\ c.key \in Key
      /\ \A k \in Key : k # c.key => RedisAfter(redis, c)[k] = redis[k]
      /\ RedisAfter(redis, c)[c.key] = After(redis[c.key], c)
  BY <1>1, RedisEffects, CommandNames
<1> DEFINE exp == RedisAfter(redis, c)[c.key].exp
<1>3. /\ exp \in {redis[c.key].exp, Never, now + c.ttl}
      /\ exp \notin {redis[c.key].exp, Never} => c.name \in {"SETNX", "EXPIRE"}
  BY <1>1, <1>2, AfterIsEntry
<1>4. c.name \in {"SETNX", "EXPIRE"} =>
        /\ c.ttl \in Nat /\ c.ttl > 0
        /\ c.key = "inbox" => c.ttl = Ttl.inbox
        /\ c.key \in Message => c.ttl = Ttl.dedup
  BY ClientConstants DEF IsCommand
<1> HIDE DEF exp
<1>5. exp > now /\ (c.key = "inbox" => exp >= Ttl.inbox) /\ (c.key \in Message => exp >= Ttl.dedup)
  <2>1. redis[c.key].exp > now /\ redis["inbox"].exp >= Ttl.inbox /\ \A m \in Message : redis[m].exp >= Ttl.dedup
    BY <1>2 DEF LiveInv
  <2>2. CASE exp = redis[c.key].exp
    BY <2>1, <2>2
  <2>3. CASE exp = Never
    BY <1>1, <2>3, ClientConstants
  <2>4. CASE exp \notin {redis[c.key].exp, Never}
    BY <1>1, <1>3, <1>4, <2>4, ClientConstants
  <2> QED
    BY <2>2, <2>3, <2>4
<1> QED
  BY <1>2, <1>5, ClientConstants DEF LiveInv, exp

LEMMA LiveStays ==
  ASSUME ClientOK, LiveInv, [ClientNext]_clientVars
  PROVE  LiveInv'
<1>1. CASE Step
  <2>1. PICK o : Moves(o) /\ Outcome(o)
    BY <1>1, StepFacts
  <2>2. redis' = redis \/ redis' = RedisAfter(redis, Current)
    BY <2>1 DEF Moves, Outcome, Both, Answered, Fallen
  <2>3. now' = now
    BY <2>1 DEF Moves
  <2>4. IsCommand(Current)
    BY <1>1, StepFacts
  <2> QED
    BY <2>2, <2>3, <2>4, LiveAfter DEF LiveInv
<1>2. CASE Tick
  <2>1. /\ now' \in Int /\ now' <= MaxTime /\ MaxTime \in Int
        /\ \A k \in Key : redis'[k] = IF redis[k].exp <= now' THEN NoEntry ELSE redis[k]
        /\ \A k \in Key : redis[k].exp \in Int
    BY <1>2, ClientConstants DEF Tick, ClientOK, StoreOK
  <2>2. NoEntry.exp = Never
    BY DEF NoEntry
  <2>3. \A k \in Key : redis'[k].exp > now' /\ (redis'[k].exp = Never \/ redis'[k].exp = redis[k].exp)
    BY <2>1, <2>2, ClientConstants
  <2> QED
    BY <2>1, <2>3, ClientConstants DEF LiveInv
<1>3. CASE ~Step /\ ~Tick
  <2>1. redis' = redis /\ now' = now
    BY <1>3 DEF ClientNext, Arrive, UseCounter, StartDrain, RestartClient, clientVars, stores
  <2> QED
    BY <2>1 DEF LiveInv
<1> QED
  BY <1>1, <1>2, <1>3

LEMMA HeldStays ==
  ASSUME ClientOK, HeldInv, [ClientNext]_clientVars
  PROVE  HeldInv'
<1>1. CASE Step
  <2>1. op # NoOp /\ IsCommand(Current)
    BY <1>1, StepFacts
  <2>2. PICK o : Moves(o) /\ Outcome(o) /\ o.faults \in 0..MaxFaults /\ Got(o) \in Seq(Message)
    BY <1>1, StepFacts
  <2>3. \/ op' = NoOp
        \/ op'.name = op.name /\ op'.step = op.step + 1 /\ op'.msg = op.msg /\ op'.held = Got(o)
    BY <2>1, <2>2, StepOp DEF ClientOK
  <2>4. op.step \in Nat /\ (op.name = "drain" => op.step \in 1..5)
    BY <2>1, CurrentIsCommand DEF ClientOK
  <2>5. NoOp.name # "drain" /\ NoOp.held = <<>>
    BY DEF NoOp
  <2>6. op'.name # "drain" \/ op'.step <= 3 => op'.held = <<>>
    <3>1. ASSUME op' # NoOp, op'.name # "drain" \/ op'.step <= 3
          PROVE  op.held = <<>> /\ ~Reads
      BY <2>3, <2>4, <3>1 DEF HeldInv, Reads
    <3> QED
      BY <2>3, <2>5, <3>1 DEF Got
  <2>7. ASSUME op'.name = "drain", op'.step = 4, ~blind'
        PROVE  op'.held = redis'["inbox"].value
    <3>1. op.name = "drain" /\ op.step = 3 /\ op'.held = o.reply
      BY <2>3, <2>4, <2>5, <2>7 DEF Got, Reads
    <3>2. o.faults <= faults
      <4>1. blind' = (blind \/ (Reads /\ o.faults > faults)) /\ Reads
        BY <2>2, <3>1 DEF Moves, Reads
      <4>2. ~(o.faults > faults)
        BY <2>7, <4>1, Zenon
      <4> QED
        BY <2>2, <4>2, ClientConstants DEF ClientOK
    <3>3. configured /\ Answered(o, Current)
      BY <2>2, <3>1, <3>2 DEF Outcome, Fallen, HeldInv, ClientOK
    <3>4. o.reply = redis["inbox"].value
      BY <2>1, <3>1, <3>3, ReadIsInbox DEF Answered, Reads, ClientOK
    <3>5. redis' = RedisAfter(redis, Current)
      BY <2>2, <3>3 DEF Moves, Answered
    <3>6. Current.name = "LRANGE" /\ Current.key = "inbox"
      BY <2>1, <3>1, CurrentCases DEF ClientOK
    <3>7. redis'["inbox"].value = redis["inbox"].value
      BY <2>1, <3>5, <3>6, InboxAfter DEF ClientOK
    <3> QED
      BY <3>1, <3>4, <3>7
  <2>8. ASSUME ~configured'
        PROVE  delivered' = [m \in Message |-> 0] /\ (op'.name = "drain" => op'.step <= 2)
    <3>1. ~configured
      BY <2>2, <2>8 DEF Moves
    <3>2. delivered = [m \in Message |-> 0] /\ (op.name = "drain" => op.step <= 2)
      BY <3>1 DEF HeldInv
    <3>3. Both(o, Current)
      BY <2>2, <3>1 DEF Outcome
    <3>4. op.name = "drain" => Draining(o)
      BY <2>2 DEF Moves
    <3>5. delivered' = delivered
      <4>1. op.name # "drain" => delivered' = delivered
        BY <2>2 DEF Moves
      <4> QED
        BY <3>2, <3>4, <4>1 DEF Draining
    <3>6. op.name = "drain" /\ op.step = 2 => op' = NoOp
      <4>1. ASSUME op.name = "drain", op.step = 2 PROVE op' = NoOp
        <5>1. Current.name = "LINDEX"
          BY <2>1, <4>1, CurrentCases DEF ClientOK
        <5>2. o.reply = Nil
          BY <3>3, <5>1 DEF Both, LocalReply
        <5> QED
          BY <3>4, <4>1, <5>2 DEF Draining
      <4> QED
        BY <4>1
    <3>7. op'.name = "drain" => op'.step <= 2
      BY <2>3, <2>4, <2>5, <3>2, <3>6
    <3> QED
      BY <3>2, <3>5, <3>7
  <2> QED
    BY <2>6, <2>7, <2>8 DEF HeldInv
<1>2. CASE ~Step /\ op' = op
  <2>1. /\ configured' = configured /\ delivered' = delivered /\ blind' = blind
        /\ redis' = redis \/ op = NoOp
    BY <1>2 DEF ClientNext, Arrive, UseCounter, StartDrain, RestartClient, Tick, clientVars, stores
  <2>2. NoOp.name # "drain"
    BY DEF NoOp
  <2> QED
    BY <1>2, <2>1, <2>2 DEF HeldInv
<1>3. CASE ~Step /\ op' # op
  <2>1. PICK name \in Operations, m \in Message \cup {"none"} :
          Starts(name, m) /\ UNCHANGED <<stores, now, accepted, delivered, blind, outlived>>
    BY <1>3, RestOp
  <2>2. op'.name = name /\ op'.step = 1 /\ op'.held = <<>>
    BY <2>1 DEF Starts
  <2> QED
    BY <2>1, <2>2 DEF HeldInv, stores
<1> QED
  BY <1>1, <1>2, <1>3

(***************************************************************************)
(* The fallback holds what a Redis would hold.                             *)
(***************************************************************************)

\* Between what a push does to a list and its EXPIRE, the times that the list has in the two
\* stores are not compared: LPUSH keeps that of an empty list in the fallback.
Renewed(k) ==
  /\ op.name = "push"
  /\ \/ k = "inbox" /\ op.step = 3
     \/ k = "index" /\ op.step \in {5, 6}

\* What a key is for a reader of the fallback at time t; and that the two stores agree on it.
SeenAt(l, k, t) == IF k \notin ListKey /\ l.value # <<>> /\ l.exp <= t THEN <<>> ELSE l.value
Twins(r, l, k, t, renewed) ==
  /\ r.value = SeenAt(l, k, t)
  /\ SeenAt(l, k, t) # <<>> /\ ~renewed => r.exp = l.exp
  /\ k \notin Message /\ l.value # <<>> /\ ~renewed => l.exp > t
SameInv ==
  ~configured /\ faults = 0 =>
    \A k \in Key \ outlived : Twins(redis[k], local[k], k, now, Renewed(k))

\* Two entries that agree still do after a command.
LEMMA TwinsAfter ==
  ASSUME NEW c, IsCommand(c), now \in 0..MaxTime,
         NEW r, r.exp \in Int, r.exp > now, NEW l, l.exp \in Int,
         NEW was \in BOOLEAN, NEW is \in BOOLEAN, Twins(r, l, c.key, now, was),
         c.name \in {"LREM", "LPUSH"} => is,
         c.name \notin {"LREM", "LPUSH", "EXPIRE"} \/ c.key \notin ListKey => ~was
  PROVE  Twins(After(r, c), AfterLocally(l, c), c.key, now, is)
<1> DEFINE k == c.key
<1>0. /\ now \in Int /\ Never \in Int /\ Never > now
      /\ k \in ListKey <=> k \in {"inbox", "index"}
      /\ k \in Key
      /\ k \in Message \/ k = "attempts" \/ k \in ListKey
      /\ "attempts" \notin Message /\ "attempts" \notin ListKey
      /\ k \in ListKey => k \notin Message
  BY ClientConstants, CommandNames DEF ListKey
<1>1. /\ r.value = SeenAt(l, k, now)
      /\ SeenAt(l, k, now) # <<>> /\ ~was => r.exp = l.exp
      /\ k \notin Message /\ l.value # <<>> /\ ~was => l.exp > now
  BY DEF Twins
<1>2. \A value, exp : Entry(value, exp).value = value /\ Entry(value, exp).exp = exp
  BY DEF Entry
<1>3. NoEntry = Entry(<<>>, Never) /\ NoEntry.value = <<>> /\ NoEntry.exp = Never
  BY DEF NoEntry, Entry
<1>4. \A x : <<x>> # <<>>
  OBVIOUS
<1>5. k \in ListKey => SeenAt(l, k, now) = l.value
  BY DEF SeenAt
<1>6. k = "attempts" => SeenAt(l, k, now) = l.value /\ ~Expired(l)
  BY <1>0, <1>1 DEF SeenAt, Expired
<1> HIDE DEF k
<1>7. CASE k \in Message
  <2>1. c.name = "SETNX" /\ c.arg = <<"1">> /\ c.ttl \in Nat /\ c.ttl > 0
    BY <1>0, <1>7, ClientConstants DEF IsCommand, k
  <2>2. ~was /\ k \notin ListKey
    BY <1>0, <1>7, <2>1 DEF k
  <2>3. Expired(l) \/ l.value = <<>> => r.value = <<>>
    BY <1>1, <2>2 DEF SeenAt, Expired
  <2>4. ~Expired(l) => r.value = l.value /\ (l.value # <<>> => l.exp > now /\ r.exp = l.exp)
    BY <1>1, <2>2, <1>0 DEF SeenAt, Expired
  <2>5. CASE r.value = <<>>
    <3>1. After(r, c) = Entry(<<"1">>, now + c.ttl)
      BY <2>1, <2>5 DEF After, Unset
    <3>2. AfterLocally(l, c) = Entry(<<"1">>, now + c.ttl)
      <4>1. CASE Expired(l)
        BY <1>3, <2>1, <4>1 DEF AfterLocally, After, Unset
      <4>2. CASE ~Expired(l)
        BY <2>1, <2>4, <2>5, <4>2 DEF AfterLocally, After, Unset
      <4> QED
        BY <4>1, <4>2
    <3>3. SeenAt(AfterLocally(l, c), k, now) = <<"1">> /\ now + c.ttl > now
      BY <1>0, <1>2, <2>1, <3>2 DEF SeenAt
    <3> QED
      BY <1>2, <1>7, <3>1, <3>2, <3>3 DEF Twins, k
  <2>6. CASE r.value # <<>>
    <3>1. After(r, c) = r
      BY <2>1, <2>6 DEF After, Unset
    <3>2. ~Expired(l) /\ l.value # <<>>
      BY <2>3, <2>6
    <3>3. AfterLocally(l, c) = l
      BY <2>1, <3>2 DEF AfterLocally, After, Unset
    <3> QED
      BY <1>1, <1>7, <2>2, <3>1, <3>3 DEF Twins, k
  <2> QED
    BY <2>5, <2>6
<1>8. CASE k \notin Message
  <2>0. /\ r.value = l.value /\ k \notin Message
        /\ l.value # <<>> /\ ~was => r.exp = l.exp /\ l.exp > now
        /\ k = "attempts" => ~was /\ ~Expired(l)
        /\ k = "attempts" \/ k \in ListKey
    BY <1>0, <1>1, <1>5, <1>6, <1>8 DEF k
  <2>s. ASSUME NEW e, NEW d, e.value = d.value,
               e.value # <<>> /\ ~is => e.exp = d.exp /\ d.exp > now,
               k = "attempts" /\ d.value # <<>> => d.exp \in Int /\ d.exp > now
        PROVE  Twins(e, d, k, now, is)
    <3>1. SeenAt(d, k, now) = d.value
      <4>1. CASE k \in ListKey
        BY <4>1 DEF SeenAt
      <4>2. CASE k = "attempts" /\ d.value # <<>>
        <5>1. d.exp > now
          BY <2>s, <4>2
        <5>2. d.exp \in Int
          BY <2>s, <4>2
        <5>3. ~(d.exp <= now)
          BY <5>1, <5>2, <1>0
        <5> QED
          BY <5>3, <4>2 DEF SeenAt
      <4>3. CASE d.value = <<>>
        BY <4>3 DEF SeenAt
      <4> QED
        BY <2>0, <4>1, <4>2, <4>3
    <3> QED
      BY <2>0, <2>s, <3>1 DEF Twins
  <2>1. CASE c.name = "LPUSH"
    <3>1. After(r, c).value = c.arg \o r.value
      BY <2>1 DEF After, Entry
    <3>2. AfterLocally(l, c).value = c.arg \o l.value
      BY <2>1 DEF AfterLocally, Entry
    <3>3. k # "attempts" /\ is
      BY <2>1, ClientConstants DEF IsCommand, k
    <3> QED
      BY <2>0, <2>s, <3>1, <3>2, <3>3 DEF k
  <2>2. CASE c.name = "LREM"
    <3> DEFINE rest == Without(l.value, c.arg[1])
    <3>1. After(r, c).value = rest
      <4>1. After(r, c) = IF rest = <<>> THEN NoEntry ELSE Entry(rest, IF Unset(r) THEN Never ELSE r.exp)
        BY <2>0, <2>2 DEF After
      <4> HIDE DEF rest
      <4> QED
        BY <1>2, <1>3, <4>1
    <3>2. AfterLocally(l, c).value = rest
      BY <2>2 DEF AfterLocally, Entry
    <3>3. k # "attempts" /\ is
      BY <2>2, ClientConstants DEF IsCommand, k
    <3> HIDE DEF rest
    <3> QED
      BY <2>0, <2>s, <3>1, <3>2, <3>3 DEF k
  <2>3. CASE c.name = "EXPIRE"
    <3>1. c.ttl \in Int /\ c.ttl > 0
      BY <2>3, ClientConstants DEF IsCommand
    <3>2. now + c.ttl \in Int /\ now + c.ttl > now
      BY <1>0, <3>1
    <3>3. CASE l.value = <<>>
      <4>1. After(r, c) = r
        BY <2>0, <2>3, <3>3 DEF After, Unset
      <4>2. AfterLocally(l, c).value = <<>>
        BY <1>2, <2>3, <3>3 DEF AfterLocally, After, Unset
      <4> QED
        BY <2>0, <2>s, <3>3, <4>1, <4>2 DEF k
    <3>4. CASE l.value # <<>>
      <4>1. After(r, c) = Entry(l.value, now + c.ttl)
        BY <2>0, <2>3, <3>4 DEF After, Unset
      <4>2. AfterLocally(l, c) = Entry(l.value, now + c.ttl)
        BY <1>3, <2>3, <3>4 DEF AfterLocally
      <4> QED
        BY <1>2, <2>s, <3>2, <4>1, <4>2 DEF k
    <3> QED
      BY <3>3, <3>4
  <2>4. CASE c.name = "INCR"
    <3>1. k = "attempts"
      BY <2>4, ClientConstants DEF IsCommand, k
    <3> DEFINE new == <<IF Unset(l) THEN 1 ELSE l.value[1] + 1>>
    <3>2. After(r, c) = Entry(new, IF Unset(l) THEN Never ELSE r.exp)
      BY <2>0, <2>4 DEF After, Unset
    <3>3. AfterLocally(l, c) = Entry(new, IF Unset(l) THEN Never ELSE l.exp)
      BY <2>4 DEF AfterLocally, After
    <3>4. ~Unset(l) => r.exp = l.exp /\ l.exp > now
      BY <2>0, <3>1 DEF Unset
    <3> HIDE DEF new
    <3> QED
      BY <1>0, <1>2, <2>s, <3>2, <3>3, <3>4 DEF k
  <2>5. CASE c.name = "DEL"
    <3>1. After(r, c) = NoEntry /\ AfterLocally(l, c) = NoEntry
      BY <2>5 DEF After, AfterLocally
    <3> QED
      BY <1>3, <2>s, <3>1 DEF k
  <2>6. CASE c.name \in {"GET", "LRANGE", "LINDEX"}
    <3>1. c.name = "GET" => k = "attempts"
      BY <2>6, ClientConstants DEF IsCommand, k
    <3>2. After(r, c) = r
      BY <2>6 DEF After
    <3>3. AfterLocally(l, c) = l
      BY <2>0, <2>6, <3>1 DEF AfterLocally, After
    <3>4. ~was
      BY <2>6
    <3> QED
      BY <2>0, <2>s, <3>2, <3>3, <3>4 DEF k
  <2>7. c.name # "SETNX"
    BY <1>0, <1>8, ClientConstants DEF IsCommand, k
  <2> QED
    BY <2>1, <2>2, <2>3, <2>4, <2>5, <2>6, <2>7, CommandNames
<1> QED
  BY <1>7, <1>8 DEF k

LEMMA SameStays ==
  ASSUME ClientOK, LiveInv, HeldInv, SameInv, [ClientNext]_clientVars
  PROVE  SameInv'
<1>1. CASE Step
  <2>1. op # NoOp /\ IsCommand(Current)
    BY <1>1, StepFacts
  <2>2. PICK o : Moves(o) /\ Outcome(o) /\ o.faults \in 0..MaxFaults /\ Got(o) \in Seq(Message)
    BY <1>1, StepFacts
  <2>3. SUFFICES ASSUME ~configured', faults' = 0, NEW k \in Key \ outlived'
                 PROVE  Twins(redis'[k], local'[k], k, now', Renewed(k)')
    BY DEF SameInv
  <2>4. /\ configured' = configured /\ faults' = o.faults /\ outlived' = outlived /\ now' = now
        /\ redis' = o.redis /\ local' = o.local
    BY <2>2 DEF Moves
  <2>5. Both(o, Current)
    BY <2>2, <2>3, <2>4 DEF Outcome
  <2>6. faults = 0 /\ redis' = RedisAfter(redis, Current) /\ local' = LocalAfter(local, Current)
    BY <2>3, <2>4, <2>5 DEF Both
  <2>7. Twins(redis[k], local[k], k, now, Renewed(k))
    BY <2>3, <2>4, <2>6 DEF SameInv
  <2>8. /\ Current.key \in Key
        /\ \A j \in Key : j # Current.key => redis'[j] = redis[j] /\ local'[j] = local[j]
        /\ redis'[Current.key] = After(redis[Current.key], Current)
        /\ local'[Current.key] = AfterLocally(local[Current.key], Current)
    BY <2>1, <2>6, RedisEffects, LocalEffects, CommandNames DEF ClientOK, StoreOK
  <2>9. \/ op.name = "push" /\ op.step \in 1..6
        \/ op.name = "drain" /\ op.step \in 1..2
        \/ op.name \in {"count", "read", "reset"} /\ Current.key = "attempts"
    BY <2>1, <2>3, <2>4, CurrentIsCommand DEF ClientOK, HeldInv
  <2>10. CASE k # Current.key
    <3>1. ~Renewed(k)
      BY <2>1, <2>10, CurrentCases DEF Renewed, ClientOK
    <3> QED
      BY <2>3, <2>4, <2>7, <2>8, <2>10, <3>1 DEF Twins
  <2>11. CASE k = Current.key
    <3>1. Current.name \in {"LREM", "LPUSH"} => Renewed(k)'
      <4>1. ASSUME Current.name \in {"LREM", "LPUSH"} PROVE Renewed(k)'
        <5>1. op.name = "push" /\ op.step \in {2, 4, 5}
          <6>1. Current.key # "attempts"
            BY <2>1, <4>1, ClientConstants DEF IsCommand
          <6>2. op.name = "drain" => Current.name \notin {"LREM", "LPUSH"}
            BY <2>1, <2>9, CurrentCases DEF ClientOK
          <6>3. op.name = "push" /\ op.step \in {1, 3, 6} => Current.name \notin {"LREM", "LPUSH"}
            BY <2>1, CurrentCases DEF ClientOK
          <6> QED
            BY <2>9, <4>1, <6>1, <6>2, <6>3
        <5>2. GoesOn(o)
          BY <2>2, <5>1 DEF Moves, Pushing
        <5>3. op.step # Len(Script(op.name, op.msg))
          <6>1. Script("push", op.msg) = PushScript(op.msg) /\ Len(PushScript(op.msg)) = 6
            BY PushCommands
          <6>2. op.step # 6
            BY <5>1
          <6> QED
            BY <5>1, <6>1, <6>2, Zenon
        <5>4. op'.name = "push" /\ op'.step = op.step + 1
          BY <2>1, <2>2, <5>1, <5>2, <5>3, OpGoesOn DEF ClientOK
        <5>5. op.step = 2 => k = "inbox"
          BY <2>1, <2>11, <5>1, CurrentCases DEF ClientOK
        <5>6. op.step \in {4, 5} => k = "index"
          BY <2>1, <2>11, <5>1, CurrentCases DEF ClientOK
        <5> QED
          BY <5>1, <5>4, <5>5, <5>6 DEF Renewed
      <4> QED
        BY <4>1
    <3>2. Current.name \notin {"LREM", "LPUSH", "EXPIRE"} \/ k \notin ListKey => ~Renewed(k)
      <4>1. Renewed(k) => Current.name \in {"LPUSH", "EXPIRE"} /\ k \in {"inbox", "index"}
        BY <2>1, CurrentCases DEF Renewed, ClientOK
      <4> QED
        BY <4>1 DEF ListKey
    <3>3. /\ redis[k].exp \in Int /\ redis[k].exp > now /\ local[k].exp \in Int
          /\ now \in 0..MaxTime
      BY DEF ClientOK, StoreOK, LiveInv
    <3>4. Renewed(k) \in BOOLEAN /\ Renewed(k)' \in BOOLEAN
      BY DEF Renewed
    <3>5. Twins(After(redis[k], Current), AfterLocally(local[k], Current), k, now, Renewed(k)')
      <4> DEFINE was == Renewed(k)
                 is == Renewed(k)'
                 r == redis[k]
                 l == local[k]
      <4>1. /\ was \in BOOLEAN /\ is \in BOOLEAN /\ Twins(r, l, Current.key, now, was)
            /\ Current.name \in {"LREM", "LPUSH"} => is
            /\ Current.name \notin {"LREM", "LPUSH", "EXPIRE"} \/ Current.key \notin ListKey => ~was
            /\ r.exp \in Int /\ r.exp > now /\ l.exp \in Int
        BY <2>7, <2>11, <3>1, <3>2, <3>3, <3>4
      <4> HIDE DEF was, is, r, l
      <4>2. Twins(After(r, Current), AfterLocally(l, Current), Current.key, now, is)
        BY <2>1, <3>3, <4>1, TwinsAfter
      <4> QED
        BY <2>11, <4>2 DEF is, r, l
    <3> QED
      BY <2>4, <2>8, <2>11, <3>5
  <2> QED
    BY <2>10, <2>11
<1>2. CASE Tick
  <2>1. SUFFICES ASSUME ~configured', faults' = 0, NEW k \in Key \ outlived'
                 PROVE  Twins(redis'[k], local'[k], k, now', Renewed(k)')
    BY DEF SameInv
  <2>2. /\ now' = now + 1 /\ now \in Int /\ k \in Key
        /\ redis'[k] = (IF redis[k].exp <= now' THEN NoEntry ELSE redis[k])
        /\ local' = local /\ op = NoOp /\ op' = op
        /\ k \notin outlived
        /\ k \notin Message => ~(local[k].value # <<>> /\ local[k].exp <= now')
        /\ ~configured /\ faults = 0
    BY <1>2, <2>1 DEF Tick, ClientOK
  <2>3. ~Renewed(k) /\ ~Renewed(k)'
    BY <2>2 DEF Renewed, NoOp
  <2>4. Twins(redis[k], local[k], k, now, FALSE)
    <3>1. Twins(redis[k], local[k], k, now, Renewed(k))
      BY <2>2 DEF SameInv
    <3> QED
      BY <2>3, <3>1 DEF Twins
  <2>5. redis[k].exp \in Int /\ local[k].exp \in Int /\ NoEntry.value = <<>>
    BY <2>2 DEF ClientOK, StoreOK, NoEntry
  <2>6. k \in ListKey => k \notin Message
    BY ClientConstants DEF ListKey
  <2>7. Twins(redis'[k], local[k], k, now', FALSE)
    <3> DEFINE r == redis[k]
               l == local[k]
               r2 == redis'[k]
    <3>1. /\ r.value = SeenAt(l, k, now) /\ (SeenAt(l, k, now) # <<>> => r.exp = l.exp)
          /\ k \notin Message /\ l.value # <<>> => l.exp > now + 1
          /\ r.exp \in Int /\ l.exp \in Int /\ now \in Int
          /\ IF r.exp <= now + 1 THEN r2.value = <<>> ELSE r2 = r
      BY <2>2, <2>4, <2>5 DEF Twins
    <3> HIDE DEF r, l, r2
    <3>2. Twins(r2, l, k, now + 1, FALSE)
      <4>1. CASE l.value = <<>>
        BY <3>1, <4>1 DEF Twins, SeenAt
      <4>2. CASE l.value # <<>> /\ k \notin Message
        <5>1. SeenAt(l, k, now) = l.value /\ SeenAt(l, k, now + 1) = l.value
          BY <3>1, <4>2 DEF SeenAt
        <5> QED
          BY <3>1, <4>2, <5>1 DEF Twins
      <4>3. CASE l.value # <<>> /\ k \in Message /\ l.exp <= now + 1
        <5>1. SeenAt(l, k, now + 1) = <<>>
          BY <2>6, <4>3 DEF SeenAt
        <5>2. r2.value = <<>>
          BY <3>1, <4>3 DEF SeenAt
        <5> QED
          BY <4>3, <5>1, <5>2 DEF Twins
      <4>4. CASE l.value # <<>> /\ k \in Message /\ l.exp > now + 1
        <5>1. SeenAt(l, k, now) = l.value /\ SeenAt(l, k, now + 1) = l.value
          BY <3>1, <4>4 DEF SeenAt
        <5> QED
          BY <3>1, <4>4, <5>1 DEF Twins
      <4>5. l.exp <= now + 1 \/ l.exp > now + 1
        BY <3>1
      <4> QED
        BY <4>1, <4>2, <4>3, <4>4, <4>5, Zenon
    <3> QED
      BY <2>2, <3>2 DEF r, l, r2
  <2> QED
    BY <2>2, <2>3, <2>7 DEF Twins
<1>3. CASE ~Step /\ ~Tick
  <2>1. \/ RestartClient
        \/ /\ UNCHANGED <<configured, redis, local, faults, now, outlived>>
           /\ op' = op \/ op = NoOp
    BY <1>3 DEF ClientNext, Arrive, UseCounter, StartDrain, Starts, clientVars, stores
  <2>2. CASE RestartClient
    <3>1. faults' # 0
      BY <2>2, ClientConstants DEF RestartClient, ClientOK
    <3> QED
      BY <3>1 DEF SameInv
  <2>3. CASE UNCHANGED <<configured, redis, local, faults, now, outlived>> /\ (op' = op \/ op = NoOp)
    <3>1. \A k : Renewed(k) => Renewed(k)'
      BY <2>3 DEF Renewed, NoOp
    <3> QED
      BY <2>3, <3>1 DEF SameInv, Twins
  <2> QED
    BY <2>1, <2>2, <2>3
<1> QED
  BY <1>1, <1>2, <1>3

(***************************************************************************)
(* What is accepted is not lost, unless two things fail or a drain is blind.*)
(***************************************************************************)

\* Of the two stores, the fallback counts only where there is a Redis that may fail.
Stored(m) ==
  \/ m \in ToSet(redis["inbox"].value)
  \/ configured /\ m \in ToSet(local["inbox"].value)
  \/ m \in ToSet(op.held)
Pending(m) == op.name = "push" /\ op.msg = m /\ op.step = 2
Safe(m) == delivered[m] > 0 \/ Stored(m) \/ Pending(m) \/ blind \/ faults >= 2
LossInv ==
  /\ configured /\ faults = 0 => local["inbox"].value = <<>>
  /\ op.name = "push" /\ op.step >= 2 => op.msg \in accepted
  /\ now < Ttl.inbox => \A m \in accepted : Safe(m)

LEMMA PushedSet ==
  ASSUME NEW x \in Message, NEW s \in Seq(Message)
  PROVE  ToSet(<<x>> \o s) = {x} \cup ToSet(s)
<1> DEFINE t == <<x>> \o s
<1>1. /\ DOMAIN s = 1..Len(s) /\ Len(s) \in Nat
      /\ DOMAIN t = 1..(Len(s) + 1)
      /\ t[1] = x /\ \A i \in 1..Len(s) : t[i + 1] = s[i]
  OBVIOUS
<1> HIDE DEF t
<1>2. \A y \in ToSet(t) : y = x \/ y \in ToSet(s)
  <2>1. SUFFICES ASSUME NEW i \in 1..(Len(s) + 1) PROVE t[i] = x \/ t[i] \in ToSet(s)
    BY <1>1 DEF ToSet
  <2>2. CASE i = 1
    BY <1>1, <2>2
  <2>3. CASE i # 1
    <3>1. i - 1 \in 1..Len(s) /\ (i - 1) + 1 = i
      BY <1>1, <2>3
    <3> QED
      BY <1>1, <3>1 DEF ToSet
  <2> QED
    BY <2>2, <2>3
<1>3. x \in ToSet(t)
  BY <1>1 DEF ToSet
<1>4. \A y \in ToSet(s) : y \in ToSet(t)
  <2>1. SUFFICES ASSUME NEW i \in 1..Len(s) PROVE s[i] \in ToSet(t)
    BY <1>1 DEF ToSet
  <2>2. i + 1 \in DOMAIN t /\ t[i + 1] = s[i]
    BY <1>1
  <2> QED
    BY <2>2 DEF ToSet
<1> QED
  BY <1>2, <1>3, <1>4 DEF t

LEMMA EmptySet == ToSet(<<>>) = {}
  BY DEF ToSet

\* The contents of the two inboxes after a step, and what its drain holds.
LEMMA InboxMoves ==
  ASSUME ClientOK, HeldInv, op # NoOp, NEW o, Moves(o), Outcome(o)
  PROVE  /\ op.name = "push" /\ op.step = 2 =>
              /\ redis'["inbox"].value \in {redis["inbox"].value, <<op.msg>> \o redis["inbox"].value}
              /\ local'["inbox"].value \in {local["inbox"].value, <<op.msg>> \o local["inbox"].value}
              /\ ~configured => redis'["inbox"].value = <<op.msg>> \o redis["inbox"].value
              /\ faults' = faults => redis'["inbox"].value = <<op.msg>> \o redis["inbox"].value
              /\ configured /\ faults' = faults => local'["inbox"].value = local["inbox"].value
              /\ faults' # faults => local'["inbox"].value = <<op.msg>> \o local["inbox"].value
         /\ op.name = "drain" /\ op.step = 4 =>
              /\ configured
              /\ redis'["inbox"].value \in {redis["inbox"].value, <<>>}
              /\ faults' = faults => redis'["inbox"].value = <<>> /\ local'["inbox"].value = local["inbox"].value
              /\ faults' # faults => local'["inbox"].value = <<>>
         /\ ~(op.name = "push" /\ op.step = 2) /\ ~(op.name = "drain" /\ op.step = 4) =>
              redis'["inbox"].value = redis["inbox"].value /\ local'["inbox"].value = local["inbox"].value
         /\ faults' \in {faults, faults + 1}
         /\ faults' # faults => configured
         /\ configured /\ faults' = faults => local' = local
<1>1. /\ IsCommand(Current) /\ StoreOK(redis) /\ StoreOK(local) /\ faults \in Int
      /\ redis' = o.redis /\ local' = o.local /\ faults' = o.faults
  BY CurrentIsCommand, ClientConstants DEF ClientOK, Moves
<1>2. /\ \/ ~configured /\ redis' = RedisAfter(redis, Current) /\ local' = LocalAfter(local, Current) /\ faults' = faults
         \/ configured /\ redis' = RedisAfter(redis, Current) /\ local' = local /\ faults' = faults
         \/ /\ configured /\ redis' \in {redis, RedisAfter(redis, Current)}
            /\ local' = LocalAfter(local, Current) /\ faults' = faults + 1
      /\ faults + 1 # faults
  BY <1>1 DEF Outcome, Both, Answered, Fallen
<1>3. ASSUME op.name = "push", op.step = 2
      PROVE  /\ RedisAfter(redis, Current)["inbox"].value = <<op.msg>> \o redis["inbox"].value
             /\ LocalAfter(local, Current)["inbox"].value = <<op.msg>> \o local["inbox"].value
  <2>1. Current.name = "LPUSH" /\ Current.key = "inbox" /\ Current.arg = <<op.msg>>
    BY <1>3, CurrentCases DEF ClientOK
  <2>2. RedisAfter(redis, Current)["inbox"].value = Current.arg \o redis["inbox"].value
    BY <1>1, <2>1, InboxAfter
  <2>3. LocalAfter(local, Current)["inbox"].value = Current.arg \o local["inbox"].value
    BY <1>1, <2>1, InboxAfter
  <2> QED
    BY <2>1, <2>2, <2>3, Zenon
<1>4. ASSUME op.name = "drain", op.step = 4
      PROVE  /\ RedisAfter(redis, Current)["inbox"].value = <<>> /\ LocalAfter(local, Current)["inbox"].value = <<>>
             /\ configured
  <2>1. Current.name = "DEL" /\ Current.key = "inbox"
    BY <1>4, CurrentCases DEF ClientOK
  <2>2. configured
    BY <1>4 DEF HeldInv
  <2> QED
    BY <1>1, <2>1, <2>2, InboxAfter
<1>5. ASSUME ~(op.name = "push" /\ op.step = 2), ~(op.name = "drain" /\ op.step = 4)
      PROVE  /\ RedisAfter(redis, Current)["inbox"].value = redis["inbox"].value
             /\ LocalAfter(local, Current)["inbox"].value = local["inbox"].value
  <2>1. \/ op.name = "push" /\ op.step \in 1..6 /\ op.msg \in Message
        \/ op.name = "drain" /\ op.step \in 1..5
        \/ Current.key = "attempts"
    BY CurrentIsCommand DEF ClientOK
  <2>2. Current.key # "inbox" \/ Current.name \notin {"LPUSH", "DEL"}
    <3>1. CASE op.name = "push" /\ op.step \in 1..6 /\ op.msg \in Message
      <4>1. op.step = 1 \/ op.step = 3 \/ op.step = 4 \/ op.step = 5 \/ op.step = 6
        BY <1>5, <3>1
      <4> QED
        BY <3>1, <4>1, CurrentCases, ClientConstants DEF ClientOK
    <3>2. CASE op.name = "drain" /\ op.step \in 1..5
      <4>1. op.step = 1 \/ op.step = 2 \/ op.step = 3 \/ op.step = 5
        BY <1>5, <3>2
      <4> QED
        BY <3>2, <4>1, CurrentCases, ClientConstants DEF ClientOK
    <3> QED
      BY <2>1, <3>1, <3>2
  <2> QED
    BY <1>1, <2>2, InboxAfter
<1>6. CASE op.name = "push" /\ op.step = 2
  BY <1>2, <1>3, <1>6
<1>7. CASE op.name = "drain" /\ op.step = 4
  BY <1>2, <1>4, <1>7
<1>8. CASE ~(op.name = "push" /\ op.step = 2) /\ ~(op.name = "drain" /\ op.step = 4)
  BY <1>2, <1>5, <1>8
<1> QED
  BY <1>6, <1>7, <1>8

\* A step keeps safe what is accepted, and the message that a push accepts.
LEMMA KeepsWhatIsAccepted ==
  ASSUME ClientOK, HeldInv, LossInv, Step, now < Ttl.inbox
  PROVE  \A m \in accepted' : Safe(m)'
<1>1. op # NoOp
  BY StepFacts
<1>2. PICK o : Moves(o) /\ Outcome(o) /\ Got(o) \in Seq(Message)
  BY StepFacts
<1>3. /\ \/ op' = NoOp
         \/ op'.name = op.name /\ op'.step = op.step + 1 /\ op'.msg = op.msg /\ op'.held = Got(o)
      /\ configured' = configured /\ blind' = (blind \/ (Reads /\ o.faults > faults))
  BY <1>1, <1>2, StepOp DEF Moves, ClientOK
<1>4. /\ redis["inbox"].value \in Seq(Message) /\ local["inbox"].value \in Seq(Message)
      /\ op.held \in Seq(Message) /\ faults \in Nat /\ delivered \in [Message -> Nat] /\ accepted \subseteq Message
      /\ op.step \in Nat
  <2>1. /\ op.held \in Seq(Message) /\ op.step \in Nat
    BY <1>1, CurrentIsCommand DEF ClientOK
  <2>2. redis["inbox"].value \in Seq(Message) /\ local["inbox"].value \in Seq(Message)
    BY DEF ClientOK, StoreOK
  <2>3. faults \in Nat /\ delivered \in [Message -> Nat] /\ accepted \subseteq Message
    BY ClientConstants DEF ClientOK
  <2> QED
    BY <2>1, <2>2, <2>3
<1>p. PICK p : p = op.msg
  OBVIOUS
<1>5. /\ NoOp.name = "none" /\ NoOp.held = <<>>
  BY DEF NoOp
<1>6. /\ op.name = "push" => Pushing(o)
      /\ op.name = "drain" => Draining(o)
      /\ op.name # "push" => accepted' = accepted
      /\ op.name # "drain" => delivered' = delivered
  BY <1>2 DEF Moves
<1>7. \A m \in accepted : Safe(m)
  BY DEF LossInv
<1> DEFINE r == ToSet(redis["inbox"].value)
           l == ToSet(local["inbox"].value)
           h == ToSet(op.held)
           r2 == ToSet(redis'["inbox"].value)
           l2 == ToSet(local'["inbox"].value)
           h2 == ToSet(op'.held)
<1>8. \A m : Stored(m) <=> m \in r \/ (configured /\ m \in l) \/ m \in h
  BY DEF Stored
<1>9. \A m : Stored(m)' <=> m \in r2 \/ (configured' /\ m \in l2) \/ m \in h2
  BY DEF Stored
<1>10. op.name = "push" => op.msg \in Message
  BY <1>1, CurrentIsCommand DEF ClientOK
<1>11. faults' \in {faults, faults + 1}
  BY <1>1, <1>2, InboxMoves
<1> HIDE DEF r, l, h, r2, l2, h2
<1>12. CASE op.name = "push" /\ op.step = 1
  <2>1. r2 = r /\ l2 = l
    BY <1>1, <1>2, <1>12, InboxMoves DEF r, r2, l, l2
  <2>2. h = {}
    BY <1>12, EmptySet DEF HeldInv, h
  <2>3. \/ accepted' = accepted
        \/ accepted' = accepted \cup {p} /\ Pending(p)'
    <3>1. Pushing(o)
      BY <1>6, <1>12
    <3>2. ASSUME o.reply # Nil, GoesOn(o), accepted' = accepted \cup {op.msg}
          PROVE  Pending(p)'
      <4>1. op.step # Len(Script(op.name, op.msg))
        <5>1. Script("push", op.msg) = PushScript(op.msg) /\ Len(PushScript(op.msg)) = 6
          BY PushCommands
        <5>2. op.step # 6
          BY <1>12
        <5> QED
          BY <1>12, <5>1, <5>2, Zenon
      <4>2. op'.name = op.name /\ op'.step = op.step + 1 /\ op'.msg = op.msg
        BY <1>1, <1>2, <3>2, <4>1, OpGoesOn DEF ClientOK
      <4> QED
        BY <1>p, <1>12, <4>2 DEF Pending
    <3>3. op.step \notin 2..5 /\ op.step # 6
      BY <1>12
    <3> QED
      BY <1>p, <3>1, <3>2, <3>3 DEF Pushing
  <2>4. \A m \in accepted : Safe(m)'
    <3>1. SUFFICES ASSUME NEW m \in accepted PROVE Safe(m)'
      OBVIOUS
    <3>2. ~Pending(m)
      BY <1>12 DEF Pending
    <3>3. delivered' = delivered
      BY <1>6, <1>12
    <3>4. faults >= 2 => faults' >= 2
      BY <1>4, <1>11
    <3> QED
      BY <1>3, <1>7, <1>8, <1>9, <2>1, <2>2, <3>2, <3>3, <3>4 DEF Safe
  <2> QED
    BY <2>3, <2>4 DEF Safe
<1>13. CASE op.name = "push" /\ op.step = 2
  <2>1. op.msg \in accepted /\ accepted' = accepted
    <3>1. op.msg \in accepted
      BY <1>13 DEF LossInv
    <3>2. accepted' = accepted \cup {op.msg}
      BY <1>6, <1>13 DEF Pushing
    <3> QED
      BY <3>1, <3>2
  <2>2. h = {}
    BY <1>13, EmptySet DEF HeldInv, h
  <2>3. r2 \in {r, r \cup {op.msg}} /\ l2 \in {l, l \cup {op.msg}}
    <3>1. /\ redis'["inbox"].value \in {redis["inbox"].value, <<op.msg>> \o redis["inbox"].value}
          /\ local'["inbox"].value \in {local["inbox"].value, <<op.msg>> \o local["inbox"].value}
      BY <1>1, <1>2, <1>13, InboxMoves
    <3>2. /\ ToSet(<<op.msg>> \o redis["inbox"].value) = {op.msg} \cup r
          /\ ToSet(<<op.msg>> \o local["inbox"].value) = {op.msg} \cup l
      BY <1>4, <1>10, <1>13, PushedSet DEF r, l
    <3>3. r2 \in {r, {op.msg} \cup r} /\ l2 \in {l, {op.msg} \cup l}
      BY <3>1, <3>2 DEF r, l, r2, l2
    <3> QED
      BY <3>3
  <2>4. Stored(p)'
    <3>1. CASE faults' = faults
      <4>1. redis'["inbox"].value = <<op.msg>> \o redis["inbox"].value
        BY <1>1, <1>2, <1>13, <3>1, InboxMoves
      <4>2. p \in r2
        BY <1>p, <1>4, <1>10, <1>13, <4>1, PushedSet DEF r2
      <4> QED
        BY <1>9, <4>2
    <3>2. CASE faults' # faults
      <4>1. local'["inbox"].value = <<op.msg>> \o local["inbox"].value /\ configured
        BY <1>1, <1>2, <1>13, <3>2, InboxMoves
      <4>2. p \in l2
        BY <1>p, <1>4, <1>10, <1>13, <4>1, PushedSet DEF l2
      <4> QED
        BY <1>3, <1>9, <4>1, <4>2
    <3> QED
      BY <3>1, <3>2
  <2>5. SUFFICES ASSUME NEW m \in accepted, m # p PROVE Safe(m)'
    BY <2>1, <2>4 DEF Safe
  <2>6. ~Pending(m)
    BY <1>p, <2>5 DEF Pending
  <2>7. delivered' = delivered
    BY <1>6, <1>13
  <2>8. faults >= 2 => faults' >= 2
    BY <1>4, <1>11
  <2> QED
    BY <1>p, <1>3, <1>7, <1>8, <1>9, <2>2, <2>3, <2>5, <2>6, <2>7, <2>8 DEF Safe
<1>14. CASE op.name = "drain" /\ op.step = 4
  <2>1. SUFFICES ASSUME NEW m \in accepted PROVE Safe(m)'
    BY <1>6, <1>14
  <2>2. ~Pending(m)
    BY <1>14 DEF Pending
  <2>3. GoesOn(o) /\ delivered' = delivered
    BY <1>6, <1>14 DEF Draining
  <2>4. h2 = h
    <3>1. op.step # Len(Script(op.name, op.msg))
      <4>1. Script("drain", op.msg) = DrainScript /\ Len(DrainScript) = 5
        BY DrainCommands
      <4>2. op.step # 5
        BY <1>14
      <4> QED
        BY <1>14, <4>1, <4>2, Zenon
    <3>2. op'.held = Got(o)
      BY <1>1, <1>2, <2>3, <3>1, OpGoesOn DEF ClientOK
    <3>3. Got(o) = op.held
      BY <1>14 DEF Got, Reads
    <3> QED
      BY <3>2, <3>3 DEF h, h2
  <2>5. blind \/ h = r
    BY <1>14 DEF HeldInv, h, r
  <2>6. faults >= 2 => faults' >= 2
    BY <1>4, <1>11
  <2>7. CASE faults' = faults
    <3>1. l2 = l
      BY <1>1, <1>2, <1>14, <2>7, InboxMoves DEF l, l2
    <3> QED
      BY <1>3, <1>7, <1>8, <1>9, <2>2, <2>3, <2>4, <2>5, <2>6, <3>1 DEF Safe
  <2>8. CASE faults' # faults /\ faults = 0
    <3>1. l = {}
      <4>1. configured
        BY <1>1, <1>2, <1>14, InboxMoves
      <4> QED
        BY <2>8, <4>1, EmptySet DEF LossInv, l
    <3> QED
      BY <1>3, <1>7, <1>8, <1>9, <2>2, <2>3, <2>4, <2>5, <2>6, <3>1 DEF Safe
  <2>9. CASE faults' # faults /\ faults # 0
    <3>1. faults' >= 2
      BY <1>4, <1>11, <2>9
    <3> QED
      BY <3>1 DEF Safe
  <2> QED
    BY <2>7, <2>8, <2>9
<1>15. CASE op.name = "drain" /\ op.step = 5
  <2>1. SUFFICES ASSUME NEW m \in accepted PROVE Safe(m)'
    BY <1>6, <1>15
  <2>2. ~Pending(m)
    BY <1>15 DEF Pending
  <2>3. delivered' = [x \in Message |-> delivered[x] + Times(x, op.held)]
    BY <1>6, <1>15 DEF Draining
  <2>4. m \in Message /\ delivered'[m] = delivered[m] + Times(m, op.held)
    BY <1>4, <2>1, <2>3
  <2>5. Times(m, op.held) \in Nat /\ (m \in h => Times(m, op.held) # 0)
    <3>1. Times(m, op.held) \in Nat /\ (Times(m, op.held) = 0 <=> \A i \in DOMAIN op.held : op.held[i] # m)
      BY <1>4, TimesIsNat
    <3> QED
      BY <3>1 DEF ToSet, h
  <2>6. delivered[m] > 0 \/ m \in h => delivered'[m] > 0
    BY <1>4, <2>4, <2>5
  <2>7. r2 = r /\ l2 = l
    BY <1>1, <1>2, <1>15, InboxMoves DEF r, r2, l, l2
  <2>8. faults >= 2 => faults' >= 2
    BY <1>4, <1>11
  <2> QED
    BY <1>3, <1>7, <1>8, <1>9, <2>2, <2>6, <2>7, <2>8 DEF Safe
<1>16. CASE /\ ~(op.name = "push" /\ op.step \in 1..2)
            /\ ~(op.name = "drain" /\ op.step \in 4..5)
  <2>1. r2 = r /\ l2 = l
    <3>1. ~(op.name = "push" /\ op.step = 2) /\ ~(op.name = "drain" /\ op.step = 4)
      BY <1>16
    <3> QED
      BY <1>1, <1>2, <3>1, InboxMoves DEF r, r2, l, l2
  <2>2. h = {}
    <3>1. op.name # "drain" \/ op.step <= 3
      <4>1. op.name = "drain" => op.step \in 1..5
        BY <1>1, CurrentIsCommand DEF ClientOK
      <4> QED
        BY <1>4, <1>16, <4>1
    <3> QED
      BY <3>1, EmptySet DEF HeldInv, h
  <2>3. accepted' = accepted
    <3>1. CASE op.name = "push"
      <4>1. op.step \in 3..6
        <5>1. op.step \in 1..6
          BY <1>1, <3>1, CurrentIsCommand DEF ClientOK
        <5> QED
          BY <1>16, <3>1, <5>1
      <4>2. op.msg \in accepted
        BY <3>1, <4>1 DEF LossInv
      <4> QED
        BY <1>6, <3>1, <4>1, <4>2 DEF Pushing
    <3> QED
      BY <1>6, <3>1
  <2>4. delivered' = delivered
    <3>1. CASE op.name = "drain"
      <4>1. op.step # 5
        BY <1>16, <3>1
      <4> QED
        BY <1>6, <3>1, <4>1 DEF Draining
    <3> QED
      BY <1>6, <3>1
  <2>5. SUFFICES ASSUME NEW m \in accepted PROVE Safe(m)'
    BY <2>3
  <2>6. ~Pending(m)
    BY <1>16 DEF Pending
  <2>7. faults >= 2 => faults' >= 2
    BY <1>4, <1>11
  <2> QED
    BY <1>3, <1>7, <1>8, <1>9, <2>1, <2>2, <2>4, <2>5, <2>6, <2>7 DEF Safe
<1>17. op.name = "push" /\ op.step \in 1..2 => op.step = 1 \/ op.step = 2
  OBVIOUS
<1>18. op.name = "drain" /\ op.step \in 4..5 => op.step = 4 \/ op.step = 5
  OBVIOUS
<1> QED
  BY <1>12, <1>13, <1>14, <1>15, <1>16, <1>17, <1>18

LEMMA LossStays ==
  ASSUME ClientOK, LiveInv, HeldInv, LossInv, [ClientNext]_clientVars
  PROVE  LossInv'
<1>1. CASE Step
  <2>1. op # NoOp
    BY <1>1, StepFacts
  <2>2. PICK o : Moves(o) /\ Outcome(o) /\ Got(o) \in Seq(Message)
    BY <1>1, StepFacts
  <2>3. configured' /\ faults' = 0 => local'["inbox"].value = <<>>
    <3>1. SUFFICES ASSUME configured', faults' = 0 PROVE local'["inbox"].value = <<>>
      OBVIOUS
    <3>2. configured' = configured
      BY <2>2 DEF Moves
    <3>3. faults' \in {faults, faults + 1} /\ faults \in Nat
      BY <2>1, <2>2, InboxMoves, ClientConstants DEF ClientOK
    <3>4. faults' = faults
      BY <3>1, <3>3
    <3>5. local' = local
      BY <2>1, <2>2, <3>1, <3>2, <3>4, InboxMoves
    <3> QED
      BY <3>1, <3>2, <3>4, <3>5 DEF LossInv
  <2>4. op'.name = "push" /\ op'.step >= 2 => op'.msg \in accepted'
    <3>1. SUFFICES ASSUME op'.name = "push" PROVE op'.msg \in accepted'
      OBVIOUS
    <3>2. op' # NoOp
      BY <3>1 DEF NoOp
    <3>3. op.name = "push" /\ op'.msg = op.msg
      BY <2>1, <2>2, <3>1, <3>2, StepOp DEF ClientOK
    <3>4. Pushing(o)
      BY <2>2, <3>3 DEF Moves
    <3> QED
      BY <3>2, <3>3, <3>4 DEF Pushing
  <2>5. now' < Ttl.inbox => \A m \in accepted' : Safe(m)'
    <3>1. now' = now
      BY <2>2 DEF Moves
    <3> QED
      BY <1>1, <3>1, KeepsWhatIsAccepted
  <2> QED
    BY <2>3, <2>4, <2>5 DEF LossInv
<1>2. CASE ~Step
  <2>1. /\ configured' = configured /\ delivered' = delivered /\ accepted' = accepted /\ blind' = blind
        /\ faults' = faults \/ (faults < MaxFaults /\ faults' = faults + 1)
    BY <1>2 DEF ClientNext, Arrive, UseCounter, StartDrain, RestartClient, Tick, clientVars, stores
  <2>2. faults \in Nat /\ now \in Int
    BY ClientConstants DEF ClientOK
  <2>3. CASE op' # op
    <3>1. PICK name \in Operations, m \in Message \cup {"none"} :
            Starts(name, m) /\ UNCHANGED <<stores, now, accepted, delivered, blind, outlived>>
      BY <1>2, <2>3, RestOp
    <3>2. op = NoOp /\ op'.step = 1 /\ op'.held = <<>>
      BY <3>1 DEF Starts
    <3>3. op.held = <<>> /\ op.name = "none"
      BY <3>2 DEF NoOp
    <3>4. \A x : ~Pending(x)
      BY <3>3 DEF Pending
    <3> QED
      BY <3>1, <3>2, <3>3, <3>4 DEF LossInv, Safe, Stored, stores
  <2>4. CASE op' = op /\ ~Tick /\ ~RestartClient
    <3>1. UNCHANGED <<redis, local, now, faults>>
      BY <1>2, <2>4 DEF ClientNext, Arrive, UseCounter, StartDrain, clientVars, stores
    <3> QED
      BY <2>1, <2>4, <3>1 DEF LossInv, Safe, Stored, Pending
  <2>5. CASE op' = op /\ RestartClient
    <3>1. redis' = redis /\ now' = now /\ local'["inbox"] = NoEntry /\ faults' = faults + 1
      BY <2>5, ClientConstants DEF RestartClient
    <3>2. local'["inbox"].value = <<>>
      BY <3>1 DEF NoEntry
    <3>3. faults' >= 2 \/ faults = 0
      BY <2>2, <3>1
    <3>4. ASSUME faults = 0, NEW m, Safe(m) PROVE Safe(m)'
      <4>1. configured => local["inbox"].value = <<>>
        BY <3>4 DEF LossInv
      <4>2. Stored(m) => Stored(m)'
        BY <2>1, <2>5, <3>1, <4>1, EmptySet DEF Stored
      <4>3. Pending(m) => Pending(m)'
        BY <2>5 DEF Pending
      <4>4. ~(faults >= 2)
        BY <3>4
      <4> QED
        BY <2>1, <3>4, <4>2, <4>3, <4>4 DEF Safe
    <3>5. now' < Ttl.inbox => \A m \in accepted' : Safe(m)'
      <4>1. CASE faults' >= 2
        BY <4>1 DEF Safe
      <4>2. CASE faults = 0
        BY <2>1, <3>1, <3>4, <4>2 DEF LossInv
      <4> QED
        BY <3>3, <4>1, <4>2
    <3> QED
      BY <2>1, <2>5, <3>2, <3>5 DEF LossInv
  <2>6. CASE op' = op /\ Tick
    <3>1. /\ now' = now + 1 /\ local' = local /\ faults' = faults
          /\ redis' = [k \in Key |-> IF redis[k].exp <= now' THEN NoEntry ELSE redis[k]]
      BY <2>6 DEF Tick
    <3>2. now' < Ttl.inbox => now < Ttl.inbox /\ redis'["inbox"] = redis["inbox"]
      <4>1. redis["inbox"].exp >= Ttl.inbox /\ redis["inbox"].exp \in Int /\ Ttl.inbox \in Nat
        BY ClientConstants DEF LiveInv, ClientOK, StoreOK
      <4> QED
        BY <2>2, <3>1, <4>1, ClientConstants
    <3> QED
      BY <2>1, <2>6, <3>1, <3>2 DEF LossInv, Safe, Stored, Pending
  <2> QED
    BY <2>3, <2>4, <2>5, <2>6
<1> QED
  BY <1>1, <1>2

(***************************************************************************)
(* A message is handed on again only through what fails.                   *)
(***************************************************************************)

\* How often a message is in a list that is pushed to.
LEMMA TimesPushed ==
  ASSUME NEW m, NEW x \in Message, NEW s \in Seq(Message)
  PROVE  Times(m, <<x>> \o s) = Times(m, s) + (IF x = m THEN 1 ELSE 0)
<1> DEFINE t == <<x>> \o s
           at == {i \in DOMAIN s : s[i] = m}
           later == {i \in DOMAIN t : t[i] = m /\ i # 1}
           all == {i \in DOMAIN t : t[i] = m}
           Shift == [i \in at |-> i + 1]
<1>1. /\ DOMAIN s = 1..Len(s) /\ Len(s) \in Nat
      /\ DOMAIN t = 1..(Len(s) + 1)
      /\ t[1] = x /\ \A i \in 1..Len(s) : t[i + 1] = s[i]
  OBVIOUS
<1> HIDE DEF t
<1>2. IsFiniteSet(at) /\ IsFiniteSet(later)
  <2>1. IsFiniteSet(DOMAIN s) /\ IsFiniteSet(DOMAIN t)
    BY <1>1, FS_Interval
  <2> QED
    BY <2>1, FS_Subset
<1>3. Shift \in [at -> later]
  <2>1. \A i \in at : i + 1 \in later
    BY <1>1
  <2> QED
    BY <2>1
<1>4. Shift \in Injection(at, later)
  <2>1. \A i, j \in at : Shift[i] = Shift[j] => i = j
    BY <1>1
  <2> QED
    BY <1>3, <2>1 DEF Injection, IsInjective
<1>5. Shift \in Surjection(at, later)
  <2>1. SUFFICES ASSUME NEW j \in later PROVE \E i \in at : Shift[i] = j
    BY <1>3 DEF Surjection
  <2>2. j - 1 \in 1..Len(s) /\ (j - 1) + 1 = j
    BY <1>1, <2>1
  <2>3. s[j - 1] = t[j]
    BY <1>1, <2>2
  <2>4. j - 1 \in at
    BY <1>1, <2>1, <2>2, <2>3
  <2> QED
    BY <2>2, <2>4
<1>6. Cardinality(at) = Cardinality(later)
  BY <1>2, <1>4, <1>5, FS_Injection
<1>7. Cardinality(at) \in Nat
  BY <1>2, FS_CardinalityType
<1>8. CASE x = m
  <2>1. all = later \cup {1}
    BY <1>1, <1>8
  <2>2. 1 \notin later
    OBVIOUS
  <2> HIDE DEF later, at, all
  <2>3. Cardinality(all) = Cardinality(later) + 1
    BY <1>2, <2>1, <2>2, FS_AddElement
  <2> QED
    BY <1>6, <1>8, <2>3 DEF Times, all, at, t
<1>9. CASE x # m
  <2>1. all = later
    BY <1>1, <1>9
  <2>2. Times(m, t) = Cardinality(all) /\ Times(m, s) = Cardinality(at)
    BY DEF Times
  <2> HIDE DEF later, at, all
  <2> QED
    BY <1>6, <1>7, <1>9, <2>1, <2>2 DEF t
<1> QED
  BY <1>8, <1>9

LEMMA TimesOfNothing ==
  ASSUME NEW m
  PROVE  Times(m, <<>>) = 0
<1>1. {i \in DOMAIN <<>> : <<>>[i] = m} = {}
  OBVIOUS
<1> QED
  BY <1>1, FS_EmptySet DEF Times

(* The bound: a message may be in each place as often as it was pushed, and has then been
   handed on that often for each fault that did not let it be pushed. *)
Fits(r, l, h, p, d, most, n, reading) ==
  /\ r + p <= most /\ l + p <= most /\ h <= most
  /\ IF reading THEN d + r + l <= most * n /\ d + h + l <= most * n
                ELSE d + h + r + l + p <= most * n

Pushes(m, again) == IF redis[m].value # <<>> THEN again + 1 ELSE again
PendingOnce(m) == IF op.name = "push" /\ op.msg = m /\ op.step = 2 THEN 1 ELSE 0
HasRead == op.name = "drain" /\ op.step = 4
Within(m, again) ==
  Fits(Times(m, redis["inbox"].value), Times(m, local["inbox"].value), Times(m, op.held),
       PendingOnce(m), delivered[m], Pushes(m, again), 1 + faults - again, HasRead)
CopiesInv ==
  configured /\ now < Ttl.dedup => \A m \in Message : \E again \in 0..faults : Within(m, again)

\* What the bound gains.
LEMMA Products ==
  ASSUME NEW most \in Nat, NEW n \in Nat
  PROVE  /\ most * n \in Nat
         /\ most * (n + 1) = most * n + most
         /\ (most + 1) * n = most * n + n
         /\ (most + 2) * n = most * n + 2 * n
         /\ (most + 1) * (n + 1) = most * n + most + n + 1
  OBVIOUS

\* A fault, or a push, leaves more room.
LEMMA FitsMore ==
  ASSUME NEW r \in Nat, NEW l \in Nat, NEW d \in Nat, NEW most \in Nat, NEW n \in Nat, n > 0,
         Fits(r, l, 0, 0, d, most, n, FALSE)
  PROVE  /\ Fits(r, l, 0, 0, d, most, n + 1, FALSE)
         /\ Fits(r, l, 0, 0, d, most + 1, n, FALSE)
         /\ Fits(r, l, 0, 0, d, most + 1, n + 1, FALSE)
  BY Products DEF Fits

\* The steps of the operations, as they change these numbers.
LEMMA FitsPushed ==
  ASSUME NEW r \in Nat, NEW l \in Nat, NEW h \in Nat, NEW d \in Nat, NEW most \in Nat, NEW n \in Nat, n > 0,
         Fits(r, l, h, 0, d, most, n, FALSE)
  PROVE  Fits(r, l, h, 1, d, most + 1, n, FALSE) /\ Fits(r, l, h, 1, d, most + 2, n, FALSE)
  BY Products DEF Fits

LEMMA FitsListed ==
  ASSUME NEW r \in Nat, NEW l \in Nat, NEW h \in Nat, NEW d \in Nat, NEW most \in Nat, NEW n \in Nat, n > 0,
         Fits(r, l, h, 1, d, most, n, FALSE)
  PROVE  /\ Fits(r + 1, l, h, 0, d, most, n, FALSE)
         /\ Fits(r, l + 1, h, 0, d, most, n + 1, FALSE)
         /\ Fits(r + 1, l + 1, h, 0, d, most, n + 1, FALSE)
  BY Products DEF Fits

LEMMA FitsRead ==
  ASSUME NEW r \in Nat, NEW l \in Nat, NEW d \in Nat, NEW most \in Nat, NEW n \in Nat,
         Fits(r, l, 0, 0, d, most, n, FALSE)
  PROVE  Fits(r, l, r, 0, d, most, n, TRUE) /\ Fits(r, l, l, 0, d, most, n + 1, TRUE)
  BY Products DEF Fits

LEMMA FitsDeleted ==
  ASSUME NEW r \in Nat, NEW l \in Nat, NEW h \in Nat, NEW d \in Nat, NEW most \in Nat, NEW n \in Nat,
         Fits(r, l, h, 0, d, most, n, TRUE)
  PROVE  /\ Fits(0, l, h, 0, d, most, n, FALSE)
         /\ Fits(r, 0, h, 0, d, most, n + 1, FALSE) /\ Fits(0, 0, h, 0, d, most, n + 1, FALSE)
  BY Products DEF Fits

LEMMA FitsHanded ==
  ASSUME NEW r \in Nat, NEW l \in Nat, NEW h \in Nat, NEW d \in Nat, NEW most \in Nat, NEW n \in Nat,
         Fits(r, l, h, 0, d, most, n, FALSE)
  PROVE  Fits(r, l, 0, 0, d + h, most, n, FALSE) /\ Fits(r, l, 0, 0, d + h, most, n + 1, FALSE)
  BY Products DEF Fits

\* The deduplication keys in Redis after a step.
LEMMA KeyMoves ==
  ASSUME ClientOK, op # NoOp, NEW o, Moves(o), Outcome(o), configured, NEW m \in Message
  PROVE  /\ ~(op.name = "push" /\ op.step = 1 /\ op.msg = m) => redis'[m] = redis[m]
         /\ op.name = "push" /\ op.step = 1 /\ op.msg = m =>
              /\ redis'[m].value # <<>> \/ (faults' = faults + 1 /\ redis'[m] = redis[m])
              /\ redis[m].value # <<>> => redis'[m].value # <<>>
              /\ faults' = faults /\ o.reply # Nil => redis[m].value = <<>>
<1>1. /\ IsCommand(Current) /\ DOMAIN redis = Key /\ faults \in Int /\ m \in Key
      /\ redis' = o.redis /\ faults' = o.faults
  BY CurrentIsCommand, ClientConstants DEF ClientOK, Moves, StoreOK
<1>2. /\ Current.key \in Key
      /\ \A k \in Key : k # Current.key => RedisAfter(redis, Current)[k] = redis[k]
      /\ RedisAfter(redis, Current)[Current.key] = After(redis[Current.key], Current)
  BY <1>1, RedisEffects, CommandNames
<1>3. \/ Answered(o, Current) /\ faults' = faults
      \/ redis' \in {redis, RedisAfter(redis, Current)} /\ faults' = faults + 1
  BY <1>1 DEF Outcome, Answered, Fallen
<1>4. CASE ~(op.name = "push" /\ op.step = 1 /\ op.msg = m)
  <2>1. Current.key # m
    <3>1. \/ op.name = "push" /\ op.step \in 1..6 /\ op.msg \in Message
          \/ op.name = "drain" /\ op.step \in 1..5
          \/ Current.key = "attempts"
      BY CurrentIsCommand DEF ClientOK
    <3>2. CASE op.name = "push" /\ op.step = 1
      BY <1>4, <3>2, CurrentCases DEF ClientOK
    <3>3. CASE op.name = "push" /\ op.step \in 2..6
      <4>1. op.step = 2 \/ op.step = 3 \/ op.step = 4 \/ op.step = 5 \/ op.step = 6
        BY <3>3
      <4> QED
        BY <3>3, <4>1, CurrentCases, ClientConstants DEF ClientOK
    <3>4. CASE op.name = "drain" /\ op.step \in 1..5
      <4>1. op.step = 1 \/ op.step = 2 \/ op.step = 3 \/ op.step = 4 \/ op.step = 5
        BY <3>4
      <4> QED
        BY <3>4, <4>1, CurrentCases, ClientConstants DEF ClientOK
    <3>5. CASE Current.key = "attempts"
      BY <3>5, ClientConstants
    <3>6. op.name = "push" /\ op.step \in 1..6 => op.step = 1 \/ op.step \in 2..6
      OBVIOUS
    <3> QED
      BY <3>1, <3>2, <3>3, <3>4, <3>5, <3>6
  <2> QED
    BY <1>1, <1>2, <1>3, <1>4, <2>1 DEF Answered
<1>5. CASE op.name = "push" /\ op.step = 1 /\ op.msg = m
  <2>1. Current.name = "SETNX" /\ Current.key = m /\ Current.arg = <<"1">>
    BY <1>5, CurrentCases DEF ClientOK
  <2>2. /\ RedisAfter(redis, Current)[m].value # <<>>
        /\ redis[m].value # <<>> => RedisAfter(redis, Current)[m] = redis[m]
    <3>1. RedisAfter(redis, Current)[m] = After(redis[m], Current)
      BY <1>2, <2>1
    <3>2. <<"1">> # <<>>
      OBVIOUS
    <3>3. Entry(<<"1">>, now + Current.ttl).value = <<"1">>
      BY DEF Entry
    <3>4. IF redis[m].value = <<>> THEN After(redis[m], Current) = Entry(<<"1">>, now + Current.ttl)
                                   ELSE After(redis[m], Current) = redis[m]
      BY <2>1 DEF After, Unset
    <3> QED
      BY <3>1, <3>2, <3>3, <3>4
  <2>3. RedisReply(redis, Current) # Nil => redis[m].value = <<>>
    BY <2>1 DEF RedisReply
  <2>4. CASE Answered(o, Current) /\ faults' = faults
    BY <1>1, <1>5, <2>2, <2>3, <2>4 DEF Answered
  <2>5. CASE redis' \in {redis, RedisAfter(redis, Current)} /\ faults' = faults + 1
    BY <1>1, <1>5, <2>2, <2>5
  <2> QED
    BY <1>3, <2>4, <2>5
<1> QED
  BY <1>4, <1>5

LEMMA CopiesStep ==
  ASSUME ClientOK, HeldInv, Step, configured, NEW m \in Message, NEW again \in 0..faults, Within(m, again)
  PROVE  \E some \in 0..faults' : Within(m, some)'
<1>1. op # NoOp
  BY StepFacts
<1>2. PICK o : Moves(o) /\ Outcome(o) /\ Got(o) \in Seq(Message) /\ StoreOK(o.redis) /\ StoreOK(o.local)
  BY StepFacts
<1>3. /\ \/ op' = NoOp
         \/ op'.name = op.name /\ op'.step = op.step + 1 /\ op'.msg = op.msg /\ op'.held = Got(o)
      /\ OpOK'
  BY <1>1, <1>2, StepOp DEF ClientOK
<1>4. /\ op.name = "push" => Pushing(o)
      /\ op.name = "drain" => Draining(o)
      /\ op.name # "drain" => delivered' = delivered
      /\ redis' = o.redis /\ local' = o.local /\ faults' = o.faults
  BY <1>2 DEF Moves
<1>5. /\ NoOp.name = "none" /\ NoOp.held = <<>>
  BY DEF NoOp
<1>6. /\ \/ op.name = "push" /\ op.step \in 1..6 /\ op.msg \in Message
         \/ op.name = "drain" /\ op.step \in 1..5
         \/ op.name \in {"count", "read", "reset"} /\ op.step \in Nat
      /\ op.held \in Seq(Message) /\ op.step \in Nat
  BY <1>1, CurrentIsCommand DEF ClientOK
<1>7. faults \in Nat /\ faults' \in {faults, faults + 1} /\ again \in Nat /\ again <= faults
  <2>1. faults \in Nat
    BY ClientConstants DEF ClientOK
  <2> QED
    BY <1>1, <1>2, <2>1, InboxMoves
<1>7a. faults' # faults => 1 + faults' - again = (1 + faults - again) + 1
  <2>1. \A f, g, a \in Int : g = f + 1 => 1 + g - a = (1 + f - a) + 1
    OBVIOUS
  <2>2. faults \in Int /\ faults' \in Int /\ again \in Int
    BY <1>7
  <2> QED
    BY <1>7, <2>1, <2>2
<1> DEFINE r == Times(m, redis["inbox"].value)
           l == Times(m, local["inbox"].value)
           h == Times(m, op.held)
           d == delivered[m]
           most == Pushes(m, again)
           n == 1 + faults - again
           p == PendingOnce(m)
           r2 == Times(m, redis'["inbox"].value)
           l2 == Times(m, local'["inbox"].value)
           h2 == Times(m, op'.held)
           d2 == delivered'[m]
           n2 == 1 + faults' - again
           p2 == PendingOnce(m)'
           read2 == HasRead'
<1>8. /\ r \in Nat /\ l \in Nat /\ h \in Nat /\ d \in Nat /\ most \in Nat /\ n \in Nat /\ n > 0
      /\ r2 \in Nat /\ l2 \in Nat /\ p \in {0, 1}
  <2>1. /\ redis["inbox"].value \in Seq(Message) /\ local["inbox"].value \in Seq(Message)
        /\ redis'["inbox"].value \in Seq(Message) /\ local'["inbox"].value \in Seq(Message)
        /\ d \in Nat
    BY <1>2, <1>4 DEF ClientOK, StoreOK
  <2>2. r \in Nat /\ l \in Nat /\ h \in Nat /\ r2 \in Nat /\ l2 \in Nat
    BY <1>6, <2>1, TimesIsNat
  <2>3. most \in Nat
    BY <1>7 DEF Pushes
  <2>4. n \in Nat /\ n > 0
    BY <1>7
  <2>5. p \in {0, 1}
    BY DEF PendingOnce
  <2> QED
    BY <2>1, <2>2, <2>3, <2>4, <2>5
<1>9. Fits(r, l, h, p, d, most, n, HasRead)
  BY DEF Within
\* The goal, for the same faults that let it be pushed, and for one more.
<1>10. ASSUME Fits(r2, l2, h2, p2, d2, Pushes(m, again)', n2, read2)
       PROVE  \E some \in 0..faults' : Within(m, some)'
  <2>1. again \in 0..faults'
    BY <1>7
  <2>2. Within(m, again)'
    BY <1>10 DEF Within
  <2> QED
    BY <2>1, <2>2
<1>11. ASSUME faults' = faults + 1, Fits(r2, l2, h2, p2, d2, Pushes(m, again + 1)', n, read2)
       PROVE  \E some \in 0..faults' : Within(m, some)'
  <2>1. again + 1 \in 0..faults'
    BY <1>7, <1>11
  <2>2. 1 + faults' - (again + 1) = n
    BY <1>7, <1>11
  <2>3. Fits(r2, l2, h2, p2, d2, Pushes(m, again + 1)', 1 + faults' - (again + 1), read2)
    BY <1>11, <2>2
  <2>4. Within(m, again + 1)'
    BY <2>3 DEF Within
  <2> QED
    BY <2>1, <2>4
<1>12. n2 \in {n, n + 1} /\ (faults' = faults => n2 = n) /\ (faults' # faults => n2 = n + 1)
  <2> HIDE DEF r, l, h, d, most, p, r2, l2, h2, d2, p2, read2
  <2> QED
    BY <1>7, <1>7a
<1>13. /\ ~(op.name = "push" /\ op.step = 2) /\ ~(op.name = "drain" /\ op.step = 4) => r2 = r /\ l2 = l
       /\ op.name = "push" /\ op.step # 1 => most = Pushes(m, again)'
       /\ op.name # "push" => most = Pushes(m, again)'
       /\ op.name = "push" /\ op.msg # m => most = Pushes(m, again)'
  <2>1. ~(op.name = "push" /\ op.step = 2) /\ ~(op.name = "drain" /\ op.step = 4) => r2 = r /\ l2 = l
    BY <1>1, <1>2, InboxMoves
  <2>2. ~(op.name = "push" /\ op.step = 1 /\ op.msg = m) => redis'[m] = redis[m]
    BY <1>1, <1>2, KeyMoves
  <2> QED
    BY <2>1, <2>2 DEF Pushes
<1>14. (op.name # "drain" \/ op.step <= 3) => h = 0
  BY TimesOfNothing DEF HeldInv
<1>15. op' = NoOp => h2 = 0 /\ p2 = 0 /\ ~read2
  BY <1>5, TimesOfNothing DEF PendingOnce, HasRead
<1> HIDE DEF r, l, h, d, most, n, p, r2, l2, h2, d2, n2
<1>25. ASSUME Fits(r, l, 0, 0, d, most, n, FALSE)
       PROVE  /\ Fits(r, l, 0, 0, d, most, n + 1, FALSE)
              /\ Fits(r, l, 0, 0, d, most + 1, n, FALSE)
              /\ Fits(r, l, 0, 0, d, most + 1, n + 1, FALSE)
              /\ Fits(r, l, 0, 0, d, most, n2, FALSE)
              /\ Fits(r, l, 0, 1, d, most + 1, n, FALSE)
              /\ Fits(r, l, 0, 1, d, most + 2, n, FALSE)
  <2>1. /\ Fits(r, l, 0, 0, d, most, n + 1, FALSE)
        /\ Fits(r, l, 0, 0, d, most + 1, n, FALSE)
        /\ Fits(r, l, 0, 0, d, most + 1, n + 1, FALSE)
    BY <1>8, <1>25, FitsMore
  <2>2. Fits(r, l, 0, 1, d, most + 1, n, FALSE) /\ Fits(r, l, 0, 1, d, most + 2, n, FALSE)
    BY <1>8, <1>25, FitsPushed
  <2> QED
    BY <1>12, <1>25, <2>1, <2>2
<1>16. CASE op.name = "push" /\ op.step = 1
  <2>1. /\ r2 = r /\ l2 = l /\ h = 0 /\ d2 = d /\ p = 0 /\ ~HasRead
    BY <1>4, <1>13, <1>14, <1>16 DEF PendingOnce, HasRead, p, d, d2
  <2>2. h2 = 0 /\ ~read2 /\ p2 \in {0, 1} /\ (p2 = 1 => op.msg = m /\ o.reply # Nil)
    <3>1. CASE op' = NoOp
      BY <1>15, <3>1
    <3>2. CASE op' # NoOp
      <4>1. op'.name = "push" /\ op'.msg = op.msg /\ op'.held = op.held
        BY <1>3, <1>16, <3>2 DEF Got, Reads
      <4>2. o.reply # Nil
        BY <1>4, <1>16, <3>2 DEF Pushing
      <4>3. h2 = h
        BY <4>1 DEF h, h2
      <4> QED
        BY <2>1, <4>1, <4>2, <4>3 DEF PendingOnce, HasRead
    <3> QED
      BY <3>1, <3>2
  <2>3. CASE op.msg # m
    <3>1. p2 = 0 /\ most = Pushes(m, again)'
      BY <1>13, <1>16, <2>2, <2>3
    <3>2. Fits(r, l, 0, 0, d, most, n, FALSE)
      BY <1>9, <2>1 DEF Fits
    <3>3. Fits(r, l, 0, 0, d, most, n2, FALSE)
      BY <1>25, <3>2
    <3>4. Fits(r2, l2, h2, p2, d2, Pushes(m, again)', n2, read2)
      BY <2>1, <2>2, <3>1, <3>3 DEF Fits
    <3> QED
      BY <1>10, <3>4
  <2>4. CASE op.msg = m
    <3>0. Fits(r, l, 0, 0, d, most, n, FALSE)
      BY <1>9, <2>1 DEF Fits
    <3>1. /\ redis'[m].value # <<>> \/ (faults' = faults + 1 /\ redis'[m] = redis[m])
          /\ redis[m].value # <<>> => redis'[m].value # <<>>
          /\ faults' = faults /\ o.reply # Nil => redis[m].value = <<>>
      BY <1>1, <1>2, <1>16, <2>4, KeyMoves
    <3>2. /\ Pushes(m, again)' \in {most, most + 1}
          /\ Pushes(m, again + 1)' \in {most + 1, most + 2}
          /\ faults' = faults /\ o.reply # Nil => Pushes(m, again)' = most + 1
      <4>1. Pushes(m, again)' = (IF redis'[m].value # <<>> THEN again + 1 ELSE again)
        BY DEF Pushes
      <4>2. Pushes(m, again + 1)' = (IF redis'[m].value # <<>> THEN (again + 1) + 1 ELSE again + 1)
        BY DEF Pushes
      <4>3. most = (IF redis[m].value # <<>> THEN again + 1 ELSE again)
        BY DEF most, Pushes
      <4> HIDE DEF Pushes
      <4> QED
        BY <1>7, <3>1, <4>1, <4>2, <4>3
    <3>3. CASE p2 = 0
      <4>1. \A k \in {most, most + 1}, j \in {n, n + 1} : Fits(r, l, 0, 0, d, k, j, FALSE)
        BY <1>25, <3>0
      <4>2. Fits(r, l, 0, 0, d, Pushes(m, again)', n2, FALSE)
        BY <1>12, <3>2, <4>1
      <4>3. Fits(r2, l2, h2, p2, d2, Pushes(m, again)', n2, read2)
        BY <2>1, <2>2, <3>3, <4>2 DEF Fits
      <4> QED
        BY <1>10, <4>3
    <3>4. CASE p2 = 1 /\ faults' = faults
      <4>1. Pushes(m, again)' = most + 1 /\ n2 = n
        BY <1>12, <2>2, <3>2, <3>4
      <4>2. Fits(r, l, 0, 1, d, most + 1, n, FALSE)
        BY <1>25, <3>0
      <4>3. Fits(r2, l2, h2, p2, d2, Pushes(m, again)', n2, read2)
        BY <2>1, <2>2, <3>4, <4>1, <4>2 DEF Fits
      <4> QED
        BY <1>10, <4>3
    <3>5. CASE p2 = 1 /\ faults' = faults + 1
      <4>1. \A k \in {most + 1, most + 2} : Fits(r, l, 0, 1, d, k, n, FALSE)
        BY <1>25, <3>0
      <4>2. Fits(r, l, 0, 1, d, Pushes(m, again + 1)', n, FALSE)
        BY <3>2, <4>1
      <4>3. Fits(r2, l2, h2, p2, d2, Pushes(m, again + 1)', n, read2)
        BY <2>1, <2>2, <3>5, <4>2 DEF Fits
      <4> QED
        BY <1>11, <3>5, <4>3
    <3> QED
      BY <1>7, <2>2, <3>3, <3>4, <3>5
  <2> QED
    BY <2>3, <2>4
<1>17. CASE op.name = "push" /\ op.step = 2
  <2>1. h = 0 /\ d2 = d /\ most = Pushes(m, again)' /\ ~HasRead
    BY <1>4, <1>13, <1>14, <1>17 DEF HasRead, d, d2
  <2>2. h2 = 0 /\ p2 = 0 /\ ~read2
    <3>1. CASE op' = NoOp
      BY <1>15, <3>1
    <3>2. CASE op' # NoOp
      <4>1. op'.name = "push" /\ op'.step = 3 /\ op'.held = op.held
        BY <1>3, <1>17, <3>2 DEF Got, Reads
      <4>2. h2 = h
        BY <4>1 DEF h, h2
      <4> QED
        BY <2>1, <4>1, <4>2 DEF PendingOnce, HasRead
    <3> QED
      BY <3>1, <3>2
  <2>3. Fits(r, l, 0, p, d, most, n, FALSE)
    BY <1>9, <2>1 DEF Fits
  <2>4. /\ redis'["inbox"].value \in {redis["inbox"].value, <<op.msg>> \o redis["inbox"].value}
        /\ local'["inbox"].value \in {local["inbox"].value, <<op.msg>> \o local["inbox"].value}
        /\ faults' = faults => redis'["inbox"].value = <<op.msg>> \o redis["inbox"].value
        /\ faults' = faults => local'["inbox"].value = local["inbox"].value
        /\ faults' # faults => local'["inbox"].value = <<op.msg>> \o local["inbox"].value
    BY <1>1, <1>2, <1>17, InboxMoves
  <2>5. /\ Times(m, <<op.msg>> \o redis["inbox"].value) = r + (IF op.msg = m THEN 1 ELSE 0)
        /\ Times(m, <<op.msg>> \o local["inbox"].value) = l + (IF op.msg = m THEN 1 ELSE 0)
    <3>1. op.msg \in Message
      BY <1>6, <1>17
    <3>2. redis["inbox"].value \in Seq(Message) /\ local["inbox"].value \in Seq(Message)
      BY DEF ClientOK, StoreOK
    <3> QED
      BY <3>1, <3>2, TimesPushed DEF r, l
  <2>6. CASE op.msg # m
    <3>1. r2 = r /\ l2 = l /\ p = 0
      <4>1. r2 \in {r, r + 0} /\ l2 \in {l, l + 0}
        BY <2>4, <2>5, <2>6 DEF r2, l2, r, l
      <4> QED
        BY <1>8, <2>6, <4>1 DEF p, PendingOnce
    <3>2. Fits(r, l, 0, 0, d, most, n2, FALSE)
      BY <1>25, <2>3, <3>1
    <3>3. Fits(r2, l2, h2, p2, d2, Pushes(m, again)', n2, read2)
      BY <2>1, <2>2, <3>1, <3>2 DEF Fits
    <3> QED
      BY <1>10, <3>3
  <2>7. CASE op.msg = m
    <3>1. p = 1
      BY <1>17, <2>7 DEF p, PendingOnce
    <3>2. /\ Fits(r + 1, l, 0, 0, d, most, n, FALSE)
          /\ Fits(r, l + 1, 0, 0, d, most, n + 1, FALSE)
          /\ Fits(r + 1, l + 1, 0, 0, d, most, n + 1, FALSE)
      BY <1>8, <2>3, <3>1, FitsListed
    <3>3. CASE faults' = faults
      <4>1. r2 = r + 1 /\ l2 = l /\ n2 = n
        BY <1>12, <2>4, <2>5, <2>7, <3>3 DEF r2, l2, l
      <4>2. Fits(r2, l2, h2, p2, d2, Pushes(m, again)', n2, read2)
        BY <2>1, <2>2, <3>2, <4>1 DEF Fits
      <4> QED
        BY <1>10, <4>2
    <3>4. CASE faults' # faults
      <4>1. r2 \in {r, r + 1} /\ l2 = l + 1 /\ n2 = n + 1
        BY <1>12, <2>4, <2>5, <2>7, <3>4 DEF r2, l2, r
      <4>2. Fits(r2, l2, 0, 0, d, most, n2, FALSE)
        BY <3>2, <4>1
      <4>3. Fits(r2, l2, h2, p2, d2, Pushes(m, again)', n2, read2)
        BY <2>1, <2>2, <4>2 DEF Fits
      <4> QED
        BY <1>10, <4>3
    <3> QED
      BY <3>3, <3>4
  <2> QED
    BY <2>6, <2>7
\* A drain goes on, and to its next command.
<1>18. ASSUME op.name = "drain", op.step \in 3..4
       PROVE  /\ op'.name = "drain" /\ op'.step = op.step + 1 /\ op'.held = Got(o)
              /\ d2 = d /\ p = 0 /\ p2 = 0 /\ most = Pushes(m, again)'
  <2>1. GoesOn(o) /\ delivered' = delivered
    BY <1>4, <1>18 DEF Draining
  <2>2. op.step # Len(Script(op.name, op.msg))
    <3>1. Script("drain", op.msg) = DrainScript /\ Len(DrainScript) = 5
      BY DrainCommands
    <3>2. op.step # 5
      BY <1>18
    <3> QED
      BY <1>18, <3>1, <3>2, Zenon
  <2>3. op'.name = op.name /\ op'.step = op.step + 1 /\ op'.held = Got(o)
    BY <1>1, <1>2, <2>1, <2>2, OpGoesOn DEF ClientOK
  <2> QED
    BY <1>13, <1>18, <2>1, <2>3 DEF PendingOnce, p, p2, d, d2
<1>19. CASE op.name = "drain" /\ op.step = 3
  <2>0. op.step \in 3..4
    BY <1>19
  <2>1. op'.name = "drain" /\ op'.step = 4 /\ op'.held = o.reply /\ d2 = d /\ p = 0 /\ p2 = 0
        /\ most = Pushes(m, again)' /\ read2 /\ ~HasRead
    BY <1>18, <1>19, <2>0 DEF Got, Reads, HasRead
  <2>2. h = 0 /\ r2 = r /\ l2 = l
    BY <1>13, <1>14, <1>19
  <2>3. /\ RedisReply(redis, Current) = redis["inbox"].value
        /\ LocalReply(local, Current) = local["inbox"].value
    BY <1>1, <1>19, ReadIsInbox DEF Reads, ClientOK
  <2>4. (faults' = faults /\ h2 = r) \/ (faults' # faults /\ h2 = l)
    <3>1. CASE Answered(o, Current)
      BY <1>4, <2>1, <2>3, <3>1 DEF Answered, h2, r
    <3>2. CASE Fallen(o, Current)
      BY <1>4, <1>7, <2>1, <2>3, <3>2 DEF Fallen, h2, l
    <3> QED
      BY <1>2, <3>1, <3>2 DEF Outcome
  <2>5. Fits(r, l, 0, 0, d, most, n, FALSE)
    BY <1>9, <2>1, <2>2 DEF Fits
  <2>6. Fits(r, l, r, 0, d, most, n, TRUE) /\ Fits(r, l, l, 0, d, most, n + 1, TRUE)
    BY <1>8, <2>5, FitsRead
  <2>7. Fits(r2, l2, h2, p2, d2, Pushes(m, again)', n2, read2)
    BY <1>12, <2>1, <2>2, <2>4, <2>6 DEF Fits
  <2> QED
    BY <1>10, <2>7
<1>20. CASE op.name = "drain" /\ op.step = 4
  <2>0. op.step \in 3..4
    BY <1>20
  <2>1. op'.name = "drain" /\ op'.step = 5 /\ op'.held = op.held /\ d2 = d /\ p = 0 /\ p2 = 0
        /\ most = Pushes(m, again)' /\ ~read2 /\ HasRead
    BY <1>18, <1>20, <2>0 DEF Got, Reads, HasRead
  <2>2. h2 = h
    BY <2>1 DEF h, h2
  <2>3. /\ redis'["inbox"].value \in {redis["inbox"].value, <<>>}
        /\ faults' = faults => redis'["inbox"].value = <<>> /\ local'["inbox"].value = local["inbox"].value
        /\ faults' # faults => local'["inbox"].value = <<>>
    BY <1>1, <1>2, <1>20, InboxMoves
  <2>4. \/ faults' = faults /\ r2 = 0 /\ l2 = l
        \/ faults' # faults /\ r2 \in {r, 0} /\ l2 = 0
    BY <2>3, TimesOfNothing DEF r, l, r2, l2
  <2>5. Fits(r, l, h, 0, d, most, n, TRUE)
    BY <1>9, <2>1 DEF Fits
  <2>6. /\ Fits(0, l, h, 0, d, most, n, FALSE)
        /\ Fits(r, 0, h, 0, d, most, n + 1, FALSE) /\ Fits(0, 0, h, 0, d, most, n + 1, FALSE)
    BY <1>8, <2>5, FitsDeleted
  <2>7. Fits(r2, l2, h2, p2, d2, Pushes(m, again)', n2, read2)
    BY <1>12, <2>1, <2>2, <2>4, <2>6 DEF Fits
  <2> QED
    BY <1>10, <2>7
<1>21. CASE op.name = "drain" /\ op.step = 5
  <2>1. op' = NoOp /\ d2 = d + h
    <3>1. op' = NoOp /\ delivered' = [x \in Message |-> delivered[x] + Times(x, op.held)]
      BY <1>4, <1>21 DEF Draining
    <3> QED
      BY <3>1 DEF d, d2, h
  <2>2. /\ h2 = 0 /\ p2 = 0 /\ ~read2 /\ p = 0 /\ ~HasRead /\ r2 = r /\ l2 = l /\ most = Pushes(m, again)'
    BY <1>13, <1>15, <1>21, <2>1 DEF p, PendingOnce, HasRead
  <2>3. Fits(r, l, h, 0, d, most, n, FALSE)
    BY <1>9, <2>2 DEF Fits
  <2>4. Fits(r, l, 0, 0, d + h, most, n2, FALSE)
    BY <1>8, <1>12, <2>3, FitsHanded
  <2>5. Fits(r2, l2, h2, p2, d2, Pushes(m, again)', n2, read2)
    BY <2>1, <2>2, <2>4 DEF Fits
  <2> QED
    BY <1>10, <2>5
<1>22. CASE /\ ~(op.name = "push" /\ op.step \in 1..2)
            /\ ~(op.name = "drain" /\ op.step \in 3..5)
  <2>1. ~(op.name = "push" /\ op.step = 2) /\ ~(op.name = "drain" /\ op.step = 4)
        /\ ~(op.name = "push" /\ op.step = 1) /\ ~(op.name = "drain" /\ op.step = 3) /\ ~(op.name = "drain" /\ op.step = 5)
    BY <1>22
  <2>2. r2 = r /\ l2 = l /\ most = Pushes(m, again)'
    BY <1>13, <2>1
  <2>3. p = 0 /\ h = 0 /\ ~HasRead
    <3>1. op.name # "drain" \/ op.step <= 3
      BY <1>6, <1>22
    <3> QED
      BY <1>14, <2>1, <3>1 DEF p, PendingOnce, HasRead
  <2>4. d2 = d
    BY <1>4, <2>1 DEF Draining, d, d2
  <2>5. h2 = 0 /\ p2 = 0 /\ ~read2
    <3>1. CASE op' = NoOp
      BY <1>15, <3>1
    <3>2. CASE op' # NoOp
      <4>1. op'.name = op.name /\ op'.step = op.step + 1 /\ op'.held = op.held
        BY <1>3, <2>1, <3>2 DEF Got, Reads
      <4>2. h2 = h
        BY <4>1 DEF h, h2
      <4>3. op'.step = 2 => op.step = 1
        BY <1>6, <4>1
      <4>4. op'.step = 4 => op.step = 3
        BY <1>6, <4>1
      <4> QED
        BY <2>1, <2>3, <4>1, <4>2, <4>3, <4>4 DEF PendingOnce, HasRead
    <3> QED
      BY <3>1, <3>2
  <2>6. Fits(r, l, 0, 0, d, most, n, FALSE)
    BY <1>9, <2>3 DEF Fits
  <2>7. Fits(r, l, 0, 0, d, most, n2, FALSE)
    BY <1>25, <2>6
  <2>8. Fits(r2, l2, h2, p2, d2, Pushes(m, again)', n2, read2)
    BY <2>2, <2>4, <2>5, <2>7 DEF Fits
  <2> QED
    BY <1>10, <2>8
<1>23. op.step \in 1..2 => op.step = 1 \/ op.step = 2
  OBVIOUS
<1>24. op.step \in 3..5 => op.step = 3 \/ op.step = 4 \/ op.step = 5
  OBVIOUS
<1> QED
  BY <1>16, <1>17, <1>19, <1>20, <1>21, <1>22, <1>23, <1>24

LEMMA FitsDropped ==
  ASSUME NEW r \in Nat, NEW l \in Nat, NEW d \in Nat, NEW most \in Nat, NEW n \in Nat,
         Fits(r, l, 0, 0, d, most, n, FALSE), NEW r2 \in {r, 0}
  PROVE  Fits(r2, l, 0, 0, d, most, n, FALSE) /\ Fits(r, 0, 0, 0, d, most, n + 1, FALSE)
  BY Products DEF Fits

LEMMA CopiesStays ==
  ASSUME ClientOK, LiveInv, HeldInv, CopiesInv, [ClientNext]_clientVars
  PROVE  CopiesInv'
<1>1. CASE Step
  <2>1. configured' = configured /\ now' = now
    BY <1>1 DEF Step
  <2> SUFFICES ASSUME configured, now < Ttl.dedup, NEW m \in Message
               PROVE  \E again \in 0..faults' : Within(m, again)'
    BY <2>1 DEF CopiesInv
  <2>2. PICK again \in 0..faults : Within(m, again)
    BY DEF CopiesInv
  <2> QED
    BY <1>1, <2>2, CopiesStep
<1>2. CASE ~Step /\ ~RestartClient /\ ~Tick
  <2>1. UNCHANGED <<configured, redis, local, now, faults, delivered>>
    BY <1>2 DEF ClientNext, Arrive, UseCounter, StartDrain, clientVars, stores
  <2>2. op'.held = op.held /\ \A m : PendingOnce(m)' = PendingOnce(m) /\ HasRead' = HasRead
    <3>1. CASE op' = op
      BY <3>1 DEF PendingOnce, HasRead
    <3>2. CASE op' # op
      <4>1. PICK name \in Operations, x \in Message \cup {"none"} : Starts(name, x)
        BY <1>2, <3>2, RestOp
      <4>2. op = NoOp /\ op'.step = 1 /\ op'.held = <<>>
        BY <4>1 DEF Starts
      <4> QED
        BY <4>2 DEF NoOp, PendingOnce, HasRead
    <3> QED
      BY <3>1, <3>2
  <2>3. \A m, again : Within(m, again)' <=> Within(m, again)
    BY <2>1, <2>2 DEF Within, Pushes
  <2> QED
    BY <2>1, <2>3 DEF CopiesInv
<1>3. CASE RestartClient \/ Tick
  <2>1. /\ op = NoOp /\ op' = op /\ delivered' = delivered /\ configured' = configured
        /\ now' = now \/ now' = now + 1
        /\ now \in Int /\ faults \in Nat
    BY <1>3, ClientConstants DEF RestartClient, Tick, ClientOK
  <2> SUFFICES ASSUME configured, now' < Ttl.dedup, NEW m \in Message
               PROVE  \E again \in 0..faults' : Within(m, again)'
    BY <2>1 DEF CopiesInv
  <2>2. now < Ttl.dedup
    BY <2>1, ClientConstants
  <2>3. PICK again \in 0..faults : Within(m, again)
    BY <2>2 DEF CopiesInv
  <2> DEFINE r == Times(m, redis["inbox"].value)
             l == Times(m, local["inbox"].value)
             d == delivered[m]
             most == Pushes(m, again)
             n == 1 + faults - again
             r2 == Times(m, redis'["inbox"].value)
             l2 == Times(m, local'["inbox"].value)
  <2>4. /\ r \in Nat /\ l \in Nat /\ d \in Nat /\ most \in Nat /\ n \in Nat
    <3>1. redis["inbox"].value \in Seq(Message) /\ local["inbox"].value \in Seq(Message) /\ d \in Nat
      BY DEF ClientOK, StoreOK
    <3>2. r \in Nat /\ l \in Nat
      BY <3>1, TimesIsNat
    <3>3. most \in Nat /\ n \in Nat
      BY <2>1 DEF Pushes
    <3> QED
      BY <3>1, <3>2, <3>3
  <2>5. /\ Times(m, op.held) = 0 /\ Times(m, op'.held) = 0
        /\ PendingOnce(m) = 0 /\ PendingOnce(m)' = 0 /\ ~HasRead /\ ~HasRead'
    BY <2>1, TimesOfNothing DEF NoOp, PendingOnce, HasRead
  <2>6. Fits(r, l, 0, 0, d, most, n, FALSE)
    BY <2>3, <2>5 DEF Within, Fits
  <2>7. CASE RestartClient
    <3>1. redis' = redis /\ faults' = faults + 1 /\ local'["inbox"] = NoEntry
      BY <2>7, ClientConstants DEF RestartClient
    <3>2. l2 = 0 /\ r2 = r
      BY <3>1, TimesOfNothing DEF NoEntry
    <3>3. Pushes(m, again)' = most /\ 1 + faults' - again = n + 1 /\ again \in 0..faults'
      BY <2>1, <3>1 DEF Pushes
    <3> HIDE DEF r, l, d, most, n, r2, l2
    <3>4. Fits(r2, l2, 0, 0, d, most, n + 1, FALSE)
      BY <2>4, <2>6, <3>2, FitsDropped
    <3>5. Within(m, again)'
      BY <2>1, <2>5, <3>3, <3>4 DEF Within, Fits, r2, l2, d
    <3> QED
      BY <3>3, <3>5
  <2>8. CASE Tick
    <3>1. /\ local' = local /\ faults' = faults
          /\ redis' = [k \in Key |-> IF redis[k].exp <= now' THEN NoEntry ELSE redis[k]]
      BY <2>8 DEF Tick
    <3>2. redis'[m] = redis[m]
      <4>1. redis[m].exp >= Ttl.dedup /\ redis[m].exp \in Int /\ Ttl.dedup \in Int /\ m \in Key
        BY ClientConstants DEF LiveInv, ClientOK, StoreOK
      <4> QED
        BY <2>1, <3>1, <4>1
    <3>3. redis'["inbox"] = redis["inbox"] \/ redis'["inbox"] = NoEntry
      BY <3>1, ClientConstants
    <3>4. r2 \in {r, 0} /\ l2 = l
      BY <3>1, <3>3, TimesOfNothing DEF NoEntry
    <3>5. Pushes(m, again)' = most /\ again \in 0..faults'
      BY <3>1, <3>2 DEF Pushes
    <3> HIDE DEF r, l, d, most, r2, l2
    <3>6. Fits(r2, l2, 0, 0, d, most, n, FALSE)
      BY ZenonT(40), <2>4, <2>6, <3>4, FitsDropped
    <3>7. Within(m, again)'
      BY <2>1, <2>5, <3>1, <3>5, <3>6 DEF Within, Fits, r2, l2, d, n
    <3> QED
      BY <3>5, <3>7
  <2> QED
    BY <1>3, <2>7, <2>8
<1> QED
  BY <1>1, <1>2, <1>3

ClientInv == ClientOK /\ LiveInv /\ HeldInv /\ SameInv /\ LossInv /\ CopiesInv

LEMMA ClientInvInit ==
  ASSUME ClientInit
  PROVE  ClientInv
<1>1. ClientOK
  BY TypesInit
<1>2. /\ \A k \in Key : redis[k] = NoEntry /\ local[k] = NoEntry
      /\ NoEntry.value = <<>> /\ NoEntry.exp = Never
      /\ op.name = "none" /\ op.held = <<>> /\ op.step = 0
      /\ now = 0 /\ faults = 0 /\ accepted = {} /\ delivered = [m \in Message |-> 0] /\ ~blind /\ outlived = {}
  BY DEF ClientInit, NoEntry, NoOp
<1>3. LiveInv
  BY <1>2, ClientConstants DEF LiveInv
<1>4. HeldInv
  BY <1>2 DEF HeldInv
<1>5. SameInv
  BY <1>2 DEF SameInv, Twins, SeenAt
<1>6. LossInv
  BY <1>2, ClientConstants DEF LossInv
<1>7. CopiesInv
  <2>1. SUFFICES ASSUME NEW m \in Message PROVE \E again \in 0..faults : Within(m, again)
    BY DEF CopiesInv
  <2>2. 0 \in 0..faults
    BY <1>2
  <2>3. /\ redis["inbox"].value = <<>> /\ local["inbox"].value = <<>> /\ redis[m].value = <<>>
    BY <1>2, ClientConstants
  <2>4. Pushes(m, 0) = 0 /\ PendingOnce(m) = 0 /\ delivered[m] = 0 /\ ~HasRead /\ 1 + faults - 0 = 1
    BY <1>2, <2>3 DEF Pushes, PendingOnce, HasRead
  <2>5. Fits(0, 0, 0, 0, 0, 0, 1, HasRead)
    BY <2>4 DEF Fits
  <2>6. Within(m, 0)
    BY <1>2, <2>3, <2>4, <2>5, TimesOfNothing DEF Within
  <2> QED
    BY <2>2, <2>6
<1> QED
  BY <1>1, <1>3, <1>4, <1>5, <1>6, <1>7 DEF ClientInv

THEOREM ClientInvariant == ClientSpec => []ClientInv
<1>1. ClientInit => ClientInv
  BY ClientInvInit
<1>2. ClientInv /\ [ClientNext]_clientVars => ClientInv'
  <2>1. SUFFICES ASSUME ClientInv, [ClientNext]_clientVars PROVE ClientInv'
    OBVIOUS
  <2>2. ClientOK'
    BY <2>1, TypesStep, TypesRest DEF ClientInv
  <2>3. LiveInv'
    BY <2>1, LiveStays DEF ClientInv
  <2>4. HeldInv'
    BY <2>1, HeldStays DEF ClientInv
  <2>5. SameInv'
    BY <2>1, SameStays DEF ClientInv
  <2>6. LossInv'
    BY <2>1, LossStays DEF ClientInv
  <2>7. CopiesInv'
    BY <2>1, CopiesStays DEF ClientInv
  <2> QED
    BY <2>2, <2>3, <2>4, <2>5, <2>6, <2>7 DEF ClientInv
<1> QED
  BY <1>1, <1>2, PTL DEF ClientSpec

(***************************************************************************)
(* Without Upstash the fallback holds, key by key, what a Redis would hold *)
(* after the same commands, until a list or a counter outlives its time    *)
(* (redis_store.py:82-252).                                                *)
(***************************************************************************)
THEOREM FallbackIsRedis == ClientSpec => []LocalHoldsWhatRedisWould
<1>1. ClientInv => LocalHoldsWhatRedisWould
  BY DEF ClientInv, SameInv, Twins, SeenAt, Expired, LocalHoldsWhatRedisWould
<1> QED
  BY <1>1, ClientInvariant, PTL

(***************************************************************************)
(* While nothing expires, an accepted message is in a store, in the hands  *)
(* of a drain or handed on, unless a drain whose LRANGE failed deletes the *)
(* inbox it did not see, or two things fail (redis_store.py:77).           *)
(***************************************************************************)
THEOREM LossNeedsTwoFaults == ClientSpec => []LostOnlyByFaults
<1>1. ClientInv => LostOnlyByFaults
  BY DEF ClientInv, LossInv, Safe, Stored, Pending, Kept, LostOnlyByFaults
<1> QED
  BY <1>1, ClientInvariant, PTL

(***************************************************************************)
(* While its deduplication key lives, a message is handed on more than     *)
(* once only if commands fail: some of them let it be pushed once more, and*)
(* each of the others lets what is in a list be handed on once more        *)
(* (redis_store.py:77).                                                    *)
(***************************************************************************)
THEOREM RepeatsNeedFaults == ClientSpec => []RepeatedOnlyByFaults
<1>1. ClientInv => RepeatedOnlyByFaults
  <2>1. SUFFICES ASSUME ClientInv, now < Ttl.dedup, NEW m \in Message
                 PROVE  \E again \in 0..faults : delivered[m] <= (1 + again) * (1 + faults - again)
    BY DEF RepeatedOnlyByFaults
  <2>2. faults \in Nat /\ delivered[m] \in Nat
    BY <2>1, ClientConstants DEF ClientInv, ClientOK
  <2>3. CASE ~configured
    <3>1. delivered[m] = 0
      BY <2>1, <2>3 DEF ClientInv, HeldInv
    <3>2. 0 \in 0..faults /\ delivered[m] <= (1 + 0) * (1 + faults - 0)
      BY <2>2, <3>1
    <3> QED
      BY <3>2
  <2>4. CASE configured
    <3>1. PICK again \in 0..faults : Within(m, again)
      BY <2>1, <2>4 DEF ClientInv, CopiesInv
    <3> DEFINE r == Times(m, redis["inbox"].value)
               l == Times(m, local["inbox"].value)
               h == Times(m, op.held)
               p == PendingOnce(m)
               d == delivered[m]
               n == 1 + faults - again
    <3>2. r \in Nat /\ l \in Nat /\ h \in Nat /\ p \in Nat /\ n \in Nat
      <4>1. redis["inbox"].value \in Seq(Message) /\ local["inbox"].value \in Seq(Message)
        BY <2>1 DEF ClientInv, ClientOK, StoreOK
      <4>2. op.held \in Seq(Message)
        <5>1. OpOK
          BY <2>1 DEF ClientInv, ClientOK
        <5>2. op = NoOp => op.held = <<>> /\ <<>> \in Seq(Message)
          BY DEF NoOp
        <5> QED
          BY <5>1, <5>2 DEF OpOK
      <4>3. p \in Nat /\ n \in Nat
        BY <2>2 DEF PendingOnce
      <4> QED
        BY <4>1, <4>2, <4>3, TimesIsNat
    <3>3. Pushes(m, again) \in {again, again + 1}
      BY DEF Pushes
    <3>4. Fits(r, l, h, p, d, Pushes(m, again), n, HasRead)
      BY <3>1 DEF Within
    <3> HIDE DEF r, l, h, p, n
    <3>5. d <= Pushes(m, again) * n
      <4>1. Pushes(m, again) * n \in Nat
        BY <3>2, <3>3, Products
      <4> QED
        BY <2>2, <3>2, <3>4, <4>1 DEF Fits
    <3>6. (again + 1) * n = again * n + n /\ again * n \in Nat /\ (again + 1) * n \in Nat
      BY <3>2, Products
    <3>7. d <= (again + 1) * n
      BY <2>2, <3>2, <3>3, <3>5, <3>6
    <3>8. delivered[m] <= (1 + again) * (1 + faults - again)
      BY <3>7 DEF n
    <3> QED
      BY <3>8
  <2> QED
    BY <2>3, <2>4
<1> QED
  BY <1>1, ClientInvariant, PTL

=============================================================================
