---------------------------- MODULE BatchChannel ----------------------------
(***************************************************************************)
(* What the inbox of langshark promises, without Redis: one lossy FIFO     *)
(* mailbox per lead.  A webhook pushes a message at the back of its lead's *)
(* mailbox; the drainer takes messages from the front, any number at once, *)
(* and hands them to the worker as ONE payload.  Messages may get lost     *)
(* while they wait, at either end of the mailbox, but are never reordered, *)
(* invented, duplicated or put in another lead's payload.  InboxPipeline   *)
(* implements this channel.                                                *)
(***************************************************************************)
EXTENDS Naturals, Sequences

CONSTANTS Lead,     \* the leads: one (instance, phone) pair each
          Msg,      \* the WhatsApp messages
          LeadOf    \* the lead that wrote each message

VARIABLES box,      \* box[l]: messages of l that wait, oldest first
          out       \* payloads handed over, in order

channelVars == <<box, out>>

ChannelInit ==
  /\ box = [l \in Lead |-> <<>>]
  /\ out = <<>>

Push(m) ==
  /\ box' = [box EXCEPT ![LeadOf[m]] = Append(@, m)]
  /\ UNCHANGED out

\* The n oldest messages of l leave as one payload.
Batch(l, n) ==
  /\ out' = Append(out, [lead |-> l, msgs |-> SubSeq(box[l], 1, n)])
  /\ box' = [box EXCEPT ![l] = SubSeq(@, n + 1, Len(@))]

\* Only the messages at positions i..j of l's mailbox survive.
Lose(l, i, j) ==
  /\ box' = [box EXCEPT ![l] = SubSeq(@, i, j)]
  /\ UNCHANGED out

ChannelNext ==
  \/ \E m \in Msg : Push(m)
  \/ \E l \in Lead : \E n \in 1..Len(box[l]) : Batch(l, n)
  \/ \E l \in Lead : \E i \in 1..(Len(box[l]) + 1) : \E j \in 0..Len(box[l]) : Lose(l, i, j)

ChannelSpec == ChannelInit /\ [][ChannelNext]_channelVars
=============================================================================
