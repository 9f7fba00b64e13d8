------------------------------ MODULE GraphTurn ------------------------------
(***************************************************************************)
(* The turns of one conversation through the LangGraph of agent/graph.py:  *)
(* a specialist writes a reply, a flow may be dispatched instead of it,    *)
(* the supervisor sends the reply back or lets it through, and it is       *)
(* persisted and sent.  The state outlives the turn: the checkpointer      *)
(* saves it after every node, and the next turn starts from it with only   *)
(* the input's fields replaced.                                            *)
(*                                                                         *)
(* A node is a step.  What the models say (intent, reply, tags, review) is *)
(* a free choice; the specialists differ in their prompts alone and are    *)
(* one node; the nodes that prepare the prompt touch nothing modelled here *)
(* and the strategist is FollowUp's.  Tool calls are off, as by default.   *)
(***************************************************************************)
EXTENDS Naturals

CONSTANTS
  MaxRetries,  \* SUPERVISOR_MAX_RETRIES
  MaxRuns,     \* specialist runs until LangGraph's recursion limit ends the turn
  MaxTurns     \* bound: turns of the conversation

ASSUME GraphAssumption ==
  /\ {MaxRetries, MaxRuns, MaxTurns} \subseteq Nat
  /\ MaxRuns > 0

VARIABLES
  pc,          \* the node that runs next
  state,       \* the checkpoint: [reply, flow, dispatched, attempts, feedback, approved]
  \* of the turn, to state the properties
  turn,        \* its number
  purchase,    \* its intent is comprou
  runs,        \* how often a specialist has run
  rejections,  \* how often the supervisor has sent the reply back
  passed,      \* the reply has been let through
  out          \* what has been sent to the lead

turnVars == <<pc, state, turn, purchase, runs, rejections, passed, out>>
history == <<turn, purchase, runs, rejections, passed, out>>

Pc == {"idle", "intent", "specialist", "flow", "supervisor", "persist", "send"}

\* reply stands for reply and chunks, which are written together: the turn that wrote
\* them, 0 for none.  flow: flow_name is set.  approved: the last review's verdict.
State == [reply : 0..MaxTurns, flow : BOOLEAN, dispatched : BOOLEAN,
          attempts : 0..MaxRetries, feedback : BOOLEAN, approved : BOOLEAN]

TurnInit ==
  /\ pc = "idle"
  /\ state = [reply |-> 0, flow |-> FALSE, dispatched |-> FALSE,
              attempts |-> 0, feedback |-> FALSE, approved |-> FALSE]
  /\ turn = 0 /\ purchase = FALSE /\ runs = 0
  /\ rejections = 0 /\ passed = FALSE /\ out = {}

Goes(from, to) == pc = from /\ pc' = to

-----------------------------------------------------------------------------
\* ainvoke: the input replaces the message, and nothing of what is modelled.
Start ==
  /\ Goes("idle", "intent") /\ turn < MaxTurns
  /\ turn' = turn + 1
  /\ purchase' = FALSE /\ runs' = 0
  /\ rejections' = 0 /\ passed' = FALSE /\ out' = {}
  /\ UNCHANGED state

\* _route_after_intent: comprou goes straight to persist, everything else to a specialist.
Purchase ==
  /\ Goes("intent", "persist")
  /\ purchase' = TRUE
  /\ UNCHANGED <<state, turn, runs, rejections, passed, out>>

Converse ==
  /\ Goes("intent", "specialist")
  /\ UNCHANGED <<state, history>>

\* A specialist writes a reply, which may be empty, and perhaps the tag of a flow that
\* exists; without the tag flow_name is left alone.  Then _route_after_reply.
Specialist ==
  /\ pc = "specialist" /\ runs < MaxRuns
  /\ \E text \in {0, turn}, tag \in BOOLEAN :
       state' = [state EXCEPT !.reply = text, !.flow = @ \/ tag]
  /\ pc' = IF state'.flow THEN "flow" ELSE "supervisor"
  /\ runs' = runs + 1
  /\ passed' = FALSE
  /\ UNCHANGED <<turn, purchase, rejections, out>>

\* flow_executor: some step of the flow is sent ...
FlowSent ==
  /\ Goes("flow", "supervisor")
  /\ state' = [state EXCEPT !.dispatched = TRUE]
  /\ out' = out \cup {"flow"}
  /\ UNCHANGED <<turn, purchase, runs, rejections, passed>>

\* ... or none is: the reply is sent instead ...
FlowFails ==
  /\ Goes("flow", "supervisor")
  /\ state' = [state EXCEPT !.dispatched = FALSE, !.flow = FALSE]
  /\ UNCHANGED history

\* ... or the flow has been deleted in the panel.
FlowGone ==
  /\ Goes("flow", "supervisor")
  /\ state' = [state EXCEPT !.dispatched = FALSE]
  /\ UNCHANGED history

\* _route_after_supervisor, on the state the supervisor leaves.
RouteAfterSupervisor ==
  pc' = IF ~state'.approved /\ state'.feedback /\ state'.reply = 0 THEN "specialist" ELSE "persist"

\* There is no reply to review: the node returns early.
SkipReview ==
  /\ pc = "supervisor" /\ state.reply = 0
  /\ UNCHANGED <<state, history>>
  /\ RouteAfterSupervisor

\* Faulty: the feedback of the rejections before is not cleared.
ApproveLeaking ==
  /\ pc = "supervisor" /\ state.reply # 0
  /\ state' = [state EXCEPT !.approved = TRUE]
  /\ passed' = TRUE
  /\ UNCHANGED <<turn, purchase, runs, rejections, out>>
  /\ RouteAfterSupervisor

Approve ==
  /\ pc = "supervisor" /\ state.reply # 0
  /\ state' = [state EXCEPT !.approved = TRUE, !.feedback = FALSE, !.attempts = 0]
  /\ passed' = TRUE
  /\ UNCHANGED <<turn, purchase, runs, rejections, out>>
  /\ RouteAfterSupervisor

\* Faulty: the rejected reply stays in the state.
RejectKeeping ==
  /\ pc = "supervisor" /\ state.reply # 0 /\ state.attempts < MaxRetries
  /\ \E told \in BOOLEAN :
       state' = [state EXCEPT !.approved = FALSE, !.feedback = told, !.attempts = @ + 1]
  /\ rejections' = rejections + 1
  /\ UNCHANGED <<turn, purchase, runs, passed, out>>
  /\ RouteAfterSupervisor

\* Faulty: the retry is not counted.
RejectUncounted ==
  /\ pc = "supervisor" /\ state.reply # 0 /\ state.attempts < MaxRetries
  /\ \E told \in BOOLEAN :
       state' = [state EXCEPT !.approved = FALSE, !.feedback = told, !.reply = 0]
  /\ rejections' = rejections + 1
  /\ UNCHANGED <<turn, purchase, runs, passed, out>>
  /\ RouteAfterSupervisor

\* Faulty: the bound is checked after the retry.
RejectOnceMore ==
  /\ pc = "supervisor" /\ state.reply # 0 /\ state.attempts <= MaxRetries
  /\ \E told \in BOOLEAN :
       state' = [state EXCEPT !.approved = FALSE, !.feedback = told, !.attempts = @ + 1, !.reply = 0]
  /\ rejections' = rejections + 1
  /\ UNCHANGED <<turn, purchase, runs, passed, out>>
  /\ RouteAfterSupervisor

\* Sent back: reply and chunks are cleared, respond writes again with the feedback.
\* A review that gives neither feedback nor a reason clears them too, and no retry
\* follows.
Reject ==
  /\ pc = "supervisor" /\ state.reply # 0 /\ state.attempts < MaxRetries
  /\ \E told \in BOOLEAN :
       state' = [state EXCEPT !.approved = FALSE, !.feedback = told, !.attempts = @ + 1, !.reply = 0]
  /\ rejections' = rejections + 1
  /\ UNCHANGED <<turn, purchase, runs, passed, out>>
  /\ RouteAfterSupervisor

\* Rejected, but the retries are used up: it is sent all the same.
GiveUp ==
  /\ pc = "supervisor" /\ state.reply # 0 /\ state.attempts >= MaxRetries
  /\ state' = [state EXCEPT !.approved = FALSE, !.feedback = FALSE, !.attempts = 0]
  /\ passed' = TRUE
  /\ UNCHANGED <<turn, purchase, runs, rejections, out>>
  /\ RouteAfterSupervisor

\* persist_node writes the history in Redis.
Persist ==
  /\ Goes("persist", "send")
  /\ UNCHANGED <<state, history>>

\* send_node: nothing after a flow, nothing without chunks.
SendNothing ==
  /\ Goes("send", "idle") /\ (state.dispatched \/ state.reply = 0)
  /\ UNCHANGED <<state, history>>

SendReply ==
  /\ Goes("send", "idle") /\ ~state.dispatched /\ state.reply # 0
  /\ out' = out \cup {"reply"}
  /\ UNCHANGED <<state, turn, purchase, runs, rejections, passed>>

\* A node raises after its retries, the recursion limit is reached (GraphRecursionError),
\* or the process stops: the checkpoint stays as the last node left it.
Abort ==
  /\ pc # "idle"
  /\ pc' = "idle"
  /\ UNCHANGED <<state, history>>

Supervisor == SkipReview \/ Approve \/ Reject \/ GiveUp
Flow == FlowSent \/ FlowFails \/ FlowGone
Send == SendNothing \/ SendReply

TurnNext ==
  \/ Start \/ Purchase \/ Converse \/ Specialist \/ Flow
  \/ Supervisor \/ Persist \/ Send \/ Abort

TurnSpec == TurnInit /\ [][TurnNext]_turnVars

-----------------------------------------------------------------------------
(* Properties *)

TypeOK ==
  /\ pc \in Pc
  /\ state \in State
  /\ turn \in 0..MaxTurns /\ runs \in 0..MaxRuns /\ rejections \in Nat
  /\ purchase \in BOOLEAN /\ passed \in BOOLEAN
  /\ out \subseteq {"flow", "reply"}

(***************************************************************************)
(* graph.py:206 "Supervisor valida ANTES de strategist+persist": a         *)
(* conversation turn sends only the reply it has itself written and the    *)
(* supervisor has let through, whatever an earlier turn that broke off has *)
(* left in the checkpoint.  A purchase turn is not covered: it sends what  *)
(* the checkpoint holds.                                                   *)
(***************************************************************************)
OwnReviewedReply ==
  [][SendReply => purchase \/ (state.reply = turn /\ passed)]_turnVars

(***************************************************************************)
(* graph.py:123 "Evita loop infinito": a turn sends a reply back at most   *)
(* MaxRetries times, also when it starts from the attempts of a turn that  *)
(* broke off.                                                              *)
(***************************************************************************)
RejectionsBounded == rejections <= MaxRetries

(***************************************************************************)
(* nodes.py:1446 "limpa supervisor_feedback/attempts pra nao vazar pro     *)
(* proximo turno": a conversation turn that comes to its end leaves no     *)
(* feedback in the checkpoint, and one that answers leaves no attempts,    *)
(* even if it found them there.  (A turn that a wordless rejection has     *)
(* silenced does leave its attempts.)                                      *)
(***************************************************************************)
FeedbackDoesNotLeak ==
  [][/\ Send => purchase \/ ~state.feedback
     /\ SendReply => purchase \/ state.attempts = 0]_turnVars

=============================================================================
