-------------------------- MODULE InteractiveSession --------------------------
(***************************************************************************)
(* The conversation between a user, the model and the tools.               *)
(*                                                                         *)
(* app/InteractiveSession.ts keeps the conversation and the one approval   *)
(* the user is being asked for; providers/OpenAIToolLoop.ts sends requests *)
(* to the model and runs the tool calls of its responses until a response  *)
(* has none.  The web server calls ask, approve and reject for every HTTP  *)
(* request as it comes; the command line waits for each.                   *)
(*                                                                         *)
(* Of the supervised executor only what its caller can see is here (the    *)
(* executor itself is SupervisedExecution): a call is refused at once, or  *)
(* its tool runs, or it is held for a human; one tool runs at a time, and  *)
(* a call that meets a running tool is refused.  As createApplication.ts   *)
(* builds the session it has no coding workflow, so the branches about a   *)
(* repair are not here (the repair itself is RepairSession).               *)
(*                                                                         *)
(* Only a request to the model and a running tool leave the microtask      *)
(* queue, so what happens from one of their answers to the next of them is *)
(* one action: a turn's refused calls, a call that is held, the end of the *)
(* flow with what it leaves in the session.                                *)
(***************************************************************************)
EXTENDS Naturals

CONSTANTS
  Flows,         \* calls of ask and approve that may be in progress at once
  MaxRequests,   \* ProviderBudget's limit: requests to the model in a process
  MaxTurns,      \* OpenAIToolLoop.maxTurns
  MaxCalls,      \* bound: the tool calls of one response
  None

ASSUME BoundAssumption ==
  MaxRequests \in Nat \ {0} /\ MaxTurns \in Nat \ {0} /\ MaxCalls \in Nat \ {0}

Responses == 1..MaxRequests             \* a response is known by its request's number
CallIds == Responses \X (1..MaxCalls)   \* the action id of a call is drawn for it alone
Fates == {"refused", "run", "held"}     \* what the executor does with a call
Contents == UNION {[1..n -> Fates] : n \in 0..MaxCalls}
Answers == CallIds \X BOOLEAN           \* a function_call_output and its ok flag

FlowStates ==
  [at: {"model", "tool", "approved"},   \* what it waits for; "approved" is approve's own tool
   by: CallIds \cup {None},             \* the call approve was given, None for ask
   turn: 1..(MaxTurns + 1), resp: Responses, calls: Contents, call: 1..MaxCalls,
   outputs: SUBSET Answers]

ASSUME NoneAssumption == None \notin Responses \cup CallIds \cup FlowStates

VARIABLES
  flow,          \* where each ask and approve in progress stands
  previous,      \* InteractiveSession.previousResponseId
  pendingToolApproval,  \* InteractiveSession.pendingToolApproval
  held,          \* the calls the executor holds for a human
  requests,      \* ProviderBudget.requests
  \* History, read by no action of the program.
  starts,        \* how often the tool of a call was started
  done,          \* the calls whose tool returned a result
  told,          \* the outputs sent to the model
  overlapped,    \* something was called while another call was in progress
  forgot         \* /reset or /model was used

conversation == <<previous, pendingToolApproval>>
sending == <<requests, told>>
vars == <<flow, conversation, held, sending, starts, done, overlapped, forgot>>

-----------------------------------------------------------------------------
Init ==
  /\ flow = [f \in Flows |-> None]
  /\ previous = None /\ pendingToolApproval = None
  /\ held = {} /\ requests = 0
  /\ starts = [c \in CallIds |-> 0] /\ done = {} /\ told = {}
  /\ overlapped = FALSE /\ forgot = FALSE

\* The executor's session lock is free for flow f: no other one runs a tool.
LockFree(f) == \A g \in Flows \ {f} : flow[g] # None => flow[g].at = "model"

\* Called: an entry point is called, perhaps while another call is in progress.
Called == overlapped' = (overlapped \/ \E f \in Flows : flow[f] # None)

End(f) == flow' = [flow EXCEPT ![f] = None]

\* ProviderBudget.consume's test.
RequestsLeft == requests < MaxRequests

\* createResponse: a request that carries outputs; the provider budget may refuse it,
\* which ends the flow with an error.
Send(f, s, outputs) ==
  \/ /\ RequestsLeft
     /\ requests' = requests + 1
     /\ flow' = [flow EXCEPT ![f] = [s EXCEPT !.at = "model", !.resp = requests + 1,
                                             !.calls = <<>>, !.outputs = {}]]
     /\ told' = told \cup outputs
  \/ /\ ~RequestsLeft
     /\ End(f)
     /\ UNCHANGED sending

\* Mutant: approve does not take over the approval its resumed loop asks for.
ConcludeForgetsApproval(f, s, approval) ==
  /\ End(f)
  /\ previous' = s.resp
  /\ pendingToolApproval' = IF s.by = None THEN approval ELSE pendingToolApproval

\* The loop returns to ask, which overwrites the pending approval, or to approve,
\* which only adds one.
Conclude(f, s, approval) ==
  /\ End(f)
  /\ previous' = s.resp
  /\ pendingToolApproval' = IF s.by = None \/ approval # None THEN approval
                            ELSE pendingToolApproval

\* Mutant: a refused call is reported as executed.
RefusalsOk(s, js) == {<<<<s.resp, j>>, TRUE>> : j \in js}

\* The outputs of calls that were refused.
Refusals(s, js) == {<<<<s.resp, j>>, FALSE>> : j \in js}

\* Mutant: the loop is one call behind.
OneBehind(calls, i) == {j \in DOMAIN calls : j + 1 >= i}

\* The calls that are left, from call i on.
Left(calls, i) == {j \in DOMAIN calls : j >= i}

\* processResponse from call i on: calls that are refused at once get their output,
\* until one's tool runs, one is held (the outputs so far are dropped), or all have
\* an output and the next request is sent.
Process(f, s, calls, i, outputs) ==
  LET left == Left(calls, i)
      admitted == IF LockFree(f) THEN {j \in left : calls[j] # "refused"} ELSE {}
      skipped(j) == outputs \cup Refusals(s, {k \in left : k < j})
  IN
  \/ /\ calls = <<>>
     /\ Conclude(f, s, None)
     /\ UNCHANGED <<held, starts, sending>>
  \/ /\ calls # <<>> /\ admitted = {}
     /\ Send(f, [s EXCEPT !.turn = @ + 1], outputs \cup Refusals(s, left))
     /\ UNCHANGED <<conversation, held, starts>>
  \/ \E j \in admitted :
     /\ \A k \in admitted : j <= k
     /\ \/ /\ calls[j] = "run"
           /\ flow' = [flow EXCEPT ![f] = [s EXCEPT !.at = "tool", !.calls = calls, !.call = j,
                                                   !.outputs = skipped(j)]]
           /\ starts' = [starts EXCEPT ![<<s.resp, j>>] = @ + 1]
           /\ UNCHANGED <<conversation, held, sending>>
        \/ /\ calls[j] = "held"
           /\ held' = held \cup {<<s.resp, j>>}
           /\ Conclude(f, s, <<s.resp, j>>)
           /\ UNCHANGED <<starts, sending>>

-----------------------------------------------------------------------------
(* Entry points *)

Fresh(by) == [at |-> "model", by |-> by, turn |-> 1, resp |-> 1, calls |-> <<>>,
              call |-> 1, outputs |-> {}]

\* ask: not while a decision is pending.
Ask(f) ==
  /\ flow[f] = None
  /\ pendingToolApproval = None
  /\ Called
  /\ Send(f, Fresh(None), {})
  /\ UNCHANGED <<conversation, held, starts, done, forgot>>

\* approve, for the call the session is pending on: the executor lets go of it and
\* runs its tool; or it refuses (a tool is running, the approval has expired, another
\* approve took the call), and the model is told so.
Approve(f, c) ==
  /\ flow[f] = None
  /\ pendingToolApproval = c
  /\ Called
  /\ held' = held \ {c}
  /\ \/ /\ c \in held /\ LockFree(f)
        /\ flow' = [flow EXCEPT ![f] = [Fresh(c) EXCEPT !.at = "approved"]]
        /\ starts' = [starts EXCEPT ![c] = @ + 1]
        /\ UNCHANGED <<conversation, sending>>
     \/ /\ pendingToolApproval' = None
        /\ Send(f, Fresh(c), {<<c, FALSE>>})
        /\ UNCHANGED <<previous, starts>>
  /\ UNCHANGED <<done, forgot>>

\* Mutant: the session stays pending on a rejected call.
RejectStaysPending(c) ==
  /\ c \in held
  /\ Called
  /\ held' = held \ {c}
  /\ UNCHANGED <<flow, conversation, sending, starts, done, forgot>>

\* reject, for a call the executor holds.
Reject(c) ==
  /\ c \in held
  /\ Called
  /\ held' = held \ {c}
  /\ pendingToolApproval' = IF pendingToolApproval = c THEN None ELSE pendingToolApproval
  /\ UNCHANGED <<flow, previous, sending, starts, done, forgot>>

\* /reset and /model.
Forget ==
  /\ Called
  /\ previous' = None /\ pendingToolApproval' = None
  /\ forgot' = TRUE
  /\ UNCHANGED <<flow, held, sending, starts, done>>

(* Answers *)

\* The loop's `for` test.
TurnsLeft(s) == s.turn <= MaxTurns

\* The model answers within the cost budget.
ModelAnswers(f, calls) ==
  /\ flow[f] # None /\ flow[f].at = "model"
  /\ TurnsLeft(flow[f])
  /\ Process(f, flow[f], calls, 1, {})
  /\ UNCHANGED <<done, overlapped, forgot>>

\* Mutant: a loop that has used up its turns does not throw.
ModelFailsInTurn(f) ==
  /\ flow[f] # None /\ flow[f].at = "model"
  /\ TurnsLeft(flow[f])
  /\ End(f)
  /\ UNCHANGED <<conversation, held, sending, starts, done, overlapped, forgot>>

\* The request fails or times out, its answer overruns the cost budget, or the turns
\* are used up and the answer is not looked at.
ModelFails(f) ==
  /\ flow[f] # None /\ flow[f].at = "model"
  /\ End(f)
  /\ UNCHANGED <<conversation, held, sending, starts, done, overlapped, forgot>>

Finished(c, ok) == done' = IF ok THEN done \cup {c} ELSE done

\* The tool of a call returned or threw.
ToolReturns(f, ok) ==
  /\ flow[f] # None /\ flow[f].at = "tool"
  /\ LET c == <<flow[f].resp, flow[f].call>>
     IN  /\ Finished(c, ok)
         /\ Process(f, flow[f], flow[f].calls, flow[f].call + 1, flow[f].outputs \cup {<<c, ok>>})
  /\ UNCHANGED <<overlapped, forgot>>

\* The tool of an approved call returned or threw: nothing is pending, and the model
\* is sent the result.
ApprovedToolReturns(f, ok) ==
  /\ flow[f] # None /\ flow[f].at = "approved"
  /\ LET c == flow[f].by
     IN  /\ Finished(c, ok)
         /\ pendingToolApproval' = None
         /\ Send(f, flow[f], {<<c, ok>>})
  /\ UNCHANGED <<previous, held, starts, overlapped, forgot>>

Next ==
  \/ \E f \in Flows : Ask(f)
  \/ \E f \in Flows, c \in CallIds : Approve(f, c)
  \/ \E c \in CallIds : Reject(c)
  \/ Forget
  \/ \E f \in Flows, calls \in Contents : ModelAnswers(f, calls)
  \/ \E f \in Flows : ModelFails(f)
  \/ \E f \in Flows, ok \in BOOLEAN : ToolReturns(f, ok)
  \/ \E f \in Flows, ok \in BOOLEAN : ApprovedToolReturns(f, ok)

\* A request is answered or times out; a tool returns or throws.  Nothing obliges the
\* user to do anything.
Fairness ==
  \A f \in Flows :
    /\ WF_vars(ModelFails(f) \/ \E calls \in Contents : ModelAnswers(f, calls))
    /\ WF_vars(\E ok \in BOOLEAN : ToolReturns(f, ok))
    /\ WF_vars(\E ok \in BOOLEAN : ApprovedToolReturns(f, ok))

Spec == Init /\ [][Next]_vars
FairSpec == Spec /\ Fairness

-----------------------------------------------------------------------------
(* Properties *)

\* The type of every variable.
TypeOK ==
  /\ flow \in [Flows -> FlowStates \cup {None}]
  /\ previous \in Responses \cup {None}
  /\ pendingToolApproval \in CallIds \cup {None}
  /\ held \subseteq CallIds
  /\ requests \in 0..MaxRequests
  /\ starts \in [CallIds -> Nat]
  /\ done \subseteq CallIds /\ told \subseteq Answers
  /\ overlapped \in BOOLEAN /\ forgot \in BOOLEAN

\* However asks and approvals overlap, are repeated or meet a reset, the tool of a
\* call is started at most once.
OneRunPerCall == \A c \in CallIds : starts[c] <= 1

Approving(f, c) == flow[f] # None /\ flow[f].at = "approved" /\ flow[f].by = c

\* The user is never asked about a call the executor no longer knows: what the session
\* is pending on is held, or an approve of it is running its tool.
PendingIsHeld ==
  pendingToolApproval # None =>
    \/ pendingToolApproval \in held
    \/ \E f \in Flows : Approving(f, pendingToolApproval)

\* A call the executor has yet to be asked about: its response has not come, or the flow
\* that serves it has not got so far.
Unasked(c) ==
  \/ c[1] > requests
  \/ \E f \in Flows :
       /\ flow[f] # None /\ flow[f].resp = c[1]
       /\ flow[f].at = "model" \/ (flow[f].at = "tool" /\ flow[f].call < c[2])

\* The call whose tool flow f waits for.
CallOf(f) == IF flow[f].at = "tool" THEN <<flow[f].resp, flow[f].call>> ELSE flow[f].by

Executor ==
  INSTANCE ToolExecutor
    WITH Calls <- CallIds, seen <- {c \in CallIds : ~Unasked(c)},
         running <- {CallOf(f) : f \in {g \in Flows : flow[g] # None /\ flow[g].at # "model"}}

\* The session takes no more from the executor than it gives: it runs one tool at a time,
\* each for a new call or one that was held; what was refused, rejected or approved in vain
\* never runs, however asks, approvals and resets overlap.
KeepsContract == Executor!Spec

\* The model is told that a call succeeded only if its tool returned a result; and,
\* as long as calls of the session do not overlap, that it failed only if it did not.
AnswersAreTrue ==
  /\ \A c \in CallIds : <<c, TRUE>> \in told => c \in done
  /\ \A c \in CallIds : <<c, FALSE>> \in told /\ ~overlapped => c \notin done

\* As long as calls of the session do not overlap and the conversation is not reset,
\* a call that is held is the one the user can approve.
HeldIsPending == ~overlapped /\ ~forgot => held \subseteq {pendingToolApproval}

\* Session and executor agree on what a human can be asked about, though each remembers it
\* for itself.
PendingAgrees == PendingIsHeld /\ HeldIsPending

\* Every ask and every approve comes to an end: the turns, or the requests, run out.
FlowsEnd == \A f \in Flows : flow[f] # None ~> flow[f] = None

\* docs/OPENAI-INTEGRATION.md: "Return tool results to the model."  A response whose
\* calls are answered is answered with the results of all the tools that ran for it.
ResultsAreReturned ==
  \A c \in done : (\E answer \in told : answer[1][1] = c[1]) => <<c, TRUE>> \in told

=============================================================================
