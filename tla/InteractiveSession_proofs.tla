----------------------- MODULE InteractiveSession_proofs -----------------------
(***************************************************************************)
(* Safety of InteractiveSession for every number of overlapping calls,     *)
(* requests, turns and tool calls per response.                            *)
(*                                                                         *)
(* SessionInv is inductive.  It follows a call from the response that made *)
(* it to the output the model is sent: a response is served by one flow at *)
(* a time, its calls start in order, and once it is no longer served (Gone)*)
(* only a human's approval can start one of its calls, and only one that   *)
(* the executor still holds.  OneTool adds that one tool runs at a time,   *)
(* which the refinement ContractIsEnough of ToolExecutor needs.            *)
(***************************************************************************)
EXTENDS InteractiveSession, TLAPS

\* Flow f is in the loop over response flow[f].resp, or waits for it.
Serving(f) == flow[f] # None /\ flow[f].at \in {"model", "tool"}

\* No flow but f will start a call of response n any more; no flow at all will.
GoneButFor(f, n) == n <= requests /\ \A g \in Flows \ {f} : Serving(g) => flow[g].resp # n
Gone(n) == n <= requests /\ \A g \in Flows : Serving(g) => flow[g].resp # n

\* The calls that a set of outputs says succeeded, and failed.
Succeeded(answers) == {c \in CallIds : <<c, TRUE>> \in answers}
Failed(answers) == {c \in CallIds : <<c, FALSE>> \in answers}

\* The outputs are about earlier calls of response n than call i, and say the truth
\* about them.
Truthful(outputs, n, i, finished) ==
  /\ \A c \in Succeeded(outputs) : c[1] = n /\ c[2] < i /\ c \in finished
  /\ \A c \in Failed(outputs) : c[1] = n /\ c[2] < i /\ c \notin finished

ServedInv ==
  \A f \in Flows : Serving(f) =>
    /\ flow[f].resp <= requests
    /\ \A g \in Flows : Serving(g) /\ flow[g].resp = flow[f].resp => g = f
    /\ flow[f].at = "model" =>
         \A j \in 1..MaxCalls : starts[<<flow[f].resp, j>>] = 0
    /\ flow[f].at = "tool" =>
         /\ flow[f].turn <= MaxTurns
         /\ starts[<<flow[f].resp, flow[f].call>>] = 1
         /\ <<flow[f].resp, flow[f].call>> \notin done
         /\ \A j \in 1..MaxCalls : j > flow[f].call => starts[<<flow[f].resp, j>>] = 0
         /\ Truthful(flow[f].outputs, flow[f].resp, flow[f].call, done)

HeldInv ==
  \A c \in held : Gone(c[1]) /\ starts[c] = 0 /\ \A f \in Flows : ~Approving(f, c)

ApprovingInv ==
  \A f \in Flows, c \in CallIds : Approving(f, c) =>
    /\ Gone(c[1]) /\ starts[c] = 1 /\ c \notin done
    /\ \A g \in Flows : Approving(g, c) => g = f

ApprovedInv ==
  \A f \in Flows : flow[f] # None /\ flow[f].at = "approved" => flow[f].by \in CallIds

ToldInv ==
  /\ \A c \in Succeeded(told) : Gone(c[1]) /\ c \in done
  /\ \A c \in Failed(told) :
       /\ Gone(c[1])
       /\ ~overlapped => c \notin done /\ c \notin held /\ \A f \in Flows : ~Approving(f, c)

RunsInv ==
  /\ \A c \in CallIds : starts[c] \in {0, 1} /\ (c[1] > requests => starts[c] = 0)
  /\ \A c \in done : starts[c] = 1

SerialInv ==
  ~overlapped =>
    /\ \A f, g \in Flows : flow[f] # None /\ flow[g] # None => f = g
    /\ ~forgot =>
         /\ held \subseteq {pendingToolApproval}
         /\ (\E f \in Flows : flow[f] # None) => held = {}

SessionInv ==
  /\ TypeOK /\ ServedInv /\ HeldInv /\ ApprovingInv /\ ApprovedInv
  /\ ToldInv /\ RunsInv /\ PendingIsHeld /\ SerialInv

-----------------------------------------------------------------------------
(* Calls and outputs *)

\* A call id is a pair of a response and a position, and never None.
LEMMA CallIdParts ==
  ASSUME NEW c \in CallIds
  PROVE  /\ c[1] \in Responses /\ c[2] \in 1..MaxCalls /\ c = <<c[1], c[2]>> /\ c # None
         /\ c[1] \in Nat /\ c[2] \in Nat
BY BoundAssumption, NoneAssumption DEF CallIds, Responses

\* A response's content is a sequence of fates; the empty one is a content.
LEMMA ContentParts ==
  /\ <<>> \in Contents
  /\ \A calls \in Contents : \A j \in DOMAIN calls : j \in 1..MaxCalls
<1>1. <<>> \in Contents
  <2>1. <<>> \in [1..0 -> Fates]
    OBVIOUS
  <2>2. 0 \in 0..MaxCalls
    BY BoundAssumption
  <2>3. QED
    BY <2>1, <2>2 DEF Contents
<1>2. ASSUME NEW calls \in Contents, NEW j \in DOMAIN calls
      PROVE  j \in 1..MaxCalls
  <2>1. PICK n \in 0..MaxCalls : calls \in [1..n -> Fates]
    BY DEF Contents
  <2>2. QED
    BY <2>1, BoundAssumption
<1>3. QED
  BY <1>1, <1>2

\* What the outputs of two sets say is what each says.
LEMMA UnionSays ==
  ASSUME NEW A, NEW B
  PROVE  /\ Succeeded(A \cup B) = Succeeded(A) \cup Succeeded(B)
         /\ Failed(A \cup B) = Failed(A) \cup Failed(B)
BY DEF Succeeded, Failed

\* The outputs of refused calls say that those calls failed, and nothing else.
LEMMA RefusalsSay ==
  ASSUME NEW s \in FlowStates, NEW js \in SUBSET (1..MaxCalls)
  PROVE  /\ Refusals(s, js) \subseteq Answers
         /\ Succeeded(Refusals(s, js)) = {}
         /\ \A c \in Failed(Refusals(s, js)) : c[1] = s.resp /\ c[2] \in js
<1>1. s.resp \in Responses
  BY DEF FlowStates
<1>2. Refusals(s, js) \subseteq Answers
  <2>1. SUFFICES ASSUME NEW j \in js
                 PROVE  <<<<s.resp, j>>, FALSE>> \in Answers
    BY DEF Refusals
  <2>2. <<s.resp, j>> \in CallIds
    BY <1>1 DEF CallIds
  <2>3. FALSE \in BOOLEAN
    OBVIOUS
  <2>4. QED
    BY <2>2, <2>3 DEF Answers
<1>3. Succeeded(Refusals(s, js)) = {}
  <2>1. SUFFICES ASSUME NEW c \in CallIds, <<c, TRUE>> \in Refusals(s, js)
                 PROVE  FALSE
    BY DEF Succeeded
  <2>2. PICK j \in js : <<c, TRUE>> = <<<<s.resp, j>>, FALSE>>
    BY <2>1 DEF Refusals
  <2>3. QED
    BY <2>2
<1>4. ASSUME NEW c \in Failed(Refusals(s, js))
      PROVE  c[1] = s.resp /\ c[2] \in js
  <2>1. PICK j \in js : <<c, FALSE>> = <<<<s.resp, j>>, FALSE>>
    BY <1>4 DEF Refusals, Failed
  <2>2. c = <<s.resp, j>>
    BY <2>1
  <2>3. QED
    BY <2>2
<1>5. QED
  BY <1>2, <1>3, <1>4

\* The output of one finished call says whether it succeeded.
LEMMA OneSays ==
  ASSUME NEW c \in CallIds
  PROVE  /\ {<<c, TRUE>>} \subseteq Answers /\ {<<c, FALSE>>} \subseteq Answers
         /\ Succeeded({<<c, TRUE>>}) = {c} /\ Failed({<<c, TRUE>>}) = {}
         /\ Succeeded({<<c, FALSE>>}) = {} /\ Failed({<<c, FALSE>>}) = {c}
<1>1. {<<c, TRUE>>} \subseteq Answers /\ {<<c, FALSE>>} \subseteq Answers
  <2>1. TRUE \in BOOLEAN /\ FALSE \in BOOLEAN
    OBVIOUS
  <2>2. <<c, TRUE>> \in Answers
    BY <2>1 DEF Answers
  <2>3. <<c, FALSE>> \in Answers
    BY <2>1 DEF Answers
  <2>4. QED
    BY <2>2, <2>3
<1>2. \A d : <<d, TRUE>> # <<c, FALSE>> /\ <<d, FALSE>> # <<c, TRUE>>
  OBVIOUS
<1>3. \A d, b : <<d, b>> = <<c, b>> <=> d = c
  OBVIOUS
<1>4. Succeeded({<<c, TRUE>>}) = {c} /\ Failed({<<c, FALSE>>}) = {c}
  BY <1>3 DEF Succeeded, Failed
<1>5. Failed({<<c, TRUE>>}) = {} /\ Succeeded({<<c, FALSE>>}) = {}
  BY <1>2 DEF Succeeded, Failed
<1>6. QED
  BY <1>1, <1>4, <1>5

-----------------------------------------------------------------------------
(* One flow moves *)

\* What may be added to `done` when flow f moves: calls that were started, that no other
\* flow can still run, and that the model has not been told have failed.
Finishing(f) ==
  /\ done \subseteq done' /\ done' \subseteq CallIds
  /\ \A c \in done' \ done :
       /\ starts[c] = 1
       /\ \A g \in Flows \ {f} : (Serving(g) => flow[g].resp # c[1]) /\ ~Approving(g, c)
       /\ c \in Failed(told) => overlapped

\* The outputs that flow f may send: of calls no other flow can still run, and true.
Sendable(f, outputs) ==
  /\ outputs \subseteq Answers
  /\ \A c \in Succeeded(outputs) : GoneButFor(f, c[1]) /\ c \in done'
  /\ \A c \in Failed(outputs) :
       /\ GoneButFor(f, c[1])
       /\ ~overlapped' => /\ c \notin done' /\ c \notin held'
                          /\ \A g \in Flows \ {f} : ~Approving(g, c)

\* A new request: the flow waits for a response none of whose calls was ever started.
LEMMA SendKeeps ==
  ASSUME SessionInv, NEW f \in Flows, NEW s \in FlowStates, NEW outputs,
         Finishing(f), Sendable(f, outputs), Send(f, s, outputs),
         held' \subseteq held, starts' = starts, forgot' = forgot,
         overlapped' \in BOOLEAN, overlapped => overlapped',
         previous' \in Responses \cup {None}, pendingToolApproval' \in CallIds \cup {None},
         ~overlapped' => (\A g \in Flows \ {f} : flow[g] = None) /\ (~forgot => held' = {}),
         pendingToolApproval' # None =>
           /\ pendingToolApproval' = pendingToolApproval /\ held' = held
           /\ ~Approving(f, pendingToolApproval)
  PROVE  SessionInv'
<1> USE BoundAssumption
<1> DEFINE next == [s EXCEPT !.at = "model", !.resp = requests + 1,
                             !.calls = <<>>, !.outputs = {}]
<1>1. \/ /\ requests < MaxRequests /\ requests' = requests + 1
         /\ flow' = [flow EXCEPT ![f] = next] /\ told' = told \cup outputs
      \/ flow' = [flow EXCEPT ![f] = None] /\ requests' = requests /\ told' = told
  BY DEF Send, RequestsLeft, End, sending
<1>2. requests \in Nat /\ flow \in [Flows -> FlowStates \cup {None}]
  BY DEF SessionInv, TypeOK
<1>3. requests < MaxRequests =>
        next \in FlowStates /\ next # None /\ next.at = "model" /\ next.resp = requests + 1
  <2>1. SUFFICES ASSUME requests < MaxRequests
                 PROVE  next \in FlowStates /\ next.at = "model" /\ next.resp = requests + 1
    BY NoneAssumption
  <2>2. requests + 1 \in Responses
    BY <2>1, <1>2 DEF Responses
  <2>3. QED
    BY <2>2, ContentParts DEF FlowStates
<1>4. /\ \A g \in Flows \ {f} : flow'[g] = flow[g]
      /\ \/ requests' = requests + 1 /\ requests < MaxRequests /\ flow'[f] = next
         \/ requests' = requests /\ flow'[f] = None
  BY <1>1, <1>2
<1>5. TypeOK'
  <2>1. flow' \in [Flows -> FlowStates \cup {None}]
    BY <1>1, <1>2, <1>3
  <2>2. requests' \in 0..MaxRequests
    BY <1>4 DEF SessionInv, TypeOK
  <2>3. told' \subseteq Answers /\ done' \subseteq CallIds
    BY <1>1 DEF Sendable, Finishing, SessionInv, TypeOK
  <2>4. QED
    BY <2>1, <2>2, <2>3 DEF SessionInv, TypeOK
<1>6. /\ \A g \in Flows : Serving(g)' => \/ g # f /\ Serving(g) /\ flow'[g] = flow[g]
                                         \/ /\ g = f /\ flow'[f].at = "model"
                                            /\ flow'[f].resp = requests + 1
                                            /\ requests' = requests + 1
      /\ \A g \in Flows : \A c : Approving(g, c)' <=> g # f /\ Approving(g, c)
  BY <1>3, <1>4, NoneAssumption DEF Serving, Approving
<1>7. \A n \in Nat : GoneButFor(f, n) => Gone(n)'
  BY <1>2, <1>4, <1>6 DEF GoneButFor, Gone
<1>8. ServedInv'
  <2>1. SUFFICES ASSUME NEW g \in Flows, Serving(g)'
                 PROVE  /\ flow'[g].resp <= requests'
                        /\ \A h \in Flows : Serving(h)' /\ flow'[h].resp = flow'[g].resp => h = g
                        /\ flow'[g].at = "model" =>
                             \A j \in 1..MaxCalls : starts[<<flow'[g].resp, j>>] = 0
                        /\ flow'[g].at = "tool" =>
                             /\ flow'[g].turn <= MaxTurns
                             /\ starts[<<flow'[g].resp, flow'[g].call>>] = 1
                             /\ <<flow'[g].resp, flow'[g].call>> \notin done'
                             /\ \A j \in 1..MaxCalls :
                                  j > flow'[g].call => starts[<<flow'[g].resp, j>>] = 0
                             /\ Truthful(flow'[g].outputs, flow'[g].resp, flow'[g].call, done')
    BY DEF ServedInv, Truthful
  <2>2. \A h \in Flows : Serving(h) => flow[h].resp <= requests /\ flow[h].resp \in Nat
    <3>1. TAKE h \in Flows
    <3>2. HAVE Serving(h)
    <3>3. flow[h] \in FlowStates
      BY <1>2, <3>2 DEF Serving
    <3>4. flow[h].resp \in Nat
      BY <3>3 DEF FlowStates, Responses
    <3>5. QED
      BY <3>2, <3>4 DEF SessionInv, ServedInv
  <2>3. CASE g = f
    <3>1. \A j \in 1..MaxCalls :
            <<requests + 1, j>> \in CallIds /\ starts[<<requests + 1, j>>] = 0
      <4>1. TAKE j \in 1..MaxCalls
      <4>2. requests + 1 \in Responses
        BY <2>1, <2>3, <1>2, <1>4, <1>6 DEF Responses
      <4>3. <<requests + 1, j>> \in CallIds
        BY <4>2 DEF CallIds
      <4>4. QED
        BY <4>3, <1>2 DEF SessionInv, RunsInv
    <3>2. QED
      BY <2>1, <2>2, <2>3, <3>1, <1>2, <1>4, <1>6
  <2>4. CASE g # f
    <3>1. Serving(g) /\ flow'[g] = flow[g] /\ flow[g] \in FlowStates
      BY <2>1, <2>4, <1>2, <1>6 DEF Serving
    <3>2. \A c \in done' \ done : c[1] # flow[g].resp
      BY <3>1, <2>4 DEF Finishing
    <3>3. flow[g].at = "tool" => /\ <<flow[g].resp, flow[g].call>> \notin done'
                                 /\ Truthful(flow[g].outputs, flow[g].resp, flow[g].call, done')
      BY <3>1, <3>2 DEF SessionInv, ServedInv, Truthful, Finishing
    <3>4. QED
      BY <2>2, <2>4, <3>1, <3>3, <1>2, <1>4, <1>6 DEF SessionInv, ServedInv
  <2>5. QED
    BY <2>3, <2>4
<1>9. \A n \in Nat : Gone(n) => Gone(n)'
  BY <1>7 DEF Gone, GoneButFor
<1>10. HeldInv' /\ ApprovingInv'
  <2>1. HeldInv'
    BY <1>5, <1>6, <1>9, CallIdParts DEF SessionInv, HeldInv, TypeOK
  <2>2. ApprovingInv'
    BY <1>6, <1>9, CallIdParts DEF SessionInv, ApprovingInv, Finishing
  <2>3. QED
    BY <2>1, <2>2
<1>11. ApprovedInv'
  BY <1>3, <1>4, NoneAssumption DEF SessionInv, ApprovedInv
<1>12. ToldInv'
  <2>1. \/ Succeeded(told)' = Succeeded(told) /\ Failed(told)' = Failed(told)
        \/ /\ Succeeded(told)' = Succeeded(told) \cup Succeeded(outputs)
           /\ Failed(told)' = Failed(told) \cup Failed(outputs)
    <3>1. CASE told' = told
      BY <3>1 DEF Succeeded, Failed
    <3>2. CASE told' = told \cup outputs
      BY <3>2 DEF Succeeded, Failed
    <3>3. QED
      BY <1>1, <3>1, <3>2
  <2>2. \A c \in Succeeded(told)' : Gone(c[1])' /\ c \in done'
    <3>1. TAKE c \in Succeeded(told)'
    <3>2. c \in CallIds /\ c[1] \in Nat
      BY CallIdParts DEF Succeeded
    <3>3. QED
      BY <2>1, <3>1, <3>2, <1>7, <1>9 DEF SessionInv, ToldInv, Sendable, Finishing
  <2>3. \A c \in Failed(told)' :
          /\ Gone(c[1])'
          /\ ~overlapped' => c \notin done' /\ c \notin held' /\ \A g \in Flows : ~Approving(g, c)'
    <3>1. TAKE c \in Failed(told)'
    <3>2. c \in CallIds /\ c[1] \in Nat
      BY CallIdParts DEF Failed
    <3>3. CASE c \in Failed(told)
      BY <3>2, <3>3, <1>6, <1>9 DEF SessionInv, ToldInv, Finishing
    <3>4. CASE c \in Failed(outputs)
      BY <3>2, <3>4, <1>6, <1>7 DEF Sendable
    <3>5. QED
      BY <2>1, <3>1, <3>3, <3>4
  <2>4. QED
    BY <2>2, <2>3 DEF ToldInv
<1>13. RunsInv'
  BY <1>2, <1>4, CallIdParts DEF SessionInv, RunsInv, Finishing
<1>14. PendingIsHeld'
  BY <1>6 DEF SessionInv, PendingIsHeld
<1>15. SerialInv'
  BY <1>4 DEF SerialInv
<1>16. QED
  BY <1>5, <1>8, <1>10, <1>11, <1>12, <1>13, <1>14, <1>15 DEF SessionInv

\* A flow in the loop ends, leaving at most the call it has come to with the executor
\* and with the user.
LEMMA EndKeeps ==
  ASSUME SessionInv, NEW f \in Flows, Serving(f), Finishing(f), End(f),
         NEW added \in SUBSET CallIds, held' = held \cup added,
         \A c \in added : c[1] = flow[f].resp /\ starts[c] = 0,
         UNCHANGED <<starts, sending, overlapped, forgot>>,
         previous' \in Responses \cup {None}, pendingToolApproval' \in CallIds \cup {None},
         pendingToolApproval' \in {None, pendingToolApproval} \cup added,
         added \subseteq {pendingToolApproval'}
  PROVE  SessionInv'
<1>1. flow' = [flow EXCEPT ![f] = None] /\ requests' = requests /\ told' = told
      /\ starts' = starts /\ overlapped' = overlapped /\ forgot' = forgot
  BY DEF End, sending
<1>2. requests \in Nat /\ flow \in [Flows -> FlowStates \cup {None}]
  BY DEF SessionInv, TypeOK
<1>3. flow'[f] = None /\ \A g \in Flows \ {f} : flow'[g] = flow[g]
  BY <1>1, <1>2
<1>4. /\ \A g \in Flows : Serving(g)' => g # f /\ Serving(g) /\ flow'[g] = flow[g]
      /\ \A g \in Flows : \A c : Approving(g, c)' <=> Approving(g, c)
  BY <1>3 DEF Serving, Approving
<1>5. \A n \in Nat : Gone(n) => Gone(n)'
  BY <1>1, <1>4 DEF Gone
<1>6. TypeOK'
  <2>1. flow' \in [Flows -> FlowStates \cup {None}]
    BY <1>1, <1>2
  <2>2. QED
    BY <1>1, <2>1 DEF SessionInv, TypeOK, Finishing
<1>7. ServedInv'
  <2>1. SUFFICES ASSUME NEW g \in Flows, Serving(g)'
                 PROVE  /\ flow[g].resp <= requests
                        /\ \A h \in Flows : Serving(h)' /\ flow'[h].resp = flow[g].resp => h = g
                        /\ flow[g].at = "model" =>
                             \A j \in 1..MaxCalls : starts[<<flow[g].resp, j>>] = 0
                        /\ flow[g].at = "tool" =>
                             /\ flow[g].turn <= MaxTurns
                             /\ starts[<<flow[g].resp, flow[g].call>>] = 1
                             /\ <<flow[g].resp, flow[g].call>> \notin done'
                             /\ \A j \in 1..MaxCalls :
                                  j > flow[g].call => starts[<<flow[g].resp, j>>] = 0
                             /\ Truthful(flow[g].outputs, flow[g].resp, flow[g].call, done')
    BY <1>1, <1>4 DEF ServedInv, Truthful
  <2>2. Serving(g) /\ g # f
    BY <2>1, <1>4
  <2>3. \A c \in done' \ done : c[1] # flow[g].resp
    BY <2>2 DEF Finishing
  <2>4. flow[g].at = "tool" => /\ <<flow[g].resp, flow[g].call>> \notin done'
                               /\ Truthful(flow[g].outputs, flow[g].resp, flow[g].call, done')
    BY <2>2, <2>3 DEF SessionInv, ServedInv, Truthful, Finishing
  <2>5. QED
    BY <2>2, <2>4, <1>4 DEF SessionInv, ServedInv
<1>8. ASSUME NEW c \in CallIds, c[1] = flow[f].resp
      PROVE  Gone(c[1])' /\ ~Gone(c[1]) /\ \A g \in Flows : ~Approving(g, c)
  <2>1. \A g \in Flows : Serving(g)' => flow'[g].resp # c[1]
    BY <1>4, <1>8 DEF SessionInv, ServedInv
  <2>2. Gone(c[1])' /\ ~Gone(c[1])
    BY <1>1, <1>8, <2>1 DEF SessionInv, ServedInv, Gone
  <2>3. QED
    BY <2>2 DEF SessionInv, ApprovingInv
<1>9. HeldInv'
  <2>1. SUFFICES ASSUME NEW c \in held'
                 PROVE  Gone(c[1])' /\ starts[c] = 0 /\ \A g \in Flows : ~Approving(g, c)
    BY <1>1, <1>4 DEF HeldInv
  <2>2. c \in CallIds
    BY DEF SessionInv, TypeOK
  <2>3. QED
    BY <2>2, <1>5, <1>8, CallIdParts DEF SessionInv, HeldInv
<1>10. ApprovingInv'
  BY <1>1, <1>4, <1>5, CallIdParts DEF SessionInv, ApprovingInv, Finishing, Serving, Approving
<1>11. ApprovedInv'
  BY <1>3 DEF SessionInv, ApprovedInv
<1>12. ToldInv'
  <2>1. Succeeded(told)' = Succeeded(told) /\ Failed(told)' = Failed(told)
    BY <1>1 DEF Succeeded, Failed
  <2>2. \A c \in Succeeded(told) \cup Failed(told) : c \in CallIds /\ c[1] \in Nat /\ Gone(c[1])
    BY CallIdParts DEF SessionInv, ToldInv, Succeeded, Failed
  <2>3. \A c \in Succeeded(told) : Gone(c[1])' /\ c \in done'
    BY <2>2, <1>5 DEF SessionInv, ToldInv, Finishing
  <2>4. \A c \in Failed(told) :
          /\ Gone(c[1])'
          /\ ~overlapped => c \notin done' /\ c \notin held' /\ \A g \in Flows : ~Approving(g, c)
    BY <2>2, <1>5, <1>8 DEF SessionInv, ToldInv, Finishing
  <2>5. QED
    BY <2>1, <2>3, <2>4, <1>1, <1>4 DEF ToldInv
<1>13. RunsInv'
  BY <1>1 DEF SessionInv, RunsInv, Finishing
<1>14. PendingIsHeld'
  BY <1>4 DEF SessionInv, PendingIsHeld
<1>15. SerialInv'
  <2>1. ~overlapped /\ ~forgot => held = {}
    BY DEF SessionInv, SerialInv, Serving
  <2>2. ~overlapped => \A g \in Flows : flow'[g] = None
    BY <1>3 DEF SessionInv, SerialInv, Serving
  <2>3. QED
    BY <1>1, <2>1, <2>2 DEF SerialInv
<1>16. QED
  BY <1>6, <1>7, <1>9, <1>10, <1>11, <1>12, <1>13, <1>14, <1>15 DEF SessionInv

\* A flow in the loop starts the tool of the call it has come to.
LEMMA StartKeeps ==
  ASSUME SessionInv, NEW f \in Flows, Serving(f), Finishing(f),
         NEW calls \in Contents, NEW j \in 1..MaxCalls, NEW outputs \in SUBSET Answers,
         flow' = [flow EXCEPT ![f] = [flow[f] EXCEPT !.at = "tool", !.calls = calls, !.call = j,
                                                     !.outputs = outputs]],
         starts' = [starts EXCEPT ![<<flow[f].resp, j>>] = @ + 1],
         \A k \in 1..MaxCalls : k >= j => starts[<<flow[f].resp, k>>] = 0,
         Truthful(outputs, flow[f].resp, j, done'), flow[f].turn <= MaxTurns,
         UNCHANGED <<conversation, held, sending, overlapped, forgot>>
  PROVE  SessionInv'
<1> USE BoundAssumption
<1> DEFINE c == <<flow[f].resp, j>>
           next == [flow[f] EXCEPT !.at = "tool", !.calls = calls, !.call = j,
                                   !.outputs = outputs]
<1>1. /\ requests' = requests /\ told' = told /\ held' = held /\ overlapped' = overlapped
      /\ forgot' = forgot /\ previous' = previous /\ pendingToolApproval' = pendingToolApproval
  BY DEF sending, conversation
<1>2. /\ requests \in Nat /\ flow \in [Flows -> FlowStates \cup {None}]
      /\ flow[f] \in FlowStates /\ starts \in [CallIds -> Nat] /\ None \notin FlowStates
  BY NoneAssumption DEF SessionInv, TypeOK, Serving
<1>3. c \in CallIds /\ c[1] = flow[f].resp /\ starts[c] = 0
  BY <1>2 DEF FlowStates, CallIds
<1>4. /\ next \in FlowStates /\ next # None /\ next.at = "tool" /\ next.resp = flow[f].resp
      /\ next.call = j /\ next.outputs = outputs /\ next.turn = flow[f].turn
  BY <1>2 DEF FlowStates
<1>5. flow'[f] = next /\ \A g \in Flows \ {f} : flow'[g] = flow[g]
  BY <1>2
<1> HIDE DEF next
<1>6. /\ starts' \in [CallIds -> Nat]
      /\ starts'[c] = 1 /\ \A d \in CallIds : d # c => starts'[d] = starts[d]
  BY <1>2, <1>3
<1>7. /\ \A g \in Flows : Serving(g)' <=> Serving(g)
      /\ \A g \in Flows : Serving(g) => flow'[g].resp = flow[g].resp
      /\ \A g \in Flows : \A d : Approving(g, d)' <=> Approving(g, d)
  <2>1. flow[f].at # "approved" /\ flow[f] # None
    BY DEF Serving
  <2>2. QED
    BY <2>1, <1>4, <1>5 DEF Serving, Approving
<1>8. \A n : Gone(n)' <=> Gone(n)
  BY <1>1, <1>7 DEF Gone
<1>9. ~Gone(c[1])
  BY <1>3 DEF Gone
<1>10. TypeOK'
  <2>1. flow' \in [Flows -> FlowStates \cup {None}]
    BY <1>2, <1>4 DEF next
  <2>2. QED
    BY <1>1, <1>6, <2>1 DEF SessionInv, TypeOK, Finishing
<1>11. ServedInv'
  <2>1. SUFFICES ASSUME NEW g \in Flows, Serving(g)
                 PROVE  /\ flow'[g].resp <= requests
                        /\ \A h \in Flows : Serving(h) /\ flow'[h].resp = flow'[g].resp => h = g
                        /\ flow'[g].at = "model" =>
                             \A k \in 1..MaxCalls : starts'[<<flow'[g].resp, k>>] = 0
                        /\ flow'[g].at = "tool" =>
                             /\ flow'[g].turn <= MaxTurns
                             /\ starts'[<<flow'[g].resp, flow'[g].call>>] = 1
                             /\ <<flow'[g].resp, flow'[g].call>> \notin done'
                             /\ \A k \in 1..MaxCalls :
                                  k > flow'[g].call => starts'[<<flow'[g].resp, k>>] = 0
                             /\ Truthful(flow'[g].outputs, flow'[g].resp, flow'[g].call, done')
    BY <1>1, <1>7 DEF ServedInv, Truthful
  <2>2. /\ flow'[g].resp <= requests
        /\ \A h \in Flows : Serving(h) /\ flow'[h].resp = flow'[g].resp => h = g
    BY <2>1, <1>7 DEF SessionInv, ServedInv
  <2>3. CASE g = f
    <3>1. c \notin done'
      BY <1>3 DEF SessionInv, RunsInv, Finishing
    <3>2. \A k \in 1..MaxCalls : k > j => starts'[<<flow[f].resp, k>>] = 0
      <4>1. TAKE k \in 1..MaxCalls
      <4>2. HAVE k > j
      <4>3. <<flow[f].resp, k>> \in CallIds /\ <<flow[f].resp, k>> # c /\ k >= j
        BY <1>2, <4>2 DEF FlowStates, CallIds
      <4>4. QED
        BY <4>3, <1>6
    <3>3. QED
      BY <2>2, <2>3, <3>1, <3>2, <1>4, <1>5, <1>6
  <2>4. CASE g # f
    <3>1. flow'[g] = flow[g] /\ flow[g] \in FlowStates /\ flow[g].resp # flow[f].resp
      <4>1. flow'[g] = flow[g] /\ flow[g] \in FlowStates
        BY <2>1, <2>4, <1>2, <1>5 DEF Serving
      <4>2. flow[g].resp # flow[f].resp
        BY <2>1, <2>4 DEF SessionInv, ServedInv
      <4>3. QED
        BY <4>1, <4>2
    <3>2. \A d \in done' \ done : d[1] # flow[g].resp
      BY <2>1, <2>4 DEF Finishing
    <3>3. \A k \in 1..MaxCalls : starts'[<<flow[g].resp, k>>] = starts[<<flow[g].resp, k>>]
      <4>1. TAKE k \in 1..MaxCalls
      <4>2. <<flow[g].resp, k>> \in CallIds /\ <<flow[g].resp, k>> # c
        BY <3>1 DEF FlowStates, CallIds
      <4>3. QED
        BY <4>2, <1>6
    <3>4. flow[g].call \in 1..MaxCalls
      BY <3>1 DEF FlowStates
    <3>5. flow[g].at = "tool" => /\ <<flow[g].resp, flow[g].call>> \notin done'
                                 /\ Truthful(flow[g].outputs, flow[g].resp, flow[g].call, done')
      BY <2>1, <3>2 DEF SessionInv, ServedInv, Truthful, Finishing
    <3>6. QED
      BY <2>1, <2>2, <3>1, <3>3, <3>4, <3>5 DEF SessionInv, ServedInv
  <2>5. QED
    BY <2>3, <2>4
<1>12. HeldInv'
  BY <1>1, <1>6, <1>7, <1>8, <1>9 DEF SessionInv, HeldInv, TypeOK
<1>13. ApprovingInv'
  <2>1. SUFFICES ASSUME NEW g \in Flows, NEW d \in CallIds, Approving(g, d)
                 PROVE  /\ Gone(d[1]) /\ starts'[d] = 1 /\ d \notin done'
                        /\ \A h \in Flows : Approving(h, d) => h = g
    BY <1>7, <1>8 DEF ApprovingInv
  <2>2. g # f
    BY <2>1 DEF Serving, Approving
  <2>3. QED
    BY <2>1, <2>2, <1>6, <1>9 DEF SessionInv, ApprovingInv, Finishing
<1>14. ApprovedInv'
  BY <1>4, <1>5 DEF SessionInv, ApprovedInv
<1>15. ToldInv'
  <2>1. Succeeded(told)' = Succeeded(told) /\ Failed(told)' = Failed(told)
    BY <1>1 DEF Succeeded, Failed
  <2>2. \A d \in Succeeded(told) : Gone(d[1]) /\ d \in done'
    BY DEF SessionInv, ToldInv, Finishing
  <2>3. \A d \in Failed(told) :
          /\ Gone(d[1])
          /\ ~overlapped => d \notin done' /\ d \notin held /\ \A g \in Flows : ~Approving(g, d)
    BY DEF SessionInv, ToldInv, Finishing
  <2>4. QED
    BY <2>1, <2>2, <2>3, <1>1, <1>7, <1>8 DEF ToldInv
<1>16. RunsInv'
  <2>1. \A d \in CallIds : starts'[d] \in {0, 1} /\ (d[1] > requests => starts'[d] = 0)
    <3>1. flow[f].resp <= requests /\ flow[f].resp \in Nat
      <4>1. flow[f].resp <= requests
        BY DEF SessionInv, ServedInv
      <4>2. QED
        BY <4>1, <1>2 DEF FlowStates, Responses
    <3>2. QED
      BY <3>1, <1>2, <1>3, <1>6 DEF SessionInv, RunsInv
  <2>2. \A d \in done' : starts'[d] = 1
    BY <1>3, <1>6 DEF SessionInv, RunsInv, Finishing
  <2>3. QED
    BY <2>1, <2>2, <1>1 DEF RunsInv
<1>17. PendingIsHeld'
  BY <1>1, <1>7 DEF SessionInv, PendingIsHeld
<1>18. SerialInv'
  <2>1. \A g \in Flows : flow'[g] # None => flow[g] # None
    BY <1>5 DEF Serving
  <2>2. QED
    BY <2>1, <1>1 DEF SessionInv, SerialInv
<1>19. QED
  BY <1>10, <1>11, <1>12, <1>13, <1>14, <1>15, <1>16, <1>17, <1>18 DEF SessionInv

\* The loop takes up a response, or goes on with it: its later calls were never started,
\* and the outputs so far are true.
Handling(f, i, outputs) ==
  /\ Serving(f) /\ Finishing(f) /\ outputs \subseteq Answers
  /\ flow[f].turn <= MaxTurns
  /\ \A k \in 1..MaxCalls : k >= i => starts[<<flow[f].resp, k>>] = 0
  /\ Truthful(outputs, flow[f].resp, i, done')

\* The outputs of calls refused on the way are true as well.
LEMMA SkippingIsTruthful ==
  ASSUME SessionInv, NEW f \in Flows, NEW i \in 1..(MaxCalls + 1), NEW outputs,
         Handling(f, i, outputs), NEW j \in i..(MaxCalls + 1),
         NEW js \in SUBSET (1..MaxCalls), \A k \in js : i <= k /\ k < j
  PROVE  /\ outputs \cup Refusals(flow[f], js) \subseteq Answers
         /\ Truthful(outputs \cup Refusals(flow[f], js), flow[f].resp, j, done')
<1> USE BoundAssumption
<1> DEFINE both == outputs \cup Refusals(flow[f], js)
<1>1. flow[f] \in FlowStates
  BY DEF SessionInv, TypeOK, Handling, Serving
<1>2. both \subseteq Answers
  BY <1>1, RefusalsSay DEF Handling
<1>3. ASSUME NEW c \in Succeeded(both)
      PROVE  c[1] = flow[f].resp /\ c[2] < j /\ c \in done'
  <2>1. c \in Succeeded(outputs) /\ c \in CallIds
    BY <1>1, <1>3, UnionSays, RefusalsSay DEF Succeeded
  <2>2. QED
    BY <2>1, CallIdParts DEF Handling, Truthful
<1>4. ASSUME NEW c \in Failed(both)
      PROVE  c[1] = flow[f].resp /\ c[2] < j /\ c \notin done'
  <2>1. c \in CallIds /\ (c \in Failed(outputs) \/ c \in Failed(Refusals(flow[f], js)))
    BY <1>4, UnionSays DEF Failed
  <2>2. CASE c \in Failed(outputs)
    BY <2>1, <2>2, CallIdParts DEF Handling, Truthful
  <2>3. CASE c \in Failed(Refusals(flow[f], js))
    <3>1. c[1] = flow[f].resp /\ c[2] \in js
      BY <1>1, <2>3, RefusalsSay
    <3>2. c = <<flow[f].resp, c[2]>> /\ c[2] >= i /\ c[2] < j
      BY <2>1, <3>1, CallIdParts
    <3>3. starts[c] = 0
      BY <3>1, <3>2 DEF Handling
    <3>4. QED
      BY <3>1, <3>2, <3>3 DEF SessionInv, RunsInv, Handling, Finishing
  <2>4. QED
    BY <2>1, <2>2, <2>3
<1>5. QED
  BY <1>2, <1>3, <1>4 DEF Truthful

\* Whatever the loop does with the calls that are left, the invariant is kept.
LEMMA ProcessKeeps ==
  ASSUME SessionInv, NEW f \in Flows, NEW calls \in Contents, NEW i \in 1..(MaxCalls + 1),
         NEW outputs, Handling(f, i, outputs), Process(f, flow[f], calls, i, outputs),
         UNCHANGED <<overlapped, forgot>>
  PROVE  SessionInv'
<1> USE BoundAssumption
<1> DEFINE resp == flow[f].resp
           left == Left(calls, i)
           admitted == IF LockFree(f) THEN {j \in left : calls[j] # "refused"} ELSE {}
           skipped(j) == outputs \cup Refusals(flow[f], {k \in left : k < j})
<1>1. /\ Serving(f) /\ Finishing(f) /\ flow[f] # None
      /\ \A k \in 1..MaxCalls : k >= i => starts[<<resp, k>>] = 0
      /\ flow[f].turn <= MaxTurns
  BY DEF Handling, Serving
<1>2. flow[f] \in FlowStates
  BY <1>1 DEF SessionInv, TypeOK
<1>3. left \subseteq {k \in 1..MaxCalls : k >= i}
  BY ContentParts DEF Left
<1>4. \A k \in 1..MaxCalls : <<resp, k>> \in CallIds /\ <<resp, k>>[1] = resp
  BY <1>2 DEF FlowStates, CallIds
<1>5. resp \in Responses /\ previous \in Responses \cup {None}
      /\ pendingToolApproval \in CallIds \cup {None}
  BY <1>2 DEF FlowStates, SessionInv, TypeOK
<1>6. ASSUME NEW approval \in CallIds \cup {None}, Conclude(f, flow[f], approval)
      PROVE  /\ End(f) /\ previous' \in Responses \cup {None}
             /\ pendingToolApproval' \in {approval, pendingToolApproval}
             /\ approval # None => pendingToolApproval' = approval
             /\ pendingToolApproval' \in CallIds \cup {None}
  BY <1>5, <1>6 DEF Conclude
<1>7. CASE Conclude(f, flow[f], None) /\ UNCHANGED <<held, starts, sending>>
  <2>1. held' = held \cup {} /\ \A c \in {} : c[1] = resp /\ starts[c] = 0
    BY <1>7
  <2>2. /\ End(f) /\ previous' \in Responses \cup {None}
        /\ pendingToolApproval' \in {None, pendingToolApproval}
        /\ pendingToolApproval' \in CallIds \cup {None}
    BY <1>6, <1>7
  <2>3. /\ {} \in SUBSET CallIds /\ {} \subseteq {pendingToolApproval'}
        /\ pendingToolApproval' \in {None, pendingToolApproval} \cup {}
    BY <2>2
  <2>4. UNCHANGED <<starts, sending, overlapped, forgot>>
    BY <1>7
  <2>5. QED
    BY <1>1, <2>1, <2>2, <2>3, <2>4, EndKeeps
<1>8. CASE /\ Send(f, [flow[f] EXCEPT !.turn = @ + 1], outputs \cup Refusals(flow[f], left))
           /\ UNCHANGED <<conversation, held, starts>>
  <2>1. [flow[f] EXCEPT !.turn = @ + 1] \in FlowStates
    BY <1>1, <1>2 DEF FlowStates
  <2>2. /\ outputs \cup Refusals(flow[f], left) \subseteq Answers
        /\ Truthful(outputs \cup Refusals(flow[f], left), resp, MaxCalls + 1, done')
    <3>1. \A k \in left : i <= k /\ k < MaxCalls + 1
      BY <1>3
    <3>2. left \in SUBSET (1..MaxCalls) /\ MaxCalls + 1 \in i..(MaxCalls + 1)
      BY <1>3
    <3>3. QED
      BY <3>1, <3>2, SkippingIsTruthful
  <2>3. GoneButFor(f, resp)
    BY <1>1 DEF SessionInv, ServedInv, GoneButFor
  <2>4. \A c \in CallIds : c[1] = resp => c \notin held /\ \A g \in Flows : ~Approving(g, c)
    BY <1>1 DEF SessionInv, HeldInv, ApprovingInv, Gone
  <2>5. Sendable(f, outputs \cup Refusals(flow[f], left))
    <3>1. held' = held
      BY <1>8
    <3>2. \A c \in Succeeded(outputs \cup Refusals(flow[f], left)) :
            GoneButFor(f, c[1]) /\ c \in done'
      BY <2>2, <2>3 DEF Truthful
    <3>3. \A c \in Failed(outputs \cup Refusals(flow[f], left)) :
            /\ GoneButFor(f, c[1])
            /\ c \notin done' /\ c \notin held' /\ \A g \in Flows \ {f} : ~Approving(g, c)
      BY <2>2, <2>3, <2>4, <3>1 DEF Truthful, Failed
    <3>4. QED
      BY <2>2, <3>2, <3>3 DEF Sendable
  <2>6. ~overlapped => (\A g \in Flows \ {f} : flow[g] = None) /\ (~forgot => held = {})
    BY <1>1 DEF SessionInv, SerialInv
  <2>7. ~Approving(f, pendingToolApproval)
    BY <1>1 DEF Serving, Approving
  <2>8. /\ held' = held /\ starts' = starts /\ previous' = previous
        /\ pendingToolApproval' = pendingToolApproval
        /\ overlapped' = overlapped /\ forgot' = forgot /\ overlapped \in BOOLEAN
    BY <1>8 DEF conversation, SessionInv, TypeOK
  <2>9. QED
    BY <1>1, <1>5, <1>8, <2>1, <2>5, <2>6, <2>7, <2>8, SendKeeps
<1>9. ASSUME NEW j \in admitted, calls[j] = "run",
             flow' = [flow EXCEPT ![f] = [flow[f] EXCEPT !.at = "tool", !.calls = calls,
                                                         !.call = j, !.outputs = skipped(j)]],
             starts' = [starts EXCEPT ![<<resp, j>>] = @ + 1],
             UNCHANGED <<conversation, held, sending>>
      PROVE  SessionInv'
  <2>1. j \in 1..MaxCalls /\ j >= i
    BY <1>3
  <2>2. skipped(j) \subseteq Answers /\ Truthful(skipped(j), resp, j, done')
    <3>1. j \in i..(MaxCalls + 1) /\ {k \in left : k < j} \in SUBSET (1..MaxCalls)
          /\ \A k \in {k \in left : k < j} : i <= k /\ k < j
      BY <1>3, <2>1
    <3>2. QED
      BY <3>1, SkippingIsTruthful
  <2>3. \A k \in 1..MaxCalls : k >= j => starts[<<resp, k>>] = 0
    BY <1>1, <2>1
  <2>4. QED
    BY <1>1, <1>9, <2>1, <2>2, <2>3, StartKeeps
<1>10. ASSUME NEW j \in admitted, calls[j] = "held",
              held' = held \cup {<<resp, j>>}, Conclude(f, flow[f], <<resp, j>>),
              UNCHANGED <<starts, sending>>
       PROVE  SessionInv'
  <2>1. j \in 1..MaxCalls /\ j >= i
    BY <1>3
  <2>2. /\ {<<resp, j>>} \in SUBSET CallIds /\ <<resp, j>> # None
        /\ \A c \in {<<resp, j>>} : c[1] = resp /\ starts[c] = 0
    BY <1>1, <1>4, <2>1, CallIdParts
  <2>3. /\ End(f) /\ previous' \in Responses \cup {None}
        /\ pendingToolApproval' = <<resp, j>> /\ pendingToolApproval' \in CallIds \cup {None}
    BY <1>6, <1>10, <2>2
  <2>4. QED
    BY <1>1, <1>10, <2>2, <2>3, EndKeeps
<1>11. QED
  BY <1>7, <1>8, <1>9, <1>10 DEF Process

-----------------------------------------------------------------------------
(* The actions *)

\* The initial state: nothing was sent, started or held.
LEMMA SessionInit == Init => SessionInv
<1> SUFFICES ASSUME Init PROVE SessionInv
  OBVIOUS
<1> USE BoundAssumption
<1>1. TypeOK
  <2>1. flow \in [Flows -> FlowStates \cup {None}] /\ starts \in [CallIds -> Nat]
    BY DEF Init
  <2>2. requests \in 0..MaxRequests
    BY DEF Init
  <2>3. QED
    BY <2>1, <2>2 DEF Init, TypeOK
<1>2. \A f \in Flows : flow[f] = None
  BY DEF Init
<1>3. ServedInv /\ ApprovingInv /\ ApprovedInv
  BY <1>2 DEF ServedInv, ApprovingInv, ApprovedInv, Serving, Approving
<1>4. HeldInv /\ PendingIsHeld
  BY DEF Init, HeldInv, PendingIsHeld
<1>5. ToldInv
  BY DEF Init, ToldInv, Succeeded, Failed
<1>6. RunsInv
  BY DEF Init, RunsInv
<1>7. SerialInv
  BY <1>2 DEF Init, SerialInv
<1>8. QED
  BY <1>1, <1>3, <1>4, <1>5, <1>6, <1>7 DEF SessionInv

\* Nothing is finished by a step that leaves `done` alone.
LEMMA NothingFinishes ==
  ASSUME SessionInv, NEW f \in Flows, done' = done
  PROVE  Finishing(f)
BY DEF Finishing, SessionInv, TypeOK

\* Fresh flows are flows.
LEMMA FreshType ==
  ASSUME NEW by \in CallIds \cup {None}
  PROVE  Fresh(by) \in FlowStates /\ [Fresh(by) EXCEPT !.at = "approved"] \in FlowStates
<1>1. 1 \in Responses /\ 1 \in 1..(MaxTurns + 1) /\ 1 \in 1..MaxCalls
  BY BoundAssumption DEF Responses
<1>2. QED
  BY <1>1, ContentParts DEF Fresh, FlowStates

\* A call that is made while none is in progress: what the executor holds is then what
\* the user is asked about.
LEMMA CalledAlone ==
  ASSUME SessionInv, Called, ~overlapped'
  PROVE  /\ ~overlapped /\ \A g \in Flows : flow[g] = None
         /\ ~forgot => held \subseteq {pendingToolApproval}
BY DEF Called, SessionInv, TypeOK, SerialInv

\* What an entry point does to `overlapped`.
LEMMA CalledType ==
  ASSUME SessionInv, Called
  PROVE  overlapped' \in BOOLEAN /\ (overlapped => overlapped')
BY DEF Called, SessionInv, TypeOK

\* ask keeps the invariant: with nothing pending nothing is held, unless calls overlapped.
LEMMA AskKeeps ==
  ASSUME SessionInv, NEW f \in Flows, Ask(f)
  PROVE  SessionInv'
<1>1. Finishing(f)
  BY NothingFinishes DEF Ask
<1>2. Sendable(f, {})
  BY DEF Sendable, Succeeded, Failed
<1>3. Fresh(None) \in FlowStates
  BY FreshType
<1>4. /\ held' = held /\ starts' = starts /\ forgot' = forgot /\ previous' = previous
      /\ pendingToolApproval' = None /\ pendingToolApproval = None
  BY DEF Ask, conversation
<1>5. None \notin CallIds /\ held \subseteq CallIds /\ previous \in Responses \cup {None}
  BY NoneAssumption DEF SessionInv, TypeOK
<1>6. ~overlapped' => (\A g \in Flows \ {f} : flow[g] = None) /\ (~forgot => held' = {})
  BY <1>4, <1>5, CalledAlone DEF Ask
<1>7. overlapped' \in BOOLEAN /\ (overlapped => overlapped') /\ Send(f, Fresh(None), {})
  BY CalledType DEF Ask
<1>8. QED
  BY <1>1, <1>2, <1>3, <1>4, <1>5, <1>6, <1>7, SendKeeps

\* approve, when the executor takes the call and starts its tool.
LEMMA ApproveStartKeeps ==
  ASSUME SessionInv, NEW f \in Flows, NEW c \in CallIds,
         flow[f] = None, pendingToolApproval = c, Called,
         held' = held \ {c}, c \in held,
         flow' = [flow EXCEPT ![f] = [Fresh(c) EXCEPT !.at = "approved"]],
         starts' = [starts EXCEPT ![c] = @ + 1],
         UNCHANGED <<conversation, sending, done, forgot>>
  PROVE  SessionInv'
<1> USE BoundAssumption
<1> DEFINE next == [Fresh(c) EXCEPT !.at = "approved"]
<1>1. /\ requests' = requests /\ told' = told /\ done' = done /\ forgot' = forgot
      /\ previous' = previous /\ pendingToolApproval' = c
  BY DEF sending, conversation
<1>2. next \in FlowStates /\ next # None /\ next.at = "approved" /\ next.by = c
  BY FreshType, NoneAssumption DEF Fresh
<1> HIDE DEF next
<1>3. flow \in [Flows -> FlowStates \cup {None}] /\ starts \in [CallIds -> Nat]
  BY DEF SessionInv, TypeOK
<1>4. flow'[f] = next /\ \A g \in Flows \ {f} : flow'[g] = flow[g]
  BY <1>3 DEF next
<1>5. Gone(c[1]) /\ starts[c] = 0 /\ \A g \in Flows : ~Approving(g, c)
  BY DEF SessionInv, HeldInv
<1>6. /\ starts' \in [CallIds -> Nat] /\ starts'[c] = 1
      /\ \A d \in CallIds : d # c => starts'[d] = starts[d]
  BY <1>3, <1>5
<1>7. /\ \A g \in Flows : Serving(g)' <=> Serving(g)
      /\ \A g \in Flows : Serving(g) => flow'[g] = flow[g] /\ g # f
      /\ \A g \in Flows : \A d : Approving(g, d)' <=> Approving(g, d) \/ (g = f /\ d = c)
  BY <1>2, <1>4 DEF Serving, Approving
<1>8. \A n : Gone(n)' <=> Gone(n)
  BY <1>1, <1>7 DEF Gone
<1>9. c \notin done
  BY <1>5 DEF SessionInv, RunsInv
<1>10. TypeOK'
  <2>1. flow' \in [Flows -> FlowStates \cup {None}]
    BY <1>2, <1>3 DEF next
  <2>2. held' \subseteq CallIds /\ overlapped' \in BOOLEAN
    BY CalledType DEF SessionInv, TypeOK
  <2>3. QED
    BY <1>1, <1>6, <2>1, <2>2 DEF SessionInv, TypeOK
<1>11. ServedInv'
  <2>1. SUFFICES ASSUME NEW g \in Flows, Serving(g)
                 PROVE  /\ flow[g].resp <= requests
                        /\ \A h \in Flows : Serving(h) /\ flow'[h].resp = flow[g].resp => h = g
                        /\ flow[g].at = "model" =>
                             \A k \in 1..MaxCalls : starts'[<<flow[g].resp, k>>] = 0
                        /\ flow[g].at = "tool" =>
                             /\ flow[g].turn <= MaxTurns
                             /\ starts'[<<flow[g].resp, flow[g].call>>] = 1
                             /\ <<flow[g].resp, flow[g].call>> \notin done
                             /\ \A k \in 1..MaxCalls :
                                  k > flow[g].call => starts'[<<flow[g].resp, k>>] = 0
                             /\ Truthful(flow[g].outputs, flow[g].resp, flow[g].call, done)
    BY <1>1, <1>7 DEF ServedInv, Truthful
  <2>2. flow[g] \in FlowStates /\ flow[g].resp # c[1]
    BY <2>1, <1>3, <1>5 DEF Serving, Gone
  <2>3. \A k \in 1..MaxCalls : starts'[<<flow[g].resp, k>>] = starts[<<flow[g].resp, k>>]
    <3>1. TAKE k \in 1..MaxCalls
    <3>2. <<flow[g].resp, k>> \in CallIds /\ <<flow[g].resp, k>> # c
      BY <2>2 DEF FlowStates, CallIds
    <3>3. QED
      BY <3>2, <1>6
  <2>4. flow[g].call \in 1..MaxCalls
    BY <2>2 DEF FlowStates
  <2>5. QED
    BY <2>1, <2>3, <2>4, <1>7 DEF SessionInv, ServedInv
<1>12. HeldInv'
  BY <1>6, <1>7, <1>8 DEF SessionInv, HeldInv, TypeOK
<1>13. ApprovingInv'
  <2>1. SUFFICES ASSUME NEW g \in Flows, NEW d \in CallIds,
                        Approving(g, d) \/ (g = f /\ d = c)
                 PROVE  /\ Gone(d[1]) /\ starts'[d] = 1 /\ d \notin done
                        /\ \A h \in Flows : Approving(h, d) \/ (h = f /\ d = c) => h = g
    BY <1>1, <1>7, <1>8 DEF ApprovingInv
  <2>2. CASE d = c
    BY <2>1, <2>2, <1>5, <1>6, <1>9
  <2>3. CASE d # c
    BY <2>1, <2>3, <1>6 DEF SessionInv, ApprovingInv
  <2>4. QED
    BY <2>2, <2>3
<1>14. ApprovedInv'
  BY <1>2, <1>4 DEF SessionInv, ApprovedInv
<1>15. ToldInv'
  <2>1. Succeeded(told)' = Succeeded(told) /\ Failed(told)' = Failed(told)
    BY <1>1 DEF Succeeded, Failed
  <2>2. \A d \in Succeeded(told) : Gone(d[1]) /\ d \in done
    BY DEF SessionInv, ToldInv
  <2>3. \A d \in Failed(told) :
          /\ Gone(d[1])
          /\ ~overlapped' => /\ d \notin done /\ d \notin held /\ d # c
                             /\ \A g \in Flows : ~Approving(g, d)
    BY CalledType DEF SessionInv, ToldInv
  <2>4. QED
    BY <2>1, <2>2, <2>3, <1>1, <1>7, <1>8 DEF ToldInv
<1>16. RunsInv'
  <2>1. c[1] <= requests /\ c[1] \in Nat /\ requests \in Nat
    BY <1>5, CallIdParts DEF Gone, SessionInv, TypeOK
  <2>2. QED
    BY <2>1, <1>1, <1>5, <1>6, <1>9 DEF SessionInv, RunsInv, TypeOK
<1>17. PendingIsHeld'
  BY <1>1, <1>7 DEF PendingIsHeld
<1>18. SerialInv'
  <2>1. ~overlapped' => /\ \A g \in Flows \ {f} : flow'[g] = None
                        /\ ~forgot => held' = {}
    BY <1>4, CalledAlone
  <2>2. QED
    BY <2>1, <1>1 DEF SerialInv
<1>19. QED
  BY <1>10, <1>11, <1>12, <1>13, <1>14, <1>15, <1>16, <1>17, <1>18 DEF SessionInv

\* approve, when the executor refuses: the model is told that the call failed, and
\* its tool did not and will not run, unless another approve has taken the call.
LEMMA ApproveRefusedKeeps ==
  ASSUME SessionInv, NEW f \in Flows, NEW c \in CallIds,
         flow[f] = None, pendingToolApproval = c, Called,
         held' = held \ {c}, pendingToolApproval' = None,
         Send(f, Fresh(c), {<<c, FALSE>>}),
         UNCHANGED <<previous, starts, done, forgot>>
  PROVE  SessionInv'
<1>1. Finishing(f)
  BY NothingFinishes
<1>2. c[1] \in Nat /\ Gone(c[1])
  BY CallIdParts DEF SessionInv, PendingIsHeld, HeldInv, ApprovingInv
<1>3. ~overlapped' => /\ \A g \in Flows : flow[g] = None
                      /\ c \in held /\ c \notin done
                      /\ ~forgot => held' = {}
  <2>1. SUFFICES ASSUME ~overlapped'
                 PROVE  /\ \A g \in Flows : flow[g] = None
                        /\ c \in held /\ c \notin done
                        /\ ~forgot => held' = {}
    OBVIOUS
  <2>2. (\A g \in Flows : flow[g] = None) /\ (~forgot => held \subseteq {c})
    BY <2>1, CalledAlone
  <2>3. c \in held
    BY <2>2, CallIdParts DEF SessionInv, PendingIsHeld, Approving
  <2>4. c \notin done
    BY <2>3 DEF SessionInv, HeldInv, RunsInv
  <2>5. QED
    BY <2>2, <2>3, <2>4
<1>4. Sendable(f, {<<c, FALSE>>})
  <2>1. /\ {<<c, FALSE>>} \subseteq Answers
        /\ Succeeded({<<c, FALSE>>}) = {} /\ Failed({<<c, FALSE>>}) = {c}
    BY OneSays
  <2>2. GoneButFor(f, c[1])
    BY <1>2 DEF Gone, GoneButFor
  <2>3. ~overlapped' => c \notin done' /\ c \notin held' /\ \A g \in Flows \ {f} : ~Approving(g, c)
    BY <1>3 DEF Approving
  <2>4. QED
    BY <2>1, <2>2, <2>3 DEF Sendable
<1>5. overlapped' \in BOOLEAN /\ (overlapped => overlapped')
  BY CalledType
<1>6. Fresh(c) \in FlowStates /\ previous \in Responses \cup {None}
  BY FreshType DEF SessionInv, TypeOK
<1>7. ~overlapped' => (\A g \in Flows \ {f} : flow[g] = None) /\ (~forgot => held' = {})
  BY <1>3
<1>8. /\ held' \subseteq held /\ starts' = starts /\ forgot' = forgot
      /\ previous' \in Responses \cup {None} /\ pendingToolApproval' \in CallIds \cup {None}
  BY <1>6
<1>9. QED
  BY <1>1, <1>4, <1>5, <1>6, <1>7, <1>8, SendKeeps

\* approve keeps the invariant.
LEMMA ApproveKeeps ==
  ASSUME SessionInv, NEW f \in Flows, NEW c \in CallIds, Approve(f, c)
  PROVE  SessionInv'
<1>1. CASE /\ c \in held /\ LockFree(f)
           /\ flow' = [flow EXCEPT ![f] = [Fresh(c) EXCEPT !.at = "approved"]]
           /\ starts' = [starts EXCEPT ![c] = @ + 1]
           /\ UNCHANGED <<conversation, sending>>
  BY <1>1, ApproveStartKeeps DEF Approve
<1>2. CASE /\ pendingToolApproval' = None
           /\ Send(f, Fresh(c), {<<c, FALSE>>})
           /\ UNCHANGED <<previous, starts>>
  BY <1>2, ApproveRefusedKeeps DEF Approve
<1>3. QED
  BY <1>1, <1>2 DEF Approve

\* One more output, of a finished call.
LEMMA AddingSays ==
  ASSUME NEW c \in CallIds, NEW A \in SUBSET Answers
  PROVE  /\ A \cup {<<c, TRUE>>} \subseteq Answers /\ A \cup {<<c, FALSE>>} \subseteq Answers
         /\ Succeeded(A \cup {<<c, TRUE>>}) = Succeeded(A) \cup {c}
         /\ Failed(A \cup {<<c, TRUE>>}) = Failed(A)
         /\ Succeeded(A \cup {<<c, FALSE>>}) = Succeeded(A)
         /\ Failed(A \cup {<<c, FALSE>>}) = Failed(A) \cup {c}
<1>1. /\ Succeeded(A \cup {<<c, TRUE>>}) = Succeeded(A) \cup Succeeded({<<c, TRUE>>})
      /\ Failed(A \cup {<<c, TRUE>>}) = Failed(A) \cup Failed({<<c, TRUE>>})
  BY UnionSays
<1>2. /\ Succeeded(A \cup {<<c, FALSE>>}) = Succeeded(A) \cup Succeeded({<<c, FALSE>>})
      /\ Failed(A \cup {<<c, FALSE>>}) = Failed(A) \cup Failed({<<c, FALSE>>})
  BY UnionSays
<1>3. A \cup {<<c, TRUE>>} \subseteq Answers /\ A \cup {<<c, FALSE>>} \subseteq Answers
  BY OneSays
<1>4. /\ Succeeded(A \cup {<<c, TRUE>>}) = Succeeded(A) \cup {c}
      /\ Failed(A \cup {<<c, TRUE>>}) = Failed(A)
  <2>1. Succeeded({<<c, TRUE>>}) = {c} /\ Failed({<<c, TRUE>>}) = {}
    BY OneSays
  <2>2. QED
    BY <1>1, <2>1, Zenon
<1>5. /\ Succeeded(A \cup {<<c, FALSE>>}) = Succeeded(A)
      /\ Failed(A \cup {<<c, FALSE>>}) = Failed(A) \cup {c}
  <2>1. Succeeded({<<c, FALSE>>}) = {} /\ Failed({<<c, FALSE>>}) = {c}
    BY OneSays
  <2>2. QED
    BY <1>2, <2>1, Zenon
<1>6. QED
  BY <1>3, <1>4, <1>5

\* What an output set says of a response depends on nothing but the calls finished.
LEMMA ServedStays ==
  ASSUME ServedInv, flow' = flow, requests' = requests, starts' = starts, done' = done
  PROVE  ServedInv'
<1>1. SUFFICES ASSUME NEW g \in Flows, Serving(g)
               PROVE  /\ flow[g].resp <= requests
                      /\ \A h \in Flows : Serving(h) /\ flow[h].resp = flow[g].resp => h = g
                      /\ flow[g].at = "model" =>
                           \A j \in 1..MaxCalls : starts[<<flow[g].resp, j>>] = 0
                      /\ flow[g].at = "tool" =>
                           /\ flow[g].turn <= MaxTurns
                           /\ starts[<<flow[g].resp, flow[g].call>>] = 1
                           /\ <<flow[g].resp, flow[g].call>> \notin done
                           /\ \A j \in 1..MaxCalls :
                                j > flow[g].call => starts[<<flow[g].resp, j>>] = 0
                           /\ Truthful(flow[g].outputs, flow[g].resp, flow[g].call, done)
  BY DEF ServedInv, Truthful, Serving
<1>2. QED
  BY <1>1 DEF ServedInv

\* A step that moves no flow: it may let go of held calls and drop what is pending.
LEMMA LetGoKeeps ==
  ASSUME SessionInv, Called, UNCHANGED <<flow, sending, starts, done>>,
         held' \subseteq held, previous' \in Responses \cup {None},
         forgot' \in BOOLEAN, forgot => forgot',
         pendingToolApproval' \in {pendingToolApproval, None},
         pendingToolApproval' # None => \/ pendingToolApproval \in held'
                                        \/ pendingToolApproval \notin held,
         ~overlapped' /\ ~forgot' => held' \subseteq {pendingToolApproval'}
  PROVE  SessionInv'
<1>1. flow' = flow /\ requests' = requests /\ told' = told /\ starts' = starts /\ done' = done
  BY DEF sending
<1>2. /\ \A g \in Flows : Serving(g)' <=> Serving(g)
      /\ \A g \in Flows : \A c : Approving(g, c)' <=> Approving(g, c)
      /\ \A n : Gone(n)' <=> Gone(n)
      /\ Succeeded(told)' = Succeeded(told) /\ Failed(told)' = Failed(told)
  BY <1>1 DEF Serving, Approving, Gone, Succeeded, Failed
<1>3. overlapped' \in BOOLEAN /\ (overlapped => overlapped')
  BY CalledType
<1>4. TypeOK'
  BY <1>1, <1>3 DEF SessionInv, TypeOK
<1>5. ServedInv'
  BY <1>1, ServedStays DEF SessionInv
<1>6. HeldInv' /\ ApprovingInv' /\ ApprovedInv'
  <2>1. HeldInv'
    BY <1>1, <1>2 DEF SessionInv, HeldInv
  <2>2. ApprovingInv'
    BY <1>1, <1>2 DEF SessionInv, ApprovingInv
  <2>3. ApprovedInv'
    BY <1>1 DEF SessionInv, ApprovedInv
  <2>4. QED
    BY <2>1, <2>2, <2>3
<1>7. ToldInv'
  BY <1>1, <1>2, <1>3 DEF SessionInv, ToldInv
<1>8. RunsInv'
  BY <1>1 DEF SessionInv, RunsInv
<1>9. PendingIsHeld'
  BY <1>2 DEF SessionInv, PendingIsHeld
<1>10. SerialInv'
  <2>1. ~overlapped' => \A g \in Flows : flow'[g] = None
    BY <1>1, CalledAlone
  <2>2. QED
    BY <2>1 DEF SerialInv
<1>11. QED
  BY <1>4, <1>5, <1>6, <1>7, <1>8, <1>9, <1>10 DEF SessionInv

\* reject lets go of a call, and the session is not pending on it any more.
LEMMA RejectKeeps ==
  ASSUME SessionInv, NEW c \in CallIds, Reject(c)
  PROVE  SessionInv'
<1>1. /\ Called /\ held' = held \ {c} /\ UNCHANGED <<flow, sending, starts, done>>
      /\ previous' = previous /\ forgot' = forgot
      /\ pendingToolApproval' = IF pendingToolApproval = c THEN None ELSE pendingToolApproval
  BY DEF Reject
<1>2. previous \in Responses \cup {None} /\ forgot \in BOOLEAN
  BY DEF SessionInv, TypeOK
<1>3. ~overlapped' /\ ~forgot' => held' \subseteq {pendingToolApproval'}
  BY <1>1, CalledAlone
<1>4. pendingToolApproval' # None => \/ pendingToolApproval \in held'
                                     \/ pendingToolApproval \notin held
  BY <1>1
<1>5. QED
  BY <1>1, <1>2, <1>3, <1>4, LetGoKeeps

\* /reset and /model: what was pending stays held, and the user is not asked again.
LEMMA ForgetKeeps ==
  ASSUME SessionInv, Forget
  PROVE  SessionInv'
BY LetGoKeeps DEF Forget

\* The answer to a request keeps the invariant.
LEMMA ModelAnswersKeeps ==
  ASSUME SessionInv, NEW f \in Flows, NEW calls \in Contents, ModelAnswers(f, calls)
  PROVE  SessionInv'
<1>1. /\ Serving(f) /\ flow[f].at = "model" /\ flow[f].turn <= MaxTurns
      /\ Process(f, flow[f], calls, 1, {}) /\ done' = done
      /\ UNCHANGED <<overlapped, forgot>>
  BY DEF ModelAnswers, TurnsLeft, Serving
<1>2. Finishing(f)
  BY <1>1, NothingFinishes
<1>3. Truthful({}, flow[f].resp, 1, done')
  BY DEF Truthful, Succeeded, Failed
<1>4. Handling(f, 1, {})
  BY <1>1, <1>2, <1>3 DEF Handling, SessionInv, ServedInv
<1>5. 1 \in 1..(MaxCalls + 1)
  BY BoundAssumption
<1>6. QED
  BY <1>1, <1>4, <1>5, ProcessKeeps

\* A request that fails ends its flow.
LEMMA ModelFailsKeeps ==
  ASSUME SessionInv, NEW f \in Flows, ModelFails(f)
  PROVE  SessionInv'
<1>1. /\ Serving(f) /\ End(f) /\ previous' = previous /\ done' = done /\ held' = held
      /\ pendingToolApproval' = pendingToolApproval
      /\ UNCHANGED <<starts, sending, overlapped, forgot>>
  BY DEF ModelFails, Serving, conversation
<1>2. Finishing(f)
  BY <1>1, NothingFinishes
<1>3. /\ {} \in SUBSET CallIds /\ {} \subseteq {pendingToolApproval'} /\ held' = held \cup {}
      /\ pendingToolApproval' \in {None, pendingToolApproval} \cup {}
      /\ \A c \in {} : c[1] = flow[f].resp /\ starts[c] = 0
  BY <1>1
<1>4. previous' \in Responses \cup {None} /\ pendingToolApproval' \in CallIds \cup {None}
  BY <1>1 DEF SessionInv, TypeOK
<1>5. QED
  BY <1>1, <1>2, <1>3, <1>4, EndKeeps

\* A tool that returns adds its own output, which is true, and the loop goes on.
LEMMA ToolReturnsKeeps ==
  ASSUME SessionInv, NEW f \in Flows, NEW ok \in BOOLEAN, ToolReturns(f, ok)
  PROVE  SessionInv'
<1> USE BoundAssumption
<1> DEFINE c == <<flow[f].resp, flow[f].call>>
           i == flow[f].call + 1
           outputs == flow[f].outputs \cup {<<c, ok>>}
<1>1. /\ Serving(f) /\ flow[f].at = "tool"
      /\ Finished(c, ok) /\ Process(f, flow[f], flow[f].calls, i, outputs)
      /\ UNCHANGED <<overlapped, forgot>>
  BY DEF ToolReturns, Serving
<1>2. flow[f] \in FlowStates
  BY <1>1 DEF SessionInv, TypeOK, Serving
<1>3. /\ c \in CallIds /\ i \in 1..(MaxCalls + 1) /\ flow[f].calls \in Contents
      /\ flow[f].call \in 1..MaxCalls /\ flow[f].outputs \subseteq Answers
      /\ c[1] = flow[f].resp /\ c[2] = flow[f].call
  BY <1>2 DEF FlowStates, CallIds
<1>4. /\ flow[f].turn <= MaxTurns /\ starts[c] = 1 /\ c \notin done
      /\ \A k \in 1..MaxCalls : k >= i => starts[<<flow[f].resp, k>>] = 0
      /\ Truthful(flow[f].outputs, flow[f].resp, flow[f].call, done)
      /\ \A g \in Flows \ {f} : Serving(g) => flow[g].resp # c[1]
  BY <1>1, <1>3 DEF SessionInv, ServedInv
<1>5. ~Gone(c[1]) /\ c \notin Failed(told) /\ \A g \in Flows : ~Approving(g, c)
  BY <1>1, <1>3 DEF SessionInv, ToldInv, ApprovingInv, Gone
<1>6. done' = IF ok THEN done \cup {c} ELSE done
  BY <1>1 DEF Finished
<1>7. Finishing(f)
  BY <1>3, <1>4, <1>5, <1>6 DEF Finishing, SessionInv, TypeOK
<1>8. /\ ok = TRUE => outputs = flow[f].outputs \cup {<<c, TRUE>>}
      /\ ok = FALSE => outputs = flow[f].outputs \cup {<<c, FALSE>>}
  OBVIOUS
<1> HIDE DEF c, outputs
<1>9. outputs \subseteq Answers /\ Truthful(outputs, flow[f].resp, i, done')
  <2>0. \A d \in CallIds : d[2] < flow[f].call => d[2] < i
    BY <1>3, CallIdParts
  <2>1. \A d \in Succeeded(flow[f].outputs) : d[1] = flow[f].resp /\ d[2] < i /\ d \in done'
    BY <2>0, <1>4, <1>6 DEF Truthful, Succeeded
  <2>2. \A d \in Failed(flow[f].outputs) : d[1] = flow[f].resp /\ d[2] < i /\ d \notin done'
    <3>1. TAKE d \in Failed(flow[f].outputs)
    <3>2. d \in CallIds /\ d[1] = flow[f].resp /\ d[2] < flow[f].call /\ d \notin done
      BY <1>4 DEF Truthful, Failed
    <3>3. d # c
      BY <3>2, <1>3
    <3>4. QED
      BY <3>2, <3>3, <2>0, <1>6
  <2>3. c[1] = flow[f].resp /\ c[2] < i
    BY <1>3
  <2>4. CASE ok = TRUE
    <3>1. outputs = flow[f].outputs \cup {<<c, TRUE>>} /\ c \in done'
      BY <2>4, <1>6, <1>8
    <3>2. /\ outputs \subseteq Answers /\ Failed(outputs) = Failed(flow[f].outputs)
          /\ Succeeded(outputs) = Succeeded(flow[f].outputs) \cup {c}
      BY <3>1, <1>3, AddingSays
    <3>3. QED
      BY <3>1, <3>2, <2>1, <2>2, <2>3 DEF Truthful
  <2>5. CASE ok = FALSE
    <3>1. outputs = flow[f].outputs \cup {<<c, FALSE>>} /\ c \notin done'
      BY <2>5, <1>4, <1>6, <1>8
    <3>2. /\ outputs \subseteq Answers /\ Failed(outputs) = Failed(flow[f].outputs) \cup {c}
          /\ Succeeded(outputs) = Succeeded(flow[f].outputs)
      BY <3>1, <1>3, AddingSays
    <3>3. QED
      BY <3>1, <3>2, <2>1, <2>2, <2>3 DEF Truthful
  <2>6. QED
    BY <2>4, <2>5
<1>10. Handling(f, i, outputs)
  BY <1>1, <1>4, <1>7, <1>9 DEF Handling
<1>11. QED
  BY <1>1, <1>3, <1>10, ProcessKeeps

\* The result of an approved call is sent to the model, and nothing is pending.
LEMMA ApprovedToolReturnsKeeps ==
  ASSUME SessionInv, NEW f \in Flows, NEW ok \in BOOLEAN, ApprovedToolReturns(f, ok)
  PROVE  SessionInv'
<1> DEFINE c == flow[f].by
<1>1. /\ flow[f] # None /\ flow[f].at = "approved" /\ Finished(c, ok)
      /\ pendingToolApproval' = None /\ Send(f, flow[f], {<<c, ok>>})
      /\ previous' = previous /\ held' = held /\ starts' = starts
      /\ overlapped' = overlapped /\ forgot' = forgot
  BY DEF ApprovedToolReturns
<1>2. /\ flow[f] \in FlowStates /\ c \in CallIds /\ Approving(f, c)
      /\ previous' \in Responses \cup {None} /\ overlapped' \in BOOLEAN
  BY <1>1 DEF SessionInv, TypeOK, ApprovedInv, Approving
<1>3. /\ Gone(c[1]) /\ starts[c] = 1 /\ c \notin done /\ c \notin held
      /\ \A g \in Flows \ {f} : ~Approving(g, c)
      /\ c \in Failed(told) => overlapped
  BY <1>2 DEF SessionInv, ApprovingInv, HeldInv, ToldInv
<1>4. done' = IF ok THEN done \cup {c} ELSE done
  BY <1>1 DEF Finished
<1>5. Finishing(f)
  BY <1>2, <1>3, <1>4 DEF Finishing, SessionInv, TypeOK, Gone
<1>6. Sendable(f, {<<c, ok>>})
  <2>1. GoneButFor(f, c[1])
    BY <1>3 DEF Gone, GoneButFor
  <2>2. CASE ok = TRUE
    <3>1. {<<c, ok>>} = {<<c, TRUE>>} /\ c \in done'
      BY <2>2, <1>4
    <3>2. {<<c, ok>>} \subseteq Answers /\ Succeeded({<<c, ok>>}) = {c} /\ Failed({<<c, ok>>}) = {}
      <4>1. c \in CallIds
        BY <1>2
      <4>2. /\ {<<c, TRUE>>} \subseteq Answers
            /\ Succeeded({<<c, TRUE>>}) = {c} /\ Failed({<<c, TRUE>>}) = {}
        BY ONLY <4>1, OneSays
      <4>3. QED
        BY ONLY <4>2, <3>1
    <3>3. QED
      BY <2>1, <3>1, <3>2 DEF Sendable
  <2>3. CASE ok = FALSE
    <3>1. {<<c, ok>>} = {<<c, FALSE>>} /\ c \notin done' /\ c \notin held'
      BY <2>3, <1>1, <1>3, <1>4
    <3>2. {<<c, ok>>} \subseteq Answers /\ Succeeded({<<c, ok>>}) = {} /\ Failed({<<c, ok>>}) = {c}
      <4>1. c \in CallIds
        BY <1>2
      <4>2. /\ {<<c, FALSE>>} \subseteq Answers
            /\ Succeeded({<<c, FALSE>>}) = {} /\ Failed({<<c, FALSE>>}) = {c}
        BY ONLY <4>1, OneSays
      <4>3. QED
        BY ONLY <4>2, <3>1
    <3>3. \A g \in Flows \ {f} : ~Approving(g, c)
      BY <1>3
    <3>4. QED
      BY ONLY <2>1, <3>1, <3>2, <3>3 DEF Sendable
  <2>4. QED
    BY <2>2, <2>3
<1>7. ~overlapped' => (\A g \in Flows \ {f} : flow[g] = None) /\ (~forgot => held' = {})
  BY <1>1 DEF SessionInv, SerialInv
<1>8. QED
  BY <1>1, <1>2, <1>5, <1>6, <1>7, SendKeeps

\* Every step keeps the invariant.
LEMMA SessionNext == SessionInv /\ [Next]_vars => SessionInv'
<1> SUFFICES ASSUME SessionInv, [Next]_vars PROVE SessionInv'
  OBVIOUS
<1>1. ASSUME NEW f \in Flows, Ask(f) PROVE SessionInv'
  BY <1>1, AskKeeps
<1>2. ASSUME NEW f \in Flows, NEW c \in CallIds, Approve(f, c) PROVE SessionInv'
  BY <1>2, ApproveKeeps
<1>3. ASSUME NEW c \in CallIds, Reject(c) PROVE SessionInv'
  BY <1>3, RejectKeeps
<1>4. CASE Forget
  BY <1>4, ForgetKeeps
<1>5. ASSUME NEW f \in Flows, NEW calls \in Contents, ModelAnswers(f, calls) PROVE SessionInv'
  BY <1>5, ModelAnswersKeeps
<1>6. ASSUME NEW f \in Flows, ModelFails(f) PROVE SessionInv'
  BY <1>6, ModelFailsKeeps
<1>7. ASSUME NEW f \in Flows, NEW ok \in BOOLEAN, ToolReturns(f, ok) PROVE SessionInv'
  BY <1>7, ToolReturnsKeeps
<1>8. ASSUME NEW f \in Flows, NEW ok \in BOOLEAN, ApprovedToolReturns(f, ok) PROVE SessionInv'
  BY <1>8, ApprovedToolReturnsKeeps
<1>9. CASE UNCHANGED vars
  <2>1. /\ flow' = flow /\ requests' = requests /\ told' = told /\ starts' = starts
        /\ done' = done /\ held' = held /\ overlapped' = overlapped /\ forgot' = forgot
        /\ previous' = previous /\ pendingToolApproval' = pendingToolApproval
    BY <1>9 DEF vars, conversation, sending
  <2>2. TypeOK' /\ ServedInv' /\ HeldInv' /\ ApprovingInv' /\ ApprovedInv'
    BY <2>1, ServedStays DEF SessionInv, TypeOK, HeldInv, ApprovingInv, ApprovedInv, Serving,
                             Approving, Gone
  <2>3. ToldInv' /\ RunsInv' /\ PendingIsHeld' /\ SerialInv'
    BY <2>1 DEF SessionInv, ToldInv, RunsInv, PendingIsHeld, SerialInv, Serving, Approving,
                Gone, Succeeded, Failed
  <2>4. QED
    BY <2>2, <2>3 DEF SessionInv
<1>10. QED
  BY <1>1, <1>2, <1>3, <1>4, <1>5, <1>6, <1>7, <1>8, <1>9 DEF Next

-----------------------------------------------------------------------------
(* Theorems *)

\* The inductive invariant holds of every behaviour.
THEOREM SessionInvariant == Spec => []SessionInv
BY SessionInit, SessionNext, PTL DEF Spec

\* The state has its type.
THEOREM SessionTyping == Spec => []TypeOK
<1>1. SessionInv => TypeOK
  BY DEF SessionInv
<1>2. QED
  BY <1>1, SessionInvariant, PTL

\* However asks, approves, rejections and resets interleave, no tool call is started twice.
THEOREM OneRun == Spec => []OneRunPerCall
<1>1. SessionInv => OneRunPerCall
  BY DEF SessionInv, RunsInv, OneRunPerCall
<1>2. QED
  BY <1>1, SessionInvariant, PTL

\* The user is only ever asked about a call that the executor holds or runs.
THEOREM PendingIsKnown == Spec => []PendingIsHeld
<1>1. SessionInv => PendingIsHeld
  BY DEF SessionInv
<1>2. QED
  BY <1>1, SessionInvariant, PTL

\* The model is told the truth about its tool calls; of failures, as long as calls of the
\* session do not overlap.
THEOREM AnswersTrue == Spec => []AnswersAreTrue
<1>1. SessionInv => AnswersAreTrue
  BY DEF SessionInv, ToldInv, Succeeded, Failed, AnswersAreTrue
<1>2. QED
  BY <1>1, SessionInvariant, PTL

\* A held call is the one that can be approved, as long as calls of the session do not
\* overlap and the conversation is not reset.
THEOREM HeldIsReachable == Spec => []HeldIsPending
<1>1. SessionInv => HeldIsPending
  BY DEF SessionInv, SerialInv, HeldIsPending
<1>2. QED
  BY <1>1, SessionInvariant, PTL

\* What the session asks about and what the executor holds are the same, as far as
\* PendingIsHeld and HeldIsPending go.
THEOREM SessionAgrees == Spec => []PendingAgrees
<1>1. PendingIsHeld /\ HeldIsPending => PendingAgrees
  BY DEF PendingAgrees
<1>2. QED
  BY <1>1, PendingIsKnown, HeldIsReachable, PTL

-----------------------------------------------------------------------------
(* The contract of ToolExecutor, which the session relies on *)

Busy(f) == flow[f] # None /\ flow[f].at # "model"

\* One tool runs at a time: what the contract needs beside SessionInv.
OneTool == \A f, g \in Flows : Busy(f) /\ Busy(g) => f = g

\* The calls the executor has decided about, and the one it runs.
Known == {c \in CallIds : ~Unasked(c)}
AtTool == {CallOf(f) : f \in {g \in Flows : flow[g] # None /\ flow[g].at # "model"}}

\* A flow becomes x and no other one changes.
Becomes(f, x) == flow' = [flow EXCEPT ![f] = x]

\* It ends, or waits for a response that nobody has seen yet.
Rests(f, x) ==
  /\ Becomes(f, x)
  /\ \/ x = None /\ requests' = requests
     \/ x # None /\ x.at = "model" /\ x.resp = requests + 1 /\ requests' = requests + 1

\* It waits for the tool of call i of the response it serves.
Works(f, x, i) ==
  /\ Becomes(f, x) /\ requests' = requests
  /\ x # None /\ x.at = "tool" /\ x.resp = flow[f].resp /\ x.call = i

\* Flow f has not come to call i of its response.
Before(f, i) == Serving(f) /\ (flow[f].at = "model" \/ flow[f].call < i)

\* The flows after one of them changed.
LEMMA OnlyOneMoves ==
  ASSUME SessionInv, NEW f \in Flows, NEW x, Becomes(f, x)
  PROVE  flow'[f] = x /\ \A g \in Flows \ {f} : flow'[g] = flow[g]
BY DEF SessionInv, TypeOK, Becomes

\* A request that is sent, or refused by the budget, leaves its flow at rest.
LEMMA SendRests ==
  ASSUME SessionInv, NEW f \in Flows, NEW s \in FlowStates, NEW outputs, Send(f, s, outputs)
  PROVE  \E x : Rests(f, x)
<1> DEFINE next == [s EXCEPT !.at = "model", !.resp = requests + 1,
                             !.calls = <<>>, !.outputs = {}]
<1>1. CASE RequestsLeft /\ requests' = requests + 1 /\ flow' = [flow EXCEPT ![f] = next]
  <2>1. requests + 1 \in Responses
    BY <1>1, BoundAssumption DEF RequestsLeft, SessionInv, TypeOK, Responses
  <2>2. next \in FlowStates /\ next.at = "model" /\ next.resp = requests + 1
    BY <2>1, ContentParts DEF FlowStates
  <2>3. next # None
    BY <2>2, NoneAssumption
  <2>4. Rests(f, next)
    BY <1>1, <2>2, <2>3 DEF Rests, Becomes
  <2>5. QED
    BY <2>4
<1>2. CASE End(f) /\ UNCHANGED sending
  <2>1. Rests(f, None)
    BY <1>2 DEF End, sending, Rests, Becomes
  <2>2. QED
    BY <2>1
<1>3. QED
  BY <1>1, <1>2 DEF Send

\* What the executor has decided about stays decided: flows only go forward.
LEMMA KnownGrows ==
  ASSUME SessionInv, NEW f \in Flows, NEW x,
         Rests(f, x) \/ \E i \in 1..MaxCalls : Works(f, x, i) /\ Before(f, i)
  PROVE  Known \subseteq Known' /\ Known' \subseteq CallIds
<1> USE BoundAssumption
<1>1. flow'[f] = x /\ \A g \in Flows \ {f} : flow'[g] = flow[g]
  BY OnlyOneMoves DEF Rests, Works
<1>2. requests \in Nat
  BY DEF SessionInv, TypeOK
<1>3. SUFFICES ASSUME NEW c \in CallIds, Unasked(c)' PROVE Unasked(c)
  BY DEF Known
<1>4. c[1] \in Nat /\ c[2] \in Nat
  BY CallIdParts
<1>5. CASE Rests(f, x)
  BY <1>1, <1>2, <1>3, <1>4, <1>5 DEF Unasked, Rests
<1>6. ASSUME NEW i \in 1..MaxCalls, Works(f, x, i), Before(f, i)
      PROVE  Unasked(c)
  <2>1. flow[f].at = "tool" => flow[f].call \in Nat
    BY <1>6 DEF Before, Serving, SessionInv, TypeOK, FlowStates
  <2>2. QED
    BY <1>1, <1>2, <1>3, <1>4, <1>6, <2>1 DEF Unasked, Works, Before, Serving
<1>7. QED
  BY <1>5, <1>6

\* A flow that is in no response decides about nothing.
LEMMA KnownStays ==
  ASSUME SessionInv, NEW f \in Flows, NEW x, ~Serving(f),
         Rests(f, x) \/ (Becomes(f, x) /\ x.at = "approved" /\ requests' = requests)
  PROVE  Known' = Known
<1>1. flow'[f] = x /\ \A g \in Flows \ {f} : flow'[g] = flow[g]
  BY OnlyOneMoves DEF Rests
<1>2. requests \in Nat
  BY DEF SessionInv, TypeOK
<1>3. ASSUME NEW c \in CallIds
      PROVE  Unasked(c)' <=> Unasked(c)
  <2>1. c[1] \in Nat
    BY CallIdParts
  <2>2. \A g \in Flows : Serving(g) => g # f
    OBVIOUS
  <2>3. QED
    BY <1>1, <1>2, <2>1, <2>2 DEF Unasked, Rests, Serving
<1>4. QED
  BY <1>3 DEF Known

\* The call that a flow takes up, or stops at, is decided about then and was not before.
LEMMA BecomesKnown ==
  ASSUME SessionInv, NEW f \in Flows, NEW x, NEW i \in 1..MaxCalls, Before(f, i),
         Works(f, x, i) \/ (Becomes(f, x) /\ x = None /\ requests' = requests)
  PROVE  <<flow[f].resp, i>> \in Known' \ Known
<1> USE BoundAssumption
<1>1. flow'[f] = x /\ \A g \in Flows \ {f} : flow'[g] = flow[g]
  BY OnlyOneMoves DEF Works
<1>2. Serving(f) /\ flow[f].resp \in Responses /\ requests \in Nat
  BY DEF SessionInv, TypeOK, Before, Serving, FlowStates
<1>3. /\ flow[f].resp \in Nat /\ flow[f].resp <= requests
      /\ \A g \in Flows : Serving(g) /\ flow[g].resp = flow[f].resp => g = f
  <2>1. flow[f].resp \in Nat
    BY <1>2 DEF Responses
  <2>2. QED
    BY <1>2, <2>1 DEF SessionInv, ServedInv
<1>4. PICK c \in CallIds : c = <<flow[f].resp, i>> /\ c[1] = flow[f].resp /\ c[2] = i
  <2>1. <<flow[f].resp, i>> \in CallIds
    BY <1>2 DEF CallIds
  <2>2. <<flow[f].resp, i>>[1] = flow[f].resp /\ <<flow[f].resp, i>>[2] = i
    OBVIOUS
  <2>3. QED
    BY <2>1, <2>2
<1>5. /\ x = None \/ (x # None /\ x.at = "tool" /\ x.call = i)
      /\ requests' = requests
  BY DEF Works
<1>6. Unasked(c)
  BY <1>4 DEF Unasked, Before, Serving
<1>7. ~Unasked(c)'
  <2>1. \A g \in Flows \ {f} : flow[g] # None /\ flow[g].resp = c[1] =>
          flow[g].at # "model" /\ flow[g].at # "tool"
    BY <1>3, <1>4 DEF Serving
  <2>2. ~(c[1] > requests')
    BY <1>2, <1>3, <1>4, <1>5
  <2>3. ASSUME NEW g \in Flows, flow'[g] # None, flow'[g].resp = c[1]
        PROVE  ~(flow'[g].at = "model" \/ (flow'[g].at = "tool" /\ flow'[g].call < c[2]))
    BY <1>1, <1>4, <1>5, <2>1, <2>3
  <2>4. QED
    BY <2>2, <2>3 DEF Unasked
<1>8. QED
  BY <1>4, <1>6, <1>7 DEF Known

\* A flow at rest runs no tool, and leaves none running if it ran the one.
LEMMA RestsTool ==
  ASSUME SessionInv, OneTool, NEW f \in Flows, NEW x, Rests(f, x)
  PROVE  /\ OneTool' /\ AtTool' \in {AtTool, {}}
         /\ ~Busy(f) => AtTool' = AtTool
         /\ LockFree(f) => AtTool' = {}
<1>1. flow'[f] = x /\ \A g \in Flows \ {f} : flow'[g] = flow[g]
  BY OnlyOneMoves DEF Rests
<1>2. /\ ~Busy(f)' /\ \A g \in Flows \ {f} : Busy(g)' <=> Busy(g)
      /\ \A g \in Flows \ {f} : CallOf(g)' = CallOf(g)
  BY <1>1 DEF Busy, CallOf, Rests
<1>3. OneTool'
  BY <1>2 DEF OneTool
<1>4. ~Busy(f) => AtTool' = AtTool
  BY <1>2 DEF AtTool, Busy
<1>5. Busy(f) \/ LockFree(f) => AtTool' = {}
  BY <1>2 DEF AtTool, Busy, OneTool, LockFree
<1>6. QED
  BY <1>3, <1>4, <1>5

\* A flow that starts a tool where no other one runs has the one that runs.
LEMMA WorksTool ==
  ASSUME SessionInv, NEW f \in Flows, NEW x, LockFree(f), Becomes(f, x), x # None, x.at # "model"
  PROVE  OneTool' /\ AtTool' = {IF x.at = "tool" THEN <<x.resp, x.call>> ELSE x.by}
<1>1. flow'[f] = x /\ \A g \in Flows \ {f} : flow'[g] = flow[g]
  BY OnlyOneMoves
<1>2. \A g \in Flows : Busy(g)' <=> g = f
  BY <1>1 DEF Busy, LockFree
<1>3. CallOf(f)' = IF x.at = "tool" THEN <<x.resp, x.call>> ELSE x.by
  BY <1>1 DEF CallOf
<1>4. QED
  BY <1>2, <1>3 DEF OneTool, AtTool, Busy

\* When the contract's two ways to decide about a new call are taken.
LEMMA RunOrHold ==
  ASSUME NEW c \in Known' \ Known, Known \subseteq Known', Known' \subseteq CallIds
  PROVE  /\ held' = held /\ AtTool' = {c} => Executor!Run(c)
         /\ held' = held \cup {c} /\ AtTool' = {} => Executor!Hold(c)
         /\ c \in CallIds
BY DEF Executor!Run, Executor!Hold, Executor!Admits, Known, AtTool

\* A flow that comes to rest, and holds nothing, is refused something at most.
LEMMA RestsRefused ==
  ASSUME SessionInv, OneTool, NEW f \in Flows, NEW x, Rests(f, x), held' = held
  PROVE  Executor!Refuse /\ OneTool'
<1>1. Known \subseteq Known' /\ Known' \subseteq CallIds
  BY KnownGrows
<1>2. AtTool' \in {AtTool, {}} /\ OneTool'
  BY RestsTool
<1>3. QED
  BY <1>1, <1>2 DEF Executor!Refuse, Executor!Admits, Known, AtTool

\* What the loop does with the calls that are left.
LEMMA ProcessContract ==
  ASSUME SessionInv, OneTool, NEW f \in Flows, Serving(f), NEW calls \in Contents,
         NEW i \in 1..(MaxCalls + 1), NEW outputs \in SUBSET Answers,
         \A j \in 1..MaxCalls : j >= i => Before(f, j),
         flow[f].turn <= MaxTurns, Process(f, flow[f], calls, i, outputs)
  PROVE  Executor!Next /\ OneTool'
<1> USE BoundAssumption
<1> DEFINE resp == flow[f].resp
           left == Left(calls, i)
           admitted == IF LockFree(f) THEN {j \in left : calls[j] # "refused"} ELSE {}
           skipped(j) == outputs \cup Refusals(flow[f], {k \in left : k < j})
<1>1. flow[f] \in FlowStates /\ None \notin FlowStates
  BY NoneAssumption DEF Serving, SessionInv, TypeOK
<1>2. \A j \in left : j \in 1..MaxCalls /\ Before(f, j) /\ <<resp, j>> \in CallIds
  <2>1. \A j \in left : j \in 1..MaxCalls /\ j >= i
    BY ContentParts DEF Left
  <2>2. QED
    BY <1>1, <2>1 DEF FlowStates, CallIds
<1>3. CASE Conclude(f, flow[f], None) /\ UNCHANGED <<held, starts, sending>>
  <2>1. Rests(f, None) /\ held' = held
    BY <1>3 DEF Conclude, End, Rests, Becomes, sending
  <2>2. QED
    BY <2>1, RestsRefused DEF Executor!Next
<1>4. CASE /\ Send(f, [flow[f] EXCEPT !.turn = @ + 1], outputs \cup Refusals(flow[f], left))
           /\ UNCHANGED <<conversation, held, starts>>
  <2>1. [flow[f] EXCEPT !.turn = @ + 1] \in FlowStates
    BY <1>1 DEF FlowStates
  <2>2. PICK x : Rests(f, x)
    BY <1>4, <2>1, SendRests
  <2>3. QED
    BY <1>4, <2>2, RestsRefused DEF Executor!Next
<1>5. ASSUME NEW j \in admitted,
             flow' = [flow EXCEPT ![f] = [flow[f] EXCEPT !.at = "tool", !.calls = calls,
                                                         !.call = j, !.outputs = skipped(j)]],
             UNCHANGED <<conversation, held, sending>>
      PROVE  Executor!Next /\ OneTool'
  <2> DEFINE x == [flow[f] EXCEPT !.at = "tool", !.calls = calls, !.call = j,
                                  !.outputs = skipped(j)]
  <2>1. j \in 1..MaxCalls /\ Before(f, j) /\ <<resp, j>> \in CallIds /\ LockFree(f)
    BY <1>2
  <2>2. x.at = "tool" /\ x.resp = resp /\ x.call = j /\ x # None
    <3>1. x.at = "tool" /\ x.resp = resp /\ x.call = j
      BY <1>1 DEF FlowStates
    <3>2. x # None
      <4>1. {k \in left : k < j} \in SUBSET (1..MaxCalls)
        BY <1>2
      <4>2. skipped(j) \subseteq Answers
        BY <1>1, <4>1, RefusalsSay
      <4>3. x \in FlowStates
        BY <1>1, <2>1, <4>2 DEF FlowStates
      <4>4. QED
        BY <1>1, <4>3
    <3>3. QED
      BY <3>1, <3>2
  <2>3. Works(f, x, j)
    BY <1>5, <2>2 DEF Works, Becomes, sending
  <2>4. PICK c \in CallIds : c = <<resp, j>>
    BY <2>1
  <2>5. c \in Known' \ Known /\ Known \subseteq Known' /\ Known' \subseteq CallIds
    BY <2>1, <2>3, <2>4, BecomesKnown, KnownGrows
  <2>6. AtTool' = {c} /\ OneTool'
    BY <2>1, <2>2, <2>3, <2>4, WorksTool DEF Works
  <2>7. Executor!Run(c)
    BY <1>5, <2>5, <2>6, RunOrHold
  <2>8. QED
    BY <2>6, <2>7 DEF Executor!Next
<1>6. ASSUME NEW j \in admitted, held' = held \cup {<<resp, j>>},
             Conclude(f, flow[f], <<resp, j>>), UNCHANGED <<starts, sending>>
      PROVE  Executor!Next /\ OneTool'
  <2>1. j \in 1..MaxCalls /\ Before(f, j) /\ <<resp, j>> \in CallIds /\ LockFree(f)
    BY <1>2
  <2>2. Rests(f, None) /\ Becomes(f, None) /\ requests' = requests
    BY <1>6 DEF Conclude, End, Rests, Becomes, sending
  <2>3. PICK c \in CallIds : c = <<resp, j>>
    BY <2>1
  <2>4. c \in Known' \ Known /\ Known \subseteq Known' /\ Known' \subseteq CallIds
    BY <2>1, <2>2, <2>3, BecomesKnown, KnownGrows
  <2>5. AtTool' = {} /\ OneTool'
    BY <2>1, <2>2, RestsTool
  <2>6. Executor!Hold(c)
    BY <1>6, <2>3, <2>4, <2>5, RunOrHold
  <2>7. QED
    BY <2>5, <2>6 DEF Executor!Next
<1>7. QED
  BY <1>3, <1>4, <1>5, <1>6 DEF Process

\* A question to the model is nothing to the executor yet.
LEMMA AskContract ==
  ASSUME SessionInv, OneTool, NEW f \in Flows, Ask(f)
  PROVE  UNCHANGED Executor!executorVars /\ OneTool'
<1>1. PICK x : Rests(f, x)
  BY FreshType, SendRests DEF Ask
<1>2. ~Serving(f) /\ ~Busy(f) /\ held' = held
  BY DEF Ask, Serving, Busy
<1>3. Known' = Known /\ AtTool' = AtTool /\ OneTool'
  BY <1>1, <1>2, KnownStays, RestsTool
<1>4. QED
  BY <1>2, <1>3 DEF Executor!executorVars, Known, AtTool

\* An approval resumes a call that the executor held while no tool ran, or drops it, or
\* finds that the executor no longer holds it.
LEMMA ApproveContract ==
  ASSUME SessionInv, OneTool, NEW f \in Flows, NEW c \in CallIds, Approve(f, c)
  PROVE  [Executor!Next]_(Executor!executorVars) /\ OneTool'
<1>1. ~Serving(f) /\ ~Busy(f) /\ held' = held \ {c}
  BY DEF Approve, Serving, Busy
<1>2. CASE /\ c \in held /\ LockFree(f)
           /\ flow' = [flow EXCEPT ![f] = [Fresh(c) EXCEPT !.at = "approved"]]
           /\ UNCHANGED <<conversation, sending>>
  <2> DEFINE x == [Fresh(c) EXCEPT !.at = "approved"]
  <2>1. x # None /\ x.at = "approved" /\ x.by = c
    BY FreshType, NoneAssumption DEF Fresh
  <2>2. Becomes(f, x) /\ requests' = requests
    BY <1>2 DEF Becomes, sending
  <2> HIDE DEF x
  <2>3. Known' = Known
    BY <1>1, <2>1, <2>2, KnownStays
  <2>4. AtTool' = {c} /\ OneTool'
    BY <1>2, <2>1, <2>2, WorksTool
  <2>5. AtTool = {}
    BY <1>1, <1>2 DEF AtTool, LockFree, Busy
  <2>6. Executor!Resume(c)
    BY <1>1, <1>2, <2>3, <2>4, <2>5 DEF Executor!Resume, Known, AtTool
  <2>7. QED
    BY <2>4, <2>6 DEF Executor!Next
<1>3. CASE Send(f, Fresh(c), {<<c, FALSE>>})
  <2>1. PICK x : Rests(f, x)
    BY <1>3, FreshType, SendRests
  <2>2. Known' = Known /\ AtTool' = AtTool /\ OneTool'
    BY <1>1, <2>1, KnownStays, RestsTool
  <2>3. CASE c \in held
    <3>1. Executor!Drop(c)
      BY <1>1, <2>2, <2>3 DEF Executor!Drop, Known, AtTool
    <3>2. QED
      BY <2>2, <3>1 DEF Executor!Next
  <2>4. CASE c \notin held
    <3>1. UNCHANGED Executor!executorVars
      BY <1>1, <2>2, <2>4 DEF Executor!executorVars, Known, AtTool
    <3>2. QED
      BY <2>2, <3>1
  <2>5. QED
    BY <2>3, <2>4
<1>4. QED
  BY <1>2, <1>3 DEF Approve

\* An answer of the model, or of the tool that its loop waits for, is worked off.
LEMMA AnswersContract ==
  ASSUME SessionInv, OneTool, NEW f \in Flows,
         (\E calls \in Contents : ModelAnswers(f, calls)) \/ (\E ok \in BOOLEAN : ToolReturns(f, ok))
  PROVE  Executor!Next /\ OneTool'
<1> USE BoundAssumption
<1>1. ASSUME NEW calls \in Contents, ModelAnswers(f, calls)
      PROVE  Executor!Next /\ OneTool'
  <2>1. /\ Serving(f) /\ flow[f].turn <= MaxTurns /\ Process(f, flow[f], calls, 1, {})
        /\ \A j \in 1..MaxCalls : Before(f, j)
    BY <1>1 DEF ModelAnswers, TurnsLeft, Serving, Before
  <2>2. 1 \in 1..(MaxCalls + 1) /\ {} \in SUBSET Answers
    OBVIOUS
  <2>3. QED
    BY <2>1, <2>2, ProcessContract
<1>2. ASSUME NEW ok \in BOOLEAN, ToolReturns(f, ok)
      PROVE  Executor!Next /\ OneTool'
  <2> DEFINE i == flow[f].call + 1
             outputs == flow[f].outputs \cup {<<<<flow[f].resp, flow[f].call>>, ok>>}
  <2>1. /\ Serving(f) /\ flow[f].at = "tool" /\ flow[f].turn <= MaxTurns
        /\ Process(f, flow[f], flow[f].calls, i, outputs)
    BY <1>2 DEF ToolReturns, Serving, SessionInv, ServedInv
  <2>2. /\ flow[f].calls \in Contents /\ i \in 1..(MaxCalls + 1) /\ flow[f].call \in Nat
        /\ outputs \in SUBSET Answers
    BY <2>1 DEF Serving, SessionInv, TypeOK, FlowStates, Answers, CallIds
  <2>3. \A j \in 1..MaxCalls : j >= i => Before(f, j)
    BY <2>1, <2>2 DEF Before
  <2> HIDE DEF i, outputs
  <2>4. QED
    BY <2>1, <2>2, <2>3, ProcessContract
<1>3. QED
  BY <1>1, <1>2

\* Every step of the session, and of what it takes the executor to do, is a step of the
\* contract, or is hidden from it.
LEMMA ContractStep ==
  SessionInv /\ OneTool /\ [Next]_vars => [Executor!Next]_(Executor!executorVars) /\ OneTool'
<1> SUFFICES ASSUME SessionInv, OneTool, [Next]_vars
             PROVE  [Executor!Next]_(Executor!executorVars) /\ OneTool'
  OBVIOUS
<1>1. ASSUME UNCHANGED <<flow, requests>>
      PROVE  Known' = Known /\ AtTool' = AtTool /\ OneTool'
  BY <1>1 DEF Known, Unasked, AtTool, CallOf, OneTool, Busy
<1>2. ASSUME UNCHANGED <<flow, requests, held>>
      PROVE  UNCHANGED Executor!executorVars /\ OneTool'
  BY <1>1, <1>2 DEF Executor!executorVars, Known, AtTool
<1>3. ASSUME NEW f \in Flows, Ask(f)
      PROVE  UNCHANGED Executor!executorVars /\ OneTool'
  BY <1>3, AskContract
<1>4. ASSUME NEW f \in Flows, NEW c \in CallIds, Approve(f, c)
      PROVE  [Executor!Next]_(Executor!executorVars) /\ OneTool'
  BY <1>4, ApproveContract
<1>5. ASSUME NEW c \in CallIds, Reject(c)
      PROVE  Executor!Next /\ OneTool'
  <2>1. c \in held /\ held' = held \ {c} /\ UNCHANGED <<flow, requests>>
    BY <1>5 DEF Reject, sending
  <2>2. Executor!Drop(c)
    BY <1>1, <2>1 DEF Executor!Drop, Known, AtTool
  <2>3. QED
    BY <1>1, <2>1, <2>2 DEF Executor!Next
<1>6. CASE Forget \/ UNCHANGED vars
  BY <1>2, <1>6 DEF Forget, sending, vars
<1>7. ASSUME NEW f \in Flows,
             \/ \E calls \in Contents : ModelAnswers(f, calls)
             \/ \E ok \in BOOLEAN : ToolReturns(f, ok)
      PROVE  Executor!Next /\ OneTool'
  BY <1>7, AnswersContract
<1>8. ASSUME NEW f \in Flows, ModelFails(f)
      PROVE  Executor!Next /\ OneTool'
  <2>1. Rests(f, None) /\ held' = held
    BY <1>8 DEF ModelFails, End, Rests, Becomes, sending
  <2>2. QED
    BY <2>1, RestsRefused DEF Executor!Next
<1>9. ASSUME NEW f \in Flows, NEW ok \in BOOLEAN, ApprovedToolReturns(f, ok)
      PROVE  Executor!Next /\ OneTool'
  <2>1. flow[f] \in FlowStates /\ held' = held
    BY <1>9 DEF ApprovedToolReturns, SessionInv, TypeOK
  <2>2. PICK x : Rests(f, x)
    BY <1>9, <2>1, SendRests DEF ApprovedToolReturns
  <2>3. QED
    BY <2>1, <2>2, RestsRefused DEF Executor!Next
<1>10. QED
  BY <1>3, <1>4, <1>5, <1>6, <1>7, <1>8, <1>9 DEF Next

\* The session implements ToolExecutor: however asks, approvals and resets overlap, it takes
\* no more from the executor than SupervisedExecution gives.
THEOREM ContractIsEnough == Spec => KeepsContract
<1>1. Init => Executor!Init /\ OneTool
  <2>1. SUFFICES ASSUME Init PROVE Executor!Init /\ OneTool
    OBVIOUS
  <2>2. \A c \in CallIds : Unasked(c)
    <3>1. ASSUME NEW c \in CallIds PROVE c[1] > requests
      BY <2>1, CallIdParts, BoundAssumption DEF Init, Responses
    <3>2. QED
      BY <3>1 DEF Unasked
  <2>3. \A f \in Flows : flow[f] = None
    BY <2>1 DEF Init
  <2>4. Known = {} /\ AtTool = {} /\ OneTool
    BY <2>2, <2>3 DEF Known, AtTool, OneTool, Busy
  <2>5. QED
    BY <2>1, <2>4 DEF Init, Executor!Init, Known, AtTool
<1>2. SessionInv /\ OneTool /\ [Next]_vars => [Executor!Next]_(Executor!executorVars) /\ OneTool'
  BY ContractStep
<1>3. QED
  BY <1>1, <1>2, SessionInvariant, PTL DEF Spec, KeepsContract, Executor!Spec

=============================================================================
