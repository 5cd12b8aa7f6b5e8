---------------------------- MODULE WorkflowLoop ----------------------------
(***************************************************************************)
(* A durable agent run (packages/vercel-workflows/src/workflow-loop.ts):   *)
(* model step, tool batch, pause for a person, resume, until the model is  *)
(* done, with every step retried; its tool batches are dispatched by       *)
(* orchestrateWorkflowToolBatch (workflow-children.ts), and each call is   *)
(* prepared by the agent loop (packages/agent/src/loop/run.ts).            *)
(*                                                                         *)
(* The host reads the tools anew in every step, so a tool's policy may     *)
(* change between a question and its answer, between the preflight of a    *)
(* batch and the step of one call, and between two attempts. The ids of    *)
(* calls come from the provider, which may use them again in a later turn. *)
(***************************************************************************)
EXTENDS Integers, SequencesExt

CONSTANTS
  Calls,       \* the ids of tool calls
  Enveloped,   \* the calls whose arguments are an execution envelope
  MaxTurns,    \* maxTurns
  MaxAttempts, \* maxAttempts of each step
  Concurrency  \* concurrency of a batch

Steps == {"model", "batch", "await", "close"}

ASSUME WorkflowAssumption ==
  /\ Enveloped \subseteq Calls
  /\ MaxTurns \in Nat /\ MaxAttempts \in [Steps -> Nat] /\ Concurrency \in Nat

VARIABLES
  step,      \* what the run is doing; a batch is prepared, then executed
  attempt,   \* the attempt of the step
  turn,      \* the turns begun
  calls,     \* the calls of this turn, in the model's order
  policy,    \* the policy of each call's tool, as it is now
  responses, \* toolHitlResponses: the answers the batch is given
  awaiting,  \* toolAwaitingRequests: the requests of the pause that is resumed
  status,    \* where each call of the batch is
  result,    \* how the run ended
  asked,     \* history: the calls asked about in this turn
  answers,   \* history: what the person answered in this turn
  open,      \* history: the calls whose tool was started and has not ended
  cut        \* history: the calls that waited when another was rejected

batch == <<calls, policy, responses, awaiting, asked, answers>>
dispatch == <<open, cut>>
vars == <<step, attempt, turn, status, result, batch, dispatch>>

Policies == [manual : BOOLEAN, background : BOOLEAN]
Automatic == [manual |-> FALSE, background |-> FALSE]

\* The id of a request binds the call and, for an activated tool, its envelope.
Forms == {"plain", "background"}
Requests == [call : Calls, form : Forms]
Responses == [call : Calls, form : Forms, decision : {"approved", "denied"}]

\* A call waits for a worker, is taken by one, and runs or is settled. Its step
\* may reject, or end with a question or a failure in place of a result.
Statuses == {"waiting", "taken", "running", "done", "settled", "resultless", "rejected"}

TypeOK ==
  /\ step \in Steps \cup {"execute", "ended"}
  /\ attempt \in Nat \ {0} /\ turn \in Nat
  /\ calls \in Seq(Calls) /\ policy \in [Calls -> Policies]
  /\ responses \in Seq(Responses) /\ answers \subseteq Responses
  /\ awaiting \subseteq Requests /\ asked \subseteq Calls
  /\ status \in [Calls -> Statuses]
  /\ result \in {"none", "completed", "failed", "maxTurns"}
  /\ open \subseteq Calls /\ cut \subseteq Calls

NoStatus == [c \in Calls |-> "waiting"]

Init ==
  /\ step = "model" /\ attempt = 1 /\ turn = 1 /\ calls = <<>>
  /\ policy = [c \in Calls |-> Automatic]
  /\ responses = <<>> /\ awaiting = {} /\ status = NoStatus /\ result = "none"
  /\ asked = {} /\ answers = {} /\ open = {} /\ cut = {}

-----------------------------------------------------------------------------
(* The agent loop prepares a call.                                         *)

Malformed(c) == policy[c].background /\ c \notin Enveloped

Form(c) == IF policy[c].background THEN "background" ELSE "plain"

\* Faulty: an approval counts under any id of the call.
ExactResponsesAny(c) ==
  {i \in DOMAIN responses : responses[i].call = c}

\* Where the answers to the very request of a call are among the responses.
ExactResponses(c) ==
  {i \in DOMAIN responses : responses[i].call = c /\ responses[i].form = Form(c)}

\* Faulty: a denial counts under its own id only.
IsDeniedExactly(c) == FALSE

\* A denial counts under any id of the call.
IsDenied(c) == \E r \in Range(responses) : r.call = c /\ r.decision = "denied"

\* The first exact response decides, then a denial under another id.
Verdict(c) ==
  IF ExactResponses(c) # {}
  THEN LET first == CHOOSE i \in ExactResponses(c) : \A j \in ExactResponses(c) : i <= j
       IN responses[first].decision
  ELSE IF IsDenied(c) THEN "denied" ELSE "none"

\* Faulty: only the policy decides whether a call is asked about.
IsOutstandingNever(c) == FALSE

IsOutstanding(c) == \E r \in awaiting : r.call = c

\* Faulty: the policy is read before the answers, as it once was.
PreparedByPolicy(c) ==
  CASE Malformed(c) -> "result"
    [] ~Malformed(c) /\ ~policy[c].manual -> "execute"
    [] ~Malformed(c) /\ policy[c].manual ->
         IF Verdict(c) = "none" THEN "pending"
         ELSE IF Verdict(c) = "denied" THEN "result" ELSE "execute"

\* The first attempt of a batch has neither responses nor requests, so nothing
\* but the policy decides on it.
Prepared(c) ==
  CASE Malformed(c) -> "result"
    [] ~Malformed(c) /\ Verdict(c) = "denied" -> "result"
    [] ~Malformed(c) /\ Verdict(c) = "approved" -> "execute"
    [] ~Malformed(c) /\ Verdict(c) = "none" ->
         IF policy[c].manual \/ IsOutstanding(c) THEN "pending" ELSE "execute"

\* Faulty: the answered calls of the batch no longer wait for the others.
PendingCallsUnlessAnswered ==
  {c \in Range(calls) : Prepared(c) = "pending" /\ responses = <<>>}

PendingCalls == {c \in Range(calls) : Prepared(c) = "pending"}

-----------------------------------------------------------------------------
(* Steps and their retries.                                                *)

AtLeastOne(n) == IF n > 1 THEN n ELSE 1

End(how) == step' = "ended" /\ result' = how /\ attempt' = 1

Begin(next) == step' = next /\ attempt' = 1 /\ UNCHANGED result

\* A step that rejects is run again from its start, or fails the run.
Reject(s, restart) ==
  /\ IF attempt < AtLeastOne(MaxAttempts[s])
     THEN step' = restart /\ attempt' = attempt + 1 /\ UNCHANGED result
     ELSE End("failed")
  /\ status' = NoStatus /\ UNCHANGED <<turn, batch, dispatch>>

NextTurn ==
  IF turn < AtLeastOne(MaxTurns)
  THEN Begin("model") /\ turn' = turn + 1
  ELSE End("maxTurns") /\ UNCHANGED turn

\* Faulty: the answers of earlier turns stay in the batch's responses.
EarlierResponses == responses

\* The responses of a new batch.
NewResponses == <<>>

\* The model asks for calls: a new batch, with answers of its own.
ModelCalls ==
  /\ step = "model" /\ Begin("batch")
  /\ \E chosen \in SUBSET Calls :
       /\ chosen # {} /\ IsFiniteSet(chosen)
       /\ calls' \in SetToSeqs(chosen)
       /\ policy' \in [Calls -> Policies]
       /\ \A c \in Calls \ chosen : policy'[c] = Automatic
  /\ responses' = NewResponses /\ awaiting' = {} /\ asked' = {} /\ answers' = {}
  /\ UNCHANGED <<turn, status, dispatch>>

ModelContinues ==
  /\ step = "model" /\ NextTurn
  /\ UNCHANGED <<status, batch, dispatch>>

ModelDone ==
  /\ step = "model" /\ Begin("close")
  /\ UNCHANGED <<turn, status, batch, dispatch>>

ModelRejects == step = "model" /\ Reject("model", "model")

CloseStream ==
  /\ step = "close" /\ End("completed")
  /\ UNCHANGED <<turn, status, batch, dispatch>>

CloseRejects == step = "close" /\ Reject("close", "close")

-----------------------------------------------------------------------------
(* A batch: all calls are prepared before any is dispatched.               *)

Preflight ==
  /\ step = "batch"
  /\ IF PendingCalls # {}
     THEN /\ Begin("await")
          /\ awaiting' = {[call |-> c, form |-> Form(c)] : c \in PendingCalls}
          /\ asked' = asked \cup PendingCalls
     ELSE /\ step' = "execute" /\ UNCHANGED <<attempt, result, awaiting, asked>>
  /\ cut' = {} /\ UNCHANGED <<turn, calls, policy, responses, status, answers, open>>

PreflightRejects == step = "batch" /\ Reject("batch", "batch")

\* A preflight that reports a failure instead of rejecting is not retried.
PreflightFails ==
  /\ step = "batch" /\ End("failed")
  /\ UNCHANGED <<turn, status, batch, dispatch>>

At(s) == {c \in Range(calls) : status[c] = s}

Busy == At("taken") \cup At("running")

\* Faulty: a worker whose own call was not rejected goes on.
DispatchingAlways == TRUE

\* The workers go on until a call is rejected.
Dispatching == At("rejected") = {}

\* The workers take the calls in order.
Take ==
  /\ step = "execute" /\ Dispatching /\ At("waiting") # {}
  /\ Cardinality(Busy) < AtLeastOne(Concurrency)
  /\ LET first == CHOOSE i \in DOMAIN calls :
           /\ status[calls[i]] = "waiting"
           /\ \A j \in 1..(i - 1) : status[calls[j]] # "waiting"
     IN status' = [status EXCEPT ![calls[first]] = "taken"]
  /\ UNCHANGED <<step, attempt, turn, result, batch, dispatch>>

StatusAfter(prepared) ==
  CASE prepared = "execute" -> "running"
    [] prepared = "result" -> "settled"
    [] prepared = "pending" -> "resultless"

\* The step of one call prepares it again, by the policy it reads itself.
Start(c) ==
  /\ step = "execute" /\ status[c] = "taken"
  /\ status' = [status EXCEPT ![c] = StatusAfter(Prepared(c))]
  /\ open' = IF Prepared(c) = "execute" THEN open \cup {c} ELSE open
  /\ UNCHANGED <<step, attempt, turn, result, batch, cut>>

\* The tool answers, with a result or with an error as its result.
Finish(c) ==
  /\ step = "execute" /\ status[c] = "running"
  /\ status' = [status EXCEPT ![c] = "done"] /\ open' = open \ {c}
  /\ UNCHANGED <<step, attempt, turn, result, batch, cut>>

\* Only a rejection keeps the workers from taking further calls.
CallFails(c) ==
  /\ step = "execute" /\ status[c] \in {"taken", "running"}
  /\ status' \in {[status EXCEPT ![c] = s] : s \in {"resultless", "rejected"}}
  /\ open' = open \ {c}
  /\ cut' = IF status'[c] = "rejected" THEN cut \cup At("waiting") ELSE cut
  /\ UNCHANGED <<step, attempt, turn, result, batch>>

\* Faulty: the first rejection ends the wait for the workers.
DrainedOnRejection == (Busy = {} /\ At("waiting") = {}) \/ ~Dispatching

\* Every worker has returned.
Drained == Busy = {} /\ (At("waiting") = {} \/ ~Dispatching)

\* Faulty: calls without a result fail the batch, rejected ones do not.
IsCompleteUnlessResultless == At("resultless") = {}

\* One result for each call, or the batch has failed.
IsComplete == Range(calls) = At("done") \cup At("settled")

Merge ==
  /\ step = "execute" /\ Drained
  /\ IF IsComplete THEN NextTurn ELSE End("failed") /\ UNCHANGED turn
  /\ status' = NoStatus /\ UNCHANGED <<batch, dispatch>>

MergeRejects == step = "execute" /\ Drained /\ Reject("batch", "batch")

-----------------------------------------------------------------------------
(* The pause, and the host's tools.                                        *)

\* Faulty: a resume is given the newest answer only.
LatestResponse(r) == <<r>>

AllResponses(r) == Append(responses, r)

\* The host takes one answer to a request of this pause; the batch is prepared
\* again with all answers so far.
Answer(request, decision) ==
  LET r == [call |-> request.call, form |-> request.form, decision |-> decision]
  IN /\ step = "await" /\ request \in awaiting /\ Begin("batch")
     /\ responses' = AllResponses(r) /\ answers' = answers \cup {r}
     /\ UNCHANGED <<turn, calls, policy, awaiting, status, asked, dispatch>>

AwaitRejects == step = "await" /\ Reject("await", "await")

\* The policy or the execution mode of a tool is changed.
ChangePolicy(c) ==
  /\ step \in {"batch", "execute", "await"} /\ c \in Range(calls)
  /\ \E p \in Policies \ {policy[c]} : policy' = [policy EXCEPT ![c] = p]
  /\ UNCHANGED <<step, attempt, turn, calls, responses, awaiting, status, result, asked, answers,
                 dispatch>>

Host ==
  \/ ModelCalls \/ ModelContinues \/ ModelDone \/ ModelRejects
  \/ CloseStream \/ CloseRejects
  \/ Preflight \/ PreflightRejects \/ PreflightFails
  \/ Take \/ Merge \/ MergeRejects
  \/ \E c \in Calls : Start(c) \/ Finish(c) \/ CallFails(c)

Person == \E request \in Requests, decision \in {"approved", "denied"} : Answer(request, decision)

Next == Host \/ Person \/ AwaitRejects \/ \E c \in Calls : ChangePolicy(c)

Spec == Init /\ [][Next]_vars

\* The platform runs the steps of a workflow until it has ended, and the person
\* answers at last. Nothing makes a hook reject or a policy change.
FairSpec == Spec /\ WF_vars(Host) /\ WF_vars(Person)

-----------------------------------------------------------------------------

Starts(c) == status[c] # "running" /\ status'[c] = "running"

IsApproved(c) ==
  \E a \in answers : a.call = c /\ a.form = Form(c) /\ a.decision = "approved"

\* A call runs only if the person approved it, in this turn and in the very form
\* it runs in, when its tool asks for approval, when the resumed pause asked
\* about it, or when it was denied in any form; and a person who denied a call is
\* not asked about it again in the turn (run.ts, prepareApprovalCall: an answer
\* binds the call of a pause, whatever becomes of its policy and mode, and never
\* a call of a later turn under the same id).
AnswersBindTheCall ==
  /\ [][\A c \in Calls :
          /\ Starts(c)
          /\ \/ policy[c].manual \/ \E r \in awaiting : r.call = c
             \/ \E a \in answers : a.call = c /\ a.decision = "denied"
          => IsApproved(c)]_vars
  /\ [][\A c \in Calls :
          (step' = "await" /\ step # "await" /\ \E r \in awaiting' : r.call = c) =>
            \A a \in answers : a.call = c => a.decision = "approved"]_vars

\* A call the person was asked about runs only in a form they approved
\* (patterns/AGENT_HITL.md: a changed payload or mode needs a fresh approval).
RunsInApprovedForm ==
  [][\A c \in asked : Starts(c) => IsApproved(c)]_vars

\* Nothing of a batch runs while a request of its latest pause is unanswered,
\* except that of a call without an envelope, which can neither be run nor asked
\* about again while its tool is activated (run.ts, prepareToolBatch: pending
\* requests fence all execution).
PausesFenceTheBatch ==
  [][(\E c \in Calls : Starts(c)) =>
       \A r \in awaiting : r.call \in Enveloped =>
         \E a \in answers : a.call = r.call]_vars

\* A rejection stops the batch (workflow-children.ts, orchestrateWorkflowToolBatch):
\* a call that waited when another was rejected is not run until the batch is
\* prepared again, no retry of the batch runs a call while its tool still runs for
\* an earlier attempt, and neither a further turn nor the end of the run comes
\* beside a running tool, nor a turn for a batch that was cut off.
RejectionStopsTheBatch ==
  [][/\ \A c \in Calls : Starts(c) => c \notin cut /\ c \notin open
     /\ turn' # turn => cut = {}
     /\ turn' # turn \/ (step' = "ended" /\ step # "ended") => open = {}]_vars

\* If the person answers what they are asked, the run ends, however often the
\* policies change (workflow-loop.ts, runVercelAgentWorkflow: the answers of a
\* batch accumulate, so no call is asked about twice in one form).
RunEnds == <>(step = "ended")

=============================================================================
