------------------------ MODULE WorkflowLoopProofs ------------------------
(***************************************************************************)
(* Theorems about WorkflowLoop, for any calls, policies and numbers of     *)
(* turns, attempts and workers: its state is well typed, the answers of a  *)
(* person bind the calls of their turn, the requests of a pause fence the  *)
(* batch, and a rejected call stops it. That the run ends is liveness and  *)
(* stays with TLC.                                                         *)
(***************************************************************************)
EXTENDS WorkflowLoop, FiniteSetTheorems, TLAPS

-----------------------------------------------------------------------------
(* The decision on a call.                                                 *)

\* Of some positions of a list, one comes first.
LEMMA LeastPosition ==
  ASSUME NEW n \in Nat, NEW S \in SUBSET (1..n), S # {}
  PROVE  \E least \in S : \A j \in S : least <= j
<1> DEFINE Before(j) == {k \in S : k < j}
           befores == {Before(j) : j \in S}
<1>1. IsWellFoundedOn(StrictSubsetOrdering(1..n), SUBSET (1..n))
  <2>1. IsFiniteSet(1..n)
    BY FS_Interval
  <2>. QED
    BY <2>1, FS_StrictSubsetOrderingWellFounded, FS_FiniteSubsetsOfFinite
<1>2. befores \subseteq SUBSET (1..n) /\ befores # {}
  OBVIOUS
<1>3. PICK fewest \in befores :
        \A B \in befores : <<B, fewest>> \notin StrictSubsetOrdering(1..n)
  <2>. HIDE DEF befores
  <2>. QED
    BY <1>1, <1>2, WFMin
<1>4. PICK least \in S : fewest = Before(least)
  OBVIOUS
<1>. HIDE DEF befores
<1>5. \A j \in S : least <= j
  <2>. SUFFICES ASSUME NEW j \in S, j < least PROVE FALSE
    OBVIOUS
  <2>1. j \in Before(least) /\ j \notin Before(j)
    OBVIOUS
  <2>2. \A k \in Before(j) : k \in Before(least)
    OBVIOUS
  <2>3. <<Before(j), Before(least)>> \in StrictSubsetOrdering(1..n)
    BY <2>1, <2>2 DEF StrictSubsetOrdering
  <2>4. Before(j) \in befores
    BY DEF befores
  <2>. QED
    BY <1>3, <1>4, <2>3, <2>4
<1>. QED
  BY <1>5

\* If a call has exact responses, one of them is its verdict.
LEMMA ExactVerdict ==
  ASSUME TypeOK, NEW c \in Calls, ExactResponses(c) # {}
  PROVE  \E r \in Range(responses) :
           r.call = c /\ r.form = Form(c) /\ r.decision = Verdict(c)
<1> DEFINE E == ExactResponses(c)
           IsFirst(i) == \A j \in E : i <= j
           first == CHOOSE i \in E : IsFirst(i)
<1>1. E \in SUBSET (1..Len(responses)) /\ Len(responses) \in Nat
  BY DEF TypeOK, ExactResponses
<1>2. \E i \in E : IsFirst(i)
  <2>. HIDE DEF E
  <2>. QED
    BY <1>1, LeastPosition DEF E
<1>3. first \in E
  BY <1>2
<1>4. Verdict(c) = responses[first].decision
  BY DEF Verdict
<1>. QED
  BY <1>3, <1>4 DEF ExactResponses, Range

\* What a verdict says of the responses.
LEMMA VerdictFollowsResponses ==
  ASSUME TypeOK, NEW c \in Calls
  PROVE  /\ Verdict(c) \in {"approved", "denied", "none"}
         /\ Verdict(c) = "approved" =>
              \E r \in Range(responses) :
                r.call = c /\ r.form = Form(c) /\ r.decision = "approved"
         /\ Verdict(c) # "none" => \E r \in Range(responses) : r.call = c
         /\ Verdict(c) = "none" => ~IsDenied(c)
<1>1. CASE ExactResponses(c) # {}
  <2>1. PICK r \in Range(responses) :
          r.call = c /\ r.form = Form(c) /\ r.decision = Verdict(c)
    BY <1>1, ExactVerdict
  <2>2. r \in Responses
    BY DEF TypeOK, Range
  <2>. QED
    BY <2>1, <2>2 DEF Responses
<1>2. CASE ExactResponses(c) = {}
  BY <1>2 DEF Verdict, IsDenied
<1>. QED
  BY <1>1, <1>2

-----------------------------------------------------------------------------
(* Type correctness.                                                       *)

LEMMA TypeStep ==
  ASSUME TypeOK, [Next]_vars
  PROVE  TypeOK'
<1>. USE DEF TypeOK, batch, dispatch
<1>1. CASE ModelCalls
  <2>1. PICK chosen \in SUBSET Calls :
          /\ IsFiniteSet(chosen) /\ calls' \in SetToSeqs(chosen)
          /\ policy' \in [Calls -> Policies]
    BY <1>1 DEF ModelCalls
  <2>2. calls' \in Seq(chosen)
    <3>1. Cardinality(chosen) \in Nat
      BY <2>1, FS_CardinalityType
    <3>. QED
      BY <2>1, <3>1 DEF SetToSeqs
  <2>3. calls' \in Seq(Calls)
    BY <2>2
  <2>. QED
    BY <1>1, <2>1, <2>3 DEF ModelCalls, Begin, NewResponses, Steps
<1>2. CASE ModelContinues
  BY <1>2 DEF ModelContinues, NextTurn, Begin, End, Steps
<1>3. CASE ModelDone
  BY <1>3 DEF ModelDone, Begin, Steps
<1>4. CASE ModelRejects \/ CloseRejects \/ PreflightRejects \/ MergeRejects \/ AwaitRejects
  BY <1>4 DEF ModelRejects, CloseRejects, PreflightRejects, MergeRejects, AwaitRejects,
    Reject, End, Steps, NoStatus, Statuses
<1>5. CASE CloseStream \/ PreflightFails
  BY <1>5 DEF CloseStream, PreflightFails, End
<1>6. CASE Preflight
  <2>1. PendingCalls \subseteq Calls
    BY DEF PendingCalls, Range
  <2>2. \A c \in PendingCalls : [call |-> c, form |-> Form(c)] \in Requests
    BY <2>1 DEF Requests, Form, Forms
  <2>. QED
    BY <1>6, <2>1, <2>2 DEF Preflight, Begin, Steps
<1>7. CASE Take
  BY <1>7 DEF Take, Statuses
<1>8. ASSUME NEW c \in Calls, Start(c) \/ Finish(c) \/ CallFails(c) PROVE TypeOK'
  <2>1. CASE Start(c)
    <3>1. Prepared(c) \in {"execute", "result", "pending"}
      BY VerdictFollowsResponses DEF Prepared
    <3>2. StatusAfter(Prepared(c)) \in Statuses
      BY <3>1 DEF StatusAfter, Statuses
    <3>. QED
      BY <2>1, <3>2 DEF Start
  <2>2. CASE Finish(c)
    BY <2>2 DEF Finish, Statuses
  <2>3. CASE CallFails(c)
    <3>1. At("waiting") \subseteq Calls
      BY DEF At, Range
    <3>. QED
      BY <2>3, <3>1 DEF CallFails, Statuses
  <2>. QED
    BY <1>8, <2>1, <2>2, <2>3
<1>9. CASE Merge
  BY <1>9 DEF Merge, NextTurn, Begin, End, Steps, NoStatus, Statuses
<1>10. ASSUME NEW request \in Requests, NEW decision \in {"approved", "denied"},
              Answer(request, decision)
       PROVE TypeOK'
  <2>1. [call |-> request.call, form |-> request.form, decision |-> decision] \in Responses
    BY DEF Requests, Responses
  <2>. QED
    BY <1>10, <2>1 DEF Answer, AllResponses, Begin, Steps
<1>11. ASSUME NEW c \in Calls, ChangePolicy(c) PROVE TypeOK'
  BY <1>11 DEF ChangePolicy
<1>12. CASE UNCHANGED vars
  BY <1>12 DEF vars
<1>. QED
  BY <1>1, <1>2, <1>3, <1>4, <1>5, <1>6, <1>7, <1>8, <1>9, <1>10, <1>11, <1>12
  DEF Next, Host, Person

\* Every reachable state is well typed.
THEOREM TypeCorrect == Spec => []TypeOK
<1>1. Init => TypeOK
  BY DEF Init, TypeOK, Steps, Automatic, Policies, NoStatus, Statuses
<1>. QED
  BY <1>1, TypeStep, PTL DEF Spec

-----------------------------------------------------------------------------
(* Answers and pauses.                                                     *)

\* The batch is given what the person answered in its turn, and nothing else.
AnswersAreResponses == answers = Range(responses)

\* A pause asks about calls of the batch.
PauseOfTheBatch == \A r \in awaiting : r.call \in Range(calls)

\* The person has answered each request that its call could still carry out.
Fenced == \A r \in awaiting : r.call \in Enveloped => \E a \in answers : a.call = r.call

\* The inductive invariant: a batch is executed only behind its fence.
IInv == TypeOK /\ AnswersAreResponses /\ PauseOfTheBatch /\ (step = "execute" => Fenced)

\* A batch without pending calls has its fence.
LEMMA NothingPending ==
  ASSUME IInv, PendingCalls = {}
  PROVE  Fenced
<1>. SUFFICES ASSUME NEW r \in awaiting, r.call \in Enveloped
              PROVE \E a \in answers : a.call = r.call
  BY DEF Fenced
<1> DEFINE c == r.call
<1>1. c \in Range(calls) /\ c \in Calls
  BY DEF IInv, PauseOfTheBatch, TypeOK, Range
<1>2. ~Malformed(c) /\ IsOutstanding(c)
  BY DEF Malformed, IsOutstanding
<1>3. Prepared(c) # "pending"
  BY <1>1 DEF PendingCalls
<1>4. Verdict(c) # "none"
  BY <1>2, <1>3 DEF Prepared
<1>. QED
  BY <1>1, <1>4, VerdictFollowsResponses DEF IInv, AnswersAreResponses

\* An answer is added to the responses and to the history alike.
LEMMA ResponsesGrow ==
  ASSUME TypeOK, NEW r \in Responses, responses' = Append(responses, r)
  PROVE  Range(responses') = Range(responses) \cup {r}
<1>1. DOMAIN responses = 1..Len(responses) /\ Len(responses) \in Nat
  BY DEF TypeOK
<1>2. DOMAIN responses' = 1..(Len(responses) + 1)
  BY DEF TypeOK
<1>3. \A i \in DOMAIN responses : responses'[i] = responses[i]
  BY <1>1 DEF TypeOK
<1>4. responses'[Len(responses) + 1] = r
  BY DEF TypeOK
<1>. QED
  BY <1>1, <1>2, <1>3, <1>4 DEF Range

\* What a step of the loop other than these leaves as it is.
LEMMA OtherSteps ==
  ASSUME TypeOK, [Next]_vars
  PROVE  \/ ModelCalls \/ Preflight
         \/ \E request \in Requests, decision \in {"approved", "denied"} :
              Answer(request, decision)
         \/ /\ UNCHANGED <<calls, responses, awaiting, asked, answers>>
            /\ step' = "execute" => step = "execute"
<1>1. CASE UNCHANGED vars
  BY <1>1 DEF vars, batch
<1>2. CASE Host
  BY <1>2 DEF Host, ModelContinues, ModelDone, ModelRejects, CloseStream, CloseRejects,
    PreflightRejects, PreflightFails, Take, Merge, MergeRejects, Start, Finish, CallFails,
    NextTurn, Reject, Begin, End, batch
<1>3. CASE AwaitRejects
  BY <1>3 DEF AwaitRejects, Reject, End, batch
<1>4. CASE \E c \in Calls : ChangePolicy(c)
  BY <1>4 DEF ChangePolicy
<1>. QED
  BY <1>1, <1>2, <1>3, <1>4 DEF Next, Person

LEMMA InvStep ==
  ASSUME IInv, [Next]_vars
  PROVE  IInv'
<1>1. TypeOK /\ TypeOK'
  BY TypeStep DEF IInv
<1>2. CASE ModelCalls
  BY <1>1, <1>2
  DEF ModelCalls, Begin, NewResponses, IInv, AnswersAreResponses, PauseOfTheBatch, Range
<1>3. CASE Preflight
  <2>1. CASE PendingCalls = {}
    <3>1. Fenced
      BY <2>1, NothingPending
    <3>. QED
      BY <1>1, <1>3, <2>1, <3>1
      DEF Preflight, IInv, AnswersAreResponses, PauseOfTheBatch, Fenced
  <2>2. CASE PendingCalls # {}
    <3>1. PauseOfTheBatch'
      BY <1>3, <2>2 DEF Preflight, PauseOfTheBatch, PendingCalls
    <3>. QED
      BY <1>1, <1>3, <2>2, <3>1 DEF Preflight, Begin, IInv, AnswersAreResponses
  <2>. QED
    BY <2>1, <2>2
<1>4. ASSUME NEW request \in Requests, NEW decision \in {"approved", "denied"},
             Answer(request, decision)
      PROVE IInv'
  <2> DEFINE r == [call |-> request.call, form |-> request.form, decision |-> decision]
  <2>1. r \in Responses
    BY DEF Requests, Responses
  <2>2. responses' = Append(responses, r) /\ answers' = answers \cup {r}
    BY <1>4 DEF Answer, AllResponses
  <2>3. AnswersAreResponses'
    <3>. HIDE DEF r
    <3>. QED
      BY <1>1, <2>1, <2>2, ResponsesGrow DEF IInv, AnswersAreResponses
  <2>. QED
    BY <1>1, <1>4, <2>3 DEF Answer, Begin, IInv, PauseOfTheBatch
<1>5. CASE /\ UNCHANGED <<calls, responses, awaiting, asked, answers>>
           /\ step' = "execute" => step = "execute"
  BY <1>1, <1>5 DEF IInv, AnswersAreResponses, PauseOfTheBatch, Fenced
<1>. QED
  BY <1>1, <1>2, <1>3, <1>4, <1>5, OtherSteps

LEMMA InvHolds == Spec => []IInv
<1>1. Init => IInv
  <2>1. Init => TypeOK
    BY DEF Init, TypeOK, Steps, Automatic, Policies, NoStatus, Statuses
  <2>. QED
    BY <2>1 DEF Init, IInv, AnswersAreResponses, PauseOfTheBatch, Range
<1>. QED
  BY <1>1, InvStep, PTL DEF Spec

-----------------------------------------------------------------------------
(* Action properties.                                                      *)

\* A call is run by the step of that call alone, which has prepared it so.
LEMMA OnlyStartStarts ==
  ASSUME IInv, [Next]_vars, NEW c \in Calls, Starts(c)
  PROVE  /\ step = "execute" /\ Prepared(c) = "execute"
         /\ UNCHANGED <<calls, policy, responses, awaiting, asked, answers>>
<1>. USE DEF Starts, IInv, TypeOK
<1>1. CASE ModelCalls \/ ModelContinues \/ ModelDone \/ CloseStream \/ Preflight \/ PreflightFails
  BY <1>1 DEF ModelCalls, ModelContinues, ModelDone, CloseStream, Preflight, PreflightFails
<1>2. CASE ModelRejects \/ CloseRejects \/ PreflightRejects \/ MergeRejects \/ AwaitRejects \/ Merge
  BY <1>2 DEF ModelRejects, CloseRejects, PreflightRejects, MergeRejects, AwaitRejects, Merge,
    Reject, NoStatus
<1>3. CASE Take
  BY <1>3 DEF Take
<1>4. ASSUME NEW d \in Calls, Start(d) \/ Finish(d) \/ CallFails(d)
      PROVE  c = d /\ Start(c)
  BY <1>4 DEF Start, Finish, CallFails
<1>5. ASSUME NEW d \in Calls, Start(d), c = d
      PROVE  /\ step = "execute" /\ Prepared(c) = "execute"
             /\ UNCHANGED <<calls, policy, responses, awaiting, asked, answers>>
  <2>1. StatusAfter(Prepared(c)) = "running"
    BY <1>5 DEF Start
  <2>2. Prepared(c) \in {"execute", "result", "pending"}
    BY VerdictFollowsResponses DEF Prepared
  <2>. QED
    BY <1>5, <2>1, <2>2 DEF Start, StatusAfter, batch
<1>6. CASE \/ \E request \in Requests, decision \in {"approved", "denied"} :
                Answer(request, decision)
           \/ \E d \in Calls : ChangePolicy(d)
           \/ UNCHANGED vars
  BY <1>6 DEF Answer, ChangePolicy, vars
<1>. QED
  BY <1>1, <1>2, <1>3, <1>4, <1>5, <1>6 DEF Next, Host, Person

\* A call that is executed was approved if anything asked for an approval.
LEMMA ExecutedIsApproved ==
  ASSUME IInv, NEW c \in Calls, Prepared(c) = "execute",
         \/ policy[c].manual \/ \E r \in awaiting : r.call = c
         \/ \E a \in answers : a.call = c /\ a.decision = "denied"
  PROVE  IsApproved(c)
<1>1. Verdict(c) \in {"approved", "denied", "none"}
  BY VerdictFollowsResponses DEF IInv
<1>2. CASE Verdict(c) = "approved"
  BY <1>2, VerdictFollowsResponses DEF IInv, AnswersAreResponses, IsApproved
<1>3. CASE Verdict(c) = "none"
  <2>1. ~policy[c].manual /\ ~IsOutstanding(c)
    BY <1>3 DEF Prepared
  <2>2. ~IsDenied(c)
    BY <1>3, VerdictFollowsResponses DEF IInv
  <2>. QED
    BY <2>1, <2>2 DEF IsOutstanding, IsDenied, IInv, AnswersAreResponses
<1>4. CASE Verdict(c) = "denied"
  BY <1>4 DEF Prepared
<1>. QED
  BY <1>1, <1>2, <1>3, <1>4

\* A call that is asked about has not been denied.
LEMMA AskedIsNotDenied ==
  ASSUME IInv, [Next]_vars, NEW c \in Calls,
         step' = "await", step # "await", \E r \in awaiting' : r.call = c,
         NEW a \in answers, a.call = c
  PROVE  a.decision = "approved"
<1>1. Preflight /\ PendingCalls # {}
  BY DEF Next, Host, Person, ModelCalls, ModelContinues, ModelDone, ModelRejects, CloseStream,
    CloseRejects, Preflight, PreflightRejects, PreflightFails, Take, Merge, MergeRejects, Start,
    Finish, CallFails, Answer, AwaitRejects, ChangePolicy, NextTurn, Reject, Begin, End, vars, batch
<1>2. Prepared(c) = "pending"
  BY <1>1 DEF Preflight, PendingCalls
<1>3. Verdict(c) = "none"
  BY <1>2, VerdictFollowsResponses DEF Prepared, IInv
<1>4. a.decision # "denied"
  BY <1>3, VerdictFollowsResponses DEF IsDenied, IInv, AnswersAreResponses
<1>5. a \in Responses
  BY DEF IInv, TypeOK
<1>. QED
  BY <1>4, <1>5 DEF Responses

\* A call runs only with the approval of its very form if its policy, a pause or
\* a denial asks for one, and a denied call is not asked about again
\* (run.ts, prepareApprovalCall), whenever policies change and steps are retried.
THEOREM AnswersAreBinding == Spec => AnswersBindTheCall
<1>1. ASSUME IInv, [Next]_vars
      PROVE  /\ \A c \in Calls :
                  /\ Starts(c)
                  /\ \/ policy[c].manual \/ \E r \in awaiting : r.call = c
                     \/ \E a \in answers : a.call = c /\ a.decision = "denied"
                  => IsApproved(c)
             /\ \A c \in Calls :
                  (step' = "await" /\ step # "await" /\ \E r \in awaiting' : r.call = c) =>
                    \A a \in answers : a.call = c => a.decision = "approved"
  <2>1. ASSUME NEW c \in Calls, Starts(c) PROVE Prepared(c) = "execute"
    BY <1>1, <2>1, OnlyStartStarts
  <2>. QED
    BY <1>1, <2>1, ExecutedIsApproved, AskedIsNotDenied
<1>. QED
  BY <1>1, InvHolds, PTL DEF Spec, AnswersBindTheCall

\* Nothing of a batch runs before the requests of its pause are answered, but for
\* those of calls without an envelope, be these all, some or none (run.ts,
\* prepareToolBatch: a pending call keeps the batch from execution).
THEOREM BatchesAreFenced == Spec => PausesFenceTheBatch
<1>1. ASSUME IInv, [Next]_vars, NEW c \in Calls, Starts(c)
      PROVE  \A r \in awaiting : r.call \in Enveloped => \E a \in answers : a.call = r.call
  <2>1. step = "execute"
    BY <1>1, OnlyStartStarts
  <2>. QED
    BY <1>1, <2>1 DEF IInv, Fenced
<1>2. IInv /\ [Next]_vars =>
        ((\E c \in Calls : Starts(c)) =>
          \A r \in awaiting : r.call \in Enveloped => \E a \in answers : a.call = r.call)
  BY <1>1
<1>. QED
  BY <1>2, InvHolds, PTL DEF Spec, PausesFenceTheBatch

-----------------------------------------------------------------------------
(* Rejections.                                                             *)

\* Only a batch in execution has calls that are dispatched, and its own ones.
Dispatched ==
  /\ step # "execute" => status = NoStatus
  /\ \A c \in Calls : status[c] # "waiting" => c \in Range(calls)

\* A started tool is run by a worker, which does not return before it has ended.
Worked == open # {} => step = "execute" /\ open \subseteq At("running")

\* Calls that were cut off wait, behind the rejected one, until the batch is
\* prepared again or the run has ended.
CutOff ==
  /\ cut # {} => step \in {"batch", "execute", "ended"}
  /\ step = "execute" /\ cut # {} => cut \subseteq At("waiting") /\ At("rejected") # {}

RInv == TypeOK /\ Dispatched /\ Worked /\ CutOff

\* A worker takes a call that waits.
LEMMA TakenHasWaited ==
  ASSUME TypeOK, Take
  PROVE  \E c \in Calls : status[c] = "waiting" /\ c \in Range(calls)
                          /\ status' = [status EXCEPT ![c] = "taken"]
<1> DEFINE W == {i \in DOMAIN calls : status[calls[i]] = "waiting"}
           IsFirst(i) == /\ status[calls[i]] = "waiting"
                         /\ \A j \in 1..(i - 1) : status[calls[j]] # "waiting"
           first == CHOOSE i \in DOMAIN calls : IsFirst(i)
<1>1. DOMAIN calls = 1..Len(calls) /\ Len(calls) \in Nat
  BY DEF TypeOK
<1>2. W \in SUBSET (1..Len(calls)) /\ W # {}
  BY <1>1 DEF Take, At, Range
<1>3. PICK least \in W : \A j \in W : least <= j
  <2>. HIDE DEF W
  <2>. QED
    BY <1>1, <1>2, LeastPosition
<1>4. IsFirst(least)
  BY <1>1, <1>3
<1>5. first \in DOMAIN calls /\ IsFirst(first)
  BY <1>3, <1>4
<1>6. status' = [status EXCEPT ![calls[first]] = "taken"]
  BY DEF Take
<1>7. first \in DOMAIN calls /\ status[calls[first]] = "waiting"
  BY <1>5
<1>. HIDE DEF first
<1>8. calls[first] \in Calls
  BY <1>1, <1>7 DEF TypeOK
<1>9. calls[first] \in Range(calls)
  BY <1>7 DEF Range
<1>. QED
  BY <1>6, <1>7, <1>8, <1>9

LEMMA RInvStep ==
  ASSUME RInv, [Next]_vars
  PROVE  RInv'
<1>. USE DEF batch, dispatch
<1>1. TypeOK /\ TypeOK'
  BY TypeStep DEF RInv
<1>. SUFFICES Dispatched' /\ Worked' /\ CutOff'
  BY <1>1 DEF RInv
<1>2. CASE ModelCalls \/ ModelContinues \/ ModelDone \/ CloseStream \/ PreflightFails
  BY <1>1, <1>2 DEF ModelCalls, ModelContinues, ModelDone, CloseStream, PreflightFails, NextTurn,
    Begin, End, RInv, Dispatched, Worked, CutOff, NoStatus
<1>3. CASE ModelRejects \/ CloseRejects \/ PreflightRejects \/ AwaitRejects
  BY <1>1, <1>3 DEF ModelRejects, CloseRejects, PreflightRejects, AwaitRejects, Reject, End, RInv,
    Dispatched, Worked, CutOff, NoStatus
<1>4. CASE Merge \/ MergeRejects
  <2>1. open = {} /\ step = "execute"
    BY <1>4 DEF Merge, MergeRejects, Drained, Busy, RInv, Worked
  <2>2. status' = NoStatus /\ UNCHANGED <<calls, open, cut>> /\ step' # "execute"
    BY <1>4 DEF Merge, MergeRejects, Reject, NextTurn, Begin, End
  <2>3. cut # {} => step' \in {"batch", "ended"}
    <3>1. CASE Merge
      <4>1. cut # {} => ~IsComplete
        <5>1. ASSUME NEW c \in cut PROVE c \in Range(calls) /\ status[c] = "waiting"
          BY <2>1, <5>1 DEF RInv, CutOff, At
        <5>. QED
          BY <5>1 DEF IsComplete, At
      <4>. QED
        BY <3>1, <4>1 DEF Merge, End
    <3>2. CASE MergeRejects
      BY <3>2 DEF MergeRejects, Reject, End
    <3>. QED
      BY <1>4, <3>1, <3>2
  <2>. QED
    BY <2>1, <2>2, <2>3 DEF Dispatched, Worked, CutOff, NoStatus
<1>5. CASE Preflight
  <2>1. status = NoStatus /\ open = {} /\ cut' = {} /\ UNCHANGED <<calls, status, open>>
    BY <1>5 DEF Preflight, RInv, Dispatched, Worked
  <2>. QED
    BY <2>1 DEF Dispatched, Worked, CutOff, NoStatus
<1>6. CASE Take
  <2>1. PICK c \in Calls : /\ status[c] = "waiting" /\ c \in Range(calls)
                          /\ status' = [status EXCEPT ![c] = "taken"]
    BY <1>1, <1>6, TakenHasWaited
  <2>2. step = "execute" /\ cut = {} /\ UNCHANGED <<step, calls, open, cut>>
    BY <1>6 DEF Take, Dispatching, RInv, CutOff
  <2>. QED
    BY <1>1, <2>1, <2>2 DEF TypeOK, RInv, Dispatched, Worked, CutOff, At
<1>7. ASSUME NEW c \in Calls, Start(c)
      PROVE  Dispatched' /\ Worked' /\ CutOff'
  <2>1. /\ step = "execute" /\ status[c] = "taken" /\ UNCHANGED <<step, calls, cut>>
        /\ status' = [status EXCEPT ![c] = StatusAfter(Prepared(c))]
        /\ open' = IF Prepared(c) = "execute" THEN open \cup {c} ELSE open
    BY <1>7 DEF Start
  <2>2. c \in Range(calls) /\ c \notin open /\ c \notin At("waiting") /\ c \notin At("rejected")
    BY <2>1 DEF RInv, Dispatched, Worked, At
  <2>3. Prepared(c) = "execute" => StatusAfter(Prepared(c)) = "running"
    BY DEF StatusAfter
  <2>. HIDE DEF batch
  <2>4. Dispatched'
    BY <1>1, <2>1, <2>2 DEF TypeOK, RInv, Dispatched
  <2>5. Worked'
    BY <1>1, <2>1, <2>2, <2>3 DEF TypeOK, RInv, Worked, At
  <2>6. CutOff'
    BY <1>1, <2>1, <2>2 DEF TypeOK, RInv, CutOff, At
  <2>. QED
    BY <2>4, <2>5, <2>6
<1>8. ASSUME NEW c \in Calls, NEW s \in {"done", "resultless", "rejected"},
             Finish(c) \/ CallFails(c), status' = [status EXCEPT ![c] = s]
      PROVE  Dispatched' /\ Worked' /\ CutOff'
  <2>1. /\ step = "execute" /\ status[c] \in {"taken", "running"} /\ UNCHANGED <<step, calls>>
        /\ open' = open \ {c}
        /\ cut' = IF s = "rejected" THEN cut \cup At("waiting") ELSE cut
    BY <1>1, <1>8 DEF Finish, CallFails, TypeOK
  <2>2. c \in Range(calls)
    BY <2>1 DEF RInv, Dispatched
  <2>3. Dispatched'
    BY <1>1, <1>8, <2>1, <2>2 DEF TypeOK, RInv, Dispatched
  <2>7. Worked'
    BY <1>1, <1>8, <2>1 DEF TypeOK, RInv, Worked, At
  <2>4. At("waiting")' = At("waiting") /\ At("rejected") \subseteq At("rejected")'
    BY <1>1, <1>8, <2>1 DEF TypeOK, At
  <2>5. s = "rejected" => At("rejected")' # {}
    BY <1>1, <1>8, <2>1, <2>2 DEF TypeOK, At
  <2>6. cut' # {} => cut' \subseteq At("waiting")' /\ At("rejected")' # {}
    BY <2>1, <2>4, <2>5 DEF RInv, CutOff
  <2>. QED
    BY <2>1, <2>3, <2>7, <2>6 DEF CutOff
<1>9. ASSUME NEW c \in Calls, Finish(c) \/ CallFails(c)
      PROVE  \E s \in {"done", "resultless", "rejected"} : status' = [status EXCEPT ![c] = s]
  BY <1>9 DEF Finish, CallFails
<1>10. CASE \E request \in Requests, decision \in {"approved", "denied"} : Answer(request, decision)
  BY <1>10 DEF Answer, Begin, RInv, Dispatched, Worked, CutOff, At
<1>11. CASE \/ \E c \in Calls : ChangePolicy(c)
            \/ UNCHANGED vars
  BY <1>11 DEF ChangePolicy, vars, RInv, Dispatched, Worked, CutOff, At
<1>. QED
  BY <1>2, <1>3, <1>4, <1>5, <1>6, <1>7, <1>8, <1>9, <1>10, <1>11 DEF Next, Host, Person

LEMMA RInvHolds == Spec => []RInv
<1>1. Init => RInv
  <2>1. Init => TypeOK
    BY DEF Init, TypeOK, Steps, Automatic, Policies, NoStatus, Statuses
  <2>. QED
    BY <2>1 DEF Init, RInv, Dispatched, Worked, CutOff, NoStatus
<1>. QED
  BY <1>1, RInvStep, PTL DEF Spec

\* A call is run by a worker that has taken it.
LEMMA StartedWasTaken ==
  ASSUME TypeOK, [Next]_vars, NEW c \in Calls, Starts(c)
  PROVE  step = "execute" /\ status[c] = "taken"
<1>. USE DEF Starts, TypeOK
<1>1. CASE ModelCalls \/ ModelContinues \/ ModelDone \/ CloseStream \/ Preflight \/ PreflightFails
  BY <1>1 DEF ModelCalls, ModelContinues, ModelDone, CloseStream, Preflight, PreflightFails
<1>2. CASE ModelRejects \/ CloseRejects \/ PreflightRejects \/ MergeRejects \/ AwaitRejects \/ Merge
  BY <1>2 DEF ModelRejects, CloseRejects, PreflightRejects, MergeRejects, AwaitRejects, Merge,
    Reject, NoStatus
<1>3. CASE Take
  BY <1>3 DEF Take
<1>4. ASSUME NEW d \in Calls, Start(d) \/ Finish(d) \/ CallFails(d)
      PROVE  step = "execute" /\ status[c] = "taken"
  BY <1>4 DEF Start, Finish, CallFails
<1>5. CASE \/ \E request \in Requests, decision \in {"approved", "denied"} :
                Answer(request, decision)
           \/ \E d \in Calls : ChangePolicy(d)
           \/ UNCHANGED vars
  BY <1>5 DEF Answer, ChangePolicy, vars
<1>. QED
  BY <1>1, <1>2, <1>3, <1>4, <1>5 DEF Next, Host, Person

\* A rejected call keeps the waiting ones from running until the batch is prepared
\* again, and no retry, further turn or end of the run comes beside a tool that is
\* still running (workflow-children.ts, orchestrateWorkflowToolBatch).
THEOREM RejectionsStopBatches == Spec => RejectionStopsTheBatch
<1>1. ASSUME RInv, [Next]_vars, NEW c \in Calls, Starts(c)
      PROVE  c \notin cut /\ c \notin open
  <2>1. step = "execute" /\ status[c] = "taken"
    BY <1>1, StartedWasTaken DEF RInv
  <2>. QED
    BY <1>1, <2>1 DEF RInv, Worked, CutOff, At
<1>2. ASSUME RInv, [Next]_vars, turn' # turn
      PROVE  cut = {} /\ open = {}
  <2>1. ModelContinues \/ (Merge /\ IsComplete)
    BY <1>2 DEF Next, Host, Person, ModelCalls, ModelDone, ModelRejects, CloseStream, CloseRejects,
      Preflight, PreflightRejects, PreflightFails, Take, Merge, MergeRejects, Start, Finish,
      CallFails, Answer, AwaitRejects, ChangePolicy, Reject, vars
  <2>2. CASE ModelContinues
    BY <1>2, <2>2 DEF ModelContinues, RInv, Worked, CutOff
  <2>3. CASE Merge /\ IsComplete
    <3>1. step = "execute" /\ Busy = {}
      BY <2>3 DEF Merge, Drained
    <3>2. open = {}
      BY <1>2, <3>1 DEF RInv, Worked, Busy
    <3>3. ASSUME NEW c \in cut PROVE FALSE
      <4>1. c \in Range(calls) /\ status[c] = "waiting"
        BY <1>2, <3>1, <3>3 DEF RInv, CutOff, At
      <4>. QED
        BY <2>3, <4>1 DEF IsComplete, At
    <3>. QED
      BY <3>2, <3>3
  <2>. QED
    BY <2>1, <2>2, <2>3
<1>3. ASSUME RInv, [Next]_vars, step' = "ended", step # "ended"
      PROVE  open = {}
  <2>1. step # "execute" \/ Busy = {}
    BY <1>3 DEF Next, Host, Person, ModelCalls, ModelContinues, ModelDone, ModelRejects,
      CloseStream, CloseRejects, Preflight, PreflightRejects, PreflightFails, Take, Merge,
      MergeRejects, Drained, Start, Finish, CallFails, Answer, AwaitRejects, ChangePolicy, vars
  <2>. QED
    BY <1>3, <2>1 DEF RInv, Worked, Busy
<1>4. RInv /\ [Next]_vars =>
        [/\ \A c \in Calls : Starts(c) => c \notin cut /\ c \notin open
         /\ turn' # turn => cut = {}
         /\ turn' # turn \/ (step' = "ended" /\ step # "ended") => open = {}]_vars
  BY <1>1, <1>2, <1>3
<1>. QED
  BY <1>4, RInvHolds, PTL DEF Spec, RejectionStopsTheBatch
===========================================================================
