-------------------------- MODULE ToolLedgerProofs --------------------------
(***************************************************************************)
(* A call runs at most once and its answers agree, for any executions,     *)
(* keys and times. The invariant adds who owns an entry: the execution     *)
(* whose claim was fresh. It owns the entry for ever, and an outcome comes *)
(* from the one that ran. The second part is about leases: the lease of a  *)
(* call that runs outlasts the late heartbeats it is meant to.             *)
(***************************************************************************)
EXTENDS ToolLedger, TLAPS

\* A fresh claim, from the moment its caller has heard of it.
Owns(e) == exec[e].pc \in {"claimed", "running", "recording"} \/ e \in ran

\* An owner's entry is there, and of its call.
OwnersHaveEntry == \A e \in Execs : Owns(e) => EntryOf(e) # None /\ Matches(e)

OneOwner == \A e, f \in Execs : Owns(e) /\ Owns(f) /\ KeyOf[e] = KeyOf[f] => e = f

\* Only a call that ran has an exit, and it keeps it.
ExitsAreOfRuns ==
  \A e \in Execs :
    /\ e \in ran => exec[e].pc \in {"running", "recording", "done"}
    /\ exec[e].pc \in {"running", "recording"} => e \in ran
    /\ exec[e].pc = "recording" => exec[e].exit # None
    /\ exec[e].exit # None => e \in ran /\ exec[e].pc # "running"

\* What is recorded is a copy of what the call of the key returned.
RecordsAreExits ==
  \A k \in Keys :
    entries[k] # None /\ entries[k].outcome # None =>
      \E f \in ran : KeyOf[f] = k /\ exec[f].exit # None /\ Stored(exec[f].exit) = entries[k].outcome

\* So is every answer that carries an outcome.
AnswersAreExits ==
  \A e \in Execs :
    Answered(e) =>
      \E f \in ran : KeyOf[f] = KeyOf[e] /\ CallOf[f] = CallOf[e]
                     /\ exec[f].exit = exec[e].result

IInv ==
  /\ TypeOK
  /\ OwnersHaveEntry
  /\ OneOwner
  /\ ExitsAreOfRuns
  /\ RecordsAreExits
  /\ AnswersAreExits

-----------------------------------------------------------------------------
\* The store's requests: what each of them leaves alone.

LEMMA ClaimedKeeps ==
  ASSUME TypeOK, NEW e \in Execs
  PROVE  /\ Claimed(e) \in [Keys -> Entry \cup {None}]
         /\ \A k \in Keys : entries[k] # None => Claimed(e)[k] = entries[k]
         /\ \A k \in Keys \ {KeyOf[e]} : Claimed(e)[k] = entries[k]
         /\ EntryOf(e) = None => /\ Claimed(e)[KeyOf[e]] # None
                                 /\ Claimed(e)[KeyOf[e]].call = CallOf[e]
                                 /\ Claimed(e)[KeyOf[e]].outcome = None
<1>1. exec[e].at + LeaseMs \in Nat /\ KeyOf[e] \in Keys /\ CallOf[e] \in Calls
  BY LedgerAssumption DEF TypeOK, Exec, Positive
<1>2. [call |-> CallOf[e], lease |-> exec[e].at + LeaseMs, outcome |-> None] \in Entry
  BY <1>1 DEF Entry
<1>. QED
  BY <1>1, <1>2, LedgerAssumption DEF TypeOK, Claimed, Fresh, EntryOf

LEMMA CompletedKeeps ==
  ASSUME TypeOK, NEW e \in Execs
  PROVE  /\ Completed(e) \in [Keys -> Entry \cup {None}]
         /\ \A k \in Keys : Completed(e)[k] = None <=> entries[k] = None
         /\ \A k \in Keys : entries[k] # None => Completed(e)[k].call = entries[k].call
         /\ \A k \in Keys :
              \/ Completed(e)[k] = entries[k]
              \/ k = KeyOf[e] /\ Completed(e)[k].outcome = Stored(exec[e].exit)
<1>1. KeyOf[e] \in Keys /\ exec[e].exit \in Outcomes \cup {None}
  BY LedgerAssumption DEF TypeOK, Exec
<1>4. Stored(exec[e].exit) \in Outcomes \cup {"tooLarge", None}
  BY <1>1 DEF Stored
<1>2. CASE EntryOf(e) = None \/ EntryOf(e).outcome # None
  BY <1>2 DEF TypeOK, Completed
<1>3. CASE ~(EntryOf(e) = None \/ EntryOf(e).outcome # None)
  <2>1. EntryOf(e) \in Entry
    BY <1>1, <1>3 DEF TypeOK, EntryOf
  <2>2. [EntryOf(e) EXCEPT !.outcome = Stored(exec[e].exit)] \in Entry
    BY <1>4, <2>1 DEF Entry
  <2>3. Completed(e) = [entries EXCEPT ![KeyOf[e]] = [EntryOf(e) EXCEPT !.outcome = Stored(exec[e].exit)]]
    BY <1>1, <1>3 DEF Completed, EntryOf, TypeOK
  <2>4. [EntryOf(e) EXCEPT !.outcome = Stored(exec[e].exit)] # None
    BY <2>2, LedgerAssumption
  <2>5. /\ [EntryOf(e) EXCEPT !.outcome = Stored(exec[e].exit)].call = EntryOf(e).call
        /\ [EntryOf(e) EXCEPT !.outcome = Stored(exec[e].exit)].outcome = Stored(exec[e].exit)
    BY <2>1 DEF Entry
  <2>. QED
    BY <1>1, <1>3, <2>2, <2>3, <2>4, <2>5 DEF TypeOK, EntryOf
<1>. QED
  BY <1>2, <1>3

LEMMA ExtendedKeeps ==
  ASSUME TypeOK, NEW e \in Execs
  PROVE  /\ Extended(e) \in [Keys -> Entry \cup {None}]
         /\ \A k \in Keys : Extended(e)[k] = None <=> entries[k] = None
         /\ \A k \in Keys :
              entries[k] # None => /\ Extended(e)[k].call = entries[k].call
                                   /\ Extended(e)[k].outcome = entries[k].outcome
<1>1. KeyOf[e] \in Keys /\ beat[e].lease \in Nat
  BY LedgerAssumption DEF TypeOK, Beat
<1>2. CASE EntryOf(e) = None \/ EntryOf(e).outcome # None
  BY <1>2 DEF TypeOK, Extended
<1>3. CASE ~(EntryOf(e) = None \/ EntryOf(e).outcome # None)
  <2>1. EntryOf(e) \in Entry
    BY <1>1, <1>3 DEF TypeOK, EntryOf
  <2> DEFINE later == Larger(EntryOf(e).lease, beat[e].lease)
             entry == [EntryOf(e) EXCEPT !.lease = later]
  <2>2. later \in Nat
    BY <1>1, <2>1 DEF Entry, Larger
  <2>3. entry \in Entry /\ entry.call = EntryOf(e).call /\ entry.outcome = EntryOf(e).outcome
    BY <2>1, <2>2 DEF Entry
  <2>4. Extended(e) = [entries EXCEPT ![KeyOf[e]] = entry]
    BY <1>1, <1>3 DEF Extended, EntryOf, TypeOK
  <2>5. entry # None
    BY <2>3, LedgerAssumption
  <2>. QED
    BY <1>1, <1>3, <2>3, <2>4, <2>5 DEF TypeOK, EntryOf
<1>. QED
  BY <1>2, <1>3

-----------------------------------------------------------------------------
\* What every step leaves of the rest: the store keeps entries and their calls,
\* and an outcome that is new is a copy of the exit of a call that ran.
EntriesKept(e) ==
  /\ entries' \in [Keys -> Entry \cup {None}]
  /\ \A k \in Keys : entries[k] # None => /\ entries'[k] # None
                                         /\ entries'[k].call = entries[k].call
  /\ \A k \in Keys :
       entries'[k] # None =>
         \/ entries'[k].outcome = None
         \/ entries[k] # None /\ entries'[k].outcome = entries[k].outcome
         \/ k = KeyOf[e] /\ e \in ran /\ exec[e].exit # None /\ entries'[k].outcome = Stored(exec[e].exit)

LEMMA StoreKept ==
  ASSUME IInv, NEW e \in Execs,
         \/ entries' \in {entries, Claimed(e)}
         \/ exec[e].pc = "recording" /\ entries' = Completed(e)
         \/ entries' = Extended(e)
  PROVE  EntriesKept(e)
<1>1. CASE entries' = entries
  BY <1>1 DEF EntriesKept, IInv, TypeOK
<1>2. CASE entries' = Claimed(e)
  BY <1>2, ClaimedKeeps, LedgerAssumption DEF EntriesKept, IInv, TypeOK, EntryOf
<1>3. CASE exec[e].pc = "recording" /\ entries' = Completed(e)
  BY <1>3, CompletedKeeps DEF EntriesKept, IInv, ExitsAreOfRuns
<1>4. CASE entries' = Extended(e)
  BY <1>4, ExtendedKeeps DEF EntriesKept, IInv
<1>. QED
  BY <1>1, <1>2, <1>3, <1>4

\* A step of the execution that neither makes it an owner nor ends a run of the
\* call with an exit keeps everything, when its answer is an exit of its key.
LEMMA QuietStepKeeps ==
  ASSUME IInv, NEW e \in Execs, EntriesKept(e), TypeOK', ran' = ran,
         \A f \in Execs \ {e} : exec'[f] = exec[f],
         Owns(e)' => Owns(e),
         exec'[e].exit = exec[e].exit,
         exec'[e].pc = exec[e].pc \/ exec'[e].pc \notin {"running", "recording"},
         e \in ran => exec'[e].pc \in {"running", "recording", "done"},
         exec'[e].result \in Outcomes =>
           \/ exec'[e].result = exec[e].result
           \/ \E f \in ran : KeyOf[f] = KeyOf[e] /\ CallOf[f] = CallOf[e]
                             /\ exec[f].exit = exec'[e].result
  PROVE  IInv'
<1>. USE LedgerAssumption DEF IInv
<1>1. \A f \in Execs : Owns(f)' => Owns(f)
  BY DEF Owns
<1>2. \A f \in ran : f \in Execs /\ exec'[f].exit = exec[f].exit
  BY DEF TypeOK
<1>3. OwnersHaveEntry'
  BY <1>1 DEF OwnersHaveEntry, EntriesKept, EntryOf, Matches
<1>4. OneOwner'
  BY <1>1 DEF OneOwner
<1>5. ExitsAreOfRuns'
  BY DEF ExitsAreOfRuns
<1>6. RecordsAreExits'
  <2> SUFFICES ASSUME NEW k \in Keys, entries'[k] # None, entries'[k].outcome # None
               PROVE  \E f \in ran' : KeyOf[f] = k /\ exec'[f].exit # None
                                      /\ Stored(exec'[f].exit) = entries'[k].outcome
    BY DEF RecordsAreExits, Stored
  <2>1. CASE entries[k] # None /\ entries'[k].outcome = entries[k].outcome
    <3>1. PICK f \in ran : KeyOf[f] = k /\ exec[f].exit # None
                           /\ Stored(exec[f].exit) = entries[k].outcome
      BY <2>1 DEF RecordsAreExits
    <3>2. exec'[f].exit = exec[f].exit
      BY <1>2, <3>1
    <3>. QED
      BY <2>1, <3>1, <3>2
  <2>2. CASE k = KeyOf[e] /\ e \in ran /\ exec[e].exit # None
             /\ entries'[k].outcome = Stored(exec[e].exit)
    BY <2>2, <1>2
  <2>. QED
    BY <2>1, <2>2 DEF EntriesKept
<1>7. AnswersAreExits'
  BY <1>2 DEF AnswersAreExits, Answered
<1>. QED
  BY <1>3, <1>4, <1>5, <1>6, <1>7

\* The count of late heartbeats keeps its range, and no heartbeat is typed.
LEMMA LateIsCounted ==
  /\ MaxLate + 1 \in 0..(MaxLate + 1)
  /\ \A n \in 0..(MaxLate + 1) : OneMoreLate(n) \in 0..(MaxLate + 1)
  /\ NoBeat \in Beat
<1>1. MaxLate \in Nat
  BY LedgerAssumption
<1>2. NoBeat \in Beat
  BY <1>1 DEF NoBeat, Beat
<1>. QED
  BY <1>1, <1>2 DEF OneMoreLate, Smaller

\* An answer is typed, and ends the execution.
LEMMA AnswerIsDone ==
  ASSUME IInv, NEW e \in Execs, NEW answer \in Outcomes \cup Refusals \cup {None}, Answer(e, answer)
  PROVE  /\ exec' \in [Execs -> Exec] /\ beat' \in [Execs -> Beat]
         /\ \A f \in Execs \ {e} : exec'[f] = exec[f]
         /\ exec'[e].pc = "done" /\ exec'[e].exit = exec[e].exit /\ exec'[e].result = answer
<1>1. NoBeat \in Beat
  BY LateIsCounted
<1>2. [pc |-> "done", at |-> 0, until |-> 0, last |-> FALSE, exit |-> exec[e].exit,
       tries |-> 0, result |-> answer] \in Exec
  BY DEF IInv, TypeOK, Exec, Phases
<1>. QED
  BY <1>1, <1>2 DEF Answer, IInv, TypeOK

\* An answer keeps the invariant, when it is an exit of its key or no outcome.
LEMMA AnswerKeeps ==
  ASSUME IInv, NEW e \in Execs, NEW answer, Answer(e, answer), UNCHANGED <<now, ran>>,
         EntriesKept(e),
         \/ answer \in Refusals
         \/ \E f \in ran : KeyOf[f] = KeyOf[e] /\ CallOf[f] = CallOf[e]
                           /\ exec[f].exit = answer /\ answer \in Outcomes
  PROVE  IInv'
<1>1. answer \in Outcomes \cup Refusals \cup {None}
  OBVIOUS
<1>2. /\ exec' \in [Execs -> Exec] /\ beat' \in [Execs -> Beat]
      /\ \A f \in Execs \ {e} : exec'[f] = exec[f]
      /\ exec'[e].pc = "done" /\ exec'[e].exit = exec[e].exit /\ exec'[e].result = answer
  BY <1>1, AnswerIsDone
<1>3. TypeOK'
  BY <1>2 DEF IInv, TypeOK, EntriesKept
<1>4. answer \in Outcomes => answer \notin Refusals
  BY LedgerAssumption
<1>. QED
  BY <1>2, <1>3, <1>4, QuietStepKeeps DEF Owns

-----------------------------------------------------------------------------
\* Claims and polls.

\* A wait that does not end sleeps: no claim is made or lost.
LEMMA AwaitKeeps ==
  ASSUME IInv, NEW e \in Execs, exec[e].pc \in {"claiming", "polling"}, Await(e),
         EntriesKept(e), UNCHANGED <<now, ran>>
  PROVE  IInv'
<1>1. CASE Answer(e, "timeout")
  BY <1>1, AnswerKeeps DEF Refusals
<1>2. CASE ~Answer(e, "timeout")
  <2> DEFINE remaining == exec[e].until - now
             last == remaining <= PollMs
             at == now + (IF last THEN remaining \div 2 ELSE PollMs)
  <2>1. /\ exec' = [exec EXCEPT ![e].pc = "waiting", ![e].last = last, ![e].at = at]
        /\ ~(remaining <= 0) /\ beat' = beat
    BY <1>2, Zenon DEF Await
  <2>2. now \in Nat /\ exec[e].until \in Nat
    BY DEF IInv, TypeOK, Exec
  <2>3. at \in Nat /\ last \in BOOLEAN
    BY <2>1, <2>2, LedgerAssumption DEF Positive
  <2>. HIDE DEF last, at
  <2>4. /\ exec' = [exec EXCEPT ![e] = exec'[e]] /\ exec'[e] \in Exec
        /\ exec'[e].pc = "waiting" /\ exec'[e].exit = exec[e].exit
        /\ exec'[e].result = exec[e].result
    BY <2>1, <2>3 DEF IInv, TypeOK, Exec, Phases
  <2>5. TypeOK'
    BY <2>1, <2>4 DEF IInv, TypeOK, EntriesKept
  <2>. QED
    BY <2>4, <2>5, QuietStepKeeps DEF Owns, IInv, TypeOK, ExitsAreOfRuns
<1>. QED
  BY <1>1, <1>2

\* A fresh claim: nobody owns an entry that was not there.
LEMMA FreshClaimKeeps ==
  ASSUME IInv, NEW e \in Execs, exec[e].pc \in {"claiming", "polling"}, Fresh(e),
         entries' = Claimed(e), exec' = [exec EXCEPT ![e].pc = "claimed"],
         UNCHANGED <<now, beat, ran>>
  PROVE  IInv'
<1>. USE LedgerAssumption DEF IInv
<1>1. EntriesKept(e)
  BY StoreKept
<1>2. /\ exec' = [exec EXCEPT ![e] = exec'[e]] /\ exec'[e] \in Exec
      /\ exec'[e].pc = "claimed" /\ exec'[e].exit = exec[e].exit
      /\ exec'[e].result = exec[e].result
  BY DEF TypeOK, Exec, Phases
<1>3. TypeOK' /\ \A f \in Execs \ {e} : exec'[f] = exec[f]
  BY <1>1, <1>2 DEF EntriesKept, TypeOK
<1>4. \A f \in Execs : Owns(f) => KeyOf[f] # KeyOf[e]
  BY DEF OwnersHaveEntry, Fresh, EntryOf
<1>5. \A f \in Execs \ {e} : Owns(f)' => Owns(f)
  BY <1>2, <1>3 DEF Owns
<1>6. EntryOf(e)' # None /\ Matches(e)'
  BY ClaimedKeeps DEF Fresh, EntryOf, Matches
<1>7. OwnersHaveEntry'
  BY <1>1, <1>5, <1>6 DEF OwnersHaveEntry, EntriesKept, EntryOf, Matches
<1>8. OneOwner'
  BY <1>4, <1>5 DEF OneOwner
<1>9. \A f \in ran : f \in Execs /\ exec'[f].exit = exec[f].exit
  BY <1>2, <1>3 DEF TypeOK
<1>10. ExitsAreOfRuns'
  BY <1>2, <1>3 DEF ExitsAreOfRuns
<1>11. RecordsAreExits'
  BY <1>1, <1>9 DEF RecordsAreExits, EntriesKept
<1>12. AnswersAreExits'
  BY <1>2, <1>3, <1>9 DEF AnswersAreExits, Answered
<1>. QED
  BY <1>3, <1>7, <1>8, <1>10, <1>11, <1>12

\* A replay: an outcome is an exit of the key, and the entry is of the call.
LEMMA ReplayIsExit ==
  ASSUME IInv, NEW e \in Execs, EntryOf(e) # None, Matches(e), EntryOf(e).outcome # None
  PROVE  \/ EntryOf(e).outcome \in Refusals
         \/ \E f \in ran : /\ KeyOf[f] = KeyOf[e] /\ CallOf[f] = CallOf[e]
                           /\ exec[f].exit = EntryOf(e).outcome
                           /\ EntryOf(e).outcome \in Outcomes
<1>1. KeyOf[e] \in Keys
  BY LedgerAssumption
<1>2. PICK f \in ran : /\ KeyOf[f] = KeyOf[e] /\ exec[f].exit # None
                      /\ Stored(exec[f].exit) = EntryOf(e).outcome
  BY <1>1 DEF IInv, RecordsAreExits, EntryOf
<1>3. f \in Execs /\ Matches(f)
  BY <1>2 DEF IInv, TypeOK, OwnersHaveEntry, Owns
<1>4. CallOf[f] = CallOf[e]
  BY <1>2, <1>3 DEF Matches, EntryOf
<1>5. exec[f].exit \in Outcomes
  BY <1>2, <1>3 DEF IInv, TypeOK, Exec
<1>. QED
  BY <1>2, <1>4, <1>5 DEF Stored, Refusals

LEMMA ClaimKeeps ==
  ASSUME IInv, NEW e \in Execs, Claim(e)
  PROVE  IInv'
<1>1. /\ exec[e].pc \in {"claiming", "polling"} /\ entries' = Claimed(e)
      /\ UNCHANGED <<now, ran>>
  BY DEF Claim
<1>2. EntriesKept(e)
  BY <1>1, StoreKept
<1>3. CASE Fresh(e)
  BY <1>1, <1>3, FreshClaimKeeps DEF Claim
<1>4. CASE ~Fresh(e) /\ Answer(e, "conflict")
  BY <1>1, <1>2, <1>4, AnswerKeeps DEF Refusals
<1>5. CASE ~Fresh(e) /\ Matches(e) /\ Classified(EntryOf(e), exec[e].at) = "completed"
           /\ Answer(e, EntryOf(e).outcome)
  BY <1>1, <1>2, <1>5, ReplayIsExit, AnswerKeeps DEF Classified, Fresh
<1>6. CASE Answer(e, "abandoned")
  BY <1>1, <1>2, <1>6, AnswerKeeps DEF Refusals
<1>7. CASE Await(e)
  BY <1>1, <1>2, <1>7, AwaitKeeps
<1>. QED
  BY <1>3, <1>4, <1>5, <1>6, <1>7 DEF Claim

LEMMA WaitingKeeps ==
  ASSUME IInv, NEW e \in Execs, Begin(e) \/ ClaimFails(e) \/ Poll(e) \/ PollStalls(e)
  PROVE  IInv'
<1>1. CASE Begin(e)
  <2>1. PICK deadline \in Deadlines :
          exec' = [exec EXCEPT ![e].pc = "claiming", ![e].at = now,
                               ![e].until = Smaller(now + MaxWaitMs, deadline)]
    BY <1>1 DEF Begin
  <2>2. Smaller(now + MaxWaitMs, deadline) \in Nat /\ now \in Nat
    BY LedgerAssumption DEF Smaller, IInv, TypeOK
  <2>3. EntriesKept(e)
    BY <1>1, StoreKept DEF Begin
  <2>4. /\ exec' = [exec EXCEPT ![e] = exec'[e]] /\ exec'[e] \in Exec
        /\ exec'[e].pc = "claiming" /\ exec'[e].exit = exec[e].exit
        /\ exec'[e].result = exec[e].result
    BY <2>1, <2>2 DEF IInv, TypeOK, Exec, Phases
  <2>5. TypeOK'
    BY <1>1, <2>4 DEF Begin, IInv, TypeOK
  <2>. QED
    BY <1>1, <2>3, <2>4, <2>5, QuietStepKeeps DEF Begin, Owns, IInv, TypeOK, ExitsAreOfRuns
<1>2. CASE ClaimFails(e)
  BY <1>2, StoreKept, AnswerKeeps DEF ClaimFails, Refusals
<1>3. CASE Poll(e)
  <2>1. EntriesKept(e)
    BY <1>3, StoreKept DEF Poll
  <2>2. CASE Answer(e, "timeout")
    BY <1>3, <2>1, <2>2, AnswerKeeps DEF Poll, Refusals
  <2>3. CASE exec' = [exec EXCEPT ![e].pc = "polling", ![e].at = now] /\ UNCHANGED beat
    <3>1. /\ exec' = [exec EXCEPT ![e] = exec'[e]] /\ exec'[e] \in Exec
          /\ exec'[e].pc = "polling" /\ exec'[e].exit = exec[e].exit
          /\ exec'[e].result = exec[e].result
      BY <2>3 DEF IInv, TypeOK, Exec, Phases
    <3>2. TypeOK'
      BY <1>3, <2>3, <3>1 DEF Poll, IInv, TypeOK
    <3>. QED
      BY <1>3, <2>1, <3>1, <3>2, QuietStepKeeps DEF Poll, Owns, IInv, TypeOK, ExitsAreOfRuns
  <2>. QED
    BY <1>3, <2>2, <2>3 DEF Poll
<1>4. CASE PollStalls(e)
  BY <1>4, StoreKept, AnswerKeeps DEF PollStalls, Refusals
<1>. QED
  BY <1>1, <1>2, <1>3, <1>4

-----------------------------------------------------------------------------
\* The call and its record.

\* A claimed call runs: its claim owned the entry already.
LEMMA RunKeeps ==
  ASSUME IInv, NEW e \in Execs, Run(e)
  PROVE  IInv'
<1>. USE LedgerAssumption DEF IInv
<1>1. EntriesKept(e)
  BY StoreKept DEF Run
<1>2. /\ exec' = [exec EXCEPT ![e] = exec'[e]] /\ exec'[e] \in Exec
      /\ exec[e].pc = "claimed" /\ exec'[e].pc = "running"
      /\ exec'[e].exit = exec[e].exit /\ exec'[e].result = exec[e].result
  BY DEF Run, TypeOK, Exec, Phases
<1>3. HeartbeatMs \in Nat /\ now \in Nat
  BY DEF HeartbeatMs, Smaller, AtLeastOne, Positive, TypeOK
<1>4. beat' = [beat EXCEPT ![e] = beat'[e]] /\ beat'[e] \in Beat
  <2>1. now + HeartbeatMs \in Nat
    BY <1>3
  <2>. QED
    BY <2>1 DEF Run, TypeOK, Beat
<1>5. TypeOK' /\ \A f \in Execs \ {e} : exec'[f] = exec[f]
  BY <1>1, <1>2, <1>4 DEF Run, EntriesKept, TypeOK
<1>6. \A f \in Execs : Owns(f)' => Owns(f)
  BY <1>2, <1>5 DEF Run, Owns
<1>7. OwnersHaveEntry' /\ OneOwner'
  BY <1>1, <1>6 DEF OwnersHaveEntry, OneOwner, EntriesKept, EntryOf, Matches
<1>8. \A f \in ran : f \in ran' /\ f \in Execs /\ exec'[f].exit = exec[f].exit
  BY <1>2, <1>5 DEF Run, TypeOK
<1>9. ExitsAreOfRuns'
  BY <1>2, <1>5 DEF Run, ExitsAreOfRuns
<1>10. RecordsAreExits'
  BY <1>1, <1>8 DEF Run, RecordsAreExits
<1>11. AnswersAreExits'
  BY <1>2, <1>5, <1>8 DEF AnswersAreExits, Answered
<1>. QED
  BY <1>5, <1>7, <1>9, <1>10, <1>11

\* A call that returns had no exit before, so that nothing rests on it.
LEMMA ReturnKeeps ==
  ASSUME IInv, NEW e \in Execs, Return(e)
  PROVE  IInv'
<1>. USE LedgerAssumption DEF IInv
<1>1. PICK outcome \in Outcomes :
        exec' = [exec EXCEPT ![e].pc = "recording", ![e].exit = outcome,
                             ![e].at = now + WriteTimeoutMs]
  BY DEF Return
<1>2. /\ exec' = [exec EXCEPT ![e] = exec'[e]] /\ exec'[e] \in Exec
      /\ exec[e].pc = "running" /\ exec'[e].pc = "recording"
      /\ exec'[e].exit = outcome /\ exec'[e].result = exec[e].result
      /\ UNCHANGED <<now, entries, beat, ran>>
  <2>1. now + WriteTimeoutMs \in Nat
    BY DEF TypeOK, Positive
  <2> DEFINE returned == [exec[e] EXCEPT !.pc = "recording", !.exit = outcome,
                                         !.at = now + WriteTimeoutMs]
  <2>2. exec[e] \in Exec /\ exec \in [Execs -> Exec]
    BY DEF TypeOK
  <2>3. /\ returned \in Exec /\ returned.pc = "recording" /\ returned.exit = outcome
        /\ returned.result = exec[e].result
    BY <2>1, <2>2 DEF Exec, Phases
  <2>4. exec' = [exec EXCEPT ![e] = returned]
    BY <1>1, <2>2 DEF Exec
  <2>. HIDE DEF returned
  <2>. QED
    BY <2>2, <2>3, <2>4 DEF Return
<1>3. e \in ran /\ exec[e].exit = None
  BY <1>2 DEF ExitsAreOfRuns
<1>4. TypeOK' /\ \A f \in Execs \ {e} : exec'[f] = exec[f]
  BY <1>2 DEF TypeOK
<1>5. \A f \in Execs : Owns(f)' => Owns(f)
  BY <1>2, <1>3, <1>4 DEF Owns
<1>6. OwnersHaveEntry' /\ OneOwner'
  BY <1>2, <1>5 DEF OwnersHaveEntry, OneOwner, EntryOf, Matches
<1>7. \A f \in ran : f \in Execs /\ (exec[f].exit # None => exec'[f].exit = exec[f].exit)
  BY <1>3, <1>4 DEF TypeOK
<1>8. ExitsAreOfRuns'
  BY <1>2, <1>3, <1>4 DEF ExitsAreOfRuns
<1>9. RecordsAreExits'
  BY <1>2, <1>7 DEF RecordsAreExits
<1>10. AnswersAreExits'
  BY <1>2, <1>4, <1>7 DEF AnswersAreExits, Answered
<1>. QED
  BY <1>4, <1>6, <1>8, <1>9, <1>10

\* What is delivered while the outcome is recorded is the execution's own exit.
LEMMA DeliverKeeps ==
  ASSUME IInv, NEW e \in Execs, exec[e].pc = "recording", Deliver(e), EntriesKept(e),
         UNCHANGED <<now, ran>>
  PROVE  IInv'
<1>1. e \in ran /\ exec[e].exit \in Outcomes
  BY DEF IInv, ExitsAreOfRuns, TypeOK, Exec
<1>2. CASE Answer(e, exec[e].exit)
  BY <1>1, <1>2, AnswerKeeps
<1>3. CASE Answer(e, "stopped")
  BY <1>3, AnswerKeeps DEF Refusals
<1>. QED
  BY <1>2, <1>3 DEF Deliver

LEMMA RecordingKeeps ==
  ASSUME IInv, NEW e \in Execs, Record(e) \/ RecordFails(e) \/ CopyThrows(e)
  PROVE  IInv'
<1>1. EntriesKept(e) /\ exec[e].pc = "recording" /\ UNCHANGED <<now, ran>>
  BY StoreKept DEF Record, RecordFails, CopyThrows
<1>2. CASE Deliver(e)
  BY <1>1, <1>2, DeliverKeeps
<1>3. CASE /\ exec[e].tries < 2 /\ UNCHANGED beat
           /\ exec' = [exec EXCEPT ![e].tries = @ + 1, ![e].at = now + WriteTimeoutMs]
  <2>1. /\ exec' = [exec EXCEPT ![e] = exec'[e]] /\ exec'[e] \in Exec
        /\ exec'[e].pc = exec[e].pc /\ exec'[e].exit = exec[e].exit
        /\ exec'[e].result = exec[e].result
    <3>1. now + WriteTimeoutMs \in Nat /\ exec[e].tries + 1 \in 0..2
      BY <1>3, LedgerAssumption DEF IInv, TypeOK, Exec, Positive
    <3>. QED
      BY <1>3, <3>1 DEF IInv, TypeOK, Exec
  <2>2. TypeOK'
    BY <1>1, <1>3, <2>1 DEF IInv, TypeOK, EntriesKept
  <2>. QED
    BY <1>1, <2>1, <2>2, QuietStepKeeps DEF Owns, IInv, TypeOK
<1>. QED
  BY <1>2, <1>3 DEF Record, RecordFails, CopyThrows

\* Heartbeats touch leases only.
LEMMA BeatKeeps ==
  ASSUME IInv, NEW e \in Execs, BeatDue(e) \/ BeatStored(e) \/ BeatFails(e)
  PROVE  IInv'
<1>1. EntriesKept(e) /\ UNCHANGED <<now, exec, ran>>
  BY StoreKept DEF BeatDue, BeatStored, BeatFails
<1>2. now \in Nat /\ HeartbeatMs \in Nat /\ LeaseMs \in Nat /\ WriteTimeoutMs \in Nat
      /\ beat[e] \in Beat
  BY LedgerAssumption DEF HeartbeatMs, Smaller, AtLeastOne, Positive, IInv, TypeOK
<1>3. beat' = [beat EXCEPT ![e] = beat'[e]] /\ beat'[e] \in Beat
  <2>1. /\ now + WriteTimeoutMs \in Nat /\ now + LeaseMs \in Nat
        /\ now + HeartbeatMs \in Nat /\ OneMoreLate(beat[e].late) \in 0..(MaxLate + 1)
    BY <1>2, LateIsCounted DEF Beat
  <2>2. CASE BeatDue(e)
    BY <1>2, <2>1, <2>2 DEF BeatDue, IInv, TypeOK, Beat
  <2>3. ASSUME NEW n \in 0..(MaxLate + 1),
               beat' = [beat EXCEPT ![e].pc = "sleeping", ![e].at = now + HeartbeatMs,
                                    ![e].late = n]
        PROVE  beat' = [beat EXCEPT ![e] = beat'[e]] /\ beat'[e] \in Beat
    BY <1>2, <2>1, <2>3 DEF IInv, TypeOK, Beat
  <2>4. beat[e].late \in 0..(MaxLate + 1)
    BY <1>2 DEF Beat
  <2>5. CASE BeatStored(e)
    BY <2>1, <2>3, <2>4, <2>5 DEF BeatStored, BeatSleeps
  <2>6. CASE BeatFails(e)
    BY <2>1, <2>3, <2>6 DEF BeatFails, BeatSleeps
  <2>. QED
    BY <2>2, <2>5, <2>6
<1>4. TypeOK'
  BY <1>1, <1>3 DEF IInv, TypeOK, EntriesKept
<1>. QED
  BY <1>1, <1>4, QuietStepKeeps DEF Owns, IInv, ExitsAreOfRuns

LEMMA EndsKeep ==
  ASSUME IInv, NEW e \in Execs, Die(e) \/ Stop(e)
  PROVE  IInv'
<1>1. EntriesKept(e) /\ UNCHANGED <<now, ran>> /\ (Answer(e, "defect") \/ Answer(e, "stopped"))
  BY StoreKept DEF Die, Stop
<1>. QED
  BY <1>1, AnswerKeeps DEF Refusals

-----------------------------------------------------------------------------

\* The invariant is inductive: before anything is sent nobody owns an entry,
\* and every step of executeLedgered, of a heartbeat fiber or of the clock
\* keeps it (ledger.ts).
THEOREM InvariantHolds == Spec => []IInv
<1>1. Init => IInv
  <2>. SUFFICES ASSUME Init PROVE IInv
    OBVIOUS
  <2>1. TypeOK
    BY LateIsCounted DEF Init, TypeOK, Exec, Phases
  <2>2. \A e \in Execs : exec[e].pc = "idle" /\ exec[e].exit = None /\ exec[e].result = None
    BY DEF Init
  <2>3. ran = {} /\ \A k \in Keys : entries[k] = None
    BY DEF Init
  <2>. QED
    BY <2>1, <2>2, <2>3, LedgerAssumption
       DEF IInv, OwnersHaveEntry, OneOwner, ExitsAreOfRuns, RecordsAreExits,
           AnswersAreExits, Answered, Owns
<1>2. IInv /\ [Next]_vars => IInv'
  <2>. SUFFICES ASSUME IInv, [Next]_vars PROVE IInv'
    OBVIOUS
  <2>1. CASE Tick
    <3>1. beat' \in [Execs -> Beat]
      <4>1. ASSUME NEW e \in Execs, NEW n \in 0..(MaxLate + 1)
            PROVE  [beat[e] EXCEPT !.late = n] \in Beat
        BY <4>1 DEF IInv, TypeOK, Beat
      <4>2. \A e \in Execs : (IF HeldUp(e) THEN MaxLate + 1 ELSE beat[e].late) \in 0..(MaxLate + 1)
        BY LateIsCounted DEF IInv, TypeOK, Beat
      <4> DEFINE late(e) == IF HeldUp(e) THEN MaxLate + 1 ELSE beat[e].late
      <4>3. \A e \in Execs : [beat[e] EXCEPT !.late = late(e)] \in Beat
        BY <4>1, <4>2
      <4>4. beat' = [e \in Execs |-> [beat[e] EXCEPT !.late = late(e)]]
        BY <2>1 DEF Tick
      <4>. HIDE DEF late
      <4>. QED
        BY <4>3, <4>4
    <3>2. now' \in Nat /\ UNCHANGED <<entries, exec, ran>>
      BY <2>1 DEF Tick, IInv, TypeOK
    <3>. QED
      BY <3>1, <3>2 DEF IInv, TypeOK, OwnersHaveEntry, OneOwner, ExitsAreOfRuns,
                        RecordsAreExits, AnswersAreExits, Answered, Owns, EntryOf, Matches
  <2>2. ASSUME NEW e \in Execs, ExecSteps(e) PROVE IInv'
    BY <2>2, ClaimKeeps, WaitingKeeps, RunKeeps, ReturnKeeps, RecordingKeeps, BeatKeeps,
       EndsKeep DEF ExecSteps
  <2>3. CASE UNCHANGED vars
    BY <2>3 DEF vars, IInv, TypeOK, OwnersHaveEntry, OneOwner, ExitsAreOfRuns,
                RecordsAreExits, AnswersAreExits, Answered, Owns, EntryOf, Matches
  <2>. QED
    BY <2>1, <2>2, <2>3 DEF Next
<1>. QED
  BY <1>1, <1>2, PTL DEF Spec

\* Every variable has its type, whatever the bounds (ledger.ts).
THEOREM TypeCorrect == Spec => []TypeOK
<1>1. IInv => TypeOK
  BY DEF IInv
<1>. QED
  BY <1>1, InvariantHolds, PTL

\* However many times a step is delivered, whoever dies, and whatever the store
\* loses or is late with, the calls of one key run at most once: whoever ran
\* owns the entry (executeLedgered).
THEOREM CallsRunOnce == Spec => []RunsAtMostOnce
<1>1. IInv => RunsAtMostOnce
  BY DEF IInv, TypeOK, OneOwner, Owns, RunsAtMostOnce
<1>. QED
  BY <1>1, InvariantHolds, PTL

\* The answers with an outcome given under one key agree, whether an execution
\* gives its own or replays a record (executeLedgered): each is an exit of the
\* one execution that ran.
THEOREM AnswersAlwaysAgree == Spec => []AnswersAgree
<1>1. IInv => AnswersAgree
  <2>. SUFFICES ASSUME IInv, NEW e \in Execs, NEW f \in Execs, Answered(e), Answered(f),
                       KeyOf[e] = KeyOf[f]
                PROVE  CallOf[e] = CallOf[f] /\ exec[e].result = exec[f].result
    BY DEF AnswersAgree
  <2>1. PICK g \in ran : KeyOf[g] = KeyOf[e] /\ CallOf[g] = CallOf[e]
                         /\ exec[g].exit = exec[e].result
    BY DEF IInv, AnswersAreExits
  <2>2. PICK h \in ran : KeyOf[h] = KeyOf[f] /\ CallOf[h] = CallOf[f]
                         /\ exec[h].exit = exec[f].result
    BY DEF IInv, AnswersAreExits
  <2>3. g = h
    BY <2>1, <2>2 DEF IInv, TypeOK, OneOwner, Owns
  <2>. QED
    BY <2>1, <2>2, <2>3
<1>. QED
  BY <1>1, InvariantHolds, PTL

-----------------------------------------------------------------------------
(* Leases. How long after the last heartbeat that was stored the next one  *)
(* is stored, when n heartbeats are late or fail in between.               *)

Allowance(n) == (n + 1) * HeartbeatMs + n * WriteTimeoutMs

LEMMA AllowanceGrows ==
  /\ HeartbeatMs \in Nat /\ WriteTimeoutMs \in Nat /\ LeaseMs \in Nat /\ MaxLate \in Nat
  /\ \A n \in Nat : /\ Allowance(n) \in Nat /\ HeartbeatMs <= Allowance(n)
                    /\ Allowance(n + 1) = Allowance(n) + HeartbeatMs + WriteTimeoutMs
                    /\ n <= MaxLate => Allowance(n) <= Allowance(MaxLate)
                    /\ n < MaxLate => Allowance(n) + WriteTimeoutMs <= Allowance(MaxLate)
<1>1. HeartbeatMs \in Nat /\ WriteTimeoutMs \in Nat /\ LeaseMs \in Nat /\ MaxLate \in Nat
  BY LedgerAssumption DEF HeartbeatMs, Smaller, AtLeastOne, Positive
<1>2. SUFFICES ASSUME NEW h \in Nat, NEW w \in Nat, NEW m \in Nat, NEW n \in Nat
               PROVE  /\ (n + 1) * h + n * w \in Nat /\ h <= (n + 1) * h + n * w
                      /\ (n + 1 + 1) * h + (n + 1) * w = (n + 1) * h + n * w + h + w
                      /\ n <= m => (n + 1) * h + n * w <= (m + 1) * h + m * w
                      /\ n < m => (n + 1) * h + n * w + w <= (m + 1) * h + m * w
  BY <1>1 DEF Allowance
<1>3. /\ n * h \in Nat /\ n * w \in Nat /\ m * h \in Nat /\ m * w \in Nat
      /\ (n + 1) * h = n * h + h /\ (m + 1) * h = m * h + h
      /\ (n + 1) * w = n * w + w /\ (n + 1 + 1) * h = n * h + h + h
  OBVIOUS
<1>4. ASSUME NEW x \in Nat, NEW d \in Nat PROVE (n + d) * x = n * x + d * x /\ d * x \in Nat
  OBVIOUS
<1>5. ASSUME n <= m PROVE n * h <= m * h /\ n * w <= m * w
  <2>1. m - n \in Nat /\ m = n + (m - n)
    BY <1>5
  <2>. QED
    BY <2>1, <1>4, <1>3
<1>6. ASSUME n < m PROVE n * w + w <= m * w
  <2>1. m - (n + 1) \in Nat /\ m = n + (m - n) /\ m - n = (m - (n + 1)) + 1
    BY <1>6
  <2>2. (m - n) * w = (m - (n + 1)) * w + w /\ (m - (n + 1)) * w \in Nat
    BY <2>1
  <2>. QED
    BY <2>1, <2>2, <1>4, <1>3
<1>. QED
  BY <1>3, <1>5, <1>6

Lease(e) == EntryOf(e).lease

\* The heartbeats of an execution are in time: with those that were late the
\* next one reaches the store before the allowance is used up.
BeatInTime(e) ==
  /\ now <= beat[e].at
  /\ \/ /\ beat[e].pc = "sleeping"
        /\ beat[e].at + LeaseMs <= Lease(e) + Allowance(beat[e].late)
     \/ /\ beat[e].pc = "writing"
        /\ beat[e].at + LeaseMs = beat[e].lease + WriteTimeoutMs
        /\ beat[e].lease <= Lease(e) + Allowance(beat[e].late)
        /\ beat[e].lease <= now + LeaseMs
        /\ beat[e].late >= MaxLate => beat[e].lease = now + LeaseMs

\* Only a first claim is ever fresh, and what has not been held up claims, runs
\* and renews its lease in time.
LeaseIsKept(e) ==
  /\ exec[e].pc \in {"waiting", "polling"} => EntryOf(e) # None
  /\ beat[e].late <= MaxLate =>
       /\ exec[e].pc = "claiming" => exec[e].at = now
       /\ exec[e].pc = "claimed" => Lease(e) >= now + LeaseMs
       /\ exec[e].pc \in {"running", "recording"} /\ EntryOf(e).outcome = None => BeatInTime(e)

LeaseInv == IInv /\ \A e \in Execs : LeaseIsKept(e)

\* No step takes an entry or an outcome away or shortens a lease.
LeasesKept ==
  \A k \in Keys : entries[k] # None =>
    /\ entries'[k] # None
    /\ entries'[k].outcome = None => entries[k].outcome = None
    /\ entries'[k].lease >= entries[k].lease

LEMMA StoreKeepsLeases ==
  ASSUME IInv, NEW e \in Execs,
         entries' \in {entries, Claimed(e), Completed(e), Extended(e)}
  PROVE  LeasesKept
<1>1. \A k \in Keys : entries[k] # None => entries[k].lease \in Nat
  BY DEF IInv, TypeOK, Entry
<1>2. entries \in [Keys -> Entry \cup {None}] /\ KeyOf[e] \in Keys /\ beat[e].lease \in Nat
  BY LedgerAssumption DEF IInv, TypeOK, Beat
<1>3. CASE entries' = entries
  BY <1>1, <1>3 DEF LeasesKept
<1>4. CASE entries' = Claimed(e)
  BY <1>1, <1>4, ClaimedKeeps DEF LeasesKept, IInv
<1>5. CASE entries' = Completed(e) \/ entries' = Extended(e)
  <2>1. CASE EntryOf(e) = None \/ EntryOf(e).outcome # None
    BY <1>1, <1>5, <2>1 DEF LeasesKept, Completed, Extended
  <2>2. CASE ~(EntryOf(e) = None \/ EntryOf(e).outcome # None)
    <3>1. entries[KeyOf[e]] \in Entry /\ entries[KeyOf[e]].outcome = None
      BY <1>2, <2>2 DEF EntryOf
    <3>2. CASE entries' = Completed(e)
      <4>1. entries' = [entries EXCEPT ![KeyOf[e]] =
                          [entries[KeyOf[e]] EXCEPT !.outcome = Stored(exec[e].exit)]]
        BY <1>2, <2>2, <3>2 DEF Completed
      <4>2. entries'[KeyOf[e]].lease = entries[KeyOf[e]].lease
            /\ \A k \in Keys \ {KeyOf[e]} : entries'[k] = entries[k]
        BY <1>2, <3>1, <4>1 DEF Entry
      <4>3. entries'[KeyOf[e]] # None
        BY <3>2, <3>1, <1>2, CompletedKeeps, LedgerAssumption DEF IInv
      <4>. QED
        BY <1>1, <3>1, <4>2, <4>3 DEF LeasesKept
    <3>3. CASE entries' = Extended(e)
      <4> DEFINE later == Larger(entries[KeyOf[e]].lease, beat[e].lease)
      <4>1. entries' = [entries EXCEPT ![KeyOf[e]] = [entries[KeyOf[e]] EXCEPT !.lease = later]]
        BY <1>2, <2>2, <3>3 DEF Extended
      <4>2. later >= entries[KeyOf[e]].lease
        BY <1>1, <1>2, <3>1, LedgerAssumption DEF Larger, Entry
      <4>. HIDE DEF later
      <4>3. entries'[KeyOf[e]].lease = later
            /\ \A k \in Keys \ {KeyOf[e]} : entries'[k] = entries[k]
        BY <1>2, <3>1, <4>1 DEF Entry
      <4>4. entries'[KeyOf[e]] # None
        BY <3>3, <3>1, <1>2, ExtendedKeeps, LedgerAssumption DEF IInv
      <4>. QED
        BY <1>1, <3>1, <4>2, <4>3, <4>4 DEF LeasesKept
    <3>. QED
      BY <1>5, <3>2, <3>3
  <2>. QED
    BY <2>1, <2>2
<1>. QED
  BY <1>3, <1>4, <1>5

\* An execution that a step leaves alone, or that goes on running its call or
\* recording the outcome, keeps its lease.
LEMMA UntouchedLease ==
  ASSUME IInv, IInv', LeasesKept, NEW e \in Execs, LeaseIsKept(e),
         now' = now, beat'[e] = beat[e],
         \/ exec'[e] = exec[e]
         \/ /\ exec[e].pc \in {"running", "recording"}
            /\ exec'[e].pc \in {"running", "recording"}
  PROVE  LeaseIsKept(e)'
<1>1. now \in Nat /\ KeyOf[e] \in Keys /\ LeaseMs \in Nat
  BY LedgerAssumption DEF IInv, TypeOK, Positive
<1>2. EntryOf(e) # None => EntryOf(e)' # None /\ (EntryOf(e)'.outcome = None => EntryOf(e).outcome = None)
                           /\ Lease(e)' >= Lease(e) /\ Lease(e) \in Nat /\ Lease(e)' \in Nat
  <2>1. \A k \in Keys : /\ entries[k] # None => entries[k].lease \in Nat
                        /\ entries'[k] # None => entries'[k].lease \in Nat
    BY DEF IInv, TypeOK, Entry
  <2>. QED
    BY <1>1, <2>1 DEF LeasesKept, EntryOf, Lease
<1>3. exec[e].pc \in {"claimed", "running", "recording"} => EntryOf(e) # None
  BY DEF IInv, OwnersHaveEntry, Owns
<1>4. beat[e].late \in Nat /\ beat[e].at \in Nat /\ beat[e].lease \in Nat
  BY LedgerAssumption DEF IInv, TypeOK, Beat
<1>5. Allowance(beat[e].late) \in Nat /\ Allowance(beat[e].late)' = Allowance(beat[e].late)
  BY <1>4, AllowanceGrows DEF Allowance, HeartbeatMs, Smaller, AtLeastOne
<1>6. EntryOf(e) # None /\ BeatInTime(e) => BeatInTime(e)'
  BY <1>1, <1>2, <1>4, <1>5, AllowanceGrows DEF BeatInTime
<1>. QED
  BY <1>1, <1>2, <1>3, <1>6 DEF LeaseIsKept

\* A step of one execution keeps the leases of the others.
LEMMA OthersKeepLeases ==
  ASSUME LeaseInv, IInv', LeasesKept, NEW e \in Execs, LeaseIsKept(e)', now' = now,
         \A f \in Execs \ {e} : exec'[f] = exec[f] /\ beat'[f] = beat[f]
  PROVE  \A f \in Execs : LeaseIsKept(f)'
<1>1. ASSUME NEW f \in Execs \ {e} PROVE LeaseIsKept(f)'
  BY <1>1, UntouchedLease DEF LeaseInv
<1>. QED
  BY <1>1

LEMMA AnswerKeepsLeases ==
  ASSUME LeaseInv, IInv', LeasesKept, NEW e \in Execs, NEW answer, Answer(e, answer), now' = now
  PROVE  \A f \in Execs : LeaseIsKept(f)'
<1>1. exec'[e].pc = "done" /\ \A f \in Execs \ {e} : exec'[f] = exec[f] /\ beat'[f] = beat[f]
  BY DEF Answer, LeaseInv, IInv, TypeOK
<1>2. LeaseIsKept(e)'
  BY <1>1 DEF LeaseIsKept
<1>. QED
  BY <1>1, <1>2, OthersKeepLeases

\* A claim is sent now; a poll is of a key that has an entry, and so is never
\* fresh; a claim that was not held up counts its lease from now.
LEMMA ClaimsKeepLeases ==
  ASSUME LeaseInv, IInv', NEW e \in Execs,
         Begin(e) \/ Claim(e) \/ ClaimFails(e) \/ Poll(e) \/ PollStalls(e)
  PROVE  \A f \in Execs : LeaseIsKept(f)'
<1>. USE DEF LeaseInv
<1>1. LeasesKept /\ now' = now
  BY StoreKeepsLeases DEF Begin, Claim, ClaimFails, Poll, PollStalls
<1>2. ASSUME NEW answer, Answer(e, answer) PROVE \A f \in Execs : LeaseIsKept(f)'
  BY <1>1, <1>2, AnswerKeepsLeases
<1>3. KeyOf[e] \in Keys /\ (EntryOf(e) # None => EntryOf(e)' # None)
  BY <1>1, LedgerAssumption DEF LeasesKept, EntryOf
<1>4. ASSUME \A f \in Execs \ {e} : exec'[f] = exec[f], beat' = beat,
             exec'[e].pc \in {"waiting", "polling"}, EntryOf(e) # None
      PROVE  \A f \in Execs : LeaseIsKept(f)'
  BY <1>1, <1>3, <1>4, OthersKeepLeases DEF LeaseIsKept
<1>5. CASE Begin(e)
  <2>1. /\ \A f \in Execs \ {e} : exec'[f] = exec[f]
        /\ exec'[e].pc = "claiming" /\ exec'[e].at = now /\ beat' = beat
    BY <1>5 DEF Begin, IInv, TypeOK, Exec
  <2>. QED
    BY <1>1, <2>1, OthersKeepLeases DEF LeaseIsKept
<1>6. CASE Claim(e) /\ Fresh(e)
  <2>1. /\ \A f \in Execs \ {e} : exec'[f] = exec[f]
        /\ exec'[e].pc = "claimed" /\ beat' = beat
    BY <1>6 DEF Claim, Fresh, IInv, TypeOK, Exec
  <2>2. exec[e].pc = "claiming"
    BY <1>6 DEF Claim, Fresh, LeaseIsKept
  <2>3. EntryOf(e)'.lease = exec[e].at + LeaseMs
    BY <1>3, <1>6 DEF Claim, Claimed, Fresh, EntryOf, IInv, TypeOK
  <2>4. now \in Nat /\ LeaseMs \in Nat
    BY LedgerAssumption DEF IInv, TypeOK, Positive
  <2>5. beat[e].late <= MaxLate => Lease(e)' >= now' + LeaseMs
    BY <1>1, <2>2, <2>3, <2>4 DEF LeaseIsKept, Lease
  <2>6. LeaseIsKept(e)'
    BY <2>1, <2>5 DEF LeaseIsKept
  <2>. QED
    BY <1>1, <2>1, <2>6, OthersKeepLeases
<1>7. CASE Claim(e) /\ ~Fresh(e)
  <2>1. CASE Await(e)
    <3>1. CASE Answer(e, "timeout")
      BY <1>2, <3>1
    <3>2. CASE ~Answer(e, "timeout")
      <4>1. /\ \A f \in Execs \ {e} : exec'[f] = exec[f]
            /\ exec'[e].pc = "waiting" /\ beat' = beat
        BY <2>1, <3>2 DEF Await, IInv, TypeOK, Exec
      <4>. QED
        BY <1>4, <1>7, <4>1 DEF Fresh
    <3>. QED
      BY <3>1, <3>2
  <2>. QED
    BY <1>2, <1>7, <2>1 DEF Claim
<1>8. CASE Poll(e)
  <2>1. CASE /\ exec' = [exec EXCEPT ![e].pc = "polling", ![e].at = now]
             /\ UNCHANGED beat
    <3>1. /\ \A f \in Execs \ {e} : exec'[f] = exec[f]
          /\ exec'[e].pc = "polling" /\ beat' = beat
      BY <2>1 DEF IInv, TypeOK, Exec
    <3>2. EntryOf(e) # None
      BY <1>8 DEF Poll, LeaseIsKept
    <3>. QED
      BY <1>4, <3>1, <3>2
  <2>. QED
    BY <1>2, <1>8, <2>1 DEF Poll
<1>9. CASE ClaimFails(e) \/ PollStalls(e)
  BY <1>2, <1>9 DEF ClaimFails, PollStalls
<1>. QED
  BY <1>5, <1>6, <1>7, <1>8, <1>9

\* A call starts with a whole lease before it, and the first heartbeat falls due
\* one interval later; while it runs and records, nothing but its heartbeats
\* touches its lease.
LEMMA RunsKeepLeases ==
  ASSUME LeaseInv, IInv', NEW e \in Execs,
         \/ Run(e) \/ Return(e) \/ Die(e) \/ Record(e) \/ RecordFails(e) \/ CopyThrows(e)
         \/ Stop(e)
  PROVE  \A f \in Execs : LeaseIsKept(f)'
<1>. USE DEF LeaseInv
<1>1. LeasesKept /\ now' = now
  BY StoreKeepsLeases DEF Run, Return, Die, Record, RecordFails, CopyThrows, Stop
<1>2. ASSUME NEW answer, Answer(e, answer) PROVE \A f \in Execs : LeaseIsKept(f)'
  BY <1>1, <1>2, AnswerKeepsLeases
<1>3. ASSUME \A f \in Execs \ {e} : exec'[f] = exec[f], beat' = beat,
             exec[e].pc \in {"running", "recording"}, exec'[e].pc = "recording"
      PROVE  \A f \in Execs : LeaseIsKept(f)'
  <2>1. LeaseIsKept(e)'
    BY <1>1, <1>3, UntouchedLease
  <2>. QED
    BY <1>1, <1>3, <2>1, OthersKeepLeases
<1>4. CASE Run(e)
  <2>1. /\ \A f \in Execs \ {e} : exec'[f] = exec[f] /\ beat'[f] = beat[f]
        /\ exec[e].pc = "claimed" /\ exec'[e].pc = "running"
    BY <1>4 DEF Run, IInv, TypeOK, Exec
  <2>2. /\ beat'[e].pc = "sleeping" /\ beat'[e].at = now + HeartbeatMs
        /\ beat'[e].late = beat[e].late
    BY <1>4 DEF Run, IInv, TypeOK, Beat
  <2>3. now \in Nat /\ beat[e].late \in Nat /\ Lease(e)' = Lease(e)
    BY <1>4, LedgerAssumption DEF Run, IInv, TypeOK, Beat, Lease, EntryOf
  <2>4. Lease(e) \in Nat
    <3>1. EntryOf(e) # None
      BY <2>1 DEF IInv, OwnersHaveEntry, Owns
    <3>. QED
      BY <3>1, LedgerAssumption DEF IInv, TypeOK, Entry, Lease, EntryOf
  <2>5. /\ Allowance(beat[e].late) \in Nat /\ HeartbeatMs <= Allowance(beat[e].late)
        /\ HeartbeatMs \in Nat /\ LeaseMs \in Nat
    BY <2>3, AllowanceGrows
  <2>6. Allowance(beat[e].late)' = Allowance(beat[e].late)
    BY <2>2 DEF Allowance, HeartbeatMs, Smaller, AtLeastOne
  <2>7. ASSUME beat[e].late <= MaxLate PROVE BeatInTime(e)'
    <3>1. Lease(e) >= now + LeaseMs
      BY <2>1, <2>7 DEF LeaseIsKept
    <3>. QED
      BY <1>1, <2>2, <2>3, <2>4, <2>5, <2>6, <3>1 DEF BeatInTime
  <2>8. LeaseIsKept(e)'
    BY <2>1, <2>2, <2>7 DEF LeaseIsKept
  <2>. QED
    BY <1>1, <2>1, <2>8, OthersKeepLeases
<1>5. CASE Return(e)
  <2>1. /\ \A f \in Execs \ {e} : exec'[f] = exec[f]
        /\ exec[e].pc = "running" /\ exec'[e].pc = "recording" /\ beat' = beat
    BY <1>5 DEF Return, IInv, TypeOK, Exec
  <2>. QED
    BY <1>3, <2>1
<1>6. CASE RecordFails(e) /\ exec[e].tries < 2 /\ UNCHANGED beat
           /\ exec' = [exec EXCEPT ![e].tries = @ + 1, ![e].at = now + WriteTimeoutMs]
  <2>1. /\ \A f \in Execs \ {e} : exec'[f] = exec[f]
        /\ exec[e].pc = "recording" /\ exec'[e].pc = "recording" /\ beat' = beat
    BY <1>6 DEF RecordFails, IInv, TypeOK, Exec
  <2>. QED
    BY <1>3, <2>1
<1>7. CASE \E answer : Answer(e, answer)
  BY <1>2, <1>7
<1>. QED
  BY <1>4, <1>5, <1>6, <1>7 DEF Die, Record, RecordFails, CopyThrows, Stop, Deliver

\* A heartbeat that is stored in time renews the whole lease; one that is late
\* or fails uses up one interval and one write of the allowance.
LEMMA BeatsKeepLeases ==
  ASSUME LeaseInv, IInv', NEW e \in Execs, BeatDue(e) \/ BeatStored(e) \/ BeatFails(e)
  PROVE  \A f \in Execs : LeaseIsKept(f)'
<1>. USE DEF LeaseInv
<1>1. LeasesKept /\ now' = now /\ exec' = exec
  BY StoreKeepsLeases DEF BeatDue, BeatStored, BeatFails
<1>2. /\ now \in Nat /\ beat[e].late \in Nat /\ beat[e].at \in Nat /\ beat[e].lease \in Nat
      /\ beat[e] \in Beat /\ KeyOf[e] \in Keys
      /\ HeartbeatMs \in Nat /\ WriteTimeoutMs \in Nat /\ LeaseMs \in Nat /\ MaxLate \in Nat
  BY AllowanceGrows, LedgerAssumption DEF IInv, TypeOK, Beat
<1>3. \A f \in Execs \ {e} : exec'[f] = exec[f] /\ beat'[f] = beat[f]
  BY <1>1 DEF BeatDue, BeatStored, BeatFails, BeatSleeps, IInv, TypeOK
<1>4. beat'[e].late \in {beat[e].late, OneMoreLate(beat[e].late)}
  BY <1>2 DEF BeatDue, BeatStored, BeatFails, BeatSleeps, IInv, TypeOK, Beat
<1>5. beat'[e].late <= MaxLate =>
        /\ beat[e].late <= MaxLate
        /\ beat'[e].late # beat[e].late => beat'[e].late = beat[e].late + 1
  BY <1>2, <1>4 DEF OneMoreLate, Smaller
<1>6. exec[e].pc \in {"waiting", "polling", "claimed", "running", "recording"} =>
        /\ EntryOf(e) # None /\ EntryOf(e)' # None
        /\ EntryOf(e)'.outcome = None => EntryOf(e).outcome = None
        /\ Lease(e) \in Nat /\ Lease(e)' \in Nat /\ Lease(e)' >= Lease(e)
  <2>1. exec[e].pc \in {"waiting", "polling", "claimed", "running", "recording"} => EntryOf(e) # None
    BY DEF LeaseIsKept, IInv, OwnersHaveEntry, Owns
  <2>2. \A k \in Keys : /\ entries[k] # None => entries[k].lease \in Nat
                        /\ entries'[k] # None => entries'[k].lease \in Nat
    BY DEF IInv, TypeOK, Entry
  <2>. QED
    BY <1>1, <1>2, <2>1, <2>2 DEF LeasesKept, EntryOf, Lease
<1>7. ASSUME exec[e].pc \in {"running", "recording"}, beat'[e].late <= MaxLate,
             EntryOf(e)'.outcome = None
      PROVE  BeatInTime(e)'
  <2>1. BeatInTime(e) /\ beat[e].late <= MaxLate
    BY <1>5, <1>6, <1>7 DEF LeaseIsKept
  <2> DEFINE n == beat[e].late
  <2>2. /\ Allowance(n) \in Nat /\ HeartbeatMs <= Allowance(n)
        /\ Allowance(n + 1) = Allowance(n) + HeartbeatMs + WriteTimeoutMs
    BY <1>2, AllowanceGrows
  <2>3. ASSUME NEW m, beat'[e].late = m PROVE Allowance(beat[e].late)' = Allowance(m)
    BY <2>3 DEF Allowance, HeartbeatMs, Smaller, AtLeastOne
  <2>. HIDE DEF n
  <2>4. CASE BeatDue(e)
    <3>1. /\ beat'[e].pc = "writing" /\ beat'[e].at = now + WriteTimeoutMs
          /\ beat'[e].lease = now + LeaseMs /\ beat'[e].late = n
          /\ beat[e].pc = "sleeping" /\ now >= beat[e].at
      BY <1>2, <2>4 DEF BeatDue, IInv, TypeOK, Beat, n
    <3>2. beat[e].at = now /\ now + LeaseMs <= Lease(e) + Allowance(n)
      BY <1>2, <2>1, <3>1 DEF BeatInTime, n
    <3>3. Allowance(beat[e].late)' = Allowance(n)
      BY <2>3, <3>1
    <3>. QED
      BY <1>1, <1>2, <1>6, <1>7, <2>2, <3>1, <3>2, <3>3 DEF BeatInTime
  <2>5. ASSUME NEW m \in {n, n + 1}, beat[e].pc = "writing",
               beat'[e].pc = "sleeping", beat'[e].at = now + HeartbeatMs, beat'[e].late = m,
               m = n => Lease(e)' >= now + LeaseMs
        PROVE  BeatInTime(e)'
    <3>1. /\ now + LeaseMs <= beat[e].lease + WriteTimeoutMs
          /\ beat[e].lease <= Lease(e) + Allowance(n)
      BY <1>2, <2>1, <2>5 DEF BeatInTime, n
    <3>2. Allowance(beat[e].late)' = Allowance(m)
      BY <2>3, <2>5
    <3>3. now + HeartbeatMs + LeaseMs <= Lease(e)' + Allowance(m)
      BY <1>2, <1>6, <1>7, <2>2, <2>5, <3>1
    <3>. QED
      BY <1>1, <1>2, <2>5, <3>2, <3>3 DEF BeatInTime
  <2>6. ASSUME BeatStored(e) \/ BeatFails(e)
        PROVE  /\ beat[e].pc = "writing"
               /\ beat'[e].pc = "sleeping" /\ beat'[e].at = now + HeartbeatMs
    BY <2>6 DEF BeatStored, BeatFails, BeatSleeps, IInv, TypeOK, Beat
  <2>7. OneMoreLate(n) <= MaxLate => OneMoreLate(n) = n + 1
    BY <1>2 DEF OneMoreLate, Smaller, n
  <2>8. CASE BeatFails(e)
    <3>1. beat'[e].late = OneMoreLate(n)
      BY <2>8 DEF BeatFails, BeatSleeps, IInv, TypeOK, Beat, n
    <3>2. beat'[e].late = n + 1 /\ n + 1 # n
      BY <1>2, <1>7, <2>7, <3>1 DEF n
    <3>. QED
      BY <2>5, <2>6, <2>8, <3>2
  <2>9. CASE BeatStored(e) /\ now + LeaseMs > beat[e].lease
    <3>1. beat'[e].late = OneMoreLate(n)
      BY <2>9 DEF BeatStored, BeatSleeps, IInv, TypeOK, Beat, n
    <3>2. beat'[e].late = n + 1 /\ n + 1 # n
      BY <1>2, <1>7, <2>7, <3>1 DEF n
    <3>. QED
      BY <2>5, <2>6, <2>9, <3>2
  <2>10. CASE BeatStored(e) /\ ~(now + LeaseMs > beat[e].lease)
    <3>1. beat'[e].late = n
      BY <2>10 DEF BeatStored, BeatSleeps, IInv, TypeOK, Beat, n
    <3>2. EntryOf(e).outcome = None /\ EntryOf(e) # None
      BY <1>6, <1>7
    <3>3. Lease(e)' = Larger(Lease(e), beat[e].lease)
      BY <1>2, <2>10, <3>2 DEF BeatStored, Extended, Lease, EntryOf, IInv, TypeOK, Entry
    <3>4. Lease(e)' >= beat[e].lease
      BY <1>2, <1>6, <1>7, <3>3 DEF Larger
    <3>5. Lease(e)' >= now + LeaseMs
      BY <1>2, <1>6, <1>7, <2>10, <3>4
    <3>. QED
      BY <2>5, <2>6, <2>10, <3>1, <3>5
  <2>. QED
    BY <2>4, <2>8, <2>9, <2>10
<1>8. LeaseIsKept(e)'
  BY <1>1, <1>2, <1>5, <1>6, <1>7 DEF LeaseIsKept
<1>. QED
  BY <1>1, <1>3, <1>8, OthersKeepLeases

\* Time passes: what is held up by it has been late too often.
LEMMA TickKeepsLeases ==
  ASSUME LeaseInv, IInv', Tick, NEW e \in Execs
  PROVE  LeaseIsKept(e)'
<1>. USE DEF LeaseInv
<1>1. now' = now + 1 /\ exec' = exec /\ entries' = entries
  BY DEF Tick
<1>2. /\ now \in Nat /\ beat[e].at \in Nat /\ beat[e].lease \in Nat /\ beat[e].late \in Nat
      /\ MaxLate \in Nat /\ LeaseMs \in Nat
  BY AllowanceGrows, LedgerAssumption DEF IInv, TypeOK, Beat
<1>3. /\ beat'[e].pc = beat[e].pc /\ beat'[e].at = beat[e].at /\ beat'[e].lease = beat[e].lease
      /\ beat'[e].late = IF HeldUp(e) THEN MaxLate + 1 ELSE beat[e].late
  <2> DEFINE late(f) == IF HeldUp(f) THEN MaxLate + 1 ELSE beat[f].late
  <2>1. beat' = [f \in Execs |-> [beat[f] EXCEPT !.late = late(f)]]
    BY DEF Tick
  <2>. HIDE DEF late
  <2>2. beat'[e] = [beat[e] EXCEPT !.late = late(e)] /\ beat[e] \in Beat
    BY <2>1 DEF IInv, TypeOK
  <2>3. /\ beat'[e].pc = beat[e].pc /\ beat'[e].at = beat[e].at
        /\ beat'[e].lease = beat[e].lease /\ beat'[e].late = late(e)
    BY <2>2 DEF Beat
  <2>. QED
    BY <2>3 DEF late
<1>4. Lease(e)' = Lease(e) /\ EntryOf(e)' = EntryOf(e)
  BY <1>1 DEF Lease, EntryOf
<1>5. ASSUME beat'[e].late <= MaxLate
      PROVE  ~HeldUp(e) /\ beat'[e].late = beat[e].late
  BY <1>2, <1>3, <1>5
<1>6. ASSUME beat'[e].late <= MaxLate, exec[e].pc \in {"running", "recording"},
             EntryOf(e).outcome = None
      PROVE  BeatInTime(e)'
  <2>1. BeatInTime(e) /\ beat[e].late <= MaxLate /\ beat'[e].late = beat[e].late
    BY <1>5, <1>6 DEF LeaseIsKept
  <2>2. Allowance(beat[e].late)' = Allowance(beat[e].late)
    BY <2>1 DEF Allowance, HeartbeatMs, Smaller, AtLeastOne
  <2>3. now < beat[e].at /\ (beat[e].pc = "writing" => beat[e].late < MaxLate)
    BY <1>2, <1>5, <1>6, <2>1 DEF HeldUp, BeatInTime
  <2>. QED
    BY <1>1, <1>2, <1>3, <1>4, <2>1, <2>2, <2>3 DEF BeatInTime
<1>. QED
  BY <1>1, <1>4, <1>5, <1>6 DEF LeaseIsKept, HeldUp

\* If the lease is longer than the late heartbeats it must outlast, it outlasts
\* the call (resolveToolLedgerOptions): the last heartbeat that was stored asked
\* for a lease that ends after the next one reaches the store. By default, 30 s
\* of lease outlast one late heartbeat of 10 s with a write of 5 s; a heartbeat
\* every half of the lease would not.
THEOREM LeasesLast ==
  ASSUME Allowance(MaxLate) < LeaseMs
  PROVE  Spec => []LeaseOutlivesCall
<1>1. Init => \A e \in Execs : LeaseIsKept(e)
  BY DEF Init, LeaseIsKept
<1>2. IInv /\ IInv' /\ (\A e \in Execs : LeaseIsKept(e)) /\ [Next]_vars
      => (\A e \in Execs : LeaseIsKept(e))'
  <2>. SUFFICES ASSUME IInv, IInv', LeaseInv, [Next]_vars
                PROVE  \A e \in Execs : LeaseIsKept(e)'
    BY DEF LeaseInv
  <2>1. CASE Tick
    BY <2>1, TickKeepsLeases
  <2>2. ASSUME NEW e \in Execs, ExecSteps(e) PROVE \A f \in Execs : LeaseIsKept(f)'
    BY <2>2, ClaimsKeepLeases, RunsKeepLeases, BeatsKeepLeases DEF ExecSteps
  <2>3. CASE UNCHANGED vars
    <3>1. LeasesKept
      BY <2>3, StoreKeepsLeases DEF vars, LeasesKept, IInv, TypeOK, Entry
    <3>. QED
      BY <2>3, <3>1, UntouchedLease DEF vars, LeaseInv
  <2>. QED
    BY <2>1, <2>2, <2>3 DEF Next
<1>3. LeaseInv => LeaseOutlivesCall
  <2>. SUFFICES ASSUME LeaseInv, NEW e \in Execs, exec[e].pc \in {"running", "recording"},
                       beat[e].late <= MaxLate, EntryOf(e).outcome = None
                PROVE  EntryOf(e).lease > now
    BY DEF LeaseOutlivesCall
  <2>1. BeatInTime(e) /\ EntryOf(e) # None
    BY DEF LeaseInv, LeaseIsKept, IInv, OwnersHaveEntry, Owns
  <2>2. /\ now \in Nat /\ beat[e].at \in Nat /\ beat[e].lease \in Nat /\ beat[e].late \in Nat
        /\ Lease(e) \in Nat
    <3>1. \A k \in Keys : entries[k] # None => entries[k].lease \in Nat
      BY DEF LeaseInv, IInv, TypeOK, Entry
    <3>. QED
      BY <2>1, <3>1, LedgerAssumption DEF LeaseInv, IInv, TypeOK, Beat, Lease, EntryOf
  <2> DEFINE n == beat[e].late
  <2>3. /\ Allowance(n) \in Nat /\ Allowance(n) <= Allowance(MaxLate)
        /\ n < MaxLate => Allowance(n) + WriteTimeoutMs <= Allowance(MaxLate)
        /\ WriteTimeoutMs \in Nat /\ LeaseMs \in Nat /\ MaxLate \in Nat
        /\ Allowance(MaxLate) \in Nat
    BY <2>2, AllowanceGrows
  <2>4. CASE beat[e].pc = "sleeping"
    BY <2>1, <2>2, <2>3, <2>4 DEF BeatInTime, Lease
  <2>5. CASE beat[e].pc = "writing"
    BY <2>1, <2>2, <2>3, <2>5 DEF BeatInTime, Lease
  <2>. QED
    BY <2>1, <2>4, <2>5 DEF BeatInTime
<1>4. Spec => [](\A e \in Execs : LeaseIsKept(e))
  BY <1>1, <1>2, InvariantHolds, PTL DEF Spec
<1>5. IInv /\ (\A e \in Execs : LeaseIsKept(e)) => LeaseOutlivesCall
  BY <1>3 DEF LeaseInv
<1>. QED
  BY <1>4, <1>5, InvariantHolds, PTL

=============================================================================
