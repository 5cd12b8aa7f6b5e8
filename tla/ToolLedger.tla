----------------------------- MODULE ToolLedger -----------------------------
(***************************************************************************)
(* The durable tool-call ledger of packages/agent/src/tools/ledger.ts.     *)
(*                                                                         *)
(* A host delivers the step that runs a tool call at least once: it may be *)
(* delivered again after a crash, or while the first delivery still runs.  *)
(* Every delivery is an execution of executeLedgered. It claims the key of *)
(* its call in the store and runs the call only when the claim is fresh;   *)
(* otherwise it replays the recorded outcome, waits for the execution that *)
(* runs the call, or answers that nothing was run again.                   *)
(*                                                                         *)
(* The store, whose contract is ToolLedgerStore, answers a request later,  *)
(* or never; a request that fails may have been applied. Times follow one  *)
(* clock, the caller's. A large result is stored as a shorter copy of      *)
(* itself, which counts here as the same outcome, or, when a script is to  *)
(* read its typed value, as a fixed error.                                 *)
(***************************************************************************)
EXTENDS Integers, FiniteSets

CONSTANTS
  Keys,          \* ledger keys: call ids within the host's scope
  Calls,         \* what a call is: its tool's name and its arguments' digest
  Execs,         \* executions: the deliveries of the steps that run the calls
  KeyOf,         \* the key of the call of each execution
  CallOf,        \* that call
  Outcomes,      \* what a call returns
  Oversized,     \* outcomes whose typed value is too large for the ledger
  LeaseMs,
  RequestedBeat, \* the option heartbeatIntervalMs, or None
  PollMs,
  MaxWaitMs,
  Deadlines,     \* what the option deadline returns
  WriteTimeoutMs,
  MaxLate,       \* late heartbeats that an execution's lease must outlast
  MaxTime,       \* bound: the clock stops here
  None

Positive == Nat \ {0}

\* Refusals: answers that carry no outcome. A call that died or was
\* interrupted has none either.
Refusals == {"conflict", "timeout", "abandoned", "unavailable", "tooLarge", "defect", "stopped"}

\* The stored copy of an outcome.
Stored(outcome) == IF outcome \in Oversized THEN "tooLarge" ELSE outcome

Entry == [call : Calls, lease : Nat, outcome : Outcomes \cup {"tooLarge", None}]

ASSUME LedgerAssumption ==
  /\ KeyOf \in [Execs -> Keys] /\ CallOf \in [Execs -> Calls]
  /\ LeaseMs \in Positive /\ PollMs \in Positive /\ WriteTimeoutMs \in Positive
  /\ RequestedBeat \in Positive \cup {None}
  /\ MaxWaitMs \in Nat /\ MaxLate \in Nat /\ MaxTime \in Nat
  /\ Deadlines \subseteq Nat
  /\ None \notin Outcomes \cup Refusals \cup Entry
  /\ Outcomes \cap Refusals = {} /\ Oversized \subseteq Outcomes

VARIABLES
  now,
  entries,   \* the store
  exec,      \* the executions
  beat,      \* the heartbeat fiber of each of them
  ran        \* the executions that have called their tool

vars == <<now, entries, exec, beat, ran>>

AtLeastOne(n) == IF n < 1 THEN 1 ELSE n
Smaller(m, n) == IF m < n THEN m ELSE n
Larger(m, n) == IF m < n THEN n ELSE m

\* Faulty: a heartbeat only when the lease is about to end.
HeartbeatAtLease == IF RequestedBeat = None THEN LeaseMs ELSE RequestedBeat

\* A third of the lease by default, and at most half of it.
HeartbeatMs ==
  IF RequestedBeat = None THEN Smaller(AtLeastOne(LeaseMs \div 3), AtLeastOne(LeaseMs \div 2))
  ELSE Smaller(RequestedBeat, AtLeastOne(LeaseMs \div 2))

-----------------------------------------------------------------------------

Phases == {"idle", "claiming", "waiting", "polling", "claimed", "running", "recording", "done"}
Exec == [pc : Phases, at : Nat, until : Nat, last : BOOLEAN, exit : Outcomes \cup {None},
         tries : 0..2, result : Outcomes \cup Refusals \cup {None}]
Beat == [pc : {"off", "sleeping", "writing"}, at : Nat, lease : Nat, late : 0..(MaxLate + 1)]
NoBeat == [pc |-> "off", at |-> 0, lease |-> 0, late |-> 0]

TypeOK ==
  /\ now \in Nat
  /\ entries \in [Keys -> Entry \cup {None}]
  /\ exec \in [Execs -> Exec]
  /\ beat \in [Execs -> Beat]
  /\ ran \subseteq Execs

Init ==
  /\ now = 0
  /\ entries = [k \in Keys |-> None]
  /\ exec = [e \in Execs |-> [pc |-> "idle", at |-> 0, until |-> 0, last |-> FALSE,
                              exit |-> None, tries |-> 0, result |-> None]]
  /\ beat = [e \in Execs |-> NoBeat]
  /\ ran = {}

EntryOf(e) == entries[KeyOf[e]]

\* Faulty: every entry of the key is taken for the call's own.
MatchesAny(e) == TRUE

\* An entry holds another call when its id was given twice.
Matches(e) == EntryOf(e).call = CallOf[e]

\* Faulty: a claim takes over an abandoned entry, as a lock that expires would.
FreshOrAbandoned(e) ==
  IF EntryOf(e) = None THEN TRUE
  ELSE EntryOf(e).outcome = None /\ EntryOf(e).lease <= exec[e].at

\* A claim is fresh when the key has no entry: none is ever taken over.
Fresh(e) == EntryOf(e) = None

\* A store classifies an entry by the time of the request.
Classified(entry, time) ==
  IF entry.outcome # None THEN "completed"
  ELSE IF entry.lease > time THEN "inFlight" ELSE "abandoned"

\* The store as it is once it has inserted the claim of an execution, whose
\* lease counts from the time of the request.
Claimed(e) ==
  IF ~Fresh(e) THEN entries
  ELSE [entries EXCEPT ![KeyOf[e]] =
          [call |-> CallOf[e], lease |-> exec[e].at + LeaseMs, outcome |-> None]]

\* The store once it has recorded what the call of an execution returned.
Completed(e) ==
  IF EntryOf(e) = None \/ EntryOf(e).outcome # None THEN entries
  ELSE [entries EXCEPT ![KeyOf[e]].outcome = Stored(exec[e].exit)]

\* The store once the heartbeat of an execution has reached it.
Extended(e) ==
  IF EntryOf(e) = None \/ EntryOf(e).outcome # None THEN entries
  ELSE [entries EXCEPT ![KeyOf[e]].lease = Larger(@, beat[e].lease)]

\* An execution answers; its scope closes and the heartbeats end with it.
Answer(e, answer) ==
  /\ exec' = [exec EXCEPT ![e] =
       [pc |-> "done", at |-> 0, until |-> 0, last |-> FALSE, exit |-> exec[e].exit,
        tries |-> 0, result |-> answer]]
  /\ beat' = [beat EXCEPT ![e] = NoBeat]

-----------------------------------------------------------------------------

\* The first claim is sent, and with it the end of a possible wait is fixed.
Begin(e) ==
  /\ exec[e].pc = "idle"
  /\ \E deadline \in Deadlines :
       exec' = [exec EXCEPT ![e].pc = "claiming", ![e].at = now,
                            ![e].until = Smaller(now + MaxWaitMs, deadline)]
  /\ UNCHANGED <<now, entries, beat, ran>>

\* The call is running elsewhere: the wait ends, or sleeps until the next
\* poll, which is the last one within an interval of the end of the wait.
Await(e) ==
  LET remaining == exec[e].until - now
      last == remaining <= PollMs
      ends == remaining <= 0 \/ (exec[e].pc = "polling" /\ exec[e].last)
  IN \/ ends /\ Answer(e, "timeout")
     \/ /\ ~ends
        /\ exec' = [exec EXCEPT ![e].pc = "waiting", ![e].last = last,
                                ![e].at = now + (IF last THEN remaining \div 2 ELSE PollMs)]
        /\ UNCHANGED beat

\* The store handles a claim, the first or a poll, and the caller hears of it.
Claim(e) ==
  /\ exec[e].pc \in {"claiming", "polling"}
  /\ entries' = Claimed(e)
  /\ LET found == Classified(EntryOf(e), exec[e].at)
     IN \/ /\ Fresh(e)
           /\ exec' = [exec EXCEPT ![e].pc = "claimed"]
           /\ UNCHANGED beat
        \/ ~Fresh(e) /\ ~Matches(e) /\ Answer(e, "conflict")
        \/ /\ ~Fresh(e) /\ Matches(e)
           /\ \/ found = "completed" /\ Answer(e, EntryOf(e).outcome)
              \/ found = "abandoned" /\ Answer(e, "abandoned")
              \/ found = "inFlight" /\ Await(e)
  /\ UNCHANGED <<now, ran>>

\* A claim fails, whether the store inserted it or not: nothing runs here.
ClaimFails(e) ==
  /\ exec[e].pc \in {"claiming", "polling"}
  /\ entries' \in {entries, Claimed(e)}
  /\ Answer(e, "unavailable")
  /\ UNCHANGED <<now, ran>>

\* The next poll, unless the wait has ended meanwhile.
Poll(e) ==
  /\ exec[e].pc = "waiting" /\ now >= exec[e].at
  /\ \/ now >= exec[e].until /\ Answer(e, "timeout")
     \/ /\ now < exec[e].until
        /\ exec' = [exec EXCEPT ![e].pc = "polling", ![e].at = now]
        /\ UNCHANGED beat
  /\ UNCHANGED <<now, entries, ran>>

\* A poll still unanswered when the wait ends is given up.
PollStalls(e) ==
  /\ exec[e].pc = "polling" /\ now >= exec[e].until
  /\ Answer(e, "timeout")
  /\ UNCHANGED <<now, entries, ran>>

-----------------------------------------------------------------------------

\* A fresh claim runs its call, and a fiber renews the lease from now on.
Run(e) ==
  /\ exec[e].pc = "claimed"
  /\ exec' = [exec EXCEPT ![e].pc = "running"]
  /\ beat' = [beat EXCEPT ![e].pc = "sleeping", ![e].at = now + HeartbeatMs]
  /\ ran' = ran \cup {e}
  /\ UNCHANGED <<now, entries>>

\* The call returns a result or fails with a ToolError.
Return(e) ==
  /\ exec[e].pc = "running"
  /\ \E outcome \in Outcomes :
       exec' = [exec EXCEPT ![e].pc = "recording", ![e].exit = outcome,
                            ![e].at = now + WriteTimeoutMs]
  /\ UNCHANGED <<now, entries, beat, ran>>

\* The call dies: its outcome is unknown and nothing is recorded.
Die(e) ==
  /\ exec[e].pc = "running"
  /\ Answer(e, "defect")
  /\ UNCHANGED <<now, entries, ran>>

\* An interruption that came while the outcome was recorded has waited for it.
Deliver(e) == \E answer \in {exec[e].exit, "stopped"} : Answer(e, answer)

\* The outcome is recorded.
Record(e) ==
  /\ exec[e].pc = "recording"
  /\ entries' = Completed(e)
  /\ Deliver(e)
  /\ UNCHANGED <<now, ran>>

\* A write fails or takes too long, applied or not: twice it is tried again,
\* then the call's own answer stands without a record.
RecordFails(e) ==
  /\ exec[e].pc = "recording"
  /\ entries' \in {entries, Completed(e)}
  /\ \/ /\ exec[e].tries < 2
        /\ exec' = [exec EXCEPT ![e].tries = @ + 1, ![e].at = now + WriteTimeoutMs]
        /\ UNCHANGED beat
     \/ exec[e].tries = 2 /\ Deliver(e)
  /\ UNCHANGED <<now, ran>>

\* The stored copy of the outcome cannot be built: nothing is recorded.
CopyThrows(e) ==
  /\ exec[e].pc = "recording" /\ exec[e].tries = 0
  /\ Deliver(e)
  /\ UNCHANGED <<now, entries, ran>>

\* A heartbeat falls due: the lease it asks for counts from now.
BeatDue(e) ==
  /\ beat[e].pc = "sleeping" /\ now >= beat[e].at
  /\ beat' = [beat EXCEPT ![e].pc = "writing", ![e].at = now + WriteTimeoutMs,
                          ![e].lease = now + LeaseMs]
  /\ UNCHANGED <<now, entries, exec, ran>>

\* The count of late heartbeats stops when it is more than MaxLate.
OneMoreLate(n) == Smaller(n + 1, MaxLate + 1)

BeatSleeps(e, late) ==
  beat' = [beat EXCEPT ![e].pc = "sleeping", ![e].at = now + HeartbeatMs,
                       ![e].late = IF late THEN OneMoreLate(beat[e].late) ELSE beat[e].late]

\* It reaches the store, late or in time.
BeatStored(e) ==
  /\ beat[e].pc = "writing"
  /\ entries' = Extended(e)
  /\ BeatSleeps(e, now + LeaseMs > beat[e].lease)
  /\ UNCHANGED <<now, exec, ran>>

\* It fails or is given up; it is only logged.
BeatFails(e) ==
  /\ beat[e].pc = "writing"
  /\ BeatSleeps(e, TRUE)
  /\ UNCHANGED <<now, entries, exec, ran>>

\* The process dies, or the execution is interrupted before its call returned.
Stop(e) ==
  /\ exec[e].pc \notin {"idle", "done"}
  /\ entries' \in {entries} \cup (IF exec[e].pc = "claiming" THEN {Claimed(e)} ELSE {})
  /\ Answer(e, "stopped")
  /\ UNCHANGED <<now, ran>>

\* Time that passes now holds an execution up: a claim or the start of a
\* claimed call takes time, a timer fires late, or a heartbeat's write takes
\* time when the execution has been late as often as it may.
HeldUp(e) ==
  \/ exec[e].pc \in {"claiming", "claimed"}
  \/ exec[e].pc = "recording" /\ now >= exec[e].at
  \/ beat[e].pc = "sleeping" /\ now >= beat[e].at
  \/ beat[e].pc = "writing" /\ (now >= beat[e].at \/ beat[e].late >= MaxLate)

\* An execution that is held up counts as late too often.
Tick ==
  /\ now < MaxTime
  /\ now' = now + 1
  /\ beat' = [e \in Execs |->
       [beat[e] EXCEPT !.late = IF HeldUp(e) THEN MaxLate + 1 ELSE beat[e].late]]
  /\ UNCHANGED <<entries, exec, ran>>

ExecSteps(e) ==
  \/ Begin(e) \/ Claim(e) \/ ClaimFails(e) \/ Poll(e) \/ PollStalls(e)
  \/ Run(e) \/ Return(e) \/ Die(e) \/ Record(e) \/ RecordFails(e) \/ CopyThrows(e)
  \/ BeatDue(e) \/ BeatStored(e) \/ BeatFails(e) \/ Stop(e)

Next == Tick \/ \E e \in Execs : ExecSteps(e)

Spec == Init /\ [][Next]_vars

-----------------------------------------------------------------------------

\* A call runs at most once under its key, however often its step is
\* delivered, whoever dies and whatever the store loses (ledger.ts: a claim is
\* never taken over; classifyToolLedgerEntry, executeLedgered).
RunsAtMostOnce == \A e, f \in ran : KeyOf[e] = KeyOf[f] => e = f

Answered(e) == exec[e].result \in Outcomes

\* All executions that answer with an outcome under one key are of one call
\* and give the same outcome, whether it is their own or a replay (ledger.ts,
\* replay and the conflict check); a replay of an oversized one has none.
AnswersAgree ==
  \A e, f \in Execs :
    Answered(e) /\ Answered(f) /\ KeyOf[e] = KeyOf[f] =>
      CallOf[e] = CallOf[f] /\ exec[e].result = exec[f].result

\* While a call runs or its outcome is being recorded, its lease has not
\* lapsed, so that nobody takes it for abandoned, unless the process or the
\* store held it up for longer than MaxLate late heartbeats (ledger.ts,
\* resolveToolLedgerOptions: a single late heartbeat does not let it lapse).
LeaseOutlivesCall ==
  \A e \in Execs :
    exec[e].pc \in {"running", "recording"} /\ beat[e].late <= MaxLate =>
      EntryOf(e).outcome # None \/ EntryOf(e).lease > now

=============================================================================
