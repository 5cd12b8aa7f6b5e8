----------------------------- MODULE SessionLog -----------------------------
(***************************************************************************)
(* The event log of a session, as a YolkAgent keeps it: sends append their *)
(* input or answer, run the loop and append how it ended, and a GET        *)
(* reconnect appends the interruption of a run that never ended. An append *)
(* reads the whole log from storage and writes the whole log back, so the  *)
(* appends rely on the live drain: it admits one owner, which a reconnect  *)
(* interrupts and waits for. That lifecycle is the subject of LiveDrain    *)
(* and is taken here with its gate, for sessions in which no send is       *)
(* interrupted while it waits for the gate: OneDrain and FinalizeAlone     *)
(* then leave the owner alone with the log. A step ends where storage or   *)
(* the loop is awaited.                                                    *)
(***************************************************************************)
EXTENDS Integers, Sequences, FiniteSets

CONSTANTS Inputs,          \* sends of a user's message
          Answers,         \* sends of an answer to a question
          Questions,       \* identities of HITL requests; a provider may reuse them
          MaxReconnects,   \* bound on reconnects
          MaxRestarts,     \* bound on fresh isolates
          None

Sends == Inputs \cup Answers

ASSUME SendsAssumption == Inputs \cap Answers = {} /\ None \notin Sends
ASSUME BoundsAssumption == MaxReconnects \in Nat /\ MaxRestarts \in Nat

VARIABLES log,        \* the events in storage
          send,       \* what each send knows
          owner,      \* the send whose run the live drain has admitted
          epoch,      \* the drain's epoch
          recon,      \* the reconnect in progress: its phase and the log it read
          restarts    \* fresh isolates so far

vars == <<log, send, owner, epoch, recon, restarts>>

Terminals == {"completed", "awaiting", "failed", "interrupted"}

\* questions: those of a pause, or the one that is answered. batch: the position
\* of the event that recorded the assistant message whose batch is meant, its
\* own position when the event itself records one.
Event == [type : {"input", "answer", "started"} \cup Terminals,
          run : Sends \cup {None},
          questions : SUBSET Questions,
          batch : Nat]

Phases == {"idle", "prepared", "ready", "accepted",   \* handleRuntimeAppend
           "start", "starting", "running", "end", "ending",
           "over", "done"}

SendState ==
  [phase : Phases,
   epoch : Nat,
   question : Questions \cup {None},
   expected : Nat \cup {None},      \* the revision its next append expects
   given : SUBSET Questions,        \* the answers its run is given
   events : Seq(Event),             \* its next append
   read : Seq(Event)]               \* what that append read

TypeOK ==
  /\ log \in Seq(Event)
  /\ send \in [Sends -> SendState]
  /\ owner \in Sends \cup {None}
  /\ epoch \in Nat
  /\ recon \in [phase : {"none", "waiting", "writing"}, read : Seq(Event)]
  /\ restarts \in Nat

Unsent == [phase |-> "idle", epoch |-> 0, question |-> None, expected |-> None,
           given |-> {}, events |-> <<>>, read |-> <<>>]
Sent == [Unsent EXCEPT !.phase = "done"]
NoReconnect == [phase |-> "none", read |-> <<>>]

Init ==
  /\ log = <<>>
  /\ send = [s \in Sends |-> Unsent]
  /\ owner = None
  /\ epoch = 0
  /\ recon = NoReconnect
  /\ restarts = 0

-----------------------------------------------------------------------------
(* What is read off a log. Positions are revisions.                        *)

NewEvent(type, run, questions, batch) ==
  [type |-> type, run |-> run, questions |-> questions, batch |-> batch]

\* The last position in S, 0 when there is none.
Last(S) == IF S = {} THEN 0 ELSE CHOOSE i \in S : \A j \in S : j <= i

\* latestIncompleteRuntimeRun: the last start with no end of that run after it.
Incomplete(l) ==
  LET starts == {i \in DOMAIN l :
                   /\ l[i].type = "started"
                   /\ \A j \in DOMAIN l :
                        j > i /\ l[j].type \in Terminals => l[j].run # l[i].run}
  IN IF starts = {} THEN None ELSE l[Last(starts)].run

\* latestAwaitingRequests: the questions of the last end of a run.
Awaiting(l) ==
  LET end == Last({i \in DOMAIN l : l[i].type \in Terminals})
  IN IF end = 0 THEN {} ELSE IF l[end].type = "awaiting" THEN l[end].questions ELSE {}

\* The event that recorded the transcript's last assistant message.
Batch(l) ==
  Last({i \in DOMAIN l : l[i].type \in {"completed", "awaiting"} /\ l[i].batch = i})

\* Faulty: the answers since the last pause.
PausedBatchResponsesSincePause(l) ==
  LET pause == Last({i \in DOMAIN l : l[i].type = "awaiting"})
  IN UNION {l[i].questions : i \in {j \in DOMAIN l : j > pause /\ l[j].type = "answer"}}

\* Faulty: every answer of the log.
PausedBatchResponsesAll(l) ==
  UNION {l[i].questions : i \in {j \in DOMAIN l : l[j].type = "answer"}}

\* pausedBatchResponses: the answers logged since that event.
PausedBatchResponses(l) ==
  IF Batch(l) = 0 THEN {}
  ELSE UNION {l[i].questions : i \in {j \in DOMAIN l : j > Batch(l) /\ l[j].type = "answer"}}

-----------------------------------------------------------------------------
(* handleRuntimeAppend.                                                    *)

\* beginPrepare. The client may name the revision it knows.
Prepare(s) ==
  /\ send[s].phase = "idle"
  /\ \E revision \in {None, Len(log)}, q \in IF s \in Answers THEN Questions ELSE {None} :
       send' = [send EXCEPT ![s].phase = "prepared", ![s].epoch = epoch,
                            ![s].question = q, ![s].expected = revision]
  /\ UNCHANGED <<log, owner, epoch, recon, restarts>>

\* The log is read and the send refused when a run is active, in the log or in
\* the driver. Tools and settings are loaded after that.
Check(s) ==
  /\ send[s].phase = "prepared"
  /\ send' = [send EXCEPT ![s] = IF Incomplete(log) # None \/ owner # None THEN Sent
                                 ELSE [@ EXCEPT !.phase = "ready"]]
  /\ UNCHANGED <<log, owner, epoch, recon, restarts>>

\* Only if nothing has happened to the drain since beginPrepare.
Admits(s) == send[s].epoch = epoch /\ owner = None /\ recon.phase = "none"

\* runOwned.
Register(s) ==
  /\ send[s].phase = "ready"
  /\ IF Admits(s)
     THEN owner' = s /\ send' = [send EXCEPT ![s].phase = "accepted"]
     ELSE owner' = owner /\ send' = [send EXCEPT ![s] = Sent]
  /\ UNCHANGED <<log, epoch, recon, restarts>>

-----------------------------------------------------------------------------
(* runRuntime over the storage-backed store.                               *)

\* Loads the log, checks an answer against the pending questions, and opens the
\* append of the input or answer and the start of the run.
Load(s) ==
  /\ send[s].phase = "accepted"
  /\ LET q == send[s].question
         revision == send[s].expected
         first == IF s \in Inputs THEN NewEvent("input", None, {}, 0)
                  ELSE NewEvent("answer", None, {q}, Batch(log))
     IN send' = [send EXCEPT ![s] =
          IF s \in Answers /\ q \notin Awaiting(log) THEN [Sent EXCEPT !.phase = "over"]
          ELSE [@ EXCEPT !.phase = "start",
                         !.expected = IF revision = None THEN Len(log) ELSE revision,
                         !.given = IF s \in Inputs THEN {}
                                   ELSE PausedBatchResponses(log) \cup {q},
                         !.events = <<first, NewEvent("started", s, {}, 0)>>]]
  /\ UNCHANGED <<log, owner, epoch, recon, restarts>>

\* append's read of the log.
Read(s) ==
  /\ send[s].phase \in {"start", "end"}
  /\ send' = [send EXCEPT ![s].phase = IF @ = "start" THEN "starting" ELSE "ending",
                          ![s].read = log]
  /\ UNCHANGED <<log, owner, epoch, recon, restarts>>

\* append's comparison and write; a conflict ends the run with an error.
Write(s) ==
  /\ send[s].phase \in {"starting", "ending"}
  /\ IF send[s].expected # Len(send[s].read)
     THEN log' = log /\ send' = [send EXCEPT ![s] = [Sent EXCEPT !.phase = "over"]]
     ELSE /\ log' = send[s].read \o send[s].events
          /\ send' = [send EXCEPT ![s] =
               IF @.phase = "ending" THEN [Sent EXCEPT !.phase = "over"]
               ELSE [@ EXCEPT !.phase = "running", !.expected = Len(log'),
                              !.events = <<>>, !.read = <<>>]]
  /\ UNCHANGED <<owner, epoch, recon, restarts>>

\* How the loop may end at position n: an answered batch is settled only when
\* nothing of it is left open, and pauses again on what is, invalid answers
\* included; a turn after it ends or opens a batch of its own.
Outcomes(s, n) ==
  LET batch == Batch(log)
      asked == IF batch = 0 THEN {} ELSE log[batch].questions
      open == IF s \in Inputs THEN {} ELSE asked \ send[s].given
      again == IF s \in Inputs THEN {}
               ELSE {NewEvent("awaiting", s, Q, batch) : Q \in {Q \in SUBSET asked :
                                                                  Q # {} /\ open \subseteq Q}}
      turn == {NewEvent("completed", s, {}, n)}
                \cup {NewEvent("awaiting", s, Q, n) : Q \in SUBSET Questions \ {{}}}
  IN {NewEvent("failed", s, {}, 0)} \cup again \cup (IF open = {} THEN turn ELSE {})

Finish(s) ==
  /\ send[s].phase = "running"
  /\ \E event \in Outcomes(s, send[s].expected + 1) :
       send' = [send EXCEPT ![s].phase = "end", ![s].events = <<event>>]
  /\ UNCHANGED <<log, owner, epoch, recon, restarts>>

\* The driver settles and the live drain releases the owner.
Leave(s) ==
  /\ send[s].phase = "over"
  /\ owner' = None
  /\ send' = [send EXCEPT ![s] = Sent]
  /\ UNCHANGED <<log, epoch, recon, restarts>>

-----------------------------------------------------------------------------
(* Sockets that close, reconnects and fresh isolates.                      *)

\* The socket of the owner's send closes, or a reconnect interrupts the owner:
\* the run stops where it is, with what it has written.
Interrupt ==
  /\ owner # None /\ send[owner].phase # "over"
  /\ send' = [send EXCEPT ![owner] = [Sent EXCEPT !.phase = "over"]]
  /\ UNCHANGED <<log, owner, epoch, recon, restarts>>

\* reconnect closes admission and outdates what is prepared; the interruption
\* it asks for comes later, if the owner has not settled by then. One that
\* still waits is superseded by a newer one, which waits in its place.
Reconnect ==
  /\ recon.phase # "writing" /\ epoch < MaxReconnects
  /\ epoch' = epoch + 1
  /\ recon' = [recon EXCEPT !.phase = "waiting"]
  /\ UNCHANGED <<log, send, owner, restarts>>

\* Faulty: the log is finalized while the owner is still settling.
OwnerSettledAlways == TRUE

OwnerSettled == owner = None

\* interruptLatestIncompleteRun reads the log once the owner has settled.
FinalizeReads ==
  /\ recon.phase = "waiting" /\ OwnerSettled
  /\ recon' = [phase |-> "writing", read |-> log]
  /\ UNCHANGED <<log, send, owner, epoch, restarts>>

\* It ends the latest run without an end, and admission reopens.
FinalizeWrites ==
  /\ recon.phase = "writing"
  /\ log' = IF Incomplete(recon.read) = None THEN log
            ELSE Append(recon.read, NewEvent("interrupted", Incomplete(recon.read), {}, 0))
  /\ recon' = NoReconnect
  /\ UNCHANGED <<send, owner, epoch, restarts>>

\* A reconnect may also end without that, and admission reopens: its caller has
\* left, the run it awaited died, or its finalizer did.
ReconnectLeaves ==
  /\ recon.phase # "none"
  /\ recon' = NoReconnect
  /\ UNCHANGED <<log, send, owner, epoch, restarts>>

\* Everything but the log is memory.
Restart ==
  /\ restarts < MaxRestarts
  /\ restarts' = restarts + 1
  /\ send' = [s \in Sends |-> IF send[s].phase = "idle" THEN send[s] ELSE Sent]
  /\ owner' = None
  /\ recon' = NoReconnect
  /\ UNCHANGED <<log, epoch>>

SendSteps(s) ==
  \/ Prepare(s) \/ Check(s) \/ Register(s) \/ Load(s) \/ Read(s) \/ Write(s)
  \/ Finish(s) \/ Leave(s)

Next ==
  \/ \E s \in Sends : SendSteps(s)
  \/ Interrupt \/ Reconnect \/ FinalizeReads \/ FinalizeWrites \/ ReconnectLeaves \/ Restart

Spec == Init /\ [][Next]_vars

-----------------------------------------------------------------------------
(* The live drain as the log sees it.                                      *)

Fresh == {s \in Sends : send[s].phase \in {"prepared", "ready"} /\ send[s].epoch = epoch}

Admission ==
  CASE recon.phase = "none"    -> "open"
    [] recon.phase = "waiting" -> "closed"
    [] recon.phase = "writing" -> "finalizing"

\* A run's work begins when it loads the log.
Stage ==
  IF owner = None THEN "none"
  ELSE IF send[owner].phase = "accepted" THEN "waiting"
  ELSE IF send[owner].phase = "over" THEN "over" ELSE "working"

OneOwner == INSTANCE SingleOwner
              WITH Starts <- Sends, admission <- Admission, fresh <- Fresh, stage <- Stage,
                   lost <- {}

\* Every step of a send, a reconnect or a fresh isolate is one that the owner
\* whom LiveDrain implements can take, or none of its (yolk-agent.ts,
\* handleRuntimeAppend and fetch).
KeepsToSingleOwner == OneOwner!Spec

\* No append is lost: though every write replaces the whole log by one read
\* earlier, storage only ever gains events at its end (session-event-storage.ts
\* append and interruptLatestIncompleteRun).
LogOnlyGrows ==
  [][Len(log) <= Len(log') /\ \A i \in DOMAIN log : log'[i] = log[i]]_vars

\* The loop is given every answer to the batch it resumes, and no answer to an
\* earlier batch whose questions had the same identities (run-runtime.ts
\* pausedBatchResponses).
AnswersReachTheirBatch ==
  \A s \in Answers :
    send[s].phase \in {"running", "end", "ending"} =>
      send[s].given = UNION {log[i].questions : i \in {j \in DOMAIN log :
                               log[j].type = "answer" /\ log[j].batch = Batch(log)}}

\* The session waits for an answer: the last run that started or ended paused.
IsWaiting(l) ==
  LET runs == {i \in DOMAIN l : l[i].type \in Terminals \cup {"started"}}
  IN runs # {} /\ l[Last(runs)].type = "awaiting"

\* A reconnect preserves a waiting checkpoint: the questions that are pending
\* stay pending (cloudflare/agent README.md, "Reconstruction contract").
WaitingSurvivesReconnect ==
  [][recon.phase = "writing" /\ IsWaiting(log) => Awaiting(log') = Awaiting(log)]_vars
=============================================================================
