-------------------------- MODULE SessionLogProofs --------------------------
(***************************************************************************)
(* No append to a session's log is lost and every answer reaches the batch *)
(* it answers, for any sends, answers and reconnects. The first invariant  *)
(* is the lock discipline that the log's appends rely on: whoever is       *)
(* between the read and the write of one is the live drain's owner, or the *)
(* reconnect that found no owner, so that it is alone and what it read is  *)
(* still what storage holds. The second says what the log then looks like: *)
(* an answer names the last batch that was recorded before it.             *)
(***************************************************************************)
EXTENDS SessionLog, TLAPS, FiniteSetTheorems

\* A nonempty set of positions has a last one: the one with the fewest after it.
LEMMA LastIsPosition ==
  ASSUME NEW n \in Nat, NEW S, S \subseteq 1..n, S # {}
  PROVE  Last(S) \in S /\ \A j \in S : j <= Last(S)
<1> DEFINE After(i) == {j \in S : i < j}
           afters == {After(i) : i \in S}
<1>1. IsFiniteSet(1..n)
  BY FS_Interval
<1>2. IsWellFoundedOn(StrictSubsetOrdering(1..n), SUBSET (1..n))
  BY <1>1, FS_StrictSubsetOrderingWellFounded, FS_FiniteSubsetsOfFinite
<1>3. afters \subseteq SUBSET (1..n) /\ afters # {}
  OBVIOUS
<1>4. PICK fewest \in afters : \A A \in afters : <<A, fewest>> \notin StrictSubsetOrdering(1..n)
  <2>. HIDE DEF afters
  <2>. QED
    BY <1>2, <1>3, WFMin
<1>5. PICK i \in S : fewest = After(i)
  OBVIOUS
<1>. HIDE DEF afters
<1>6. \A j \in S : j <= i
  <2>. SUFFICES ASSUME NEW j \in S, i < j PROVE FALSE
    OBVIOUS
  <2>1. i \in Nat /\ j \in Nat /\ S \subseteq Nat
    OBVIOUS
  <2>2. j \in After(i) /\ j \notin After(j)
    BY <2>1
  <2>3. \A m \in After(j) : m \in After(i)
    BY <2>1
  <2>4. <<After(j), After(i)>> \in StrictSubsetOrdering(1..n)
    BY <2>2, <2>3 DEF StrictSubsetOrdering
  <2>5. After(j) \in afters
    BY DEF afters
  <2>. QED
    BY <1>4, <1>5, <2>4, <2>5
<1>. QED
  BY <1>6 DEF Last
Active == {"accepted", "start", "starting", "running", "end", "ending", "over"}

\* Only the owner is at work, and its appends know the revision they expect.
OwnerIsAlone ==
  \A s \in Sends :
    /\ send[s].phase \in Active => owner = s
    /\ send[s].phase \in Active \ {"accepted", "over"} => send[s].expected \in Nat

\* Whoever is about to write has read what is there.
WritersAreCurrent ==
  /\ \A s \in Sends : send[s].phase \in {"starting", "ending"} => send[s].read = log
  /\ recon.phase = "writing" => owner = None /\ recon.read = log

IInv == TypeOK /\ OwnerIsAlone /\ WritersAreCurrent

-----------------------------------------------------------------------------
\* What is read off a log is typed.

LEMMA EventTyped ==
  ASSUME NEW type \in {"input", "answer", "started"} \cup Terminals,
         NEW run \in Sends \cup {None}, NEW questions \in SUBSET Questions, NEW batch \in Nat
  PROVE  NewEvent(type, run, questions, batch) \in Event
BY DEF NewEvent, Event

LEMMA BatchTyped ==
  ASSUME NEW l \in Seq(Event)
  PROVE  Batch(l) \in Nat /\ (Batch(l) # 0 => Batch(l) \in DOMAIN l)
<1> DEFINE S == {i \in DOMAIN l : l[i].type \in {"completed", "awaiting"} /\ l[i].batch = i}
<1>1. Len(l) \in Nat /\ S \subseteq 1..Len(l) /\ DOMAIN l = 1..Len(l)
  OBVIOUS
<1>2. Batch(l) = Last(S)
  BY DEF Batch
<1>. HIDE DEF S
<1>3. CASE S = {}
  BY <1>2, <1>3 DEF Last
<1>4. CASE S # {}
  <2>1. Last(S) \in S
    BY <1>1, <1>4, LastIsPosition
  <2>2. Batch(l) \in 1..Len(l)
    BY <1>1, <1>2, <2>1
  <2>. QED
    BY <1>1, <2>2
<1>. QED
  BY <1>3, <1>4

LEMMA IncompleteTyped ==
  ASSUME NEW l \in Seq(Event)
  PROVE  Incomplete(l) \in Sends \cup {None}
<1> DEFINE S == {i \in DOMAIN l :
                   /\ l[i].type = "started"
                   /\ \A j \in DOMAIN l :
                        j > i /\ l[j].type \in Terminals => l[j].run # l[i].run}
<1>1. Len(l) \in Nat /\ S \subseteq 1..Len(l) /\ DOMAIN l = 1..Len(l)
  OBVIOUS
<1>2. Incomplete(l) = IF S = {} THEN None ELSE l[Last(S)].run
  BY DEF Incomplete
<1>. HIDE DEF S
<1>3. CASE S = {}
  BY <1>2, <1>3
<1>4. CASE S # {}
  <2>1. Last(S) \in 1..Len(l)
    BY <1>1, <1>4, LastIsPosition
  <2>2. l[Last(S)] \in Event
    BY <2>1
  <2>. QED
    BY <1>2, <1>4, <2>2 DEF Event
<1>. QED
  BY <1>3, <1>4

LEMMA AwaitingTyped ==
  ASSUME NEW l \in Seq(Event)
  PROVE  Awaiting(l) \in SUBSET Questions
<1> DEFINE S == {i \in DOMAIN l : l[i].type \in Terminals}
<1>1. Len(l) \in Nat /\ S \subseteq 1..Len(l) /\ DOMAIN l = 1..Len(l)
  OBVIOUS
<1>2. Awaiting(l) = IF Last(S) = 0 THEN {}
                    ELSE IF l[Last(S)].type = "awaiting" THEN l[Last(S)].questions ELSE {}
  BY DEF Awaiting
<1>. HIDE DEF S
<1>3. CASE S = {}
  BY <1>2, <1>3 DEF Last
<1>4. CASE S # {}
  <2>1. Last(S) \in 1..Len(l)
    BY <1>1, <1>4, LastIsPosition
  <2>2. l[Last(S)] \in Event
    BY <2>1
  <2>. QED
    BY <1>2, <2>2 DEF Event
<1>. QED
  BY <1>3, <1>4

LEMMA ResponsesTyped ==
  ASSUME NEW l \in Seq(Event)
  PROVE  PausedBatchResponses(l) \in SUBSET Questions
<1>1. \A i \in DOMAIN l : l[i].questions \subseteq Questions
  <2>. SUFFICES ASSUME NEW i \in DOMAIN l PROVE l[i].questions \subseteq Questions
    OBVIOUS
  <2>1. l[i] \in Event
    OBVIOUS
  <2>. QED
    BY <2>1 DEF Event
<1> DEFINE given == {l[i].questions : i \in {j \in DOMAIN l : j > Batch(l) /\ l[j].type = "answer"}}
<1>2. \A Q \in given : Q \subseteq Questions
  <2>. SUFFICES ASSUME NEW Q \in given PROVE Q \subseteq Questions
    OBVIOUS
  <2>1. PICK i \in DOMAIN l : Q = l[i].questions
    OBVIOUS
  <2>. QED
    BY <1>1, <2>1
<1>. HIDE DEF given
<1>3. UNION given \subseteq Questions
  BY <1>2
<1>4. PausedBatchResponses(l) = IF Batch(l) = 0 THEN {} ELSE UNION given
  BY DEF PausedBatchResponses, given
<1>. QED
  BY <1>3, <1>4

\* What a send knows changes at the send alone, and stays typed.
LEMMA SentTyped ==
  /\ Unsent \in SendState /\ Unsent.phase = "idle"
  /\ Sent \in SendState /\ Sent.phase = "done"
  /\ [Sent EXCEPT !.phase = "over"] \in SendState /\ [Sent EXCEPT !.phase = "over"].phase = "over"
<1>1. <<>> \in Seq(Event)
  OBVIOUS
<1>2. Unsent \in SendState /\ Unsent.phase = "idle"
  BY <1>1 DEF Unsent, SendState, Phases
<1>3. Sent \in SendState /\ Sent.phase = "done"
  BY <1>2 DEF Sent, SendState, Phases
<1>. QED
  BY <1>2, <1>3 DEF SendState, Phases

-----------------------------------------------------------------------------
\* A step of a send that appends nothing and gives no write away.
LEMMA QuietStepKeeps ==
  ASSUME IInv, NEW s \in Sends, send' = [send EXCEPT ![s] = send'[s]], send'[s] \in SendState,
         UNCHANGED <<log, epoch, recon, restarts>>,
         owner' \in Sends \cup {None},
         \A t \in Sends \ {s} : send[t].phase \in Active => owner' = t,
         send'[s].phase \in Active => owner' = s,
         send'[s].phase \in Active \ {"accepted", "over"} => send'[s].expected \in Nat,
         send'[s].phase \in {"starting", "ending"} => send'[s].read = log,
         recon.phase = "writing" => owner' = None
  PROVE  IInv'
<1>1. TypeOK'
  BY DEF IInv, TypeOK
<1>2. \A t \in Sends \ {s} : send'[t] = send[t]
  BY DEF IInv, TypeOK
<1>3. OwnerIsAlone'
  BY <1>2 DEF IInv, OwnerIsAlone
<1>4. WritersAreCurrent'
  BY <1>2 DEF IInv, WritersAreCurrent
<1>. QED
  BY <1>1, <1>3, <1>4 DEF IInv

\* So does one after which the send is no longer at work.
LEMMA SentStepKeeps ==
  ASSUME IInv, NEW s \in Sends, UNCHANGED <<log, epoch, recon, restarts>>,
         \/ send' = [send EXCEPT ![s] = Sent] /\ owner' = owner
         \/ send' = [send EXCEPT ![s] = Sent] /\ send[s].phase = "over" /\ owner' = None
         \/ /\ send' = [send EXCEPT ![s] = [Sent EXCEPT !.phase = "over"]]
            /\ owner' = owner /\ owner = s
  PROVE  IInv'
<1> DEFINE over == [Sent EXCEPT !.phase = "over"]
<1>0. over \in SendState /\ over.phase = "over"
  BY SentTyped
<1>1. send' = [send EXCEPT ![s] = send'[s]]
      /\ (send'[s] = Sent \/ (send'[s] = over /\ owner' = s))
  <2>. HIDE DEF over
  <2>1. send \in [Sends -> SendState]
    BY DEF IInv, TypeOK
  <2>2. send' = [send EXCEPT ![s] = Sent] \/ (send' = [send EXCEPT ![s] = over] /\ owner' = s)
    BY DEF over
  <2>3. CASE send' = [send EXCEPT ![s] = Sent]
    BY <2>1, <2>3
  <2>4. CASE send' = [send EXCEPT ![s] = over] /\ owner' = s
    BY <2>1, <2>4
  <2>. QED
    BY <2>2, <2>3, <2>4
<1>. HIDE DEF over
<1>2. send'[s] \in SendState /\ send'[s].phase \in {"done", "over"}
      /\ (send'[s].phase = "over" => owner' = s)
  BY <1>0, <1>1, SentTyped
<1>3. owner' = owner \/ (owner' = None /\ send[s].phase = "over" /\ owner = s)
  <2>1. send[s].phase = "over" => owner = s
    BY DEF IInv, OwnerIsAlone, Active
  <2>. QED
    BY <2>1, Zenon
<1>4. \A t \in Sends \ {s} : send[t].phase \in Active => owner' = t
  BY <1>3 DEF IInv, OwnerIsAlone
<1>5. owner' \in Sends \cup {None} /\ (recon.phase = "writing" => owner' = None)
  BY <1>3 DEF IInv, TypeOK, WritersAreCurrent
<1>6. send'[s].phase \in Active => owner' = s
  BY <1>2 DEF Active
<1>. QED
  BY <1>1, <1>2, <1>4, <1>5, <1>6, QuietStepKeeps DEF Active

\* Before a send is admitted it is not at work; the slot is free when it is.
LEMMA AdmissionKeeps ==
  ASSUME IInv, NEW s \in Sends, Prepare(s) \/ Check(s) \/ Register(s)
  PROVE  IInv'
<1>. USE DEF IInv, TypeOK
<1>1. CASE Prepare(s)
  <2>1. PICK revision \in {None, Len(log)}, q \in IF s \in Answers THEN Questions ELSE {None} :
          send' = [send EXCEPT ![s].phase = "prepared", ![s].epoch = epoch,
                               ![s].question = q, ![s].expected = revision]
    BY <1>1 DEF Prepare
  <2>2. revision \in Nat \cup {None} /\ q \in Questions \cup {None}
    OBVIOUS
  <2> DEFINE prepared == [send[s] EXCEPT !.phase = "prepared", !.epoch = epoch,
                                         !.question = q, !.expected = revision]
  <2>3. send[s] \in SendState
    OBVIOUS
  <2>4. prepared \in SendState /\ prepared.phase = "prepared"
    BY <2>2, <2>3 DEF SendState, Phases
  <2>5. send' = [send EXCEPT ![s] = prepared]
    BY <2>1 DEF SendState
  <2>. HIDE DEF prepared
  <2>6. send' = [send EXCEPT ![s] = send'[s]] /\ send'[s] = prepared
    BY <2>5
  <2>7. \A t \in Sends : send[t].phase \in Active => owner = t
    BY DEF OwnerIsAlone
  <2>8. recon.phase = "writing" => owner = None
    BY DEF WritersAreCurrent
  <2>9. UNCHANGED <<log, owner, epoch, recon, restarts>> /\ owner \in Sends \cup {None}
    BY <1>1 DEF Prepare
  <2>. HIDE DEF IInv, TypeOK
  <2>. QED
    BY <2>4, <2>6, <2>7, <2>8, <2>9, QuietStepKeeps DEF Active
<1>2. CASE Check(s)
  <2>1. CASE Incomplete(log) # None \/ owner # None
    <3>1. send' = [send EXCEPT ![s] = Sent] /\ UNCHANGED <<log, owner, epoch, recon, restarts>>
      BY <1>2, <2>1 DEF Check
    <3>. HIDE DEF IInv, TypeOK
    <3>. QED
      BY <3>1, SentStepKeeps
  <2>2. CASE ~(Incomplete(log) # None \/ owner # None)
    <3>1. send' = [send EXCEPT ![s] = [send[s] EXCEPT !.phase = "ready"]]
      BY <1>2, <2>2 DEF Check
    <3>2. [send[s] EXCEPT !.phase = "ready"] \in SendState
          /\ [send[s] EXCEPT !.phase = "ready"].phase = "ready"
      BY DEF SendState, Phases
    <3>3. send' = [send EXCEPT ![s] = send'[s]] /\ send'[s] \in SendState
          /\ send'[s].phase = "ready"
      BY <3>1, <3>2
    <3>4. UNCHANGED <<log, owner, epoch, recon, restarts>> /\ owner \in Sends \cup {None}
      BY <1>2 DEF Check
    <3>5. \A t \in Sends : send[t].phase \in Active => owner = t
      BY DEF OwnerIsAlone
    <3>6. recon.phase = "writing" => owner = None
      BY DEF WritersAreCurrent
    <3>. HIDE DEF IInv, TypeOK
    <3>. QED
      BY <3>3, <3>4, <3>5, <3>6, QuietStepKeeps DEF Active
  <2>. QED
    BY <2>1, <2>2
<1>3. CASE Register(s)
  <2>1. CASE Admits(s)
    <3>1. send' = [send EXCEPT ![s].phase = "accepted"] /\ owner' = s
          /\ UNCHANGED <<log, epoch, recon, restarts>>
      BY <1>3, <2>1 DEF Register
    <3>2. send' = [send EXCEPT ![s] = send'[s]] /\ send'[s] \in SendState
          /\ send'[s].phase = "accepted"
      BY <3>1 DEF SendState, Phases
    <3>3. \A t \in Sends : send[t].phase \notin Active
      BY <2>1, SendsAssumption DEF Admits, OwnerIsAlone
    <3>4. recon.phase # "writing"
      BY <2>1 DEF Admits
    <3>. HIDE DEF IInv, TypeOK
    <3>. QED
      BY <3>1, <3>2, <3>3, <3>4, QuietStepKeeps DEF Active
  <2>2. CASE ~Admits(s)
    <3>1. send' = [send EXCEPT ![s] = Sent] /\ UNCHANGED <<log, owner, epoch, recon, restarts>>
      BY <1>3, <2>2 DEF Register
    <3>. HIDE DEF IInv, TypeOK
    <3>. QED
      BY <3>1, SentStepKeeps
  <2>. QED
    BY <2>1, <2>2
<1>. QED
  BY <1>1, <1>2, <1>3

-----------------------------------------------------------------------------
\* The owner's append.

\* While a send is at work it is the owner, and nobody finalizes.
LEMMA AtWork ==
  ASSUME IInv, NEW s \in Sends, send[s].phase \in Active
  PROVE  /\ owner = s /\ recon.phase # "writing"
         /\ \A t \in Sends \ {s} : send[t].phase \notin Active
BY SendsAssumption DEF IInv, OwnerIsAlone, WritersAreCurrent

\* A step of the owner that appends nothing.
LEMMA OwnerStepKeeps ==
  ASSUME IInv, NEW s \in Sends, send[s].phase \in Active,
         NEW next \in SendState, send' = [send EXCEPT ![s] = next],
         UNCHANGED <<log, owner, epoch, recon, restarts>>,
         next.phase \in Active \ {"accepted", "over"}, next.expected \in Nat,
         next.phase \in {"starting", "ending"} => next.read = log
  PROVE  IInv'
<1>1. send' = [send EXCEPT ![s] = send'[s]] /\ send'[s] = next
  BY DEF IInv, TypeOK
<1>2. owner' = s /\ owner' \in Sends \cup {None}
  BY AtWork
<1>3. recon.phase # "writing" /\ \A t \in Sends \ {s} : send[t].phase \notin Active
  BY AtWork
<1>. QED
  BY <1>1, <1>2, <1>3, QuietStepKeeps

LEMMA LoadKeeps ==
  ASSUME IInv, NEW s \in Sends, Load(s)
  PROVE  IInv'
<1> DEFINE q == send[s].question
           first == IF s \in Inputs THEN NewEvent("input", None, {}, 0)
                    ELSE NewEvent("answer", None, {q}, Batch(log))
           given == IF s \in Inputs THEN {} ELSE PausedBatchResponses(log) \cup {q}
           expected == IF send[s].expected = None THEN Len(log) ELSE send[s].expected
           events == <<first, NewEvent("started", s, {}, 0)>>
           opened == [send[s] EXCEPT !.phase = "start", !.expected = expected,
                                     !.given = given, !.events = events]
<1>1. /\ send[s] \in SendState /\ send[s].phase = "accepted" /\ log \in Seq(Event)
      /\ owner = s /\ UNCHANGED <<log, owner, epoch, recon, restarts>>
  BY DEF Load, IInv, TypeOK, OwnerIsAlone, Active
<1>2. CASE s \in Answers /\ q \notin Awaiting(log)
  <2>1. send' = [send EXCEPT ![s] = [Sent EXCEPT !.phase = "over"]]
    BY <1>2 DEF Load
  <2>. QED
    BY <1>1, <2>1, SentStepKeeps
<1>3. CASE ~(s \in Answers /\ q \notin Awaiting(log))
  <2>1. s \notin Inputs => q \in Questions
    <3>1. s \notin Inputs => q \in Awaiting(log)
      BY <1>3 DEF Sends
    <3>. QED
      BY <3>1, AwaitingTyped, <1>1
  <2>2. expected \in Nat /\ given \in SUBSET Questions
    BY <1>1, <2>1, ResponsesTyped DEF SendState
  <2>3. first \in Event
    <3>1. CASE s \in Inputs
      BY <3>1, EventTyped
    <3>2. CASE s \notin Inputs
      BY <1>1, <2>1, <3>2, EventTyped, BatchTyped
    <3>. QED
      BY <3>1, <3>2
  <2>4. NewEvent("started", s, {}, 0) \in Event
    BY EventTyped
  <2>5. events \in Seq(Event)
    BY <2>3, <2>4
  <2>6. send' = [send EXCEPT ![s] = opened]
    BY <1>1, <1>3 DEF Load, SendState
  <2>. HIDE DEF expected, given, events
  <2>7. opened \in SendState /\ opened.phase = "start" /\ opened.expected = expected
    BY <1>1, <2>2, <2>5 DEF SendState, Phases
  <2>. HIDE DEF opened
  <2>. QED
    BY <1>1, <2>2, <2>6, <2>7, OwnerStepKeeps DEF Active
<1>. QED
  BY <1>2, <1>3

LEMMA ReadKeeps ==
  ASSUME IInv, NEW s \in Sends, Read(s)
  PROVE  IInv'
<1> DEFINE phase == IF send[s].phase = "start" THEN "starting" ELSE "ending"
           reading == [send[s] EXCEPT !.phase = phase, !.read = log]
<1>1. /\ send[s] \in SendState /\ send[s].phase \in {"start", "end"} /\ log \in Seq(Event)
      /\ UNCHANGED <<log, owner, epoch, recon, restarts>>
  BY DEF Read, IInv, TypeOK
<1>2. send[s].expected \in Nat /\ phase \in {"starting", "ending"}
  BY <1>1 DEF IInv, OwnerIsAlone, Active
<1>3. send' = [send EXCEPT ![s] = reading]
  BY <1>1 DEF Read, SendState
<1>. HIDE DEF phase
<1>4. /\ reading \in SendState /\ reading.phase = phase /\ reading.read = log
      /\ reading.expected = send[s].expected
  BY <1>1, <1>2 DEF SendState, Phases
<1>. HIDE DEF reading
<1>. QED
  BY <1>1, <1>2, <1>3, <1>4, OwnerStepKeeps DEF Active

\* The owner's write replaces the log it has read, which is the log there is.
LEMMA WriteAppends ==
  ASSUME IInv, NEW s \in Sends, Write(s)
  PROVE  /\ log' = log \/ \E events \in Seq(Event) : log' = log \o events
         /\ IInv'
<1>1. /\ send[s] \in SendState /\ send[s].phase \in {"starting", "ending"}
      /\ log \in Seq(Event) /\ UNCHANGED <<owner, epoch, recon, restarts>>
  BY DEF Write, IInv, TypeOK
<1>2. owner = s /\ recon.phase # "writing"
      /\ \A t \in Sends \ {s} : send[t].phase \notin Active
  BY <1>1, AtWork DEF Active
<1>3. send[s].read = log /\ send[s].events \in Seq(Event)
  BY <1>1 DEF IInv, WritersAreCurrent, SendState
<1>4. CASE send[s].expected # Len(send[s].read)
  <2>1. log' = log /\ send' = [send EXCEPT ![s] = [Sent EXCEPT !.phase = "over"]]
    BY <1>4 DEF Write
  <2>. QED
    BY <1>1, <1>2, <2>1, SentStepKeeps
<1>5. CASE ~(send[s].expected # Len(send[s].read))
  <2> DEFINE over == [Sent EXCEPT !.phase = "over"]
             running == [send[s] EXCEPT !.phase = "running", !.expected = Len(log'),
                                        !.events = <<>>, !.read = <<>>]
             next == IF send[s].phase = "ending" THEN over ELSE running
  <2>1. log' = log \o send[s].events
    BY <1>3, <1>5 DEF Write
  <2>2. log' \in Seq(Event) /\ Len(log') \in Nat /\ <<>> \in Seq(Event)
    BY <1>1, <1>3, <2>1
  <2>3. send' = [send EXCEPT ![s] = next]
    BY <1>5 DEF Write
  <2>4. running \in SendState /\ running.phase = "running" /\ running.expected \in Nat
    BY <1>1, <2>2 DEF SendState, Phases
  <2>5. over \in SendState /\ over.phase = "over"
    BY SentTyped
  <2>. HIDE DEF over, running
  <2>6. next \in SendState
        /\ (next.phase = "over" \/ (next.phase = "running" /\ next.expected \in Nat))
    BY <2>4, <2>5
  <2>. HIDE DEF next
  <2>7. send'[s] = next /\ \A t \in Sends \ {s} : send'[t] = send[t]
    BY <2>3 DEF IInv, TypeOK
  <2>8. TypeOK'
    BY <1>1, <2>2, <2>3, <2>6 DEF IInv, TypeOK
  <2>9. OwnerIsAlone'
    BY <1>1, <1>2, <2>6, <2>7 DEF OwnerIsAlone, Active
  <2>10. WritersAreCurrent'
    BY <1>1, <1>2, <2>6, <2>7 DEF WritersAreCurrent, Active
  <2>. QED
    BY <1>3, <2>1, <2>8, <2>9, <2>10 DEF IInv
<1>. QED
  BY <1>4, <1>5

LEMMA FinishKeeps ==
  ASSUME IInv, NEW s \in Sends, Finish(s)
  PROVE  IInv'
<1> DEFINE n == send[s].expected + 1
           batch == Batch(log)
           asked == IF batch = 0 THEN {} ELSE log[batch].questions
<1>1. /\ send[s] \in SendState /\ send[s].phase = "running" /\ log \in Seq(Event)
      /\ send[s].expected \in Nat /\ UNCHANGED <<log, owner, epoch, recon, restarts>>
  BY DEF Finish, IInv, TypeOK, OwnerIsAlone, Active
<1>2. n \in Nat /\ batch \in Nat
  BY <1>1, BatchTyped
<1>3. asked \in SUBSET Questions
  <2>1. CASE batch = 0
    BY <2>1
  <2>2. CASE batch # 0
    <3>1. log[batch] \in Event
      BY <1>1, <2>2, BatchTyped
    <3>. QED
      BY <2>2, <3>1 DEF Event
  <2>. QED
    BY <2>1, <2>2
<1>4. PICK event \in Outcomes(s, n) :
        send' = [send EXCEPT ![s].phase = "end", ![s].events = <<event>>]
  BY DEF Finish
<1>5. \/ event = NewEvent("failed", s, {}, 0) \/ event = NewEvent("completed", s, {}, n)
      \/ \E Q \in SUBSET asked : event = NewEvent("awaiting", s, Q, batch)
      \/ \E Q \in SUBSET Questions : event = NewEvent("awaiting", s, Q, n)
  BY <1>4 DEF Outcomes
<1>. HIDE DEF n, batch, asked
<1>6. event \in Event
  <2>1. CASE event = NewEvent("failed", s, {}, 0)
    BY <2>1, EventTyped DEF Terminals
  <2>2. CASE event = NewEvent("completed", s, {}, n)
    BY <1>2, <2>2, EventTyped DEF Terminals
  <2>3. ASSUME NEW Q \in SUBSET asked, event = NewEvent("awaiting", s, Q, batch)
        PROVE  event \in Event
    BY <1>2, <1>3, <2>3, EventTyped DEF Terminals
  <2>4. ASSUME NEW Q \in SUBSET Questions, event = NewEvent("awaiting", s, Q, n)
        PROVE  event \in Event
    BY <1>2, <2>4, EventTyped DEF Terminals
  <2>. QED
    BY <1>5, <2>1, <2>2, <2>3, <2>4
<1> DEFINE ended == [send[s] EXCEPT !.phase = "end", !.events = <<event>>]
<1>7. <<event>> \in Seq(Event)
  BY <1>6
<1>8. send' = [send EXCEPT ![s] = ended]
  BY <1>1, <1>4 DEF SendState
<1>9. ended \in SendState /\ ended.phase = "end" /\ ended.expected = send[s].expected
  BY <1>1, <1>7 DEF SendState, Phases
<1>. HIDE DEF ended
<1>. QED
  BY <1>1, <1>8, <1>9, OwnerStepKeeps DEF Active

-----------------------------------------------------------------------------
\* Ends, interruptions and reconnects.

LEMMA LeaveKeeps ==
  ASSUME IInv, NEW s \in Sends, Leave(s)
  PROVE  IInv'
BY SentStepKeeps DEF Leave

LEMMA InterruptKeeps ==
  ASSUME IInv, Interrupt
  PROVE  IInv'
<1>1. owner \in Sends
  BY DEF Interrupt, IInv, TypeOK
<1>. QED
  BY <1>1, SentStepKeeps DEF Interrupt

LEMMA ReconnectKeeps ==
  ASSUME IInv, Reconnect \/ FinalizeReads \/ ReconnectLeaves
  PROVE  IInv'
<1>1. CASE Reconnect
  BY <1>1 DEF Reconnect, IInv, TypeOK, OwnerIsAlone, WritersAreCurrent
<1>2. CASE FinalizeReads
  BY <1>2 DEF FinalizeReads, OwnerSettled, IInv, TypeOK, OwnerIsAlone, WritersAreCurrent
<1>3. CASE ReconnectLeaves
  <2>1. NoReconnect \in [phase : {"none", "waiting", "writing"}, read : Seq(Event)]
        /\ NoReconnect.phase = "none"
    BY DEF NoReconnect
  <2>. QED
    BY <1>3, <2>1 DEF ReconnectLeaves, IInv, TypeOK, OwnerIsAlone, WritersAreCurrent
<1>. QED
  BY <1>1, <1>2, <1>3

\* A reconnect writes when there is no owner, so that nobody else is at work.
LEMMA FinalizeAppends ==
  ASSUME IInv, FinalizeWrites
  PROVE  /\ log' = log \/ \E events \in Seq(Event) : log' = log \o events
         /\ IInv'
<1>1. /\ recon.read = log /\ owner = None /\ log \in Seq(Event)
      /\ UNCHANGED <<send, owner, epoch, restarts>> /\ recon' = NoReconnect
  BY DEF FinalizeWrites, IInv, TypeOK, WritersAreCurrent
<1>2. \A s \in Sends : send[s].phase \notin Active
  BY <1>1, SendsAssumption DEF IInv, OwnerIsAlone
<1> DEFINE event == NewEvent("interrupted", Incomplete(log), {}, 0)
<1>3. <<event>> \in Seq(Event)
  <2>1. Incomplete(log) \in Sends \cup {None}
    BY <1>1, IncompleteTyped
  <2>2. event \in Event
    BY <2>1, EventTyped DEF Terminals
  <2>. QED
    BY <2>2
<1>4. log' = log \/ log' = log \o <<event>>
  BY <1>1, <1>3 DEF FinalizeWrites
<1>. HIDE DEF event
<1>5. log' \in Seq(Event)
  BY <1>1, <1>3, <1>4
<1>6. NoReconnect \in [phase : {"none", "waiting", "writing"}, read : Seq(Event)]
      /\ NoReconnect.phase = "none"
  BY DEF NoReconnect
<1>7. TypeOK'
  BY <1>1, <1>5, <1>6 DEF IInv, TypeOK
<1>8. OwnerIsAlone' /\ WritersAreCurrent'
  BY <1>1, <1>2, <1>6 DEF IInv, OwnerIsAlone, WritersAreCurrent, Active
<1>. QED
  BY <1>3, <1>4, <1>7, <1>8 DEF IInv

LEMMA RestartKeeps ==
  ASSUME IInv, Restart
  PROVE  IInv'
<1>1. \A s \in Sends : (send'[s] = send[s] /\ send[s].phase = "idle") \/ send'[s] = Sent
  BY DEF Restart
<1>2. \A s \in Sends : send'[s] \in SendState /\ send'[s].phase \in {"idle", "done"}
  BY <1>1, SentTyped DEF IInv, TypeOK
<1>3. NoReconnect \in [phase : {"none", "waiting", "writing"}, read : Seq(Event)]
      /\ NoReconnect.phase = "none"
  BY DEF NoReconnect
<1>4. send' \in [Sends -> SendState]
  BY <1>2 DEF Restart
<1>5. TypeOK'
  BY <1>3, <1>4 DEF Restart, IInv, TypeOK
<1>6. OwnerIsAlone' /\ WritersAreCurrent'
  BY <1>2, <1>3 DEF Restart, OwnerIsAlone, WritersAreCurrent, Active
<1>. QED
  BY <1>5, <1>6 DEF IInv

-----------------------------------------------------------------------------

LEMMA InvInit == Init => IInv
<1>. SUFFICES ASSUME Init PROVE IInv
  OBVIOUS
<1>1. \A s \in Sends : send[s] = Unsent
  BY DEF Init
<1>2. NoReconnect \in [phase : {"none", "waiting", "writing"}, read : Seq(Event)]
      /\ NoReconnect.phase = "none"
  BY DEF NoReconnect
<1>3. TypeOK
  BY <1>2, SentTyped DEF Init, TypeOK
<1>4. OwnerIsAlone /\ WritersAreCurrent
  BY <1>1, <1>2, SentTyped DEF Init, OwnerIsAlone, WritersAreCurrent, Active
<1>. QED
  BY <1>3, <1>4 DEF IInv

\* The lock discipline holds at every step of a send, of its run, and of a
\* reconnect, and a fresh isolate keeps it (yolk-agent.ts, drain-lifecycle.ts).
THEOREM InvariantHolds == Spec => []IInv
<1>1. Init => IInv
  BY InvInit
<1>2. IInv /\ [Next]_vars => IInv'
  <2>. SUFFICES ASSUME IInv, [Next]_vars PROVE IInv'
    OBVIOUS
  <2>1. ASSUME NEW s \in Sends, SendSteps(s) PROVE IInv'
    BY <2>1, AdmissionKeeps, LoadKeeps, ReadKeeps, WriteAppends, FinishKeeps, LeaveKeeps
       DEF SendSteps
  <2>2. CASE Interrupt \/ Reconnect \/ FinalizeReads \/ FinalizeWrites \/ ReconnectLeaves
             \/ Restart
    BY <2>2, InterruptKeeps, ReconnectKeeps, FinalizeAppends, RestartKeeps
  <2>3. CASE UNCHANGED vars
    BY <2>3 DEF vars, IInv, TypeOK, OwnerIsAlone, WritersAreCurrent
  <2>. QED
    BY <2>1, <2>2, <2>3 DEF Next
<1>. QED
  BY <1>1, <1>2, PTL DEF Spec

\* Every variable has its type, whatever the bounds (session-event-store.ts).
THEOREM TypeCorrect == Spec => []TypeOK
<1>1. IInv => TypeOK
  BY DEF IInv
<1>. QED
  BY <1>1, InvariantHolds, PTL

\* However sends, closing sockets, reconnects and fresh isolates follow each
\* other, a write never replaces a log that has grown since it was read
\* (session-event-storage.ts, append and interruptLatestIncompleteRun).
THEOREM NoAppendIsLost == Spec => LogOnlyGrows
<1> DEFINE Grows == Len(log) <= Len(log') /\ \A i \in DOMAIN log : log'[i] = log[i]
<1>1. ASSUME IInv, [Next]_vars PROVE [Grows]_vars
  <2>1. log \in Seq(Event)
    BY <1>1 DEF IInv, TypeOK
  <2>2. log' = log \/ \E events \in Seq(Event) : log' = log \o events
    <3>1. ASSUME NEW s \in Sends, Write(s)
          PROVE  log' = log \/ \E events \in Seq(Event) : log' = log \o events
      BY <1>1, <3>1, WriteAppends
    <3>2. CASE FinalizeWrites
      BY <1>1, <3>2, FinalizeAppends
    <3>3. CASE (\A s \in Sends : ~Write(s)) /\ ~FinalizeWrites
      BY <1>1, <3>3 DEF Next, SendSteps, Prepare, Check, Register, Load, Read, Finish, Leave,
                        Interrupt, Reconnect, FinalizeReads, ReconnectLeaves, Restart,
                        vars
    <3>. QED
      BY <3>1, <3>2, <3>3
  <2>3. CASE log' = log
    BY <2>1, <2>3
  <2>4. ASSUME NEW events \in Seq(Event), log' = log \o events PROVE Grows
    BY <2>1, <2>4
  <2>. QED
    BY <2>2, <2>3, <2>4
<1>. QED
  BY <1>1, InvariantHolds, PTL DEF Spec, LogOnlyGrows

-----------------------------------------------------------------------------
(* Answers and their batches.                                              *)

\* The positions that recorded an assistant message.
Batches(l) == {i \in DOMAIN l : l[i].type \in {"completed", "awaiting"} /\ l[i].batch = i}

\* An answer names the last batch recorded before it, a pause one there is.
BatchesAreNamed(l) ==
  \A i \in DOMAIN l :
    /\ l[i].type = "answer" =>
         /\ l[i].batch \in Batches(l) /\ l[i].batch < i
         /\ \A k \in Batches(l) : k < i => k <= l[i].batch
    /\ l[i].type = "awaiting" => l[i].batch \in Batches(l)

\* The questions answered in batch b.
AnsweredIn(l, b) ==
  UNION {l[i].questions : i \in {j \in DOMAIN l : l[j].type = "answer" /\ l[j].batch = b}}

\* What a send is about to append fits the log it will be appended to, and its
\* run is given what that log, or the one that results, says of the batch.
AppendFits(s) ==
  LET events == send[s].events
  IN /\ send[s].phase \in {"start", "starting"} =>
          /\ events = <<events[1], NewEvent("started", s, {}, 0)>> /\ events[1] \in Event
          /\ s \in Inputs => events[1].type = "input"
          /\ s \in Answers =>
               /\ events[1].type = "answer" /\ events[1].batch = Batch(log) /\ Batch(log) # 0
               /\ send[s].given = AnsweredIn(log, Batch(log)) \cup events[1].questions
     /\ send[s].phase \in {"end", "ending"} =>
          /\ events = <<events[1]>> /\ events[1] \in Event
          /\ events[1].type # "answer"
          /\ events[1].type = "awaiting" =>
               \/ events[1].batch = send[s].expected + 1
               \/ events[1].batch = Batch(log) /\ Batch(log) # 0
     /\ s \in Answers /\ send[s].phase \in {"running", "end", "ending"} =>
          send[s].given = AnsweredIn(log, Batch(log))

AnswerInv ==
  /\ IInv
  /\ BatchesAreNamed(log)
  /\ \A s \in Sends : AppendFits(s)

LEMMA BatchIsLast ==
  ASSUME NEW l \in Seq(Event)
  PROVE  /\ Batches(l) \subseteq 1..Len(l)
         /\ Batches(l) = {} => Batch(l) = 0
         /\ Batches(l) # {} => Batch(l) \in Batches(l) /\ \A i \in Batches(l) : i <= Batch(l)
<1>1. Len(l) \in Nat /\ Batches(l) \subseteq 1..Len(l) /\ Batch(l) = Last(Batches(l))
  BY DEF Batches, Batch
<1>2. CASE Batches(l) = {}
  BY <1>1, <1>2 DEF Last
<1>3. CASE Batches(l) # {}
  <2> DEFINE S == Batches(l)
  <2>. HIDE DEF S
  <2>1. Last(S) \in S /\ \A j \in S : j <= Last(S)
    BY <1>1, <1>3, LastIsPosition DEF S
  <2>. QED
    BY <1>1, <1>3, <2>1 DEF S
<1>. QED
  BY <1>2, <1>3, <1>1

\* What an event that is appended adds to the batches and to their answers.
LEMMA AppendedEvent ==
  ASSUME NEW l \in Seq(Event), NEW e \in Event
  PROVE  LET m == Append(l, e)
         IN /\ m \in Seq(Event) /\ Len(m) = Len(l) + 1
            /\ \A i \in DOMAIN l : i \in DOMAIN m /\ m[i] = l[i]
            /\ m[Len(l) + 1] = e /\ DOMAIN m = DOMAIN l \cup {Len(l) + 1}
            /\ \A i \in DOMAIN l : i < Len(l) + 1
BY DEF Event

LEMMA AppendedBatches ==
  ASSUME NEW l \in Seq(Event), NEW e \in Event
  PROVE  Batches(Append(l, e)) =
           Batches(l) \cup {i \in {Len(l) + 1} : e.type \in {"completed", "awaiting"} /\ e.batch = i}
BY AppendedEvent DEF Batches

LEMMA SameBatch ==
  ASSUME NEW l \in Seq(Event), NEW e \in Event, e.type \notin {"completed", "awaiting"}
  PROVE  Batch(Append(l, e)) = Batch(l)
<1>1. Batches(Append(l, e)) = Batches(l)
  BY AppendedBatches
<1>. QED
  BY <1>1 DEF Batches, Batch

LEMMA AppendedAnswers ==
  ASSUME NEW l \in Seq(Event), NEW e \in Event, NEW b
  PROVE  AnsweredIn(Append(l, e), b) =
           AnsweredIn(l, b) \cup (IF e.type = "answer" /\ e.batch = b THEN e.questions ELSE {})
<1> DEFINE m == Append(l, e)
           n == Len(l) + 1
           is(k, i) == k[i].type = "answer" /\ k[i].batch = b
<1>1. /\ \A i \in DOMAIN l : i \in DOMAIN m /\ m[i] = l[i]
      /\ m[n] = e /\ DOMAIN m = DOMAIN l \cup {n}
  BY AppendedEvent
<1>2. \A x : x \in AnsweredIn(m, b) <=> \E i \in DOMAIN m : is(m, i) /\ x \in m[i].questions
  BY DEF AnsweredIn
<1>3. \A x : x \in AnsweredIn(l, b) <=> \E i \in DOMAIN l : is(l, i) /\ x \in l[i].questions
  BY DEF AnsweredIn
<1>. HIDE DEF m, n
<1>4. \A x : x \in AnsweredIn(m, b) <=>
               x \in AnsweredIn(l, b) \/ (e.type = "answer" /\ e.batch = b /\ x \in e.questions)
  BY <1>1, <1>2, <1>3
<1>. QED
  BY <1>4 DEF m

\* Answers since the batch was recorded are the answers that name it.
LEMMA ResponsesAnswerBatch ==
  ASSUME NEW l \in Seq(Event), BatchesAreNamed(l), Batch(l) # 0
  PROVE  PausedBatchResponses(l) = AnsweredIn(l, Batch(l))
<1>1. Batch(l) \in Batches(l) /\ \A i \in Batches(l) : i <= Batch(l)
  BY BatchIsLast
<1>2. Batches(l) \subseteq Nat /\ DOMAIN l \subseteq Nat
  BY BatchIsLast
<1>3. \A j \in DOMAIN l : l[j].type = "answer" => (j > Batch(l) <=> l[j].batch = Batch(l))
  BY <1>1, <1>2 DEF BatchesAreNamed
<1>4. {j \in DOMAIN l : j > Batch(l) /\ l[j].type = "answer"}
        = {j \in DOMAIN l : l[j].type = "answer" /\ l[j].batch = Batch(l)}
  BY <1>3
<1>. QED
  BY <1>4 DEF PausedBatchResponses, AnsweredIn

\* A pending question belongs to a batch.
LEMMA AwaitingHasBatch ==
  ASSUME NEW l \in Seq(Event), BatchesAreNamed(l), Awaiting(l) # {}
  PROVE  Batch(l) # 0
<1> DEFINE S == {i \in DOMAIN l : l[i].type \in Terminals}
<1>1. Len(l) \in Nat /\ S \subseteq 1..Len(l) /\ DOMAIN l = 1..Len(l)
  OBVIOUS
<1>2. Last(S) # 0 /\ l[Last(S)].type = "awaiting"
  BY DEF Awaiting
<1>. HIDE DEF S
<1>3. S # {}
  BY <1>2 DEF Last
<1>4. Last(S) \in DOMAIN l
  <2>1. Last(S) \in S
    BY <1>1, <1>3, LastIsPosition
  <2>. QED
    BY <1>1, <2>1
<1>5. Batches(l) # {}
  BY <1>2, <1>4 DEF BatchesAreNamed
<1>. QED
  BY <1>5, BatchIsLast

\* An answer to the last batch, a pause in it, a new batch and any other event.
LEMMA AppendNames ==
  ASSUME NEW l \in Seq(Event), NEW e \in Event, BatchesAreNamed(l),
         e.type = "answer" => e.batch = Batch(l) /\ Batch(l) # 0,
         e.type = "awaiting" => e.batch = Len(l) + 1 \/ (e.batch = Batch(l) /\ Batch(l) # 0)
  PROVE  BatchesAreNamed(Append(l, e))
<1> DEFINE m == Append(l, e)
           n == Len(l) + 1
<1>1. /\ \A i \in DOMAIN l : m[i] = l[i] /\ i < n
      /\ m[n] = e /\ DOMAIN m = DOMAIN l \cup {n} /\ n \in Nat /\ DOMAIN l \subseteq Nat
  BY AppendedEvent
<1>2. /\ Batches(l) \subseteq Batches(m) /\ Batches(m) \subseteq Batches(l) \cup {n}
      /\ e.type = "awaiting" /\ e.batch = n => n \in Batches(m)
  BY AppendedBatches
<1>3. Batch(l) # 0 => /\ Batch(l) \in Batches(l) /\ Batch(l) < n
                      /\ \A i \in Batches(l) : i <= Batch(l)
  <2>1. Batches(l) \subseteq DOMAIN l
    BY DEF Batches
  <2>. QED
    BY <1>1, <2>1, BatchIsLast
<1>. HIDE DEF m, n
<1>4. ASSUME NEW i \in DOMAIN l
      PROVE  /\ m[i].type = "answer" =>
                  /\ m[i].batch \in Batches(m) /\ m[i].batch < i
                  /\ \A k \in Batches(m) : k < i => k <= m[i].batch
             /\ m[i].type = "awaiting" => m[i].batch \in Batches(m)
  <2>1. m[i] = l[i] /\ i < n /\ i \in Nat
    BY <1>1
  <2>2. \A k \in Batches(m) : k < i => k \in Batches(l)
    BY <1>1, <1>2, <2>1
  <2>. QED
    BY <1>2, <2>1, <2>2 DEF BatchesAreNamed
<1>5. /\ e.type = "answer" =>
           /\ e.batch \in Batches(m) /\ e.batch < n
           /\ \A k \in Batches(m) : k < n => k <= e.batch
      /\ e.type = "awaiting" => e.batch \in Batches(m)
  BY <1>1, <1>2, <1>3 DEF n
<1>. QED
  BY <1>1, <1>4, <1>5 DEF BatchesAreNamed, m

-----------------------------------------------------------------------------
\* A send with nothing to append, and no run, fits any log.
Working == {"start", "starting", "running", "end", "ending"}

\* A step of one send that appends nothing.
LEMMA QuietStepFits ==
  ASSUME AnswerInv, IInv', log' = log, NEW s \in Sends,
         \A t \in Sends \ {s} : send'[t] = send[t],
         send'[s].phase \in Working => AppendFits(s)'
  PROVE  AnswerInv'
<1>1. \A t \in Sends \ {s} : AppendFits(t)'
  BY DEF AnswerInv, AppendFits
<1>2. AppendFits(s)'
  BY DEF AppendFits, Working
<1>. QED
  BY <1>1, <1>2 DEF AnswerInv

LEMMA AdmissionFits ==
  ASSUME AnswerInv, NEW s \in Sends,
         Prepare(s) \/ Check(s) \/ Register(s) \/ Leave(s)
  PROVE  AnswerInv'
<1>1. IInv'
  BY AdmissionKeeps, LeaveKeeps DEF AnswerInv
<1>2. log' = log /\ send \in [Sends -> SendState]
  BY DEF Prepare, Check, Register, Leave, AnswerInv, IInv, TypeOK
<1>3. \A t \in Sends \ {s} : send'[t] = send[t]
  BY <1>2 DEF Prepare, Check, Register, Leave
<1>4. send'[s].phase \notin Working
  <2>1. CASE Prepare(s)
    <3>1. PICK revision \in {None, Len(log)}, q \in IF s \in Answers THEN Questions ELSE {None} :
            send' = [send EXCEPT ![s].phase = "prepared", ![s].epoch = epoch,
                                 ![s].question = q, ![s].expected = revision]
      BY <2>1 DEF Prepare
    <3>2. send'[s].phase = "prepared"
      BY <1>2, <3>1 DEF SendState
    <3>. QED
      BY <3>2 DEF Working
  <2>2. CASE Check(s) \/ Register(s) \/ Leave(s)
    BY <1>2, <2>2, SentTyped DEF Check, Register, Leave, SendState, Working
  <2>. QED
    BY <2>1, <2>2
<1>. QED
  BY <1>1, <1>2, <1>3, <1>4, QuietStepFits

LEMMA LoadFits ==
  ASSUME AnswerInv, NEW s \in Sends, Load(s)
  PROVE  AnswerInv'
<1> DEFINE q == send[s].question
           first == IF s \in Inputs THEN NewEvent("input", None, {}, 0)
                    ELSE NewEvent("answer", None, {q}, Batch(log))
           given == IF s \in Inputs THEN {} ELSE PausedBatchResponses(log) \cup {q}
           revision == IF send[s].expected = None THEN Len(log) ELSE send[s].expected
           events == <<first, NewEvent("started", s, {}, 0)>>
           opened == [send[s] EXCEPT !.phase = "start", !.expected = revision,
                                     !.given = given, !.events = events]
<1>1. IInv' /\ log' = log /\ log \in Seq(Event) /\ send \in [Sends -> SendState]
  BY LoadKeeps DEF AnswerInv, Load, IInv, TypeOK
<1>2. CASE s \in Answers /\ q \notin Awaiting(log)
  <2>1. send' = [send EXCEPT ![s] = [Sent EXCEPT !.phase = "over"]]
    BY <1>2 DEF Load
  <2>. QED
    BY <1>1, <2>1, SentTyped, QuietStepFits DEF Working
<1>3. CASE ~(s \in Answers /\ q \notin Awaiting(log))
  <2>1. send' = [send EXCEPT ![s] = opened]
    BY <1>1, <1>3 DEF Load, SendState
  <2>2. send'[s] = opened /\ \A t \in Sends \ {s} : send'[t] = send[t]
    BY <1>1, <2>1
  <2>3. opened.phase = "start" /\ opened.given = given /\ opened.events = events
    BY <1>1 DEF SendState
  <2>. HIDE DEF given, opened
  <2>4. s \in Answers => s \notin Inputs /\ q \in Awaiting(log)
    BY <1>3, SendsAssumption
  <2>5. s \in Answers =>
          /\ first.type = "answer" /\ first.questions = {q} /\ first.batch = Batch(log)
          /\ Batch(log) # 0
    BY <1>1, <2>4, AwaitingHasBatch DEF NewEvent, AnswerInv
  <2>6. s \in Answers => given = AnsweredIn(log, Batch(log)) \cup first.questions
    BY <1>1, <2>4, <2>5, ResponsesAnswerBatch DEF given, AnswerInv
  <2>7. s \in Inputs => first.type = "input"
    BY DEF NewEvent
  <2>8. first \in Event
    <3>1. CASE s \in Inputs
      BY <3>1, EventTyped
    <3>2. CASE s \notin Inputs
      <4>1. q \in Questions
        BY <1>1, <2>4, <3>2, AwaitingTyped DEF Sends
      <4>. QED
        BY <1>1, <3>2, <4>1, EventTyped, BatchTyped
    <3>. QED
      BY <3>1, <3>2
  <2>. HIDE DEF first
  <2>9. events = <<events[1], NewEvent("started", s, {}, 0)>> /\ events[1] = first
    OBVIOUS
  <2>. HIDE DEF events
  <2>10. AppendFits(s)'
    BY <1>1, <2>2, <2>3, <2>5, <2>6, <2>7, <2>8, <2>9 DEF AppendFits
  <2>. QED
    BY <1>1, <2>2, <2>10, QuietStepFits
<1>. QED
  BY <1>2, <1>3

LEMMA ReadFits ==
  ASSUME AnswerInv, NEW s \in Sends, Read(s)
  PROVE  AnswerInv'
<1>1. IInv' /\ log' = log /\ send \in [Sends -> SendState]
  BY ReadKeeps DEF AnswerInv, Read, IInv, TypeOK
<1>2. /\ \A t \in Sends \ {s} : send'[t] = send[t]
      /\ send'[s].given = send[s].given /\ send'[s].events = send[s].events
      /\ send'[s].expected = send[s].expected
      /\ \/ send[s].phase = "start" /\ send'[s].phase = "starting"
         \/ send[s].phase = "end" /\ send'[s].phase = "ending"
  BY <1>1 DEF Read, SendState
<1>3. AppendFits(s)'
  BY <1>1, <1>2 DEF AnswerInv, AppendFits
<1>. QED
  BY <1>1, <1>2, <1>3, QuietStepFits

LEMMA FinishFits ==
  ASSUME AnswerInv, NEW s \in Sends, Finish(s)
  PROVE  AnswerInv'
<1>1. IInv' /\ log' = log /\ send \in [Sends -> SendState] /\ log \in Seq(Event)
  BY FinishKeeps DEF AnswerInv, Finish, IInv, TypeOK
<1> DEFINE n == send[s].expected + 1
<1>2. PICK event \in Outcomes(s, n) :
        send' = [send EXCEPT ![s].phase = "end", ![s].events = <<event>>]
  BY DEF Finish
<1>3. /\ \A t \in Sends \ {s} : send'[t] = send[t]
      /\ send'[s].given = send[s].given /\ send'[s].events = <<event>>
      /\ send'[s].expected = send[s].expected /\ send'[s].phase = "end"
      /\ send[s].phase = "running"
  BY <1>1, <1>2 DEF SendState, Finish
<1>4. /\ event.type # "answer"
      /\ event.type = "awaiting" => event.batch = n \/ (event.batch = Batch(log) /\ Batch(log) # 0)
  BY <1>2 DEF Outcomes, NewEvent
<1>5. event \in Event
  <2>1. send'[s].events \in Seq(Event)
    BY <1>1 DEF IInv, TypeOK, SendState
  <2>2. <<event>> \in Seq(Event) /\ 1 \in DOMAIN <<event>> /\ <<event>>[1] = event
    BY <1>3, <2>1
  <2>. QED
    BY <2>2
<1>6. <<event>>[1] = event
  OBVIOUS
<1>7. AppendFits(s)'
  BY <1>1, <1>3, <1>4, <1>5, <1>6 DEF AnswerInv, AppendFits
<1>. QED
  BY <1>1, <1>3, <1>7, QuietStepFits

\* An append by the one who is at work on the log.
LEMMA AppendStepFits ==
  ASSUME AnswerInv, IInv', NEW s \in Sends, BatchesAreNamed(log)',
         \A t \in Sends \ {s} : send'[t].phase \notin Working,
         send'[s].phase \in Working => AppendFits(s)'
  PROVE  AnswerInv'
BY DEF AnswerInv, AppendFits, Working

LEMMA WriteFits ==
  ASSUME AnswerInv, NEW s \in Sends, Write(s)
  PROVE  AnswerInv'
<1> DEFINE events == send[s].events
           over == [Sent EXCEPT !.phase = "over"]
<1>1. /\ IInv' /\ send \in [Sends -> SendState] /\ log \in Seq(Event)
      /\ send[s].phase \in {"starting", "ending"} /\ send[s].read = log
      /\ BatchesAreNamed(log) /\ AppendFits(s)
  BY WriteAppends DEF AnswerInv, Write, IInv, TypeOK, WritersAreCurrent
<1>2. \A t \in Sends \ {s} : send[t].phase \notin Working
  BY <1>1, AtWork DEF AnswerInv, Active, Working
<1>3. over.phase \notin Working
  BY SentTyped DEF Working
<1>. HIDE DEF over
<1>4. CASE send[s].expected # Len(send[s].read)
  <2>1. log' = log /\ send' = [send EXCEPT ![s] = over]
    BY <1>4 DEF Write, over
  <2>. QED
    BY <1>1, <1>3, <2>1, QuietStepFits
<1>5. CASE send[s].expected = Len(log) /\ send[s].phase = "starting"
  <2> DEFINE first == events[1]
             started == NewEvent("started", s, {}, 0)
             l == Append(log, first)
             running == [send[s] EXCEPT !.phase = "running", !.expected = Len(log'),
                                        !.events = <<>>, !.read = <<>>]
  <2>1. /\ events = <<first, started>> /\ first \in Event
        /\ s \in Inputs => first.type = "input"
        /\ s \in Answers => /\ first.type = "answer" /\ first.batch = Batch(log) /\ Batch(log) # 0
                            /\ send[s].given = AnsweredIn(log, Batch(log)) \cup first.questions
    BY <1>1, <1>5 DEF AppendFits
  <2>2. log' = log \o events /\ send' = [send EXCEPT ![s] = running]
    BY <1>1, <1>5 DEF Write
  <2>3. started \in Event /\ started.type = "started"
    BY EventTyped DEF NewEvent
  <2>4. log' = log \o <<first, started>>
    BY <2>1, <2>2
  <2>. HIDE DEF events, started, first
  <2>5. l \in Seq(Event) /\ log' = Append(l, started)
    BY <1>1, <2>1, <2>3, <2>4
  <2>6. first.type \in {"input", "answer"}
    BY <2>1 DEF Sends
  <2>7. BatchesAreNamed(l) /\ Batch(l) = Batch(log)
    BY <1>1, <2>1, <2>6, AppendNames, SameBatch DEF Sends
  <2>8. BatchesAreNamed(log') /\ Batch(log') = Batch(log)
    BY <2>3, <2>5, <2>7, AppendNames, SameBatch
  <2>9. /\ send'[s].phase = "running" /\ send'[s].given = send[s].given
        /\ \A t \in Sends \ {s} : send'[t] = send[t]
    BY <1>1, <2>2 DEF SendState
  <2>10. s \in Answers => send[s].given = AnsweredIn(log', Batch(log))
    <3> DEFINE b == Batch(log)
    <3>. HIDE DEF b, l
    <3>1. AnsweredIn(log', b) = AnsweredIn(l, b)
      <4>1. AnsweredIn(Append(l, started), b) = AnsweredIn(l, b) \cup {}
        BY <2>3, <2>5, AppendedAnswers
      <4>. QED
        BY <2>5, <4>1 DEF AnsweredIn
    <3>2. s \in Answers => AnsweredIn(l, b) = AnsweredIn(log, b) \cup first.questions
      BY <1>1, <2>1, AppendedAnswers DEF b, l
    <3>. QED
      BY <2>1, <3>1, <3>2 DEF b
  <2>11. AppendFits(s)'
    BY <2>8, <2>9, <2>10 DEF AppendFits
  <2>12. BatchesAreNamed(log)'
    BY <2>8 DEF BatchesAreNamed, Batches
  <2>. QED
    BY <1>1, <1>2, <2>9, <2>11, <2>12, AppendStepFits
<1>6. CASE send[s].expected = Len(log) /\ send[s].phase = "ending"
  <2> DEFINE event == events[1]
  <2>1. /\ events = <<event>> /\ event \in Event /\ event.type # "answer"
        /\ event.type = "awaiting" =>
             event.batch = Len(log) + 1 \/ (event.batch = Batch(log) /\ Batch(log) # 0)
    BY <1>1, <1>6 DEF AppendFits
  <2>2. log' = log \o events /\ send' = [send EXCEPT ![s] = over]
    BY <1>1, <1>6 DEF Write, over
  <2>3. log' = Append(log, event)
    BY <1>1, <2>1, <2>2
  <2>4. BatchesAreNamed(log')
    BY <1>1, <2>1, <2>3, AppendNames
  <2>5. BatchesAreNamed(log)'
    BY <2>4 DEF BatchesAreNamed, Batches
  <2>6. send'[s].phase \notin Working /\ \A t \in Sends \ {s} : send'[t] = send[t]
    BY <1>1, <1>3, <2>2
  <2>. QED
    BY <1>1, <1>2, <2>5, <2>6, AppendStepFits
<1>. QED
  BY <1>1, <1>4, <1>5, <1>6

LEMMA FinalizeFits ==
  ASSUME AnswerInv, FinalizeWrites
  PROVE  AnswerInv'
<1>1. /\ IInv' /\ log \in Seq(Event) /\ recon.read = log /\ owner = None /\ send' = send
      /\ BatchesAreNamed(log)
  BY FinalizeAppends DEF AnswerInv, FinalizeWrites, IInv, TypeOK, WritersAreCurrent
<1>2. \A t \in Sends : send'[t].phase \notin Working
  BY <1>1, SendsAssumption DEF AnswerInv, IInv, OwnerIsAlone, Active, Working
<1> DEFINE event == NewEvent("interrupted", Incomplete(log), {}, 0)
<1>3. event \in Event /\ event.type = "interrupted"
  BY <1>1, IncompleteTyped, EventTyped DEF Terminals, NewEvent
<1>4. log' = log \/ log' = Append(log, event)
  BY <1>1 DEF FinalizeWrites
<1>. HIDE DEF event
<1>5. BatchesAreNamed(log')
  BY <1>1, <1>3, <1>4, AppendNames
<1>6. BatchesAreNamed(log)'
  BY <1>5 DEF BatchesAreNamed, Batches
<1>. QED
  BY <1>1, <1>2, <1>6 DEF AnswerInv, AppendFits, Working

LEMMA IdleStepsFit ==
  ASSUME AnswerInv,
         Interrupt \/ Reconnect \/ FinalizeReads \/ ReconnectLeaves \/ Restart \/ UNCHANGED vars
  PROVE  AnswerInv'
<1>1. CASE Interrupt
  <2>1. owner \in Sends /\ log' = log /\ IInv' /\ send \in [Sends -> SendState]
        /\ send' = [send EXCEPT ![owner] = [Sent EXCEPT !.phase = "over"]]
    BY <1>1, InterruptKeeps DEF Interrupt, AnswerInv, IInv, TypeOK
  <2>. QED
    BY <2>1, SentTyped, QuietStepFits DEF Working
<1>2. CASE Restart
  <2>1. IInv' /\ log' = log
    BY <1>2, RestartKeeps DEF Restart, AnswerInv
  <2>2. \A s \in Sends : send'[s].phase \notin Working
    BY <1>2, SentTyped DEF Restart, Working
  <2>. QED
    BY <2>1, <2>2 DEF AnswerInv, AppendFits, Working
<1>3. CASE Reconnect \/ FinalizeReads \/ ReconnectLeaves \/ UNCHANGED vars
  <2>1. IInv'
    <3>1. CASE UNCHANGED vars
      BY <3>1 DEF vars, AnswerInv, IInv, TypeOK, OwnerIsAlone, WritersAreCurrent
    <3>. QED
      BY <1>3, <3>1, ReconnectKeeps DEF AnswerInv
  <2>2. UNCHANGED <<log, send>>
    BY <1>3 DEF Reconnect, FinalizeReads, ReconnectLeaves, vars
  <2>. QED
    BY <2>1, <2>2 DEF AnswerInv, AppendFits
<1>. QED
  BY <1>1, <1>2, <1>3

\* A run that answers a question is given every answer to the batch it resumes and
\* none to an earlier one, also when a provider uses the identities of questions
\* again (run-runtime.ts, pausedBatchResponses).
THEOREM AnswersAreGiven == Spec => []AnswersReachTheirBatch
<1>1. Init => AnswerInv
  <2>. SUFFICES ASSUME Init PROVE AnswerInv
    OBVIOUS
  <2>1. \A s \in Sends : send[s].phase \notin Working
    BY SentTyped DEF Init, Working
  <2>2. log = <<>>
    BY DEF Init
  <2>. QED
    BY <2>1, <2>2, InvInit DEF AnswerInv, AppendFits, BatchesAreNamed, Working
<1>2. AnswerInv /\ [Next]_vars => AnswerInv'
  <2>. SUFFICES ASSUME AnswerInv, [Next]_vars PROVE AnswerInv'
    OBVIOUS
  <2>1. ASSUME NEW s \in Sends, SendSteps(s) PROVE AnswerInv'
    BY <2>1, AdmissionFits, LoadFits, ReadFits, WriteFits, FinishFits DEF SendSteps
  <2>. QED
    BY <2>1, FinalizeFits, IdleStepsFit DEF Next
<1>3. AnswerInv => AnswersReachTheirBatch
  BY DEF AnswerInv, AppendFits, AnswersReachTheirBatch, AnsweredIn, Sends
<1>. QED
  BY <1>1, <1>2, <1>3, PTL DEF Spec

-----------------------------------------------------------------------------
(* The session log keeps to SingleOwner.                                   *)

\* The owner is at work, or its work is over.
OwnerIsActive == owner # None => send[owner].phase \in Active

\* Sends have prepared in this epoch or an earlier one.
EpochsArePast == \A s \in Sends : send[s].epoch <= epoch

SharedInv == IInv /\ OwnerIsActive /\ EpochsArePast

\* When one send goes on, its phase and epoch decide whether it is fresh.
LEMMA OneSendMoves ==
  ASSUME NEW s \in Sends, \A t \in Sends \ {s} : send'[t] = send[t], epoch' = epoch
  PROVE  Fresh' = IF send'[s].phase \in {"prepared", "ready"} /\ send'[s].epoch = epoch
                  THEN Fresh \cup {s} ELSE Fresh \ {s}
BY DEF Fresh

\* Before it is admitted a send is not the owner, and only its freshness shows.
LEMMA AdmissionIsSeen ==
  ASSUME SharedInv, NEW s \in Sends, Prepare(s) \/ Check(s) \/ Register(s)
  PROVE  SharedInv' /\ [OneOwner!Next]_OneOwner!vars
<1>1. /\ send \in [Sends -> SendState] /\ epoch \in Nat /\ owner \in Sends \cup {None}
      /\ owner # None => send[owner].phase \in Active
      /\ UNCHANGED <<log, epoch, recon, restarts>> /\ Admission' = Admission
  BY DEF SharedInv, IInv, TypeOK, OwnerIsActive, Prepare, Check, Register, Admission
<1>2. send[s].phase \in {"idle", "prepared", "ready"} /\ s # owner
  <2>1. send[s].phase \in {"idle", "prepared", "ready"}
    BY DEF Prepare, Check, Register
  <2>. QED
    BY <1>1, <2>1, SendsAssumption DEF Active
<1>3. /\ \A t \in Sends \ {s} : send'[t] = send[t]
      /\ send'[s].epoch \in {send[s].epoch, epoch, 0}
  <2>1. Sent.epoch = 0
    BY DEF Sent, Unsent
  <2>2. CASE Prepare(s)
    <3>1. PICK revision \in {None, Len(log)}, q \in IF s \in Answers THEN Questions ELSE {None} :
            send' = [send EXCEPT ![s].phase = "prepared", ![s].epoch = epoch,
                                 ![s].question = q, ![s].expected = revision]
      BY <2>2 DEF Prepare
    <3>. QED
      BY <1>1, <3>1 DEF SendState
  <2>3. CASE Check(s)
    BY <1>1, <2>1, <2>3 DEF Check, SendState
  <2>4. CASE Register(s)
    BY <1>1, <2>1, <2>4 DEF Register, SendState
  <2>. QED
    BY <2>2, <2>3, <2>4
<1>4. IInv'
  BY AdmissionKeeps DEF SharedInv
<1>5. EpochsArePast'
  BY <1>1, <1>3 DEF SharedInv, EpochsArePast
<1>6. CASE owner' = owner
  <2>1. Stage' = Stage /\ OwnerIsActive'
    BY <1>1, <1>2, <1>3, <1>6 DEF Stage, OwnerIsActive
  <2>2. CASE send'[s].phase \in {"prepared", "ready"} /\ send'[s].epoch = epoch
    <3>1. Fresh' = Fresh \cup {s}
      BY <1>1, <1>3, <2>2, OneSendMoves
    <3>. QED
      BY <1>1, <1>4, <1>5, <1>6, <2>1, <3>1 DEF SharedInv, OneOwner!Next, OneOwner!Prepare
  <2>3. CASE ~(send'[s].phase \in {"prepared", "ready"} /\ send'[s].epoch = epoch)
    <3>1. Fresh' = Fresh \ {s}
      BY <1>1, <1>3, <2>3, OneSendMoves
    <3>. QED
      BY <1>1, <1>4, <1>5, <1>6, <2>1, <3>1 DEF SharedInv, OneOwner!Next, OneOwner!TurnAway
  <2>. QED
    BY <2>2, <2>3
<1>7. CASE owner' # owner
  <2>1. Register(s) /\ Admits(s) /\ owner' = s /\ send'[s].phase = "accepted"
    <3>1. Register(s) /\ Admits(s)
      BY <1>7 DEF Prepare, Check, Register
    <3>. QED
      BY <1>1, <3>1 DEF Register, SendState
  <2>2. s \in Fresh /\ owner = None /\ Admission = "open"
    BY <2>1 DEF Register, Admits, Fresh, Admission
  <2>3. Fresh' = Fresh \ {s}
    BY <1>1, <1>3, <2>1, OneSendMoves
  <2>4. Stage' = "waiting" /\ OwnerIsActive'
    BY <2>1, SendsAssumption DEF Stage, OwnerIsActive, Active
  <2>. QED
    BY <1>1, <1>4, <1>5, <2>1, <2>2, <2>3, <2>4 DEF SharedInv, OneOwner!Next, OneOwner!Admit
<1>. QED
  BY <1>6, <1>7

\* An admitted send is the owner; only its stage shows.
LEMMA WorkIsSeen ==
  ASSUME SharedInv, NEW s \in Sends,
         Load(s) \/ Read(s) \/ Write(s) \/ Finish(s) \/ (s = owner /\ Interrupt)
  PROVE  SharedInv' /\ [OneOwner!Next]_OneOwner!vars
<1>1. /\ send \in [Sends -> SendState] /\ epoch \in Nat /\ owner \in Sends \cup {None}
      /\ UNCHANGED <<owner, epoch, recon, restarts>> /\ Admission' = Admission
  BY DEF SharedInv, IInv, TypeOK, Load, Read, Write, Finish, Interrupt, Admission
<1>2. IInv'
  BY LoadKeeps, ReadKeeps, WriteAppends, FinishKeeps, InterruptKeeps DEF SharedInv
<1>3. s = owner /\ send[s].phase \in Active \ {"over"}
  BY DEF SharedInv, IInv, OwnerIsAlone, OwnerIsActive, Active, Load, Read, Write, Finish, Interrupt
<1>4. \A t \in Sends \ {s} : send'[t] = send[t]
  BY <1>1 DEF Load, Read, Write, Finish, Interrupt
<1>5. /\ send'[s].epoch \in {send[s].epoch, 0}
      /\ send'[s].phase \in Active \ {"accepted"}
      /\ send[s].phase # "accepted" \/ send'[s].phase \in {"start", "over"}
  <2>1. CASE Load(s)
    BY <1>1, <2>1 DEF Load, SendState, Sent, Unsent, Active
  <2>2. CASE Read(s)
    BY <1>1, <2>2 DEF Read, SendState, Active
  <2>3. CASE Write(s)
    <3>1. /\ [Sent EXCEPT !.phase = "over"].phase = "over"
          /\ [Sent EXCEPT !.phase = "over"].epoch = 0
      BY SentTyped DEF Sent, Unsent
    <3>2. \/ send'[s] = [Sent EXCEPT !.phase = "over"]
          \/ send'[s].phase = "running" /\ send'[s].epoch = send[s].epoch
      BY <1>1, <2>3 DEF Write, SendState
    <3>. QED
      BY <1>3, <2>3, <3>1, <3>2 DEF Write, Active
  <2>4. CASE Finish(s)
    BY <1>1, <2>4 DEF Finish, SendState, Active
  <2>5. CASE s = owner /\ Interrupt
    BY <1>1, <2>5 DEF Interrupt, SendState, Sent, Unsent, Active
  <2>. QED
    BY <2>1, <2>2, <2>3, <2>4, <2>5
<1>6. EpochsArePast'
  BY <1>1, <1>4, <1>5 DEF SharedInv, EpochsArePast
<1>7. OwnerIsActive'
  BY <1>1, <1>3, <1>5 DEF OwnerIsActive
<1>8. Fresh' = Fresh
  <2>1. s \notin Fresh /\ send'[s].phase \notin {"prepared", "ready"}
    BY <1>3, <1>5 DEF Fresh, Active
  <2>. QED
    BY <1>1, <1>4, <2>1, OneSendMoves
<1>9. /\ Stage = IF send[s].phase = "accepted" THEN "waiting" ELSE "working"
      /\ Stage' = IF send'[s].phase = "over" THEN "over" ELSE "working"
  BY <1>1, <1>3, <1>5, SendsAssumption DEF Stage
<1>10. \/ Stage' = Stage
       \/ Stage = "waiting" /\ Stage' = "working"
       \/ Stage \in {"waiting", "working"} /\ Stage' = "over"
  BY <1>9
<1>. QED
  BY <1>1, <1>2, <1>6, <1>7, <1>8, <1>10
     DEF SharedInv, OneOwner!Next, OneOwner!Work, OneOwner!End, OneOwner!vars

LEMMA LeaveIsSeen ==
  ASSUME SharedInv, NEW s \in Sends, Leave(s)
  PROVE  SharedInv' /\ [OneOwner!Next]_OneOwner!vars
<1>1. /\ send \in [Sends -> SendState] /\ epoch \in Nat /\ Sent.phase = "done" /\ Sent.epoch = 0
      /\ UNCHANGED <<epoch, recon>> /\ Admission' = Admission /\ owner' = None
  BY DEF SharedInv, IInv, TypeOK, Leave, Admission, Sent, Unsent
<1>2. IInv' /\ OwnerIsActive'
  BY <1>1, LeaveKeeps DEF SharedInv, OwnerIsActive
<1>3. /\ \A t \in Sends \ {s} : send'[t] = send[t]
      /\ send'[s] = Sent
  BY <1>1 DEF Leave
<1>4. EpochsArePast'
  BY <1>1, <1>3 DEF SharedInv, EpochsArePast
<1>5. s \notin Fresh /\ owner = s /\ Stage = "over"
  BY SendsAssumption DEF SharedInv, IInv, OwnerIsAlone, Active, Leave, Fresh, Stage
<1>6. Fresh' = Fresh
  <2>1. send'[s].phase \notin {"prepared", "ready"}
    BY <1>1, <1>3
  <2>. QED
    BY <1>1, <1>3, <1>5, <2>1, OneSendMoves
<1>7. Stage' = "none"
  BY <1>1 DEF Stage
<1>. QED
  BY <1>1, <1>2, <1>4, <1>5, <1>6, <1>7 DEF SharedInv, OneOwner!Next, OneOwner!Leave

\* A reconnect outdates what is prepared and finalizes without an owner.
LEMMA ReconnectIsSeen ==
  ASSUME SharedInv, Reconnect \/ FinalizeReads \/ FinalizeWrites \/ ReconnectLeaves
  PROVE  SharedInv' /\ [OneOwner!Next]_OneOwner!vars
<1>1. /\ send \in [Sends -> SendState] /\ epoch \in Nat /\ UNCHANGED <<send, owner>>
      /\ recon.phase \in {"none", "waiting", "writing"}
  BY DEF SharedInv, IInv, TypeOK, Reconnect, FinalizeReads, FinalizeWrites, ReconnectLeaves
<1>2. IInv'
  BY ReconnectKeeps, FinalizeAppends DEF SharedInv
<1>3. epoch' \in {epoch, epoch + 1}
  BY DEF Reconnect, FinalizeReads, FinalizeWrites, ReconnectLeaves
<1>4. \A s \in Sends : send[s].epoch \in Nat
  BY <1>1 DEF SendState
<1>5. OwnerIsActive' /\ EpochsArePast' /\ Stage' = Stage
  BY <1>1, <1>3, <1>4 DEF SharedInv, OwnerIsActive, EpochsArePast, Stage
<1>6. CASE Reconnect
  <2>1. Admission # "finalizing" /\ Admission' = "closed"
    BY <1>1, <1>6 DEF Reconnect, SharedInv, IInv, TypeOK, Admission
  <2>2. Fresh' = {}
    BY <1>1, <1>4, <1>6 DEF Reconnect, SharedInv, EpochsArePast, Fresh
  <2>. QED
    BY <1>1, <1>2, <1>5, <2>1, <2>2 DEF SharedInv, OneOwner!Next, OneOwner!Close
<1>7. CASE FinalizeReads
  <2>1. Admission = "closed" /\ Admission' = "finalizing" /\ Fresh' = Fresh
    BY <1>7 DEF FinalizeReads, Admission, Fresh
  <2>2. owner = None /\ owner' = None /\ Stage = "none"
    BY <1>7 DEF FinalizeReads, OwnerSettled, Stage
  <2>. QED
    BY <1>2, <1>5, <2>1, <2>2 DEF SharedInv, OneOwner!Next, OneOwner!Finalize
<1>8. CASE FinalizeWrites \/ ReconnectLeaves
  <2>1. Admission \in {"closed", "finalizing"} /\ Admission' = "open" /\ Fresh' = Fresh
    BY <1>1, <1>8 DEF FinalizeWrites, ReconnectLeaves, NoReconnect, Admission, Fresh
  <2>. QED
    BY <1>1, <1>2, <1>5, <2>1 DEF SharedInv, OneOwner!Next, OneOwner!Reopen
<1>. QED
  BY <1>6, <1>7, <1>8

LEMMA RestartIsSeen ==
  ASSUME SharedInv, Restart
  PROVE  SharedInv' /\ [OneOwner!Next]_OneOwner!vars
<1>1. epoch \in Nat /\ epoch' = epoch /\ owner' = None /\ recon' = NoReconnect
  BY DEF SharedInv, IInv, TypeOK, Restart
<1>2. \A s \in Sends : /\ send'[s].phase \in {"idle", "done"}
                       /\ send'[s].epoch \in {send[s].epoch, 0}
  BY DEF Restart, Sent, Unsent
<1>3. IInv' /\ OwnerIsActive'
  BY <1>1, RestartKeeps DEF SharedInv, OwnerIsActive
<1>4. EpochsArePast'
  BY <1>1, <1>2 DEF SharedInv, EpochsArePast
<1>5. Admission' = "open" /\ Fresh' = {} /\ Stage' = "none"
  BY <1>1, <1>2 DEF Admission, NoReconnect, Fresh, Stage
<1>. QED
  BY <1>1, <1>3, <1>4, <1>5 DEF SharedInv, OneOwner!Next, OneOwner!Restart

\* For any sends and bounds, sends, reconnects and fresh isolates deal with the
\* session's live drain by the steps of SingleOwner, which LiveDrain implements, and
\* by no others (yolk-agent.ts, handleRuntimeAppend and fetch).
THEOREM KeepsToOneOwner == Spec => KeepsToSingleOwner
<1>1. Init => OneOwner!Init /\ SharedInv
  <2>. SUFFICES ASSUME Init PROVE OneOwner!Init /\ SharedInv
    OBVIOUS
  <2>1. \A s \in Sends : send[s].phase = "idle" /\ send[s].epoch = 0
    BY DEF Init, Unsent
  <2>2. Admission = "open" /\ Fresh = {} /\ owner = None /\ Stage = "none"
    BY <2>1 DEF Init, NoReconnect, Admission, Fresh, Stage
  <2>3. OwnerIsActive /\ EpochsArePast
    BY <2>1 DEF Init, OwnerIsActive, EpochsArePast
  <2>. QED
    BY <2>2, <2>3, InvInit DEF SharedInv, OneOwner!Init
<1>2. SharedInv /\ [Next]_vars => SharedInv' /\ [OneOwner!Next]_OneOwner!vars
  <2>. SUFFICES ASSUME SharedInv, [Next]_vars
                PROVE SharedInv' /\ [OneOwner!Next]_OneOwner!vars
    OBVIOUS
  <2>1. CASE UNCHANGED vars
    <3>1. UNCHANGED OneOwner!vars
      BY <2>1 DEF vars, OneOwner!vars, Admission, Fresh, Stage
    <3>2. SharedInv'
      BY <2>1 DEF vars, SharedInv, IInv, TypeOK, OwnerIsAlone, WritersAreCurrent,
                  OwnerIsActive, EpochsArePast
    <3>. QED
      BY <3>1, <3>2
  <2>2. CASE Interrupt
    <3>1. owner \in Sends
      BY <2>2 DEF Interrupt, SharedInv, IInv, TypeOK
    <3>. QED
      BY <2>2, <3>1, WorkIsSeen
  <2>. QED
    BY <2>1, <2>2, AdmissionIsSeen, WorkIsSeen, LeaveIsSeen, ReconnectIsSeen, RestartIsSeen
       DEF Next, SendSteps
<1>. QED
  BY <1>1, <1>2, PTL DEF Spec, KeepsToSingleOwner, OneOwner!Spec
=============================================================================
