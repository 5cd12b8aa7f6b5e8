---------------------------- MODULE SingleOwner ----------------------------
(***************************************************************************)
(* What the live drain of a session promises to those who use the session: *)
(* one start at a time owns it, is at work on it at most once, and stays   *)
(* the owner until that is over, unless its caller had gone before it was  *)
(* admitted; a start prepared before a reconnect is not admitted after it; *)
(* and a reconnect that finalizes the log finds no owner and lets nobody   *)
(* in. LiveDrain implements this with its gate, tokens, generations and    *)
(* waits; the sends and reconnects of SessionLog take its steps and no     *)
(* others.                                                                 *)
(***************************************************************************)
CONSTANTS Starts, None

VARIABLES admission,   \* open, closed by a reconnect, or closed while one finalizes
          fresh,       \* the starts prepared since the last reconnect
          owner,       \* the start that has been admitted
          stage,       \* what its work has come to
          lost         \* the starts admitted though their callers had gone

vars == <<admission, fresh, owner, stage, lost>>

Init ==
  /\ admission = "open"
  /\ fresh = {}
  /\ owner = None
  /\ stage = "none"
  /\ lost = {}

Prepare(s) ==
  /\ fresh' = fresh \cup {s}
  /\ UNCHANGED <<admission, owner, stage, lost>>

TurnAway(s) ==
  /\ fresh' = fresh \ {s}
  /\ UNCHANGED <<admission, owner, stage, lost>>

Admit(s) ==
  /\ admission = "open"
  /\ owner = None
  /\ s \in fresh
  /\ fresh' = fresh \ {s}
  /\ owner' = s
  /\ stage' = "waiting"
  /\ lost' \in {lost, lost \cup {s}}
  /\ UNCHANGED admission

\* The owner's work begins, once,
Work ==
  /\ stage = "waiting"
  /\ stage' = "working"
  /\ UNCHANGED <<admission, fresh, owner, lost>>

\* and is over, whether it began or not.
End ==
  /\ stage \in {"waiting", "working"}
  /\ stage' = "over"
  /\ UNCHANGED <<admission, fresh, owner, lost>>

Leave ==
  /\ stage = "over"
  /\ owner' = None
  /\ stage' = "none"
  /\ UNCHANGED <<admission, fresh, lost>>

\* A lost owner leaves at any time; what becomes of its work is not said.
Desert ==
  /\ owner \in lost
  /\ owner' = None
  /\ stage' = "none"
  /\ UNCHANGED <<admission, fresh, lost>>

\* A reconnect begins. It may find an owner, who stays until its work is over.
Close ==
  /\ admission # "finalizing"
  /\ admission' = "closed"
  /\ fresh' = {}
  /\ UNCHANGED <<owner, stage, lost>>

\* It finalizes the log when the owner's work is over, and the owner leaves
\* with that at the latest.
Finalize ==
  /\ admission = "closed"
  /\ stage \in {"none", "over"}
  /\ admission' = "finalizing"
  /\ owner' = None
  /\ stage' = "none"
  /\ UNCHANGED <<fresh, lost>>

\* It ends, finalized or not, at once or in two steps.
Reopen ==
  /\ \/ admission = "finalizing" /\ admission' \in {"closed", "open"}
     \/ admission = "closed" /\ admission' = "open"
  /\ UNCHANGED <<fresh, owner, stage, lost>>

\* A fresh isolate knows of nobody.
Restart ==
  /\ admission' = "open"
  /\ fresh' = {}
  /\ owner' = None
  /\ stage' = "none"
  /\ lost' = {}

Next ==
  \/ \E s \in Starts : Prepare(s) \/ TurnAway(s) \/ Admit(s)
  \/ Work \/ End \/ Leave \/ Desert
  \/ Close \/ Finalize \/ Reopen
  \/ Restart

Spec == Init /\ [][Next]_vars
=============================================================================
