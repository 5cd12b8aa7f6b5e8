-------------------------------- MODULE Pool --------------------------------
(***************************************************************************)
(* makePool's provider over a PoolStoreApi: a request picks an account     *)
(* from what the store says, streams from it and fails over while the      *)
(* stream is empty. Store calls are atomic for one key, as the contract    *)
(* asks, and may fail; other requests, of this process or another, run     *)
(* between any two of them. Host code records the accounts' usage readings *)
(* whenever it likes. A step ends where a store call or a provider's event *)
(* is awaited.                                                             *)
(***************************************************************************)
EXTENDS Integers, FiniteSets

CONSTANTS Accounts,       \* configured accounts
          Priority,       \* their priorities
          Id,             \* the place of their ids in code-unit order
          Requests,       \* calls of provider.stream
          Routes,         \* model ids
          RouteOf,        \* the route of each request
          Polled,         \* accounts whose usage the host polls
          Usages,         \* sets of windows that usage readings show
          MaxAge,         \* maxAgeMs
          Reserve,        \* reservePercent
          QuotaLengths,   \* lengths of quota lockouts that providers announce
          AuthLength,     \* poolAuthCooldownMs
          MaxTime,        \* bound on the clock
          None

Times == 0..MaxTime

ASSUME PoolAssumption ==
  /\ Priority \in [Accounts -> Int] /\ Id \in [Accounts -> Nat]
  /\ \A a, b \in Accounts : Id[a] = Id[b] => a = b
  /\ RouteOf \in [Requests -> Routes] /\ Polled \subseteq Accounts
  /\ MaxAge \in Nat /\ Reserve \in 0..100 /\ MaxTime \in Nat
  /\ QuotaLengths \subseteq Nat \ {0} /\ AuthLength \in Nat \ {0}

VARIABLES now,         \* the clock of the hosts
          pins,        \* per route
          cooldowns,   \* per account
          readings,    \* per account
          req          \* what each request knows

poolVars == <<now, pins, cooldowns, readings, req>>

\* A window with no models limits every route; minutes = 0 has no length and
\* resets = 0 has not started.
Window == [models : SUBSET Routes, percent : 0..100, minutes : Nat, resets : Nat]

ASSUME UsagesAssumption == Usages \subseteq SUBSET Window

Cooldown == [account : Accounts, kind : {"quota", "auth"}, started : Nat, until : Nat]
Reading == [fetched : Times, windows : Usages]

RequestPhases == {"idle", "load", "clear", "move", "stream", "put", "done"}
Kinds == {"auth", "rate_limit"}

ASSUME NoneAssumption == None \notin Accounts \cup Kinds \cup Cooldown \cup Reading

RequestState ==
  [phase : RequestPhases,
   at : Times,                            \* nowMs
   choice : Accounts \cup {None},         \* the decision's account
   expected : Accounts \cup {None},       \* the pin that was loaded
   stale : SUBSET Cooldown,               \* cooldowns still to be cleared
   emitted : BOOLEAN,
   excluded : SUBSET Accounts,
   recorded : SUBSET Cooldown,            \* one of each excluded account
   failure : Cooldown \cup {None},        \* being put
   told : Kinds \cup {None}]              \* exhaustedError

PoolOK ==
  /\ now \in Times
  /\ pins \in [Routes -> Accounts \cup {None}]
  /\ cooldowns \in [Accounts -> Cooldown \cup {None}]
  /\ readings \in [Accounts -> Reading \cup {None}]
  /\ req \in [Requests -> RequestState]

\* A request before its first pick.
NewRequest ==
  [phase |-> "idle", at |-> 0, choice |-> None, expected |-> None, stale |-> {},
   emitted |-> FALSE, excluded |-> {}, recorded |-> {}, failure |-> None, told |-> None]

PoolInit ==
  /\ now = 0
  /\ pins = [t \in Routes |-> None]
  /\ cooldowns = [a \in Accounts |-> None]
  /\ readings = [a \in Accounts |-> None]
  /\ req = [r \in Requests |-> NewRequest]

-----------------------------------------------------------------------------
(* The pure parts: rank.ts and the kinds of failures.                      *)

Active(c, t) == c.until > t

Applies(w, route) == w.models = {} \/ route \in w.models

HasStarted(w, t) == w.resets > t

Fresh(reading, t) == reading # None /\ t - reading.fetched <= MaxAge

\* Every account-wide window has quota left or has reset, and there is one.
HasQuotaLeft(reading, t) ==
  LET wide == {w \in reading.windows : w.models = {}}
  IN wide # {} /\ \A w \in wide : HasStarted(w, t) => w.percent < 100

\* A reading taken after the quota cooldown c began shows it to be over.
IsStale(c, reading, t) ==
  /\ c.kind = "quota"
  /\ Active(c, t)
  /\ Fresh(reading, t)
  /\ reading.fetched > c.started
  /\ HasQuotaLeft(reading, t)

\* accountRank of a reading's windows on a route.
RankKind(reading, route, t) ==
  LET applicable == {w \in reading.windows : Applies(w, route)}
  IN IF \E w \in applicable : HasStarted(w, t) /\ w.percent >= 100 - Reserve
     THEN "exhausted"
     ELSE IF applicable = {} THEN "unknown" ELSE "usable"

\* The resets of the longest windows with a length, empty when none started.
RankResets(reading, route, t) ==
  LET timed == {w \in reading.windows : Applies(w, route) /\ w.minutes > 0}
      longest == {w \in timed : \A v \in timed : v.minutes <= w.minutes}
  IN {w.resets : w \in {w \in longest : HasStarted(w, t)}}

\* fillFirst's order.
PrefersByPriority(a, b) ==
  Priority[a] > Priority[b] \/ (Priority[a] = Priority[b] /\ Id[a] < Id[b])

\* ranksBefore: started windows by soonest reset, then those not started.
RanksBefore(a, b, of) ==
  IF of[a] = {} /\ of[b] = {} THEN PrefersByPriority(a, b)
  ELSE IF of[a] = {} \/ of[b] = {} THEN of[a] # {}
  ELSE LET soonest(x) == CHOOSE m \in of[x] : \A n \in of[x] : m <= n
       IN soonest(a) < soonest(b) \/ (soonest(a) = soonest(b) /\ PrefersByPriority(a, b))

\* rankPool: the one account it decides for, as a set; empty when none is
\* available.
Ranked(unavailable, known, pin, route, t) ==
  LET candidates == Accounts \ unavailable
      fresh == {a \in candidates : Fresh(known[a], t)}
      kinds(k) == {a \in fresh : RankKind(known[a], route, t) = k}
      usable == kinds("usable")
      resets == [a \in usable |-> RankResets(known[a], route, t)]
      fallback == IF candidates \subseteq kinds("exhausted") THEN candidates
                  ELSE candidates \ kinds("exhausted")
  IN IF usable # {}
     THEN {a \in usable : \A b \in usable \ {a} : RanksBefore(a, b, resets)}
     ELSE IF pin \in fallback THEN {pin}
     ELSE {a \in fallback : \A b \in fallback \ {a} : PrefersByPriority(a, b)}

\* poolFailureCooldown: the cooldowns a failure of account a may call for. A
\* transient failure calls for none.
FailureCooldowns(a, t) ==
  {[account |-> a, kind |-> "quota", started |-> t, until |-> t + l] : l \in QuotaLengths}
    \cup {[account |-> a, kind |-> "auth", started |-> t, until |-> t + AuthLength]}

-----------------------------------------------------------------------------
(* The store.                                                              *)

\* putCooldown: the one that ends later stays; of two that end together, the
\* one that started later.
Kept(current, c) ==
  IF current = None THEN c
  ELSE IF c.until > current.until \/ (c.until = current.until /\ c.started > current.started)
       THEN c ELSE current

\* Faulty: whatever cooldown the account has is cleared.
IsObservedAny(current, c) == current # None

\* clearCooldown removes the cooldown only when it is the one observed.
IsObserved(current, c) == current # None /\ current.started = c.started

\* Host code records a reading that it fetched some time ago.
RecordReading(a, reading) ==
  /\ reading.fetched <= now
  /\ readings[a] # None => reading.fetched >= readings[a].fetched
  /\ readings' = [readings EXCEPT ![a] = reading]
  /\ UNCHANGED <<now, pins, cooldowns, req>>

-----------------------------------------------------------------------------
(* A request.                                                              *)

\* Faulty: cooldowns this request recorded that ran out are forgotten.
CountedActive(seen, recorded, t) == seen \cup {c \in recorded : Active(c, t)}

\* The cooldowns that decide what an exhausted request is told; those it
\* recorded count even when they ran out.
Counted(seen, recorded, t) == seen \cup recorded

\* What is left of a request that is over.
Over(told) == [NewRequest EXCEPT !.phase = "done", !.told = told]

\* The request streams from the account it chose.
Streaming(q) == [q EXCEPT !.phase = "stream", !.at = 0, !.expected = None]

\* The rest of pick once the stale cooldowns have been cleared: fail, move the
\* pin or go straight to the account.
Decided(q) ==
  IF q.choice = None THEN Over(q.told)
  ELSE IF q.choice = q.expected THEN Streaming(q) ELSE [q EXCEPT !.phase = "move", !.at = 0]

\* What pick concludes from the snapshot it loaded.
Picked(r, pin, known, cooling) ==
  LET t == req[r].at
      stored == {cooling[a] : a \in Accounts} \ {None}
      stale == {c \in stored : IsStale(c, known[c.account], t)}
      seen == {c \in stored \ stale : Active(c, t)}
      out == {c.account : c \in seen \cup {d \in req[r].recorded : Active(d, t)}}
      ranked == Ranked(req[r].excluded \cup out, known, pin, RouteOf[r], t)
      choice == IF ranked = {} THEN None ELSE CHOOSE a \in ranked : TRUE
      kinds == {c.kind : c \in Counted(seen, req[r].recorded, t)}
      picked == [req[r] EXCEPT !.phase = "clear", !.stale = stale, !.choice = choice,
                               !.expected = pin,
                               !.told = IF choice # None THEN None
                                        ELSE IF "quota" \in kinds THEN "rate_limit" ELSE "auth"]
  IN IF stale = {} THEN Decided(picked) ELSE picked

Start(r) ==
  /\ req[r].phase = "idle"
  /\ req' = [req EXCEPT ![r].phase = "load", ![r].at = now]
  /\ UNCHANGED <<now, pins, cooldowns, readings>>

Load(r) ==
  /\ req[r].phase = "load"
  /\ req' = [req EXCEPT ![r] = Picked(r, pins[RouteOf[r]], readings, cooldowns)]
  /\ UNCHANGED <<now, pins, cooldowns, readings>>

\* The request goes on without pool state.
LoadFails(r) ==
  /\ req[r].phase = "load"
  /\ req' = [req EXCEPT ![r] = Picked(r, None, [a \in Accounts |-> None],
                                      [a \in Accounts |-> None])]
  /\ UNCHANGED <<now, pins, cooldowns, readings>>

\* clearCooldown of one stale cooldown; a failure is only logged.
Clear(r) ==
  /\ req[r].phase = "clear"
  /\ \E c \in req[r].stale, fails \in BOOLEAN :
       /\ req' = [req EXCEPT ![r] =
            LET left == [req[r] EXCEPT !.stale = @ \ {c}]
            IN IF left.stale = {} THEN Decided(left) ELSE left]
       /\ cooldowns' = IF ~fails /\ IsObserved(cooldowns[c.account], c)
                       THEN [cooldowns EXCEPT ![c.account] = None] ELSE cooldowns
  /\ UNCHANGED <<now, pins, readings>>

\* movePin compares the pin with the one loaded; losing or failing changes
\* nothing for the request.
MovePin(r) ==
  /\ req[r].phase = "move"
  /\ req' = [req EXCEPT ![r] = Streaming(req[r])]
  /\ \E fails \in BOOLEAN :
       pins' = IF ~fails /\ pins[RouteOf[r]] = req[r].expected
               THEN [pins EXCEPT ![RouteOf[r]] = req[r].choice] ELSE pins
  /\ UNCHANGED <<now, cooldowns, readings>>

Emit(r) ==
  /\ req[r].phase = "stream" /\ ~req[r].emitted
  /\ req' = [req EXCEPT ![r].emitted = TRUE]
  /\ UNCHANGED <<now, pins, cooldowns, readings>>

\* The stream ends or fails with anything but a failure of the account.
StreamEnds(r) ==
  /\ req[r].phase = "stream"
  /\ req' = [req EXCEPT ![r] = Over(None)]
  /\ UNCHANGED <<now, pins, cooldowns, readings>>

\* Faulty: a failure fails over whatever has been streamed.
FailsOverAlways(r) == TRUE

\* The failure may still be hidden from the consumer.
FailsOver(r) == ~req[r].emitted

\* A failure of the account: recorded, unless the consumer has seen events.
AccountFails(r) ==
  /\ req[r].phase = "stream"
  /\ \E c \in FailureCooldowns(req[r].choice, now) :
       req' = IF FailsOver(r)
              THEN [req EXCEPT ![r].phase = "put", ![r].failure = c]
              ELSE [req EXCEPT ![r] = Over(None)]
  /\ UNCHANGED <<now, pins, cooldowns, readings>>

\* Faulty: only the account that failed last is left out.
ExcludesLast(r) == {req[r].choice}

Excludes(r) == req[r].excluded \cup {req[r].choice}

\* The next pick leaves the failed account out and remembers its cooldown.
PicksAgain(r) ==
  req' = [req EXCEPT ![r] = [NewRequest EXCEPT
            !.phase = "load", !.at = now, !.excluded = Excludes(r),
            !.recorded = req[r].recorded \cup {req[r].failure}]]

PutCooldown(r) ==
  /\ req[r].phase = "put"
  /\ cooldowns' = [cooldowns EXCEPT ![req[r].choice] = Kept(@, req[r].failure)]
  /\ PicksAgain(r)
  /\ UNCHANGED <<now, pins, readings>>

\* The store's failure is only logged.
PutFails(r) ==
  /\ req[r].phase = "put"
  /\ PicksAgain(r)
  /\ UNCHANGED <<now, pins, cooldowns, readings>>

\* The consumer goes away; a store call in flight has landed or never will.
Cancel(r) ==
  /\ req[r].phase \notin {"idle", "done"}
  /\ req' = [req EXCEPT ![r] = Over(None)]
  /\ UNCHANGED <<now, pins, cooldowns, readings>>

Tick ==
  /\ now < MaxTime
  /\ now' = now + 1
  /\ UNCHANGED <<pins, cooldowns, readings, req>>

RequestSteps(r) ==
  \/ Start(r) \/ Load(r) \/ LoadFails(r) \/ Clear(r) \/ MovePin(r) \/ Emit(r)
  \/ StreamEnds(r) \/ AccountFails(r) \/ PutFails(r) \/ Cancel(r)

PoolNext ==
  \/ Tick
  \/ \E r \in Requests : PutCooldown(r) \/ RequestSteps(r)
  \/ \E a \in Polled, reading \in Reading : RecordReading(a, reading)

PoolSpec == PoolInit /\ [][PoolNext]_poolVars

-----------------------------------------------------------------------------
\* A cooldown is cleared only when the store has a usage reading taken after
\* the failure it stands for: the compare-and-set protects a cooldown written
\* between the load and the clear (pool.ts pick, store.ts clearCooldown).
ClearsNeedNewerReading ==
  [][\A a \in Accounts :
       cooldowns[a] # None /\ cooldowns'[a] = None =>
         readings[a] # None /\ readings[a].fetched > cooldowns[a].started]_poolVars

\* A request turns to another account only while its consumer has seen
\* nothing, and never to one that already failed it, even when the store
\* forgot the failure or its cooldown has run out (pool.ts attempt).
FailsOverCleanly ==
  [][\A r \in Requests :
       /\ req[r].emitted => req'[r].phase \in {"stream", "done"}
       /\ req'[r].phase = "stream" =>
            req'[r].choice \notin {c.account : c \in req'[r].recorded}]_poolVars

\* A request that met a quota lockout and finds no account left is told of a
\* rate limit, not of rejected credentials, even when the lockout is over by
\* then (pool.ts exhaustedError).
QuotaIsReported ==
  [][\A r \in Requests :
       req'[r].told = "auth" => \A c \in req[r].recorded : c.kind = "auth"]_poolVars
=============================================================================
