----------------------------- MODULE RateLimiter -----------------------------
(***************************************************************************)
(* The rate limiter of internal/proxy/rate_limiter.go over its three       *)
(* tables.  Requests of one process run concurrently, each in its own      *)
(* goroutine, and every SQL statement commits by itself, so one call of    *)
(* checkRateLimit is a sequence of steps that interleaves with the calls   *)
(* of other requests, with the admin API and with a crash of the process.  *)
(*                                                                         *)
(*   rate_limiter_config   configRows   rows in id order, the last in force *)
(*   rate_limit_requests   recorded     requests whose counter row exists   *)
(*   user_quarantine       locked       requests whose quarantine exists    *)
(*                         unlocked     those an administrator released     *)
(***************************************************************************)
EXTENDS DBTime, FiniteSets, Sequences

CONSTANTS
  Requests,   \* the chat requests of a run, each checked once
  NoRequest,
  Users,
  UserOf,     \* the user each request authenticated as
  Admins,     \* concurrent administrator requests that save a configuration
  Configs,    \* the configurations administrators choose from
  Instants,   \* the readings of the clock
  MaxSaves,   \* bound on configurations saved
  MaxFaults   \* bound on failed SQL statements and crashes

\* A configuration the admin API accepts: every number is positive.
Config == [enabled : BOOLEAN, limit : Nat \ {0}, window : Nat \ {0}, quarantine : Nat \ {0}]

\* What a request has read while rate_limiter_config is empty, or not read yet.
NoConfig == [enabled |-> FALSE, limit |-> 0, window |-> 0, quarantine |-> 0]

ASSUME RequestsAssumption == IsFiniteSet(Requests) /\ NoRequest \notin Requests
ASSUME UserOfAssumption == UserOf \in [Requests -> Users]
ASSUME ConfigsAssumption == Configs \subseteq Config
ASSUME InstantsAssumption == Instants \subseteq Nat
ASSUME BoundsAssumption == MaxSaves \in Nat /\ MaxFaults \in Nat

VARIABLES
  now,          \* the clock
  configRows,
  recorded,
  locked,
  unlocked,
  pc,           \* the statement each request executes next, or its answer
  at,           \* the reading of the clock a request passes to checkRateLimit
  cfg,          \* the configuration a request has read
  adminPc,
  adminCfg,     \* the configuration an administrator is saving
  saves,
  faults,
  \* History variables: no action reads them.
  held,         \* the user's quarantines in force when a request arrived
  sawOwnRow,    \* requests whose own row existed when they counted
  wipedBy,      \* the request whose quarantine wiped a row, if any
  interrupted   \* a save failed or was cut off between its two statements

tables == <<configRows, recorded, locked, unlocked>>
adminVars == <<adminPc, adminCfg, saves, interrupted>>
history == <<held, sawOwnRow, wipedBy>>
vars == <<now, tables, pc, at, cfg, adminVars, faults, history>>

Steps == {"config", "quarantine", "prune", "record", "count", "lock", "wipe"}

\* allowed: counted within the limit; off: no limit in force; open: let through
\* because a statement failed; denied: quarantined already; locked: this request
\* exceeded the limit; lost: the process died.
Answers == {"allowed", "off", "open", "denied", "locked", "lost"}

Expires(q) == at[q] + Ticks(cfg[q].quarantine)

\* unlocked_at IS NULL AND expires_at > t, for the user's rows of user_quarantine.
InForce(u, t) ==
  {q \in locked \ unlocked : UserOf[q] = u /\ TextBefore(t, Expires(q))}

WindowStart(r) == at[r] - Ticks(cfg[r].window)

\* Mutant of InWindow: the count forgets the row the request has just recorded.
InWindowOfOthers(r) ==
  {x \in recorded \ {r} :
     UserOf[x] = UserOf[r] /\ TextAtOrAfter(at[x], WindowStart(r))}

\* The rows countRequestsInWindow counts for r.
InWindow(r) ==
  {x \in recorded : UserOf[x] = UserOf[r] /\ TextAtOrAfter(at[x], WindowStart(r))}

\* Mutant of Stale: rows are deleted up to the time of the request, not of its window.
StaleBeforeRequest(r) == {x \in recorded : TextBefore(at[x], at[r])}

\* The rows of every user deleteRequestsOlderThan deletes for r.
Stale(r) == {x \in recorded : TextBefore(at[x], WindowStart(r))}

OwnRows(u) == {x \in recorded : UserOf[x] = u}

Init ==
  /\ now \in Instants
  /\ configRows \in {<<>>} \cup {<<c>> : c \in Configs}
  /\ recorded = {}
  /\ locked = {}
  /\ unlocked = {}
  /\ pc = [r \in Requests |-> "idle"]
  /\ at = [r \in Requests |-> 0]
  /\ cfg = [r \in Requests |-> NoConfig]
  /\ adminPc = [a \in Admins |-> "idle"]
  /\ adminCfg = [a \in Admins |-> NoConfig]
  /\ saves = 0
  /\ faults = 0
  /\ held = [r \in Requests |-> {}]
  /\ sawOwnRow = {}
  /\ wipedBy = [r \in Requests |-> NoRequest]
  /\ interrupted = FALSE

-----------------------------------------------------------------------------
(* The request: one action per statement of checkRateLimit. *)

Goto(r, step) == pc' = [pc EXCEPT ![r] = step]

Fault == faults < MaxFaults /\ faults' = faults + 1

\* handleChatCompletions calls checkRateLimit(userID, time.Now().UTC()).
Arrive(r) ==
  /\ pc[r] = "idle"
  /\ Goto(r, "config")
  /\ at' = [at EXCEPT ![r] = now]
  /\ held' = [held EXCEPT ![r] = InForce(UserOf[r], now)]
  /\ UNCHANGED <<now, tables, cfg, adminVars, faults, sawOwnRow, wipedBy>>

ReadConfig(r) ==
  /\ pc[r] = "config"
  /\ LET c == IF configRows = <<>> THEN NoConfig ELSE configRows[Len(configRows)]
     IN /\ cfg' = [cfg EXCEPT ![r] = c]
        /\ Goto(r, IF c.enabled THEN "quarantine" ELSE "off")
  /\ UNCHANGED <<now, tables, at, adminVars, faults, history>>

\* Mutant of CheckQuarantine: the clock is read again.
CheckQuarantineNow(r) ==
  /\ pc[r] = "quarantine"
  /\ Goto(r, IF InForce(UserOf[r], now) = {} THEN "prune" ELSE "denied")
  /\ UNCHANGED <<now, tables, at, cfg, adminVars, faults, history>>

CheckQuarantine(r) ==
  /\ pc[r] = "quarantine"
  /\ Goto(r, IF InForce(UserOf[r], at[r]) = {} THEN "prune" ELSE "denied")
  /\ UNCHANGED <<now, tables, at, cfg, adminVars, faults, history>>

Prune(r) ==
  /\ pc[r] = "prune"
  /\ recorded' = recorded \ Stale(r)
  /\ Goto(r, "record")
  /\ UNCHANGED <<now, configRows, locked, unlocked, at, cfg, adminVars, faults, history>>

Record(r) ==
  /\ pc[r] = "record"
  /\ recorded' = recorded \cup {r}
  /\ Goto(r, "count")
  /\ UNCHANGED <<now, configRows, locked, unlocked, at, cfg, adminVars, faults, history>>

\* Mutant of Count: the limit is read again, from the configuration now in force.
CountUnderNewLimit(r) ==
  LET limit == IF configRows = <<>> THEN cfg[r].limit ELSE configRows[Len(configRows)].limit
  IN /\ pc[r] = "count"
     /\ Goto(r, IF Cardinality(InWindow(r)) <= limit THEN "allowed" ELSE "lock")
     /\ sawOwnRow' = IF r \in recorded THEN sawOwnRow \cup {r} ELSE sawOwnRow
     /\ UNCHANGED <<now, tables, at, cfg, adminVars, faults, held, wipedBy>>

Count(r) ==
  /\ pc[r] = "count"
  /\ Goto(r, IF Cardinality(InWindow(r)) <= cfg[r].limit THEN "allowed" ELSE "lock")
  /\ sawOwnRow' = IF r \in recorded THEN sawOwnRow \cup {r} ELSE sawOwnRow
  /\ UNCHANGED <<now, tables, at, cfg, adminVars, faults, held, wipedBy>>

Lock(r) ==
  /\ pc[r] = "lock"
  /\ locked' = locked \cup {r}
  /\ Goto(r, "wipe")
  /\ UNCHANGED <<now, configRows, recorded, unlocked, at, cfg, adminVars, faults, history>>

\* deleteRequestsByUserID takes every counter row of the user, those of requests
\* that have not counted yet included.
WipeRows(r) ==
  /\ recorded' = recorded \ OwnRows(UserOf[r])
  /\ wipedBy' = [x \in Requests |-> IF x \in OwnRows(UserOf[r]) THEN r ELSE wipedBy[x]]

Wipe(r) ==
  /\ pc[r] = "wipe"
  /\ WipeRows(r)
  /\ Goto(r, "locked")
  /\ UNCHANGED <<now, configRows, locked, unlocked, at, cfg, adminVars, faults, held,
                 sawOwnRow>>

\* A failed load of the configuration or of the quarantine, a failed insert or
\* a failed count ends the check with an error, and the handler only logs it:
\* the request goes on.
ReadFails(r) ==
  /\ pc[r] \in {"config", "quarantine", "count"}
  /\ Fault
  /\ Goto(r, "open")
  /\ UNCHANGED <<now, tables, at, cfg, adminVars, history>>

\* A write whose error reaches the program may have been committed: the reply
\* can be lost after the commit.
RecordFails(r) ==
  /\ pc[r] = "record"
  /\ Fault
  /\ recorded' \in {recorded, recorded \cup {r}}
  /\ Goto(r, "open")
  /\ UNCHANGED <<now, configRows, locked, unlocked, at, cfg, adminVars, history>>

LockFails(r) ==
  /\ pc[r] = "lock"
  /\ Fault
  /\ locked' \in {locked, locked \cup {r}}
  /\ Goto(r, "open")
  /\ UNCHANGED <<now, configRows, recorded, unlocked, at, cfg, adminVars, history>>

\* Errors of the two deletes are logged and the check continues.
PruneFails(r) ==
  /\ pc[r] = "prune"
  /\ Fault
  /\ recorded' \in {recorded, recorded \ Stale(r)}
  /\ Goto(r, "record")
  /\ UNCHANGED <<now, configRows, locked, unlocked, at, cfg, adminVars, history>>

WipeFails(r) ==
  /\ pc[r] = "wipe"
  /\ Fault
  /\ \/ WipeRows(r)
     \/ UNCHANGED <<recorded, wipedBy>>
  /\ Goto(r, "locked")
  /\ UNCHANGED <<now, configRows, locked, unlocked, at, cfg, adminVars, held, sawOwnRow>>

-----------------------------------------------------------------------------
(* The admin API. *)

\* Mutant of DeleteConfig: the new configuration is rejected after the old one is gone.
DeleteConfigOnly(a, c) ==
  /\ adminPc[a] = "idle"
  /\ saves < MaxSaves
  /\ configRows' = <<>>
  /\ saves' = saves + 1
  /\ UNCHANGED <<now, recorded, locked, unlocked, pc, at, cfg, adminPc, adminCfg, faults,
                 interrupted, history>>

\* upsertRateLimiterConfig: DELETE every row, then INSERT the new one.
DeleteConfig(a, c) ==
  /\ adminPc[a] = "idle"
  /\ saves < MaxSaves
  /\ configRows' = <<>>
  /\ adminPc' = [adminPc EXCEPT ![a] = "insert"]
  /\ adminCfg' = [adminCfg EXCEPT ![a] = c]
  /\ saves' = saves + 1
  /\ UNCHANGED <<now, recorded, locked, unlocked, pc, at, cfg, faults, interrupted, history>>

InsertConfig(a) ==
  /\ adminPc[a] = "insert"
  /\ configRows' = Append(configRows, adminCfg[a])
  /\ adminPc' = [adminPc EXCEPT ![a] = "idle"]
  /\ UNCHANGED <<now, recorded, locked, unlocked, pc, at, cfg, adminCfg, saves, faults,
                 interrupted, history>>

\* Either statement fails: the handler answers 500 and the save is over.
SaveFails(a, c) ==
  /\ Fault
  /\ \/ /\ adminPc[a] = "idle"
        /\ saves < MaxSaves
        /\ saves' = saves + 1
        /\ configRows' \in {configRows, <<>>}
     \/ /\ adminPc[a] = "insert"
        /\ configRows' \in {configRows, Append(configRows, adminCfg[a])}
        /\ UNCHANGED saves
  /\ adminPc' = [adminPc EXCEPT ![a] = "idle"]
  /\ interrupted' = TRUE
  /\ UNCHANGED <<now, recorded, locked, unlocked, pc, at, cfg, adminCfg, history>>

\* Mutant of UnlockQuarantine: every request of the user is released, quarantined or not.
UnlockEveryRequest(u) ==
  /\ InForce(u, now) # {}
  /\ unlocked' = unlocked \cup {q \in Requests : UserOf[q] = u}
  /\ UNCHANGED <<now, configRows, recorded, locked, pc, at, cfg, adminVars, faults, history>>

\* DELETE /api/admin/quarantine/<user>: one UPDATE releases every quarantine of the
\* user in force; with none in force it changes nothing and answers 404.
UnlockQuarantine(u) ==
  /\ InForce(u, now) # {}
  /\ unlocked' = unlocked \cup InForce(u, now)
  /\ UNCHANGED <<now, configRows, recorded, locked, pc, at, cfg, adminVars, faults, history>>

-----------------------------------------------------------------------------
(* The environment. *)

Tick ==
  /\ \E t \in Instants : t > now /\ now' = t
  /\ UNCHANGED <<tables, pc, at, cfg, adminVars, faults, history>>

\* The process dies and is restarted; the tables survive.
Crash ==
  /\ Fault
  /\ (\E r \in Requests : pc[r] \in Steps) \/ (\E a \in Admins : adminPc[a] = "insert")
  /\ pc' = [r \in Requests |-> IF pc[r] \in Steps THEN "lost" ELSE pc[r]]
  /\ adminPc' = [a \in Admins |-> "idle"]
  /\ interrupted' = (interrupted \/ \E a \in Admins : adminPc[a] = "insert")
  /\ UNCHANGED <<now, tables, at, cfg, adminCfg, saves, history>>

CheckStep(r) ==
  \/ ReadConfig(r)
  \/ CheckQuarantine(r)
  \/ Prune(r)
  \/ Record(r)
  \/ Count(r)
  \/ Lock(r)
  \/ Wipe(r)

CheckFault(r) ==
  \/ ReadFails(r)
  \/ RecordFails(r)
  \/ LockFails(r)
  \/ PruneFails(r)
  \/ WipeFails(r)

Next ==
  \/ \E r \in Requests : Arrive(r) \/ CheckStep(r) \/ CheckFault(r)
  \/ \E a \in Admins, c \in Configs : DeleteConfig(a, c) \/ SaveFails(a, c)
  \/ \E a \in Admins : InsertConfig(a)
  \/ \E u \in Users : UnlockQuarantine(u)
  \/ Tick
  \/ Crash

Spec == Init /\ [][Next]_vars

-----------------------------------------------------------------------------
(* Properties. *)

\* Every variable keeps its type, a quarantine is released only if it exists, and a
\* save between its two statements holds the configuration it will insert.
TypeOK ==
  /\ now \in Instants
  /\ configRows \in Seq(Configs)
  /\ recorded \subseteq Requests
  /\ locked \subseteq Requests
  /\ unlocked \subseteq locked
  /\ pc \in [Requests -> {"idle"} \cup Steps \cup Answers]
  /\ at \in [Requests -> Instants \cup {0}]
  /\ cfg \in [Requests -> Configs \cup {NoConfig}]
  /\ adminPc \in [Admins -> {"idle", "insert"}]
  /\ adminCfg \in [Admins -> Configs \cup {NoConfig}]
  /\ \A a \in Admins : adminPc[a] = "insert" => adminCfg[a] \in Configs
  /\ saves \in Nat
  /\ faults \in Nat
  /\ held \in [Requests -> SUBSET Requests]
  /\ sawOwnRow \subseteq Requests
  /\ wipedBy \in [Requests -> Requests \cup {NoRequest}]
  /\ interrupted \in BOOLEAN

\* d is at least as strict as c: no higher limit, no shorter window.
AsStrict(d, c) == d.limit <= c.limit /\ d.window >= c.window

\* The requests of u that the limiter let through by counting, under a
\* configuration as strict as c, among those whose row left the counter in the
\* same way: still there (e = NoRequest), or wiped by the quarantine of e.
AdmittedIn(u, c, e) ==
  {r \in Requests : /\ UserOf[r] = u
                    /\ pc[r] = "allowed"
                    /\ r \in sawOwnRow
                    /\ AsStrict(cfg[r], c)
                    /\ IF e = NoRequest THEN r \in recorded ELSE wipedBy[r] = e}

\* The interval of one window that ends at t, as the database compares instants.
During(r, c, t) ==
  TextAtOrAfter(at[r], t - Ticks(c.window)) /\ ~TextBefore(t, at[r])

\* No window of time, whichever configuration c it is measured by, holds more than
\* c.limit admitted requests of a user between two wipes of the user's counter.
\* Recording a request before counting (rate_limiter.go:54-64) is what makes this
\* true of concurrent requests: the last of them to count sees all the others.
WindowBound ==
  \A u \in Users, c \in Configs, e \in Requests \cup {NoRequest}, t \in Instants :
    Cardinality({r \in AdmittedIn(u, c, e) : During(r, c, t)}) <= c.limit

\* A request that arrived while its user was quarantined is neither admitted by the
\* count nor allowed to open another quarantine, unless an administrator released
\* every quarantine that was in force when it arrived.
QuarantineHolds ==
  \A r \in Requests :
    pc[r] \in {"prune", "record", "count", "allowed", "lock", "wipe", "locked"} =>
      held[r] \subseteq unlocked

\* A user is quarantined only after more requests of that user than the limit, all
\* in the window of the request that was denied, passed the quarantine check.
QuarantineJustified ==
  \A q \in locked :
    Cardinality({x \in Requests : /\ UserOf[x] = UserOf[q]
                                  /\ TextAtOrAfter(at[x], WindowStart(q))
                                  /\ cfg[x].enabled
                                  /\ pc[x] \notin {"idle", "config", "quarantine", "prune",
                                                   "record", "denied"}})
      > cfg[q].limit

\* A request that recorded its row and is still inside the shortest window in use is
\* counted by every later request of its user, unless a quarantine of that user wiped
\* its row: pruning, which every user's request does to every user's rows, takes only
\* rows nobody will count.  Timestamps of one second do not sort by time, so the window
\* is cut to whole seconds.  With WindowBound this accounts for every admitted request.
LiveRowsStay ==
  \A r \in Requests :
    (/\ pc[r] \in {"count", "allowed"}
     /\ wipedBy[r] = NoRequest
     /\ \A c \in Configs : Second(at[r]) > Second(now) - c.window)
      => r \in recorded

\* Once a configuration was saved, the table is empty (and the limiter therefore off)
\* only while a save is between its two statements or after one was cut off there.
ConfigGapExplained ==
  (configRows = <<>> /\ saves > 0) =>
    interrupted \/ \E a \in Admins : adminPc[a] = "insert"
=============================================================================
