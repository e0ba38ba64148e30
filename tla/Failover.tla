------------------------------ MODULE Failover ------------------------------
\* The realtime failover engine: which provider carries realtime traffic is one
\* row of the database.  Every replica of Core ticks: it probes the providers,
\* decides, and, when there is something to commit, takes the ticker lease,
\* decides again on the row as it is then, and writes.  A replica's health
\* snapshot is its own: replicas need not agree, and a snapshot may be old when
\* it is used.  Time is counted in units; every stamp is kept as its age, every
\* deadline as the time left.  The replicas' clocks agree.
EXTENDS Integers, Sequences

CONSTANTS
  Replicas,   \* processes of Core that run the ticker
  Providers,
  Order,      \* realtime_provider_order: providers, best first
  Centrifugo, \* the provider that has to be probed, and the one to fall back on
  Polling,    \* the provider that is always healthy, and always in the order
  Policies,   \* the settings an operator chooses among: lock, automation, failback
  Snapshots,  \* what an evaluation may find of the providers
  Cooldown,   \* realtime_failover_cooldown_seconds
  Window,     \* realtime_failback_stable_window_seconds
  LeaseTtl,   \* LEASE_TTL_SECONDS
  CycleGate,  \* min_interval_seconds of the lease
  MaxEdits,   \* bound: changes of the settings
  MaxFaults,  \* bound: failed reads and writes, crashes, stalls
  None

Policy == [lock : Providers \cup {None}, enabled : BOOLEAN, failback : BOOLEAN]

\* degraded is as good as healthy to the engine.
Statuses == {"healthy", "unknown", "unhealthy"}
Healths == {h \in [Providers -> Statuses] : h[Polling] = "healthy"}

\* DEFAULT_CONTROL_PLANE, also what a failed read of the settings yields.  Order,
\* cooldown and window are settings of the same save; here they stay as they are.
DefaultPolicy == [lock |-> None, enabled |-> FALSE, failback |-> TRUE]

ASSUME OrderAssumption ==
  /\ Order \in Seq(Providers)
  /\ Centrifugo \in Providers
  /\ \E i \in 1..Len(Order) : Order[i] = Polling
  /\ Polling # Centrifugo
  /\ None \notin Providers \cup Replicas
ASSUME TimesAssumption ==
  /\ Cooldown \in Nat /\ Window \in Nat /\ CycleGate \in Nat
  /\ LeaseTtl \in Nat \ {0}
  /\ MaxEdits \in Nat /\ MaxFaults \in Nat
ASSUME PoliciesAssumption == Policies \subseteq Policy /\ Policies # {}
ASSUME SnapshotsAssumption == Snapshots \subseteq Healths

VARIABLES
  row,      \* realtime_failover_state
  lease,    \* the lease row: its owner, the time it has left, the gate
  policy,   \* the settings as stored
  seen,     \* seen[r]: the settings in r's cache
  at,       \* at[r]: where r's pass is
  health,   \* health[r]: the snapshot r's pass has yet to decide on
  next,     \* next[r]: what r's pass has yet to write
  doubted,  \* history: found unusable by a decision made under the lease, since
            \* the window was begun
  edits, faults

vars == <<row, lease, policy, seen, at, health, next, doubted, edits, faults>>

\* Ages are not told apart beyond this bound.
Old == (IF Cooldown < Window THEN Window ELSE Cooldown) + LeaseTtl

\* last_failover_reason, without the provider it names.
Operator == {"lock_applied", "failover_disabled_realigned"}
Automatic == {"primary_unhealthy", "failback_to"}

\* cand is candidate_recovery_provider, since the age of
\* candidate_recovery_since, moved that of last_failover_at, cooldown the time
\* until cooldown_until.
Rows ==
  [effective : Providers, reason : Operator \cup Automatic \cup {"none"},
   moved : 0..Old, cand : Providers \cup {None}, since : 0..Window,
   cooldown : 0..Cooldown]

\* FALLBACK_STATE: no row yet, or a row that could not be read.
FallbackRow ==
  [effective |-> Centrifugo, reason |-> "none", moved |-> Old,
   cand |-> None, since |-> 0, cooldown |-> 0]

-----------------------------------------------------------------------------
\* The decision

\* Only what has to be probed is unusable when nothing is known of it.
Usable(p, h) == h[p] # "unhealthy" /\ (p = Centrifugo => h[p] # "unknown")

\* priorityIndex: the first place in the order, or after all of it.
Ranked(p, i) == Order[i] = p /\ \A j \in 1..(i - 1) : Order[j] # p
Rank(p) ==
  IF \E i \in 1..Len(Order) : Order[i] = p
    THEN CHOOSE i \in 1..Len(Order) : Ranked(p, i)
    ELSE Len(Order) + 1

\* pickFirstUsable.  Polling is usable, so the last resort is never the answer.
FirstUsable(i, h) == Usable(Order[i], h) /\ \A j \in 1..(i - 1) : ~Usable(Order[j], h)
Pick(h) == Order[CHOOSE i \in 1..Len(Order) : FirstUsable(i, h)]

Moved(p, why, wait) ==
  [effective |-> p, reason |-> why, moved |-> 0,
   cand |-> None, since |-> 0, cooldown |-> wait]
Untracked(prev) == [prev EXCEPT !.cand = None, !.since = 0]

Locked(p, prev) ==
  IF prev.effective = p THEN Untracked(prev) ELSE Moved(p, "lock_applied", 0)

\* Automation off: back to the first of the order, unless it is unhealthy.
Realigned(h, prev) ==
  IF prev.effective = Order[1] \/ h[Order[1]] = "unhealthy"
    THEN prev
    ELSE Moved(Order[1], "failover_disabled_realigned", 0)

FailedOver(p, prev) ==
  IF prev.cooldown > 0 THEN Untracked(prev) ELSE Moved(p, "primary_unhealthy", Cooldown)

\* Mutant: a move back starts no cooldown.
FailedBackUnrested(p, pol, prev) ==
  CASE ~pol.failback \/ (prev.cand = p /\ prev.since < Window) -> prev
    [] pol.failback /\ prev.cand # p -> [prev EXCEPT !.cand = p, !.since = 0]
    [] OTHER -> Moved(p, "failback_to", 0)

FailedBack(p, pol, prev) ==
  CASE ~pol.failback \/ (prev.cand = p /\ prev.since < Window) -> prev
    [] pol.failback /\ prev.cand # p -> [prev EXCEPT !.cand = p, !.since = 0]
    [] OTHER -> Moved(p, "failback_to", Cooldown)

\* Mutant: the candidate is kept when it is no longer the pick.
AutomatedForgetful(pol, h, prev) ==
  LET p == Pick(h)
  IN IF p = prev.effective THEN prev
     ELSE IF Rank(p) > Rank(prev.effective) THEN FailedOver(p, prev)
     ELSE FailedBack(p, pol, prev)

Automated(pol, h, prev) ==
  LET p == Pick(h)
  IN IF p = prev.effective THEN Untracked(prev)
     ELSE IF Rank(p) > Rank(prev.effective) THEN FailedOver(p, prev)
     ELSE FailedBack(p, pol, prev)

DecideFailover(pol, h, prev) ==
  CASE pol.lock # None -> Locked(pol.lock, prev)
    [] pol.lock = None /\ ~pol.enabled -> Realigned(h, prev)
    [] OTHER -> Automated(pol, h, prev)

-----------------------------------------------------------------------------
Init ==
  /\ row = FallbackRow
  /\ lease = [owner |-> None, left |-> 0, gate |-> 0]
  /\ policy \in Policies
  /\ seen = [r \in Replicas |-> policy]
  /\ at = [r \in Replicas |-> "idle"]
  /\ health = [r \in Replicas |-> None]
  /\ next = [r \in Replicas |-> None]
  /\ doubted = {}
  /\ edits = 0
  /\ faults = 0

\* Between the lease and its release.
Committing(r) == at[r] \in {"leased", "saving", "decided"}

Fault == faults < MaxFaults /\ faults' = faults + 1

PassEnds(r) ==
  /\ at' = [at EXCEPT ![r] = "idle"]
  /\ health' = [health EXCEPT ![r] = None]
  /\ next' = [next EXCEPT ![r] = None]

\* A pass evaluates the providers without the lease.  It goes on when it would
\* change the row, when a status in the row differs from the one found, and when
\* the row's heartbeat is due: it may always.
Evaluate(r) ==
  /\ at[r] = "idle"
  /\ \E h \in Snapshots : health' = [health EXCEPT ![r] = h]
  /\ at' = [at EXCEPT ![r] = "wants"]
  /\ UNCHANGED <<row, lease, policy, seen, next, doubted, edits, faults>>

\* Mutants: a lease is not looked at, or never runs out.
LeaseIsGated == lease.gate = 0
LeaseIsHeld == lease.owner = None /\ lease.gate = 0

\* observability_try_acquire_ticker_lease
LeaseIsFree == (lease.owner = None \/ lease.left = 0) /\ lease.gate = 0
Acquire(r) ==
  /\ at[r] = "wants"
  /\ LeaseIsFree
  /\ lease' = [lease EXCEPT !.owner = r, !.left = LeaseTtl]
  /\ at' = [at EXCEPT ![r] = "leased"]
  /\ UNCHANGED <<row, policy, seen, health, next, doubted, edits, faults>>

\* Denied, or the lease could not be asked for: the cycle is skipped.
Skip(r) ==
  /\ at[r] = "wants"
  /\ \/ ~LeaseIsFree /\ UNCHANGED faults
     \/ LeaseIsFree /\ Fault
  /\ PassEnds(r)
  /\ UNCHANGED <<row, lease, policy, seen, doubted, edits>>

\* Under the lease: the row is read again and decided on.  A read that fails
\* yields the fallback row, and the decision is made all the same.  A decision
\* that changes nothing is written as well when a status is news or the row's
\* heartbeat is due.
Decide(r) ==
  /\ at[r] = "leased"
  /\ \E prev \in {row, FallbackRow} :
       LET decided == DecideFailover(seen[r], health[r], prev)
       IN /\ \/ prev = row /\ UNCHANGED faults
             \/ prev # row /\ Fault
          /\ \/ decided = prev /\ at' = [at EXCEPT ![r] = "decided"] /\ UNCHANGED next
             \/ at' = [at EXCEPT ![r] = "saving"] /\ next' = [next EXCEPT ![r] = decided]
          /\ doubted' = (IF decided # prev /\ decided.cand # None THEN {} ELSE doubted)
                          \cup {p \in Providers : ~Usable(p, health[r])}
  /\ health' = [health EXCEPT ![r] = None]
  /\ UNCHANGED <<row, lease, policy, seen, edits>>

\* The whole row is written.
Save(r) ==
  /\ at[r] = "saving"
  /\ \/ row' = next[r] /\ UNCHANGED faults
     \/ UNCHANGED row /\ Fault
  /\ at' = [at EXCEPT ![r] = "decided"]
  /\ next' = [next EXCEPT ![r] = None]
  /\ UNCHANGED <<lease, policy, seen, health, doubted, edits>>

\* observability_release_ticker_lease; a release that fails is swallowed.
Release(r) ==
  /\ at[r] = "decided"
  /\ \/ /\ lease' = IF lease.owner = r THEN [owner |-> None, left |-> 0, gate |-> CycleGate]
                                       ELSE lease
        /\ UNCHANGED faults
     \/ UNCHANGED lease /\ Fault
  /\ PassEnds(r)
  /\ UNCHANGED <<row, policy, seen, doubted, edits>>

\* A replica dies in a pass; the process that replaces it starts idle.
Crash(r) ==
  /\ at[r] # "idle"
  /\ Fault
  /\ PassEnds(r)
  /\ UNCHANGED <<row, lease, policy, seen, doubted, edits>>

\* The cache of the settings runs out and is filled anew.
Refresh(r) ==
  /\ \/ seen[r] # policy /\ seen' = [seen EXCEPT ![r] = policy] /\ UNCHANGED faults
     \/ seen[r] # DefaultPolicy /\ seen' = [seen EXCEPT ![r] = DefaultPolicy] /\ Fault
  /\ UNCHANGED <<row, lease, policy, at, health, next, doubted, edits>>

\* saveControlPlane, of lock, automation and failback.
Edit ==
  /\ edits < MaxEdits
  /\ policy' \in Policies \ {policy}
  /\ edits' = edits + 1
  /\ UNCHANGED <<row, lease, seen, at, health, next, doubted, faults>>

Up(n, top) == IF n < top THEN n + 1 ELSE top
Down(n) == IF n > 0 THEN n - 1 ELSE 0
Aged(rec) ==
  [rec EXCEPT !.moved = Up(@, Old),
              !.since = IF rec.cand = None THEN 0 ELSE Up(@, Window),
              !.cooldown = Down(@)]

\* A pass that is still at work when its lease runs out is a fault.
Time ==
  /\ IF lease.left = 1 /\ \E r \in Replicas : lease.owner = r /\ Committing(r)
       THEN Fault
       ELSE UNCHANGED faults
  /\ lease' = [lease EXCEPT !.left = Down(@), !.gate = Down(@)]
  /\ row' = Aged(row)
  /\ next' = [r \in Replicas |-> IF at[r] = "saving" THEN Aged(next[r]) ELSE next[r]]
  /\ UNCHANGED <<policy, seen, at, health, doubted, edits>>

Next ==
  \/ \E r \in Replicas :
       \/ Evaluate(r) \/ Acquire(r) \/ Skip(r) \/ Decide(r)
       \/ Save(r) \/ Release(r) \/ Crash(r) \/ Refresh(r)
  \/ Edit \/ Time

Spec == Init /\ [][Next]_vars

\* The timer fires again and again, a pass goes on, caches run out, time passes.
FairSpec ==
  /\ Spec
  /\ \A r \in Replicas :
       /\ WF_vars(Evaluate(r))
       /\ WF_vars(Acquire(r) \/ Skip(r))
       /\ WF_vars(Decide(r)) /\ WF_vars(Save(r)) /\ WF_vars(Release(r))
       /\ WF_vars(Refresh(r))
  /\ WF_vars(Time)

-----------------------------------------------------------------------------
TypeOK ==
  /\ row \in Rows
  /\ lease \in [owner : Replicas \cup {None}, left : 0..LeaseTtl, gate : 0..CycleGate]
  /\ policy \in Policies
  /\ seen \in [Replicas -> Policies \cup {DefaultPolicy}]
  /\ at \in [Replicas -> {"idle", "wants", "leased", "saving", "decided"}]
  /\ health \in [Replicas -> Snapshots \cup {None}]
  /\ next \in [Replicas -> Rows \cup {None}]
  /\ doubted \subseteq Providers
  /\ edits \in 0..MaxEdits
  /\ faults \in 0..MaxFaults

\* While nothing has failed, a pass that commits holds the lease, so no other
\* pass reads the row between its read and its write.
OneCommits == faults = 0 => \A r \in Replicas : Committing(r) => lease.owner = r /\ lease.left > 0

\* The type of the state, and the lease covers every commit.
Inv == TypeOK /\ OneCommits

\* The engine does not flap: while nothing has failed, of two moves it makes on
\* its own with none by an operator between them, a move down comes at least
\* the cooldown after the other, a move up at least the stable window, whichever
\* replicas decided them and however lock, automation and failback were set in
\* between.
MovesRest ==
  [][ faults = 0 /\ row'.effective # row.effective
      /\ row.reason \in Automatic /\ row'.reason \in Automatic
      => row.moved - row'.moved >=
           (IF row'.reason = "failback_to" THEN Window ELSE Cooldown) ]_vars

\* Traffic goes back to a provider only after the whole stable window, in which
\* no replica that decided under the lease found it unusable, while nothing has
\* failed and the settings were not changed.  (A replica that is denied the lease
\* drops what it found.)
FailbackWaits ==
  [][ faults = 0 /\ edits = 0 /\ row'.effective # row.effective
      /\ row'.reason = "failback_to"
      => row.since >= Window /\ row'.effective \notin doubted ]_vars

Automatable(pol) == pol.lock = None /\ pol.enabled /\ pol.failback

\* Once the providers have settled and automation stays on, traffic ends up on
\* the best usable provider for good, and under an operator's lock that stays on
\* the locked one, whatever its health: no cooldown, lease, crash or lost write
\* leaves it on another.
Converges ==
  /\ \A h \in Snapshots :
       <>[](Automatable(policy) /\ \A r \in Replicas : health[r] \in {h, None}) => <>[](row.effective = Pick(h))
  /\ \A p \in Providers : <>[](policy.lock = p) => <>[](row.effective = p)
=============================================================================
