---------------------------- MODULE FailoverProofs ----------------------------
(***************************************************************************)
(* For any number of replicas, any order of providers and any times: the   *)
(* row keeps its type, a commit is covered by the lease, the engine does   *)
(* not flap, and traffic goes back only after an undisturbed window.       *)
(***************************************************************************)
EXTENDS Failover, WellFoundedInduction, TLAPS

\* A set of numbers that holds one holds a least one.
LEMMA LeastNumber ==
  ASSUME NEW T, T \subseteq Nat, T # {}
  PROVE  \E x \in T : \A y \in T : ~(y < x)
<1>1. PICK x \in T : \A y \in T : ~(<<y, x>> \in OpToRel(<, Nat))
  BY NatLessThanWellFounded, WFMin
<1>2. ASSUME NEW y \in T, y < x
      PROVE  <<y, x>> \in OpToRel(<, Nat)
  BY <1>2 DEF OpToRel
<1> QED BY <1>1, <1>2

\* The pick is a provider, and usable: polling always is.
LEMMA PickIsUsable ==
  ASSUME NEW h \in Healths
  PROVE  Pick(h) \in Providers /\ Usable(Pick(h), h)
<1> DEFINE Places == {i \in 1..Len(Order) : Usable(Order[i], h)}
<1>1. Len(Order) \in Nat /\ \A i \in 1..Len(Order) : Order[i] \in Providers
  BY OrderAssumption
<1>2. Places # {}
  <2>1. PICK i \in 1..Len(Order) : Order[i] = Polling
    BY OrderAssumption
  <2>2. h[Polling] = "healthy"
    BY DEF Healths
  <2>3. Usable(Order[i], h)
    BY <2>1, <2>2, OrderAssumption DEF Usable
  <2> QED BY <2>1, <2>3
<1>3. PICK i \in Places : \A j \in Places : ~(j < i)
  <2>1. Places \subseteq Nat
    BY <1>1
  <2> HIDE DEF Places
  <2> QED BY <2>1, <1>2, LeastNumber
<1>4. \A j \in 1..(i - 1) : ~Usable(Order[j], h)
  BY <1>1, <1>3
<1>5. i \in 1..Len(Order) /\ FirstUsable(i, h)
  BY <1>3, <1>4 DEF FirstUsable
<1>6. (CHOOSE k \in 1..Len(Order) : FirstUsable(k, h)) \in 1..Len(Order)
      /\ FirstUsable(CHOOSE k \in 1..Len(Order) : FirstUsable(k, h), h)
  BY <1>5
<1> QED BY <1>1, <1>6 DEF Pick, FirstUsable

-----------------------------------------------------------------------------
(* The decision *)

\* What a decision keeps when it does not move, and what it asks of the row when
\* it does.
Keeps(d, prev) ==
  /\ d.effective = prev.effective /\ d.reason = prev.reason
  /\ d.moved = prev.moved /\ d.cooldown = prev.cooldown
  /\ \/ d.cand = None
     \/ d.cand = prev.cand /\ d.since = prev.since
     \/ d.since = 0
Moves(d, prev, h) ==
  /\ d.effective # prev.effective /\ d.moved = 0 /\ d.cand = None
  /\ \/ d.reason \in Operator
     \/ d.reason = "primary_unhealthy" /\ prev.cooldown = 0 /\ d.cooldown = Cooldown
     \/ /\ d.reason = "failback_to" /\ d.cooldown = Cooldown
        /\ prev.cand = d.effective /\ prev.since >= Window /\ Usable(d.effective, h)

LEMMA Choices ==
  ASSUME NEW pol \in Policy, NEW h \in Healths, NEW prev \in Rows,
         NEW d, d = DecideFailover(pol, h, prev)
  PROVE  /\ d \in Rows
         /\ Keeps(d, prev) \/ Moves(d, prev, h)
         /\ d.cand # None => IF Automatable(pol) THEN Usable(d.cand, h) ELSE prev.cand # None
<1> DEFINE G == /\ d \in Rows
                /\ Keeps(d, prev) \/ Moves(d, prev, h)
                /\ d.cand # None => IF Automatable(pol) THEN Usable(d.cand, h) ELSE prev.cand # None
<1> DEFINE p == Pick(h)
<1>0. /\ p \in Providers /\ Usable(p, h) /\ Order[1] \in Providers
      /\ None \notin Providers /\ Cooldown \in Nat /\ Window \in Nat /\ LeaseTtl \in Nat
  BY PickIsUsable, OrderAssumption, TimesAssumption
<1>1. ASSUME NEW q \in Providers, NEW why \in Operator \cup Automatic, NEW wait \in {0, Cooldown}
      PROVE  Moved(q, why, wait) \in Rows
  BY <1>0 DEF Moved, Rows, Old
<1>2. Untracked(prev) \in Rows /\ Keeps(Untracked(prev), prev) /\ Untracked(prev).cand = None
  <2>1. 0 \in 0..Window
    BY <1>0
  <2>2. Untracked(prev) \in Rows
    BY <2>1 DEF Untracked, Rows
  <2> QED BY <2>2 DEF Untracked, Rows, Keeps
<1>3. CASE d = Untracked(prev)
  BY <1>2, <1>3
<1>4. CASE d = prev /\ ~Automatable(pol)
  BY <1>4 DEF Keeps
<1>5. ASSUME NEW q \in Providers, NEW why \in Operator, q # prev.effective, d = Moved(q, why, 0)
      PROVE  G
  <2>1. d \in Rows
    BY <1>1, <1>5
  <2>2. Moves(d, prev, h) /\ d.cand = None
    BY <1>5 DEF Moves, Moved
  <2> QED BY <2>1, <2>2
<1>6. CASE pol.lock # None
  <2>1. pol.lock \in Providers
    BY <1>6 DEF Policy
  <2>2. d = Locked(pol.lock, prev)
    BY <1>6 DEF DecideFailover
  <2> QED BY <1>3, <1>5, <2>1, <2>2 DEF Locked, Operator
<1>7. CASE pol.lock = None /\ ~pol.enabled
  <2>1. d = Realigned(h, prev)
    BY <1>7 DEF DecideFailover
  <2> QED BY <1>0, <1>4, <1>5, <1>7, <2>1 DEF Realigned, Operator, Automatable
<1>8. CASE pol.lock = None /\ pol.enabled /\ p = prev.effective
  <2>1. d = Automated(pol, h, prev)
    BY <1>8 DEF DecideFailover
  <2>2. d = Untracked(prev)
    BY <1>8, <2>1 DEF Automated
  <2> QED BY <1>3, <2>2
<1>9. CASE pol.lock = None /\ pol.enabled /\ p # prev.effective
  <2>1. d = Automated(pol, h, prev)
    BY <1>9 DEF DecideFailover
  <2>2. d = FailedOver(p, prev) \/ d = FailedBack(p, pol, prev)
    BY <1>9, <2>1 DEF Automated
  <2>3. CASE d = FailedOver(p, prev) /\ d # Untracked(prev)
    <3>1. d = Moved(p, "primary_unhealthy", Cooldown) /\ ~(prev.cooldown > 0)
      BY <2>3 DEF FailedOver
    <3>2. prev.cooldown = 0
      BY <3>1, <1>0 DEF Rows
    <3>3. d \in Rows
      BY <1>0, <1>1, <3>1 DEF Automatic
    <3>4. Moves(d, prev, h) /\ d.cand = None
      BY <1>9, <3>1, <3>2 DEF Moves, Moved
    <3> QED BY <3>3, <3>4
  <2>4. CASE d = FailedBack(p, pol, prev) /\ d = prev
    <3>1. ~pol.failback \/ prev.cand = p \/ d # prev
      <4>1. ASSUME pol.failback, prev.cand # p
            PROVE  d = [prev EXCEPT !.cand = p, !.since = 0]
        BY <2>4, <4>1 DEF FailedBack
      <4> QED BY <4>1, <1>0 DEF Rows
    <3>2. CASE ~pol.failback
      BY <1>4, <2>4, <3>2 DEF Automatable
    <3>3. CASE pol.failback /\ prev.cand = p
      BY <1>0, <1>9, <2>4, <3>3 DEF Keeps, Automatable
    <3> QED BY <2>4, <3>1, <3>2, <3>3 DEF Policy
  <2>5. CASE d = FailedBack(p, pol, prev) /\ d # prev
    <3>1. pol.failback
      BY <2>5 DEF FailedBack, Policy
    <3>2. CASE prev.cand # p
      <4>1. d = [prev EXCEPT !.cand = p, !.since = 0]
        BY <2>5, <3>1, <3>2 DEF FailedBack
      <4>2. 0 \in 0..Window
        BY <1>0
      <4>3. d \in Rows /\ d.cand = p
        BY <1>0, <4>1, <4>2 DEF Rows
      <4>4. Keeps(d, prev)
        BY <4>1 DEF Keeps, Rows
      <4> QED BY <1>0, <1>9, <3>1, <4>3, <4>4 DEF Automatable
    <3>3. CASE prev.cand = p
      <4>1. ~(prev.since < Window) /\ d = Moved(p, "failback_to", Cooldown)
        BY <2>5, <3>1, <3>3 DEF FailedBack
      <4>2. d \in Rows
        BY <1>0, <1>1, <4>1 DEF Automatic
      <4>3. prev.since >= Window
        BY <1>0, <4>1 DEF Rows
      <4>4. Moves(d, prev, h) /\ d.cand = None
        BY <1>0, <1>9, <3>3, <4>1, <4>3 DEF Moves, Moved
      <4> QED BY <4>2, <4>4
    <3> QED BY <3>2, <3>3
  <2> QED BY <1>3, <2>2, <2>3, <2>4, <2>5
<1> QED BY <1>6, <1>7, <1>8, <1>9 DEF Policy

-----------------------------------------------------------------------------
(* The type of the state *)

\* A pass has the snapshot it is to decide on, and the row it is to write.
PassTyped ==
  \A r \in Replicas :
    /\ at[r] \in {"wants", "leased"} => health[r] \in Snapshots
    /\ at[r] = "saving" => next[r] \in Rows

LEMMA Ages ==
  ASSUME NEW n \in Rows
  PROVE  /\ Aged(n) \in Rows
         /\ Aged(n).effective = n.effective /\ Aged(n).reason = n.reason
         /\ Aged(n).cand = n.cand
         /\ Aged(n).moved = Up(n.moved, Old)
         /\ Aged(n).since = IF n.cand = None THEN 0 ELSE Up(n.since, Window)
         /\ Aged(n).cooldown = Down(n.cooldown)
<1>1. Old \in Nat /\ Window \in Nat /\ Cooldown \in Nat
  BY TimesAssumption DEF Old
<1>2. Up(n.moved, Old) \in 0..Old /\ Up(n.since, Window) \in 0..Window
      /\ 0 \in 0..Window /\ Down(n.cooldown) \in 0..Cooldown
  BY <1>1 DEF Rows, Up, Down
<1> HIDE DEF Up, Down
<1>3. (IF n.cand = None THEN 0 ELSE Up(n.since, Window)) \in 0..Window
  BY <1>2
<1>4. Aged(n) \in Rows
  BY <1>2, <1>3 DEF Aged, Rows
<1> QED BY <1>4 DEF Aged, Rows

LEMMA FallbackTyped ==
  FallbackRow \in Rows /\ DefaultPolicy \in Policy
<1>1. Old \in 0..Old /\ 0 \in 0..Window /\ 0 \in 0..Cooldown
  BY TimesAssumption DEF Old
<1> QED BY <1>1, OrderAssumption DEF FallbackRow, Rows, DefaultPolicy, Policy

LEMMA FaultCounts ==
  ASSUME TypeOK, Fault \/ UNCHANGED faults
  PROVE  /\ faults' \in 0..MaxFaults
         /\ faults' = 0 => faults = 0 /\ ~Fault
BY TimesAssumption DEF TypeOK, Fault

LEMMA TypeHolds ==
  ASSUME TypeOK, PassTyped, [Next]_vars
  PROVE  TypeOK' /\ PassTyped'
<1>1. ASSUME NEW r \in Replicas, Evaluate(r)
      PROVE  TypeOK' /\ PassTyped'
  <2>1. TypeOK'
    BY <1>1 DEF TypeOK, Evaluate
  <2>2. PassTyped'
    BY <1>1 DEF TypeOK, PassTyped, Evaluate
  <2> QED BY <2>1, <2>2
<1>2. ASSUME NEW r \in Replicas, Acquire(r)
      PROVE  TypeOK' /\ PassTyped'
  <2>1. LeaseTtl \in 0..LeaseTtl
    BY TimesAssumption
  <2>2. TypeOK'
    BY <1>2, <2>1 DEF TypeOK, Acquire
  <2>3. PassTyped'
    BY <1>2 DEF TypeOK, PassTyped, Acquire
  <2> QED BY <2>2, <2>3
<1>3. ASSUME NEW r \in Replicas, Skip(r) \/ Release(r) \/ Crash(r)
      PROVE  TypeOK' /\ PassTyped'
  <2>1. PassEnds(r) /\ UNCHANGED <<row, policy, seen, doubted, edits>>
    BY <1>3 DEF Skip, Release, Crash
  <2>2. faults' \in 0..MaxFaults
    BY <1>3, FaultCounts DEF Skip, Release, Crash
  <2>3. lease' = lease \/ lease' = [owner |-> None, left |-> 0, gate |-> CycleGate]
    BY <1>3 DEF Skip, Release, Crash
  <2>4. lease' \in [owner : Replicas \cup {None}, left : 0..LeaseTtl, gate : 0..CycleGate]
    BY <2>3, TimesAssumption DEF TypeOK
  <2>5. TypeOK'
    BY <2>1, <2>2, <2>4 DEF TypeOK, PassEnds
  <2>6. PassTyped'
    BY <2>1 DEF TypeOK, PassTyped, PassEnds
  <2> QED BY <2>5, <2>6
<1>4. ASSUME NEW r \in Replicas, Decide(r)
      PROVE  TypeOK' /\ PassTyped'
  <2>1. PICK prev \in {row, FallbackRow} :
          /\ (prev = row /\ UNCHANGED faults) \/ (prev # row /\ Fault)
          /\ \/ at' = [at EXCEPT ![r] = "decided"] /\ UNCHANGED next
             \/ /\ at' = [at EXCEPT ![r] = "saving"]
                /\ next' = [next EXCEPT ![r] = DecideFailover(seen[r], health[r], prev)]
          /\ doubted' = (IF DecideFailover(seen[r], health[r], prev) # prev
                             /\ DecideFailover(seen[r], health[r], prev).cand # None
                           THEN {} ELSE doubted)
                         \cup {p \in Providers : ~Usable(p, health[r])}
    BY <1>4 DEF Decide
  <2>2. prev \in Rows /\ seen[r] \in Policy /\ health[r] \in Healths
    BY <1>4, FallbackTyped, PoliciesAssumption, SnapshotsAssumption DEF TypeOK, PassTyped, Decide
  <2>3. DecideFailover(seen[r], health[r], prev) \in Rows
    BY <2>2, Choices
  <2> DEFINE d == DecideFailover(seen[r], health[r], prev)
  <2> HIDE DEF d
  <2>4. faults' \in 0..MaxFaults
    BY <2>1, FaultCounts
  <2>5. doubted' \subseteq Providers
    <3>1. doubted \subseteq Providers
      BY DEF TypeOK
    <3> QED BY <2>1, <3>1
  <2>6. /\ next' \in [Replicas -> Rows \cup {None}]
        /\ at' \in [Replicas -> {"idle", "wants", "leased", "saving", "decided"}]
        /\ \A q \in Replicas : at'[q] = "saving" => next'[q] \in Rows
    <3>1. d \in Rows
      BY <2>3 DEF d
    <3>2. \/ at' = [at EXCEPT ![r] = "decided"] /\ next' = next
          \/ at' = [at EXCEPT ![r] = "saving"] /\ next' = [next EXCEPT ![r] = d]
      BY <2>1 DEF d
    <3> QED BY <3>1, <3>2 DEF TypeOK, PassTyped
  <2>7. \A q \in Replicas : at'[q] \in {"wants", "leased"} => health'[q] \in Snapshots
    BY <1>4, <2>1 DEF Decide, TypeOK, PassTyped
  <2>8. health' \in [Replicas -> Snapshots \cup {None}]
    BY <1>4 DEF Decide, TypeOK
  <2>9. TypeOK'
    BY <1>4, <2>4, <2>5, <2>6, <2>8 DEF Decide, TypeOK
  <2> QED BY <2>6, <2>7, <2>9 DEF PassTyped
<1>5. ASSUME NEW r \in Replicas, Save(r)
      PROVE  TypeOK' /\ PassTyped'
  <2>1. row' \in Rows
    BY <1>5 DEF Save, PassTyped, TypeOK
  <2>2. faults' \in 0..MaxFaults
    BY <1>5, FaultCounts DEF Save
  <2>3. TypeOK'
    BY <1>5, <2>1, <2>2 DEF Save, TypeOK
  <2>4. PassTyped'
    BY <1>5 DEF Save, TypeOK, PassTyped
  <2> QED BY <2>3, <2>4
<1>6. ASSUME NEW r \in Replicas, Refresh(r)
      PROVE  TypeOK' /\ PassTyped'
  <2>1. faults' \in 0..MaxFaults
    BY <1>6, FaultCounts DEF Refresh
  <2>2. seen' \in [Replicas -> Policies \cup {DefaultPolicy}]
    BY <1>6 DEF Refresh, TypeOK
  <2>3. TypeOK'
    BY <1>6, <2>1, <2>2 DEF Refresh, TypeOK
  <2>4. PassTyped'
    BY <1>6 DEF Refresh, PassTyped
  <2> QED BY <2>3, <2>4
<1>7. CASE Edit
  <2>1. edits' \in 0..MaxEdits
    BY <1>7, TimesAssumption DEF Edit, TypeOK
  <2>2. TypeOK'
    BY <1>7, <2>1 DEF Edit, TypeOK
  <2>3. PassTyped'
    BY <1>7 DEF Edit, PassTyped
  <2> QED BY <2>2, <2>3
<1>8. CASE Time
  <2>1. faults' \in 0..MaxFaults
    BY <1>8, FaultCounts DEF Time
  <2>2. Down(lease.left) \in 0..LeaseTtl /\ Down(lease.gate) \in 0..CycleGate
    BY TimesAssumption DEF TypeOK, Down
  <2>3. lease' \in [owner : Replicas \cup {None}, left : 0..LeaseTtl, gate : 0..CycleGate]
    BY <1>8, <2>2 DEF Time, TypeOK
  <2>4. row' \in Rows
    BY <1>8, Ages DEF Time, TypeOK
  <2>5. /\ next' \in [Replicas -> Rows \cup {None}]
        /\ \A q \in Replicas : at[q] = "saving" => next'[q] \in Rows
    BY <1>8, Ages DEF Time, TypeOK, PassTyped
  <2>6. TypeOK'
    BY <1>8, <2>1, <2>3, <2>4, <2>5 DEF Time, TypeOK
  <2>7. PassTyped'
    BY <1>8, <2>5 DEF Time, PassTyped
  <2> QED BY <2>6, <2>7
<1>9. CASE UNCHANGED vars
  BY <1>9 DEF vars, TypeOK, PassTyped
<1> QED BY <1>1, <1>2, <1>3, <1>4, <1>5, <1>6, <1>7, <1>8, <1>9 DEF Next

-----------------------------------------------------------------------------
(* The lease covers a commit *)

LEMMA LeaseHolds ==
  ASSUME TypeOK, OneCommits, [Next]_vars
  PROVE  OneCommits'
<1> SUFFICES ASSUME faults' = 0, NEW q \in Replicas, Committing(q)'
             PROVE  lease'.owner = q /\ lease'.left > 0
  BY DEF OneCommits
<1>0. /\ None \notin Replicas /\ LeaseTtl \in Nat /\ LeaseTtl > 0
      /\ \A r \in Replicas : at[r] \in {"idle", "wants", "leased", "saving", "decided"}
      /\ at \in [Replicas -> {"idle", "wants", "leased", "saving", "decided"}]
      /\ lease \in [owner : Replicas \cup {None}, left : 0..LeaseTtl, gate : 0..CycleGate]
  BY OrderAssumption, TimesAssumption DEF TypeOK
<1>1. ASSUME faults = 0, Committing(q), lease' = lease
      PROVE  lease'.owner = q /\ lease'.left > 0
  BY <1>1 DEF OneCommits
<1>2. ASSUME NEW r \in Replicas, Evaluate(r)
      PROVE  lease'.owner = q /\ lease'.left > 0
  BY <1>0, <1>1, <1>2 DEF Evaluate, Committing
<1>3. ASSUME NEW r \in Replicas, Acquire(r)
      PROVE  lease'.owner = q /\ lease'.left > 0
  <2>1. CASE q = r
    BY <1>0, <1>3, <2>1 DEF Acquire
  <2>2. CASE q # r
    <3>1. faults = 0 /\ Committing(q)
      BY <1>0, <1>3, <2>2 DEF Acquire, Committing
    <3>2. lease.owner = q /\ lease.left > 0
      BY <3>1 DEF OneCommits
    <3> QED BY <1>0, <1>3, <3>2 DEF Acquire, LeaseIsFree
  <2> QED BY <2>1, <2>2
<1>4. ASSUME NEW r \in Replicas, Skip(r) \/ Crash(r)
      PROVE  lease'.owner = q /\ lease'.left > 0
  <2>1. faults = 0
    BY <1>4, FaultCounts DEF Skip, Crash
  <2>2. Committing(q) /\ lease' = lease
    BY <1>0, <1>4 DEF Skip, Crash, PassEnds, Committing
  <2> QED BY <1>1, <2>1, <2>2
<1>5. ASSUME NEW r \in Replicas, Decide(r) \/ Save(r)
      PROVE  lease'.owner = q /\ lease'.left > 0
  <2>1. faults = 0
    <3>1. Fault \/ UNCHANGED faults
      BY <1>5 DEF Decide, Save
    <3> QED BY <3>1, FaultCounts
  <2>2. Committing(q) /\ lease' = lease
    BY <1>0, <1>5 DEF Decide, Save, Committing
  <2> QED BY <1>1, <2>1, <2>2
<1>6. ASSUME NEW r \in Replicas, Release(r)
      PROVE  lease'.owner = q /\ lease'.left > 0
  <2>1. faults = 0
    BY <1>6, FaultCounts DEF Release
  <2>2. Committing(q) /\ q # r
    BY <1>0, <1>6 DEF Release, PassEnds, Committing
  <2>3. lease.owner = q
    BY <2>1, <2>2 DEF OneCommits
  <2>4. lease' = lease
    BY <1>6, <2>2, <2>3 DEF Release
  <2> QED BY <1>1, <2>1, <2>2, <2>4
<1>7. ASSUME NEW r \in Replicas, Refresh(r)
      PROVE  lease'.owner = q /\ lease'.left > 0
  <2>1. faults = 0
    BY <1>7, FaultCounts DEF Refresh
  <2> QED BY <1>1, <1>7, <2>1 DEF Refresh, Committing
<1>8. CASE Edit
  BY <1>1, <1>8 DEF Edit, Committing
<1>9. CASE Time
  <2>1. faults = 0 /\ ~Fault
    BY <1>9, FaultCounts DEF Time
  <2>2. Committing(q)
    BY <1>9 DEF Time, Committing
  <2>3. lease.owner = q /\ lease.left > 0
    BY <2>1, <2>2 DEF OneCommits
  <2>4. lease.left # 1
    BY <1>9, <2>1, <2>2, <2>3 DEF Time
  <2> QED BY <1>0, <1>9, <2>3, <2>4 DEF Time, Down
<1>10. CASE UNCHANGED vars
  BY <1>1, <1>10 DEF vars, Committing
<1> QED BY <1>2, <1>3, <1>4, <1>5, <1>6, <1>7, <1>8, <1>9, <1>10 DEF Next

-----------------------------------------------------------------------------
(* The engine does not flap *)

\* After a move of its own, the cooldown covers what the age of the move leaves
\* of it, and a window was begun after the move.
RowRests(n) ==
  n.reason \in Automatic =>
    /\ n.cooldown + n.moved >= Cooldown
    /\ n.cand # None => n.since <= n.moved

\* A move that is yet to be written was decided under the lease as it runs, and
\* late enough after the move that stands.
Waits(n) == IF n.reason = "failback_to" THEN Window ELSE Cooldown
Follows(n) ==
  n.effective # row.effective =>
    /\ n.moved <= LeaseTtl - lease.left
    /\ n.reason \in Automatic /\ row.reason \in Automatic => row.moved - n.moved >= Waits(n)

Rest ==
  faults = 0 =>
    /\ RowRests(row)
    /\ \A r \in Replicas : at[r] = "saving" => RowRests(next[r]) /\ Follows(next[r])

LEMMA Alone ==
  ASSUME OneCommits, faults = 0, NEW r \in Replicas, NEW q \in Replicas,
         Committing(r), Committing(q)
  PROVE  q = r
BY DEF OneCommits

LEMMA RestAges ==
  ASSUME NEW n \in Rows, RowRests(n)
  PROVE  RowRests(Aged(n))
<1>1. /\ n.moved \in 0..Old /\ n.since \in 0..Window /\ n.cooldown \in 0..Cooldown
      /\ Cooldown \in Nat /\ Window \in Nat /\ Old \in Nat /\ Old >= Cooldown /\ Old >= Window
  BY TimesAssumption DEF Rows, Old
<1>2. n.cooldown + n.moved >= Cooldown => Down(n.cooldown) + Up(n.moved, Old) >= Cooldown
  BY <1>1 DEF Down, Up
<1>3. n.since <= n.moved => Up(n.since, Window) <= Up(n.moved, Old)
  BY <1>1 DEF Up
<1> QED BY <1>2, <1>3, Ages DEF RowRests

LEMMA RestHolds ==
  ASSUME TypeOK, PassTyped, OneCommits, Rest, [Next]_vars
  PROVE  Rest'
<1> SUFFICES ASSUME faults' = 0
             PROVE  /\ RowRests(row')
                    /\ \A q \in Replicas :
                         at'[q] = "saving" => RowRests(next'[q]) /\ Follows(next[q])'
  BY DEF Rest, RowRests
<1> DEFINE Goal == /\ RowRests(row')
                   /\ \A q \in Replicas :
                        at'[q] = "saving" => RowRests(next'[q]) /\ Follows(next[q])'
<1>0. /\ None \notin Replicas /\ None \notin Providers
      /\ LeaseTtl \in Nat /\ Cooldown \in Nat /\ Window \in Nat
      /\ Old >= Cooldown + LeaseTtl /\ Old >= Window + LeaseTtl /\ Old \in Nat
      /\ at \in [Replicas -> {"idle", "wants", "leased", "saving", "decided"}]
      /\ row \in Rows /\ lease.left \in 0..LeaseTtl
  BY OrderAssumption, TimesAssumption DEF TypeOK, Old
<1>1. ASSUME faults = 0, row' = row,
             \A q \in Replicas : at'[q] = "saving" =>
               at[q] = "saving" /\ next'[q] = next[q] /\ lease' = lease
      PROVE  Goal
  <2>1. RowRests(row')
    BY <1>1 DEF Rest
  <2>2. ASSUME NEW q \in Replicas, at'[q] = "saving"
        PROVE  RowRests(next'[q]) /\ Follows(next[q])'
    <3>1. RowRests(next[q]) /\ Follows(next[q])
      BY <1>1, <2>2 DEF Rest
    <3> QED BY <1>1, <2>2, <3>1 DEF Follows
  <2> QED BY <2>1, <2>2
<1>2. ASSUME NEW r \in Replicas, Evaluate(r)
      PROVE  Goal
  BY <1>0, <1>1, <1>2 DEF Evaluate
<1>3. ASSUME NEW r \in Replicas, Acquire(r)
      PROVE  Goal
  <2>1. faults = 0 /\ row' = row
    BY <1>3 DEF Acquire
  <2>2. ASSUME NEW q \in Replicas, at'[q] = "saving"
        PROVE  FALSE
    <3>1. Committing(q)
      BY <1>0, <1>3, <2>2 DEF Acquire, Committing
    <3>2. lease.owner = q /\ lease.left > 0
      BY <2>1, <3>1 DEF OneCommits
    <3> QED BY <1>0, <1>3, <3>2 DEF Acquire, LeaseIsFree
  <2> QED BY <1>1, <2>1, <2>2
<1>4. ASSUME NEW r \in Replicas, Skip(r) \/ Crash(r)
      PROVE  Goal
  <2>1. faults = 0 /\ row' = row /\ lease' = lease
    BY <1>4, FaultCounts DEF Skip, Crash
  <2>2. \A q \in Replicas : at'[q] = "saving" => at[q] = "saving" /\ next'[q] = next[q]
    BY <1>0, <1>4 DEF Skip, Crash, PassEnds, TypeOK
  <2> QED BY <1>1, <2>1, <2>2
<1>5. ASSUME NEW r \in Replicas, Release(r)
      PROVE  Goal
  <2>1. faults = 0 /\ row' = row
    BY <1>5, FaultCounts DEF Release
  <2>2. ASSUME NEW q \in Replicas, at'[q] = "saving"
        PROVE  FALSE
    <3>1. Committing(q) /\ Committing(r) /\ q # r
      BY <1>0, <1>5, <2>2 DEF Release, PassEnds, Committing
    <3> QED BY <2>1, <3>1, Alone
  <2> QED BY <1>1, <2>1, <2>2
<1>6. ASSUME NEW r \in Replicas, Refresh(r)
      PROVE  Goal
  BY <1>1, <1>6, FaultCounts DEF Refresh
<1>7. CASE Edit
  BY <1>1, <1>7 DEF Edit
<1>8. CASE UNCHANGED vars
  BY <1>1, <1>8 DEF vars
<1>9. ASSUME NEW r \in Replicas, Decide(r)
      PROVE  Goal
  <2> DEFINE d == DecideFailover(seen[r], health[r], row)
  <2>1. /\ faults = 0 /\ row' = row /\ lease' = lease
        /\ \/ at' = [at EXCEPT ![r] = "decided"]
           \/ at' = [at EXCEPT ![r] = "saving"] /\ next' = [next EXCEPT ![r] = d]
    <3>1. PICK prev \in {row, FallbackRow} :
            /\ (prev = row /\ UNCHANGED faults) \/ (prev # row /\ Fault)
            /\ \/ at' = [at EXCEPT ![r] = "decided"]
               \/ /\ at' = [at EXCEPT ![r] = "saving"]
                  /\ next' = [next EXCEPT ![r] = DecideFailover(seen[r], health[r], prev)]
      BY <1>9 DEF Decide
    <3>2. prev = row /\ faults = 0
      BY <3>1, FaultCounts
    <3> QED BY <1>9, <3>1, <3>2 DEF Decide
  <2>2. at[r] = "leased" /\ Committing(r)
    BY <1>9 DEF Decide, Committing
  <2>3. ASSUME NEW q \in Replicas, at'[q] = "saving"
        PROVE  q = r /\ next'[q] = d
    <3>1. CASE q # r
      <4>1. Committing(q)
        BY <1>0, <2>1, <2>3, <3>1 DEF Committing
      <4> QED BY <2>1, <2>2, <3>1, <4>1, Alone
    <3>2. CASE q = r
      BY <1>0, <2>1, <2>3, <3>2 DEF TypeOK
    <3> QED BY <3>1, <3>2
  <2>4. d \in Rows /\ (Keeps(d, row) \/ Moves(d, row, health[r]))
    <3>1. seen[r] \in Policy /\ health[r] \in Healths
      BY <2>2, FallbackTyped, PoliciesAssumption, SnapshotsAssumption DEF TypeOK, PassTyped
    <3> QED BY <1>0, <3>1, Choices
  <2> HIDE DEF d
  <2>5. RowRests(row)
    BY <2>1 DEF Rest
  <2>6. row.moved \in Nat /\ d.moved \in Nat /\ row.cooldown \in Nat /\ row.since \in Nat
        /\ row.effective \in Providers /\ d.effective \in Providers
    BY <1>0, <2>4 DEF Rows
  <2>7. CASE Keeps(d, row)
    <3>1. RowRests(d)
      BY <2>5, <2>6, <2>7 DEF Keeps, RowRests
    <3>2. d.effective = row.effective
      BY <2>7 DEF Keeps
    <3> QED BY <2>1, <2>3, <2>5, <3>1, <3>2 DEF Follows
  <2>8. CASE Moves(d, row, health[r])
    <3>1. /\ d.moved = 0 /\ d.cand = None
          /\ d.reason \in Automatic => d.cooldown = Cooldown
      BY <2>8 DEF Moves, Operator, Automatic
    <3>2. RowRests(d)
      BY <1>0, <3>1 DEF RowRests
    <3>3. d.moved <= LeaseTtl - lease.left
      BY <1>0, <3>1
    <3>4. ASSUME d.reason \in Automatic, row.reason \in Automatic
          PROVE  row.moved - d.moved >= Waits(d)
      <4>1. CASE d.reason = "primary_unhealthy"
        <5>1. row.cooldown = 0
          BY <2>8, <4>1 DEF Moves, Operator
        <5> QED BY <1>0, <2>5, <2>6, <3>1, <3>4, <4>1, <5>1 DEF RowRests, Waits
      <4>2. CASE d.reason = "failback_to"
        <5>1. row.cand = d.effective /\ row.since >= Window
          BY <2>8, <4>2 DEF Moves, Operator
        <5> QED BY <1>0, <2>5, <2>6, <3>1, <3>4, <4>2, <5>1 DEF RowRests, Waits
      <4> QED BY <3>4, <4>1, <4>2 DEF Automatic
    <3> QED BY <2>1, <2>3, <2>5, <3>2, <3>3, <3>4 DEF Follows
  <2> QED BY <2>4, <2>7, <2>8
<1>10. ASSUME NEW r \in Replicas, Save(r)
      PROVE  Goal
  <2>1. faults = 0 /\ row' = next[r] /\ at[r] = "saving" /\ Committing(r)
    BY <1>10, FaultCounts DEF Save, Committing
  <2>2. ASSUME NEW q \in Replicas, at'[q] = "saving"
        PROVE  FALSE
    <3>1. Committing(q) /\ q # r
      BY <1>0, <1>10, <2>2 DEF Save, Committing
    <3> QED BY <2>1, <3>1, Alone
  <2> QED BY <2>1, <2>2 DEF Rest
<1>11. CASE Time
  <2>1. faults = 0 /\ ~Fault /\ row' = Aged(row)
    BY <1>11, FaultCounts DEF Time
  <2>2. RowRests(row')
    BY <1>0, <2>1, RestAges DEF Rest
  <2>3. ASSUME NEW q \in Replicas, at'[q] = "saving"
        PROVE  RowRests(next'[q]) /\ Follows(next[q])'
    <3> DEFINE n == next[q]
    <3>1. at[q] = "saving" /\ Committing(q) /\ next'[q] = Aged(n)
      BY <1>11, <2>3 DEF Time, Committing
    <3>2. n \in Rows /\ RowRests(n) /\ Follows(n)
      BY <2>1, <3>1 DEF PassTyped, Rest
    <3>3. lease'.left = lease.left - 1 /\ lease.left > 1
      <4>1. lease.owner = q /\ lease.left > 0
        BY <2>1, <3>1 DEF OneCommits
      <4>2. lease.left # 1
        BY <1>11, <2>1, <3>1, <4>1 DEF Time
      <4>3. lease'.left = Down(lease.left)
        BY <1>11 DEF Time, TypeOK
      <4> QED BY <1>0, <4>1, <4>2, <4>3 DEF Down
    <3> HIDE DEF n
    <3>4. RowRests(Aged(n))
      BY <3>2, RestAges
    <3>5. ASSUME Aged(n).effective # row'.effective
          PROVE  /\ Aged(n).moved <= LeaseTtl - lease'.left
                 /\ Aged(n).reason \in Automatic /\ row'.reason \in Automatic
                      => row'.moved - Aged(n).moved >= Waits(Aged(n))
      <4>1. n.effective # row.effective
        BY <1>0, <2>1, <3>2, <3>5, Ages
      <4>2. /\ n.moved <= LeaseTtl - lease.left
            /\ n.reason \in Automatic /\ row.reason \in Automatic => row.moved - n.moved >= Waits(n)
        BY <3>2, <4>1 DEF Follows
      <4>3. /\ Aged(n).moved = Up(n.moved, Old) /\ row'.moved = Up(row.moved, Old)
            /\ Aged(n).reason = n.reason /\ row'.reason = row.reason /\ Waits(Aged(n)) = Waits(n)
        BY <1>0, <2>1, <3>2, Ages DEF Waits
      <4>4. n.moved \in 0..Old /\ row.moved \in 0..Old
        BY <1>0, <3>2 DEF Rows
      <4>5. Waits(n) \in Nat /\ Old >= Waits(n) + LeaseTtl
        BY <1>0 DEF Waits
      <4>6. Aged(n).moved <= LeaseTtl - lease'.left
        BY <1>0, <3>3, <4>2, <4>3, <4>4 DEF Up
      <4>7. row.moved - n.moved >= Waits(n) => row'.moved - Aged(n).moved >= Waits(n)
        BY <1>0, <3>3, <4>3, <4>4, <4>5, <4>6 DEF Up
      <4> QED BY <4>2, <4>3, <4>6, <4>7
    <3> QED BY <3>1, <3>4, <3>5 DEF Follows
  <2> QED BY <2>2, <2>3
<1> QED BY <1>2, <1>3, <1>4, <1>5, <1>6, <1>7, <1>8, <1>9, <1>10, <1>11 DEF Next

-----------------------------------------------------------------------------
(* Traffic goes back only after an undisturbed window *)

\* A candidate is tracked only by automation, and nobody has doubted it.
Trusted(n) == n.cand # None => Automatable(policy) /\ n.cand \notin doubted

\* The move back that is to be written goes to the candidate of the row.
BackTo(n) ==
  n.effective # row.effective /\ n.reason = "failback_to" =>
    /\ row.cand = n.effective /\ row.cand # None
    /\ row.since >= Window /\ n.effective \notin doubted

Undoubted ==
  faults = 0 /\ edits = 0 =>
    /\ \A r \in Replicas : seen[r] = policy
    /\ (\A r \in Replicas : at[r] # "saving") => Trusted(row)
    /\ \A r \in Replicas : at[r] = "saving" => Trusted(next[r]) /\ BackTo(next[r])

LEMMA UndoubtedHolds ==
  ASSUME TypeOK, PassTyped, OneCommits, Undoubted, [Next]_vars
  PROVE  Undoubted'
<1> DEFINE Goal == /\ \A q \in Replicas : seen'[q] = policy'
                   /\ (\A q \in Replicas : at'[q] # "saving") => Trusted(row)'
                   /\ \A q \in Replicas : at'[q] = "saving" => Trusted(next[q])' /\ BackTo(next[q])'
<1> SUFFICES ASSUME faults' = 0, edits' = 0
             PROVE  Goal
  BY DEF Undoubted
<1>0. /\ None \notin Replicas /\ None \notin Providers
      /\ at \in [Replicas -> {"idle", "wants", "leased", "saving", "decided"}]
      /\ row \in Rows /\ Window \in Nat
  BY OrderAssumption, TimesAssumption DEF TypeOK
<1>1. ASSUME faults = 0, edits = 0, UNCHANGED <<row, policy, seen, doubted>>,
             \A q \in Replicas : at'[q] = "saving" <=> at[q] = "saving",
             \A q \in Replicas : at[q] = "saving" => next'[q] = next[q]
      PROVE  Goal
  <2>1. \A q \in Replicas : seen'[q] = policy'
    BY <1>1 DEF Undoubted
  <2>2. (\A q \in Replicas : at'[q] # "saving") => Trusted(row)'
    BY <1>1 DEF Undoubted, Trusted
  <2>3. ASSUME NEW q \in Replicas, at'[q] = "saving"
        PROVE  Trusted(next[q])' /\ BackTo(next[q])'
    <3>1. Trusted(next[q]) /\ BackTo(next[q]) /\ next'[q] = next[q]
      BY <1>1, <2>3 DEF Undoubted
    <3> QED BY <1>1, <3>1 DEF Trusted, BackTo
  <2> QED BY <2>1, <2>2, <2>3
<1>2. ASSUME NEW r \in Replicas, Evaluate(r)
      PROVE  Goal
  BY <1>0, <1>1, <1>2 DEF Evaluate
<1>3. ASSUME NEW r \in Replicas, Acquire(r)
      PROVE  Goal
  BY <1>0, <1>1, <1>3 DEF Acquire
<1>4. ASSUME NEW r \in Replicas, Skip(r)
      PROVE  Goal
  <2>1. faults = 0 /\ edits = 0
    BY <1>4, FaultCounts DEF Skip
  <2> QED BY <1>0, <1>1, <1>4, <2>1 DEF Skip, PassEnds, TypeOK
<1>5. ASSUME NEW r \in Replicas, Release(r)
      PROVE  Goal
  <2>1. faults = 0 /\ edits = 0
    BY <1>5, FaultCounts DEF Release
  <2> QED BY <1>0, <1>1, <1>5, <2>1 DEF Release, PassEnds, TypeOK
<1>6. ASSUME NEW r \in Replicas, Crash(r)
      PROVE  Goal
  BY <1>6, FaultCounts DEF Crash
<1>7. ASSUME NEW r \in Replicas, Refresh(r)
      PROVE  Goal
  <2>1. faults = 0 /\ edits = 0 /\ seen[r] # policy
    BY <1>7, FaultCounts DEF Refresh
  <2> QED BY <2>1 DEF Undoubted
<1>8. CASE Edit
  BY <1>8 DEF Edit, TypeOK
<1>9. CASE UNCHANGED vars
  BY <1>1, <1>9 DEF vars
<1>10. ASSUME NEW r \in Replicas, Decide(r)
      PROVE  Goal
  <2> DEFINE d == DecideFailover(seen[r], health[r], row)
  <2>1. /\ faults = 0 /\ edits = 0 /\ UNCHANGED <<row, policy, seen>>
        /\ \/ at' = [at EXCEPT ![r] = "decided"] /\ d = row
           \/ at' = [at EXCEPT ![r] = "saving"] /\ next' = [next EXCEPT ![r] = d]
        /\ doubted' \subseteq doubted \cup {p \in Providers : ~Usable(p, health[r])}
        /\ d # row /\ d.cand # None => doubted' = {p \in Providers : ~Usable(p, health[r])}
    <3>1. PICK prev \in {row, FallbackRow} :
            /\ (prev = row /\ UNCHANGED faults) \/ (prev # row /\ Fault)
            /\ \/ /\ at' = [at EXCEPT ![r] = "decided"]
                  /\ DecideFailover(seen[r], health[r], prev) = prev
               \/ /\ at' = [at EXCEPT ![r] = "saving"]
                  /\ next' = [next EXCEPT ![r] = DecideFailover(seen[r], health[r], prev)]
            /\ doubted' = (IF DecideFailover(seen[r], health[r], prev) # prev
                               /\ DecideFailover(seen[r], health[r], prev).cand # None
                             THEN {} ELSE doubted)
                           \cup {p \in Providers : ~Usable(p, health[r])}
      BY <1>10 DEF Decide
    <3>2. prev = row /\ faults = 0
      BY <3>1, FaultCounts
    <3>3. edits = 0 /\ UNCHANGED <<row, policy, seen>>
      BY <1>10 DEF Decide
    <3> QED BY <3>1, <3>2, <3>3
  <2>2. at[r] = "leased" /\ Committing(r)
    BY <1>10 DEF Decide, Committing
  <2>3. \A q \in Replicas : at[q] # "saving"
    <3>1. ASSUME NEW q \in Replicas, at[q] = "saving"
          PROVE  FALSE
      BY <2>1, <2>2, <3>1, Alone DEF Committing
    <3> QED BY <3>1
  <2>4. Trusted(row) /\ seen[r] = policy
    BY <2>1, <2>3 DEF Undoubted
  <2>5. /\ d \in Rows
        /\ Keeps(d, row) \/ Moves(d, row, health[r])
        /\ d.cand # None => IF Automatable(policy) THEN Usable(d.cand, health[r]) ELSE row.cand # None
    <3>1. seen[r] \in Policy /\ health[r] \in Healths
      BY <2>2, FallbackTyped, PoliciesAssumption, SnapshotsAssumption DEF TypeOK, PassTyped
    <3> QED BY <1>0, <2>4, <3>1, Choices
  <2> HIDE DEF d
  <2>6. d.cand # None => Automatable(policy) /\ Usable(d.cand, health[r])
    BY <2>4, <2>5 DEF Trusted
  <2>7. d.cand # None => d.cand \notin doubted'
    <3>1. CASE d # row
      BY <2>1, <2>6, <3>1
    <3>2. CASE d = row
      BY <2>1, <2>4, <2>6, <3>2 DEF Trusted
    <3> QED BY <3>1, <3>2
  <2>8. \A q \in Replicas : seen'[q] = policy'
    BY <2>1 DEF Undoubted
  <2>9. CASE at' = [at EXCEPT ![r] = "decided"] /\ d = row
    <3>1. \A q \in Replicas : at'[q] # "saving"
      BY <1>0, <2>3, <2>9
    <3>2. Trusted(row)'
      BY <2>1, <2>6, <2>7, <2>9 DEF Trusted
    <3> QED BY <2>8, <3>1, <3>2
  <2>10. CASE at' = [at EXCEPT ![r] = "saving"] /\ next' = [next EXCEPT ![r] = d]
    <3>1. at'[r] = "saving" /\ next'[r] = d
      BY <1>0, <2>10 DEF TypeOK
    <3>2. \A q \in Replicas : at'[q] = "saving" => q = r
      BY <1>0, <2>3, <2>10
    <3>3. Trusted(next[r])'
      BY <2>1, <2>6, <2>7, <3>1 DEF Trusted
    <3>4. BackTo(next[r])'
      <4>1. ASSUME d.effective # row.effective, d.reason = "failback_to"
            PROVE  /\ row.cand = d.effective /\ row.cand # None
                   /\ row.since >= Window /\ d.effective \notin doubted'
        <5>1. /\ row.cand = d.effective /\ row.since >= Window /\ Usable(d.effective, health[r])
          BY <2>5, <4>1 DEF Keeps, Moves, Operator
        <5>2. row.cand # None
          BY <1>0, <2>5, <5>1 DEF Rows
        <5> QED BY <2>1, <2>4, <5>1, <5>2 DEF Trusted
      <4> QED BY <2>1, <3>1, <4>1 DEF BackTo
    <3> QED BY <2>8, <3>1, <3>2, <3>3, <3>4
  <2> QED BY <2>1, <2>9, <2>10
<1>11. ASSUME NEW r \in Replicas, Save(r)
      PROVE  Goal
  <2>1. /\ faults = 0 /\ edits = 0 /\ row' = next[r] /\ at[r] = "saving" /\ Committing(r)
        /\ UNCHANGED <<policy, seen, doubted>>
    BY <1>11, FaultCounts DEF Save, Committing
  <2>2. ASSUME NEW q \in Replicas, at'[q] = "saving"
        PROVE  FALSE
    <3>1. Committing(q) /\ q # r
      BY <1>0, <1>11, <2>2 DEF Save, Committing
    <3> QED BY <2>1, <3>1, Alone
  <2>3. Trusted(next[r]) /\ \A q \in Replicas : seen[q] = policy
    BY <2>1 DEF Undoubted
  <2>4. Trusted(row)'
    BY <2>1, <2>3 DEF Trusted
  <2> QED BY <2>1, <2>2, <2>3, <2>4
<1>12. CASE Time
  <2>1. /\ faults = 0 /\ edits = 0 /\ row' = Aged(row)
        /\ UNCHANGED <<policy, seen, at, doubted>>
    BY <1>12, FaultCounts DEF Time
  <2>2. \A q \in Replicas : seen'[q] = policy'
    BY <2>1 DEF Undoubted
  <2>3. row'.cand = row.cand /\ row'.effective = row.effective
        /\ (row.cand # None /\ row.since >= Window => row'.since >= Window)
    BY <1>0, <2>1, Ages DEF Up, Rows
  <2>4. (\A q \in Replicas : at'[q] # "saving") => Trusted(row)'
    BY <2>1, <2>3 DEF Undoubted, Trusted
  <2>5. ASSUME NEW q \in Replicas, at'[q] = "saving"
        PROVE  Trusted(next[q])' /\ BackTo(next[q])'
    <3>1. at[q] = "saving" /\ next'[q] = Aged(next[q]) /\ next[q] \in Rows
      BY <1>12, <2>5 DEF Time, PassTyped
    <3>2. Trusted(next[q]) /\ BackTo(next[q])
      BY <2>1, <3>1 DEF Undoubted
    <3>3. /\ next'[q].cand = next[q].cand /\ next'[q].effective = next[q].effective
          /\ next'[q].reason = next[q].reason
      BY <3>1, Ages
    <3> QED BY <2>1, <2>3, <3>2, <3>3 DEF Trusted, BackTo
  <2> QED BY <2>2, <2>4, <2>5
<1> QED BY <1>2, <1>3, <1>4, <1>5, <1>6, <1>7, <1>8, <1>9, <1>10, <1>11, <1>12 DEF Next

-----------------------------------------------------------------------------
(* The theorems *)

\* Everything above together is inductive.
IInv == Inv /\ PassTyped /\ Rest /\ Undoubted

LEMMA Starts ==
  ASSUME Init
  PROVE  IInv
<1>1. TypeOK
  <2>1. /\ FallbackRow \in Rows /\ 0 \in 0..LeaseTtl /\ 0 \in 0..CycleGate
        /\ 0 \in 0..MaxEdits /\ 0 \in 0..MaxFaults
    BY FallbackTyped, TimesAssumption
  <2>2. lease \in [owner : Replicas \cup {None}, left : 0..LeaseTtl, gate : 0..CycleGate]
    BY <2>1 DEF Init
  <2> QED BY <2>1, <2>2 DEF Init, TypeOK
<1>2. OneCommits /\ PassTyped
  BY DEF Init, OneCommits, Committing, PassTyped
<1>3. Rest
  BY DEF Init, Rest, RowRests, FallbackRow, Automatic
<1>4. Undoubted
  BY DEF Init, Undoubted, Trusted, FallbackRow
<1> QED BY <1>1, <1>2, <1>3, <1>4 DEF IInv, Inv

LEMMA Goes ==
  ASSUME IInv, [Next]_vars
  PROVE  IInv'
BY TypeHolds, LeaseHolds, RestHolds, UndoubtedHolds DEF IInv, Inv

\* Only a save changes the provider: the row becomes what the pass decided.
LEMMA OnlySavesMove ==
  ASSUME TypeOK, [Next]_vars, row'.effective # row.effective
  PROVE  \E r \in Replicas : at[r] = "saving" /\ row' = next[r]
<1>1. Time => row'.effective = row.effective
  BY Ages DEF Time, TypeOK
<1>2. ASSUME NEW r \in Replicas, Save(r)
      PROVE  at[r] = "saving" /\ row' = next[r]
  BY <1>2 DEF Save
<1> QED BY <1>1, <1>2 DEF Next, vars, Evaluate, Acquire, Skip, Decide, Release, Crash, Refresh, Edit

\* The types hold, and while nothing has failed every commit is covered by the
\* lease (runFailoverTickOnce, commitUnderLease, the ticker lease).
THEOREM InvHolds == Spec => []Inv
<1>1. Init => IInv
  BY Starts
<1>2. IInv /\ [Next]_vars => IInv'
  BY Goes
<1>3. IInv => Inv
  BY DEF IInv
<1> QED BY <1>1, <1>2, <1>3, PTL DEF Spec

\* The engine's own moves are a cooldown or a stable window apart, whichever
\* replicas make them (decideFailover under commitUnderLease).
THEOREM MovesRestHolds == Spec => MovesRest
<1> DEFINE P == faults = 0 /\ row'.effective # row.effective
                /\ row.reason \in Automatic /\ row'.reason \in Automatic
                => row.moved - row'.moved >=
                     (IF row'.reason = "failback_to" THEN Window ELSE Cooldown)
<1>1. Init => IInv
  BY Starts
<1>2. IInv /\ [Next]_vars => IInv'
  BY Goes
<1>3. IInv /\ [Next]_vars => P
  <2> SUFFICES ASSUME IInv, [Next]_vars, faults = 0, row'.effective # row.effective,
                      row.reason \in Automatic, row'.reason \in Automatic
               PROVE  row.moved - row'.moved >= Waits(row')
    BY DEF Waits
  <2>1. PICK r \in Replicas : at[r] = "saving" /\ row' = next[r]
    BY OnlySavesMove DEF IInv, Inv
  <2>2. Follows(row')
    BY <2>1 DEF IInv, Rest, Follows
  <2> QED BY <2>2 DEF Follows
<1>4. IInv /\ [Next]_vars => [P]_vars
  BY <1>3
<1> QED BY <1>1, <1>2, <1>4, PTL DEF Spec, MovesRest

\* Traffic goes back to a provider only after a whole window in which no
\* decision doubted it (decideFailover's candidate fields).
THEOREM FailbackWaitsHolds == Spec => FailbackWaits
<1> DEFINE P == faults = 0 /\ edits = 0 /\ row'.effective # row.effective
                /\ row'.reason = "failback_to"
                => row.since >= Window /\ row'.effective \notin doubted
<1>1. Init => IInv
  BY Starts
<1>2. IInv /\ [Next]_vars => IInv'
  BY Goes
<1>3. IInv /\ [Next]_vars => P
  <2> SUFFICES ASSUME IInv, [Next]_vars, faults = 0, edits = 0,
                      row'.effective # row.effective, row'.reason = "failback_to"
               PROVE  row.since >= Window /\ row'.effective \notin doubted
    OBVIOUS
  <2>1. PICK r \in Replicas : at[r] = "saving" /\ row' = next[r]
    BY OnlySavesMove DEF IInv, Inv
  <2>2. BackTo(row')
    BY <2>1 DEF IInv, Undoubted, BackTo
  <2> QED BY <2>2 DEF BackTo
<1>4. IInv /\ [Next]_vars => [P]_vars
  BY <1>3
<1> QED BY <1>1, <1>2, <1>4, PTL DEF Spec, FailbackWaits
=============================================================================
