--------------------------- MODULE CallQueueProofs ---------------------------
(***************************************************************************)
(* For any number of entries, Cores and overlapping passes: callers are    *)
(* told the truth unless a reap overtakes them, and a call stops cycling   *)
(* however the passes count.  With one Core also: an offer lasts its time, *)
(* no operator is rung for two calls, and calls are offered in order.      *)
(*                                                                         *)
(* The three things said of one Core all come from this: a Core has one    *)
(* pass under way (OnwardKeeps), so whatever changes a row that the pass   *)
(* has read is a request, time or a crash, and none of these undoes what   *)
(* the pass goes by (Drift, DriftHolds).                                   *)
(***************************************************************************)
EXTENDS CallQueue, TLAPS

\* What the proofs need of a step that changes rows: types, and for each entry
\* that it is as it was, or is active with few misses and nobody was told of an
\* end, or has ended as its callers were told.
Sound(e) ==
  /\ IsActive(e) => entry[e].misses < MaxMisses
  /\ e \notin overtaken /\ told[e] # {} => told[e] = {entry[e].state}

\* Nobody has been told of the end of an entry that is not ended.
LEMMA UnendedIsUntold ==
  ASSUME CountInv, NEW e \in Entries, e \notin overtaken, entry[e].state \notin Ended
  PROVE  told[e] = {}
BY DEF CountInv, TypeOK, ToldIsTrue

LEMMA FaultCounts ==
  ASSUME TypeOK, Fault \/ NoFault
  PROVE  faults' \in 0..MaxFaults
BY CallAssumption DEF TypeOK, Fault, NoFault

LEMMA NewRows ==
  /\ NewEntry \in Entry
  /\ \A n \in Entry, state \in Ended \cup {"queued"} :
       /\ Closed(n, state) \in Entry
       /\ Closed(n, state).state = state /\ Closed(n, state).misses = n.misses
  /\ \A n \in Entry, o \in Operators, ringer \in {"ticker", "operator"} :
       /\ Offered(n, o, ringer) \in Entry
       /\ Offered(n, o, ringer).state = "offered" /\ Offered(n, o, ringer).misses = n.misses
<1>1. NewEntry \in Entry
  BY CallAssumption DEF NewEntry, Entry
<1>2. ASSUME NEW n \in Entry, NEW state \in Ended \cup {"queued"}
      PROVE  /\ Closed(n, state) \in Entry
             /\ Closed(n, state).state = state /\ Closed(n, state).misses = n.misses
  BY DEF Entry, Closed, Active
<1>3. ASSUME NEW n \in Entry, NEW o \in Operators, NEW ringer \in {"ticker", "operator"}
      PROVE  /\ Offered(n, o, ringer) \in Entry
             /\ Offered(n, o, ringer).state = "offered" /\ Offered(n, o, ringer).misses = n.misses
  BY DEF Entry, Offered, Active
<1> QED BY <1>1, <1>2, <1>3

-----------------------------------------------------------------------------
(* Requests and time *)

LEMMA RequestKeeps ==
  ASSUME CountInv, Request
  PROVE  CountInv'
<1>0. TypeOK
  BY DEF CountInv
<1>1. ASSUME NEW e \in Entries, NEW v \in Visitors, EnqueueCall(e, v)
      PROVE  CountInv'
  <2>1. told[e] # {} /\ e \notin overtaken => FALSE
    BY <1>1, UnendedIsUntold DEF EnqueueCall, Ended
  <2>2. [NewEntry EXCEPT !.state = "queued", !.visitor = v] \in Entry
    BY NewRows DEF Entry, Active, NewEntry
  <2>3. entry' = [entry EXCEPT ![e] = [NewEntry EXCEPT !.state = "queued", !.visitor = v]]
    BY <1>1 DEF EnqueueCall
  <2>4. entry' \in [Entries -> Entry]
    BY <1>0, <2>2, <2>3 DEF TypeOK
  <2>5. \A f \in Entries : Sound(f)'
    BY <1>0, <1>1, <2>1, <2>3, CallAssumption
       DEF EnqueueCall, CountInv, TypeOK, RingsAreBounded, ToldIsTrue, Sound, IsActive, NewEntry, Entry
  <2> QED BY <1>0, <1>1, <2>4, <2>5 DEF EnqueueCall, CountInv, TypeOK, ReadsAreBounded, RingsAreBounded, ToldIsTrue, Sound
<1>2. ASSUME NEW e \in Entries, NEW o \in Operators, OfferSelf(e, o)
      PROVE  CountInv'
  <2>1. told[e] # {} /\ e \notin overtaken => FALSE
    BY <1>2, UnendedIsUntold DEF OfferSelf, Ended
  <2>2. /\ Offered(entry[e], o, "operator") \in Entry
        /\ Offered(entry[e], o, "operator").misses = entry[e].misses
    BY <1>0, NewRows DEF TypeOK
  <2>3. entry' \in [Entries -> Entry]
    BY <1>0, <1>2, <2>2 DEF OfferSelf, TypeOK
  <2>4. \A f \in Entries : Sound(f)'
    BY <1>0, <1>2, <2>1, <2>2
       DEF OfferSelf, CountInv, TypeOK, RingsAreBounded, ToldIsTrue, Sound, IsActive, Active
  <2> QED BY <1>0, <1>2, <2>3, <2>4 DEF OfferSelf, CountInv, TypeOK, ReadsAreBounded, RingsAreBounded, ToldIsTrue, Sound
<1>3. ASSUME NEW e \in Entries, NEW end \in {"accepted", "cancelled", "callback_requested"},
             End(e, end)
      PROVE  CountInv'
  <2>1. e \notin overtaken => told[e] = {}
    BY <1>3, UnendedIsUntold DEF End, IsActive, Active, Ended
  <2>2. /\ Closed(entry[e], end) \in Entry
        /\ Closed(entry[e], end).state = end
    BY <1>0, NewRows DEF TypeOK, Ended
  <2>3. entry' \in [Entries -> Entry]
    BY <1>0, <1>3, <2>2 DEF End, TypeOK
  <2>4. told' \in [Entries -> SUBSET Ended]
    BY <1>0, <1>3 DEF End, TypeOK, Ended
  <2>5. \A f \in Entries : Sound(f)'
    BY <1>0, <1>3, <2>1, <2>2
       DEF End, CountInv, TypeOK, RingsAreBounded, ToldIsTrue, Sound, IsActive, Active
  <2> QED BY <1>0, <1>3, <2>3, <2>4, <2>5 DEF End, CountInv, TypeOK, ReadsAreBounded, RingsAreBounded, ToldIsTrue, Sound
<1> QED BY <1>1, <1>2, <1>3 DEF Request

LEMMA TimeKeeps ==
  ASSUME CountInv, NEW e \in Entries, OfferLapses(e) \/ EntryRunsOut(e)
  PROVE  CountInv'
<1>1. PICK n \in Entry : /\ entry' = [entry EXCEPT ![e] = n]
                         /\ n.state = entry[e].state /\ n.misses = entry[e].misses
  <2>1. entry[e] \in Entry
    BY DEF CountInv, TypeOK
  <2>2. CASE OfferLapses(e)
    <3>1. LET n == [entry[e] EXCEPT !.lapsed = TRUE]
          IN  n \in Entry /\ n.state = entry[e].state /\ n.misses = entry[e].misses
      BY <2>1 DEF Entry
    <3> QED BY <2>2, <3>1 DEF OfferLapses
  <2>3. CASE EntryRunsOut(e)
    <3>1. LET n == [entry[e] EXCEPT !.over = TRUE]
          IN  n \in Entry /\ n.state = entry[e].state /\ n.misses = entry[e].misses
      BY <2>1 DEF Entry
    <3> QED BY <2>3, <3>1 DEF EntryRunsOut
  <2> QED BY <2>2, <2>3
<1>2. UNCHANGED <<pass, passRunning, told, overtaken, faults>>
  BY DEF OfferLapses, EntryRunsOut
<1>3. /\ entry' \in [Entries -> Entry]
      /\ \A f \in Entries : /\ entry'[f].state = entry[f].state
                            /\ entry'[f].misses = entry[f].misses
  BY <1>1 DEF CountInv, TypeOK
<1> QED BY <1>2, <1>3 DEF CountInv, TypeOK, ReadsAreBounded, RingsAreBounded, ToldIsTrue, IsActive

-----------------------------------------------------------------------------
(* The ticker *)

\* Steps of a pass that leave the rows alone, and read no count but the rows'.
LEMMA QuietKeeps ==
  ASSUME CountInv, UNCHANGED <<entry, told, overtaken>>, faults' \in 0..MaxFaults,
         pass' \in [Passes -> Pass], passRunning' \in [Cores -> BOOLEAN],
         \A p \in Passes : \A s \in pass'[p].stale : s.misses < MaxMisses
  PROVE  CountInv'
BY DEF CountInv, TypeOK, RingsAreBounded, ReadsAreBounded, ToldIsTrue, IsActive

LEMMA StartKeeps ==
  ASSUME CountInv, NEW p \in Passes, Start(p) \/ FinishPass(p)
  PROVE  CountInv'
<1>1. IdlePass \in Pass /\ [pass[p] EXCEPT !.pc = "expire"] \in Pass
  BY DEF CountInv, TypeOK, Pass, IdlePass
<1>2. Home[p] \in Cores
  BY CallAssumption
<1>3. /\ pass' \in [Passes -> Pass]
      /\ passRunning' \in [Cores -> BOOLEAN]
  BY <1>1, <1>2 DEF Start, FinishPass, Step, Rest, CountInv, TypeOK
<1>4. \A q \in Passes : \A s \in pass'[q].stale : s.misses < MaxMisses
  BY DEF Start, FinishPass, Step, Rest, CountInv, TypeOK, ReadsAreBounded, IdlePass, Pass
<1>5. UNCHANGED <<entry, told, overtaken, faults>>
  BY DEF Start, FinishPass
<1> QED BY <1>3, <1>4, <1>5, QuietKeeps DEF CountInv, TypeOK

LEMMA ExpireKeeps ==
  ASSUME CountInv, NEW p \in Passes, ExpireStaleEntries(p)
  PROVE  CountInv'
<1>0. TypeOK
  BY DEF CountInv
<1>1. pass' \in [Passes -> Pass] /\ \A q \in Passes : pass'[q].stale = pass[q].stale
  BY <1>0 DEF ExpireStaleEntries, Step, TypeOK, Pass
<1>2. faults' \in 0..MaxFaults
  BY <1>0, FaultCounts DEF ExpireStaleEntries
<1>3. \A e \in Entries :
        \/ entry'[e] = entry[e]
        \/ IsActive(e) /\ entry'[e] = Closed(entry[e], "expired")
  BY <1>0 DEF ExpireStaleEntries, TypeOK
<1>4. entry' \in [Entries -> Entry]
  <2>1. entry' = [e \in Entries |-> entry'[e]]
    BY <1>0 DEF ExpireStaleEntries, TypeOK
  <2>2. \A e \in Entries : entry'[e] \in Entry
    BY <1>0, <1>3, NewRows DEF TypeOK, Ended
  <2> QED BY <2>1, <2>2
<1>5. \A e \in Entries : Sound(e)'
  <2> SUFFICES ASSUME NEW e \in Entries PROVE Sound(e)'
    OBVIOUS
  <2>1. CASE entry'[e] = entry[e]
    BY <2>1 DEF ExpireStaleEntries, CountInv, RingsAreBounded, ToldIsTrue, Sound, IsActive
  <2>2. CASE IsActive(e) /\ entry'[e] = Closed(entry[e], "expired")
    <3>1. entry'[e].state = "expired"
      BY <1>0, <2>2, NewRows DEF TypeOK, Ended
    <3>2. e \notin overtaken => told[e] = {}
      BY <2>2, UnendedIsUntold DEF IsActive, Active, Ended
    <3> QED BY <3>1, <3>2 DEF ExpireStaleEntries, Sound, IsActive, Active
  <2> QED BY <1>3, <2>1, <2>2
<1> QED BY <1>0, <1>1, <1>2, <1>4, <1>5 DEF ExpireStaleEntries, CountInv, TypeOK, ReadsAreBounded, RingsAreBounded, ToldIsTrue, Sound

LEMMA ReadStaleKeeps ==
  ASSUME CountInv, NEW p \in Passes, ReadStale(p)
  PROVE  CountInv'
<1>0. TypeOK
  BY DEF CountInv
<1> DEFINE Read == {[id |-> e, misses |-> entry[e].misses] : e \in {f \in Entries : Lapsed(f)}}
<1>1. \A s \in Read : s \in [id: Entries, misses: 0..MaxMisses] /\ s.misses < MaxMisses
  BY <1>0 DEF TypeOK, Entry, CountInv, RingsAreBounded, IsActive, Active, Lapsed
<1>2. \/ pass' = [pass EXCEPT ![p].pc = "reap", ![p].stale = Read]
      \/ pass' = [pass EXCEPT ![p].pc = "reap"]
  BY DEF ReadStale, Step
<1> HIDE DEF Read
<1>3. pass' \in [Passes -> Pass]
  BY <1>0, <1>1, <1>2 DEF TypeOK, Pass
<1>4. \A q \in Passes : \A s \in pass'[q].stale : s.misses < MaxMisses
  BY <1>0, <1>1, <1>2 DEF TypeOK, Pass, CountInv, ReadsAreBounded
<1>5. faults' \in 0..MaxFaults
  BY <1>0, FaultCounts DEF ReadStale
<1>6. UNCHANGED <<entry, told, overtaken, passRunning>>
  BY DEF ReadStale
<1> QED BY <1>0, <1>3, <1>4, <1>5, <1>6, QuietKeeps DEF TypeOK

\* An overlapping pass may have read fewer misses than the row has: the call
\* is given up all the same once the count that is written reaches MaxMisses.
LEMMA ReapedRow ==
  ASSUME CountInv, NEW p \in Passes, NEW s \in pass[p].stale, NEW breach \in BOOLEAN
  PROVE  /\ s.id \in Entries
         /\ Reaped(s, breach) \in Entry
         /\ Reaped(s, breach).state \in {"queued", "missed"}
         /\ Reaped(s, breach).state = "queued" => Reaped(s, breach).misses < MaxMisses
<1>1. s \in [id: Entries, misses: 0..MaxMisses] /\ s.misses + 1 \in 0..MaxMisses
  BY CallAssumption DEF CountInv, TypeOK, Pass, ReadsAreBounded
<1>2. entry[s.id] \in Entry
  BY <1>1 DEF CountInv, TypeOK
<1> DEFINE state == IF GivesUp(s.misses + 1, breach) THEN "missed" ELSE "queued"
<1>3. Closed(entry[s.id], state) \in Entry /\ Closed(entry[s.id], state).state = state
  BY <1>2, NewRows DEF Ended
<1>4. Reaped(s, breach) = [Closed(entry[s.id], state) EXCEPT !.misses = s.misses + 1]
  BY DEF Reaped
<1>5. state = "queued" => s.misses + 1 < MaxMisses
  BY <1>1, CallAssumption DEF GivesUp
<1> HIDE DEF state
<1>6. /\ Reaped(s, breach) \in Entry
      /\ Reaped(s, breach).state = state
      /\ Reaped(s, breach).misses = s.misses + 1
  BY <1>1, <1>3, <1>4 DEF Entry
<1> QED BY <1>1, <1>5, <1>6 DEF state

LEMMA ReapKeeps ==
  ASSUME CountInv, NEW p \in Passes, ReapOffer(p)
  PROVE  CountInv'
<1>0. TypeOK
  BY DEF CountInv
<1>1. PICK s \in pass[p].stale :
        /\ pass' = [pass EXCEPT ![p].stale = @ \ {s}]
        /\ \/ \E breach \in BOOLEAN :
                /\ entry' = [entry EXCEPT ![s.id] = Reaped(s, breach)]
                /\ overtaken' = IF Lapsed(s.id) THEN overtaken ELSE overtaken \cup {s.id}
           \/ UNCHANGED <<entry, overtaken>>
        /\ Fault \/ NoFault
  BY DEF ReapOffer
<1>2. pass' \in [Passes -> Pass] /\ \A q \in Passes : pass'[q].stale \subseteq pass[q].stale
  BY <1>0, <1>1 DEF TypeOK, Pass
<1>3. faults' \in 0..MaxFaults
  BY <1>0, <1>1, FaultCounts
<1>4. UNCHANGED <<passRunning, told>>
  BY DEF ReapOffer
<1>5. CASE UNCHANGED <<entry, overtaken>>
  BY <1>0, <1>2, <1>3, <1>4, <1>5 DEF CountInv, TypeOK, RingsAreBounded, ReadsAreBounded, ToldIsTrue, IsActive
<1>6. ASSUME NEW breach \in BOOLEAN,
             entry' = [entry EXCEPT ![s.id] = Reaped(s, breach)],
             overtaken' = IF Lapsed(s.id) THEN overtaken ELSE overtaken \cup {s.id}
      PROVE  CountInv'
  <2>1. entry' \in [Entries -> Entry] /\ overtaken' \subseteq Entries
    BY <1>0, <1>6, ReapedRow DEF TypeOK
  <2>2. s.id \notin overtaken' => told[s.id] = {}
    BY <1>6, ReapedRow, UnendedIsUntold DEF Lapsed, Ended
  <2>3. \A e \in Entries : Sound(e)'
    BY <1>0, <1>4, <1>6, <2>2, ReapedRow DEF CountInv, TypeOK, RingsAreBounded, ToldIsTrue, Sound, IsActive, Active
  <2> QED BY <1>0, <1>2, <1>3, <1>4, <2>1, <2>3 DEF CountInv, TypeOK, ReadsAreBounded, RingsAreBounded, ToldIsTrue, Sound
<1> QED BY <1>1, <1>5, <1>6

LEMMA ReadQueueKeeps ==
  ASSUME CountInv, NEW p \in Passes, ReadQueue(p) \/ ReadOffers(p)
  PROVE  CountInv'
<1>0. TypeOK /\ Home[p] \in Cores
  BY CallAssumption DEF CountInv
<1>1. IdlePass \in Pass /\ IdlePass.stale = {} /\ Queued \subseteq Entries
  BY DEF Pass, IdlePass, Queued
<1> DEFINE busy == {entry[e].offeredTo : e \in {f \in Entries : entry[f].state = "offered"}}
<1>2. busy \subseteq Operators \cup {None}
  BY <1>0 DEF TypeOK, Entry
<1>3. \/ pass' = [pass EXCEPT ![p].pc = "offers", ![p].queue = Queued]
      \/ pass' = [pass EXCEPT ![p] = IdlePass]
      \/ pass' = [pass EXCEPT ![p].pc = "assign", ![p].busy = busy]
      \/ pass' = [pass EXCEPT ![p].pc = "assign"]
  BY DEF ReadQueue, ReadOffers, Rest, Step
<1> HIDE DEF busy
<1>4. pass' \in [Passes -> Pass]
  BY <1>0, <1>1, <1>2, <1>3 DEF TypeOK, Pass
<1>5. \A q \in Passes : \A s \in pass'[q].stale : s.misses < MaxMisses
  BY <1>0, <1>1, <1>3 DEF TypeOK, Pass, CountInv, ReadsAreBounded
<1>6. passRunning' \in [Cores -> BOOLEAN]
  BY <1>0 DEF ReadQueue, ReadOffers, Rest, TypeOK
<1>7. faults' \in 0..MaxFaults
  BY <1>0, FaultCounts DEF ReadQueue, ReadOffers
<1>8. UNCHANGED <<entry, told, overtaken>>
  BY DEF ReadQueue, ReadOffers
<1> QED BY <1>4, <1>5, <1>6, <1>7, <1>8, QuietKeeps

\* What a step of the assignment does: the next entry is offered, or left.
LEMMA AssignStep ==
  ASSUME TypeOK, NEW p \in Passes, AutoAssign(p)
  PROVE  \E e \in pass[p].queue, o \in Operators \ pass[p].busy, busy \in SUBSET (Operators \cup {None}) :
           /\ pass' = [pass EXCEPT ![p].queue = @ \ {e}, ![p].busy = busy]
           /\ \/ /\ entry[e].state = "queued"
                 /\ entry' = [entry EXCEPT ![e] = Offered(@, o, "ticker")]
                 /\ busy = pass[p].busy \cup {o} \/ (busy = pass[p].busy /\ Fault)
              \/ UNCHANGED entry /\ busy = pass[p].busy
BY DEF AutoAssign, TypeOK, Pass, Oldest

LEMMA AssignKeeps ==
  ASSUME CountInv, NEW p \in Passes, AutoAssign(p)
  PROVE  CountInv'
<1>0. TypeOK
  BY DEF CountInv
<1>1. PICK e \in pass[p].queue, o \in Operators \ pass[p].busy, busy \in SUBSET (Operators \cup {None}) :
        /\ pass' = [pass EXCEPT ![p].queue = @ \ {e}, ![p].busy = busy]
        /\ \/ entry[e].state = "queued" /\ entry' = [entry EXCEPT ![e] = Offered(@, o, "ticker")]
           \/ UNCHANGED entry
  BY <1>0, AssignStep
<1>2. e \in Entries
  BY <1>0, <1>1 DEF TypeOK, Pass
<1>3. pass' \in [Passes -> Pass] /\ \A q \in Passes : pass'[q].stale = pass[q].stale
  BY <1>0, <1>1 DEF TypeOK, Pass
<1>4. faults' \in 0..MaxFaults
  BY <1>0, FaultCounts DEF AutoAssign
<1>5. UNCHANGED <<passRunning, told, overtaken>>
  BY DEF AutoAssign
<1>6. CASE UNCHANGED entry
  BY <1>0, <1>3, <1>4, <1>5, <1>6 DEF CountInv, TypeOK, RingsAreBounded, ReadsAreBounded, ToldIsTrue, IsActive
<1>7. CASE entry[e].state = "queued" /\ entry' = [entry EXCEPT ![e] = Offered(@, o, "ticker")]
  <2>1. /\ Offered(entry[e], o, "ticker") \in Entry
        /\ Offered(entry[e], o, "ticker").misses = entry[e].misses
    BY <1>0, <1>2, NewRows DEF TypeOK
  <2>2. entry' \in [Entries -> Entry]
    BY <1>0, <1>7, <2>1 DEF TypeOK
  <2>3. e \notin overtaken => told[e] = {}
    BY <1>2, <1>7, UnendedIsUntold DEF Ended
  <2>4. \A f \in Entries : Sound(f)'
    BY <1>0, <1>2, <1>5, <1>7, <2>1, <2>3
       DEF CountInv, TypeOK, RingsAreBounded, ToldIsTrue, Sound, IsActive, Active
  <2> QED BY <1>0, <1>3, <1>4, <1>5, <2>2, <2>4 DEF CountInv, TypeOK, ReadsAreBounded, RingsAreBounded, ToldIsTrue, Sound
<1> QED BY <1>1, <1>6, <1>7

LEMMA CrashKeeps ==
  ASSUME CountInv, NEW c \in Cores, Crash(c)
  PROVE  CountInv'
<1>1. IdlePass \in Pass /\ IdlePass.stale = {}
  BY DEF Pass, IdlePass
<1>2. pass' = [p \in Passes |-> IF Home[p] = c THEN IdlePass ELSE pass[p]]
  BY DEF Crash
<1>3. pass' \in [Passes -> Pass]
  BY <1>1, <1>2 DEF CountInv, TypeOK
<1>4. \A q \in Passes : \A s \in pass'[q].stale : s.misses < MaxMisses
  BY <1>1, <1>2 DEF CountInv, ReadsAreBounded
<1>5. faults' \in 0..MaxFaults /\ passRunning' \in [Cores -> BOOLEAN]
  BY FaultCounts DEF Crash, CountInv, TypeOK
<1>6. UNCHANGED <<entry, told, overtaken>>
  BY DEF Crash
<1> QED BY <1>3, <1>4, <1>5, <1>6, QuietKeeps

-----------------------------------------------------------------------------
(* Any number of Cores *)

LEMMA InitCounts == Init => CountInv
<1> SUFFICES ASSUME Init PROVE CountInv
  OBVIOUS
<1>1. TypeOK
  BY NewRows, CallAssumption DEF Init, TypeOK, Pass, IdlePass
<1>2. RingsAreBounded /\ ReadsAreBounded /\ ToldIsTrue
  BY DEF Init, RingsAreBounded, ReadsAreBounded, ToldIsTrue, IsActive, Active, NewEntry, IdlePass
<1> QED BY <1>1, <1>2 DEF CountInv

LEMMA NextCounts == CountInv /\ [Next]_vars => CountInv'
<1> SUFFICES ASSUME CountInv, [Next]_vars PROVE CountInv'
  OBVIOUS
<1>1. ASSUME NEW p \in Passes, PassStep(p)
      PROVE  CountInv'
  BY <1>1, StartKeeps, ExpireKeeps, ReadStaleKeeps, ReapKeeps, ReadQueueKeeps, AssignKeeps
     DEF PassStep
<1>2. CASE UNCHANGED vars
  BY <1>2 DEF vars, CountInv, TypeOK, RingsAreBounded, ReadsAreBounded, ToldIsTrue, IsActive
<1> QED BY <1>1, <1>2, RequestKeeps, TimeKeeps, CrashKeeps DEF Next

-----------------------------------------------------------------------------
(* Passes of one Core *)

\* What a step of a pass makes of it: further on, from its start on.
Onward(p, pc) ==
  /\ \A q \in Passes : q # p => pass'[q] = pass[q]
  /\ pass'[p].pc = pc
  /\ pc = "reap" \/ pass'[p].stale = {}
  /\ \A r, s \in pass'[p].stale : r.id = s.id => r = s

LEMMA OnwardKeeps ==
  ASSUME TypeOK, OnePassPerCore, NEW p \in Passes, NEW pc, pass[p].pc # "idle", Onward(p, pc),
         pc = "idle" \/ passRunning' = passRunning,
         pc = "idle" => passRunning' = [passRunning EXCEPT ![Home[p]] = FALSE]
  PROVE  OnePassPerCore'
<1>1. \A q \in Passes : pass'[q].pc # "idle" => pass[q].pc # "idle"
  BY DEF Onward
<1>2. ASSUME NEW q \in Passes, pass'[q].pc # "idle" PROVE passRunning'[Home[q]]
  <2>1. passRunning[Home[q]]
    BY <1>1, <1>2 DEF OnePassPerCore
  <2>2. CASE pc = "idle"
    <3>1. q # p /\ Home[q] # Home[p]
      BY <1>1, <1>2, <2>2 DEF Onward, OnePassPerCore
    <3> QED BY <2>1, <2>2, <3>1, CallAssumption DEF TypeOK
  <2> QED BY <2>1, <2>2
<1>3. \A q \in Passes :
        /\ pass'[q].pc # "reap" => pass'[q].stale = {}
        /\ \A r, s \in pass'[q].stale : r.id = s.id => r = s
  BY DEF Onward, OnePassPerCore
<1>4. \A q, r \in Passes :
        Home[q] = Home[r] /\ pass'[q].pc # "idle" /\ pass'[r].pc # "idle" => q = r
  BY <1>1 DEF OnePassPerCore
<1> QED BY <1>2, <1>3, <1>4 DEF OnePassPerCore

\* Requests and time leave passes alone; a Core that dies loses its pass.
LEMMA NextPasses == CountInv /\ OnePassPerCore /\ [Next]_vars => OnePassPerCore'
<1> SUFFICES ASSUME CountInv, OnePassPerCore, [Next]_vars PROVE OnePassPerCore'
  OBVIOUS
<1>0. TypeOK /\ pass \in [Passes -> Pass] /\ passRunning \in [Cores -> BOOLEAN]
  BY DEF CountInv, TypeOK
<1>1. ASSUME UNCHANGED <<pass, passRunning>> PROVE OnePassPerCore'
  BY <1>1 DEF OnePassPerCore
<1>2. CASE Request \/ (\E e \in Entries : OfferLapses(e) \/ EntryRunsOut(e)) \/ UNCHANGED vars
  BY <1>1, <1>2 DEF Request, EnqueueCall, OfferSelf, End, OfferLapses, EntryRunsOut, vars
<1>3. ASSUME NEW p \in Passes, Start(p) PROVE OnePassPerCore'
  <2>1. /\ pass[p].pc = "idle" /\ ~passRunning[Home[p]] /\ pass' = [pass EXCEPT ![p].pc = "expire"]
        /\ passRunning' = [passRunning EXCEPT ![Home[p]] = TRUE]
    BY <1>3 DEF Start, Step
  <2>2. pass'[p].pc = "expire" /\ pass'[p].stale = pass[p].stale /\ \A q \in Passes : q # p => pass'[q] = pass[q]
    BY <1>0, <2>1 DEF Pass
  <2>3. \A q \in Passes : Home[q] = Home[p] => pass[q].pc = "idle"
    BY <2>1 DEF OnePassPerCore
  <2>4. \A q \in Passes : pass'[q].pc # "idle" => passRunning'[Home[q]]
    BY <1>0, <2>1, <2>2, CallAssumption DEF OnePassPerCore
  <2>5. \A q, r \in Passes :
          Home[q] = Home[r] /\ pass'[q].pc # "idle" /\ pass'[r].pc # "idle" => q = r
    BY <2>2, <2>3 DEF OnePassPerCore
  <2>6. pass[p].stale = {}
    BY <2>1 DEF OnePassPerCore
  <2>7. \A q \in Passes :
          /\ pass'[q].pc # "reap" => pass'[q].stale = {}
          /\ \A r, s \in pass'[q].stale : r.id = s.id => r = s
    BY <2>2, <2>6 DEF OnePassPerCore
  <2> QED BY <2>4, <2>5, <2>7 DEF OnePassPerCore
<1>4. ASSUME NEW p \in Passes, Rest(p), pass[p].pc # "idle" PROVE OnePassPerCore'
  <2>1. Onward(p, "idle")
    BY <1>0, <1>4 DEF Rest, Onward, IdlePass
  <2> QED BY <1>0, <1>4, <2>1, OnwardKeeps DEF Rest
<1>5. ASSUME NEW p \in Passes, ExpireStaleEntries(p) PROVE OnePassPerCore'
  <2>1. Onward(p, "stale")
    BY <1>0, <1>5 DEF ExpireStaleEntries, Step, Onward, OnePassPerCore, Pass
  <2> QED BY <1>0, <1>5, <2>1, OnwardKeeps DEF ExpireStaleEntries
<1>6. ASSUME NEW p \in Passes, ReadStale(p) PROVE OnePassPerCore'
  <2> DEFINE Read == {[id |-> e, misses |-> entry[e].misses] : e \in {f \in Entries : Lapsed(f)}}
  <2>1. \A r, s \in Read : r.id = s.id => r = s
    OBVIOUS
  <2>2. /\ pass[p].pc = "stale" /\ passRunning' = passRunning
        /\ \/ pass' = [pass EXCEPT ![p].pc = "reap", ![p].stale = Read]
           \/ pass' = [pass EXCEPT ![p].pc = "reap"]
    BY <1>6 DEF ReadStale, Step
  <2> HIDE DEF Read
  <2>3. /\ pass'[p].pc = "reap" /\ pass'[p].stale \in {Read, pass[p].stale}
        /\ \A q \in Passes : q # p => pass'[q] = pass[q]
    BY <1>0, <2>2 DEF Pass
  <2>4. Onward(p, "reap")
    BY <2>1, <2>3 DEF Onward, OnePassPerCore
  <2> QED BY <1>0, <2>2, <2>4, OnwardKeeps
<1>7. ASSUME NEW p \in Passes, ReapOffer(p) PROVE OnePassPerCore'
  <2>1. PICK s \in pass[p].stale : pass' = [pass EXCEPT ![p].stale = @ \ {s}]
    BY <1>7 DEF ReapOffer
  <2>2. pass[p].pc = "reap" /\ passRunning' = passRunning
    BY <1>7 DEF ReapOffer
  <2>3. /\ pass'[p].pc = "reap" /\ pass'[p].stale \subseteq pass[p].stale
        /\ \A q \in Passes : q # p => pass'[q] = pass[q]
    BY <1>0, <2>1, <2>2 DEF Pass
  <2>4. Onward(p, "reap")
    BY <2>3 DEF Onward, OnePassPerCore
  <2> QED BY <1>0, <2>2, <2>4, OnwardKeeps
<1>8. ASSUME NEW p \in Passes, ReadQueue(p) PROVE OnePassPerCore'
  <2>1. /\ pass[p].pc = "reap" /\ pass[p].stale = {}
        /\ \/ Rest(p)
           \/ pass' = [pass EXCEPT ![p].pc = "offers", ![p].queue = Queued] /\ passRunning' = passRunning
    BY <1>8 DEF ReadQueue
  <2>2. CASE pass' = [pass EXCEPT ![p].pc = "offers", ![p].queue = Queued] /\ passRunning' = passRunning
    <3>1. /\ pass'[p].pc = "offers" /\ pass'[p].stale = {}
          /\ \A q \in Passes : q # p => pass'[q] = pass[q]
      BY <1>0, <2>1, <2>2 DEF Pass
    <3>2. Onward(p, "offers")
      BY <3>1 DEF Onward
    <3> QED BY <1>0, <2>1, <2>2, <3>2, OnwardKeeps
  <2> QED BY <1>4, <2>1, <2>2
<1>9. ASSUME NEW p \in Passes, ReadOffers(p) PROVE OnePassPerCore'
  <2>1. /\ pass[p].pc = "offers" /\ passRunning' = passRunning
        /\ \/ \E busy : pass' = [pass EXCEPT ![p].pc = "assign", ![p].busy = busy]
           \/ pass' = [pass EXCEPT ![p].pc = "assign"]
    BY <1>9 DEF ReadOffers, Step
  <2>2. /\ pass'[p].pc = "assign" /\ pass'[p].stale = pass[p].stale
        /\ \A q \in Passes : q # p => pass'[q] = pass[q]
    BY <1>0, <2>1 DEF Pass
  <2>3. Onward(p, "assign")
    BY <2>1, <2>2 DEF Onward, OnePassPerCore
  <2> QED BY <1>0, <2>1, <2>3, OnwardKeeps
<1>10. ASSUME NEW p \in Passes, AutoAssign(p) PROVE OnePassPerCore'
  <2>1. /\ pass[p].pc = "assign" /\ passRunning' = passRunning
        /\ \E e, busy : pass' = [pass EXCEPT ![p].queue = @ \ {e}, ![p].busy = busy]
    BY <1>10 DEF AutoAssign
  <2>2. /\ pass'[p].pc = "assign" /\ pass'[p].stale = pass[p].stale
        /\ \A q \in Passes : q # p => pass'[q] = pass[q]
    BY <1>0, <2>1 DEF Pass
  <2>3. Onward(p, "assign")
    BY <2>1, <2>2 DEF Onward, OnePassPerCore
  <2> QED BY <1>0, <2>1, <2>3, OnwardKeeps
<1>11. ASSUME NEW p \in Passes, FinishPass(p) PROVE OnePassPerCore'
  BY <1>4, <1>11 DEF FinishPass
<1>12. ASSUME NEW c \in Cores, Crash(c) PROVE OnePassPerCore'
  <2>1. /\ \A q \in Passes : pass'[q] = IF Home[q] = c THEN IdlePass ELSE pass[q]
        /\ \A d \in Cores : d # c => passRunning'[d] = passRunning[d]
    BY <1>0, <1>12 DEF Crash
  <2> QED BY <2>1, CallAssumption DEF OnePassPerCore, IdlePass
<1>13. ASSUME NEW p \in Passes, PassStep(p) PROVE OnePassPerCore'
  BY <1>13, <1>3, <1>5, <1>6, <1>7, <1>8, <1>9, <1>10, <1>11 DEF PassStep
<1> QED BY <1>2, <1>12, <1>13 DEF Next

-----------------------------------------------------------------------------
(* Rows, while a pass has read them *)

\* What a row becomes, n to m, by anything that is not a step of a pass after its
\* first: nothing that matters here, a new call, an operator's own offer, an end.
Drift(n, m) ==
  \/ /\ m.state = n.state /\ m.offeredTo = n.offeredTo /\ m.ringer = n.ringer
     /\ n.lapsed => m.lapsed
  \/ n.state = "absent" /\ m.state = "queued"
  \/ n.state = "queued" /\ m.state = "offered" /\ m.ringer = "operator"
  \/ n.state \in Active /\ m.state \in Ended \ {"missed"}

Drifts ==
  /\ \A e \in Entries : Drift(entry[e], entry'[e])
  /\ \A e, f \in Entries : ~IsMade(e) /\ entry'[e].state # "absent" /\ f < e => IsMade(f)

LEMMA RequestDrifts ==
  ASSUME TypeOK, Request
  PROVE  Drifts /\ UNCHANGED <<pass, passRunning, faults>>
<1>1. UNCHANGED <<pass, passRunning, faults>>
  BY DEF Request, EnqueueCall, OfferSelf, End
<1>2. ASSUME NEW e \in Entries, NEW n, entry' = [entry EXCEPT ![e] = n], Drift(entry[e], n),
             entry[e].state = "absent" => \A f \in 1..(e - 1) : entry[f].state # "absent"
      PROVE  Drifts
  <2>1. entry'[e] = n /\ \A f \in Entries : f # e => entry'[f] = entry[f]
    BY <1>2 DEF TypeOK
  <2>2. \A f \in Entries : Drift(entry[f], entry'[f])
    BY <1>2, <2>1 DEF Drift
  <2>3. \A f \in Entries : f < e => f \in 1..(e - 1)
    BY CallAssumption DEF Entries
  <2> QED BY <1>2, <2>1, <2>2, <2>3 DEF Drifts, IsMade
<1>3. ASSUME NEW e \in Entries, NEW v \in Visitors, EnqueueCall(e, v)
      PROVE  Drifts
  <2> DEFINE n == [NewEntry EXCEPT !.state = "queued", !.visitor = v]
  <2>1. n.state = "queued"
    BY DEF NewEntry
  <2>2. entry[e].state = "absent" /\ entry' = [entry EXCEPT ![e] = n]
        /\ \A f \in 1..(e - 1) : entry[f].state # "absent"
    BY <1>3 DEF EnqueueCall
  <2> HIDE DEF n
  <2> QED BY <1>2, <2>1, <2>2 DEF Drift
<1>4. ASSUME NEW e \in Entries, NEW o \in Operators, OfferSelf(e, o)
      PROVE  Drifts
  <2> DEFINE n == Offered(entry[e], o, "operator")
  <2>1. n.state = "offered" /\ n.ringer = "operator"
    BY DEF Offered, TypeOK, Entry
  <2>2. entry[e].state = "queued" /\ entry' = [entry EXCEPT ![e] = n]
    BY <1>4 DEF OfferSelf
  <2> HIDE DEF n
  <2> QED BY <1>2, <2>1, <2>2 DEF Drift
<1>5. ASSUME NEW e \in Entries, NEW end \in {"accepted", "cancelled", "callback_requested"}, End(e, end)
      PROVE  Drifts
  <2> DEFINE n == Closed(entry[e], end)
  <2>1. n.state = end
    BY DEF Closed, TypeOK, Entry
  <2>2. entry[e].state \in Active /\ entry' = [entry EXCEPT ![e] = n]
    BY <1>5 DEF End, IsActive
  <2> HIDE DEF n
  <2>3. entry[e].state # "absent" /\ n.state \in Ended \ {"missed"}
    BY <2>1, <2>2 DEF Active, Ended
  <2> QED BY <1>2, <2>2, <2>3 DEF Drift
<1> QED BY <1>1, <1>3, <1>4, <1>5 DEF Request

LEMMA TimeDrifts ==
  ASSUME TypeOK, NEW e \in Entries, OfferLapses(e) \/ EntryRunsOut(e)
  PROVE  Drifts /\ UNCHANGED <<pass, passRunning, faults>>
<1>1. entry[e] \in Entry
  BY DEF TypeOK
<1>2. \E n \in {[entry[e] EXCEPT !.lapsed = TRUE], [entry[e] EXCEPT !.over = TRUE]} :
        entry' = [entry EXCEPT ![e] = n]
  BY DEF OfferLapses, EntryRunsOut
<1>3. \A n \in {[entry[e] EXCEPT !.lapsed = TRUE], [entry[e] EXCEPT !.over = TRUE]} :
        /\ n.state = entry[e].state /\ n.offeredTo = entry[e].offeredTo /\ n.ringer = entry[e].ringer
        /\ entry[e].lapsed => n.lapsed
  BY <1>1 DEF Entry
<1>4. \A f \in Entries :
        /\ entry'[f].state = entry[f].state /\ entry'[f].offeredTo = entry[f].offeredTo
        /\ entry'[f].ringer = entry[f].ringer /\ (entry[f].lapsed => entry'[f].lapsed)
  BY <1>2, <1>3 DEF TypeOK
<1> QED BY <1>4 DEF Drifts, Drift, IsMade, OfferLapses, EntryRunsOut

LEMMA ExpireDrifts ==
  ASSUME TypeOK, NEW p \in Passes, ExpireStaleEntries(p)
  PROVE  Drifts
<1>1. \A e \in Entries :
        \/ entry'[e] = entry[e]
        \/ entry[e].state \in Active /\ entry'[e] = Closed(entry[e], "expired")
  BY DEF ExpireStaleEntries, TypeOK, IsActive
<1>2. \A e \in Entries : Closed(entry[e], "expired").state = "expired"
  BY DEF Closed, TypeOK, Entry
<1> QED BY <1>1, <1>2 DEF Drifts, Drift, IsMade, Active, Ended

-----------------------------------------------------------------------------
(* Calls in order *)

\* A row once made is never unmade, and a pass reads rows.
LEMMA MadeStays ==
  ASSUME MadeInOrder,
         \A e \in Entries : IsMade(e) => IsMade(e)',
         \A e, f \in Entries : ~IsMade(e) /\ IsMade(e)' /\ f < e => IsMade(f),
         TypeOK',
         \A p \in Passes : /\ \A s \in pass'[p].stale : s \in pass[p].stale \/ IsMade(s.id)'
                           /\ \A e \in pass'[p].queue : e \in pass[p].queue \/ IsMade(e)'
  PROVE  MadeInOrder'
<1>1. ASSUME NEW e \in Entries, NEW f \in Entries, f < e, IsMade(e)'
      PROVE  IsMade(f)'
  BY <1>1 DEF MadeInOrder
<1>2. ASSUME NEW p \in Passes
      PROVE  /\ \A s \in pass'[p].stale : IsMade(s.id)'
             /\ \A e \in pass'[p].queue : IsMade(e)'
  <2>1. pass'[p] \in Pass
    BY DEF TypeOK
  <2>2. /\ \A s \in pass'[p].stale : s.id \in Entries
        /\ \A e \in pass'[p].queue : e \in Entries
    BY <2>1 DEF Pass
  <2> QED BY <2>2 DEF MadeInOrder
<1> QED BY <1>1, <1>2 DEF MadeInOrder

LEMMA NextMade == CountInv /\ MadeInOrder /\ [Next]_vars => MadeInOrder'
<1> SUFFICES ASSUME CountInv, MadeInOrder, [Next]_vars PROVE MadeInOrder'
  OBVIOUS
<1>0. TypeOK /\ TypeOK' /\ pass \in [Passes -> Pass]
  BY NextCounts DEF CountInv, TypeOK
<1> DEFINE Reads == \A p \in Passes :
             /\ \A s \in pass'[p].stale : s \in pass[p].stale \/ IsMade(s.id)'
             /\ \A e \in pass'[p].queue : e \in pass[p].queue \/ IsMade(e)'
<1>1. ASSUME Drifts, Reads PROVE MadeInOrder'
  <2>1. \A e \in Entries : IsMade(e) => IsMade(e)'
    BY <1>1 DEF Drifts, Drift, Ended, IsMade
  <2> QED BY <1>0, <1>1, <2>1, MadeStays DEF Drifts, IsMade
<1>2. ASSUME UNCHANGED entry, Reads PROVE MadeInOrder'
  BY <1>0, <1>2, MadeStays DEF IsMade
<1>3. CASE Request \/ \E e \in Entries : OfferLapses(e) \/ EntryRunsOut(e)
  <2>1. Drifts /\ pass' = pass
    BY <1>0, <1>3, RequestDrifts, TimeDrifts
  <2> QED BY <1>1, <2>1
<1>4. ASSUME NEW p \in Passes, ExpireStaleEntries(p) PROVE MadeInOrder'
  <2>1. \A q \in Passes : pass'[q].stale = pass[q].stale /\ pass'[q].queue = pass[q].queue
    BY <1>0, <1>4 DEF ExpireStaleEntries, Step, Pass
  <2> QED BY <1>0, <1>1, <1>4, <2>1, ExpireDrifts
<1>5. ASSUME NEW p \in Passes, Start(p) \/ Rest(p) \/ ReadOffers(p), UNCHANGED entry PROVE MadeInOrder'
  <2>1. \A q \in Passes : pass'[q].stale \subseteq pass[q].stale /\ pass'[q].queue \subseteq pass[q].queue
    BY <1>0, <1>5 DEF Start, ReadOffers, Rest, Step, Pass, IdlePass
  <2> QED BY <1>2, <1>5, <2>1
<1>6. ASSUME NEW p \in Passes, ReadStale(p) PROVE MadeInOrder'
  <2> DEFINE Read == {[id |-> e, misses |-> entry[e].misses] : e \in {f \in Entries : Lapsed(f)}}
  <2>1. \A s \in Read : IsMade(s.id)
    BY DEF Lapsed, IsMade
  <2>2. /\ entry' = entry
        /\ \/ pass' = [pass EXCEPT ![p].pc = "reap", ![p].stale = Read]
           \/ pass' = [pass EXCEPT ![p].pc = "reap"]
    BY <1>6 DEF ReadStale, Step
  <2> HIDE DEF Read
  <2>3. \A q \in Passes : pass'[q].stale \in {pass[q].stale, Read} /\ pass'[q].queue = pass[q].queue
    BY <1>0, <2>2 DEF Pass
  <2> QED BY <1>2, <2>1, <2>2, <2>3 DEF IsMade
<1>7. ASSUME NEW p \in Passes, ReapOffer(p) PROVE MadeInOrder'
  <2>1. PICK s \in pass[p].stale :
          /\ pass' = [pass EXCEPT ![p].stale = @ \ {s}]
          /\ UNCHANGED entry \/ \E breach \in BOOLEAN : entry' = [entry EXCEPT ![s.id] = Reaped(s, breach)]
    BY <1>7 DEF ReapOffer
  <2>2. s.id \in Entries /\ IsMade(s.id) /\ \A breach \in BOOLEAN : Reaped(s, breach).state # "absent"
    BY ReapedRow DEF MadeInOrder
  <2>3. \A e \in Entries : IsMade(e) <=> IsMade(e)'
    BY <1>0, <2>1, <2>2 DEF TypeOK, IsMade
  <2>4. \A q \in Passes : pass'[q].stale \subseteq pass[q].stale /\ pass'[q].queue = pass[q].queue
    BY <1>0, <2>1 DEF Pass
  <2> QED BY <1>0, <2>3, <2>4, MadeStays
<1>8. ASSUME NEW p \in Passes, ReadQueue(p) PROVE MadeInOrder'
  <2>1. CASE pass' = [pass EXCEPT ![p].pc = "offers", ![p].queue = Queued] /\ entry' = entry
    <3>1. \A q \in Passes : pass'[q].stale = pass[q].stale /\ pass'[q].queue \in {pass[q].queue, Queued}
      BY <1>0, <2>1 DEF Pass
    <3> QED BY <1>2, <2>1, <3>1 DEF Queued, IsMade
  <2> QED BY <1>5, <1>8, <2>1 DEF ReadQueue
<1>9. ASSUME NEW p \in Passes, AutoAssign(p) PROVE MadeInOrder'
  <2>1. PICK e \in pass[p].queue, o \in Operators \ pass[p].busy, busy \in SUBSET (Operators \cup {None}) :
          /\ pass' = [pass EXCEPT ![p].queue = @ \ {e}, ![p].busy = busy]
          /\ \/ entry[e].state = "queued" /\ entry' = [entry EXCEPT ![e] = Offered(@, o, "ticker")]
             \/ UNCHANGED entry
    BY <1>0, <1>9, AssignStep
  <2>2. e \in Entries
    BY <1>0, <2>1 DEF Pass
  <2>3. Offered(entry[e], o, "ticker").state = "offered"
    BY <1>0, <2>2, NewRows DEF TypeOK
  <2>4. \A f \in Entries : IsMade(f) <=> IsMade(f)'
    BY <1>0, <2>1, <2>2, <2>3 DEF TypeOK, IsMade
  <2>5. \A q \in Passes : pass'[q].stale = pass[q].stale /\ pass'[q].queue \subseteq pass[q].queue
    BY <1>0, <2>1 DEF Pass
  <2> QED BY <1>0, <2>4, <2>5, MadeStays
<1>10. ASSUME NEW c \in Cores, Crash(c) PROVE MadeInOrder'
  <2>1. /\ entry' = entry
        /\ \A q \in Passes : pass'[q].stale \subseteq pass[q].stale /\ pass'[q].queue \subseteq pass[q].queue
    BY <1>0, <1>10 DEF Crash, IdlePass
  <2> QED BY <1>2, <2>1
<1>11. ASSUME NEW p \in Passes, PassStep(p) PROVE MadeInOrder'
  BY <1>11, <1>4, <1>5, <1>6, <1>7, <1>8, <1>9 DEF PassStep, Start, FinishPass, ReadOffers
<1>12. CASE UNCHANGED vars
  BY <1>2, <1>12 DEF vars
<1> QED BY <1>3, <1>10, <1>11, <1>12 DEF Next

-----------------------------------------------------------------------------
(* A sole ticker *)

\* Faults are counted, and a step after which there are none is no fault.
LEMMA NoFaultsYet ==
  ASSUME TypeOK, NoFault \/ Fault, faults' = 0
  PROVE  faults = 0 /\ ~Fault
BY CallAssumption DEF TypeOK, Fault, NoFault

\* Its passes are one at a time.
LEMMA OthersIdle ==
  ASSUME SoleTicker, OnePassPerCore, NEW p \in Passes, pass[p].pc # "idle" \/ ~passRunning[Home[p]]
  PROVE  \A q \in Passes : q # p => pass[q].pc = "idle"
BY DEF SoleTicker, OnePassPerCore

\* An idle pass has read nothing.
LEMMA IdleHolds == OnePassPerCore => \A p \in Passes : pass[p].pc = "idle" => ReadsHold(p)
  BY DEF OnePassPerCore, ReadsHold

LEMMA IdleHoldsNext ==
  OnePassPerCore' => \A p \in Passes : pass'[p].pc = "idle" => ReadsHold(p)'
  BY DEF OnePassPerCore, ReadsHold

\* So it is enough to look at the pass that steps.
LEMMA OneReads ==
  ASSUME SoleTicker, OnePassPerCore, OnePassPerCore', NEW p \in Passes,
         pass[p].pc # "idle" \/ ~passRunning[Home[p]],
         \A q \in Passes : q # p => pass'[q] = pass[q],
         ReadsHold(p)'
  PROVE  \A q \in Passes : ReadsHold(q)'
BY OthersIdle, IdleHoldsNext

\* What a drift leaves of the reads of a pass, and of the offers.
LEMMA DriftHolds ==
  ASSUME TypeOK, MadeInOrder, Drifts, faults' = 0 => faults = 0,
         NEW p \in Passes, pass'[p] = pass[p], ReadsHold(p)
  PROVE  ReadsHold(p)'
<1>1. pass[p] \in Pass /\ \A s \in pass[p].stale : s.id \in Entries
  BY DEF TypeOK, Pass
<1>2. ASSUME NEW s \in pass[p].stale PROVE (Lapsed(s.id) \/ entry[s.id].state \in Ended)'
  <2>1. Lapsed(s.id) \/ entry[s.id].state \in Ended
    BY DEF ReadsHold
  <2>2. Drift(entry[s.id], entry'[s.id])
    BY <1>1 DEF Drifts
  <2> QED BY <2>1, <2>2 DEF Lapsed, Drift, Active, Ended
<1>3. ASSUME pass[p].pc \in {"offers", "assign"}, faults' = 0,
             NEW e \in Queued' \ pass[p].queue, NEW f \in pass[p].queue
      PROVE  f < e
  <2>1. e \in Entries /\ f \in Entries /\ IsMade(f)
    BY <1>1, <1>3 DEF Queued, MadeInOrder, Pass
  <2>2. CASE e \in Queued
    BY <1>3, <2>2 DEF ReadsHold
  <2>3. CASE e \notin Queued
    <3>1. ~IsMade(e)
      BY <1>3, <2>1, <2>3 DEF Queued, Drifts, Drift, IsMade, Ended
    <3>2. ~(e < f) /\ e # f
      BY <2>1, <3>1 DEF MadeInOrder
    <3> QED BY <2>1, <3>2, CallAssumption DEF Entries
  <2> QED BY <2>2, <2>3
<1>4. ASSUME pass[p].pc = "assign", faults' = 0, NEW e \in Entries,
             entry'[e].state = "offered", entry'[e].ringer = "ticker"
      PROVE  entry'[e].offeredTo \in pass[p].busy
  <2>1. Drift(entry[e], entry'[e])
    BY DEF Drifts
  <2>2. /\ entry[e].state = "offered" /\ entry[e].ringer = "ticker"
        /\ entry'[e].offeredTo = entry[e].offeredTo
    BY <1>4, <2>1 DEF Drift, Ended
  <2> QED BY <1>4, <2>2 DEF ReadsHold
<1>5. /\ \A s \in pass'[p].stale : Lapsed(s.id)' \/ entry'[s.id].state \in Ended
      /\ pass'[p].pc \in {"offers", "assign"} /\ faults' = 0 =>
           \A e \in Queued' \ pass'[p].queue : \A f \in pass'[p].queue : f < e
      /\ pass'[p].pc = "assign" /\ faults' = 0 =>
           \A e \in Entries :
             entry'[e].state = "offered" /\ entry'[e].ringer = "ticker" => entry'[e].offeredTo \in pass'[p].busy
  BY <1>2, <1>3, <1>4
<1> QED BY <1>5, Zenon DEF ReadsHold

\* Offers that only go leave no operator with two.
LEMMA RingsDrift ==
  ASSUME RingsOneCallUnlessFaults, faults' = 0 => faults = 0,
         \A e \in Entries : entry'[e].state = "offered" /\ entry'[e].ringer = "ticker" =>
           /\ entry[e].state = "offered" /\ entry[e].ringer = "ticker"
           /\ entry[e].offeredTo = entry'[e].offeredTo
  PROVE  RingsOneCallUnlessFaults'
BY DEF RingsOneCallUnlessFaults

LEMMA DriftRings ==
  ASSUME RingsOneCallUnlessFaults, faults' = 0 => faults = 0, Drifts
  PROVE  RingsOneCallUnlessFaults'
<1>1. \A e \in Entries : entry'[e].state = "offered" /\ entry'[e].ringer = "ticker" =>
        /\ entry[e].state = "offered" /\ entry[e].ringer = "ticker"
        /\ entry[e].offeredTo = entry'[e].offeredTo
  BY DEF Drifts, Drift, Ended
<1> QED BY <1>1, RingsDrift

\* What an assignment does while nothing has failed: the oldest call it knows of
\* is offered to somebody it does not know to be busy, or is no longer queued.
LEMMA CleanAssign ==
  ASSUME TypeOK, NEW p \in Passes, AutoAssign(p), ~Fault
  PROVE  /\ pass[p].pc = "assign" /\ \A q \in Passes : q # p => pass'[q] = pass[q]
         /\ \E e \in pass[p].queue, o \in Operators \ pass[p].busy :
              /\ e \in Entries /\ \A f \in pass[p].queue : e <= f
              /\ pass'[p].pc = "assign" /\ pass'[p].queue = pass[p].queue \ {e}
              /\ pass'[p].stale = pass[p].stale
              /\ \A f \in Entries : f # e => entry'[f] = entry[f]
              /\ \/ /\ entry[e].state = "queued" /\ entry'[e].state = "offered"
                    /\ entry'[e].offeredTo = o
                    /\ pass'[p].busy = pass[p].busy \cup {o}
                 \/ /\ entry[e].state # "queued" /\ entry'[e] = entry[e]
                    /\ pass'[p].busy = pass[p].busy
<1>1. PICK e \in Oldest(pass[p].queue), o \in Operators \ pass[p].busy, busy \in SUBSET (Operators \cup {None}) :
        /\ pass' = [pass EXCEPT ![p].queue = @ \ {e}, ![p].busy = busy]
        /\ \/ /\ entry[e].state = "queued" /\ entry' = [entry EXCEPT ![e] = Offered(@, o, "ticker")]
              /\ busy = pass[p].busy \cup {o}
           \/ entry[e].state # "queued" /\ UNCHANGED entry /\ busy = pass[p].busy
  BY DEF AutoAssign, TypeOK, Pass
<1>2. pass[p].pc = "assign" /\ e \in pass[p].queue /\ e \in Entries /\ \A f \in pass[p].queue : e <= f
  BY <1>1 DEF AutoAssign, Oldest, TypeOK, Pass
<1>3. /\ pass'[p].pc = "assign" /\ pass'[p].queue = pass[p].queue \ {e} /\ pass'[p].busy = busy
      /\ pass'[p].stale = pass[p].stale
      /\ \A q \in Passes : q # p => pass'[q] = pass[q]
  BY <1>1, <1>2 DEF TypeOK, Pass
<1> DEFINE n == Offered(entry[e], o, "ticker")
<1>4. n.state = "offered" /\ n.offeredTo = o
  BY <1>2 DEF Offered, TypeOK, Entry
<1>5. \/ /\ entry[e].state = "queued" /\ entry' = [entry EXCEPT ![e] = n]
         /\ busy = pass[p].busy \cup {o}
      \/ entry[e].state # "queued" /\ UNCHANGED entry /\ busy = pass[p].busy
  BY <1>1
<1> HIDE DEF n
<1>6. /\ \A f \in Entries : f # e => entry'[f] = entry[f]
      /\ \/ /\ entry[e].state = "queued" /\ entry'[e].state = "offered"
            /\ entry'[e].offeredTo = o
            /\ pass'[p].busy = pass[p].busy \cup {o}
         \/ /\ entry[e].state # "queued" /\ entry'[e] = entry[e]
            /\ pass'[p].busy = pass[p].busy
  BY <1>2, <1>3, <1>4, <1>5 DEF TypeOK
<1> QED BY <1>2, <1>3, <1>6

LEMMA AssignHolds ==
  ASSUME TypeOK, OnePassPerCore, NEW p \in Passes, AutoAssign(p), RingsOneCallUnlessFaults, ReadsHold(p)
  PROVE  ReadsHold(p)' /\ RingsOneCallUnlessFaults'
<1>1. pass[p].pc = "assign" /\ pass[p].stale = {} /\ (NoFault \/ Fault)
  BY DEF AutoAssign, OnePassPerCore
<1>2. pass'[p].stale = {}
  <2>1. \E e, busy : pass' = [pass EXCEPT ![p].queue = @ \ {e}, ![p].busy = busy]
    BY DEF AutoAssign
  <2> QED BY <1>1, <2>1 DEF TypeOK, Pass
<1>3. CASE faults' # 0
  BY <1>2, <1>3 DEF ReadsHold, RingsOneCallUnlessFaults
<1>4. CASE faults' = 0
  <2>1. faults = 0 /\ ~Fault
    BY <1>1, <1>4, NoFaultsYet
  <2>2. PICK e \in pass[p].queue, o \in Operators \ pass[p].busy :
              /\ e \in Entries /\ \A f \in pass[p].queue : e <= f
              /\ pass'[p].pc = "assign" /\ pass'[p].queue = pass[p].queue \ {e}
              /\ \A f \in Entries : f # e => entry'[f] = entry[f]
              /\ \/ /\ entry[e].state = "queued" /\ entry'[e].state = "offered"
                    /\ entry'[e].offeredTo = o
                    /\ pass'[p].busy = pass[p].busy \cup {o}
                 \/ /\ entry[e].state # "queued" /\ entry'[e] = entry[e]
                    /\ pass'[p].busy = pass[p].busy
    BY <2>1, CleanAssign
  <2>3. \A f \in Entries : entry[f].state = "offered" /\ entry[f].ringer = "ticker" => entry[f].offeredTo \in pass[p].busy
    BY <1>1, <2>1 DEF ReadsHold
  <2>4. \A f \in Queued \ pass[p].queue : \A g \in pass[p].queue : g < f
    BY <1>1, <2>1 DEF ReadsHold
  <2>5. \A f \in Queued' \ pass'[p].queue : f \in Queued /\ f \notin pass[p].queue
    BY <2>2 DEF Queued
  <2>6. \A f \in Entries : entry'[f].state = "offered" /\ entry'[f].ringer = "ticker" => entry'[f].offeredTo \in pass'[p].busy
    BY <2>2, <2>3
  <2>7. ReadsHold(p)'
    <3>1. /\ \A s \in pass'[p].stale : Lapsed(s.id)' \/ entry'[s.id].state \in Ended
          /\ \A f \in Queued' \ pass'[p].queue : \A g \in pass'[p].queue : g < f
      BY <1>2, <2>2, <2>4, <2>5
    <3> QED BY <2>6, <3>1, Zenon DEF ReadsHold
  <2>8. RingsOneCallUnlessFaults'
    <3> SUFFICES ASSUME NEW f \in Entries, NEW g \in Entries,
                        entry'[f].state = "offered", entry'[f].ringer = "ticker",
                        entry'[g].state = "offered", entry'[g].ringer = "ticker",
                        entry'[f].offeredTo = entry'[g].offeredTo
                 PROVE  f = g
      BY DEF RingsOneCallUnlessFaults
    <3>1. CASE f # e /\ g # e
      BY <2>1, <2>2, <3>1 DEF RingsOneCallUnlessFaults
    <3>2. CASE f # e /\ g = e
      BY <2>1, <2>2, <2>3, <3>2 DEF RingsOneCallUnlessFaults
    <3>3. CASE f = e /\ g # e
      BY <2>1, <2>2, <2>3, <3>3 DEF RingsOneCallUnlessFaults
    <3> QED BY <3>1, <3>2, <3>3
  <2> QED BY <2>7, <2>8
<1> QED BY <1>3, <1>4

\* A reap changes only what it read, and to nothing that rings.
LEMMA ReapChanges ==
  ASSUME CountInv, NEW p \in Passes, ReapOffer(p)
  PROVE  \E s \in pass[p].stale :
           /\ s.id \in Entries /\ pass[p].pc = "reap"
           /\ pass'[p].pc = "reap" /\ pass'[p].stale = pass[p].stale \ {s}
           /\ \A q \in Passes : q # p => pass'[q] = pass[q]
           /\ \A e \in Entries : e # s.id => entry'[e] = entry[e]
           /\ entry'[s.id] = entry[s.id] \/ entry'[s.id].state \in {"queued", "missed"}
<1>0. TypeOK
  BY DEF CountInv
<1>1. PICK s \in pass[p].stale :
        /\ pass' = [pass EXCEPT ![p].stale = @ \ {s}]
        /\ UNCHANGED entry \/ \E breach \in BOOLEAN : entry' = [entry EXCEPT ![s.id] = Reaped(s, breach)]
  BY DEF ReapOffer
<1>2. s.id \in Entries /\ \A breach \in BOOLEAN : Reaped(s, breach).state \in {"queued", "missed"}
  BY ReapedRow
<1>3. /\ pass[p].pc = "reap" /\ pass'[p].pc = "reap" /\ pass'[p].stale = pass[p].stale \ {s}
      /\ \A q \in Passes : q # p => pass'[q] = pass[q]
  BY <1>0, <1>1 DEF ReapOffer, TypeOK, Pass
<1>4. /\ \A e \in Entries : e # s.id => entry'[e] = entry[e]
      /\ entry'[s.id] = entry[s.id] \/ entry'[s.id].state \in {"queued", "missed"}
  BY <1>0, <1>1, <1>2 DEF TypeOK
<1> QED BY <1>2, <1>3, <1>4

\* The pass of a sole ticker, step by step.
LEMMA PassHolds ==
  ASSUME CountInv, OnePassPerCore, OnePassPerCore', MadeInOrder, NEW p \in Passes, PassStep(p),
         SoleTicker, RingsOneCallUnlessFaults, \A q \in Passes : ReadsHold(q)
  PROVE  RingsOneCallUnlessFaults' /\ \A q \in Passes : ReadsHold(q)'
<1>0. TypeOK /\ pass \in [Passes -> Pass]
  BY DEF CountInv, TypeOK
<1>1. NoFault \/ Fault
  BY DEF PassStep, Start, ExpireStaleEntries, ReadStale, ReapOffer, ReadQueue, ReadOffers, AutoAssign,
         FinishPass, NoFault
<1>2. faults' = 0 => faults = 0 /\ ~Fault
  BY <1>0, <1>1, NoFaultsYet
<1>3. pass[p].pc # "idle" \/ ~passRunning[Home[p]]
  BY DEF PassStep, Start, ExpireStaleEntries, ReadStale, ReapOffer, ReadQueue, ReadOffers, AutoAssign, FinishPass
<1>4. ASSUME \A q \in Passes : q # p => pass'[q] = pass[q], ReadsHold(p)', RingsOneCallUnlessFaults'
      PROVE  RingsOneCallUnlessFaults' /\ \A q \in Passes : ReadsHold(q)'
  BY <1>3, <1>4, OneReads
\* Up to the reading of the queue there is nothing but the offers to reap.
<1>5. ASSUME pass'[p].pc \notin {"reap", "offers", "assign"} PROVE ReadsHold(p)'
  BY <1>5 DEF OnePassPerCore, ReadsHold
<1>6. UNCHANGED entry => RingsOneCallUnlessFaults'
  BY <1>2, RingsDrift
<1>7. CASE Start(p)
  <2>1. pass'[p].pc = "expire" /\ \A q \in Passes : q # p => pass'[q] = pass[q]
    BY <1>0, <1>7 DEF Start, Step, Pass
  <2> QED BY <1>4, <1>5, <1>6, <1>7, <2>1 DEF Start
<1>8. ASSUME Rest(p), UNCHANGED entry
      PROVE  RingsOneCallUnlessFaults' /\ \A q \in Passes : ReadsHold(q)'
  <2>1. pass'[p].pc = "idle" /\ \A q \in Passes : q # p => pass'[q] = pass[q]
    BY <1>0, <1>8 DEF Rest, IdlePass
  <2> QED BY <1>4, <1>5, <1>6, <1>8, <2>1
<1>9. CASE ExpireStaleEntries(p)
  <2>1. pass'[p].pc = "stale" /\ \A q \in Passes : q # p => pass'[q] = pass[q]
    BY <1>0, <1>9 DEF ExpireStaleEntries, Step, Pass
  <2>2. RingsOneCallUnlessFaults'
    BY <1>0, <1>2, <1>9, ExpireDrifts, DriftRings
  <2> QED BY <1>4, <1>5, <2>1, <2>2
<1>10. CASE ReadStale(p)
  <2> DEFINE Read == {[id |-> e, misses |-> entry[e].misses] : e \in {f \in Entries : Lapsed(f)}}
  <2>1. \A s \in Read : Lapsed(s.id)
    OBVIOUS
  <2>2. /\ entry' = entry /\ pass[p].stale = {}
        /\ \/ pass' = [pass EXCEPT ![p].pc = "reap", ![p].stale = Read]
           \/ pass' = [pass EXCEPT ![p].pc = "reap"]
    BY <1>10 DEF ReadStale, Step, OnePassPerCore
  <2> HIDE DEF Read
  <2>3. /\ pass'[p].pc = "reap" /\ pass'[p].stale \in {{}, Read}
        /\ \A q \in Passes : q # p => pass'[q] = pass[q]
    BY <1>0, <2>2 DEF Pass
  <2>4. \A s \in pass'[p].stale : Lapsed(s.id)'
    BY <2>1, <2>2, <2>3 DEF Lapsed
  <2>5. ReadsHold(p)'
    BY <2>3, <2>4, Zenon DEF ReadsHold
  <2> QED BY <1>4, <1>6, <2>2, <2>3, <2>5
<1>11. CASE ReapOffer(p)
  <2>1. PICK s \in pass[p].stale :
           /\ s.id \in Entries /\ pass[p].pc = "reap"
           /\ pass'[p].pc = "reap" /\ pass'[p].stale = pass[p].stale \ {s}
           /\ \A q \in Passes : q # p => pass'[q] = pass[q]
           /\ \A e \in Entries : e # s.id => entry'[e] = entry[e]
           /\ entry'[s.id] = entry[s.id] \/ entry'[s.id].state \in {"queued", "missed"}
    BY <1>11, ReapChanges
  <2>2. RingsOneCallUnlessFaults'
    <3>1. \A e \in Entries : entry'[e].state = "offered" => entry'[e] = entry[e]
      BY <2>1
    <3> QED BY <1>2, <3>1, RingsDrift
  <2>3. ASSUME NEW r \in pass'[p].stale PROVE Lapsed(r.id)' \/ entry'[r.id].state \in Ended
    <3>1. r \in pass[p].stale /\ r.id # s.id /\ r.id \in Entries
      BY <1>0, <2>1, <2>3 DEF OnePassPerCore, Pass
    <3>2. entry'[r.id] = entry[r.id]
      BY <2>1, <3>1
    <3> QED BY <3>1, <3>2 DEF ReadsHold, Lapsed
  <2>4. ReadsHold(p)'
    BY <2>1, <2>3, Zenon DEF ReadsHold
  <2> QED BY <1>4, <2>1, <2>2, <2>4
<1>12. CASE ReadQueue(p)
  <2>1. CASE pass' = [pass EXCEPT ![p].pc = "offers", ![p].queue = Queued] /\ entry' = entry /\ pass[p].stale = {}
    <3>1. /\ pass'[p].pc = "offers" /\ pass'[p].queue = Queued /\ pass'[p].stale = {}
          /\ \A q \in Passes : q # p => pass'[q] = pass[q]
      BY <1>0, <2>1 DEF Pass
    <3>2. Queued' = Queued
      BY <2>1 DEF Queued
    <3>3. ReadsHold(p)'
      BY <3>1, <3>2 DEF ReadsHold
    <3> QED BY <1>4, <1>6, <2>1, <3>1, <3>3
  <2> QED BY <1>8, <1>12, <2>1 DEF ReadQueue
<1>13. CASE ReadOffers(p)
  <2> DEFINE offered == {entry[e].offeredTo : e \in {f \in Entries : entry[f].state = "offered"}}
  <2>1. /\ entry' = entry /\ pass[p].pc = "offers" /\ pass[p].stale = {}
        /\ \/ pass' = [pass EXCEPT ![p].pc = "assign", ![p].busy = offered]
           \/ pass' = [pass EXCEPT ![p].pc = "assign"] /\ Fault
    BY <1>13 DEF ReadOffers, Step, OnePassPerCore
  <2>2. \A e \in Entries : entry[e].state = "offered" => entry[e].offeredTo \in offered
    OBVIOUS
  <2> HIDE DEF offered
  <2>3. /\ pass'[p].pc = "assign" /\ pass'[p].queue = pass[p].queue /\ pass'[p].stale = {}
        /\ faults' = 0 => pass'[p].busy = offered
        /\ \A q \in Passes : q # p => pass'[q] = pass[q]
    BY <1>0, <1>2, <2>1 DEF Pass
  <2>4. Queued' = Queued
    BY <2>1 DEF Queued
  <2>5. faults' = 0 => \A e \in Queued \ pass[p].queue : \A f \in pass[p].queue : f < e
    BY <1>2, <2>1 DEF ReadsHold
  <2>6. ReadsHold(p)'
    BY <2>1, <2>2, <2>3, <2>4, <2>5 DEF ReadsHold
  <2> QED BY <1>4, <1>6, <2>1, <2>3, <2>6
<1>14. CASE AutoAssign(p)
  <2>1. \A q \in Passes : q # p => pass'[q] = pass[q]
    <3>1. \E e, busy : pass' = [pass EXCEPT ![p].queue = @ \ {e}, ![p].busy = busy]
      BY <1>14 DEF AutoAssign
    <3> QED BY <1>0, <3>1
  <2> QED BY <1>0, <1>4, <1>14, <2>1, AssignHolds
<1>15. CASE FinishPass(p)
  BY <1>8, <1>15 DEF FinishPass
<1> QED BY <1>7, <1>9, <1>10, <1>11, <1>12, <1>13, <1>14, <1>15 DEF PassStep

LEMMA NextSole ==
  ASSUME Inv, OnePassPerCore', [Next]_vars, SoleTicker
  PROVE  RingsOneCallUnlessFaults' /\ \A q \in Passes : ReadsHold(q)'
<1>0. TypeOK /\ pass \in [Passes -> Pass] /\ CountInv /\ OnePassPerCore /\ MadeInOrder
      /\ RingsOneCallUnlessFaults /\ \A q \in Passes : ReadsHold(q)
  BY DEF Inv, CountInv, TypeOK
<1>1. CASE Request \/ \E e \in Entries : OfferLapses(e) \/ EntryRunsOut(e)
  <2>1. Drifts /\ UNCHANGED <<pass, faults>>
    BY <1>0, <1>1, RequestDrifts, TimeDrifts
  <2> QED BY <1>0, <2>1, DriftHolds, DriftRings
<1>2. ASSUME NEW p \in Passes, PassStep(p)
      PROVE  RingsOneCallUnlessFaults' /\ \A q \in Passes : ReadsHold(q)'
  BY <1>0, <1>2, PassHolds
<1>3. ASSUME NEW c \in Cores, Crash(c)
      PROVE  RingsOneCallUnlessFaults' /\ \A q \in Passes : ReadsHold(q)'
  <2>1. entry' = entry /\ Fault /\ \A q \in Passes : pass'[q] = pass[q] \/ pass'[q].pc = "idle"
    BY <1>0, <1>3 DEF Crash, IdlePass
  <2>2. faults' # 0
    BY <1>0, <2>1, NoFaultsYet
  <2>3. ASSUME NEW q \in Passes PROVE ReadsHold(q)'
    <3>1. CASE pass'[q].pc = "idle"
      BY <3>1, IdleHoldsNext
    <3>2. CASE pass'[q] = pass[q]
      BY <1>0, <2>1, <2>2, <3>2 DEF ReadsHold, Lapsed
    <3> QED BY <2>1, <3>1, <3>2
  <2> QED BY <2>2, <2>3 DEF RingsOneCallUnlessFaults
<1>4. CASE UNCHANGED vars
  <2>1. UNCHANGED <<entry, pass, faults>>
    BY <1>4 DEF vars
  <2>2. RingsOneCallUnlessFaults'
    BY <1>0, <2>1 DEF RingsOneCallUnlessFaults
  <2>3. \A q \in Passes : ReadsHold(q)'
    BY <1>0, <2>1 DEF ReadsHold, Lapsed, Queued
  <2> QED BY <2>2, <2>3
<1> QED BY <1>1, <1>2, <1>3, <1>4 DEF Next

-----------------------------------------------------------------------------
(* The theorems *)

LEMMA InitHolds == Init => Inv
<1> SUFFICES ASSUME Init PROVE Inv
  OBVIOUS
<1>1. \A p \in Passes : pass[p].pc = "idle" /\ pass[p].stale = {} /\ pass[p].queue = {}
  BY DEF Init, IdlePass
<1>2. \A e \in Entries : entry[e].state = "absent"
  BY DEF Init, NewEntry
<1>3. CountInv /\ OnePassPerCore /\ MadeInOrder
  BY <1>1, <1>2, InitCounts DEF OnePassPerCore, MadeInOrder, IsMade
<1>4. RingsOneCallUnlessFaults /\ \A p \in Passes : ReadsHold(p)
  BY <1>1, <1>2 DEF RingsOneCallUnlessFaults, ReadsHold
<1> QED BY <1>3, <1>4 DEF Inv

LEMMA NextKeeps == Inv /\ [Next]_vars => Inv'
<1> SUFFICES ASSUME Inv, [Next]_vars PROVE Inv'
  OBVIOUS
<1>1. CountInv' /\ OnePassPerCore' /\ MadeInOrder'
  BY NextCounts, NextPasses, NextMade DEF Inv
<1>2. SoleTicker => RingsOneCallUnlessFaults' /\ \A p \in Passes : ReadsHold(p)'
  BY <1>1, NextSole
<1> QED BY <1>1, <1>2 DEF Inv, SoleTicker

\* Types, bounded rings (maxMisses of reapStaleOffers), bounded reads and true
\* answers hold in every state; each Core has one pass under way; and what the
\* pass of a sole ticker has read still holds.
THEOREM InvHolds == Spec => []Inv
<1> QED BY InitHolds, NextKeeps, PTL DEF Spec

\* Who was told of an end of the call was told the truth, for good, unless
\* reapStaleOffers overtook him.
THEOREM AnswersAreTrue == Spec => []ToldIsTrue
<1>1. Inv => ToldIsTrue
  BY DEF Inv, CountInv
<1> QED BY <1>1, InvHolds, PTL

\* One Core's ticker does not ring an operator for two calls at once, unless a
\* statement failed: autoAssignWorkspace counts its own offers as it makes them.
THEOREM OneCallAtATime ==
  ASSUME SoleTicker
  PROVE  Spec => []RingsOneCallUnlessFaults
<1>1. Inv => RingsOneCallUnlessFaults
  BY DEF Inv
<1> QED BY <1>1, InvHolds, PTL

\* An offer is taken from its operator before its time only by an end of the call,
\* as long as one Core reaps: its pass is the only one that may have read the row.
THEOREM OffersStay ==
  ASSUME SoleTicker
  PROVE  Spec => OffersLast
<1> DEFINE Stays(e) ==
      entry[e].state = "offered" /\ ~entry[e].lapsed =>
        \/ entry'[e].state = "offered" /\ entry'[e].offeredTo = entry[e].offeredTo
        \/ entry'[e].state \in Ended \ {"missed"}
<1>1. Inv /\ [Next]_vars => \A e \in Entries : Stays(e)
  <2> SUFFICES ASSUME Inv, [Next]_vars, NEW e \in Entries, entry[e].state = "offered", ~entry[e].lapsed
               PROVE  Stays(e)
    OBVIOUS
  <2>0. CountInv /\ TypeOK /\ \A p \in Passes : ReadsHold(p)
    BY DEF Inv, CountInv
  <2>1. ASSUME Drifts PROVE Stays(e)
    BY <2>1 DEF Drifts, Drift
  <2>2. ASSUME NEW p \in Passes, ReapOffer(p) PROVE Stays(e)
    <3>1. PICK s \in pass[p].stale :
            /\ \A f \in Entries : f # s.id => entry'[f] = entry[f]
      BY <2>0, <2>2, ReapChanges
    <3>2. Lapsed(s.id) \/ entry[s.id].state \in Ended
      BY <2>0 DEF ReadsHold
    <3>3. e # s.id
      BY <3>2 DEF Lapsed, Ended
    <3> QED BY <3>1, <3>3
  <2>3. ASSUME NEW p \in Passes, AutoAssign(p) PROVE Stays(e)
    <3>1. PICK f \in pass[p].queue :
            entry' = entry \/ \E n : entry[f].state = "queued" /\ entry' = [entry EXCEPT ![f] = n]
      BY <2>0, <2>3, AssignStep, Zenon
    <3> QED BY <2>0, <3>1 DEF TypeOK
  <2>4. CASE UNCHANGED entry
    BY <2>4
  <2>5. ASSUME NEW p \in Passes, PassStep(p) PROVE Stays(e)
    BY <2>0, <2>1, <2>2, <2>3, <2>4, <2>5, ExpireDrifts
       DEF PassStep, Start, ReadStale, ReadQueue, ReadOffers, FinishPass
  <2>6. CASE Request \/ \E f \in Entries : OfferLapses(f) \/ EntryRunsOut(f)
    BY <2>0, <2>1, <2>6, RequestDrifts, TimeDrifts
  <2>7. CASE (\E c \in Cores : Crash(c)) \/ UNCHANGED vars
    BY <2>4, <2>7 DEF Crash, vars
  <2> QED BY <2>5, <2>6, <2>7 DEF Next
<1>2. Inv /\ [Next]_vars => [\A e \in Entries : Stays(e)]_vars
  BY <1>1
<1> QED BY <1>2, InvHolds, PTL DEF Spec, OffersLast

\* The ticker of one Core offers calls in the order they came in, unless an offer
\* failed: what is queued now and was not when it read the queue came later.
THEOREM OldestFirst ==
  ASSUME SoleTicker
  PROVE  Spec => FirstComeFirstServed
<1> DEFINE InTurn(e, f) ==
      /\ entry[e].state = "queued" /\ entry[f].state = "queued"
      /\ entry'[f].state = "offered" /\ entry'[f].ringer = "ticker"
      /\ e < f
      => faults' > 0
<1>1. Inv /\ [Next]_vars => \A e, f \in Entries : InTurn(e, f)
  <2> SUFFICES ASSUME Inv, [Next]_vars, NEW e \in Entries, NEW f \in Entries,
                      entry[e].state = "queued", entry[f].state = "queued",
                      entry'[f].state = "offered", entry'[f].ringer = "ticker", e < f
               PROVE  faults' > 0
    OBVIOUS
  <2>0. CountInv /\ TypeOK /\ TypeOK' /\ \A p \in Passes : ReadsHold(p)
    BY NextCounts DEF Inv, CountInv
  <2>1. ~Drifts /\ entry' # entry
    BY DEF Drifts, Drift, Ended
  <2>2. ASSUME NEW p \in Passes, AutoAssign(p) PROVE faults' > 0
    <3> SUFFICES ASSUME faults' = 0 PROVE FALSE
      BY <2>0, CallAssumption DEF TypeOK
    <3>1. faults = 0 /\ ~Fault
      BY <2>0, <2>2, NoFaultsYet DEF AutoAssign
    <3>2. PICK g \in pass[p].queue :
            /\ pass[p].pc = "assign"
            /\ \A h \in pass[p].queue : g <= h
            /\ \A h \in Entries : h # g => entry'[h] = entry[h]
      BY <2>0, <2>2, <3>1, CleanAssign
    <3>3. f = g
      BY <3>2
    <3>4. e \notin pass[p].queue
      BY <3>2, <3>3, CallAssumption DEF Entries
    <3>5. f < e
      BY <2>0, <3>1, <3>2, <3>3, <3>4 DEF ReadsHold, Queued
    <3> QED BY <3>5, CallAssumption DEF Entries
  <2>3. ASSUME NEW p \in Passes, ReapOffer(p) PROVE FALSE
    <3>1. PICK s \in pass[p].stale :
            /\ \A g \in Entries : g # s.id => entry'[g] = entry[g]
            /\ entry'[s.id] = entry[s.id] \/ entry'[s.id].state \in {"queued", "missed"}
      BY <2>0, <2>3, ReapChanges
    <3> QED BY <3>1
  <2>4. ASSUME NEW p \in Passes, PassStep(p) PROVE faults' > 0
    BY <2>0, <2>1, <2>2, <2>3, <2>4, ExpireDrifts
       DEF PassStep, Start, ReadStale, ReadQueue, ReadOffers, FinishPass
  <2>5. ~(Request \/ \E g \in Entries : OfferLapses(g) \/ EntryRunsOut(g))
    BY <2>0, <2>1, RequestDrifts, TimeDrifts
  <2>6. ~((\E c \in Cores : Crash(c)) \/ UNCHANGED vars)
    BY <2>1 DEF Crash, vars
  <2> QED BY <2>4, <2>5, <2>6 DEF Next
<1>2. Inv /\ [Next]_vars => [\A e, f \in Entries : InTurn(e, f)]_vars
  BY <1>1
<1> QED BY <1>2, InvHolds, PTL DEF Spec, FirstComeFirstServed
=============================================================================
