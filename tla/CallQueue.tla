----------------------------- MODULE CallQueue ------------------------------
(***************************************************************************)
(* Visitors waiting for an operator (server/services/calls/queue.ts) and   *)
(* the ticker that rings operators for them (calls/queueTicker.ts), on     *)
(* every Core.  Entries of the chat widget only: those of the call centre  *)
(* share the table but are settled by its own handlers.                    *)
(*                                                                         *)
(* A pass of the ticker is one statement per step: requests of visitors    *)
(* and operators, and passes of other Cores, come between any two.         *)
(* Of routing only this is kept: whom it finds eligible is any operator    *)
(* (their availability is another table, cached for five seconds).  Calls  *)
(* are of one media type, and of priority 0, which enqueueCall gives to    *)
(* every call of the chat widget: what is left of their order is age.      *)
(***************************************************************************)
EXTENDS Integers

CONSTANTS
  MaxEntries, \* bound: entries made
  Visitors,   \* a visitor's session and channel
  Operators,
  Cores,      \* server processes
  Passes,     \* bound: passes under way at once, over all Cores
  Home,       \* Home[p]: the Core whose timer starts pass p
  MaxMisses,  \* maxMisses
  MaxFaults,  \* bound: failed statements, lost answers, crashes
  None        \* no operator, no visitor

ASSUME CallAssumption ==
  /\ MaxEntries \in Nat
  /\ Home \in [Passes -> Cores]
  /\ MaxMisses \in Nat \ {0}
  /\ MaxFaults \in Nat
  /\ None \notin Operators \cup Visitors

VARIABLES
  entry,        \* entry[e]: the row
  pass,         \* pass[p]: one pass of the ticker
  passRunning,  \* passRunning[c]
  told,         \* history: told[e], the ends a caller was told he had made
  overtaken,    \* history: entries that reapStaleOffers moved from a state it
                \* had not read
  faults

\* Entries in the order of created_at.
Entries == 1..MaxEntries

vars == <<entry, pass, passRunning, told, overtaken, faults>>

Active == {"queued", "offered"}
Ended == {"accepted", "cancelled", "expired", "missed", "callback_requested"}

\* lapsed: last_offer_expires_at is over; over: expires_at is.  ringer (history)
\* made the offer.
Entry == [state: Active \cup Ended \cup {"absent"}, visitor: Visitors \cup {None},
          offeredTo: Operators \cup {None}, misses: 0..MaxMisses,
          lapsed: BOOLEAN, over: BOOLEAN, ringer: {"ticker", "operator"}]
NewEntry == [state |-> "absent", visitor |-> None, offeredTo |-> None, misses |-> 0,
             lapsed |-> FALSE, over |-> FALSE, ringer |-> "ticker"]

\* A row that is not offered keeps its last offer at most as a record: nothing
\* reads it again.
Closed(n, state) ==
  [n EXCEPT !.state = state, !.offeredTo = None, !.lapsed = FALSE, !.ringer = "ticker"]

\* stale: what reapStaleOffers read; queue and busy: what autoAssignWorkspace did.
Pass == [pc: {"idle", "expire", "stale", "reap", "offers", "assign"},
         stale: SUBSET [id: Entries, misses: 0..MaxMisses],
         queue: SUBSET Entries, busy: SUBSET (Operators \cup {None})]
IdlePass == [pc |-> "idle", stale |-> {}, queue |-> {}, busy |-> {}]

IsActive(e) == entry[e].state \in Active

Init ==
  /\ entry = [e \in Entries |-> NewEntry]
  /\ pass = [p \in Passes |-> IdlePass]
  /\ passRunning = [c \in Cores |-> FALSE]
  /\ told = [e \in Entries |-> {}]
  /\ overtaken = {}
  /\ faults = 0

Fault == faults < MaxFaults /\ faults' = faults + 1
NoFault == UNCHANGED faults

-----------------------------------------------------------------------------
(* Requests.                                                                 *)

\* A visitor with an active entry is given that one; should the look miss it,
\* the unique index on active entries refuses the insert.
EnqueueCall(e, v) ==
  /\ entry[e].state = "absent"
  /\ \A f \in 1..(e - 1) : entry[f].state # "absent"
  /\ \A f \in Entries : entry[f].visitor = v => ~IsActive(f)
  /\ entry' = [entry EXCEPT ![e] = [NewEntry EXCEPT !.state = "queued", !.visitor = v]]
  /\ UNCHANGED <<pass, passRunning, told, overtaken, faults>>

Offered(n, o, ringer) ==
  [n EXCEPT !.state = "offered", !.offeredTo = o, !.lapsed = FALSE, !.ringer = ringer]

\* An operator takes an offer from the list, for himself.
OfferSelf(e, o) ==
  /\ entry[e].state = "queued"
  /\ entry' = [entry EXCEPT ![e] = Offered(@, o, "operator")]
  /\ UNCHANGED <<pass, passRunning, told, overtaken, faults>>

\* Mutant: the update does not look at the state.
EndAnyState(e, end) ==
  /\ entry[e].state # "absent"
  /\ entry' = [entry EXCEPT ![e] = Closed(@, end)]
  /\ told' = [told EXCEPT ![e] = @ \cup {end}]
  /\ UNCHANGED <<pass, passRunning, overtaken, faults>>

\* acceptEntry (whoever was offered the call), cancelEntry by visitor or
\* operator, markEntryAsCallback.
End(e, end) ==
  /\ IsActive(e)
  /\ entry' = [entry EXCEPT ![e] = Closed(@, end)]
  /\ told' = [told EXCEPT ![e] = @ \cup {end}]
  /\ UNCHANGED <<pass, passRunning, overtaken, faults>>

Request ==
  \/ \E e \in Entries, v \in Visitors : EnqueueCall(e, v)
  \/ \E e \in Entries, o \in Operators : OfferSelf(e, o)
  \/ \E e \in Entries, end \in {"accepted", "cancelled", "callback_requested"} : End(e, end)

-----------------------------------------------------------------------------
(* Time.                                                                     *)

OfferLapses(e) ==
  /\ entry[e].state = "offered" /\ ~entry[e].lapsed
  /\ entry' = [entry EXCEPT ![e].lapsed = TRUE]
  /\ UNCHANGED <<pass, passRunning, told, overtaken, faults>>

EntryRunsOut(e) ==
  /\ IsActive(e) /\ ~entry[e].over
  /\ entry' = [entry EXCEPT ![e].over = TRUE]
  /\ UNCHANGED <<pass, passRunning, told, overtaken, faults>>

-----------------------------------------------------------------------------
(* The ticker.                                                               *)

Step(p, pc) == pass' = [pass EXCEPT ![p].pc = pc]

\* Mutant: passes stack up.
StartStacked(p) ==
  /\ pass[p].pc = "idle"
  /\ \E e \in Entries : IsActive(e)
  /\ Step(p, "expire")
  /\ passRunning' = [passRunning EXCEPT ![Home[p]] = TRUE]
  /\ UNCHANGED <<entry, told, overtaken, faults>>

\* A pass with nothing active (hasActiveEntries) would change nothing.
Start(p) ==
  /\ pass[p].pc = "idle"
  /\ ~passRunning[Home[p]]
  /\ \E e \in Entries : IsActive(e)
  /\ Step(p, "expire")
  /\ passRunning' = [passRunning EXCEPT ![Home[p]] = TRUE]
  /\ UNCHANGED <<entry, told, overtaken, faults>>

Rest(p) ==
  /\ pass' = [pass EXCEPT ![p] = IdlePass]
  /\ passRunning' = [passRunning EXCEPT ![Home[p]] = FALSE]

\* Mutant: only entries nobody is rung for run out.
ExpireQueued(p) ==
  /\ pass[p].pc = "expire"
  /\ \/ /\ entry' = [e \in Entries |->
              IF entry[e].state = "queued" /\ entry[e].over
                THEN Closed(entry[e], "expired") ELSE entry[e]]
        /\ NoFault
     \/ UNCHANGED entry /\ Fault
  /\ Step(p, "stale")
  /\ UNCHANGED <<passRunning, told, overtaken>>

\* One statement for all entries.
ExpireStaleEntries(p) ==
  /\ pass[p].pc = "expire"
  /\ \/ /\ entry' = [e \in Entries |->
              IF IsActive(e) /\ entry[e].over
                THEN Closed(entry[e], "expired") ELSE entry[e]]
        /\ NoFault
     \/ UNCHANGED entry /\ Fault
  /\ Step(p, "stale")
  /\ UNCHANGED <<passRunning, told, overtaken>>

Lapsed(e) == entry[e].state = "offered" /\ entry[e].lapsed

ReadStale(p) ==
  /\ pass[p].pc = "stale"
  /\ \/ /\ pass' = [pass EXCEPT ![p].pc = "reap",
                      ![p].stale = {[id |-> e, misses |-> entry[e].misses] :
                                      e \in {f \in Entries : Lapsed(f)}}]
        /\ NoFault
     \/ Step(p, "reap") /\ Fault
  /\ UNCHANGED <<entry, passRunning, told, overtaken>>

\* Mutant: one more ring than maxMisses.
GivesUpLate(misses, breach) == misses > MaxMisses \/ breach

\* breach: the entry is older than queue_max_wait_seconds.
GivesUp(misses, breach) == misses >= MaxMisses \/ breach

\* The update by id alone, decided on what was read.
Reaped(s, breach) ==
  [Closed(entry[s.id], IF GivesUp(s.misses + 1, breach) THEN "missed" ELSE "queued")
     EXCEPT !.misses = s.misses + 1]

\* The unique index: an entry that is ended cannot come back beside a newer one
\* of its visitor.
Refused(s, breach) ==
  /\ ~GivesUp(s.misses + 1, breach)
  /\ \E f \in Entries \ {s.id} : entry[f].visitor = entry[s.id].visitor /\ IsActive(f)

ReapOffer(p) ==
  /\ pass[p].pc = "reap"
  /\ \E s \in pass[p].stale :
       /\ pass' = [pass EXCEPT ![p].stale = @ \ {s}]
       /\ \/ \E breach \in BOOLEAN :
               /\ ~Refused(s, breach)
               /\ entry' = [entry EXCEPT ![s.id] = Reaped(s, breach)]
               /\ overtaken' = IF Lapsed(s.id) THEN overtaken ELSE overtaken \cup {s.id}
               /\ NoFault
          \/ Refused(s, FALSE) /\ UNCHANGED <<entry, overtaken>> /\ NoFault
          \/ UNCHANGED <<entry, overtaken>> /\ Fault
  /\ UNCHANGED <<passRunning, told>>

Queued == {e \in Entries : entry[e].state = "queued"}

ReadQueue(p) ==
  /\ pass[p].pc = "reap"
  /\ pass[p].stale = {}
  /\ \/ /\ Queued # {} /\ NoFault
        /\ pass' = [pass EXCEPT ![p].pc = "offers", ![p].queue = Queued]
        /\ UNCHANGED passRunning
     \/ Queued = {} /\ NoFault /\ Rest(p)
     \/ Fault /\ Rest(p)
  /\ UNCHANGED <<entry, told, overtaken>>

\* Mutant: offers of earlier ticks are not looked at.
ReadNoOffers(p) ==
  /\ pass[p].pc = "offers"
  /\ Step(p, "assign")
  /\ UNCHANGED <<entry, passRunning, told, overtaken, faults>>

\* A failed read is taken for no offers.
ReadOffers(p) ==
  /\ pass[p].pc = "offers"
  /\ \/ /\ pass' = [pass EXCEPT ![p].pc = "assign",
                      ![p].busy = {entry[e].offeredTo :
                                     e \in {f \in Entries : entry[f].state = "offered"}}]
        /\ NoFault
     \/ Step(p, "assign") /\ Fault
  /\ UNCHANGED <<entry, passRunning, told, overtaken>>

\* Mutant: the youngest first.
Youngest(S) == {e \in S : \A f \in S : f <= e}

Oldest(S) == {e \in S : \A f \in S : e <= f}

\* The next entry to the next operator; an offer that fails, or whose answer is
\* lost, leaves the operator for the entry after it.
AutoAssign(p) ==
  /\ pass[p].pc = "assign"
  /\ \E e \in Oldest(pass[p].queue), o \in Operators \ pass[p].busy :
       LET Then(busy) ==
             pass' = [pass EXCEPT ![p].queue = @ \ {e}, ![p].busy = busy]
       IN
       \/ /\ entry[e].state = "queued"
          /\ entry' = [entry EXCEPT ![e] = Offered(@, o, "ticker")]
          /\ \/ Then(pass[p].busy \cup {o}) /\ NoFault
             \/ Then(pass[p].busy) /\ Fault
       \/ entry[e].state # "queued" /\ UNCHANGED entry /\ Then(pass[p].busy) /\ NoFault
       \/ UNCHANGED entry /\ Then(pass[p].busy) /\ Fault
  /\ UNCHANGED <<passRunning, told, overtaken>>

\* Nobody (else) is eligible, or the queue is done.
FinishPass(p) ==
  /\ pass[p].pc = "assign"
  /\ Rest(p)
  /\ UNCHANGED <<entry, told, overtaken, faults>>

Crash(c) ==
  /\ passRunning[c]
  /\ Fault
  /\ pass' = [p \in Passes |-> IF Home[p] = c THEN IdlePass ELSE pass[p]]
  /\ passRunning' = [passRunning EXCEPT ![c] = FALSE]
  /\ UNCHANGED <<entry, told, overtaken>>

PassStep(p) ==
  \/ Start(p) \/ ExpireStaleEntries(p) \/ ReadStale(p) \/ ReapOffer(p)
  \/ ReadQueue(p) \/ ReadOffers(p) \/ AutoAssign(p) \/ FinishPass(p)

Next ==
  \/ Request
  \/ \E e \in Entries : OfferLapses(e) \/ EntryRunsOut(e)
  \/ \E p \in Passes : PassStep(p)
  \/ \E c \in Cores : Crash(c)

Spec == Init /\ [][Next]_vars

\* A Core's timer starts passes and its statements answer or fail; time passes.
Fairness ==
  /\ \A c \in Cores : WF_vars(\E p \in Passes : Home[p] = c /\ PassStep(p))
  /\ \A e \in Entries : WF_vars(EntryRunsOut(e))

FairSpec == Spec /\ Fairness
-----------------------------------------------------------------------------
TypeOK ==
  /\ entry \in [Entries -> Entry]
  /\ pass \in [Passes -> Pass]
  /\ passRunning \in [Cores -> BOOLEAN]
  /\ told \in [Entries -> SUBSET Ended]
  /\ overtaken \subseteq Entries
  /\ faults \in 0..MaxFaults

\* A call stops cycling: what still rings has rung for less than maxMisses
\* offers in vain, whatever the overlapping passes made of the count.
RingsAreBounded == \A e \in Entries : IsActive(e) => entry[e].misses < MaxMisses

\* The same of the counts a pass has read.
ReadsAreBounded == \A p \in Passes : \A s \in pass[p].stale : s.misses < MaxMisses

\* Who was told that he has accepted, cancelled or turned the call into a
\* callback was told the truth, and nobody was told anything else: the row is
\* still what he made it, unless a reap has overtaken it.
ToldIsTrue ==
  \A e \in Entries \ overtaken : told[e] # {} => told[e] = {entry[e].state}

\* Inductive, however many Cores there are.
CountInv == TypeOK /\ RingsAreBounded /\ ReadsAreBounded /\ ToldIsTrue

\* A Core has one pass under way, and what it has read to reap is of this pass.
OnePassPerCore ==
  /\ \A p \in Passes :
       /\ pass[p].pc # "idle" => passRunning[Home[p]]
       /\ pass[p].pc # "reap" => pass[p].stale = {}
       /\ \A r, s \in pass[p].stale : r.id = s.id => r = s
  /\ \A p, q \in Passes :
       Home[p] = Home[q] /\ pass[p].pc # "idle" /\ pass[q].pc # "idle" => p = q

\* Calls are made in their order, and a pass has read none that was not made.
IsMade(e) == entry[e].state # "absent"
MadeInOrder ==
  /\ \A e, f \in Entries : f < e /\ IsMade(e) => IsMade(f)
  /\ \A p \in Passes : /\ \A s \in pass[p].stale : IsMade(s.id)
                       /\ \A e \in pass[p].queue : IsMade(e)

\* One Core's ticker does not ring an operator for two calls at once, unless a
\* statement failed.
RingsOneCallUnlessFaults ==
  faults = 0 =>
    \A e, f \in Entries :
      /\ entry[e].state = "offered" /\ entry[e].ringer = "ticker"
      /\ entry[f].state = "offered" /\ entry[f].ringer = "ticker"
      /\ entry[e].offeredTo = entry[f].offeredTo
      => e = f

SoleTicker == \A p, q \in Passes : Home[p] = Home[q]

\* What the pass of a sole ticker has read still holds when it is used: offers to
\* reap have lapsed, unless their call has ended; only operators known to be busy
\* are rung for; and no call waits that is older than those it will assign.
ReadsHold(p) ==
  /\ \A s \in pass[p].stale : Lapsed(s.id) \/ entry[s.id].state \in Ended
  /\ pass[p].pc \in {"offers", "assign"} /\ faults = 0 =>
       \A e \in Queued \ pass[p].queue : \A f \in pass[p].queue : f < e
  /\ pass[p].pc = "assign" /\ faults = 0 =>
       \A e \in Entries :
         entry[e].state = "offered" /\ entry[e].ringer = "ticker" => entry[e].offeredTo \in pass[p].busy

\* Inductive.
Inv ==
  /\ CountInv /\ OnePassPerCore /\ MadeInOrder
  /\ SoleTicker => RingsOneCallUnlessFaults /\ \A p \in Passes : ReadsHold(p)

\* An operator is left the time of his offer: only an end of the call takes it
\* from him before it has lapsed, not the queue, a reap, or another operator.
OffersLast ==
  [][\A e \in Entries :
       entry[e].state = "offered" /\ ~entry[e].lapsed =>
         \/ entry'[e].state = "offered" /\ entry'[e].offeredTo = entry[e].offeredTo
         \/ entry'[e].state \in Ended \ {"missed"}]_vars

\* The ticker rings for calls in the order they came in: not while an older one
\* is queued, unless the offer of that one failed.
FirstComeFirstServed ==
  [][\A e, f \in Entries :
       /\ entry[e].state = "queued" /\ entry[f].state = "queued"
       /\ entry'[f].state = "offered" /\ entry'[f].ringer = "ticker"
       /\ e < f
       => faults' > 0]_vars

\* Every call ends, whether or not an operator answers, and comes to rest: the
\* reaps that overtake an end do not do so for ever.
EveryCallRests == \A e \in Entries : <>[](~IsActive(e))

\* The header's state machine: no way leads out of `accepted'.
AcceptedStays ==
  [][\A e \in Entries : entry[e].state = "accepted" => entry'[e].state = "accepted"]_vars
=============================================================================
