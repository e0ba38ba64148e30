---------------------- MODULE WorkspaceDeletionProofs -----------------------
(***************************************************************************)
(* For any number of uploads, storages and workers, and any times that the *)
(* grace period suffices for: rows go last, and what goes before them is   *)
(* everything.                                                             *)
(***************************************************************************)
EXTENDS WorkspaceDeletion, TLAPS

-----------------------------------------------------------------------------
(* Uploads *)

\* LeaseCovers and NothingPending of upload w, should its row be n.
SentRow(n) == \E s \in Scopes : n.req[s] = "sent"
CoveredRow(n) ==
  /\ n.pc \in {"primary", "mirrors"} => n.age <= PutTimeout
  /\ SentRow(n) \/ n.pc \in {"acquired", "primary", "mirrors"} =>
       n.swallowed \/ (n.row /\ n.leaseAge <= Within(n))
PendingRow(w, n) ==
  /\ n.pc \in {"idle", "acquired"} => ~SentRow(n)
  /\ n.pc \in {"idle", "acquired", "primary", "mirrors"} => ~n.swallowed
  /\ n.pc = "primary" => \A s \in Scopes \ {Primary[w]} : n.req[s] # "sent"
  /\ n.pc \in {"confirm", "release"} /\ SentRow(n) => n.swallowed
GoodRow(w, n) == n \in Writer /\ CoveredRow(n) /\ PendingRow(w, n)
CountsRow(n) == n.row /\ n.leaseAge < Lease + Grace

LEMMA FaultCounts ==
  ASSUME LeaseTypeOK, Fault \/ NoFault
  PROVE  faults' \in 0..MaxFaults /\ (faults > 0 => faults' > 0)
BY LeaseAssumption DEF LeaseTypeOK, Fault, NoFault

\* What SweepInv says of one upload.
LEMMA RowsAreGood ==
  ASSUME SweepInv, NEW w \in Writers
  PROVE  GoodRow(w, writer[w])
<1>1. writer[w] \in Writer
  BY DEF SweepInv, TypeOK, LeaseTypeOK
<1>2. Sent(w) <=> SentRow(writer[w])
  BY DEF Sent, SentRow
<1>3. CoveredRow(writer[w])
  BY <1>2 DEF SweepInv, LeaseCovers, InPut, CoveredRow
<1>4. PendingRow(w, writer[w])
  BY <1>2 DEF SweepInv, NothingPending, PendingRow
<1> QED BY <1>1, <1>3, <1>4 DEF GoodRow

LEMMA GoodRowsCover ==
  ASSUME \A w \in Writers : GoodRow(w, writer[w])
  PROVE  LeaseCovers /\ NothingPending
BY DEF GoodRow, CoveredRow, PendingRow, SentRow, LeaseCovers, NothingPending, Sent, InPut

LEMMA AgesAreNumbers ==
  ASSUME NEW n \in Writer
  PROVE  /\ n.age \in Nat /\ n.age <= PutTimeout + Late /\ n.leaseAge \in Nat
         /\ {Lease, Grace, PutTimeout, Late} \subseteq Nat
BY LeaseAssumption DEF Writer

\* What is still under way when no lease counts was swallowed.
LEMMA OverIsQuiet ==
  ASSUME SweepInv, Over, NEW w \in Writers, Sent(w) \/ InPut(w)
  PROVE  writer[w].swallowed
<1> SUFFICES ASSUME ~writer[w].swallowed PROVE FALSE
  OBVIOUS
<1> DEFINE n == writer[w]
<1>1. /\ n.row /\ n.leaseAge <= Within(n)
      /\ n.pc = "primary" => n.age <= PutTimeout
  BY DEF SweepInv, LeaseCovers
<1>2. /\ n.age \in Nat /\ n.age <= PutTimeout + Late /\ n.leaseAge \in Nat
      /\ {Lease, Grace, PutTimeout, Late} \subseteq Nat
  BY AgesAreNumbers DEF SweepInv, TypeOK, LeaseTypeOK
<1>3. n.leaseAge < Lease + Grace
  <2> HIDE DEF n
  <2> QED BY <1>1, <1>2, GraceSuffices DEF Within
<1> QED BY <1>1, <1>3 DEF Over, HasActiveLeases, Counts

\* A step of one upload.
LEMMA OneWriterKeeps ==
  ASSUME SweepInv, UNCHANGED <<job, worker, ws>>, Fault \/ NoFault,
         NEW w \in Writers, NEW n, GoodRow(w, n), writer' = [writer EXCEPT ![w] = n],
         ws # "active" /\ CountsRow(n) => CountsRow(writer[w]),
         writer[w].swallowed => n.swallowed,
         \/ UNCHANGED objects
         \/ \E s \in Scopes : objects' = [objects EXCEPT ![s] = @ \cup {w}],
         UNCHANGED objects \/ (Over => n.swallowed)
  PROVE  SweepInv'
<1> USE DEF GoodRow
<1>0. /\ objects' \in [Scopes -> SUBSET Writers]
      /\ \A s \in Scopes : \A v \in objects'[s] : v \in objects[s] \/ (v = w /\ (Over => n.swallowed))
  <2>1. objects \in [Scopes -> SUBSET Writers]
    BY DEF SweepInv, TypeOK, LeaseTypeOK
  <2>2. CASE UNCHANGED objects
    BY <2>1, <2>2
  <2>3. CASE ~UNCHANGED objects
    <3>1. PICK s \in Scopes : objects' = [objects EXCEPT ![s] = @ \cup {w}]
      BY <2>3
    <3>2. \A t \in Scopes : objects'[t] = IF t = s THEN objects[t] \cup {w} ELSE objects[t]
      BY <2>1, <3>1
    <3> QED BY <2>1, <2>3, <3>1, <3>2
  <2> QED BY <2>2, <2>3
<1>1. LeaseTypeOK' /\ TypeOK'
  BY <1>0, FaultCounts DEF SweepInv, TypeOK, LeaseTypeOK
<1>2. \A v \in Writers : writer'[v] = IF v = w THEN n ELSE writer[v]
  BY DEF SweepInv, TypeOK, LeaseTypeOK
<1>3. LeaseCovers' /\ NothingPending'
  <2>1. \A v \in Writers : GoodRow(v, writer'[v])
    BY <1>2, RowsAreGood
  <2> QED BY <2>1 DEF CoveredRow, PendingRow, SentRow, LeaseCovers, NothingPending, Sent, InPut
<1>4. Over => Over'
  BY <1>2 DEF Over, HasActiveLeases, Counts, CountsRow
<1>5. ASSUME NEW s \in Scopes PROVE Clean(s) => Clean(s)'
  <2>1. SUFFICES ASSUME Clean(s), NEW v \in objects'[s] PROVE writer'[v].swallowed
    BY <1>4 DEF Clean
  <2>2. v \in Writers
    BY <1>0
  <2> QED BY <1>0, <1>2, <2>1, <2>2 DEF Clean
<1>6. TicksAreGated' /\ NotesAreTrue'
  BY <1>4, <1>5 DEF SweepInv, TicksAreGated, NotesAreTrue, NotedIsTrue, Patching
<1>7. RowsGoLast'
  BY FaultCounts DEF SweepInv, TypeOK, RowsGoLast, AllSettled, Patching, Settled
<1> QED BY <1>1, <1>3, <1>6, <1>7 DEF SweepInv, HolderKnows, EndedIsDropped, Settled

\* The rows that the steps of an upload make.
LEMMA MovedRow ==
  ASSUME NEW m \in Writer, NEW pc \in {"idle", "acquired", "primary", "mirrors", "confirm", "release", "done"}
  PROVE  LET n == [m EXCEPT !.pc = pc] IN
         /\ n \in Writer /\ n.pc = pc /\ n.req = m.req /\ n.age = m.age /\ n.row = m.row
         /\ n.leaseAge = m.leaseAge /\ n.swallowed = m.swallowed
BY DEF Writer

LEMMA AcquiredRow ==
  ASSUME NEW m \in Writer, NEW pc, NEW catches
  PROVE  LET n == Acquired(m, pc, catches) IN
         /\ n.pc = pc /\ n.req = m.req /\ n.age = m.age /\ n.row
         /\ n.leaseAge = 0 /\ n.swallowed = m.swallowed
BY DEF Acquired, Writer

LEMMA RequestingRow ==
  ASSUME NEW m \in Writer, NEW pc \in {"primary", "mirrors"}, NEW targets \in SUBSET Scopes
  PROVE  LET n == Requesting(m, targets, pc) IN
         /\ n \in Writer /\ n.pc = pc /\ n.age = 0 /\ n.row = m.row
         /\ n.leaseAge = m.leaseAge /\ n.swallowed = m.swallowed
         /\ n.req = [s \in Scopes |-> IF s \in targets THEN "sent" ELSE m.req[s]]
<1> DEFINE r == [s \in Scopes |-> IF s \in targets THEN "sent" ELSE m.req[s]]
           n == [m EXCEPT !.pc = pc, !.age = 0, !.req = r]
<1>1. r \in [Scopes -> {"none", "sent", "stored", "refused"}]
  BY DEF Writer
<1>2. 0 \in 0..(PutTimeout + Late)
  BY LeaseAssumption
<1>3. n \in Writer
  <2> HIDE DEF r
  <2> QED BY <1>1, <1>2 DEF Writer
<1>4. /\ n.pc = pc /\ n.age = 0 /\ n.row = m.row
      /\ n.leaseAge = m.leaseAge /\ n.swallowed = m.swallowed /\ n.req = r
  <2> HIDE DEF r
  <2> QED BY DEF Writer
<1> QED BY <1>3, <1>4 DEF Requesting

LEMMA RenewedRow ==
  ASSUME NEW m \in Writer, NEW pc \in {"acquired", "primary", "mirrors", "confirm", "release", "done"}
  PROVE  LET n == [m EXCEPT !.leaseAge = 0, !.pc = pc] IN
         /\ n \in Writer /\ n.pc = pc /\ n.req = m.req /\ n.age = m.age /\ n.row = m.row
         /\ n.leaseAge = 0 /\ n.swallowed = m.swallowed
<1>1. 0 \in 0..(Lease + Grace)
  BY LeaseAssumption
<1> QED BY <1>1 DEF Writer

LEMMA AnsweredRow ==
  ASSUME NEW m \in Writer, NEW s \in Scopes, NEW answer \in {"stored", "refused"}
  PROVE  LET n == [m EXCEPT !.req[s] = answer] IN
         /\ n \in Writer /\ n.pc = m.pc /\ n.age = m.age /\ n.row = m.row
         /\ n.leaseAge = m.leaseAge /\ n.swallowed = m.swallowed
         /\ \A t \in Scopes : n.req[t] = "sent" => m.req[t] = "sent"
BY DEF Writer

\* A step that only moves an upload on, and not into a request.
LEMMA GotoKeeps ==
  ASSUME SweepInv, UNCHANGED <<job, worker, ws, objects>>, Fault \/ NoFault,
         NEW w \in Writers, NEW pc \in {"confirm", "release", "done"}, Goto(w, pc),
         pc # "done" /\ SentRow(writer[w]) => writer[w].swallowed
  PROVE  SweepInv'
<1> DEFINE m == writer[w]
           n == [m EXCEPT !.pc = pc]
<1>1. GoodRow(w, m) /\ m \in Writer
  BY RowsAreGood DEF GoodRow
<1>2. n \in Writer /\ n.pc = pc /\ n.req = m.req /\ n.age = m.age /\ n.row = m.row
      /\ n.leaseAge = m.leaseAge /\ n.swallowed = m.swallowed
  <2>1. pc \in {"idle", "acquired", "primary", "mirrors", "confirm", "release", "done"}
    OBVIOUS
  <2> QED BY <1>1, <2>1, MovedRow, Zenon
<1>3. writer' = [writer EXCEPT ![w] = n]
  BY DEF Goto
<1>4. /\ m.age \in Nat /\ m.leaseAge \in Nat /\ PutTimeout \in Nat
  BY <1>1, AgesAreNumbers
<1> HIDE DEF n, m
<1>5. GoodRow(w, n)
  <2>1. SentRow(n) <=> SentRow(m)
    BY <1>2 DEF SentRow
  <2>2. SentRow(m) => m.swallowed \/ (m.row /\ m.leaseAge <= PutTimeout + m.age)
    BY <1>1, <1>4 DEF GoodRow, CoveredRow, Within
  <2>3. CoveredRow(n)
    BY <1>2, <2>1, <2>2 DEF CoveredRow, Within
  <2>4. PendingRow(w, n)
    BY <1>2, <2>1 DEF PendingRow, m
  <2> QED BY <1>2, <2>3, <2>4 DEF GoodRow
<1>6. CountsRow(n) => CountsRow(m)
  BY <1>2 DEF CountsRow
<1> QED BY <1>2, <1>3, <1>5, <1>6, OneWriterKeeps DEF m

LEMMA AcquireKeeps ==
  ASSUME SweepInv, NEW w \in Writers, Acquire(w), UNCHANGED <<job, worker>>
  PROVE  SweepInv'
<1>1. GoodRow(w, writer[w]) /\ writer[w] \in Writer
  BY RowsAreGood DEF GoodRow
<1>2. PICK pc \in {"acquired", "done"}, catches \in BOOLEAN :
        writer' = [writer EXCEPT ![w] = Acquired(writer[w], pc, catches)]
  BY DEF Acquire
<1> DEFINE n == Acquired(writer[w], pc, catches)
<1>3. /\ n \in Writer /\ n.pc = pc /\ n.req = writer[w].req /\ n.age = writer[w].age /\ n.row
      /\ n.leaseAge = 0 /\ n.swallowed = writer[w].swallowed
  <2>1. 0 \in 0..(Lease + Grace) /\ TRUE \in BOOLEAN
    BY LeaseAssumption
  <2>2. n \in Writer
    BY <1>1, <2>1, Zenon DEF Acquired, Writer
  <2> QED BY <1>1, <2>2, AcquiredRow
<1>4. n.age \in Nat /\ PutTimeout \in Nat
  BY <1>3, AgesAreNumbers
<1> HIDE DEF n
<1>5. GoodRow(w, n)
  <2>1. ~SentRow(n) /\ ~n.swallowed
    BY <1>1, <1>3 DEF GoodRow, PendingRow, SentRow, Acquire
  <2> QED BY <1>3, <1>4, <2>1 DEF GoodRow, CoveredRow, PendingRow, Within
<1>6. ws = "active" /\ UNCHANGED <<ws, objects>> /\ (Fault \/ NoFault)
  BY DEF Acquire
<1> QED BY <1>2, <1>3, <1>5, <1>6, OneWriterKeeps DEF n

LEMMA SendKeeps ==
  ASSUME SweepInv, NEW w \in Writers, NEW targets \in SUBSET Scopes,
         NEW pc \in {"primary", "mirrors"}, Send(w, targets, pc),
         pc = "primary" => writer[w].pc = "acquired" /\ targets = {Primary[w]},
         pc = "mirrors" => writer[w].pc = "primary",
         UNCHANGED <<job, worker, ws, objects, faults>>
  PROVE  SweepInv'
<1> DEFINE m == writer[w]
           n == Requesting(m, targets, pc)
<1>1. GoodRow(w, m) /\ m \in Writer
  BY RowsAreGood DEF GoodRow
<1>2. /\ n \in Writer /\ n.pc = pc /\ n.age = 0 /\ n.row = m.row
      /\ n.leaseAge = m.leaseAge /\ n.swallowed = m.swallowed
      /\ n.req = [s \in Scopes |-> IF s \in targets THEN "sent" ELSE m.req[s]]
  BY <1>1, RequestingRow
<1>3. writer' = [writer EXCEPT ![w] = n]
  BY DEF Send
<1>4. /\ m.age \in Nat /\ m.leaseAge \in Nat /\ PutTimeout \in Nat
  BY <1>1, AgesAreNumbers
<1>5. /\ pc = "primary" => m.pc = "acquired" /\ targets = {Primary[w]}
      /\ pc = "mirrors" => m.pc = "primary"
  OBVIOUS
<1> HIDE DEF n, m
<1>6. GoodRow(w, n)
  <2>1. /\ m.swallowed \/ (m.row /\ m.leaseAge <= Within(m))
        /\ m.pc = "primary" => m.age <= PutTimeout
    BY <1>1, <1>5 DEF GoodRow, CoveredRow
  <2>2. CoveredRow(n)
    BY <1>2, <1>4, <1>5, <2>1 DEF CoveredRow, Within
  <2>3. PendingRow(w, n)
    BY <1>1, <1>2, <1>5 DEF GoodRow, PendingRow, SentRow
  <2> QED BY <1>2, <2>2, <2>3 DEF GoodRow
<1>7. CountsRow(n) => CountsRow(m)
  BY <1>2 DEF CountsRow
<1> QED BY <1>2, <1>3, <1>6, <1>7, OneWriterKeeps DEF m, NoFault

\* A provider answers.
LEMMA AnswerKeeps ==
  ASSUME SweepInv, NEW w \in Writers, NEW s \in Scopes, NEW answer \in {"stored", "refused"},
         Sent(w), writer' = [writer EXCEPT ![w].req[s] = answer],
         UNCHANGED objects \/ objects' = [objects EXCEPT ![s] = @ \cup {w}],
         UNCHANGED <<job, worker, ws, faults>>
  PROVE  SweepInv'
<1> DEFINE m == writer[w]
           n == [m EXCEPT !.req[s] = answer]
<1>1. GoodRow(w, m) /\ m \in Writer
  BY RowsAreGood DEF GoodRow
<1>2. /\ n \in Writer /\ n.pc = m.pc /\ n.age = m.age /\ n.row = m.row
      /\ n.leaseAge = m.leaseAge /\ n.swallowed = m.swallowed
      /\ \A t \in Scopes : n.req[t] = "sent" => m.req[t] = "sent"
  BY <1>1, AnsweredRow
<1>3. writer' = [writer EXCEPT ![w] = n]
  OBVIOUS
<1>4. Over => n.swallowed
  BY <1>2, OverIsQuiet
<1> HIDE DEF n, m
<1>5. GoodRow(w, n)
  <2>1. SentRow(n) => SentRow(m)
    BY <1>2 DEF SentRow
  <2>2. Within(n) = Within(m)
    BY <1>2 DEF Within
  <2>3. CoveredRow(n)
    BY <1>1, <1>2, <2>1, <2>2 DEF GoodRow, CoveredRow
  <2>4. PendingRow(w, n)
    BY <1>1, <1>2, <2>1 DEF GoodRow, PendingRow
  <2> QED BY <1>2, <2>3, <2>4 DEF GoodRow
<1>6. CountsRow(n) => CountsRow(m)
  BY <1>2 DEF CountsRow
<1> QED BY <1>2, <1>3, <1>4, <1>5, <1>6, OneWriterKeeps DEF m, NoFault

\* A lease is renewed.
LEMMA RenewedKeeps ==
  ASSUME SweepInv, NEW w \in Writers, NEW pc \in {"acquired", "primary", "mirrors", "confirm", "release", "done"},
         Unexpired(w), writer' = Renewed(w, pc),
         pc = writer[w].pc \/ (writer[w].pc = "confirm" /\ pc \in {"release", "done"}),
         UNCHANGED <<job, worker, ws, objects, faults>>
  PROVE  SweepInv'
<1> DEFINE m == writer[w]
           n == [m EXCEPT !.leaseAge = 0, !.pc = pc]
<1>1. GoodRow(w, m) /\ m \in Writer
  BY RowsAreGood DEF GoodRow
<1>2. /\ n \in Writer /\ n.pc = pc /\ n.req = m.req /\ n.age = m.age /\ n.row = m.row
      /\ n.leaseAge = 0 /\ n.swallowed = m.swallowed
  BY <1>1, RenewedRow
<1>3. writer' = [writer EXCEPT ![w] = n]
  BY DEF Renewed
<1>4. /\ m.age \in Nat /\ m.leaseAge \in Nat /\ {Lease, Grace, PutTimeout} \subseteq Nat
  BY <1>1, AgesAreNumbers
<1>5. m.row /\ m.leaseAge < Lease /\ (pc = m.pc \/ (m.pc = "confirm" /\ pc \in {"release", "done"}))
  BY DEF Unexpired
<1> HIDE DEF n, m
<1>6. GoodRow(w, n)
  <2>1. SentRow(n) <=> SentRow(m)
    BY <1>2 DEF SentRow
  <2>2. 0 <= Within(n)
    BY <1>2, <1>4 DEF Within
  <2>3. CoveredRow(n)
    BY <1>1, <1>2, <1>5, <2>1, <2>2 DEF GoodRow, CoveredRow
  <2>4. PendingRow(w, n)
    BY <1>1, <1>2, <1>5, <2>1 DEF GoodRow, PendingRow
  <2> QED BY <1>2, <2>3, <2>4 DEF GoodRow
<1>7. CountsRow(m)
  BY <1>4, <1>5 DEF CountsRow
<1> QED BY <1>2, <1>3, <1>6, <1>7, OneWriterKeeps DEF m, NoFault

\* A renewal finds the lease gone, or fails.
LEMMA LostKeeps ==
  ASSUME SweepInv, NEW w \in Writers, writer' = [writer EXCEPT ![w].lost = TRUE],
         Fault \/ NoFault, UNCHANGED <<job, worker, ws, objects>>
  PROVE  SweepInv'
<1> DEFINE m == writer[w]
           n == [m EXCEPT !.lost = TRUE]
<1>1. GoodRow(w, m) /\ m \in Writer
  BY RowsAreGood DEF GoodRow
<1>2. /\ n \in Writer /\ n.pc = m.pc /\ n.req = m.req /\ n.age = m.age /\ n.row = m.row
      /\ n.leaseAge = m.leaseAge /\ n.swallowed = m.swallowed
  BY <1>1 DEF Writer
<1> HIDE DEF n, m
<1>3. GoodRow(w, n)
  BY <1>1, <1>2 DEF GoodRow, CoveredRow, PendingRow, SentRow, Within
<1>4. CountsRow(n) => CountsRow(m)
  BY <1>2 DEF CountsRow
<1> QED BY <1>2, <1>3, <1>4, OneWriterKeeps DEF m, n

\* The row goes when nothing waits for it.
LEMMA ReleasedKeeps ==
  ASSUME SweepInv, NEW w \in Writers, writer[w].pc = "release",
         writer' = [writer EXCEPT ![w].pc = "done", ![w].row = FALSE, ![w].leaseAge = 0],
         UNCHANGED <<job, worker, ws, objects, faults>>
  PROVE  SweepInv'
<1> DEFINE m == writer[w]
           n == [m EXCEPT !.pc = "done", !.row = FALSE, !.leaseAge = 0]
<1>1. GoodRow(w, m) /\ m \in Writer
  BY RowsAreGood DEF GoodRow
<1>2. n \in Writer
  <2>1. 0 \in 0..(Lease + Grace) /\ FALSE \in BOOLEAN
    BY LeaseAssumption
  <2> HIDE DEF m
  <2> QED BY <1>1, <2>1 DEF Writer
<1>3. /\ n.pc = "done" /\ n.req = m.req /\ ~n.row /\ n.swallowed = m.swallowed
  BY <1>1 DEF Writer
<1>4. writer' = [writer EXCEPT ![w] = n]
  OBVIOUS
<1>5. m.pc = "release"
  OBVIOUS
<1> HIDE DEF n, m
<1>6. GoodRow(w, n)
  <2>1. SentRow(n) => n.swallowed
    BY <1>1, <1>3, <1>5 DEF GoodRow, PendingRow, SentRow
  <2> QED BY <1>2, <1>3, <2>1 DEF GoodRow, CoveredRow, PendingRow
<1>7. ~CountsRow(n)
  BY <1>3 DEF CountsRow
<1> QED BY <1>3, <1>4, <1>6, <1>7, OneWriterKeeps DEF m, NoFault

\* What a request threw is swallowed.
LEMMA SwallowedKeeps ==
  ASSUME SweepInv, NEW w \in Writers, writer[w].pc \in {"primary", "mirrors"},
         writer' = [writer EXCEPT ![w].pc = "confirm", ![w].swallowed = Sent(w)],
         Fault, UNCHANGED <<job, worker, ws, objects>>
  PROVE  SweepInv'
<1> DEFINE m == writer[w]
           sent == Sent(w)
           n == [m EXCEPT !.pc = "confirm", !.swallowed = sent]
<1>1. GoodRow(w, m) /\ m \in Writer
  BY RowsAreGood DEF GoodRow
<1>2. sent \in BOOLEAN /\ (sent <=> SentRow(m))
  BY DEF Sent, SentRow
<1>3. writer' = [writer EXCEPT ![w] = n]
  OBVIOUS
<1>4. m.pc \in {"primary", "mirrors"}
  OBVIOUS
<1> HIDE DEF m, sent
<1>5. n \in Writer
  BY <1>1, <1>2, Zenon DEF Writer
<1>6. /\ n.pc = "confirm" /\ n.req = m.req /\ n.row = m.row /\ n.leaseAge = m.leaseAge
      /\ n.swallowed = sent /\ n.age = m.age
  BY <1>1 DEF Writer
<1> HIDE DEF n
<1>7. GoodRow(w, n)
  BY <1>2, <1>5, <1>6 DEF GoodRow, CoveredRow, PendingRow, SentRow
<1>8. CountsRow(n) => CountsRow(m)
  BY <1>6 DEF CountsRow
<1>9. ~m.swallowed
  BY <1>1, <1>4 DEF GoodRow, PendingRow
<1> QED BY <1>3, <1>7, <1>8, <1>9, OneWriterKeeps DEF m

\* Time passes.
LEMMA TickKeeps ==
  ASSUME SweepInv, Tick, UNCHANGED <<job, worker>>
  PROVE  SweepInv'
<1> DEFINE n(w) == Older(writer[w], w)
<1>1. \A w \in Writers : writer'[w] = n(w)
  BY DEF Tick
<1>2. ASSUME NEW w \in Writers
      PROVE  /\ GoodRow(w, n(w))
             /\ CountsRow(n(w)) => CountsRow(writer[w])
             /\ n(w).swallowed = writer[w].swallowed
  <2> DEFINE m == writer[w]
             flying == Sent(w) \/ InPut(w)
             age == IF flying THEN m.age + 1 ELSE 0
             leaseAge == IF m.row /\ m.leaseAge < Lease + Grace THEN m.leaseAge + 1 ELSE m.leaseAge
             o == [m EXCEPT !.age = age, !.leaseAge = leaseAge]
  <2>1. GoodRow(w, m) /\ m \in Writer
    BY RowsAreGood DEF GoodRow
  <2>2. n(w) = o
    BY DEF Older
  <2>3. /\ m.age \in Nat /\ m.leaseAge \in Nat /\ {Lease, Grace, PutTimeout, Late} \subseteq Nat
    BY <2>1, AgesAreNumbers
  <2>4. /\ m.pc # "acquired"
        /\ m.pc \in {"primary", "mirrors"} => m.age < PutTimeout
        /\ SentRow(m) => m.age < PutTimeout + Late
    BY DEF Tick, MayTick, Sent, SentRow
  <2>5. flying <=> SentRow(m) \/ m.pc \in {"primary", "mirrors"}
    BY <2>4 DEF Sent, SentRow, InPut
  <2>6. /\ m.row /\ m.leaseAge <= Lease + Grace => leaseAge \in 0..(Lease + Grace)
        /\ leaseAge \in {m.leaseAge, m.leaseAge + 1}
        /\ leaseAge < Lease + Grace => m.leaseAge < Lease + Grace
    BY <2>3
  <2>7. m.leaseAge <= Lease + Grace
    BY <2>1 DEF Writer
  <2> HIDE DEF flying, m
  <2>8. age \in 0..(PutTimeout + Late) /\ (flying => age = m.age + 1)
    BY <2>3, <2>4, <2>5
  <2>9. leaseAge \in 0..(Lease + Grace)
    BY <2>3, <2>7
  <2> HIDE DEF age, leaseAge
  <2>10. o \in Writer
    BY <2>1, <2>8, <2>9 DEF Writer
  <2>11. /\ o.pc = m.pc /\ o.req = m.req /\ o.row = m.row /\ o.leaseAge = leaseAge
         /\ o.swallowed = m.swallowed /\ o.age = age
    BY <2>1 DEF Writer
  <2> HIDE DEF o
  <2>12. SentRow(o) <=> SentRow(m)
    BY <2>11 DEF SentRow
  <2>13. CoveredRow(o)
    <3>1. o.pc \in {"primary", "mirrors"} => o.age <= PutTimeout
      BY <2>3, <2>4, <2>5, <2>8, <2>11
    <3>2. SUFFICES ASSUME SentRow(m) \/ m.pc \in {"primary", "mirrors"}, ~m.swallowed
                   PROVE  o.row /\ o.leaseAge <= Within(o)
      BY <2>4, <2>11, <2>12, <3>1 DEF CoveredRow
    <3>3. m.row /\ m.leaseAge <= Within(m)
      BY <2>1, <3>2 DEF GoodRow, CoveredRow
    <3>4. age = m.age + 1 /\ Within(o) = Within(m) + 1 /\ Within(m) \in Int
      BY <2>3, <2>4, <2>5, <2>8, <2>11, <3>2 DEF Within
    <3> QED BY <2>3, <2>6, <2>11, <3>3, <3>4
  <2>14. PendingRow(w, o)
    BY <2>1, <2>11, <2>12 DEF GoodRow, PendingRow
  <2> QED BY <2>2, <2>6, <2>10, <2>11, <2>13, <2>14 DEF GoodRow, CountsRow, m
<1>3. TypeOK'
  <2>1. writer' = [w \in Writers |-> n(w)] /\ \A w \in Writers : n(w) \in Writer
    BY <1>2 DEF Tick, GoodRow
  <2> QED BY <2>1 DEF SweepInv, TypeOK, LeaseTypeOK, Tick
<1> HIDE DEF n
<1>4. LeaseCovers' /\ NothingPending'
  <2>1. \A w \in Writers : GoodRow(w, writer'[w])
    BY <1>1, <1>2
  <2> QED BY <2>1 DEF GoodRow, CoveredRow, PendingRow, SentRow, LeaseCovers, NothingPending, Sent, InPut
<1>5. Over => Over'
  BY <1>1, <1>2 DEF Over, HasActiveLeases, Counts, CountsRow, Tick
<1>6. \A s \in Scopes : Clean(s) => Clean(s)'
  <2>1. UNCHANGED objects /\ objects \in [Scopes -> SUBSET Writers]
    BY DEF Tick, SweepInv, TypeOK, LeaseTypeOK
  <2> QED BY <1>1, <1>2, <1>5, <2>1 DEF Clean
<1>7. UNCHANGED <<job, worker, ws, faults>>
  BY DEF Tick
<1> QED BY <1>3, <1>4, <1>5, <1>6, <1>7
     DEF SweepInv, TicksAreGated, NotesAreTrue, NotedIsTrue, HolderKnows, RowsGoLast, EndedIsDropped, AllSettled,
         Patching, Settled

LEMMA WriterStepKeeps ==
  ASSUME SweepInv, NEW w \in Writers, WriterStep(w), UNCHANGED <<job, worker>>
  PROVE  SweepInv'
<1>0. GoodRow(w, writer[w]) /\ writer[w] \in Writer
  BY RowsAreGood DEF GoodRow
<1>1. CASE PutPrimary(w)
  <2>1. {Primary[w]} \in SUBSET Scopes
    BY LeaseAssumption
  <2> QED BY <1>1, <2>1, SendKeeps DEF PutPrimary
<1>2. CASE PrimaryAnswers(w)
  <2>1. Mirrors[w] \in SUBSET Scopes
    BY LeaseAssumption
  <2>2. CASE Send(w, Mirrors[w], "mirrors")
    BY <1>2, <2>1, <2>2, SendKeeps DEF PrimaryAnswers
  <2>3. CASE Goto(w, "confirm") /\ writer[w].req[Primary[w]] # "sent"
    <3>1. ~SentRow(writer[w])
      BY <1>0, <1>2, <2>3 DEF GoodRow, PendingRow, SentRow, PrimaryAnswers
    <3> QED BY <1>2, <2>3, <3>1, GotoKeeps DEF PrimaryAnswers, NoFault
  <2> QED BY <1>2, <2>2, <2>3 DEF PrimaryAnswers
<1>3. CASE MirrorsAnswer(w)
  <2>1. ~SentRow(writer[w])
    BY <1>3 DEF MirrorsAnswer, SentRow, Sent
  <2> QED BY <1>3, <2>1, GotoKeeps DEF MirrorsAnswer, NoFault
<1>4. CASE PutThrows(w)
  <2>1. CASE writer[w].catches
    BY <1>4, <2>1, SwallowedKeeps DEF PutThrows
  <2>2. CASE ~writer[w].catches
    BY <1>4, <2>2, GotoKeeps DEF PutThrows
  <2> QED BY <2>1, <2>2
<1>5. CASE Confirm(w)
  <2>1. CASE Unexpired(w) /\ NoFault /\ \E pc \in {"done", "release"} : writer' = Renewed(w, pc)
    <3>1. PICK pc \in {"done", "release"} : writer' = Renewed(w, pc)
      BY <2>1
    <3>2. pc \in {"acquired", "primary", "mirrors", "confirm", "release", "done"}
      OBVIOUS
    <3> QED BY <1>5, <2>1, <3>1, <3>2, RenewedKeeps DEF Confirm, NoFault
  <2>2. CASE (Fault \/ NoFault) /\ Goto(w, "done")
    BY <1>5, <2>2, GotoKeeps DEF Confirm
  <2> QED BY <1>5, <2>1, <2>2 DEF Confirm
<1>6. CASE Release(w)
  <2>1. CASE NoFault /\ writer' = [writer EXCEPT ![w].pc = "done", ![w].row = FALSE, ![w].leaseAge = 0]
    BY <1>6, <2>1, ReleasedKeeps DEF Release, NoFault
  <2>2. CASE Goto(w, "done") /\ Fault
    BY <1>6, <2>2, GotoKeeps DEF Release
  <2> QED BY <1>6, <2>1, <2>2 DEF Release
<1> QED BY <1>1, <1>2, <1>3, <1>4, <1>5, <1>6 DEF WriterStep

LEMMA LeaseNextKeeps ==
  ASSUME SweepInv, LeaseNext, UNCHANGED <<job, worker>>
  PROVE  SweepInv'
<1>1. CASE Tick
  BY <1>1, TickKeeps
<1>2. ASSUME NEW w \in Writers, Acquire(w) PROVE SweepInv'
  BY <1>2, AcquireKeeps
<1>3. ASSUME NEW w \in Writers, AcquireRefused(w) PROVE SweepInv'
  BY <1>3, GotoKeeps DEF AcquireRefused, NoFault
<1>4. ASSUME NEW w \in Writers, Heartbeat(w) PROVE SweepInv'
  <2>1. CASE Unexpired(w) /\ writer' = Renewed(w, writer[w].pc) /\ NoFault
    <3>1. writer[w].pc \in {"acquired", "primary", "mirrors", "confirm", "release", "done"}
      BY <1>4 DEF Heartbeat
    <3> QED BY <1>4, <2>1, <3>1, RenewedKeeps DEF Heartbeat, NoFault
  <2>2. CASE writer' = [writer EXCEPT ![w].lost = TRUE] /\ (Fault \/ NoFault)
    BY <1>4, <2>2, LostKeeps DEF Heartbeat
  <2> QED BY <1>4, <2>1, <2>2 DEF Heartbeat
<1>5. ASSUME NEW w \in Writers, WriterStep(w) PROVE SweepInv'
  BY <1>5, WriterStepKeeps
<1>6. ASSUME NEW w \in Writers, Provider(w) PROVE SweepInv'
  <2>1. PICK s \in Scopes : Land(w, s) \/ Refuse(w, s)
    BY <1>6 DEF Provider
  <2>2. Sent(w)
    BY <2>1 DEF Land, Refuse, Sent
  <2>3. CASE Land(w, s)
    BY <2>2, <2>3, AnswerKeeps DEF Land
  <2>4. CASE Refuse(w, s)
    BY <2>2, <2>4, AnswerKeeps DEF Refuse
  <2> QED BY <2>1, <2>3, <2>4
<1>7. ASSUME NEW w \in Writers, CrashWriter(w) PROVE SweepInv'
  BY <1>7, GotoKeeps DEF CrashWriter
<1> QED BY <1>1, <1>2, <1>3, <1>4, <1>5, <1>6, <1>7 DEF LeaseNext

-----------------------------------------------------------------------------
(* Deletion *)

\* What SweepInv says of the tick of worker k, should it be r, and the job j.
GoodTick(k, r, j) ==
  /\ r.pc # "idle" => ws # "active"
  /\ r.pc \in {"walk", "delete", "purge", "exists"} \/ (r.pc = "persist" /\ r.patch = "keep") => Over
  /\ \A s \in Scopes : NotedIsTrue(r.scopes[s], s)
  /\ j.token = k /\ r.pc # "idle" =>
       /\ \A s \in Scopes : Settled(j.scopes[s]) => r.scopes[s].status = j.scopes[s].status
       /\ j.status # "completed"
  /\ r.pc \in {"recheck", "purge", "exists"} => AllSettled(j.scopes)
  /\ r.pc = "persist" /\ r.patch = "advance" => AllSettled(r.scopes)

LEMMA TicksAreGood ==
  ASSUME SweepInv, NEW k \in Workers
  PROVE  worker[k] \in Worker /\ GoodTick(k, worker[k], job)
BY DEF SweepInv, TypeOK, TicksAreGated, NotesAreTrue, HolderKnows, RowsGoLast, EndedIsDropped, Patching, GoodTick

\* What is over stays over, and what is clean stays clean.
LEMMA CleanStays ==
  ASSUME SweepInv, UNCHANGED writer, ws # "active" => ws' # "active",
         \A s \in Scopes : objects'[s] \subseteq objects[s]
  PROVE  /\ Over => Over'
         /\ \A s \in Scopes : Clean(s) => Clean(s)'
         /\ LeaseCovers' /\ NothingPending'
BY DEF SweepInv, Over, HasActiveLeases, Counts, Clean, LeaseCovers, NothingPending, Sent, InPut

\* A step of one tick that does not write the job.
LEMMA TickStepKeeps ==
  ASSUME SweepInv, UNCHANGED <<writer, job>>, Fault \/ NoFault,
         UNCHANGED ws \/ (ws' = "gone" /\ ws # "active" /\ AllSettled(job.scopes)),
         objects' \in [Scopes -> SUBSET Writers], \A s \in Scopes : objects'[s] \subseteq objects[s],
         NEW k \in Workers, NEW r \in Worker, GoodTick(k, r, job),
         r.pc = "persist" /\ r.patch = "revert" => faults' > 0,
         worker' = [worker EXCEPT ![k] = r]
  PROVE  SweepInv'
<1>1. \A j \in Workers : worker'[j] = IF j = k THEN r ELSE worker[j]
  BY DEF SweepInv, TypeOK
<1>2. \A j \in Workers : GoodTick(j, worker'[j], job)
  BY <1>1, TicksAreGood
<1>3. TypeOK'
  <2>1. LeaseTypeOK'
    BY FaultCounts DEF SweepInv, TypeOK, LeaseTypeOK
  <2> QED BY <2>1 DEF SweepInv, TypeOK
<1>4. /\ Over => Over'
      /\ \A s \in Scopes : Clean(s) => Clean(s)'
      /\ LeaseCovers' /\ NothingPending'
  BY CleanStays
<1>5. TicksAreGated'
  BY <1>2, <1>4 DEF SweepInv, TicksAreGated, Patching, GoodTick
<1>6. NotesAreTrue'
  BY <1>2, <1>4 DEF SweepInv, NotesAreTrue, NotedIsTrue, GoodTick
<1>7. HolderKnows' /\ EndedIsDropped'
  BY <1>2 DEF SweepInv, HolderKnows, EndedIsDropped, GoodTick, Settled
<1>8. RowsGoLast'
  <2>1. AllSettled(job.scopes) => AllSettled(job.scopes)'
    BY DEF AllSettled, Settled
  <2>2. (/\ \/ ws = "gone"
            \/ job.status = "db_cleanup"
            \/ \E j \in Workers : worker[j].pc \in {"recheck", "purge", "exists"}
            => AllSettled(job.scopes))'
    BY <1>2, <2>1 DEF SweepInv, RowsGoLast, GoodTick
  <2>3. (\A j \in Workers : Patching(j, {"advance"}) => AllSettled(worker[j].scopes))'
    BY <1>2 DEF GoodTick, Patching, AllSettled, Settled
  <2>4. (\A j \in Workers : Patching(j, {"revert"}) => faults > 0)'
    BY <1>1, FaultCounts DEF SweepInv, TypeOK, RowsGoLast, Patching
  <2> QED BY <2>2, <2>3, <2>4 DEF RowsGoLast
<1> QED BY <1>3, <1>4, <1>5, <1>6, <1>7, <1>8 DEF SweepInv

\* A tick that is at work goes on.
LEMMA ToKeeps ==
  ASSUME SweepInv, UNCHANGED <<writer, job, objects>>, Fault \/ NoFault,
         UNCHANGED ws \/ (ws' = "gone" /\ ws # "active" /\ AllSettled(job.scopes)),
         NEW k \in Workers, worker[k].pc # "idle",
         NEW pc \in {"walk", "recheck", "purge", "exists"}, To(k, pc),
         pc # "recheck" => Over, pc # "walk" => AllSettled(job.scopes)
  PROVE  SweepInv'
<1> DEFINE m == worker[k]
           r == [m EXCEPT !.pc = pc]
<1>1. m \in Worker /\ GoodTick(k, m, job)
  BY TicksAreGood
<1>2. r \in Worker /\ r.pc = pc /\ r.scopes = m.scopes /\ r.patch = m.patch
  BY <1>1 DEF Worker
<1>3. worker' = [worker EXCEPT ![k] = r]
  BY DEF To
<1>4. m.pc # "idle" /\ pc \in {"walk", "recheck", "purge", "exists"}
  OBVIOUS
<1> HIDE DEF m, r
<1>5. GoodTick(k, r, job)
  BY <1>1, <1>2, <1>4 DEF GoodTick
<1>6. objects' \in [Scopes -> SUBSET Writers] /\ \A s \in Scopes : objects'[s] \subseteq objects[s]
  BY DEF SweepInv, TypeOK, LeaseTypeOK
<1>7. ~(r.pc = "persist" /\ r.patch = "revert")
  BY <1>2, <1>4
<1> QED BY <1>2, <1>3, <1>5, <1>6, <1>7, TickStepKeeps

\* It has the next write to do.
LEMMA WriteKeeps ==
  ASSUME SweepInv, UNCHANGED <<writer, job>>, Fault \/ NoFault,
         UNCHANGED ws \/ (ws' = "gone" /\ ws # "active" /\ AllSettled(job.scopes)),
         objects' \in [Scopes -> SUBSET Writers], \A s \in Scopes : objects'[s] \subseteq objects[s],
         NEW k \in Workers, worker[k].pc # "idle",
         NEW patch \in Patches \ {"keep"}, Write(k, patch),
         patch = "advance" => AllSettled(worker[k].scopes), patch = "revert" => faults' > 0
  PROVE  SweepInv'
<1> DEFINE m == worker[k]
           r == [m EXCEPT !.pc = "persist", !.patch = patch]
<1>1. m \in Worker /\ GoodTick(k, m, job)
  BY TicksAreGood
<1>2. r \in Worker /\ r.pc = "persist" /\ r.scopes = m.scopes /\ r.patch = patch
  BY <1>1 DEF Worker
<1>3. worker' = [worker EXCEPT ![k] = r]
  BY DEF Write
<1>4. m.pc # "idle" /\ patch # "keep" /\ (patch = "advance" => AllSettled(m.scopes))
  OBVIOUS
<1> HIDE DEF m, r
<1>5. GoodTick(k, r, job)
  BY <1>1, <1>2, <1>4 DEF GoodTick
<1> QED BY <1>2, <1>3, <1>5, TickStepKeeps

\* It stops.
LEMMA DropKeeps ==
  ASSUME SweepInv, UNCHANGED <<writer, job, objects, ws>>, Fault \/ NoFault, NEW k \in Workers, Drop(k)
  PROVE  SweepInv'
<1>1. IdleWorker \in Worker /\ IdleWorker.pc = "idle" /\ IdleWorker.scopes = NoWork
  <2>1. NoWork \in [Scopes -> Progress] /\ 0 \in 0..MaxJobAttempts
    BY DeletionAssumption DEF NoWork, Untouched, Progress
  <2> HIDE DEF NoWork
  <2> QED BY <2>1 DEF IdleWorker, Worker, Patches
<1>2. GoodTick(k, IdleWorker, job)
  BY <1>1 DEF GoodTick, NotedIsTrue, NoWork, Untouched
<1>3. objects' \in [Scopes -> SUBSET Writers] /\ \A s \in Scopes : objects'[s] \subseteq objects[s]
  BY DEF SweepInv, TypeOK, LeaseTypeOK
<1> QED BY <1>1, <1>2, <1>3, TickStepKeeps DEF Drop

\* It has made p of the storage that it is at.
LEMMA ScopeKeeps ==
  ASSUME SweepInv, UNCHANGED <<writer, job, ws>>, Fault \/ NoFault,
         objects' \in [Scopes -> SUBSET Writers], \A t \in Scopes : objects'[t] \subseteq objects[t],
         NEW k \in Workers, worker[k].pc \in {"walk", "delete"},
         NEW s \in Scopes, At(k, s), NEW p \in Progress, NotedIsTrue(p, s),
         NEW r \in Worker, worker' = [worker EXCEPT ![k] = r],
         r.scopes = [worker[k].scopes EXCEPT ![s] = p],
         r.pc = "delete" \/ (r.pc = "persist" /\ r.patch \in {"keep", "note", "progress"})
  PROVE  SweepInv'
<1> DEFINE m == worker[k]
<1>1. m \in Worker /\ GoodTick(k, m, job) /\ m.pc \in {"walk", "delete"}
  BY TicksAreGood
<1>2. ~Settled(m.scopes[s])
  BY DEF At
<1>3. \A t \in Scopes : r.scopes[t] = IF t = s THEN p ELSE m.scopes[t]
  BY <1>1 DEF Worker
<1> HIDE DEF m
<1>4. GoodTick(k, r, job)
  <2>1. Over /\ ws # "active"
    BY <1>1 DEF GoodTick
  <2>2. \A t \in Scopes : NotedIsTrue(r.scopes[t], t)
    BY <1>1, <1>3 DEF GoodTick
  <2>3. ASSUME job.token = k
        PROVE  /\ \A t \in Scopes : Settled(job.scopes[t]) => r.scopes[t].status = job.scopes[t].status
               /\ job.status # "completed"
    <3>1. \A t \in Scopes : Settled(job.scopes[t]) => m.scopes[t].status = job.scopes[t].status
      BY <1>1, <2>3 DEF GoodTick
    <3>2. ~Settled(job.scopes[s])
      BY <1>2, <3>1 DEF Settled
    <3> QED BY <1>1, <1>3, <2>3, <3>1, <3>2 DEF GoodTick
  <2> QED BY <2>1, <2>2, <2>3 DEF GoodTick
<1> QED BY <1>4, TickStepKeeps

\* As Scoped writes it.
LEMMA ScopedKeeps ==
  ASSUME SweepInv, UNCHANGED <<writer, job, ws>>, Fault \/ NoFault,
         objects' \in [Scopes -> SUBSET Writers], \A t \in Scopes : objects'[t] \subseteq objects[t],
         NEW k \in Workers, worker[k].pc \in {"walk", "delete"},
         NEW s \in Scopes, At(k, s), NEW p \in Progress, NotedIsTrue(p, s),
         NEW patch \in {"keep", "note", "progress"}, Scoped(k, s, p, "persist", patch)
  PROVE  SweepInv'
<1> DEFINE m == worker[k]
           scopes == [m.scopes EXCEPT ![s] = p]
           r == [m EXCEPT !.pc = "persist", !.patch = patch, !.scopes = scopes, !.keys = {}, !.more = FALSE]
<1>1. m \in Worker
  BY TicksAreGood
<1>2. scopes \in [Scopes -> Progress]
  BY <1>1 DEF Worker
<1>3. worker' = [worker EXCEPT ![k] = r]
  BY DEF Scoped
<1> HIDE DEF m, scopes
<1>4. /\ r \in Worker /\ r.scopes = scopes
      /\ r.pc = "persist" /\ r.patch \in {"keep", "note", "progress"}
  BY <1>1, <1>2 DEF Worker, Patches
<1> HIDE DEF r
<1> QED BY <1>3, <1>4, ScopeKeeps DEF scopes, m

\* The tick is past the gate, and what it knows of a storage is true.
LEMMA PastTheGate ==
  ASSUME SweepInv, NEW k \in Workers, worker[k].pc \in {"walk", "delete"}, NEW s \in Scopes
  PROVE  /\ Over /\ ws # "active"
         /\ worker[k].scopes[s] \in Progress /\ NotedIsTrue(worker[k].scopes[s], s)
<1>1. worker[k] \in Worker /\ GoodTick(k, worker[k], job)
  BY TicksAreGood
<1> QED BY <1>1 DEF GoodTick, Worker

LEMMA ScopeFailsKeeps ==
  ASSUME SweepInv, UNCHANGED <<writer, job, ws>>, Fault,
         objects' \in [Scopes -> SUBSET Writers], \A t \in Scopes : objects'[t] \subseteq objects[t],
         NEW k \in Workers, worker[k].pc \in {"walk", "delete"},
         NEW s \in Scopes, At(k, s), ScopeFails(k, s)
  PROVE  SweepInv'
<1> DEFINE p == worker[k].scopes[s]
           given(f) == [p EXCEPT !.status = "unreachable", !.cursor = FALSE, !.failures = f]
           noted == [p EXCEPT !.status = IF @ = "untouched" THEN "in_progress" ELSE @, !.failures = @ + 1]
<1>1. Over /\ p \in Progress /\ NotedIsTrue(p, s)
  BY PastTheGate
<1>2. p.failures \in Nat /\ p.failures <= MaxScopeFailures /\ MaxScopeFailures \in Nat
  BY <1>1, DeletionAssumption DEF Progress
<1>3. \/ Scoped(k, s, given(MaxScopeFailures), "persist", "keep")
      \/ Scoped(k, s, given(p.failures + 1), "persist", "keep") /\ p.failures + 1 \in 0..MaxScopeFailures
      \/ Scoped(k, s, noted, "persist", "note") /\ p.failures + 1 \in 0..MaxScopeFailures
  BY <1>2 DEF ScopeFails
<1> HIDE DEF p
<1>4. ASSUME NEW f \in 0..MaxScopeFailures
      PROVE  given(f) \in Progress /\ NotedIsTrue(given(f), s)
  BY <1>1 DEF Progress, NotedIsTrue
<1>5. ASSUME p.failures + 1 \in 0..MaxScopeFailures
      PROVE  noted \in Progress /\ NotedIsTrue(noted, s)
  BY <1>1, <1>5 DEF Progress, NotedIsTrue
<1>6. MaxScopeFailures \in 0..MaxScopeFailures
  BY <1>2
<1> HIDE DEF given, noted
<1>7. CASE Scoped(k, s, given(MaxScopeFailures), "persist", "keep")
  BY <1>4, <1>6, <1>7, ScopedKeeps
<1>8. CASE Scoped(k, s, given(p.failures + 1), "persist", "keep") /\ p.failures + 1 \in 0..MaxScopeFailures
  BY <1>4, <1>8, ScopedKeeps
<1>9. CASE Scoped(k, s, noted, "persist", "note") /\ p.failures + 1 \in 0..MaxScopeFailures
  BY <1>5, <1>9, ScopedKeeps
<1> QED BY <1>3, <1>7, <1>8, <1>9

\* What a listing leads to; it shows what is there unless a body is lost.
LEMMA ListEffect ==
  ASSUME SweepInv, NEW k \in Workers, List(k)
  PROVE  \E s \in Scopes, p \in Progress, r \in Worker :
           /\ At(k, s) /\ NotedIsTrue(p, s)
           /\ worker' = [worker EXCEPT ![k] = r]
           /\ r.scopes = [worker[k].scopes EXCEPT ![s] = p]
           /\ r.pc = "delete" \/ (r.pc = "persist" /\ r.patch = "keep")
           /\ Fault \/ (NoFault /\ p.status \in {"verified", worker[k].scopes[s].status})
<1> DEFINE Page(s, keys, more) ==
             LET p == worker[k].scopes[s] IN
             /\ IF ~p.cursor /\ ~more /\ keys # objects[s] THEN Fault ELSE NoFault
             /\ more => keys # {}
             /\ IF p.status = "done" /\ keys = {} /\ ~more
                  THEN Scoped(k, s, [p EXCEPT !.status = IF objects[s] = {} THEN "verified" ELSE "misread",
                                              !.failures = 0],
                              "persist", "keep")
                  ELSE worker' = [worker EXCEPT ![k].pc = "delete", ![k].keys = keys, ![k].more = more,
                                    ![k].scopes[s].failures = 0]
<1>0. PICK s \in Scopes : At(k, s) /\ \E keys \in SUBSET objects[s], more \in BOOLEAN : Page(s, keys, more)
  BY Zenon DEF List
<1>1. PICK keys \in SUBSET objects[s], more \in BOOLEAN : Page(s, keys, more)
  BY <1>0, Zenon
<1> DEFINE m == worker[k]
           p == m.scopes[s]
           status == IF objects[s] = {} THEN "verified" ELSE "misread"
           q(st) == [p EXCEPT !.status = st, !.failures = 0]
           cleared == [p EXCEPT !.failures = 0]
<1>2. m \in Worker /\ Over /\ p \in Progress /\ NotedIsTrue(p, s) /\ keys \in SUBSET Writers
  <2>1. worker[k].pc \in {"walk", "delete"}
    BY DEF List
  <2>2. keys \in SUBSET Writers
    BY DEF SweepInv, TypeOK, LeaseTypeOK
  <2> QED BY <2>1, <2>2, PastTheGate, TicksAreGood
<1>3. 0 \in 0..MaxScopeFailures
  BY DeletionAssumption
<1>4. CASE p.status = "done" /\ keys = {} /\ ~more
  <2> DEFINE scopes == [m.scopes EXCEPT ![s] = q(status)]
             r == [m EXCEPT !.pc = "persist", !.patch = "keep", !.scopes = scopes, !.keys = {}, !.more = FALSE]
  <2>a. Scoped(k, s, q(status), "persist", "keep")
    BY <1>1, <1>4
  <2>1. worker' = [worker EXCEPT ![k] = r]
    <3> HIDE DEF p, q, status
    <3> QED BY <2>a DEF Scoped
  <2>2. Fault \/ (NoFault /\ status = "verified")
    BY <1>1, <1>2, <1>4 DEF NotedIsTrue
  <2>3. status \in {"verified", "misread"} /\ (status = "verified" => objects[s] = {})
    OBVIOUS
  <2> HIDE DEF p, status
  <2>4. q(status) \in Progress /\ q(status).status = status
    BY <1>2, <1>3, <2>3 DEF Progress
  <2> HIDE DEF q, m
  <2>5. NotedIsTrue(q(status), s)
    BY <1>2, <2>3, <2>4 DEF NotedIsTrue, Clean
  <2>6. scopes \in [Scopes -> Progress]
    BY <1>2, <2>4 DEF Worker
  <2> HIDE DEF scopes
  <2>7. r \in Worker /\ r.scopes = scopes /\ r.pc = "persist" /\ r.patch = "keep"
    BY <1>2, <2>6 DEF Worker, Patches
  <2> HIDE DEF r
  <2> QED BY <1>0, <2>1, <2>2, <2>4, <2>5, <2>7 DEF scopes, m
<1>5. CASE ~(p.status = "done" /\ keys = {} /\ ~more)
  <2> DEFINE scopes == [m.scopes EXCEPT ![s] = cleared]
             r == [m EXCEPT !.pc = "delete", !.keys = keys, !.more = more, !.scopes = scopes]
  <2>1. worker' = [worker EXCEPT ![k] = r]
    BY <1>1, <1>2, <1>5 DEF Worker
  <2>2. Fault \/ NoFault
    BY <1>1
  <2> HIDE DEF p
  <2>3. cleared \in Progress /\ NotedIsTrue(cleared, s) /\ cleared.status = p.status
    BY <1>2, <1>3 DEF Progress, NotedIsTrue
  <2> HIDE DEF m, cleared
  <2>4. scopes \in [Scopes -> Progress]
    BY <1>2, <2>3 DEF Worker
  <2> HIDE DEF scopes
  <2>5. r \in Worker /\ r.scopes = scopes /\ r.pc = "delete"
    BY <1>2, <2>4 DEF Worker
  <2> HIDE DEF r
  <2> QED BY <1>0, <2>1, <2>2, <2>3, <2>5 DEF scopes, m, p
<1> QED BY <1>4, <1>5

LEMMA ListKeeps ==
  ASSUME SweepInv, NEW k \in Workers, List(k)
  PROVE  SweepInv'
<1>1. UNCHANGED <<writer, job, ws, objects>> /\ worker[k].pc \in {"walk", "delete"}
  BY DEF List
<1>2. objects' \in [Scopes -> SUBSET Writers] /\ \A t \in Scopes : objects'[t] \subseteq objects[t]
  BY <1>1 DEF SweepInv, TypeOK, LeaseTypeOK
<1>3. PICK s \in Scopes, p \in Progress, r \in Worker :
        /\ At(k, s) /\ NotedIsTrue(p, s)
        /\ worker' = [worker EXCEPT ![k] = r]
        /\ r.scopes = [worker[k].scopes EXCEPT ![s] = p]
        /\ r.pc = "delete" \/ (r.pc = "persist" /\ r.patch = "keep")
        /\ Fault \/ NoFault
  BY ListEffect
<1> QED BY <1>1, <1>2, <1>3, ScopeKeeps

LEMMA ListFailsKeeps ==
  ASSUME SweepInv, NEW k \in Workers, ListFails(k)
  PROVE  SweepInv'
<1>1. UNCHANGED <<writer, job, ws, objects>> /\ Fault /\ worker[k].pc \in {"walk", "delete"}
  BY DEF ListFails
<1>2. objects' \in [Scopes -> SUBSET Writers] /\ \A t \in Scopes : objects'[t] \subseteq objects[t]
  BY <1>1 DEF SweepInv, TypeOK, LeaseTypeOK
<1>3. CASE Write(k, "retry")
  BY <1>1, <1>2, <1>3, WriteKeeps DEF Patches
<1>4. CASE \E s \in Scopes : At(k, s) /\ ScopeFails(k, s)
  BY <1>1, <1>2, <1>4, ScopeFailsKeeps
<1> QED BY <1>3, <1>4 DEF ListFails

LEMMA DeleteKeysKeeps ==
  ASSUME SweepInv, NEW k \in Workers, DeleteKeys(k)
  PROVE  SweepInv'
<1> DEFINE p(s) == worker[k].scopes[s]
           more == worker[k].more
           next(s) == IF p(s).status = "done" \/ more THEN "in_progress" ELSE "done"
           q(s) == [p(s) EXCEPT !.status = next(s), !.cursor = more]
<1>1. UNCHANGED <<writer, job, ws>> /\ NoFault /\ worker[k].pc \in {"walk", "delete"}
  BY DEF DeleteKeys
<1>2. PICK s \in Scopes :
        /\ At(k, s)
        /\ objects' = [objects EXCEPT ![s] = @ \ worker[k].keys]
        /\ Scoped(k, s, q(s), "persist", "progress")
  BY DEF DeleteKeys
<1>3. objects' \in [Scopes -> SUBSET Writers] /\ \A t \in Scopes : objects'[t] \subseteq objects[t]
  BY <1>2 DEF SweepInv, TypeOK, LeaseTypeOK
<1>4. Over /\ p(s) \in Progress /\ NotedIsTrue(p(s), s) /\ more \in BOOLEAN
  BY <1>1, PastTheGate, TicksAreGood DEF Worker
<1>5. q(s) \in Progress /\ NotedIsTrue(q(s), s)
  <2> HIDE DEF p, more
  <2> QED BY <1>4, Zenon DEF Progress, NotedIsTrue
<1> HIDE DEF q
<1> QED BY <1>1, <1>2, <1>3, <1>5, ScopedKeeps

LEMMA DeleteFailsKeeps ==
  ASSUME SweepInv, NEW k \in Workers, DeleteFails(k)
  PROVE  SweepInv'
<1>1. UNCHANGED <<writer, job, ws>> /\ worker[k].pc \in {"walk", "delete"}
  BY DEF DeleteFails
<1>2. PICK s \in Scopes, gone \in SUBSET worker[k].keys :
        /\ At(k, s)
        /\ objects' = [objects EXCEPT ![s] = @ \ gone]
        /\ \/ ScopeFails(k, s) /\ Fault
           \/ Write(k, "retry") /\ (Fault \/ NoFault)
  BY DEF DeleteFails
<1>3. objects' \in [Scopes -> SUBSET Writers] /\ \A t \in Scopes : objects'[t] \subseteq objects[t]
  BY <1>2 DEF SweepInv, TypeOK, LeaseTypeOK
<1>4. CASE ScopeFails(k, s) /\ Fault
  BY <1>1, <1>2, <1>3, <1>4, ScopeFailsKeeps
<1>5. CASE Write(k, "retry") /\ (Fault \/ NoFault)
  BY <1>1, <1>3, <1>5, WriteKeeps DEF Patches
<1> QED BY <1>2, <1>4, <1>5

\* All that is settled is over.
LEMMA SettledIsOver ==
  ASSUME SweepInv, ws # "active", AllSettled(job.scopes)
  PROVE  Over
<1>1. SUFFICES ASSUME NEW w \in Writers, Counts(w) PROVE FALSE
  BY DEF Over, HasActiveLeases
<1>2. Primary[w] \in Scopes
  BY LeaseAssumption
<1> QED BY <1>1, <1>2 DEF SweepInv, NotesAreTrue, NotedIsTrue, AllSettled, Settled, Over, HasActiveLeases

LEMMA RecheckKeeps ==
  ASSUME SweepInv, NEW k \in Workers, Recheck(k)
  PROVE  SweepInv'
<1>1. /\ UNCHANGED <<writer, job, ws, objects>> /\ worker[k].pc = "recheck"
      /\ AllSettled(job.scopes) /\ ws # "active"
  BY DEF Recheck, SweepInv, RowsGoLast, TicksAreGated
<1>2. Over
  BY <1>1, SettledIsOver
<1>3. objects' \in [Scopes -> SUBSET Writers] /\ \A t \in Scopes : objects'[t] \subseteq objects[t]
  BY <1>1 DEF SweepInv, TypeOK, LeaseTypeOK
<1>4. CASE To(k, "purge") /\ NoFault
  BY <1>1, <1>2, <1>4, ToKeeps
<1>5. CASE Write(k, "revert") /\ Fault
  <2>1. faults' > 0
    BY <1>5 DEF SweepInv, TypeOK, LeaseTypeOK, Fault
  <2> QED BY <1>1, <1>3, <1>5, <2>1, WriteKeeps DEF Patches
<1> QED BY <1>2, <1>4, <1>5 DEF Recheck, Over

LEMMA PurgeKeeps ==
  ASSUME SweepInv, NEW k \in Workers, Purge(k)
  PROVE  SweepInv'
<1>1. /\ UNCHANGED <<writer, job, objects>> /\ worker[k].pc = "purge" /\ Over
      /\ AllSettled(job.scopes) /\ ws # "active"
  BY DEF Purge, SweepInv, RowsGoLast, TicksAreGated
<1>2. objects' \in [Scopes -> SUBSET Writers] /\ \A t \in Scopes : objects'[t] \subseteq objects[t]
  BY <1>1 DEF SweepInv, TypeOK, LeaseTypeOK
<1>3. (UNCHANGED ws \/ ws' = "gone") /\ (Fault \/ NoFault) /\ (Write(k, "complete") \/ To(k, "exists"))
  BY DEF Purge
<1>4. CASE Write(k, "complete")
  BY <1>1, <1>2, <1>3, <1>4, WriteKeeps DEF Patches
<1>5. CASE To(k, "exists")
  BY <1>1, <1>3, <1>5, ToKeeps
<1> QED BY <1>3, <1>4, <1>5

\* The steps of a tick but for those that write the job.
LEMMA QuietTickStepKeeps ==
  ASSUME SweepInv, NEW k \in Workers,
         \/ Gate(k) \/ WalkEnds(k) \/ List(k) \/ ListFails(k) \/ DeleteKeys(k) \/ DeleteFails(k)
         \/ Recheck(k) \/ Purge(k) \/ Exists(k) \/ CrashWorker(k)
  PROVE  SweepInv'
<1>0. objects \in [Scopes -> SUBSET Writers] /\ (worker[k].pc # "idle" => ws # "active")
  BY DEF SweepInv, TypeOK, LeaseTypeOK, TicksAreGated
<1>1. CASE Gate(k)
  <2>1. CASE Write(k, "yield") /\ (Fault \/ NoFault)
    BY <1>0, <1>1, <2>1, WriteKeeps DEF Gate, Patches
  <2>2. CASE ~HasActiveLeases /\ To(k, "walk") /\ NoFault
    BY <1>0, <1>1, <2>2, ToKeeps DEF Gate, Over
  <2> QED BY <1>1, <2>1, <2>2 DEF Gate
<1>2. CASE WalkEnds(k)
  <2>1. AllSettled(worker[k].scopes) /\ NoFault
    BY <1>2 DEF WalkEnds, AllSettled, leaseVars, NoFault
  <2> QED BY <1>0, <1>2, <2>1, WriteKeeps DEF WalkEnds, leaseVars, Patches
<1>3. CASE Exists(k)
  <2>1. Write(k, "retry") \/ Write(k, "complete")
    BY <1>3 DEF Exists
  <2> QED BY <1>0, <1>3, <2>1, WriteKeeps DEF Exists, Patches
<1>4. CASE CrashWorker(k)
  BY <1>4, DropKeeps DEF CrashWorker
<1> QED BY <1>1, <1>2, <1>3, <1>4, ListKeeps, ListFailsKeeps, DeleteKeysKeeps, DeleteFailsKeeps, RecheckKeeps,
          PurgeKeeps

\* A step that writes the job.
LEMMA JobStepKeeps ==
  ASSUME SweepInv, UNCHANGED <<writer, objects>>, Fault \/ NoFault,
         UNCHANGED ws \/ (ws = "active" /\ ws' = "deleting"),
         NEW j \in Job, job' = j, worker' \in [Workers -> Worker],
         \A k \in Workers : GoodTick(k, worker'[k], j),
         \A s \in Scopes : NotedIsTrue(j.scopes[s], s),
         ws' = "active" => j.status = "none",
         ws = "gone" \/ j.status = "db_cleanup" => AllSettled(j.scopes),
         \A k \in Workers : worker'[k].pc = "persist" /\ worker'[k].patch = "revert" => faults > 0
  PROVE  SweepInv'
<1>1. TypeOK'
  <2>1. LeaseTypeOK'
    BY FaultCounts DEF SweepInv, TypeOK, LeaseTypeOK
  <2> QED BY <2>1 DEF TypeOK
<1>2. /\ Over => Over'
      /\ \A s \in Scopes : Clean(s) => Clean(s)'
      /\ LeaseCovers' /\ NothingPending'
  BY CleanStays
<1>3. TicksAreGated'
  BY <1>2 DEF SweepInv, TicksAreGated, Patching, GoodTick
<1>4. NotesAreTrue'
  BY <1>2 DEF NotesAreTrue, NotedIsTrue, GoodTick
<1>5. HolderKnows' /\ EndedIsDropped'
  BY DEF HolderKnows, EndedIsDropped, GoodTick, Settled
<1>6. RowsGoLast'
  BY FaultCounts DEF SweepInv, TypeOK, RowsGoLast, GoodTick, AllSettled, Settled, Patching
<1> QED BY <1>1, <1>2, <1>3, <1>4, <1>5, <1>6 DEF SweepInv

\* The job is taken back, or its lease is renewed or runs out.
LEMMA SameJobKeeps ==
  ASSUME SweepInv, UNCHANGED <<writer, objects, ws, worker>>, Fault \/ NoFault,
         NEW j \in Job, job' = j, j.token = job.token, j.scopes = job.scopes,
         j.status = job.status \/ (job.status = "failed" /\ j.status = "storage_cleanup")
  PROVE  SweepInv'
<1>1. \A k \in Workers : GoodTick(k, worker'[k], j)
  BY TicksAreGood DEF GoodTick
<1>2. worker' \in [Workers -> Worker]
  BY DEF SweepInv, TypeOK
<1>3. \A s \in Scopes : NotedIsTrue(j.scopes[s], s)
  BY DEF SweepInv, NotesAreTrue
<1>4. /\ ws' = "active" => j.status = "none"
      /\ ws = "gone" \/ j.status = "db_cleanup" => AllSettled(j.scopes)
      /\ \A k \in Workers : worker'[k].pc = "persist" /\ worker'[k].patch = "revert" => faults > 0
  BY DEF SweepInv, TicksAreGated, RowsGoLast, Patching
<1> QED BY <1>1, <1>2, <1>3, <1>4, JobStepKeeps

LEMMA LeasedKeeps ==
  ASSUME SweepInv, RetryJob \/ JobLeaseExpires \/ \E k \in Workers : RenewJob(k)
  PROVE  SweepInv'
<1>1. job \in Job
  BY DEF SweepInv, TypeOK
<1>2. CASE RetryJob
  <2> DEFINE j == [job EXCEPT !.status = "storage_cleanup", !.leased = FALSE]
  <2>1. /\ j \in Job /\ j.token = job.token /\ j.scopes = job.scopes /\ j.status = "storage_cleanup"
    BY <1>1 DEF Job
  <2>2. job' = j /\ job.status = "failed"
    BY <1>2 DEF RetryJob
  <2> HIDE DEF j
  <2> QED BY <1>2, <2>1, <2>2, SameJobKeeps DEF RetryJob, leaseVars, NoFault
<1>3. ASSUME NEW leased \in BOOLEAN, job' = [job EXCEPT !.leased = leased],
             UNCHANGED <<writer, objects, ws, worker>>, Fault \/ NoFault
      PROVE  SweepInv'
  <2> DEFINE j == [job EXCEPT !.leased = leased]
  <2>1. j \in Job /\ j.token = job.token /\ j.scopes = job.scopes /\ j.status = job.status
    BY <1>1 DEF Job
  <2>2. job' = j
    BY <1>3
  <2> HIDE DEF j
  <2> QED BY <1>3, <2>1, <2>2, SameJobKeeps
<1>4. CASE JobLeaseExpires
  BY <1>3, <1>4 DEF JobLeaseExpires
<1>5. CASE \E k \in Workers : RenewJob(k)
  BY <1>3, <1>5 DEF RenewJob, leaseVars, NoFault
<1> QED BY <1>2, <1>4, <1>5

LEMMA EnqueueKeeps ==
  ASSUME SweepInv, Enqueue
  PROVE  SweepInv'
<1> DEFINE j == [job EXCEPT !.status = "pending"]
<1>1. job' = j /\ ws = "active" /\ ws' = "deleting" /\ UNCHANGED <<writer, objects, faults, worker>>
  BY DEF Enqueue
<1>2. j \in Job /\ j.scopes = job.scopes /\ j.status = "pending"
  BY DEF SweepInv, TypeOK, Job
<1> HIDE DEF j
<1>3. \A k \in Workers : worker[k].pc = "idle"
  BY <1>1 DEF SweepInv, TicksAreGated
<1>4. \A k \in Workers : GoodTick(k, worker'[k], j)
  BY <1>1, <1>3, TicksAreGood DEF GoodTick
<1>5. worker' \in [Workers -> Worker]
  BY <1>1 DEF SweepInv, TypeOK
<1>6. \A s \in Scopes : NotedIsTrue(j.scopes[s], s)
  BY <1>2 DEF SweepInv, NotesAreTrue
<1> QED BY <1>1, <1>2, <1>3, <1>4, <1>5, <1>6, JobStepKeeps DEF NoFault

LEMMA ClaimKeeps ==
  ASSUME SweepInv, NEW k \in Workers, Claim(k)
  PROVE  SweepInv'
<1> DEFINE status == IF job.status = "pending" THEN "storage_cleanup" ELSE job.status
           j == [job EXCEPT !.token = k, !.leased = TRUE, !.status = status]
           pc == IF job.status = "db_cleanup" THEN "recheck" ELSE "gate"
           m == worker[k]
           r == [m EXCEPT !.pc = pc, !.scopes = job.scopes, !.attempts = job.attempts]
<1>1. job \in Job /\ m \in Worker /\ worker \in [Workers -> Worker]
  BY DEF SweepInv, TypeOK
<1>2. /\ job.status \in {"pending", "storage_cleanup", "db_cleanup"} /\ m.pc = "idle"
      /\ job' = j /\ UNCHANGED <<ws, writer, objects>> /\ (Fault \/ NoFault)
      /\ worker' = [worker EXCEPT ![k] = r] \/ UNCHANGED worker
  BY DEF Claim
<1>3. ws # "active"
  BY <1>2 DEF SweepInv, TicksAreGated
<1>4. /\ j \in Job /\ j.token = k /\ j.scopes = job.scopes /\ j.status = status
  BY <1>1, <1>2 DEF Job
<1>5. /\ r \in Worker /\ r.pc = pc /\ r.scopes = job.scopes
  <2>1. job.scopes \in [Scopes -> Progress] /\ job.attempts \in 0..MaxJobAttempts /\ pc \in {"recheck", "gate"}
    BY <1>1 DEF Job
  <2> HIDE DEF m, pc
  <2> QED BY <1>1, <2>1 DEF Worker
<1>6. status # "completed" /\ (status = "db_cleanup" <=> job.status = "db_cleanup")
  BY <1>2
<1>7. pc = "recheck" => job.status = "db_cleanup"
  OBVIOUS
<1> HIDE DEF j, r, status
<1>8. \A s \in Scopes : NotedIsTrue(job.scopes[s], s)
  BY DEF SweepInv, NotesAreTrue
<1>9. job.status = "db_cleanup" \/ ws = "gone" => AllSettled(job.scopes)
  BY DEF SweepInv, RowsGoLast
<1>10. GoodTick(k, r, j)
  BY <1>3, <1>4, <1>5, <1>6, <1>7, <1>8, <1>9 DEF GoodTick
<1>11. \A i \in Workers : worker'[i] = worker[i] \/ (i = k /\ worker'[i] = r)
  BY <1>1, <1>2
<1>12. \A i \in Workers : GoodTick(i, worker'[i], j)
  <2>1. ASSUME NEW i \in Workers, i = k, worker'[i] = r PROVE GoodTick(i, worker'[i], j)
    BY <1>10, <2>1
  <2>2. ASSUME NEW i \in Workers, worker'[i] = worker[i] PROVE GoodTick(i, worker'[i], j)
    BY <1>2, <1>4, <2>2, TicksAreGood DEF GoodTick
  <2> QED BY <1>11, <2>1, <2>2
<1>13. worker' \in [Workers -> Worker]
  BY <1>1, <1>2, <1>5
<1>14. \A i \in Workers : worker'[i].pc = "persist" /\ worker'[i].patch = "revert" => faults > 0
  BY <1>5, <1>11 DEF SweepInv, RowsGoLast, Patching
<1>15. \A s \in Scopes : NotedIsTrue(j.scopes[s], s)
  BY <1>4, <1>8
<1>16. ws = "gone" \/ j.status = "db_cleanup" => AllSettled(j.scopes)
  BY <1>4, <1>6, <1>9
<1> QED BY <1>2, <1>3, <1>4, <1>12, <1>13, <1>14, <1>15, <1>16, JobStepKeeps

LEMMA PatchedJob ==
  ASSUME SweepInv, NEW k \in Workers, worker[k].pc = "persist"
  PROVE  LET m == worker[k]
             j == Patched(k)
         IN
         /\ j \in Job /\ j.token = job.token
         /\ j.scopes = job.scopes \/ j.scopes = m.scopes
         /\ m.patch \in {"keep", "note"} => j.scopes = m.scopes /\ j.status = job.status
         /\ j.status = "completed" => m.patch = "complete" \/ j.status = job.status
         /\ \/ j.status = job.status
            \/ m.patch = "advance" /\ j.scopes = m.scopes /\ j.status = "db_cleanup"
            \/ m.patch = "revert" /\ j.status = "storage_cleanup"
            \/ j.status \in {"completed", "failed"}
<1> DEFINE m == worker[k]
           free == [job EXCEPT !.leased = FALSE]
           attempts == IF m.attempts < MaxJobAttempts THEN m.attempts + 1 ELSE job.attempts
           status == IF m.attempts + 1 >= MaxJobAttempts THEN "failed" ELSE job.status
           retried == [free EXCEPT !.scopes = m.scopes, !.attempts = attempts, !.status = status]
<1>1. m \in Worker /\ job \in Job
  BY DEF SweepInv, TypeOK
<1>2. m.scopes \in [Scopes -> Progress] /\ attempts \in 0..MaxJobAttempts /\ m.patch \in Patches
  BY <1>1, DeletionAssumption DEF Worker, Job
<1>3. free \in Job /\ free.token = job.token /\ free.scopes = job.scopes /\ free.status = job.status
  BY <1>1 DEF Job
<1>4. status \in {job.status, "failed"}
  OBVIOUS
<1> HIDE DEF free
<1>5. CASE m.patch \in {"keep", "note"}
  <2>1. Patched(k) = [job EXCEPT !.scopes = m.scopes]
    BY <1>5 DEF Patched
  <2> HIDE DEF m
  <2> QED BY <1>1, <1>2, <1>5, <2>1 DEF Job, m
<1>6. CASE m.patch = "yield"
  <2>1. Patched(k) = free
    BY <1>6 DEF Patched, free
  <2> QED BY <1>3, <1>6, <2>1
<1>7. CASE m.patch = "progress"
  <2>1. Patched(k) = [free EXCEPT !.scopes = m.scopes]
    BY <1>7 DEF Patched, free
  <2> HIDE DEF m
  <2> QED BY <1>2, <1>3, <1>7, <2>1 DEF Job, m
<1>8. CASE m.patch = "advance"
  <2>1. Patched(k) = [free EXCEPT !.scopes = m.scopes, !.status = "db_cleanup"]
    BY <1>8 DEF Patched, free
  <2> HIDE DEF m
  <2> QED BY <1>2, <1>3, <1>8, <2>1 DEF Job, m
<1>9. CASE m.patch = "revert"
  <2>1. Patched(k) = [free EXCEPT !.status = "storage_cleanup"]
    BY <1>9 DEF Patched, free
  <2> QED BY <1>3, <1>9, <2>1 DEF Job
<1>10. CASE m.patch = "complete"
  <2>1. Patched(k) = [free EXCEPT !.status = "completed"]
    BY <1>10 DEF Patched, free
  <2> QED BY <1>3, <1>10, <2>1 DEF Job
<1>11. CASE m.patch = "retry"
  <2>1. Patched(k) = retried
    BY <1>11, <1>3 DEF Patched, free
  <2> HIDE DEF m, attempts, status
  <2>2. status \in {"none", "pending", "storage_cleanup", "db_cleanup", "completed", "failed"}
    BY <1>1, <1>4 DEF Job
  <2>3. retried \in Job
    BY <1>2, <1>3, <2>2 DEF Job
  <2>4. retried.token = job.token /\ retried.scopes = m.scopes /\ retried.status = status
    BY <1>3 DEF Job
  <2> HIDE DEF retried
  <2> QED BY <1>4, <1>11, <2>1, <2>3, <2>4 DEF m
<1> QED BY <1>2, <1>5, <1>6, <1>7, <1>8, <1>9, <1>10, <1>11 DEF Patches

\* A write that went through, and what the tick does then.
LEMMA PatchedKeeps ==
  ASSUME SweepInv, NEW k \in Workers, worker[k].pc = "persist", Fenced(k), job' = Patched(k),
         UNCHANGED <<ws, writer, objects>>, Fault \/ NoFault,
         NEW r \in Worker, worker' = [worker EXCEPT ![k] = r],
         \/ r = IdleWorker
         \/ /\ r.scopes = worker[k].scopes
            /\ \/ worker[k].patch = "keep" /\ r.pc = "walk"
               \/ worker[k].patch = "note" /\ r.pc = "persist" /\ r.patch = "retry"
  PROVE  SweepInv'
<1> DEFINE m == worker[k]
           j == Patched(k)
<1>1. m \in Worker /\ GoodTick(k, m, job) /\ m.pc = "persist" /\ job.token = k
  BY TicksAreGood DEF Fenced
<1>2. /\ j \in Job /\ j.token = k
      /\ j.scopes = job.scopes \/ j.scopes = m.scopes
      /\ m.patch \in {"keep", "note"} => j.scopes = m.scopes /\ j.status = job.status
      /\ \/ j.status = job.status
         \/ m.patch = "advance" /\ j.scopes = m.scopes /\ j.status = "db_cleanup"
         \/ m.patch = "revert" /\ j.status = "storage_cleanup"
         \/ j.status \in {"completed", "failed"}
  BY <1>1, PatchedJob
<1>3. /\ job' = j
      /\ \/ r = IdleWorker
         \/ /\ r.scopes = m.scopes
            /\ \/ m.patch = "keep" /\ r.pc = "walk"
               \/ m.patch = "note" /\ r.pc = "persist" /\ r.patch = "retry"
  OBVIOUS
<1> HIDE DEF m, j
<1>4. ws # "active" /\ job.status # "completed"
  BY <1>1 DEF GoodTick
<1>5. \A s \in Scopes : Settled(job.scopes[s]) => j.scopes[s].status = job.scopes[s].status
  BY <1>1, <1>2 DEF GoodTick
<1>6. AllSettled(job.scopes) => AllSettled(j.scopes)
  BY <1>5 DEF AllSettled, Settled
<1>7. \A s \in Scopes : NotedIsTrue(j.scopes[s], s)
  BY <1>1, <1>2 DEF GoodTick, SweepInv, NotesAreTrue
<1>8. ws = "gone" \/ j.status = "db_cleanup" => AllSettled(j.scopes)
  BY <1>1, <1>2, <1>6 DEF GoodTick, SweepInv, RowsGoLast
<1>9. GoodTick(k, r, j)
  <2>1. CASE r = IdleWorker
    BY <2>1 DEF GoodTick, IdleWorker, NoWork, Untouched, NotedIsTrue
  <2>2. CASE r.scopes = m.scopes /\ m.patch = "keep" /\ r.pc = "walk"
    BY <1>1, <1>2, <1>4, <2>2 DEF GoodTick
  <2>3. CASE r.scopes = m.scopes /\ m.patch = "note" /\ r.pc = "persist" /\ r.patch = "retry"
    BY <1>1, <1>2, <1>4, <2>3 DEF GoodTick
  <2> QED BY <1>3, <2>1, <2>2, <2>3
<1>10. \A i \in Workers : worker'[i] = IF i = k THEN r ELSE worker[i]
  BY DEF SweepInv, TypeOK
<1>11. \A i \in Workers : GoodTick(i, worker'[i], j)
  <2>1. ASSUME NEW i \in Workers, i # k PROVE GoodTick(i, worker[i], j)
    BY <1>1, <1>2, <1>6, <2>1, TicksAreGood DEF GoodTick
  <2> QED BY <1>9, <1>10, <2>1
<1>12. worker' \in [Workers -> Worker]
  BY DEF SweepInv, TypeOK
<1>13. \A i \in Workers : worker'[i].pc = "persist" /\ worker'[i].patch = "revert" => faults > 0
  <2>1. ~(r.pc = "persist" /\ r.patch = "revert")
    BY <1>3 DEF IdleWorker
  <2> QED BY <1>10, <2>1 DEF SweepInv, RowsGoLast, Patching
<1> QED BY <1>2, <1>3, <1>4, <1>7, <1>8, <1>11, <1>12, <1>13, JobStepKeeps

LEMMA PersistKeeps ==
  ASSUME SweepInv, NEW k \in Workers, Persist(k)
  PROVE  SweepInv'
<1> DEFINE m == worker[k]
           walks == [m EXCEPT !.pc = "walk"]
           retries == [m EXCEPT !.pc = "persist", !.patch = "retry"]
<1>1. m \in Worker /\ m.pc = "persist" /\ UNCHANGED <<ws, writer, objects>>
  BY TicksAreGood DEF Persist
<1>2. CASE UNCHANGED job /\ Drop(k) /\ (Fault \/ NoFault)
  BY <1>1, <1>2, DropKeeps
<1>3. CASE Fenced(k) /\ job' = Patched(k) /\ Drop(k) /\ (Fault \/ NoFault)
  <2>1. IdleWorker \in Worker
    <3>1. NoWork \in [Scopes -> Progress] /\ 0 \in 0..MaxJobAttempts
      BY DeletionAssumption DEF NoWork, Untouched, Progress
    <3> HIDE DEF NoWork
    <3> QED BY <3>1 DEF IdleWorker, Worker, Patches
  <2> QED BY <1>1, <1>3, <2>1, PatchedKeeps DEF Drop
<1>4. CASE Fenced(k) /\ job' = Patched(k) /\ m.patch = "keep" /\ To(k, "walk") /\ NoFault
  <2>1. worker' = [worker EXCEPT ![k] = walks]
    BY <1>4 DEF To
  <2> HIDE DEF m
  <2>2. walks \in Worker /\ walks.scopes = m.scopes /\ walks.pc = "walk"
    BY <1>1 DEF Worker
  <2> HIDE DEF walks
  <2> QED BY <1>1, <1>4, <2>1, <2>2, PatchedKeeps DEF m
<1>5. CASE Fenced(k) /\ job' = Patched(k) /\ m.patch = "note" /\ Write(k, "retry") /\ NoFault
  <2>1. worker' = [worker EXCEPT ![k] = retries]
    BY <1>5 DEF Write
  <2> HIDE DEF m
  <2>2. retries \in Worker /\ retries.scopes = m.scopes /\ retries.pc = "persist" /\ retries.patch = "retry"
    BY <1>1 DEF Worker, Patches
  <2> HIDE DEF retries
  <2> QED BY <1>1, <1>5, <2>1, <2>2, PatchedKeeps DEF m
<1> QED BY <1>2, <1>3, <1>4, <1>5 DEF Persist

\* Nothing is under way at the start.
LEMMA InitSweeps == Init => SweepInv
<1> SUFFICES ASSUME Init PROVE SweepInv
  OBVIOUS
<1> USE DEF Init, LeaseInit
<1>1. \A w \in Writers : GoodRow(w, writer[w])
  <2>1. IdleWriter \in Writer
    <3>1. 0 \in 0..(PutTimeout + Late) /\ 0 \in 0..(Lease + Grace) /\ FALSE \in BOOLEAN
      BY LeaseAssumption
    <3> QED BY <3>1 DEF IdleWriter, Writer
  <2>2. /\ IdleWriter.pc = "idle" /\ ~IdleWriter.swallowed /\ ~IdleWriter.row
        /\ \A s \in Scopes : IdleWriter.req[s] = "none"
    BY DEF IdleWriter
  <2> QED BY <2>1, <2>2 DEF GoodRow, CoveredRow, PendingRow, SentRow
<1>2. NoWork \in [Scopes -> Progress] /\ \A s \in Scopes : NotedIsTrue(NoWork[s], s) /\ ~Settled(NoWork[s])
  BY DeletionAssumption DEF NoWork, Untouched, Progress, NotedIsTrue, Settled
<1>3. 0 \in 0..MaxJobAttempts /\ faults \in 0..MaxFaults
  BY LeaseAssumption, DeletionAssumption
<1> HIDE DEF NoWork
<1>4. job \in Job
  BY <1>2, <1>3 DEF Job
<1>5. IdleWorker \in Worker
  BY <1>2, <1>3 DEF IdleWorker, Worker, Patches
<1>6. TypeOK
  BY <1>1, <1>3, <1>4, <1>5 DEF TypeOK, LeaseTypeOK, GoodRow
<1>7. LeaseCovers /\ NothingPending
  BY <1>1, GoodRowsCover
<1>8. TicksAreGated /\ NotesAreTrue /\ HolderKnows /\ RowsGoLast /\ EndedIsDropped
  BY <1>2 DEF IdleWorker, TicksAreGated, NotesAreTrue, HolderKnows, RowsGoLast, EndedIsDropped, Patching, Settled
<1> QED BY <1>6, <1>7, <1>8 DEF SweepInv

\* Every step keeps what sweeping rests on.
LEMMA NextSweeps == SweepInv /\ [Next]_vars => SweepInv'
<1> SUFFICES ASSUME SweepInv, [Next]_vars PROVE SweepInv'
  OBVIOUS
<1>1. CASE UNCHANGED vars
  BY <1>1 DEF vars, leaseVars, SweepInv, TypeOK, LeaseTypeOK, LeaseCovers, NothingPending, Sent, InPut, TicksAreGated, NotesAreTrue,
       NotedIsTrue, Clean, Over, HasActiveLeases, Counts, HolderKnows, RowsGoLast, EndedIsDropped, AllSettled,
       Patching, Settled
<1>2. CASE LeaseNext /\ UNCHANGED <<job, worker>>
  BY <1>2, LeaseNextKeeps
<1>3. CASE Enqueue
  BY <1>3, EnqueueKeeps
<1>4. CASE RetryJob \/ JobLeaseExpires \/ \E k \in Workers : RenewJob(k)
  BY <1>4, LeasedKeeps
<1>5. ASSUME NEW k \in Workers, TickStep(k) \/ CrashWorker(k) PROVE SweepInv'
  BY <1>5, QuietTickStepKeeps, ClaimKeeps, PersistKeeps DEF TickStep
<1> QED BY <1>1, <1>2, <1>3, <1>4, <1>5 DEF Next, DeletionNext

-----------------------------------------------------------------------------
(* Completion                                                                *)

\* What a tick has come to that may end in a completed job.
AtTheEnd(n) == n.pc = "exists" \/ (n.pc = "persist" /\ n.patch = "complete")

\* How a tick goes on, where it can tell no more of the end than before.
LEMMA TicksArrive ==
  ASSUME SweepInv, NEW j \in Workers, NEW k \in Workers
  PROVE  /\ \A pc : To(j, pc) /\ pc \notin {"exists", "persist"} =>
                worker'[k] = worker[k] \/ ~AtTheEnd(worker'[k])
         /\ \A patch : Write(j, patch) /\ patch # "complete" =>
                worker'[k] = worker[k] \/ ~AtTheEnd(worker'[k])
         /\ \A s \in Scopes : \A p, patch : Scoped(j, s, p, "persist", patch) /\ patch # "complete" =>
                worker'[k] = worker[k] \/ ~AtTheEnd(worker'[k])
         /\ Drop(j) => worker'[k] = worker[k] \/ ~AtTheEnd(worker'[k])
<1>1. worker \in [Workers -> Worker]
  BY DEF SweepInv, TypeOK
<1>2. worker[j] \in Worker
  BY <1>1
<1>3. ASSUME NEW pc, To(j, pc), pc \notin {"exists", "persist"}
      PROVE  worker'[k] = worker[k] \/ ~AtTheEnd(worker'[k])
  BY <1>1, <1>2, <1>3 DEF To, AtTheEnd, Worker
<1>4. ASSUME NEW patch, Write(j, patch), patch # "complete"
      PROVE  worker'[k] = worker[k] \/ ~AtTheEnd(worker'[k])
  BY <1>1, <1>2, <1>4 DEF Write, AtTheEnd, Worker
<1>5. ASSUME NEW s \in Scopes, NEW p, NEW patch,
             Scoped(j, s, p, "persist", patch), patch # "complete"
      PROVE  worker'[k] = worker[k] \/ ~AtTheEnd(worker'[k])
  BY <1>1, <1>2, <1>5 DEF Scoped, AtTheEnd, Worker
<1>6. ASSUME Drop(j)
      PROVE  worker'[k] = worker[k] \/ ~AtTheEnd(worker'[k])
  BY <1>1, <1>2, <1>6 DEF Drop, AtTheEnd, IdleWorker
<1> QED BY <1>3, <1>4, <1>5, <1>6

\* Only a purge and the question after it bring a tick there.
LEMMA EndsByPurge ==
  ASSUME SweepInv, [Next]_vars, NEW k \in Workers
  PROVE  worker'[k] = worker[k] \/ ~AtTheEnd(worker'[k]) \/ Purge(k) \/ Exists(k)
<1>1. worker \in [Workers -> Worker]
  BY DEF SweepInv, TypeOK
<1>2. CASE UNCHANGED worker
  BY <1>2
<1>3. ASSUME NEW j \in Workers, Claim(j)
      PROVE  worker'[k] = worker[k] \/ ~AtTheEnd(worker'[k])
  <2>1. worker[j] \in Worker
    BY <1>1
  <2> QED BY <1>1, <1>3, <2>1 DEF Claim, AtTheEnd, Worker
<1>4. ASSUME NEW j \in Workers, Gate(j) \/ WalkEnds(j) \/ Recheck(j) \/ CrashWorker(j)
      PROVE  worker'[k] = worker[k] \/ ~AtTheEnd(worker'[k])
  <2>1. \/ Write(j, "yield") \/ To(j, "walk") \/ Write(j, "advance")
        \/ Write(j, "revert") \/ To(j, "purge") \/ Drop(j)
    BY <1>4 DEF Gate, WalkEnds, Recheck, CrashWorker
  <2> QED BY <2>1, TicksArrive
<1>5. ASSUME NEW j \in Workers, List(j)
      PROVE  worker'[k] = worker[k] \/ ~AtTheEnd(worker'[k])
  <2>1. PICK r : worker' = [worker EXCEPT ![j] = r] /\ ~AtTheEnd(r)
    BY <1>5, ListEffect DEF AtTheEnd
  <2> QED BY <1>1, <2>1
<1>6. ASSUME NEW j \in Workers, ListFails(j) \/ DeleteKeys(j) \/ DeleteFails(j)
      PROVE  worker'[k] = worker[k] \/ ~AtTheEnd(worker'[k])
  <2>1. \A s \in Scopes : ScopeFails(j, s) =>
          \E p, patch : patch # "complete" /\ Scoped(j, s, p, "persist", patch)
    BY Zenon DEF ScopeFails
  <2>2. \/ \E s \in Scopes : ScopeFails(j, s)
        \/ Write(j, "retry")
        \/ \E s \in Scopes : \E p : Scoped(j, s, p, "persist", "progress")
    BY <1>6, Zenon DEF ListFails, DeleteKeys, DeleteFails
  <2> QED BY <2>1, <2>2, TicksArrive
<1>7. ASSUME NEW j \in Workers, Persist(j)
      PROVE  worker'[k] = worker[k] \/ ~AtTheEnd(worker'[k])
  <2>1. To(j, "walk") \/ Write(j, "retry") \/ Drop(j)
    BY <1>7 DEF Persist
  <2> QED BY <2>1, TicksArrive
<1>8. ASSUME NEW j \in Workers, j # k, Purge(j) \/ Exists(j)
      PROVE  worker'[k] = worker[k]
  BY <1>1, <1>8 DEF Purge, Exists, To, Write
<1> QED BY <1>2, <1>3, <1>4, <1>5, <1>6, <1>7, <1>8
     DEF Next, DeletionNext, TickStep, Enqueue, RetryJob, JobLeaseExpires, RenewJob, leaseVars, vars

\* A workspace that is gone stays gone, and faults are only counted up.
LEMMA GoneStays ==
  ASSUME SweepInv, [Next]_vars
  PROVE  /\ ws = "gone" => ws' = "gone"
         /\ faults \in Nat /\ faults' \in Nat /\ faults <= faults'
<1>1. faults \in Nat
  BY LeaseAssumption DEF SweepInv, TypeOK, LeaseTypeOK
<1>2. (Fault \/ NoFault) => faults' \in Nat /\ faults <= faults'
  BY <1>1 DEF Fault, NoFault
<1>3. CASE UNCHANGED vars
  BY <1>1, <1>3 DEF vars, leaseVars
<1>4. CASE LeaseNext
  <2>1. UNCHANGED ws
    BY <1>4 DEF LeaseNext, Acquire, AcquireRefused, Heartbeat, WriterStep, PutPrimary, PrimaryAnswers,
         MirrorsAnswer, PutThrows, Confirm, Release, Provider, Land, Refuse, CrashWriter, Tick
  <2>2. Fault \/ NoFault
    BY <1>4 DEF LeaseNext, Acquire, AcquireRefused, Heartbeat, WriterStep, PutPrimary, PrimaryAnswers,
         MirrorsAnswer, PutThrows, Confirm, Release, Provider, Land, Refuse, CrashWriter, Tick, NoFault
  <2> QED BY <1>1, <1>2, <2>1, <2>2
<1>5. CASE DeletionNext
  <2>1. ws = "gone" => ws' = "gone"
    BY <1>5 DEF DeletionNext, TickStep, Enqueue, RetryJob, JobLeaseExpires, Claim, Gate, WalkEnds, List,
         ListFails, DeleteKeys, DeleteFails, Recheck, Purge, Exists, Persist, RenewJob, CrashWorker, leaseVars
  <2>2. Fault \/ NoFault
    BY <1>5, ListEffect DEF DeletionNext, TickStep, Enqueue, RetryJob, JobLeaseExpires, Claim, Gate, WalkEnds,
         ListFails, DeleteKeys, DeleteFails, Recheck, Purge, Exists, Persist, RenewJob, CrashWorker, leaseVars,
         NoFault
  <2> QED BY <1>1, <1>2, <2>1, <2>2
<1> QED BY <1>3, <1>4, <1>5 DEF Next

\* A job is completed by a tick that has come to its end.
LEMMA CompletedByPatch ==
  ASSUME SweepInv, [Next]_vars, job'.status = "completed", job.status # "completed"
  PROVE  \E k \in Workers : Patching(k, {"complete"})
<1>1. job \in Job
  BY DEF SweepInv, TypeOK
<1>2. ~UNCHANGED job
  OBVIOUS
<1>3. CASE Enqueue \/ RetryJob \/ JobLeaseExpires \/ \E k \in Workers : RenewJob(k) \/ Claim(k)
  BY <1>1, <1>3 DEF Enqueue, RetryJob, JobLeaseExpires, RenewJob, Claim, Job
<1>4. ASSUME NEW k \in Workers, Persist(k) PROVE Patching(k, {"complete"})
  <2>1. job' = Patched(k) /\ worker[k].pc = "persist"
    BY <1>2, <1>4 DEF Persist
  <2> QED BY <2>1, PatchedJob DEF Patching
<1> QED BY <1>2, <1>3, <1>4
     DEF Next, DeletionNext, TickStep, Gate, WalkEnds, List, ListFails, DeleteKeys, DeleteFails, Recheck, Purge,
         Exists, CrashWorker, vars

\* A purge that was not made, and a wrong answer to the question whether it was,
\* are a fault each.
LEMMA CompletionKeeps ==
  ASSUME Inv, [Next]_vars
  PROVE  CompletionIsPaid'
<1> SUFFICES ASSUME ws' # "gone"
             PROVE  /\ \A k \in Workers : worker'[k].pc = "exists" => faults' > 0
                    /\ \A k \in Workers : worker'[k].pc = "persist" /\ worker'[k].patch = "complete" => faults' > 1
                    /\ job'.status = "completed" => faults' > 1
  BY DEF CompletionIsPaid, Patching
<1>1. SweepInv /\ CompletionIsPaid /\ worker \in [Workers -> Worker]
  BY DEF Inv, SweepInv, TypeOK
<1>2. ws # "gone" /\ faults \in Nat /\ faults' \in Nat /\ faults <= faults'
  BY <1>1, GoneStays
<1>3. ASSUME NEW k \in Workers
      PROVE  /\ worker'[k].pc = "exists" => faults' > 0
             /\ worker'[k].pc = "persist" /\ worker'[k].patch = "complete" => faults' > 1
  <2>1. worker[k] \in Worker
    BY <1>1
  <2>2. CASE worker'[k] = worker[k]
    BY <1>1, <1>2, <2>2 DEF CompletionIsPaid, Patching
  <2>3. CASE ~AtTheEnd(worker'[k])
    BY <2>3 DEF AtTheEnd
  <2>4. CASE Purge(k)
    <3>1. To(k, "exists") /\ Fault
      BY <1>2, <2>4 DEF Purge
    <3>2. worker'[k].pc = "exists"
      BY <1>1, <2>1, <3>1 DEF To, Worker
    <3> QED BY <1>2, <3>1, <3>2 DEF Fault
  <2>5. CASE Exists(k)
    <3>1. worker[k].pc = "exists"
      BY <2>5 DEF Exists
    <3>2. faults > 0
      BY <1>1, <1>2, <3>1 DEF CompletionIsPaid
    <3>3. worker'[k].pc = "persist" /\ (worker'[k].patch = "complete" => Fault)
      BY <1>1, <1>2, <2>1, <2>5 DEF Exists, Write, Worker
    <3> QED BY <1>2, <3>2, <3>3 DEF Fault
  <2> QED BY <1>1, <2>2, <2>3, <2>4, <2>5, EndsByPurge
<1>4. job'.status = "completed" => faults' > 1
  BY <1>1, <1>2, CompletedByPatch DEF CompletionIsPaid
<1> QED BY <1>3, <1>4

\* A storage is given up, or passes for empty wrongly, by a fault.
LEMMA GivenUpKeeps ==
  ASSUME Inv, [Next]_vars
  PROVE  GivenUpIsPaid'
<1>0. SweepInv /\ GivenUpIsPaid /\ worker \in [Workers -> Worker] /\ job \in Job
  BY DEF Inv, SweepInv, TypeOK
<1> SUFFICES ASSUME faults' = 0
             PROVE  NoneGiven(job'.scopes) /\ \A k \in Workers : NoneGiven(worker'[k].scopes)
  BY DEF GivenUpIsPaid, NoneGiven
<1>1. faults = 0 /\ ~Fault
  BY <1>0, GoneStays DEF Fault
<1>2. NoneGiven(job.scopes) /\ \A k \in Workers : NoneGiven(worker[k].scopes)
  BY <1>0, <1>1 DEF GivenUpIsPaid
<1>3. NoneGiven(NoWork)
  BY DEF NoneGiven, NoWork, Untouched
<1>4. job'.scopes = job.scopes \/ \E k \in Workers : job'.scopes = worker[k].scopes
  <2>1. CASE UNCHANGED job
    BY <2>1
  <2>2. CASE Enqueue \/ RetryJob \/ JobLeaseExpires \/ \E k \in Workers : RenewJob(k) \/ Claim(k)
    BY <1>0, <2>2 DEF Enqueue, RetryJob, JobLeaseExpires, RenewJob, Claim, Job
  <2>3. ASSUME NEW k \in Workers, Persist(k), ~UNCHANGED job PROVE job'.scopes \in {job.scopes, worker[k].scopes}
    <3>1. job' = Patched(k) /\ worker[k].pc = "persist"
      BY <2>3 DEF Persist
    <3> QED BY <1>0, <3>1, PatchedJob
  <2> QED BY <2>1, <2>2, <2>3
       DEF Next, DeletionNext, TickStep, Gate, WalkEnds, List, ListFails, DeleteKeys, DeleteFails, Recheck, Purge,
           Exists, CrashWorker, vars
<1>5. ASSUME NEW k \in Workers
      PROVE  NoneGiven(worker'[k].scopes)
  <2>1. CASE UNCHANGED worker
    BY <1>2, <2>1
  <2>2. ASSUME NEW j \in Workers,
               \/ \E pc : To(j, pc)
               \/ \E patch : Write(j, patch)
               \/ Drop(j)
        PROVE  NoneGiven(worker'[k].scopes)
    <3>1. worker[j] \in Worker
      BY <1>0
    <3>2. worker'[k].scopes \in {worker[k].scopes, NoWork}
      <4>1. ASSUME NEW pc, To(j, pc) PROVE worker'[k].scopes = worker[k].scopes
        BY <1>0, <3>1, <4>1 DEF To, Worker
      <4>2. ASSUME NEW patch, Write(j, patch) PROVE worker'[k].scopes = worker[k].scopes
        BY <1>0, <3>1, <4>2 DEF Write, Worker
      <4>3. CASE Drop(j)
        BY <1>0, <4>3 DEF Drop, IdleWorker
      <4> QED BY <2>2, <4>1, <4>2, <4>3
    <3> QED BY <1>2, <1>3, <3>2
  <2>3. ASSUME NEW j \in Workers, Claim(j)
        PROVE  NoneGiven(worker'[k].scopes)
    <3>1. worker[j] \in Worker
      BY <1>0
    <3>2. worker'[k].scopes \in {worker[k].scopes, job.scopes}
      BY <1>0, <2>3, <3>1 DEF Claim, Worker
    <3> QED BY <1>2, <3>2
  <2>4. ASSUME NEW j \in Workers, NEW s \in Scopes, NEW p, NEW r,
               p.status \notin {"misread", "unreachable"}, worker' = [worker EXCEPT ![j] = r],
               r.scopes = [worker[j].scopes EXCEPT ![s] = p]
        PROVE  NoneGiven(worker'[k].scopes)
    <3>1. worker[j].scopes \in [Scopes -> Progress]
      BY <1>0 DEF Worker
    <3>2. NoneGiven(r.scopes)
      BY <1>2, <2>4, <3>1 DEF NoneGiven
    <3> QED BY <1>0, <1>2, <2>4, <3>2
  <2>5. ASSUME NEW j \in Workers, List(j)
        PROVE  NoneGiven(worker'[k].scopes)
    <3>1. PICK s \in Scopes, p \in Progress, r \in Worker :
            /\ worker' = [worker EXCEPT ![j] = r]
            /\ r.scopes = [worker[j].scopes EXCEPT ![s] = p]
            /\ p.status \in {"verified", worker[j].scopes[s].status}
      BY <1>0, <1>1, <2>5, ListEffect
    <3>2. p.status \notin {"misread", "unreachable"}
      BY <1>2, <3>1 DEF NoneGiven
    <3> HIDE DEF NoneGiven
    <3> QED BY <2>4, <3>1, <3>2, Zenon
  <2>6. ASSUME NEW j \in Workers, DeleteKeys(j)
        PROVE  NoneGiven(worker'[k].scopes)
    <3> DEFINE m == worker[j]
               next(s) == IF m.scopes[s].status = "done" \/ m.more THEN "in_progress" ELSE "done"
               q(s) == [m.scopes[s] EXCEPT !.status = next(s), !.cursor = m.more]
               scopes(s) == [m.scopes EXCEPT ![s] = q(s)]
               r(s) == [m EXCEPT !.pc = "persist", !.patch = "progress", !.scopes = scopes(s),
                          !.keys = {}, !.more = FALSE]
    <3>1. PICK s \in Scopes : Scoped(j, s, q(s), "persist", "progress")
      BY <2>6 DEF DeleteKeys
    <3>2. m \in Worker /\ m.scopes[s] \in Progress
      BY <1>0 DEF Worker
    <3>3. next(s) \in {"in_progress", "done"}
      OBVIOUS
    <3>4. worker' = [worker EXCEPT ![j] = r(s)]
      BY <3>1 DEF Scoped
    <3> HIDE DEF m, next
    <3>5. q(s).status = next(s)
      BY <3>2 DEF Progress
    <3> HIDE DEF q
    <3>6. r(s).scopes = scopes(s)
      <4> HIDE DEF scopes
      <4> QED BY <3>2 DEF Worker
    <3> HIDE DEF r
    <3>7. q(s).status \notin {"misread", "unreachable"}
      BY <3>3, <3>5
    <3> QED BY <2>4, <3>4, <3>6, <3>7, Zenon DEF m, scopes
  <2>7. ASSUME NEW j \in Workers, ListFails(j) \/ DeleteFails(j)
        PROVE  NoneGiven(worker'[k].scopes)
    <3>1. \E patch : Write(j, patch)
      BY <1>1, <2>7 DEF ListFails, DeleteFails
    <3> QED BY <2>2, <3>1
  <2>8. ASSUME NEW j \in Workers,
               \/ Gate(j) \/ WalkEnds(j) \/ Recheck(j) \/ Purge(j) \/ Exists(j) \/ Persist(j) \/ CrashWorker(j)
        PROVE  NoneGiven(worker'[k].scopes)
    <3>1. (\E pc : To(j, pc)) \/ (\E patch : Write(j, patch)) \/ Drop(j)
      BY <2>8 DEF Gate, WalkEnds, Recheck, Purge, Exists, Persist, CrashWorker
    <3> QED BY <2>2, <3>1
  <2> QED BY <2>1, <2>3, <2>5, <2>6, <2>7, <2>8
       DEF Next, DeletionNext, TickStep, Enqueue, RetryJob, JobLeaseExpires, RenewJob, leaseVars, vars
<1> QED BY <1>2, <1>4, <1>5

-----------------------------------------------------------------------------
(* The theorems *)

\* Nothing is completed at the start.
LEMMA InitHolds == Init => Inv
<1>1. Init => CompletionIsPaid
  BY DEF Init, CompletionIsPaid, Patching, IdleWorker
<1>2. Init => GivenUpIsPaid
  BY DEF Init, GivenUpIsPaid, NoneGiven, IdleWorker, NoWork, Untouched
<1> QED BY <1>1, <1>2, InitSweeps DEF Inv

\* Every step keeps the invariant.
LEMMA NextKeeps == Inv /\ [Next]_vars => Inv'
BY NextSweeps, CompletionKeeps, GivenUpKeeps DEF Inv

\* The invariant of an upload's lease, a deletion and its ticks.
THEOREM InvHolds == Spec => []Inv
<1> QED BY InitHolds, NextKeeps, PTL DEF Spec

\* The same without what completion is about.
LEMMA SweepHolds == Spec => []SweepInv
<1>1. Inv => SweepInv
  BY DEF Inv
<1> QED BY <1>1, InvHolds, PTL

\* A job is completed only when the workspace is gone, unless its purge failed and
\* the question whether it is still there failed as well.
THEOREM CompletedIsGone == Spec => []CompletedMeansGone
<1>1. Inv => CompletedMeansGone
  BY LeaseAssumption DEF Inv, SweepInv, TypeOK, LeaseTypeOK, CompletionIsPaid, CompletedMeansGone
<1> QED BY <1>1, InvHolds, PTL

-----------------------------------------------------------------------------
(* What it is for *)

\* When the workspace is gone, a storage whose last listing lost no body, and that
\* was not given up, holds nothing that a lease covered, and no request of such an
\* upload can bring anything back; and without a fault every storage is such a one.
THEOREM NothingIsLeftBehind == Spec => []NothingLeftBehind
<1>1. Inv => NothingLeftBehind
  <2> SUFFICES ASSUME Inv, ws = "gone", NEW w \in Writers, NEW s \in Scopes, ~writer[w].swallowed,
                      ~(job.scopes[s].status \in {"misread", "unreachable"} /\ faults > 0)
               PROVE  w \notin objects[s] /\ writer[w].req[s] # "sent"
    BY DEF NothingLeftBehind
  <2>1. SweepInv /\ faults \in Nat
    BY LeaseAssumption DEF Inv, SweepInv, TypeOK, LeaseTypeOK
  <2>2. AllSettled(job.scopes)
    BY <2>1 DEF SweepInv, RowsGoLast
  <2>3. job.scopes[s].status \notin {"misread", "unreachable"}
    BY <2>1 DEF Inv, GivenUpIsPaid, NoneGiven
  <2>4. Clean(s)
    BY <2>1, <2>2, <2>3 DEF AllSettled, Settled, SweepInv, NotesAreTrue, NotedIsTrue
  <2>5. ~Sent(w)
    BY <2>1, <2>4, OverIsQuiet DEF Clean
  <2> QED BY <2>4, <2>5 DEF Clean, Sent
<1> QED BY <1>1, InvHolds, PTL

\* The trailing renewal is of a lease that has not expired.
LEMMA ConfirmedIsUnexpired ==
  ASSUME SweepInv, [Next]_vars, NEW w \in Writers, writer[w].pc = "confirm", writer'[w].pc = "release"
  PROVE  Unexpired(w)
<1>0. \A v \in Writers : writer[v] \in Writer
  BY DEF SweepInv, TypeOK, LeaseTypeOK
<1>1. CASE UNCHANGED writer
  BY <1>1
<1>2. CASE Tick
  BY <1>0, <1>2 DEF Tick, Older, Writer
<1>a. ASSUME NEW v \in Writers, NEW n, writer' = [writer EXCEPT ![v] = n],
             n.pc # "release" \/ writer[v].pc # "confirm"
      PROVE  FALSE
  BY <1>a DEF SweepInv, TypeOK, LeaseTypeOK
<1>b. ASSUME NEW v \in Writers, NEW pc, Goto(v, pc), pc # "release" PROVE FALSE
  <2>1. [writer[v] EXCEPT !.pc = pc].pc = pc
    BY <1>0 DEF Writer
  <2> QED BY <1>a, <1>b, <2>1 DEF Goto
<1>3. ASSUME NEW v \in Writers, Acquire(v) \/ AcquireRefused(v) \/ Heartbeat(v) \/ CrashWriter(v)
      PROVE  Unexpired(w)
  <2>1. CASE Acquire(v)
    <3>1. writer[v].pc # "confirm" /\ \E n : writer' = [writer EXCEPT ![v] = n]
      BY <2>1 DEF Acquire
    <3> QED BY <1>a, <3>1
  <2>2. CASE Heartbeat(v)
    <3>1. CASE writer' = [writer EXCEPT ![v].lost = TRUE]
      <4>1. [writer[v] EXCEPT !.lost = TRUE].pc = writer[v].pc
        BY <1>0 DEF Writer
      <4> QED BY <1>a, <3>1, <4>1
    <3>2. CASE writer' = Renewed(v, writer[v].pc)
      <4>1. [writer[v] EXCEPT !.leaseAge = 0, !.pc = writer[v].pc].pc = writer[v].pc
        BY <1>0 DEF Writer
      <4> QED BY <1>a, <3>2, <4>1 DEF Renewed
    <3> QED BY <2>2, <3>1, <3>2 DEF Heartbeat
  <2> QED BY <1>b, <1>3, <2>1, <2>2 DEF AcquireRefused, CrashWriter
<1>4. ASSUME NEW v \in Writers, NEW s \in Scopes, Land(v, s) \/ Refuse(v, s)
      PROVE  Unexpired(w)
  <2>1. ASSUME NEW answer, writer' = [writer EXCEPT ![v].req[s] = answer] PROVE FALSE
    <3>1. [writer[v] EXCEPT !.req[s] = answer].pc = writer[v].pc
      BY <1>0 DEF Writer
    <3> QED BY <1>a, <2>1, <3>1
  <2> QED BY <1>4, <2>1 DEF Land, Refuse
<1>5. ASSUME NEW v \in Writers, WriterStep(v)
      PROVE  Unexpired(w)
  <2>1. writer \in [Writers -> Writer]
    BY DEF SweepInv, TypeOK, LeaseTypeOK
  <2>3. ASSUME NEW pc, NEW targets, Send(v, targets, pc), pc # "release" PROVE FALSE
    BY <1>0, <2>1, <2>3 DEF Send, Requesting, Writer
  <2>4. ASSUME PutThrows(v) PROVE FALSE
    <3>1. CASE writer[v].catches
      BY <1>0, <2>1, <2>4, <3>1 DEF PutThrows, Writer
    <3> QED BY <1>b, <2>4, <3>1 DEF PutThrows
  <2>5. ASSUME Confirm(v) PROVE Unexpired(w)
    <3>1. v = w
      BY <1>0, <2>1, <2>5 DEF Confirm, Renewed, Goto, Writer
    <3> QED BY <1>b, <2>5, <3>1 DEF Confirm
  <2>6. ASSUME Release(v) PROVE FALSE
    <3>1. writer[v].pc = "release"
      BY <2>6 DEF Release
    <3> QED BY <1>0, <2>1, <1>b, <2>6, <3>1 DEF Release, Writer
  <2> QED BY <1>5, <1>b, <2>3, <2>4, <2>5, <2>6 DEF WriterStep, PutPrimary, PrimaryAnswers, MirrorsAnswer
<1>7. UNCHANGED writer \/ LeaseNext
  BY DEF Next, DeletionNext, TickStep, Enqueue, RetryJob, JobLeaseExpires, Claim, Gate, WalkEnds, List, ListFails,
         DeleteKeys, DeleteFails, Recheck, Purge, Exists, Persist, RenewJob, CrashWorker, leaseVars, vars
<1> QED BY <1>1, <1>2, <1>3, <1>4, <1>5, <1>7 DEF LeaseNext, Provider

\* An upload that is told `stored' was over before deletion looked at any storage.
THEOREM ConfirmedThenSwept == Spec => ConfirmedBeforeSwept
<1>1. ASSUME SweepInv, [Next]_vars
      PROVE  [\A w \in Writers :
                writer[w].pc = "confirm" /\ writer'[w].pc = "release" =>
                  \A s \in Scopes : job.scopes[s].status = "untouched"]_vars
  <2> SUFFICES ASSUME NEW w \in Writers, writer[w].pc = "confirm", writer'[w].pc = "release",
                      NEW s \in Scopes
               PROVE  job.scopes[s].status = "untouched"
    OBVIOUS
  <2>1. Unexpired(w)
    BY <1>1, ConfirmedIsUnexpired
  <2>2. writer[w].leaseAge < Lease + Grace
    BY <1>1, <2>1, AgesAreNumbers DEF Unexpired, SweepInv, TypeOK, LeaseTypeOK
  <2>3. ~Over
    BY <2>1, <2>2 DEF Over, HasActiveLeases, Counts, Unexpired
  <2> QED BY <1>1, <2>3 DEF SweepInv, NotesAreTrue, NotedIsTrue
<1> QED BY <1>1, SweepHolds, PTL DEF Spec, ConfirmedBeforeSwept

\* What a step does to the job.
LEMMA JobChanges ==
  ASSUME SweepInv, [Next]_vars
  PROVE  /\ \A s \in Scopes : Settled(job.scopes[s]) => job'.scopes[s].status = job.scopes[s].status
         /\ job.status = "completed" => job'.status = "completed"
         /\ job.status = "db_cleanup" => job'.status # "storage_cleanup" \/ faults' > 0
<1>0. job \in Job
  BY DEF SweepInv, TypeOK
<1>1. CASE UNCHANGED job
  BY <1>1
<1>2. CASE Enqueue
  BY <1>0, <1>2 DEF Enqueue, SweepInv, TicksAreGated, Job
<1>3. CASE RetryJob \/ JobLeaseExpires \/ \E k \in Workers : RenewJob(k)
  BY <1>0, <1>3 DEF RetryJob, JobLeaseExpires, RenewJob, Job
<1>4. ASSUME NEW k \in Workers, Claim(k), ~UNCHANGED job
      PROVE  job'.scopes = job.scopes /\ job.status # "completed" /\
             (job.status = "db_cleanup" => job'.status # "storage_cleanup")
  BY <1>0, <1>4 DEF Claim, Job
<1>5. ASSUME NEW k \in Workers, Persist(k), ~UNCHANGED job
      PROVE  /\ \A s \in Scopes : Settled(job.scopes[s]) => job'.scopes[s].status = job.scopes[s].status
             /\ job.status # "completed"
             /\ job.status = "db_cleanup" => job'.status # "storage_cleanup" \/ faults' > 0
  <2> DEFINE m == worker[k]
             j == Patched(k)
  <2>1. m \in Worker /\ GoodTick(k, m, job) /\ m.pc = "persist" /\ job.token = k /\ job' = j
    BY <1>5, TicksAreGood DEF Persist, Fenced
  <2>2. /\ j.scopes = job.scopes \/ j.scopes = m.scopes
        /\ \/ j.status = job.status
           \/ m.patch = "advance" /\ j.scopes = m.scopes /\ j.status = "db_cleanup"
           \/ m.patch = "revert" /\ j.status = "storage_cleanup"
           \/ j.status \in {"completed", "failed"}
    BY <2>1, PatchedJob
  <2>3. m.patch = "revert" => faults' > 0
    <3>1. m.patch = "revert" => faults > 0
      BY <2>1 DEF SweepInv, RowsGoLast, Patching
    <3>2. LeaseTypeOK /\ (Fault \/ NoFault)
      BY <1>5 DEF Persist, SweepInv, TypeOK
    <3> QED BY <3>1, <3>2, FaultCounts
  <2> HIDE DEF m, j
  <2> QED BY <2>1, <2>2, <2>3 DEF GoodTick
<1>6. UNCHANGED job \/ Enqueue \/ (RetryJob \/ JobLeaseExpires \/ \E k \in Workers : RenewJob(k))
      \/ \E k \in Workers : Claim(k) \/ Persist(k)
  BY DEF Next, DeletionNext, TickStep, Gate, WalkEnds, List, ListFails, DeleteKeys, DeleteFails, Recheck, Purge, Exists,
         CrashWorker, vars
<1> QED BY <1>1, <1>2, <1>3, <1>4, <1>5, <1>6

\* A job goes forward, whichever tick writes it.
THEOREM ForwardOnly == Spec => GoesForward
<1> QED BY JobChanges, SweepHolds, PTL DEF Spec, GoesForward

=============================================================================
