----------------------------- MODULE OwnerLease -----------------------------
(***************************************************************************)
(* Uploads under an owner write lease (server/services/storage/            *)
(* writerLease.ts, uploadForOwner and uploadWithConfigForOwner of storage/ *)
(* index.ts, migrations 187 and 188), for one workspace.  Its deletion is  *)
(* module WorkspaceDeletion.                                               *)
(*                                                                         *)
(* Time is counted in ticks.  A request to a storage provider goes on when *)
(* its caller gives it up, loses its lease or dies: it lands, or does not, *)
(* at most Late ticks after the timeout.  Statements take no time, but a   *)
(* heartbeat may be late.                                                  *)
(***************************************************************************)
EXTENDS Integers

CONSTANTS
  Writers,    \* uploads, each of one object
  Scopes,     \* physical storages
  Primary,    \* Primary[w]: where w writes
  Mirrors,    \* Mirrors[w]: where w writes then, by uploadForOwner
  Lease,      \* DEFAULT_LEASE_SECONDS
  Grace,      \* RECONCILIATION_GRACE_SECONDS
  PutTimeout, \* PROVIDER_UPLOAD_TIMEOUT_MS
  Late,
  MaxFaults   \* bound: failed statements, lost answers, timeouts, crashes

ASSUME LeaseAssumption ==
  /\ Primary \in [Writers -> Scopes]
  /\ Mirrors \in [Writers -> SUBSET Scopes]
  /\ \A w \in Writers : Primary[w] \notin Mirrors[w]
  /\ {Lease, Grace, PutTimeout, Late, MaxFaults} \subseteq Nat

\* The grace period is long enough for the object and then its mirrors.
ASSUME GraceSuffices == 2 * PutTimeout + Late < Lease + Grace

VARIABLES
  ws,      \* workspaces.status, or "gone"
  writer,  \* writer[w]: an upload and its lease row
  objects, \* objects[s]: what storage s holds
  faults

leaseVars == <<ws, writer, objects, faults>>

\* catches: the upload is one of uploadForOwner, which catches what a provider
\* throws.  req[s]: the request to s.  age: ticks since the last requests were sent.
\* row: the lease exists; leaseAge: ticks since it was acquired or renewed.
\* lost: leaseLost.  swallowed (history): answered as a plain failure while the
\* request went on.
Writer ==
  [pc: {"idle", "acquired", "primary", "mirrors", "confirm", "release", "done"},
   catches: BOOLEAN, req: [Scopes -> {"none", "sent", "stored", "refused"}], age: 0..(PutTimeout + Late),
   row: BOOLEAN, leaseAge: 0..(Lease + Grace), lost: BOOLEAN, swallowed: BOOLEAN]

IdleWriter ==
  [pc |-> "idle", catches |-> FALSE, req |-> [s \in Scopes |-> "none"], age |-> 0,
   row |-> FALSE, leaseAge |-> 0, lost |-> FALSE, swallowed |-> FALSE]

LeaseInit ==
  /\ ws = "active"
  /\ writer = [w \in Writers |-> IdleWriter]
  /\ objects = [s \in Scopes |-> {}]
  /\ faults = 0

Fault == faults < MaxFaults /\ faults' = faults + 1
NoFault == UNCHANGED faults

Sent(w) == \E s \in Scopes : writer[w].req[s] = "sent"
InPut(w) == writer[w].pc \in {"acquired", "primary", "mirrors"}

Goto(w, pc) == writer' = [writer EXCEPT ![w].pc = pc]

\* lease_expires_at > now()
Unexpired(w) == writer[w].row /\ writer[w].leaseAge < Lease

\* Mutant: an expired lease counts no more.
CountsUnexpired(w) == writer[w].row /\ writer[w].leaseAge < Lease

\* Mutant: a lease counts while its row is there.
CountsWhileThere(w) == writer[w].row

\* lease_expires_at + grace > now()
Counts(w) == writer[w].row /\ writer[w].leaseAge < Lease + Grace

HasActiveLeases == \E w \in Writers : Counts(w)

Acquired(n, pc, catches) ==
  [n EXCEPT !.pc = pc, !.catches = catches, !.row = TRUE, !.leaseAge = 0]

\* Mutant: the lease is made whatever the workspace's status.
AcquireAnyway(w) ==
  /\ writer[w].pc = "idle"
  /\ \/ /\ \E catches \in BOOLEAN :
             writer' = [writer EXCEPT ![w] = Acquired(@, "acquired", catches)]
        /\ NoFault
     \/ /\ writer' = [writer EXCEPT ![w] = Acquired(@, "done", FALSE)]
        /\ Fault
  /\ UNCHANGED <<ws, objects>>

\* The status is checked and the lease made under a lock of the workspace's
\* row.  Should the answer be lost, the lease is there and nobody uses it.
Acquire(w) ==
  /\ writer[w].pc = "idle"
  /\ ws = "active"
  /\ \/ /\ \E catches \in BOOLEAN :
             writer' = [writer EXCEPT ![w] = Acquired(@, "acquired", catches)]
        /\ NoFault
     \/ /\ writer' = [writer EXCEPT ![w] = Acquired(@, "done", FALSE)]
        /\ Fault
  /\ UNCHANGED <<ws, objects>>

\* `workspace_not_writable': fn is not called.
AcquireRefused(w) ==
  /\ writer[w].pc = "idle"
  /\ ws # "active"
  /\ Goto(w, "done")
  /\ UNCHANGED <<ws, objects, faults>>

Requesting(n, targets, pc) ==
  [n EXCEPT !.pc = pc, !.age = 0,
            !.req = [s \in Scopes |-> IF s \in targets THEN "sent" ELSE n.req[s]]]
Send(w, targets, pc) == writer' = [writer EXCEPT ![w] = Requesting(@, targets, pc)]

PutPrimary(w) ==
  /\ writer[w].pc = "acquired"
  /\ Send(w, {Primary[w]}, "primary")
  /\ UNCHANGED <<ws, objects, faults>>

\* The provider stores the object, whoever still waits for it.
Land(w, s) ==
  /\ writer[w].req[s] = "sent"
  /\ writer' = [writer EXCEPT ![w].req[s] = "stored"]
  /\ objects' = [objects EXCEPT ![s] = @ \cup {w}]
  /\ UNCHANGED <<ws, faults>>

Refuse(w, s) ==
  /\ writer[w].req[s] = "sent"
  /\ writer' = [writer EXCEPT ![w].req[s] = "refused"]
  /\ UNCHANGED <<ws, objects, faults>>

\* replicateUpload follows a success, all mirrors at once.
PrimaryAnswers(w) ==
  /\ writer[w].pc = "primary"
  /\ LET answer == writer[w].req[Primary[w]] IN
     \/ answer = "stored" /\ writer[w].catches /\ Send(w, Mirrors[w], "mirrors")
     \/ answer = "stored" /\ ~writer[w].catches /\ Goto(w, "confirm")
     \/ answer = "refused" /\ Goto(w, "confirm")
  /\ UNCHANGED <<ws, objects, faults>>

MirrorsAnswer(w) ==
  /\ writer[w].pc = "mirrors"
  /\ ~Sent(w)
  /\ Goto(w, "confirm")
  /\ UNCHANGED <<ws, objects, faults>>

\* The fetch is aborted, or fails, with the outcome unknown.  Caught inside fn
\* it is a result like another; thrown out of fn it leaves the lease alone.
PutThrows(w) ==
  /\ writer[w].pc \in {"primary", "mirrors"}
  /\ IF writer[w].catches
       THEN writer' = [writer EXCEPT ![w].pc = "confirm", ![w].swallowed = Sent(w)]
       ELSE Goto(w, "done")
  /\ Fault
  /\ UNCHANGED <<ws, objects>>

Renewed(w, pc) == [writer EXCEPT ![w].leaseAge = 0, ![w].pc = pc]

Heartbeat(w) ==
  /\ writer[w].pc \in {"acquired", "primary", "mirrors", "confirm"}
  /\ \/ Unexpired(w) /\ writer' = Renewed(w, writer[w].pc) /\ NoFault
     \/ ~Unexpired(w) /\ writer' = [writer EXCEPT ![w].lost = TRUE] /\ NoFault
     \/ Fault /\ writer' = [writer EXCEPT ![w].lost = TRUE]
  /\ UNCHANGED <<ws, objects>>

\* Mutant: an expired lease is renewed (migration 187).
ConfirmExpired(w) ==
  /\ writer[w].pc = "confirm"
  /\ \/ /\ writer[w].row /\ NoFault
        /\ writer' = Renewed(w, IF writer[w].lost THEN "done" ELSE "release")
     \/ ~writer[w].row /\ NoFault /\ Goto(w, "done")
     \/ Fault /\ Goto(w, "done")
  /\ UNCHANGED <<ws, objects>>

\* The trailing renewal.  Whose lease was lost is told so, and leaves the row.
Confirm(w) ==
  /\ writer[w].pc = "confirm"
  /\ \/ /\ Unexpired(w) /\ NoFault
        /\ writer' = Renewed(w, IF writer[w].lost THEN "done" ELSE "release")
     \/ ~Unexpired(w) /\ NoFault /\ Goto(w, "done")
     \/ Fault /\ Goto(w, "done")
  /\ UNCHANGED <<ws, objects>>

\* Best effort.
Release(w) ==
  /\ writer[w].pc = "release"
  /\ \/ /\ writer' = [writer EXCEPT ![w].pc = "done", ![w].row = FALSE, ![w].leaseAge = 0]
        /\ NoFault
     \/ Goto(w, "done") /\ Fault
  /\ UNCHANGED <<ws, objects>>

CrashWriter(w) ==
  /\ writer[w].pc \notin {"idle", "done"}
  /\ Goto(w, "done")
  /\ Fault
  /\ UNCHANGED <<ws, objects>>

WriterStep(w) ==
  \/ PutPrimary(w) \/ PrimaryAnswers(w) \/ MirrorsAnswer(w) \/ PutThrows(w)
  \/ Confirm(w) \/ Release(w)

Provider(w) == \E s \in Scopes : Land(w, s) \/ Refuse(w, s)

-----------------------------------------------------------------------------
(* Time.                                                                     *)

\* No request outlives its timeout unanswered, nor that by more than Late.
MayTick(w) ==
  /\ writer[w].pc # "acquired"
  /\ writer[w].pc \in {"primary", "mirrors"} => writer[w].age < PutTimeout
  /\ Sent(w) => writer[w].age < PutTimeout + Late

Older(n, w) ==
  [n EXCEPT !.age = IF Sent(w) \/ InPut(w) THEN @ + 1 ELSE 0,
            !.leaseAge = IF n.row /\ @ < Lease + Grace THEN @ + 1 ELSE @]

Tick ==
  /\ \A w \in Writers : MayTick(w)
  /\ writer' = [w \in Writers |-> Older(writer[w], w)]
  /\ UNCHANGED <<ws, objects, faults>>

LeaseNext ==
  \/ \E w \in Writers : \/ Acquire(w) \/ AcquireRefused(w) \/ Heartbeat(w)
                        \/ WriterStep(w) \/ Provider(w) \/ CrashWriter(w)
  \/ Tick

-----------------------------------------------------------------------------
LeaseTypeOK ==
  /\ ws \in {"active", "deleting", "gone"}
  /\ writer \in [Writers -> Writer]
  /\ objects \in [Scopes -> SUBSET Writers]
  /\ faults \in 0..MaxFaults

\* A request under way is covered by a lease that counts, whatever became of
\* its caller, unless its caller was answered a plain failure.
Within(n) ==
  CASE n.pc = "acquired" -> 0
    [] n.pc = "primary"  -> n.age
    [] OTHER             -> PutTimeout + n.age

LeaseCovers ==
  \A w \in Writers :
    /\ writer[w].pc \in {"primary", "mirrors"} => writer[w].age <= PutTimeout
    /\ (Sent(w) \/ InPut(w)) /\ ~writer[w].swallowed =>
         writer[w].row /\ writer[w].leaseAge <= Within(writer[w])

\* Who is about to release its lease waits for nothing.
NothingPending ==
  \A w \in Writers :
    /\ writer[w].pc \in {"idle", "acquired"} => ~Sent(w)
    /\ writer[w].pc \in {"idle", "acquired", "primary", "mirrors"} => ~writer[w].swallowed
    /\ writer[w].pc = "primary" => \A s \in Scopes \ {Primary[w]} : writer[w].req[s] # "sent"
    /\ writer[w].pc \in {"confirm", "release"} /\ Sent(w) => writer[w].swallowed
=============================================================================
