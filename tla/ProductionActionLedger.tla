----------------------- MODULE ProductionActionLedger -----------------------
(***************************************************************************)
(* The ledger of one frozen plan: a hash chain in PostgreSQL to which the  *)
(* workers of all its executions append at the same time, and signed       *)
(* checkpoints of its head that a cadence issues.                          *)
(*                                                                         *)
(* An append is one transaction under a lock of the stream row; its steps  *)
(* are apart because digests are awaited under the lock.  A cadence run is *)
(* two reads, a decision, a signature and a transaction.  Scope, identity  *)
(* and signature checks are taken to succeed, and digests not to collide.  *)
(***************************************************************************)
EXTENDS Integers, Sequences, FiniteSets

CONSTANTS
  Worker,      \* appenders
  Signer,      \* workers that run the checkpoint cadence
  NoWorker,    \* the stream row is not locked
  Ahead,       \* Ahead[p]: clock of p minus the slowest clock
  MaxWithout,  \* policy: maxEntriesWithoutCheckpoint
  MaxAge,      \* policy: maxAgeMs
  MaxEntries,  \* bound: appends that may begin
  MaxTime      \* bound: the clocks stop here

ASSUME ConstantsAssumption ==
  /\ NoWorker \notin Worker
  /\ Worker \cap Signer = {}
  /\ Ahead \in [Worker \cup Signer -> Nat]
  /\ MaxWithout \in Nat \ {0}
  /\ MaxAge \in Nat \ {0}
  /\ MaxEntries \in Nat
  /\ MaxTime \in Nat

VARIABLES
  now,         \* the slowest clock
  stream,      \* vira.production_action_ledger_stream
  entry,       \* vira.production_action_ledger_entry, by sequence
  checkpoint,  \* vira.production_action_ledger_checkpoint
  lock,        \* who holds the row lock of the stream
  pc,          \* next call of each worker and signer
  tx,          \* what the transaction of each worker has read and written
  run          \* what the cadence run of each signer has read and made

vars == <<now, stream, entry, checkpoint, lock, pc, tx, run>>

-----------------------------------------------------------------------------
(* Rows *)

\* Who appended, and when, by that worker's clock.  Kind and evidence do not
\* matter to the chain.
Body == [by : Worker, at : Nat]

\* A hash that does not collide stands for everything that went into it: the
\* bodies from the first entry on.  <<>> is null.
Hash == Seq(Body)

\* (mutant) The previous hash is left out of the canonical object.
DigestOfBody(previous, body) == <<body>>

Digest(previous, body) == Append(previous, body)

Row == [prev : Hash, hash : Hash, body : Body]

NewRow(previous, body) ==
  [prev |-> previous, hash |-> Digest(previous, body), body |-> body]

\* The row before the first append says the same as no row.
Stream == [next : Nat, head : Hash]

NoStream == [next |-> 0, head |-> <<>>]

Checkpoint == [seq : Nat, head : Hash, issued : Nat]

NoCheckpoint == [seq |-> -1, head |-> <<>>, issued |-> 0]

-----------------------------------------------------------------------------
(* Workers and signers *)

Clock(p) == now + Ahead[p]

Stage == {"idle", "lock", "insert", "commit", "latest", "evaluate", "store"}

\* When the entry occurred, and the stream row as locked.
Transaction == [at : Nat, locked : Stream]

NoTransaction == [at |-> 0, locked |-> NoStream]

\* Of the entries read, when the first occurred and what the head is; the
\* checkpoint read after them; and when the new one was issued.
Run == [first : Nat, seq : Nat, head : Hash, at : Nat,
        latest : Checkpoint \cup {NoCheckpoint}, issued : Nat]

NoRun == [first |-> 0, seq |-> 0, head |-> <<>>, at |-> 0,
          latest |-> NoCheckpoint, issued |-> 0]

Goto(p, stage) == pc' = [pc EXCEPT ![p] = stage]

tables == <<stream, entry, checkpoint>>

-----------------------------------------------------------------------------
(* append *)

\* Appends that have begun and not failed, and entries that are there.
Begun == Cardinality(DOMAIN entry) + Cardinality({w \in Worker : pc[w] # "idle"})

\* The worker dates its entry before it asks for a connection and the lock.
BeginAppend(w) ==
  /\ pc[w] = "idle"
  /\ Begun < MaxEntries
  /\ tx' = [tx EXCEPT ![w] = [at |-> Clock(w), locked |-> NoStream]]
  /\ Goto(w, "lock")
  /\ UNCHANGED <<now, tables, lock, run>>

\* INSERT ... ON CONFLICT DO NOTHING waits for the row as FOR UPDATE does.
LockStream(w) ==
  /\ pc[w] = "lock"
  /\ lock = NoWorker
  /\ lock' = w
  /\ tx' = [tx EXCEPT ![w].locked = stream]
  /\ Goto(w, "insert")
  /\ UNCHANGED <<now, tables, run>>

\* The previous entry is the head of the stream, and the place is free.
CanInsert(w) ==
  LET locked == tx[w].locked
  IN /\ IF locked.next = 0 THEN locked.head = <<>>
        ELSE locked.next - 1 \in DOMAIN entry /\ entry[locked.next - 1].hash = locked.head
     /\ locked.next \notin DOMAIN entry

WithRow(w) ==
  [s \in DOMAIN entry \cup {tx[w].locked.next} |->
     IF s = tx[w].locked.next
     THEN NewRow(tx[w].locked.head, [by |-> w, at |-> tx[w].at]) ELSE entry[s]]

\* (mutant) The entry is inserted outside of the transaction.
InsertAtOnce(w) ==
  /\ pc[w] = "insert"
  /\ CanInsert(w)
  /\ entry' = WithRow(w)
  /\ Goto(w, "commit")
  /\ UNCHANGED <<now, stream, checkpoint, lock, tx, run>>

\* Nobody else sees the entry yet.
InsertEntry(w) ==
  /\ pc[w] = "insert"
  /\ CanInsert(w)
  /\ Goto(w, "commit")
  /\ UNCHANGED <<now, tables, lock, tx, run>>

\* The head moves if it is still the one that was locked.
Commit(w) ==
  /\ pc[w] = "commit"
  /\ stream = tx[w].locked
  /\ entry' = WithRow(w)
  /\ stream' = [next |-> stream.next + 1, head |-> entry'[stream.next].hash]
  /\ lock' = NoWorker
  /\ tx' = [tx EXCEPT ![w] = NoTransaction]
  /\ Goto(w, "idle")
  /\ UNCHANGED <<now, checkpoint, run>>

\* (mutant) The connection goes back to the pool with its transaction open.
ReleaseOnly(w) ==
  /\ pc[w] \in {"lock", "insert", "commit"}
  /\ lock' = lock
  /\ tx' = [tx EXCEPT ![w] = NoTransaction]
  /\ Goto(w, "idle")
  /\ UNCHANGED <<now, tables, run>>

\* A conflict, a failed digest, a lost connection or a death.
Rollback(w) ==
  /\ pc[w] \in {"lock", "insert", "commit"}
  /\ lock' = IF lock = w THEN NoWorker ELSE lock
  /\ tx' = [tx EXCEPT ![w] = NoTransaction]
  /\ Goto(w, "idle")
  /\ UNCHANGED <<now, tables, run>>

-----------------------------------------------------------------------------
(* The checkpoint cadence *)

\* The entries up to s are there, and each names the hash of the one before.
Contiguous(s) ==
  /\ DOMAIN entry = 0 .. s
  /\ \A i \in 0 .. s : entry[i].prev = IF i = 0 THEN <<>> ELSE entry[i - 1].hash

\* It throws for a broken chain; a run that reads no entry ends at once.
ReadEntries(c) ==
  /\ pc[c] = "idle"
  /\ \E s \in DOMAIN entry :
       /\ Contiguous(s)
       /\ run' = [run EXCEPT ![c] = [first |-> entry[0].body.at, seq |-> s, head |-> entry[s].hash,
                                     at |-> entry[s].body.at, latest |-> NoCheckpoint, issued |-> 0]]
  /\ Goto(c, "latest")
  /\ UNCHANGED <<now, tables, lock, tx>>

IsLatest(k) == \A d \in checkpoint : d.seq <= k.seq

ReadLatest(c) ==
  /\ pc[c] = "latest"
  /\ \E k \in IF checkpoint = {} THEN {NoCheckpoint} ELSE checkpoint :
       IsLatest(k) /\ run' = [run EXCEPT ![c].latest = k]
  /\ Goto(c, "evaluate")
  /\ UNCHANGED <<now, tables, lock, tx>>

\* What evaluateCadence accepts: time runs from the first entry over the head
\* to now, and the checkpoint is of this chain.
Consistent(c) ==
  LET r == run[c]
  IN /\ r.first <= r.at
     /\ r.at <= Clock(c)
     /\ r.latest # NoCheckpoint =>
          /\ r.latest.seq <= r.seq
          /\ r.latest.issued <= Clock(c)
          /\ r.latest.seq = r.seq => r.latest.head = r.head

\* (mutant) One entry more than the policy allows.
OneEntryLate(c) ==
  \/ run[c].seq - run[c].latest.seq > MaxWithout
  \/ Clock(c) - (IF run[c].latest = NoCheckpoint THEN run[c].first ELSE run[c].latest.issued) >= MaxAge

\* The sequence of no checkpoint is -1, so that seq + 1 entries are without.
IsDue(c) ==
  \/ run[c].seq - run[c].latest.seq >= MaxWithout
  \/ Clock(c) - (IF run[c].latest = NoCheckpoint THEN run[c].first ELSE run[c].latest.issued) >= MaxAge

\* (mutant) The entries are read again before the head is signed.
SignCurrentHead(c) ==
  /\ pc[c] = "evaluate"
  /\ Consistent(c)
  /\ IsDue(c)
  /\ run' = [run EXCEPT ![c].issued = Clock(c), ![c].seq = stream.next - 1, ![c].head = stream.head]
  /\ Goto(c, "store")
  /\ UNCHANGED <<now, tables, lock, tx>>

Sign(c) ==
  /\ pc[c] = "evaluate"
  /\ Consistent(c)
  /\ IsDue(c)
  /\ run' = [run EXCEPT ![c].issued = Clock(c)]
  /\ Goto(c, "store")
  /\ UNCHANGED <<now, tables, lock, tx>>

\* (mutant) The previous checkpoint's sequence is kept.
PreviousSequence(r) == [seq |-> r.latest.seq, head |-> r.head, issued |-> r.issued]

CheckpointOf(r) == [seq |-> r.seq, head |-> r.head, issued |-> r.issued]

\* (mutant) A checkpoint of an entry that is there can be stored.
BindsEntry(c) == run[c].seq \in DOMAIN entry

\* Under the lock the signed head must still be the head, and have none yet.
CanStore(c) == /\ stream.next = run[c].seq + 1
               /\ stream.head = run[c].head
               /\ \A k \in checkpoint : k.seq # run[c].seq

StoreCheckpoint(c) ==
  /\ pc[c] = "store"
  /\ lock = NoWorker
  /\ CanStore(c)
  /\ checkpoint' = checkpoint \cup {CheckpointOf(run[c])}
  /\ run' = [run EXCEPT ![c] = NoRun]
  /\ Goto(c, "idle")
  /\ UNCHANGED <<now, stream, entry, lock, tx>>

\* It throws, nothing is due, or the head has moved.
NoCheckpointMade(c) ==
  /\ \/ pc[c] = "evaluate" /\ ~ (Consistent(c) /\ IsDue(c))
     \/ pc[c] = "store" /\ lock = NoWorker /\ ~ CanStore(c)
  /\ run' = [run EXCEPT ![c] = NoRun]
  /\ Goto(c, "idle")
  /\ UNCHANGED <<now, tables, lock, tx>>

\* The signer refuses, a connection is lost, or the process dies.
Abandon(c) ==
  /\ pc[c] # "idle"
  /\ run' = [run EXCEPT ![c] = NoRun]
  /\ Goto(c, "idle")
  /\ UNCHANGED <<now, tables, lock, tx>>

-----------------------------------------------------------------------------
Tick == /\ now < MaxTime
        /\ now' = now + 1
        /\ UNCHANGED <<tables, lock, pc, tx, run>>

Init ==
  /\ now = 1
  /\ stream = NoStream
  /\ entry = [s \in {} |-> NewRow(<<>>, <<>>)]
  /\ checkpoint = {}
  /\ lock = NoWorker
  /\ pc = [p \in Worker \cup Signer |-> "idle"]
  /\ tx = [w \in Worker |-> NoTransaction]
  /\ run = [c \in Signer |-> NoRun]

AppendStep(w) == LockStream(w) \/ InsertEntry(w) \/ Commit(w)

CadenceStep(c) == ReadLatest(c) \/ Sign(c) \/ StoreCheckpoint(c) \/ NoCheckpointMade(c)

Next ==
  \/ \E w \in Worker : BeginAppend(w) \/ AppendStep(w) \/ Rollback(w)
  \/ \E c \in Signer : ReadEntries(c) \/ CadenceStep(c) \/ Abandon(c)
  \/ Tick

Spec == Init /\ [][Next]_vars

\* A call that has begun goes on, and the cadence runs again and again.
Fairness ==
  /\ \A w \in Worker : WF_vars(AppendStep(w))
  /\ \A c \in Signer : WF_vars(ReadEntries(c) \/ CadenceStep(c))

-----------------------------------------------------------------------------
(* Properties *)

\* Rows and memories have the shape the tables and types give them.
TypeOK ==
  /\ now \in Nat
  /\ stream \in Stream
  /\ DOMAIN entry \subseteq Nat
  /\ \A s \in DOMAIN entry : entry[s] \in Row
  /\ checkpoint \subseteq Checkpoint
  /\ lock \in Worker \cup {NoWorker}
  /\ pc \in [Worker \cup Signer -> Stage]
  /\ tx \in [Worker -> Transaction]
  /\ run \in [Signer -> Run]

\* One transaction at a time writes to the stream, and the row lock does not
\* outlive it (withTenantTransaction).
LockIsTheTransaction ==
  \A w \in Worker : pc[w] \in {"insert", "commit"} <=> lock = w

\* The stream row and the entries are one: as many entries as it says, without
\* a gap, and the last is its head, whoever failed in between (append).
StreamTellsTheChain ==
  /\ DOMAIN entry = 0 .. stream.next - 1
  /\ stream.head = IF stream.next = 0 THEN <<>> ELSE entry[stream.next - 1].hash

\* A hash, and so a checkpoint of it, commits to every entry up to its own:
\* what verifyViraProductionActionLedgerChain recomputes, and what the head of
\* verifyViraProductionActionLedgerCheckpoint stands for.
HashSealsHistory ==
  /\ \A s \in DOMAIN entry :
       /\ entry[s].prev = (IF s = 0 THEN <<>> ELSE entry[s - 1].hash)
       /\ entry[s].hash = [i \in 1 .. s + 1 |-> entry[i - 1].body]
  /\ \A k \in checkpoint : k.seq \in DOMAIN entry /\ entry[k.seq].hash = k.head

\* Concurrent cadences do not multiply checkpoints: between any two there are
\* as many entries, or as much time, as the policy asks for.  It depends on the
\* order of the two reads of a run.
CheckpointsAreSpaced ==
  \A k, l \in checkpoint :
    k.seq < l.seq => \/ l.seq - k.seq >= MaxWithout
                     \/ l.issued - k.issued >= MaxAge

Latest == IF checkpoint = {} THEN NoCheckpoint ELSE CHOOSE k \in checkpoint : IsLatest(k)

\* The ledger only grows at its end, and every checkpoint covers all of it.
Sealed == INSTANCE SealedLog WITH
  Entry  <- Body,
  log    <- [i \in 1 .. stream.next |-> entry[i - 1].body],
  sealed <- Latest.seq + 1

KeepsTheLog == Sealed!Spec

TooManyWithout == stream.next - 1 - Latest.seq >= MaxWithout

\* The head was dated before the first entry.
HeadIsEarly == stream.next > 0 /\ entry[stream.next - 1].body.at < entry[0].body.at

\* When the policy's number of entries is reached the ledger gets a checkpoint,
\* unless the head is dated before the first entry.
DueIsCheckpointed == TooManyWithout ~> ~ TooManyWithout \/ HeadIsEarly
=============================================================================
