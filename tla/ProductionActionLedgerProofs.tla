-------------------- MODULE ProductionActionLedgerProofs --------------------
(* Proofs about ProductionActionLedger for any number of workers, signers    *)
(* and entries, any clocks and any policy.                                   *)
EXTENDS ProductionActionLedger, SequenceTheorems, TLAPS

(***************************************************************************)
(* Rows and hashes.                                                        *)
(***************************************************************************)

\* createViraProductionActionLedgerEntry: what the digest of a new entry
\* commits to.
LEMMA NewRowFacts ==
  ASSUME NEW previous \in Hash, NEW body \in Body
  PROVE  /\ NewRow(previous, body) \in Row
         /\ NewRow(previous, body).prev = previous
         /\ NewRow(previous, body).body = body
         /\ Len(NewRow(previous, body).hash) = Len(previous) + 1
         /\ \A i \in 1 .. Len(previous) : NewRow(previous, body).hash[i] = previous[i]
         /\ NewRow(previous, body).hash[Len(previous) + 1] = body
<1> DEFINE h == Append(previous, body)
<1>1. /\ h \in Hash
      /\ Len(h) = Len(previous) + 1
      /\ \A i \in 1 .. Len(previous) : h[i] = previous[i]
      /\ h[Len(previous) + 1] = body
  BY AppendProperties DEF Hash
<1>2. NewRow(previous, body) = [prev |-> previous, hash |-> h, body |-> body]
  BY DEF NewRow, Digest
<1> HIDE DEF h
<1>3. QED
  BY <1>1, <1>2 DEF Row

LEMMA EmptyHash == <<>> \in Hash /\ Len(<<>>) = 0
  BY EmptySeq DEF Hash

LEMMA NoTransactionType == NoTransaction \in Transaction
  BY EmptyHash DEF NoTransaction, Transaction, NoStream, Stream

LEMMA NoRunType == NoRun \in Run
  BY EmptyHash DEF NoRun, Run, NoCheckpoint

LEMMA ClockType == ASSUME TypeOK, NEW p \in Worker \cup Signer PROVE Clock(p) \in Nat
  BY ConstantsAssumption DEF TypeOK, Clock

\* The row a transaction inserts, and the table with it.
LEMMA WithRowFacts ==
  ASSUME TypeOK, NEW w \in Worker,
         NEW r, r = NewRow(tx[w].locked.head, [by |-> w, at |-> tx[w].at])
  PROVE  /\ tx[w].locked \in Stream
         /\ tx[w].locked.next \in Nat
         /\ tx[w].locked.head \in Hash
         /\ r \in Row
         /\ r.body = [by |-> w, at |-> tx[w].at]
         /\ r.body \in Body
         /\ DOMAIN WithRow(w) = DOMAIN entry \cup {tx[w].locked.next}
         /\ WithRow(w)[tx[w].locked.next] = r
         /\ \A s \in DOMAIN entry : s # tx[w].locked.next => WithRow(w)[s] = entry[s]
<1>1. tx[w] \in Transaction
  BY DEF TypeOK
<1>2. /\ tx[w].locked \in Stream
      /\ tx[w].locked.next \in Nat
      /\ tx[w].locked.head \in Hash
      /\ [by |-> w, at |-> tx[w].at] \in Body
  BY <1>1 DEF Transaction, Stream, Body
<1>3. r \in Row /\ r.body = [by |-> w, at |-> tx[w].at]
  BY <1>2, NewRowFacts
<1>4. QED
  BY <1>2, <1>3 DEF WithRow

(***************************************************************************)
(* Types.                                                                  *)
(***************************************************************************)

LEMMA InitTypeOK == Init => TypeOK
<1> SUFFICES ASSUME Init PROVE TypeOK
  OBVIOUS
<1>1. stream \in Stream
  BY EmptyHash DEF Init, NoStream, Stream
<1>2. DOMAIN entry = {}
  BY DEF Init
<1>3. QED
  BY <1>1, <1>2, NoTransactionType, NoRunType DEF Init, TypeOK, Stage

LEMMA NextTypeOK == TypeOK /\ [Next]_vars => TypeOK'
<1> SUFFICES ASSUME TypeOK, [Next]_vars PROVE TypeOK'
  OBVIOUS
<1> USE DEF TypeOK
<1>1. ASSUME NEW p \in Worker \cup Signer, NEW stage \in Stage, Goto(p, stage)
      PROVE  pc' \in [Worker \cup Signer -> Stage]
  BY <1>1 DEF Goto
<1>2. ASSUME NEW w \in Worker, BeginAppend(w) PROVE TypeOK'
  <2>1. [at |-> Clock(w), locked |-> NoStream] \in Transaction
    BY ClockType, EmptyHash DEF Transaction, NoStream, Stream
  <2>2. pc' \in [Worker \cup Signer -> Stage]
    BY <1>1, <1>2 DEF BeginAppend, Stage
  <2>3. QED
    BY <1>2, <2>1, <2>2 DEF BeginAppend, tables
<1>3. ASSUME NEW w \in Worker, LockStream(w) PROVE TypeOK'
  <2>1. tx' \in [Worker -> Transaction]
    BY <1>3 DEF LockStream, Transaction
  <2>2. pc' \in [Worker \cup Signer -> Stage]
    BY <1>1, <1>3 DEF LockStream, Stage
  <2>3. QED
    BY <1>3, <2>1, <2>2 DEF LockStream, tables
<1>4. ASSUME NEW w \in Worker, InsertEntry(w) PROVE TypeOK'
  <2>1. pc' \in [Worker \cup Signer -> Stage]
    BY <1>1, <1>4 DEF InsertEntry, Stage
  <2>2. QED
    BY <1>4, <2>1 DEF InsertEntry, tables
<1>5. ASSUME NEW w \in Worker, Commit(w) PROVE TypeOK'
  <2> DEFINE r == NewRow(tx[w].locked.head, [by |-> w, at |-> tx[w].at])
  <2>1. /\ tx[w].locked.next \in Nat
        /\ r \in Row
        /\ DOMAIN entry' = DOMAIN entry \cup {tx[w].locked.next}
        /\ entry'[tx[w].locked.next] = r
        /\ \A s \in DOMAIN entry : s # tx[w].locked.next => entry'[s] = entry[s]
    <3> HIDE DEF TypeOK
    <3>1. QED
      BY <1>5, WithRowFacts DEF Commit
  <2> HIDE DEF r
  <2>2. DOMAIN entry' \subseteq Nat /\ \A s \in DOMAIN entry' : entry'[s] \in Row
    BY <2>1
  <2>3. stream' \in Stream
    BY <1>5, <2>1 DEF Commit, Stream, Row
  <2>4. pc' \in [Worker \cup Signer -> Stage]
    BY <1>1, <1>5 DEF Commit, Stage
  <2>5. tx' \in [Worker -> Transaction]
    BY <1>5, NoTransactionType DEF Commit
  <2>6. QED
    BY <1>5, <2>2, <2>3, <2>4, <2>5 DEF Commit
<1>6. ASSUME NEW w \in Worker, Rollback(w) PROVE TypeOK'
  <2>1. pc' \in [Worker \cup Signer -> Stage]
    BY <1>1, <1>6 DEF Rollback, Stage
  <2>2. QED
    BY <1>6, <2>1, NoTransactionType DEF Rollback, tables
<1>7. ASSUME NEW c \in Signer, ReadEntries(c) PROVE TypeOK'
  <2>1. PICK s \in DOMAIN entry :
          /\ DOMAIN entry = 0 .. s
          /\ run' = [run EXCEPT ![c] =
               [first |-> entry[0].body.at, seq |-> s, head |-> entry[s].hash,
                at |-> entry[s].body.at, latest |-> NoCheckpoint, issued |-> 0]]
    BY <1>7 DEF ReadEntries, Contiguous
  <2>2. s \in Nat /\ entry[s] \in Row /\ entry[0] \in Row
    BY <2>1
  <2>3. [first |-> entry[0].body.at, seq |-> s, head |-> entry[s].hash,
         at |-> entry[s].body.at, latest |-> NoCheckpoint, issued |-> 0] \in Run
    BY <2>2 DEF Run, Row, Body
  <2>4. pc' \in [Worker \cup Signer -> Stage]
    BY <1>1, <1>7 DEF ReadEntries, Stage
  <2>5. QED
    BY <1>7, <2>1, <2>3, <2>4 DEF ReadEntries, tables
<1>8. ASSUME NEW c \in Signer, ReadLatest(c) PROVE TypeOK'
  <2>1. PICK k \in Checkpoint \cup {NoCheckpoint} : run' = [run EXCEPT ![c].latest = k]
    BY <1>8 DEF ReadLatest
  <2>2. run' \in [Signer -> Run]
    BY <2>1 DEF Run
  <2>3. pc' \in [Worker \cup Signer -> Stage]
    BY <1>1, <1>8 DEF ReadLatest, Stage
  <2>4. QED
    BY <1>8, <2>2, <2>3 DEF ReadLatest, tables
<1>9. ASSUME NEW c \in Signer, Sign(c) PROVE TypeOK'
  <2>1. run' \in [Signer -> Run]
    BY <1>9, ClockType DEF Sign, Run
  <2>2. pc' \in [Worker \cup Signer -> Stage]
    BY <1>1, <1>9 DEF Sign, Stage
  <2>3. QED
    BY <1>9, <2>1, <2>2 DEF Sign, tables
<1>10. ASSUME NEW c \in Signer, StoreCheckpoint(c) PROVE TypeOK'
  <2>1. CheckpointOf(run[c]) \in Checkpoint
    BY DEF CheckpointOf, Checkpoint, Run
  <2>2. pc' \in [Worker \cup Signer -> Stage]
    BY <1>1, <1>10 DEF StoreCheckpoint, Stage
  <2>3. QED
    BY <1>10, <2>1, <2>2, NoRunType DEF StoreCheckpoint
<1>11. ASSUME NEW c \in Signer, NoCheckpointMade(c) \/ Abandon(c) PROVE TypeOK'
  <2>1. pc' \in [Worker \cup Signer -> Stage]
    BY <1>1, <1>11 DEF NoCheckpointMade, Abandon, Stage
  <2>2. QED
    BY <1>11, <2>1, NoRunType DEF NoCheckpointMade, Abandon, tables
<1>12. CASE Tick
  BY <1>12 DEF Tick, tables
<1>13. CASE UNCHANGED vars
  BY <1>13 DEF vars
<1>14. QED
  BY <1>2, <1>3, <1>4, <1>5, <1>6, <1>7, <1>8, <1>9, <1>10, <1>11, <1>12, <1>13
     DEF Next, AppendStep, CadenceStep

\* Rows and memories keep their shape (the tables' columns, the records of
\* production.ts).
THEOREM Typing == Spec => []TypeOK
  BY InitTypeOK, NextTypeOK, PTL DEF Spec

(***************************************************************************)
(* The chain.  It is whole because whoever holds the lock knows the stream *)
(* row as it is, so that the place it writes to is the next one.           *)
(***************************************************************************)

HolderKnowsTheStream == \A w \in Worker : lock = w => tx[w].locked = stream

HashesCount ==
  \A s \in DOMAIN entry :
    /\ entry[s].prev = (IF s = 0 THEN <<>> ELSE entry[s - 1].hash)
    /\ Len(entry[s].hash) = s + 1
    /\ \A i \in 1 .. s + 1 : entry[s].hash[i] = entry[i - 1].body

ChainInv ==
  /\ LockIsTheTransaction
  /\ HolderKnowsTheStream
  /\ StreamTellsTheChain
  /\ HashesCount

\* What a commit does to the tables, seen from outside.
LEMMA CommitFacts ==
  ASSUME TypeOK, ChainInv, NEW w \in Worker, Commit(w)
  PROVE  /\ stream.next \in Nat
         /\ lock = w
         /\ DOMAIN entry = 0 .. stream.next - 1
         /\ DOMAIN entry' = 0 .. stream.next
         /\ \A s \in DOMAIN entry : entry'[s] = entry[s]
         /\ entry'[stream.next] \in Row
         /\ entry'[stream.next].body = [by |-> w, at |-> tx[w].at]
         /\ entry'[stream.next].prev = stream.head
         /\ Len(entry'[stream.next].hash) = stream.next + 1
         /\ \A i \in 1 .. stream.next + 1 : entry'[stream.next].hash[i] = entry'[i - 1].body
         /\ stream'.next = stream.next + 1
         /\ stream'.head = entry'[stream.next].hash
<1> DEFINE body == [by |-> w, at |-> tx[w].at]
           r == NewRow(stream.head, body)
<1>1. /\ lock = w
      /\ tx[w].locked = stream
      /\ entry' = WithRow(w)
  BY DEF Commit, ChainInv, LockIsTheTransaction
<1>2. /\ stream.next \in Nat
      /\ stream.head \in Hash
      /\ r \in Row
      /\ r.body = body
      /\ body \in Body
      /\ DOMAIN entry' = DOMAIN entry \cup {stream.next}
      /\ entry'[stream.next] = r
      /\ \A s \in DOMAIN entry : s # stream.next => entry'[s] = entry[s]
  BY <1>1, WithRowFacts, SMTT(30) DEF Stream
<1>3. /\ DOMAIN entry = 0 .. stream.next - 1
      /\ stream.head = IF stream.next = 0 THEN <<>> ELSE entry[stream.next - 1].hash
  BY DEF ChainInv, StreamTellsTheChain
<1>4. /\ r.prev = stream.head
      /\ Len(r.hash) = Len(stream.head) + 1
      /\ \A i \in 1 .. Len(stream.head) : r.hash[i] = stream.head[i]
      /\ r.hash[Len(stream.head) + 1] = body
  BY <1>2, NewRowFacts
<1>5. stream' = [next |-> stream.next + 1, head |-> entry'[stream.next].hash]
  BY DEF Commit
<1> HIDE DEF r, body
<1>6. /\ DOMAIN entry' = 0 .. stream.next
      /\ \A s \in DOMAIN entry : entry'[s] = entry[s]
  BY <1>2, <1>3
<1>7. /\ Len(stream.head) = stream.next
      /\ \A i \in 1 .. stream.next : stream.head[i] = entry[i - 1].body
  <2>1. CASE stream.next = 0
    BY <1>3, <2>1, EmptyHash
  <2>2. CASE stream.next # 0
    <3>1. stream.next - 1 \in DOMAIN entry
      BY <1>2, <1>3, <2>2
    <3>2. /\ Len(entry[stream.next - 1].hash) = (stream.next - 1) + 1
          /\ \A i \in 1 .. (stream.next - 1) + 1 :
               entry[stream.next - 1].hash[i] = entry[i - 1].body
      BY <3>1 DEF ChainInv, HashesCount
    <3>3. QED
      BY <1>2, <1>3, <2>2, <3>2
  <2>3. QED
    BY <2>1, <2>2
<1>8. \A i \in 1 .. stream.next + 1 : r.hash[i] = entry'[i - 1].body
  <2>1. ASSUME NEW i \in 1 .. stream.next PROVE r.hash[i] = entry'[i - 1].body
    <3>1. i - 1 \in DOMAIN entry
      BY <1>2, <1>3, <2>1
    <3>2. QED
      BY <1>4, <1>6, <1>7, <2>1, <3>1
  <2>2. r.hash[stream.next + 1] = entry'[stream.next].body
    BY <1>2, <1>4, <1>7
  <2>3. QED
    BY <1>2, <2>1, <2>2
<1>9. QED
  BY <1>1, <1>2, <1>3, <1>4, <1>5, <1>6, <1>7, <1>8 DEF body

LEMMA InitChain == Init => ChainInv
<1> SUFFICES ASSUME Init PROVE ChainInv
  OBVIOUS
<1>1. DOMAIN entry = {} /\ stream.next = 0 /\ stream.head = <<>> /\ 0 .. stream.next - 1 = {}
  BY DEF Init, NoStream
<1>2. \A w \in Worker : lock # w /\ pc[w] = "idle"
  BY ConstantsAssumption DEF Init
<1>3. QED
  BY <1>1, <1>2
     DEF ChainInv, LockIsTheTransaction, HolderKnowsTheStream, StreamTellsTheChain, HashesCount

\* Steps that leave the stream, its entries, the lock and the transactions.
LEMMA SignersKeepTheChain ==
  ASSUME TypeOK, ChainInv, UNCHANGED <<stream, entry, lock, tx>>,
         \A w \in Worker : pc'[w] = pc[w]
  PROVE  ChainInv'
  BY DEF ChainInv, LockIsTheTransaction, HolderKnowsTheStream, StreamTellsTheChain, HashesCount

LEMMA NextChain == TypeOK /\ ChainInv /\ [Next]_vars => ChainInv'
<1> SUFFICES ASSUME TypeOK, ChainInv, [Next]_vars PROVE ChainInv'
  OBVIOUS
<1>1. ASSUME NEW p \in Worker \cup Signer, NEW stage, Goto(p, stage)
      PROVE  \A q \in Worker \cup Signer : pc'[q] = IF q = p THEN stage ELSE pc[q]
  BY <1>1 DEF Goto, TypeOK
<1>2. ASSUME UNCHANGED <<stream, entry>> PROVE (StreamTellsTheChain /\ HashesCount)'
  BY <1>2 DEF ChainInv, StreamTellsTheChain, HashesCount
<1>3. ASSUME NEW w \in Worker, BeginAppend(w) PROVE ChainInv'
  <2>1. lock # w
    BY <1>3 DEF BeginAppend, ChainInv, LockIsTheTransaction
  <2>2. LockIsTheTransaction'
    BY <1>1, <1>3 DEF BeginAppend, ChainInv, LockIsTheTransaction
  <2>3. HolderKnowsTheStream'
    BY <1>3, <2>1 DEF BeginAppend, tables, ChainInv, HolderKnowsTheStream, TypeOK
  <2>4. QED
    BY <1>2, <1>3, <2>2, <2>3 DEF BeginAppend, tables, ChainInv
<1>4. ASSUME NEW w \in Worker, LockStream(w) PROVE ChainInv'
  <2>1. LockIsTheTransaction'
    BY <1>1, <1>4, ConstantsAssumption DEF LockStream, ChainInv, LockIsTheTransaction
  <2>2. tx'[w].locked = stream
    BY <1>4 DEF LockStream, TypeOK, Transaction
  <2>3. HolderKnowsTheStream'
    BY <1>4, <2>2 DEF LockStream, tables, HolderKnowsTheStream
  <2>4. QED
    BY <1>2, <1>4, <2>1, <2>3 DEF LockStream, tables, ChainInv
<1>5. ASSUME NEW w \in Worker, InsertEntry(w) PROVE ChainInv'
  <2>1. LockIsTheTransaction'
    BY <1>1, <1>5 DEF InsertEntry, ChainInv, LockIsTheTransaction
  <2>2. HolderKnowsTheStream'
    BY <1>5 DEF InsertEntry, tables, ChainInv, HolderKnowsTheStream
  <2>3. QED
    BY <1>2, <1>5, <2>1, <2>2 DEF InsertEntry, tables, ChainInv
<1>6. ASSUME NEW w \in Worker, Commit(w) PROVE ChainInv'
  <2>1. /\ stream.next \in Nat
        /\ lock = w
        /\ DOMAIN entry = 0 .. stream.next - 1
        /\ DOMAIN entry' = 0 .. stream.next
        /\ \A s \in DOMAIN entry : entry'[s] = entry[s]
        /\ entry'[stream.next].prev = stream.head
        /\ Len(entry'[stream.next].hash) = stream.next + 1
        /\ \A i \in 1 .. stream.next + 1 : entry'[stream.next].hash[i] = entry'[i - 1].body
        /\ stream'.next = stream.next + 1
        /\ stream'.head = entry'[stream.next].hash
    BY <1>6, CommitFacts
  <2>2. LockIsTheTransaction'
    BY <1>1, <1>6, <2>1, ConstantsAssumption DEF Commit, ChainInv, LockIsTheTransaction
  <2>3. HolderKnowsTheStream'
    BY <1>6, ConstantsAssumption DEF Commit, HolderKnowsTheStream
  <2>4. StreamTellsTheChain'
    BY <2>1 DEF StreamTellsTheChain
  <2>5. HashesCount'
    <3>1. ASSUME NEW s \in DOMAIN entry
          PROVE  /\ entry'[s].prev = (IF s = 0 THEN <<>> ELSE entry'[s - 1].hash)
                 /\ Len(entry'[s].hash) = s + 1
                 /\ \A i \in 1 .. s + 1 : entry'[s].hash[i] = entry'[i - 1].body
      <4>1. /\ s \in Nat
            /\ \A i \in 1 .. s + 1 : i - 1 \in DOMAIN entry
            /\ s # 0 => s - 1 \in DOMAIN entry
        BY <2>1
      <4>2. /\ entry[s].prev = (IF s = 0 THEN <<>> ELSE entry[s - 1].hash)
            /\ Len(entry[s].hash) = s + 1
            /\ \A i \in 1 .. s + 1 : entry[s].hash[i] = entry[i - 1].body
        BY DEF ChainInv, HashesCount
      <4>3. QED
        BY <2>1, <4>1, <4>2
    <3>2. stream.head = IF stream.next = 0 THEN <<>> ELSE entry[stream.next - 1].hash
      BY DEF ChainInv, StreamTellsTheChain
    <3>3. stream.next # 0 => stream.next - 1 \in DOMAIN entry
      BY <2>1
    <3>4. entry'[stream.next].prev = (IF stream.next = 0 THEN <<>> ELSE entry'[stream.next - 1].hash)
      BY <2>1, <3>2, <3>3
    <3>5. \A s \in DOMAIN entry' : s \in DOMAIN entry \/ s = stream.next
      BY <2>1
    <3>6. QED
      BY <2>1, <3>1, <3>4, <3>5 DEF HashesCount
  <2>6. QED
    BY <2>2, <2>3, <2>4, <2>5 DEF ChainInv
<1>7. ASSUME NEW w \in Worker, Rollback(w) PROVE ChainInv'
  <2>1. LockIsTheTransaction'
    BY <1>1, <1>7, ConstantsAssumption DEF Rollback, ChainInv, LockIsTheTransaction
  <2>2. lock' # w /\ (lock' = lock \/ lock' = NoWorker)
    BY <1>7, ConstantsAssumption DEF Rollback
  <2>3. HolderKnowsTheStream'
    BY <1>7, <2>2, ConstantsAssumption
       DEF Rollback, tables, ChainInv, HolderKnowsTheStream, TypeOK
  <2>4. QED
    BY <1>2, <1>7, <2>1, <2>3 DEF Rollback, tables, ChainInv
<1>8. ASSUME NEW c \in Signer, ReadEntries(c) \/ CadenceStep(c) \/ Abandon(c) PROVE ChainInv'
  <2>1. \A w \in Worker : pc'[w] = pc[w]
    <3>1. PICK stage : Goto(c, stage)
      BY <1>8 DEF ReadEntries, CadenceStep, Abandon, ReadLatest, Sign, StoreCheckpoint,
                  NoCheckpointMade
    <3>2. QED
      BY <1>1, <3>1, ConstantsAssumption
  <2>2. UNCHANGED <<stream, entry, lock, tx>>
    BY <1>8 DEF ReadEntries, CadenceStep, Abandon, ReadLatest, Sign, StoreCheckpoint,
                NoCheckpointMade, tables
  <2>3. QED
    BY <2>1, <2>2, SignersKeepTheChain
<1>9. CASE Tick \/ UNCHANGED vars
  BY <1>9, SignersKeepTheChain DEF Tick, vars, tables
<1>10. QED
  BY <1>3, <1>4, <1>5, <1>6, <1>7, <1>8, <1>9 DEF Next, AppendStep

LEMMA ChainHolds == Spec => [](TypeOK /\ ChainInv)
<1>1. Init => TypeOK /\ ChainInv
  BY InitTypeOK, InitChain
<1>2. (TypeOK /\ ChainInv) /\ [Next]_vars => (TypeOK /\ ChainInv)'
  BY NextTypeOK, NextChain
<1>3. QED
  BY <1>1, <1>2, PTL DEF Spec

\* However many workers append, and whoever of them fails, only the holder of
\* the lock is in the middle of its transaction, and the stream row says how
\* many entries there are and which is the last (append).
THEOREM ChainIsWhole == Spec => [](LockIsTheTransaction /\ StreamTellsTheChain)
<1>1. ChainInv => LockIsTheTransaction /\ StreamTellsTheChain
  BY DEF ChainInv
<1>2. QED
  BY <1>1, ChainHolds, PTL

(***************************************************************************)
(* Checkpoints.  A run reads the entries first and the checkpoint after:   *)
(* a checkpoint of anything below its head was there to be seen, because   *)
(* one is stored only while its entry is the last.                         *)
(***************************************************************************)

CheckpointsBind == \A k \in checkpoint : k.seq \in DOMAIN entry /\ entry[k.seq].hash = k.head

OnePerHead == \A k, l \in checkpoint : k.seq = l.seq => k = l

IssuedInOrder == \A k, l \in checkpoint : k.seq < l.seq => k.issued <= l.issued

RunReadTheChain(c) ==
  pc[c] \in {"latest", "evaluate", "store"} =>
    run[c].seq \in DOMAIN entry /\ run[c].head = entry[run[c].seq].hash

RunKnowsTheLatest(c) ==
  pc[c] \in {"evaluate", "store"} =>
    /\ run[c].latest \in checkpoint \cup {NoCheckpoint}
    /\ \A k \in checkpoint : k.seq < run[c].seq => k.seq <= run[c].latest.seq

SignedWhenDue(c) ==
  pc[c] = "store" /\ run[c].latest \in checkpoint =>
    /\ run[c].latest.issued <= run[c].issued
    /\ \/ run[c].seq - run[c].latest.seq >= MaxWithout
       \/ run[c].issued - run[c].latest.issued >= MaxAge

RunInv(c) == RunReadTheChain(c) /\ RunKnowsTheLatest(c) /\ SignedWhenDue(c)

TableInv == CheckpointsBind /\ OnePerHead /\ IssuedInOrder /\ CheckpointsAreSpaced

CheckpointInv == TableInv /\ \A c \in Signer : RunInv(c)

LEMMA InitCheckpoints == Init => CheckpointInv
<1> SUFFICES ASSUME Init PROVE CheckpointInv
  OBVIOUS
<1>1. checkpoint = {} /\ \A c \in Signer : pc[c] = "idle"
  BY DEF Init
<1>2. QED
  BY <1>1 DEF CheckpointInv, TableInv, CheckpointsBind, OnePerHead, IssuedInOrder,
     CheckpointsAreSpaced, RunInv, RunReadTheChain, RunKnowsTheLatest, SignedWhenDue

\* Steps that leave the checkpoints and what a signer knows: entries may have
\* been added.
LEMMA RunStays ==
  ASSUME TypeOK, NEW c \in Signer, RunInv(c), pc'[c] = pc[c], run'[c] = run[c],
         checkpoint' = checkpoint,
         \A s \in DOMAIN entry : s \in DOMAIN entry' /\ entry'[s] = entry[s]
  PROVE  RunInv(c)'
  BY DEF RunInv, RunReadTheChain, RunKnowsTheLatest, SignedWhenDue

\* A run that has ended knows nothing.
LEMMA IdleRun ==
  ASSUME NEW c \in Signer, pc'[c] = "idle" PROVE RunInv(c)'
  BY DEF RunInv, RunReadTheChain, RunKnowsTheLatest, SignedWhenDue

LEMMA TableStays ==
  ASSUME TableInv, checkpoint' = checkpoint,
         \A s \in DOMAIN entry : s \in DOMAIN entry' /\ entry'[s] = entry[s]
  PROVE  TableInv'
  BY DEF TableInv, CheckpointsBind, OnePerHead, IssuedInOrder, CheckpointsAreSpaced

\* appendCheckpoint under the lock: the new checkpoint is above all others, and
\* far enough from them.
LEMMA StoreFacts ==
  ASSUME TypeOK, ChainInv, CheckpointInv, NEW c \in Signer, StoreCheckpoint(c),
         NEW m, m = CheckpointOf(run[c])
  PROVE  /\ checkpoint' = checkpoint \cup {m}
         /\ m \in Checkpoint
         /\ m.seq = stream.next - 1
         /\ m.seq \in DOMAIN entry
         /\ m.head = entry[m.seq].hash
         /\ \A k \in checkpoint :
              /\ k.seq < m.seq
              /\ k.issued <= m.issued
              /\ m.seq - k.seq >= MaxWithout \/ m.issued - k.issued >= MaxAge
<1>1. run[c] \in Run /\ run[c].latest \in Checkpoint \cup {NoCheckpoint}
  BY DEF TypeOK, Run
<1>2. m = [seq |-> run[c].seq, head |-> run[c].head, issued |-> run[c].issued]
  BY DEF CheckpointOf
<1>3. m \in Checkpoint
  BY <1>1, <1>2 DEF Run, Checkpoint
<1>4. /\ pc[c] = "store"
      /\ checkpoint' = checkpoint \cup {m}
      /\ stream.next = run[c].seq + 1
      /\ \A k \in checkpoint : k.seq # run[c].seq
  BY DEF StoreCheckpoint, CanStore
<1>5. /\ run[c].seq \in DOMAIN entry
      /\ run[c].head = entry[run[c].seq].hash
  BY <1>4 DEF CheckpointInv, RunInv, RunReadTheChain
<1>6. m.seq = stream.next - 1 /\ stream.next \in Nat
  BY <1>1, <1>2, <1>4 DEF Run, TypeOK, Stream
<1>7. ASSUME NEW k \in checkpoint
      PROVE  /\ k.seq < m.seq
             /\ k.issued <= m.issued
             /\ m.seq - k.seq >= MaxWithout \/ m.issued - k.issued >= MaxAge
  <2> DEFINE l == run[c].latest
  <2>1. k \in Checkpoint
    BY DEF TypeOK
  <2>2. k.seq \in 0 .. stream.next - 1
    BY DEF CheckpointInv, TableInv, CheckpointsBind, ChainInv, StreamTellsTheChain
  <2>3. k.seq < m.seq
    BY <1>2, <1>4, <1>6, <2>1, <2>2 DEF Checkpoint
  <2>4. l \in checkpoint \cup {NoCheckpoint} /\ k.seq <= l.seq
    BY <1>2, <1>4, <2>3 DEF CheckpointInv, RunInv, RunKnowsTheLatest
  <2>5. l # NoCheckpoint
    BY <2>1, <2>4 DEF Checkpoint, NoCheckpoint
  <2>6. l \in checkpoint /\ l \in Checkpoint
    BY <2>4, <2>5 DEF TypeOK
  <2>7. /\ l.issued <= m.issued
        /\ m.seq - l.seq >= MaxWithout \/ m.issued - l.issued >= MaxAge
    BY <1>2, <1>4, <2>6 DEF CheckpointInv, RunInv, SignedWhenDue
  <2>8. k.seq = l.seq => k = l
    BY <2>6 DEF CheckpointInv, TableInv, OnePerHead
  <2>9. k.seq < l.seq => /\ k.issued <= l.issued
                         /\ l.seq - k.seq >= MaxWithout \/ l.issued - k.issued >= MaxAge
    BY <2>6 DEF CheckpointInv, TableInv, IssuedInOrder, CheckpointsAreSpaced
  <2>10. l.seq < m.seq
    <3>1. l.seq \in 0 .. stream.next - 1 /\ l.seq # run[c].seq
      BY <1>4, <2>6 DEF CheckpointInv, TableInv, CheckpointsBind, ChainInv, StreamTellsTheChain
    <3>2. QED
      BY <1>2, <1>6, <3>1
  <2>11. /\ k.seq \in Nat /\ l.seq \in Nat /\ m.seq \in Nat
         /\ k.issued \in Nat /\ l.issued \in Nat /\ m.issued \in Nat
         /\ MaxWithout \in Nat /\ MaxAge \in Nat
    BY <1>3, <2>1, <2>6, ConstantsAssumption DEF Checkpoint
  <2> HIDE DEF l
  <2>12. CASE k.seq = l.seq
    BY <2>3, <2>7, <2>8, <2>12
  <2>13. CASE k.seq < l.seq
    BY <2>3, <2>7, <2>9, <2>10, <2>11, <2>13
  <2>14. QED
    BY <2>4, <2>11, <2>12, <2>13
<1>8. QED
  BY <1>2, <1>3, <1>4, <1>5, <1>6, <1>7

LEMMA NextCheckpoints == TypeOK /\ ChainInv /\ CheckpointInv /\ [Next]_vars => CheckpointInv'
<1> SUFFICES ASSUME TypeOK, ChainInv, CheckpointInv, [Next]_vars PROVE CheckpointInv'
  OBVIOUS
<1>1. ASSUME NEW p \in Worker \cup Signer, NEW stage, Goto(p, stage)
      PROVE  \A q \in Worker \cup Signer : pc'[q] = IF q = p THEN stage ELSE pc[q]
  BY <1>1 DEF Goto, TypeOK
<1>2. ASSUME checkpoint' = checkpoint, run' = run, \A c \in Signer : pc'[c] = pc[c],
             \A s \in DOMAIN entry : s \in DOMAIN entry' /\ entry'[s] = entry[s]
      PROVE  CheckpointInv'
  BY <1>2, RunStays, TableStays DEF CheckpointInv
<1>3. ASSUME NEW w \in Worker, BeginAppend(w) \/ AppendStep(w) \/ Rollback(w)
      PROVE  CheckpointInv'
  <2>1. \A c \in Signer : pc'[c] = pc[c]
    <3>1. PICK stage : Goto(w, stage)
      BY <1>3 DEF BeginAppend, AppendStep, LockStream, InsertEntry, Commit, Rollback
    <3>2. QED
      BY <1>1, <3>1, ConstantsAssumption
  <2>2. checkpoint' = checkpoint /\ run' = run
    BY <1>3 DEF BeginAppend, AppendStep, LockStream, InsertEntry, Commit, Rollback, tables
  <2>3. \A s \in DOMAIN entry : s \in DOMAIN entry' /\ entry'[s] = entry[s]
    <3>1. CASE Commit(w)
      <4>1. /\ stream.next \in Nat
            /\ DOMAIN entry = 0 .. stream.next - 1
            /\ DOMAIN entry' = 0 .. stream.next
            /\ \A s \in DOMAIN entry : entry'[s] = entry[s]
        BY <3>1, CommitFacts
      <4>2. QED
        BY <4>1
    <3>2. CASE ~ Commit(w)
      BY <1>3, <3>2 DEF BeginAppend, AppendStep, LockStream, InsertEntry, Rollback, tables
    <3>3. QED
      BY <3>1, <3>2
  <2>4. QED
    BY <1>2, <2>1, <2>2, <2>3
<1>4. ASSUME NEW c \in Signer, ReadEntries(c) \/ ReadLatest(c) \/ Sign(c)
               \/ NoCheckpointMade(c) \/ Abandon(c),
             RunInv(c)'
      PROVE  CheckpointInv'
  <2>1. checkpoint' = checkpoint /\ entry' = entry
    BY <1>4 DEF ReadEntries, ReadLatest, Sign, NoCheckpointMade, Abandon, tables
  <2>2. ASSUME NEW d \in Signer, d # c PROVE pc'[d] = pc[d] /\ run'[d] = run[d]
    <3>1. PICK stage : Goto(c, stage)
      BY <1>4 DEF ReadEntries, ReadLatest, Sign, NoCheckpointMade, Abandon
    <3>2. PICK r : run' = [run EXCEPT ![c] = r]
      BY <1>4 DEF ReadEntries, ReadLatest, Sign, NoCheckpointMade, Abandon
    <3>3. QED
      BY <1>1, <2>2, <3>1, <3>2 DEF TypeOK
  <2>3. \A d \in Signer : RunInv(d)'
    BY <1>4, <2>1, <2>2, RunStays DEF CheckpointInv
  <2>4. QED
    BY <2>1, <2>3, TableStays DEF CheckpointInv
<1>5. ASSUME NEW c \in Signer, ReadEntries(c) PROVE CheckpointInv'
  <2>1. pc'[c] = "latest"
    BY <1>1, <1>5 DEF ReadEntries
  <2>2. PICK s \in DOMAIN entry :
          run' = [run EXCEPT ![c] =
               [first |-> entry[0].body.at, seq |-> s, head |-> entry[s].hash,
                at |-> entry[s].body.at, latest |-> NoCheckpoint, issued |-> 0]]
    BY <1>5 DEF ReadEntries
  <2>3. run'[c].seq = s /\ run'[c].head = entry[s].hash /\ entry' = entry
    BY <1>5, <2>2 DEF TypeOK, ReadEntries, tables
  <2>4. RunInv(c)'
    BY <2>1, <2>3 DEF RunInv, RunReadTheChain, RunKnowsTheLatest, SignedWhenDue
  <2>5. QED
    BY <1>4, <1>5, <2>4
<1>6. ASSUME NEW c \in Signer, ReadLatest(c) PROVE CheckpointInv'
  <2>1. pc[c] = "latest" /\ pc'[c] = "evaluate" /\ UNCHANGED <<entry, checkpoint>>
    BY <1>1, <1>6 DEF ReadLatest, tables
  <2>2. PICK k \in IF checkpoint = {} THEN {NoCheckpoint} ELSE checkpoint :
          IsLatest(k) /\ run' = [run EXCEPT ![c].latest = k]
    BY <1>6 DEF ReadLatest
  <2>3. run'[c].seq = run[c].seq /\ run'[c].head = run[c].head /\ run'[c].latest = k
    BY <2>2 DEF TypeOK, Run
  <2>4. RunReadTheChain(c)'
    BY <2>1, <2>3 DEF CheckpointInv, RunInv, RunReadTheChain
  <2>5. RunKnowsTheLatest(c)'
    BY <2>1, <2>2, <2>3 DEF RunKnowsTheLatest, IsLatest
  <2>6. SignedWhenDue(c)'
    BY <2>1 DEF SignedWhenDue
  <2>7. QED
    BY <1>4, <1>6, <2>4, <2>5, <2>6 DEF RunInv
<1>7. ASSUME NEW c \in Signer, Sign(c) PROVE CheckpointInv'
  <2>1. pc[c] = "evaluate" /\ pc'[c] = "store" /\ UNCHANGED <<entry, checkpoint>>
    BY <1>1, <1>7 DEF Sign, tables
  <2>2. /\ run'[c].seq = run[c].seq /\ run'[c].head = run[c].head
        /\ run'[c].latest = run[c].latest /\ run'[c].issued = Clock(c)
    BY <1>7 DEF Sign, TypeOK, Run
  <2>3. RunReadTheChain(c)' /\ RunKnowsTheLatest(c)'
    BY <2>1, <2>2 DEF CheckpointInv, RunInv, RunReadTheChain, RunKnowsTheLatest
  <2>4. ASSUME run[c].latest \in checkpoint
        PROVE  /\ run[c].latest.issued <= Clock(c)
               /\ \/ run[c].seq - run[c].latest.seq >= MaxWithout
                  \/ Clock(c) - run[c].latest.issued >= MaxAge
    <3>1. run[c].latest # NoCheckpoint
      BY <2>4 DEF TypeOK, Checkpoint, NoCheckpoint
    <3>2. QED
      BY <1>7, <3>1 DEF Sign, Consistent, IsDue
  <2>5. SignedWhenDue(c)'
    BY <2>1, <2>2, <2>4 DEF SignedWhenDue
  <2>6. QED
    BY <1>4, <1>7, <2>3, <2>5 DEF RunInv
<1>8. ASSUME NEW c \in Signer, StoreCheckpoint(c) PROVE CheckpointInv'
  <2> DEFINE m == CheckpointOf(run[c])
  <2>2. /\ checkpoint' = checkpoint \cup {m}
        /\ m \in Checkpoint
        /\ m.seq = stream.next - 1
        /\ m.seq \in DOMAIN entry
        /\ m.head = entry[m.seq].hash
        /\ \A k \in checkpoint :
             /\ k.seq < m.seq
             /\ k.issued <= m.issued
             /\ m.seq - k.seq >= MaxWithout \/ m.issued - k.issued >= MaxAge
    BY <1>8, StoreFacts
  <2> HIDE DEF m
  <2>3. entry' = entry /\ run' = [run EXCEPT ![c] = NoRun] /\ Goto(c, "idle")
    BY <1>8 DEF StoreCheckpoint
  <2>4. \A k \in checkpoint' : k \in Checkpoint
    BY <2>2 DEF TypeOK
  <2>5. TableInv'
    <3>1. CheckpointsBind'
      BY <2>2, <2>3 DEF CheckpointInv, TableInv, CheckpointsBind
    <3>2. OnePerHead'
      BY <2>2, <2>4 DEF CheckpointInv, TableInv, OnePerHead, Checkpoint
    <3>3. IssuedInOrder'
      BY <2>2, <2>4 DEF CheckpointInv, TableInv, IssuedInOrder, Checkpoint
    <3>4. CheckpointsAreSpaced'
      BY <2>2, <2>4 DEF CheckpointInv, TableInv, CheckpointsAreSpaced, Checkpoint
    <3>5. QED
      BY <3>1, <3>2, <3>3, <3>4 DEF TableInv
  <2>6. RunInv(c)'
    BY <1>1, <2>3, IdleRun
  <2>7. ASSUME NEW d \in Signer, d # c PROVE RunInv(d)'
    <3>1. pc'[d] = pc[d] /\ run'[d] = run[d]
      BY <1>1, <2>3, <2>7 DEF TypeOK
    <3>2. RunInv(d) /\ run[d] \in Run
      BY DEF CheckpointInv, TypeOK
    <3>3. RunReadTheChain(d)'
      BY <2>3, <3>1, <3>2 DEF RunInv, RunReadTheChain
    <3>4. pc[d] \in {"evaluate", "store"} => ~ (m.seq < run[d].seq) /\ run[d].latest # m
      <4>1. pc[d] \in {"evaluate", "store"} => run[d].seq \in 0 .. stream.next - 1
        BY <3>2 DEF RunInv, RunReadTheChain, ChainInv, StreamTellsTheChain
      <4>2. pc[d] \in {"evaluate", "store"} =>
              run[d].latest \in checkpoint \/ run[d].latest = NoCheckpoint
        BY <3>2 DEF RunInv, RunKnowsTheLatest
      <4>3. m.seq \in Nat /\ m \notin checkpoint
        BY <2>2 DEF Checkpoint
      <4>4. m # NoCheckpoint
        BY <4>3 DEF NoCheckpoint
      <4>5. pc[d] \in {"evaluate", "store"} => ~ (m.seq < run[d].seq)
        BY <2>2, <4>1, <3>2 DEF Run, TypeOK, Stream
      <4>6. QED
        BY <4>2, <4>3, <4>4, <4>5
    <3>5. RunKnowsTheLatest(d)'
      BY <2>2, <3>1, <3>2, <3>4 DEF RunInv, RunKnowsTheLatest
    <3>6. SignedWhenDue(d)'
      BY <2>2, <3>1, <3>2, <3>4 DEF RunInv, SignedWhenDue
    <3>7. QED
      BY <3>3, <3>5, <3>6 DEF RunInv
  <2>8. QED
    BY <2>5, <2>6, <2>7 DEF CheckpointInv
<1>9. ASSUME NEW c \in Signer, NoCheckpointMade(c) \/ Abandon(c) PROVE CheckpointInv'
  <2>1. pc'[c] = "idle"
    BY <1>1, <1>9 DEF NoCheckpointMade, Abandon
  <2>2. QED
    BY <1>4, <1>9, <2>1, IdleRun
<1>10. CASE Tick \/ UNCHANGED vars
  BY <1>2, <1>10 DEF Tick, vars, tables
<1>11. QED
  BY <1>3, <1>5, <1>6, <1>7, <1>8, <1>9, <1>10 DEF Next, CadenceStep

LEMMA LedgerHolds == Spec => [](TypeOK /\ ChainInv /\ CheckpointInv)
<1>1. Init => TypeOK /\ ChainInv /\ CheckpointInv
  BY InitTypeOK, InitChain, InitCheckpoints
<1>2. (TypeOK /\ ChainInv /\ CheckpointInv) /\ [Next]_vars =>
        (TypeOK /\ ChainInv /\ CheckpointInv)'
  BY NextTypeOK, NextChain, NextCheckpoints
<1>3. QED
  BY <1>1, <1>2, PTL DEF Spec

\* Between two checkpoints lie as many entries, or as much time, as the policy
\* asks for, however many cadences run (runViraActionLedgerCheckpointCadence).
THEOREM Spacing == Spec => []CheckpointsAreSpaced
<1>1. CheckpointInv => CheckpointsAreSpaced
  BY DEF CheckpointInv, TableInv
<1>2. QED
  BY <1>1, LedgerHolds, PTL

\* The hash of an entry, and with it every checkpoint, commits to the whole
\* history up to it (createViraProductionActionLedgerEntry).
THEOREM History == Spec => []HashSealsHistory
<1>1. TypeOK /\ ChainInv /\ CheckpointInv => HashSealsHistory
  <2> SUFFICES ASSUME TypeOK, ChainInv, CheckpointInv PROVE HashSealsHistory
    OBVIOUS
  <2>1. ASSUME NEW s \in DOMAIN entry
        PROVE  entry[s].hash = [i \in 1 .. s + 1 |-> entry[i - 1].body]
    <3> DEFINE h == entry[s].hash
    <3>1. h \in Seq(Body)
      BY DEF TypeOK, Row, Hash
    <3>2. Len(h) = s + 1 /\ \A i \in 1 .. s + 1 : h[i] = entry[i - 1].body
      BY DEF ChainInv, HashesCount
    <3>3. h = [i \in 1 .. Len(h) |-> h[i]]
      BY <3>1, LenProperties
    <3>4. QED
      BY <3>2, <3>3
  <2>2. QED
    BY <2>1 DEF HashSealsHistory, ChainInv, HashesCount, CheckpointInv, TableInv, CheckpointsBind
<1>2. QED
  BY <1>1, LedgerHolds, PTL

(***************************************************************************)
(* The ledger implements SealedLog: a commit writes at the end of the log, *)
(* a stored checkpoint seals all of it, and nothing else is seen.          *)
(***************************************************************************)

Log == [i \in 1 .. stream.next |-> entry[i - 1].body]

\* Sequences are bounded, but a maximum of a set of them is easier kept than found.
HasLatest == checkpoint # {} => \E k \in checkpoint : IsLatest(k)

SealInv == TypeOK /\ ChainInv /\ CheckpointInv /\ HasLatest

LEMMA LatestIs ==
  ASSUME NEW S, NEW k \in S, \A d \in S : d.seq \in Nat, \A d \in S : d.seq <= k.seq,
         \A d, e \in S : d.seq = e.seq => d = e
  PROVE  (CHOOSE j \in S : \A d \in S : d.seq <= j.seq) = k
<1> DEFINE j == CHOOSE j \in S : \A d \in S : d.seq <= j.seq
<1>1. j \in S /\ \A d \in S : d.seq <= j.seq
  OBVIOUS
<1> HIDE DEF j
<1>2. j.seq <= k.seq /\ k.seq <= j.seq /\ j.seq \in Nat /\ k.seq \in Nat
  BY <1>1
<1>3. j.seq = k.seq
  BY <1>2
<1>4. j = k
  BY <1>1, <1>3
<1>5. QED
  BY <1>4 DEF j

LEMMA StoreKeepsLatest ==
  ASSUME TypeOK, ChainInv, CheckpointInv, NEW c \in Signer, StoreCheckpoint(c)
  PROVE  HasLatest' /\ Latest'.seq = stream.next - 1
<1> DEFINE m == CheckpointOf(run[c])
<1>1. /\ checkpoint' = checkpoint \cup {m}
      /\ m \in Checkpoint
      /\ m.seq = stream.next - 1
      /\ \A k \in checkpoint : k.seq < m.seq
  BY StoreFacts
<1> HIDE DEF m
<1>2. /\ m \in checkpoint'
      /\ checkpoint' # {}
      /\ \A k \in checkpoint' : k \in Checkpoint
  BY <1>1 DEF TypeOK
<1>3. \A k \in checkpoint' : k.seq \in Nat /\ k.seq <= m.seq
  BY <1>1, <1>2 DEF Checkpoint
<1>4. \A k, l \in checkpoint' : k.seq = l.seq => k = l
  BY <1>1, <1>2 DEF Checkpoint, CheckpointInv, TableInv, OnePerHead
<1>5. (CHOOSE j \in checkpoint' : \A d \in checkpoint' : d.seq <= j.seq) = m
  BY <1>2, <1>3, <1>4, LatestIs
<1>6. QED
  BY <1>1, <1>2, <1>3, <1>5 DEF HasLatest, Latest, IsLatest

LEMMA InitSeal == Init => SealInv
  BY InitTypeOK, InitChain, InitCheckpoints DEF SealInv, HasLatest, Init

LEMMA NextSeal == SealInv /\ [Next]_vars => SealInv'
<1> SUFFICES ASSUME SealInv, [Next]_vars PROVE SealInv'
  OBVIOUS
<1>1. TypeOK' /\ ChainInv' /\ CheckpointInv'
  BY NextTypeOK, NextChain, NextCheckpoints DEF SealInv
<1>2. HasLatest'
  <2>1. CASE checkpoint' = checkpoint
    BY <2>1 DEF SealInv, HasLatest, IsLatest
  <2>2. CASE \E c \in Signer : StoreCheckpoint(c)
    BY <2>2, StoreKeepsLatest DEF SealInv
  <2>3. checkpoint' = checkpoint \/ \E c \in Signer : StoreCheckpoint(c)
    BY DEF Next, AppendStep, CadenceStep, BeginAppend, LockStream, InsertEntry, Commit,
       Rollback, ReadEntries, ReadLatest, Sign, NoCheckpointMade, Abandon, Tick, tables, vars
  <2>4. QED
    BY <2>1, <2>2, <2>3
<1>3. QED
  BY <1>1, <1>2 DEF SealInv

LEMMA LatestSeq ==
  ASSUME SealInv
  PROVE  /\ checkpoint = {} => Latest.seq = -1
         /\ checkpoint # {} => Latest \in checkpoint
<1>1. checkpoint = {} => Latest.seq = -1
  BY DEF Latest, NoCheckpoint
<1>2. checkpoint # {} => Latest \in checkpoint
  BY DEF SealInv, HasLatest, Latest
<1>3. QED
  BY <1>1, <1>2

LEMMA LogFacts ==
  ASSUME SealInv
  PROVE  /\ stream.next \in Nat
         /\ Len(Log) = stream.next
         /\ \A i \in 1 .. stream.next : Log[i] = entry[i - 1].body
<1>1. stream.next \in Nat
  BY DEF SealInv, TypeOK, Stream
<1>2. QED
  BY <1>1 DEF Log

LEMMA InitSealed == Init => Sealed!Init
<1> SUFFICES ASSUME Init PROVE Log = <<>> /\ Latest.seq + 1 = 0
  BY DEF Sealed!Init, Log
<1>1. stream.next = 0 /\ checkpoint = {}
  BY DEF Init, NoStream
<1>2. Log = <<>>
  BY <1>1 DEF Log
<1>3. QED
  BY <1>1, <1>2 DEF Latest, NoCheckpoint

\* A commit writes one entry at the end.
LEMMA CommitWrites ==
  ASSUME SealInv, SealInv', NEW w \in Worker, Commit(w)
  PROVE  Sealed!Write
<1>1. /\ stream.next \in Nat
      /\ stream'.next = stream.next + 1
      /\ DOMAIN entry = 0 .. stream.next - 1
      /\ \A s \in DOMAIN entry : entry'[s] = entry[s]
      /\ entry'[stream.next] \in Row
  BY CommitFacts DEF SealInv
<1>2. /\ Len(Log) = stream.next
      /\ \A i \in 1 .. stream.next : Log[i] = entry[i - 1].body
  BY LogFacts
<1>3. /\ Len(Log') = stream.next + 1
      /\ \A i \in 1 .. stream.next + 1 : Log'[i] = entry'[i - 1].body
  BY <1>1 DEF Log
<1>4. ASSUME NEW i \in 1 .. Len(Log) PROVE Log'[i] = Log[i]
  <2>1. i \in 1 .. stream.next /\ i \in 1 .. stream.next + 1 /\ i - 1 \in DOMAIN entry
    BY <1>1, <1>2
  <2>2. Log[i] = entry[i - 1].body /\ Log'[i] = entry'[i - 1].body
    BY <1>2, <1>3, <2>1
  <2>3. entry'[i - 1] = entry[i - 1]
    BY <1>1, <2>1
  <2>4. QED
    BY <2>2, <2>3
<1>5. Log'[Len(Log')] \in Body
  BY <1>1, <1>3 DEF Row
<1>6. Latest' = Latest
  BY DEF Commit, Latest, IsLatest
<1>7. QED
  BY <1>1, <1>2, <1>3, <1>4, <1>5, <1>6 DEF Sealed!Write, Log

\* A stored checkpoint seals what no checkpoint sealed before.
LEMMA StoreSeals ==
  ASSUME SealInv, NEW c \in Signer, StoreCheckpoint(c)
  PROVE  Sealed!Seal
<1>1. stream.next \in Nat /\ Len(Log) = stream.next
  BY LogFacts
<1>2. Latest'.seq = stream.next - 1
  BY StoreKeepsLatest DEF SealInv
<1>3. Latest.seq + 1 < stream.next
  <2> DEFINE m == CheckpointOf(run[c])
  <2>1. /\ m.seq = stream.next - 1
        /\ m \in Checkpoint
        /\ \A k \in checkpoint : k.seq < m.seq
    BY StoreFacts DEF SealInv
  <2> HIDE DEF m
  <2>2. CASE checkpoint = {}
    BY <1>1, <2>1, <2>2, LatestSeq DEF Checkpoint
  <2>3. CASE checkpoint # {}
    <3>1. Latest \in checkpoint /\ Latest \in Checkpoint
      BY <2>3, LatestSeq DEF SealInv, TypeOK
    <3>2. QED
      BY <1>1, <2>1, <3>1 DEF Checkpoint
  <2>4. QED
    BY <2>2, <2>3
<1>4. Log' = Log
  BY DEF StoreCheckpoint, Log
<1>5. QED
  BY <1>1, <1>2, <1>3, <1>4 DEF Sealed!Seal, Log

LEMMA StepIsSealed ==
  SealInv /\ SealInv' /\ [Next]_vars => [Sealed!Next]_<<Log, Latest.seq + 1>>
<1> SUFFICES ASSUME SealInv, SealInv', [Next]_vars
             PROVE  Sealed!Next \/ UNCHANGED <<Log, Latest.seq + 1>>
  OBVIOUS
<1>1. CASE \E w \in Worker : Commit(w)
  BY <1>1, CommitWrites DEF Sealed!Next
<1>2. CASE \E c \in Signer : StoreCheckpoint(c)
  BY <1>2, StoreSeals DEF Sealed!Next
<1>3. CASE UNCHANGED tables
  BY <1>3 DEF tables, Log, Latest, IsLatest
<1>4. \/ \E w \in Worker : Commit(w)
      \/ \E c \in Signer : StoreCheckpoint(c)
      \/ UNCHANGED tables
  BY DEF Next, AppendStep, CadenceStep, BeginAppend, LockStream, InsertEntry,
     Rollback, ReadEntries, ReadLatest, Sign, NoCheckpointMade, Abandon, Tick, tables, vars
<1>5. QED
  BY <1>1, <1>2, <1>3, <1>4

\* What an auditor of the ledger may rely on: entries are added at the end and
\* never change, and each checkpoint covers everything written before it
\* (append and appendCheckpoint under concurrent appends, crashes and cadences).
THEOREM Implements == Spec => KeepsTheLog
<1>1. Spec => []SealInv
  BY InitSeal, NextSeal, PTL DEF Spec
<1>2. QED
  BY <1>1, InitSealed, StepIsSealed, PTL DEF Spec, KeepsTheLog, Sealed!Spec, Log
=============================================================================
