----------------------- MODULE EvidencePipelineProofs -----------------------
(***************************************************************************)
(* Proofs about EvidencePipeline, for any number of requests, commits and  *)
(* traces and any bound on chunks and faults.                              *)
(*                                                                         *)
(* The argument: rows holds exactly events that a goroutine has passed     *)
(* (RowInv), everything it has passed is stored or dropped (StoreInv), so  *)
(* the rows of a trace are, at any moment, a prefix up to dropped events.  *)
(* A commit keeps what it read (ReadInv) and its certificate repeats it    *)
(* (CertInv).  Rows are never removed, so a later read covers an earlier.  *)
(***************************************************************************)
EXTENDS EvidencePipeline, FiniteSetTheorems, TLAPS

USE PipelineAssumption DEF PipelineAssumption

(* The helper that builds result.Events yields events of its request, and  *)
(* no event twice.                                                         *)
LEMMA EventAtType ==
  ASSUME NEW r \in Requests, NEW n \in 0 .. MaxChunks, NEW i \in 1 .. n + 3
  PROVE  EventAt(r, n, i) \in Event /\ EventAt(r, n, i).req = r
<1>1. CASE i = 1
  BY <1>1 DEF EventAt, InputEvent, EventOf, Event
<1>2. CASE i = 2
  BY <1>2 DEF EventAt, ModelEvent, EventOf, Event
<1>3. CASE i = 3
  BY <1>3 DEF EventAt, OutputEvent, EventOf, Event
<1>4. CASE i \in 4 .. n + 3
  BY <1>4 DEF EventAt, ChunkEvent, EventOf, Event
<1>5. QED
  BY <1>1, <1>2, <1>3, <1>4

LEMMA EventAtInjective ==
  ASSUME NEW r, NEW n \in Nat, NEW i \in 1 .. n + 3, NEW j \in 1 .. n + 3,
         EventAt(r, n, i) = EventAt(r, n, j)
  PROVE  i = j
<1> DEFINE Seq(m) == CASE m = 1 -> 1 [] m = 2 -> 2 [] m = 3 -> n + 3 [] OTHER -> m - 1
           Kind(m) == CASE m = 1 -> "INPUT" [] m = 2 -> "MODEL" [] m = 3 -> "OUTPUT" [] OTHER -> "CHUNK"
<1>1. \A m \in 1 .. n + 3 : EventAt(r, n, m).seq = Seq(m) /\ EventAt(r, n, m).kind = Kind(m)
  <2> SUFFICES ASSUME NEW m \in 1 .. n + 3
               PROVE  EventAt(r, n, m).seq = Seq(m) /\ EventAt(r, n, m).kind = Kind(m)
    OBVIOUS
  <2>1. CASE m = 1
    BY <2>1 DEF EventAt, InputEvent, EventOf
  <2>2. CASE m = 2
    BY <2>2 DEF EventAt, ModelEvent, EventOf
  <2>3. CASE m = 3
    BY <2>3 DEF EventAt, OutputEvent, EventOf
  <2>4. CASE m \in 4 .. n + 3
    BY <2>4 DEF EventAt, ChunkEvent, EventOf
  <2>5. QED
    BY <2>1, <2>2, <2>3, <2>4
<1>2. Seq(i) = Seq(j) /\ Kind(i) = Kind(j)
  BY <1>1
<1>3. QED
  BY <1>2

----------------------------------------------------------------------------
(* The inductive invariant.                                                *)

Stages == {"idle", "upstream", "streaming", "storing", "stored", "failed"}

RequestTypes ==
  /\ pc \in [Requests -> Stages]
  /\ trace \in [Requests -> Traces \union {NoTrace}]
  /\ chunks \in [Requests -> 0 .. MaxChunks]
  /\ cursor \in [Requests -> Nat]
  /\ \A r \in Requests : cursor[r] \in 1 .. EventCount(r) + 1

(* Before the goroutine starts nothing is stored; while it runs there is   *)
(* an event to store; what it has passed is stored or dropped.             *)
StoreInv ==
  \A r \in Requests :
    /\ pc[r] \in {"idle", "upstream", "streaming"} => cursor[r] = 1
    /\ pc[r] = "storing" => cursor[r] <= EventCount(r)
    /\ \A i \in 1 .. EventCount(r) : i < cursor[r] => StoredAt(r, i) \in rows \union dropped

(* The database holds only events that a goroutine has passed.             *)
RowInv ==
  \A e \in rows :
    /\ e.req \in Requests
    /\ \E i \in 1 .. EventCount(e.req) : i < cursor[e.req] /\ e = StoredAt(e.req, i)

StoringInv == RequestTypes /\ StoreInv /\ RowInv

IsPrefix(L) ==
  \A r \in Requests : \A i, j \in 1 .. EventCount(r) :
    (i < j /\ StoredAt(r, j) \in L) => StoredAt(r, i) \in L \union dropped

(* What a commit has read is a part of the database that its trace had at  *)
(* some moment, and of two readings of a trace one contains the other.     *)
ReadInv ==
  /\ commit \in [Commits -> DraftType]
  /\ \A k \in Commits :
       /\ commit[k].pc = "idle" => commit[k].leaves = {}
       /\ commit[k].leaves \subseteq RowsOf(commit[k].trace)
       /\ IsPrefix(commit[k].leaves)
  /\ \A k, l \in Commits :
       commit[k].trace = commit[l].trace =>
         commit[k].leaves \subseteq commit[l].leaves \/ commit[l].leaves \subseteq commit[k].leaves

(* A certificate repeats what its commit read.                             *)
CertInv ==
  \A c \in certs :
    /\ c.id \in Commits
    /\ commit[c.id].pc # "idle"
    /\ c.trace = commit[c.id].trace
    /\ c.leaves = commit[c.id].leaves

IInv == StoringInv /\ ReadInv /\ CertInv

----------------------------------------------------------------------------
(* The storing side.                                                       *)

LEMMA StoringInvInit == Init => StoringInv
<1> SUFFICES ASSUME Init PROVE StoringInv
  OBVIOUS
<1>1. RequestTypes
  BY DEF Init, RequestTypes, Stages, EventCount
<1>2. StoreInv
  BY DEF Init, StoreInv
<1>3. RowInv
  BY DEF Init, RowInv
<1>4. QED
  BY <1>1, <1>2, <1>3 DEF StoringInv

(* A step that only moves a request between its phases disturbs nothing.   *)
LEMMA PhaseStep ==
  ASSUME StoringInv, NEW r \in Requests, NEW p \in Stages,
         pc' = [pc EXCEPT ![r] = p],
         p # "idle",
         p \in {"upstream", "streaming", "storing"} => pc[r] \in {"idle", "upstream", "streaming"},
         trace' \in [Requests -> Traces \union {NoTrace}],
         UNCHANGED <<chunks, cursor, rows, dropped>>
  PROVE  StoringInv'
<1> USE DEF StoringInv
<1>1. RequestTypes'
  BY DEF RequestTypes, Stages, EventCount
<1>2. StoreInv'
  BY DEF StoreInv, RequestTypes, Stages, EventCount, StoredAt
<1>3. RowInv'
  BY DEF RowInv, EventCount, StoredAt
<1>4. QED
  BY <1>1, <1>2, <1>3

LEMMA ReceiveChunkStores ==
  ASSUME StoringInv, NEW r \in Requests, ReceiveChunk(r)
  PROVE  StoringInv'
<1> USE DEF StoringInv, ReceiveChunk
<1>1. RequestTypes'
  BY DEF RequestTypes, Stages, EventCount
<1>2. cursor[r] = 1
  BY DEF StoreInv
<1>3. \A q \in Requests \ {r} : chunks'[q] = chunks[q]
  BY DEF RequestTypes
<1>4. StoreInv'
  BY <1>2, <1>3 DEF StoreInv, RequestTypes, EventCount, StoredAt
<1>5. RowInv'
  BY <1>2, <1>3 DEF RowInv, EventCount, StoredAt
<1>6. QED
  BY <1>1, <1>4, <1>5

(* The goroutine of r passes one more event, which becomes a row unless it *)
(* is dropped.                                                             *)
LEMMA GoroutineStep ==
  ASSUME StoringInv, NEW r \in Requests, pc[r] = "storing",
         NEW e, e = StoredAt(r, cursor[r]),
         Advance(r, cursor[r] + 1),
         rows' \in {rows, rows \union {e}},
         dropped' \in {dropped, dropped \union {e}},
         e \in rows' \union dropped',
         UNCHANGED <<trace, chunks>>
  PROVE  StoringInv'
<1> USE DEF StoringInv
<1>1. /\ cursor[r] \in 1 .. EventCount(r)
      /\ EventCount(r) \in Nat
  BY DEF RequestTypes, StoreInv, EventCount
<1>2. e.req = r
  BY <1>1, EventAtType DEF StoredAt, EventCount, RequestTypes
<1>3. /\ \A q \in Requests : cursor'[q] = IF q = r THEN cursor[r] + 1 ELSE cursor[q]
      /\ \A q \in Requests \ {r} : pc'[q] = pc[q]
      /\ pc'[r] = IF cursor[r] + 1 > EventCount(r) THEN "stored" ELSE "storing"
      /\ \A q \in Requests : EventCount(q)' = EventCount(q)
      /\ \A q, i : StoredAt(q, i)' = StoredAt(q, i)
  BY DEF Advance, LoopDone, RequestTypes, EventCount, StoredAt
<1>4. RequestTypes'
  BY <1>1, <1>3 DEF RequestTypes, Stages, Advance, EventCount
<1>5. StoreInv'
  <2> SUFFICES ASSUME NEW q \in Requests
               PROVE  /\ pc'[q] \in {"idle", "upstream", "streaming"} => cursor'[q] = 1
                      /\ pc'[q] = "storing" => cursor'[q] <= EventCount(q)
                      /\ \A i \in 1 .. EventCount(q) : i < cursor'[q] => StoredAt(q, i) \in rows' \union dropped'
    BY <1>3 DEF StoreInv
  <2>1. pc'[q] \in {"idle", "upstream", "streaming"} => cursor'[q] = 1
    BY <1>1, <1>3 DEF StoreInv
  <2>2. pc'[q] = "storing" => cursor'[q] <= EventCount(q)
    BY <1>1, <1>3 DEF StoreInv
  <2>3. ASSUME NEW i \in 1 .. EventCount(q), i < cursor'[q]
        PROVE  StoredAt(q, i) \in rows' \union dropped'
    <3>1. CASE i < cursor[q]
      BY <3>1 DEF StoreInv
    <3>2. CASE q = r /\ i = cursor[r]
      BY <3>2
    <3>3. QED
      BY <1>1, <1>3, <2>3, <3>1, <3>2
  <2>4. QED
    BY <2>1, <2>2, <2>3
<1>6. RowInv'
  <2> SUFFICES ASSUME NEW f \in rows'
               PROVE  /\ f.req \in Requests
                      /\ \E i \in 1 .. EventCount(f.req) : i < cursor'[f.req] /\ f = StoredAt(f.req, i)
    BY <1>3 DEF RowInv
  <2>1. CASE f \in rows
    <3>1. PICK i \in 1 .. EventCount(f.req) : i < cursor[f.req] /\ f = StoredAt(f.req, i)
      BY <2>1 DEF RowInv
    <3>2. f.req \in Requests /\ i < cursor'[f.req]
      BY <1>1, <1>3, <2>1, <3>1 DEF RowInv
    <3>3. QED
      BY <3>1, <3>2
  <2>2. CASE f = e
    BY <1>1, <1>2, <1>3, <2>2
  <2>3. QED
    BY <2>1, <2>2
<1>7. QED
  BY <1>4, <1>5, <1>6

LEMMA CrashStores ==
  ASSUME StoringInv, Crash
  PROVE  StoringInv'
<1> USE DEF StoringInv, Crash
<1>1. /\ pc' \in [Requests -> Stages]
      /\ \A r \in Requests : pc'[r] \in {pc[r], "failed"}
      /\ dropped \subseteq dropped'
  BY DEF RequestTypes, Stages
<1>2. RequestTypes'
  BY <1>1 DEF RequestTypes, EventCount
<1>3. StoreInv'
  BY <1>1 DEF StoreInv, EventCount, StoredAt
<1>4. RowInv'
  BY DEF RowInv, EventCount, StoredAt
<1>5. QED
  BY <1>2, <1>3, <1>4

LEMMA StoringInvUnchanged ==
  ASSUME StoringInv, UNCHANGED <<pc, trace, chunks, cursor, rows, dropped>>
  PROVE  StoringInv'
<1>1. RequestTypes'
  BY DEF StoringInv, RequestTypes, EventCount
<1>2. StoreInv'
  BY DEF StoringInv, StoreInv, EventCount, StoredAt
<1>3. RowInv'
  BY DEF StoringInv, RowInv, EventCount, StoredAt
<1>4. QED
  BY <1>1, <1>2, <1>3 DEF StoringInv

LEMMA StoringInvNext == StoringInv /\ [Next]_vars => StoringInv'
<1> SUFFICES ASSUME StoringInv, [Next]_vars
             PROVE  StoringInv'
  OBVIOUS
<1>1. ASSUME NEW r \in Requests, NEW stream \in BOOLEAN, NEW t \in Traces, Start(r, stream, t)
      PROVE  StoringInv'
  <2>1. trace' \in [Requests -> Traces \union {NoTrace}]
    BY <1>1 DEF Start, StoringInv, RequestTypes
  <2>2. QED
    BY <1>1, <2>1, PhaseStep DEF Start, Stages
<1>2. ASSUME NEW r \in Requests, RequestStep(r)
      PROVE  StoringInv'
  <2>1. trace \in [Requests -> Traces \union {NoTrace}]
    BY DEF StoringInv, RequestTypes
  <2>2. CASE UpstreamFails(r)
    BY <2>1, <2>2, PhaseStep DEF UpstreamFails, Stages
  <2>3. CASE UpstreamAnswers(r)
    BY <2>1, <2>3, PhaseStep DEF UpstreamAnswers, Stages
  <2>4. CASE Respond(r)
    BY <2>4, StoringInvUnchanged DEF Respond
  <2>5. CASE StreamOpens(r)
    BY <2>1, <2>5, PhaseStep DEF StreamOpens, Stages
  <2>6. CASE ReceiveChunk(r)
    BY <2>6, ReceiveChunkStores
  <2>7. CASE StreamEnds(r)
    BY <2>1, <2>7, PhaseStep DEF StreamEnds, Stages
  <2>8. QED
    BY <1>2, <2>2, <2>3, <2>4, <2>5, <2>6, <2>7 DEF RequestStep
<1>3. ASSUME NEW r \in Requests, StoreStep(r)
      PROVE  StoringInv'
  <2>1. CASE StoreEvent(r)
    BY <2>1, GoroutineStep DEF StoreEvent
  <2>2. CASE StoreFails(r)
    BY <2>2, GoroutineStep DEF StoreFails, AfterFailure
  <2>3. QED
    BY <1>3, <2>1, <2>2 DEF StoreStep
<1>4. CASE Crash
  BY <1>4, CrashStores
<1>5. ASSUME NEW k \in Commits, NEW t \in Traces, NEW level \in Levels, CommitRead(k, t, level)
      PROVE  StoringInv'
  BY <1>5, StoringInvUnchanged DEF CommitRead, request
<1>6. ASSUME NEW k \in Commits, NEW t \in Traces, CommitRefused(k, t)
      PROVE  StoringInv'
  BY <1>6, StoringInvUnchanged DEF CommitRefused, request
<1>7. ASSUME NEW k \in Commits, CommitStep(k)
      PROVE  StoringInv'
  BY <1>7, StoringInvUnchanged
     DEF CommitStep, UploadWORM, UploadFails, InsertCert, InsertCertFails, CommitFails, CommitAnswers, request
<1>8. CASE UNCHANGED vars
  BY <1>8, StoringInvUnchanged DEF vars, request
<1>9. QED
  BY <1>1, <1>2, <1>3, <1>4, <1>5, <1>6, <1>7, <1>8 DEF Next

----------------------------------------------------------------------------
(* The certifying side.                                                    *)

(* At any moment the rows of a trace are a prefix, up to dropped events.   *)
LEMMA RowsArePrefix ==
  ASSUME StoringInv, NEW t
  PROVE  IsPrefix(RowsOf(t))
<1> SUFFICES ASSUME NEW r \in Requests, NEW i \in 1 .. EventCount(r), NEW j \in 1 .. EventCount(r),
                    i < j, StoredAt(r, j) \in RowsOf(t)
             PROVE  StoredAt(r, i) \in RowsOf(t) \union dropped
  BY DEF IsPrefix
<1>1. chunks[r] \in 0 .. MaxChunks /\ chunks[r] \in Nat /\ EventCount(r) = chunks[r] + 3
  BY DEF StoringInv, RequestTypes, EventCount
<1>2. StoredAt(r, i).req = r /\ StoredAt(r, j).req = r
  BY <1>1, EventAtType DEF StoredAt
<1>3. PICK m \in 1 .. EventCount(r) : m < cursor[r] /\ StoredAt(r, j) = StoredAt(r, m)
  BY <1>2 DEF StoringInv, RowInv, RowsOf
<1>4. m = j
  BY <1>1, <1>3, EventAtInjective DEF StoredAt
<1>5. i < cursor[r]
  BY <1>1, <1>3, <1>4 DEF StoringInv, RequestTypes
<1>6. StoredAt(r, i) \in rows \union dropped
  BY <1>5 DEF StoringInv, StoreInv
<1>7. QED
  BY <1>2, <1>6 DEF RowsOf

(* Rows only accumulate, and no step changes which trace a row belongs to  *)
(* or the events of a request that has rows.                               *)
LEMMA RowsOfGrow ==
  ASSUME StoringInv, [Next]_vars
  PROVE  /\ dropped \subseteq dropped'
         /\ \A t : RowsOf(t) \subseteq RowsOf(t)'
         /\ \A r \in Requests : EventCount(r)' = EventCount(r) \/ \A e \in rows : e.req # r
         /\ \A r \in Requests : EventCount(r)' = EventCount(r) => \A i : StoredAt(r, i)' = StoredAt(r, i)
<1>1. dropped \subseteq dropped' /\ rows \subseteq rows'
  BY DEF Next, vars, request, Start, RequestStep, UpstreamFails, UpstreamAnswers, Respond, StreamOpens,
         ReceiveChunk, StreamEnds, StoreStep, StoreEvent, StoreFails, CommitRead, CommitRefused, CommitStep,
         UploadWORM, UploadFails, InsertCert, InsertCertFails, CommitFails, CommitAnswers, Crash
<1>2. \A r \in Requests : cursor[r] = 1 => \A e \in rows : e.req # r
  BY DEF StoringInv, RowInv, RequestTypes
<1>3. \A r \in Requests : trace'[r] = trace[r] \/ cursor[r] = 1
  <2>1. CASE \E r \in Requests, stream \in BOOLEAN, t \in Traces : Start(r, stream, t)
    BY <2>1 DEF Start, StoringInv, StoreInv, RequestTypes
  <2>2. CASE UNCHANGED trace
    BY <2>2
  <2>3. QED
    BY <2>1, <2>2
    DEF Next, vars, request, RequestStep, UpstreamFails, UpstreamAnswers, Respond, StreamOpens,
         ReceiveChunk, StreamEnds, StoreStep, StoreEvent, StoreFails, CommitRead, CommitRefused, CommitStep,
         UploadWORM, UploadFails, InsertCert, InsertCertFails, CommitFails, CommitAnswers, Crash
<1>4. \A r \in Requests : chunks'[r] = chunks[r] \/ cursor[r] = 1
  <2>1. CASE \E r \in Requests : ReceiveChunk(r)
    BY <2>1 DEF ReceiveChunk, StoringInv, StoreInv, RequestTypes
  <2>2. CASE UNCHANGED chunks
    BY <2>2
  <2>3. QED
    BY <2>1, <2>2
    DEF Next, vars, request, Start, RequestStep, UpstreamFails, UpstreamAnswers, Respond, StreamOpens,
         StreamEnds, StoreStep, StoreEvent, StoreFails, CommitRead, CommitRefused, CommitStep,
         UploadWORM, UploadFails, InsertCert, InsertCertFails, CommitFails, CommitAnswers, Crash
<1>5. \A t : RowsOf(t) \subseteq RowsOf(t)'
  <2> SUFFICES ASSUME NEW t, NEW e \in RowsOf(t)
               PROVE  e \in rows' /\ trace'[e.req] = t
    BY DEF RowsOf
  <2>1. e \in rows /\ trace[e.req] = t /\ e.req \in Requests
    BY DEF RowsOf, StoringInv, RowInv
  <2>2. QED
    BY <1>1, <1>2, <1>3, <2>1
<1>6. \A r \in Requests : EventCount(r)' = EventCount(r) \/ \A e \in rows : e.req # r
  BY <1>2, <1>4 DEF EventCount
<1>7. ASSUME NEW r \in Requests, EventCount(r)' = EventCount(r), NEW i
      PROVE  StoredAt(r, i)' = StoredAt(r, i)
  <2>1. chunks'[r] = chunks[r] \/ (cursor[r] = 1 /\ chunks[r] \in Nat /\ chunks'[r] \in Nat)
    BY <1>4, StoringInvNext DEF StoringInv, RequestTypes
  <2>2. chunks'[r] = chunks[r]
    BY <1>7, <2>1 DEF EventCount
  <2>3. QED
    BY <2>2 DEF StoredAt
<1>8. QED
  BY <1>1, <1>5, <1>6, <1>7

(* A set of rows that is a prefix stays one.                               *)
LEMMA PrefixKept ==
  ASSUME StoringInv, [Next]_vars, NEW L \in SUBSET rows, IsPrefix(L)
  PROVE  \A r \in Requests : \A i, j \in 1 .. EventCount(r)' :
           (i < j /\ StoredAt(r, j)' \in L) => StoredAt(r, i)' \in L \union dropped'
<1> SUFFICES ASSUME NEW r \in Requests, NEW i \in 1 .. EventCount(r)', NEW j \in 1 .. EventCount(r)',
                    i < j, StoredAt(r, j)' \in L
             PROVE  StoredAt(r, i)' \in L \union dropped'
  OBVIOUS
<1>1. chunks'[r] \in 0 .. MaxChunks /\ EventCount(r)' = chunks'[r] + 3
  BY StoringInvNext DEF StoringInv, RequestTypes, EventCount
<1>2. StoredAt(r, j)'.req = r
  BY <1>1, EventAtType DEF StoredAt
<1>3. EventCount(r)' = EventCount(r)
  BY <1>2, RowsOfGrow
<1>4. StoredAt(r, i)' = StoredAt(r, i) /\ StoredAt(r, j)' = StoredAt(r, j)
  BY <1>3, RowsOfGrow
<1>5. StoredAt(r, i) \in L \union dropped
  BY <1>3, <1>4 DEF IsPrefix
<1>6. QED
  BY <1>4, <1>5, RowsOfGrow

(* Steps that neither start a commit nor touch what one has read.          *)
CommitsKept ==
  \A k \in Commits :
    /\ commit'[k].leaves = commit[k].leaves
    /\ commit'[k].trace = commit[k].trace
    /\ commit'[k].pc = "idle" <=> commit[k].pc = "idle"

LEMMA ReadInvKept ==
  ASSUME StoringInv, ReadInv, [Next]_vars, CommitsKept, commit' \in [Commits -> DraftType]
  PROVE  ReadInv'
<1>1. ASSUME NEW k \in Commits
      PROVE  /\ commit'[k].pc = "idle" => commit'[k].leaves = {}
             /\ commit'[k].leaves \subseteq RowsOf(commit[k].trace)'
             /\ IsPrefix(commit[k].leaves)'
  <2>1. commit[k].leaves \subseteq RowsOf(commit[k].trace) /\ commit[k].leaves \subseteq rows
    BY DEF ReadInv, RowsOf
  <2>2. IsPrefix(commit[k].leaves)
    BY DEF ReadInv
  <2>3. IsPrefix(commit[k].leaves)'
    BY <2>1, <2>2, PrefixKept DEF IsPrefix, CommitsKept
  <2>4. RowsOf(commit[k].trace) \subseteq {e \in rows' : trace'[e.req] = commit[k].trace}
    BY RowsOfGrow DEF RowsOf
  <2>5. QED
    BY <2>1, <2>3, <2>4 DEF CommitsKept, ReadInv, RowsOf
<1>2. QED
  BY <1>1 DEF ReadInv, CommitsKept

(* A commit reads: it covers every earlier reading of its trace.           *)
LEMMA ReadInvRead ==
  ASSUME StoringInv, ReadInv, NEW k \in Commits, NEW t \in Traces, NEW level \in Levels,
         CommitRead(k, t, level)
  PROVE  ReadInv'
<1>1. PICK tie \in SUBSET (Event \X Event) :
        commit' = [commit EXCEPT ![k] = Draft("read", t, level, RowsOf(t), tie, FALSE)]
  <2>1. RowsOf(t) \subseteq Event
    <3>1. rows \subseteq Event
      BY EventAtType DEF StoringInv, RowInv, RequestTypes, StoredAt, EventCount
    <3>2. QED
      BY <3>1 DEF RowsOf
  <2>2. \A tie \in TieBreaks(RowsOf(t)) : tie \in SUBSET (Event \X Event)
    BY <2>1 DEF TieBreaks, Tied
  <2>3. QED
    BY <2>2 DEF CommitRead, LeavesRead
<1>2. /\ commit'[k].trace = t /\ commit'[k].leaves = RowsOf(t) /\ commit'[k].pc = "read"
      /\ \A l \in Commits \ {k} : commit'[l] = commit[l]
  BY <1>1 DEF Draft, ReadInv
<1>3. UNCHANGED <<rows, trace, chunks, dropped>>
  BY DEF CommitRead, request
<1>4. commit' \in [Commits -> DraftType]
  <2>1. RowsOf(t) \subseteq Event
    BY EventAtType DEF StoringInv, RowInv, RequestTypes, StoredAt, EventCount, RowsOf
  <2>2. Draft("read", t, level, RowsOf(t), tie, FALSE) \in DraftType
    BY <2>1 DEF Draft, DraftType
  <2>3. QED
    BY <1>1, <2>2 DEF ReadInv
<1>5. ASSUME NEW l \in Commits
      PROVE  /\ commit'[l].pc = "idle" => commit'[l].leaves = {}
             /\ commit'[l].leaves \subseteq RowsOf(commit[l].trace)'
             /\ IsPrefix(commit[l].leaves)'
  <2>1. IsPrefix(commit'[l].leaves)
    BY <1>2, RowsArePrefix DEF ReadInv
  <2>2. IsPrefix(commit[l].leaves)'
    BY <1>3, <2>1 DEF IsPrefix, StoredAt, EventCount
  <2>3. QED
    BY <1>2, <1>3, <2>2 DEF ReadInv, RowsOf
<1>6. ASSUME NEW l \in Commits, NEW m \in Commits, commit'[l].trace = commit'[m].trace
      PROVE  commit'[l].leaves \subseteq commit'[m].leaves \/ commit'[m].leaves \subseteq commit'[l].leaves
  BY <1>2, <1>6 DEF ReadInv
<1>7. QED
  BY <1>4, <1>5, <1>6 DEF ReadInv

LEMMA ReadInvRefused ==
  ASSUME StoringInv, ReadInv, NEW k \in Commits, NEW t \in Traces, CommitRefused(k, t)
  PROVE  ReadInv'
<1>1. commit' \in [Commits -> DraftType]
  <2>1. commit[k] \in DraftType
    BY DEF ReadInv
  <2>2. [commit[k] EXCEPT !.pc = "failed", !.trace = t] \in DraftType
    BY <2>1 DEF DraftType
  <2>3. commit' = [commit EXCEPT ![k] = [commit[k] EXCEPT !.pc = "failed", !.trace = t]]
    BY DEF CommitRefused, ReadInv
  <2>4. QED
    BY <2>2, <2>3 DEF ReadInv
<1>2. /\ commit'[k].leaves = {}
      /\ \A l \in Commits \ {k} : commit'[l] = commit[l]
  BY DEF CommitRefused, ReadInv, DraftType
<1>3. UNCHANGED <<rows, trace, chunks, dropped>>
  BY DEF CommitRefused, request
<1>4. ASSUME NEW l \in Commits
      PROVE  /\ commit'[l].pc = "idle" => commit'[l].leaves = {}
             /\ commit'[l].leaves \subseteq RowsOf(commit[l].trace)'
             /\ IsPrefix(commit[l].leaves)'
  <2>1. IsPrefix(commit'[l].leaves)
    BY <1>2 DEF ReadInv, IsPrefix
  <2>2. IsPrefix(commit[l].leaves)'
    BY <1>3, <2>1 DEF IsPrefix, StoredAt, EventCount
  <2>3. QED
    BY <1>2, <1>3, <2>2 DEF ReadInv, RowsOf
<1>5. QED
  BY <1>1, <1>2, <1>4 DEF ReadInv

(* The remaining steps of a commit move it on and keep what it has read.   *)
(* A WORM object is written by the step that seals, a certificate by one   *)
(* of the two that end; the key changes with the object only.              *)
LEMMA CommitMoves ==
  ASSUME ReadInv, NEW k \in Commits, CommitStep(k)
  PROVE  \E p \in {"sealed", "inserted", "answered", "failed"}, key \in BOOLEAN :
           /\ commit' = [commit EXCEPT ![k] = [commit[k] EXCEPT !.pc = p, !.objectKey = key]]
           /\ \/ /\ p = "sealed" /\ commit[k].pc = "read" /\ certs' = certs
                 /\ key => \E locked \in BOOLEAN : worm' = worm \union {Object(k, locked)}
                 /\ worm' \in {worm, worm \union {Object(k, TRUE)}, worm \union {Object(k, FALSE)}}
              \/ /\ p = "inserted" /\ commit[k].pc \in {"read", "sealed"}
                 /\ worm' = worm /\ certs' = certs \union {Certificate(k)} /\ key = commit[k].objectKey
              \/ /\ p = "failed" /\ commit[k].pc \in {"read", "sealed"}
                 /\ worm' = worm /\ certs' \in {certs, certs \union {Certificate(k)}} /\ key = commit[k].objectKey
              \/ /\ p = "answered" /\ commit[k].pc = "inserted"
                 /\ worm' = worm /\ certs' = certs /\ key = commit[k].objectKey
<1>1. commit[k] \in DraftType
  BY DEF ReadInv
<1>2. \A p : /\ [commit[k] EXCEPT !.pc = p] = [commit[k] EXCEPT !.pc = p, !.objectKey = commit[k].objectKey]
            /\ commit[k].objectKey \in BOOLEAN
  BY <1>1 DEF DraftType
<1>3. CASE UploadWORM(k)
  <2>1. PICK locked \in BOOLEAN : worm' = worm \union {Object(k, locked)}
    BY <1>3 DEF UploadWORM
  <2>2. /\ commit' = [commit EXCEPT ![k] = [commit[k] EXCEPT !.pc = "sealed", !.objectKey = TRUE]]
        /\ commit[k].pc = "read" /\ certs' = certs
    BY <1>3 DEF UploadWORM, ReadInv
  <2>3. QED
    BY <2>1, <2>2
<1>4. CASE UploadFails(k)
  <2>1. /\ commit' = [commit EXCEPT ![k] = [commit[k] EXCEPT !.pc = "sealed", !.objectKey = FALSE]]
        /\ commit[k].pc = "read" /\ certs' = certs /\ worm' \in {worm, worm \union {Object(k, FALSE)}}
    BY <1>4 DEF UploadFails, KeyAfterFailedUpload, ReadInv
  <2>2. QED
    BY <2>1
<1>5. CASE InsertCert(k)
  <2>1. /\ commit' = [commit EXCEPT ![k] = [commit[k] EXCEPT !.pc = "inserted"]]
        /\ commit[k].pc \in {"read", "sealed"} /\ worm' = worm /\ certs' = certs \union {Certificate(k)}
    BY <1>5 DEF InsertCert, InsertReady
  <2>2. QED
    BY <1>2, <2>1
<1>6. CASE InsertCertFails(k)
  <2>1. /\ commit' = [commit EXCEPT ![k] = [commit[k] EXCEPT !.pc = "failed"]]
        /\ commit[k].pc \in {"read", "sealed"} /\ worm' = worm /\ certs' \in {certs, certs \union {Certificate(k)}}
    BY <1>6 DEF InsertCertFails, AfterFailedInsert, InsertReady
  <2>2. QED
    BY <1>2, <2>1
<1>7. CASE CommitFails(k)
  <2>1. /\ commit' = [commit EXCEPT ![k] = [commit[k] EXCEPT !.pc = "failed"]]
        /\ commit[k].pc \in {"read", "sealed"} /\ worm' = worm /\ certs' = certs
    BY <1>7 DEF CommitFails
  <2>2. QED
    BY <1>2, <2>1
<1>8. CASE CommitAnswers(k)
  <2>1. /\ commit' = [commit EXCEPT ![k] = [commit[k] EXCEPT !.pc = "answered"]]
        /\ commit[k].pc = "inserted" /\ worm' = worm /\ certs' = certs
    BY <1>8 DEF CommitAnswers
  <2>2. QED
    BY <1>2, <2>1
<1>9. QED
  BY <1>3, <1>4, <1>5, <1>6, <1>7, <1>8 DEF CommitStep

LEMMA CommitStepKeeps ==
  ASSUME ReadInv, NEW k \in Commits, CommitStep(k)
  PROVE  CommitsKept /\ commit' \in [Commits -> DraftType]
<1>1. commit[k] \in DraftType
  BY DEF ReadInv
<1>2. PICK p \in {"sealed", "inserted", "answered", "failed"}, key \in BOOLEAN :
        /\ commit' = [commit EXCEPT ![k] = [commit[k] EXCEPT !.pc = p, !.objectKey = key]]
        /\ commit[k].pc # "idle"
  BY CommitMoves
<1>3. [commit[k] EXCEPT !.pc = p, !.objectKey = key] \in DraftType
  BY <1>1 DEF DraftType
<1>4. /\ commit'[k].leaves = commit[k].leaves /\ commit'[k].trace = commit[k].trace /\ commit'[k].pc = p
      /\ \A l \in Commits \ {k} : commit'[l] = commit[l]
  BY <1>1, <1>2 DEF ReadInv, DraftType
<1>5. CommitsKept
  BY <1>2, <1>4 DEF CommitsKept
<1>6. QED
  BY <1>2, <1>3, <1>5 DEF ReadInv

LEMMA CrashKeeps ==
  ASSUME ReadInv, Crash
  PROVE  CommitsKept /\ commit' \in [Commits -> DraftType]
<1>1. ASSUME NEW k \in Commits
      PROVE  /\ commit'[k] \in DraftType
             /\ commit'[k].leaves = commit[k].leaves
             /\ commit'[k].trace = commit[k].trace
             /\ commit'[k].pc = "idle" <=> commit[k].pc = "idle"
  <2>1. commit[k] \in DraftType
    BY DEF ReadInv
  <2>2. commit'[k] = IF Committing(k) THEN [commit[k] EXCEPT !.pc = "failed"] ELSE commit[k]
    BY DEF Crash
  <2>3. CASE Committing(k)
    BY <2>1, <2>2, <2>3 DEF DraftType, Committing
  <2>4. CASE ~Committing(k)
    BY <2>1, <2>2, <2>4
  <2>5. QED
    BY <2>3, <2>4
<1>2. commit' \in [Commits -> DraftType]
  BY <1>1 DEF Crash
<1>3. QED
  BY <1>1, <1>2 DEF CommitsKept

(* How one step of the system changes the commits and the certificates.    *)
LEMMA CertifyingSteps ==
  ASSUME StoringInv, ReadInv, [Next]_vars
  PROVE  \/ /\ CommitsKept /\ commit' \in [Commits -> DraftType]
            /\ \/ certs' = certs
               \/ \E k \in Commits : commit[k].pc # "idle" /\ certs' \in {certs, certs \union {Certificate(k)}}
         \/ \E k \in Commits, t \in Traces, level \in Levels : CommitRead(k, t, level)
         \/ \E k \in Commits, t \in Traces : CommitRefused(k, t)
<1>1. ASSUME NEW k \in Commits, CommitStep(k)
      PROVE  /\ CommitsKept /\ commit' \in [Commits -> DraftType]
             /\ commit[k].pc # "idle" /\ certs' \in {certs, certs \union {Certificate(k)}}
  <2>1. commit[k].pc # "idle" /\ certs' \in {certs, certs \union {Certificate(k)}}
    BY <1>1 DEF CommitStep, UploadWORM, UploadFails, InsertCert, InsertCertFails, InsertReady, CommitFails, CommitAnswers
  <2>2. QED
    BY <1>1, <2>1, CommitStepKeeps
<1>2. CASE Crash
  BY <1>2, CrashKeeps DEF Crash
<1>3. CASE UNCHANGED <<commit, certs>>
  BY <1>3 DEF CommitsKept, ReadInv
<1>4. QED
  BY <1>1, <1>2, <1>3
  DEF Next, vars, Start, RequestStep, UpstreamFails, UpstreamAnswers, Respond, StreamOpens, ReceiveChunk,
      StreamEnds, StoreStep, StoreEvent, StoreFails

LEMMA ReadInvNext == StoringInv /\ ReadInv /\ [Next]_vars => ReadInv'
BY CertifyingSteps, ReadInvKept, ReadInvRead, ReadInvRefused

LEMMA CertInvNext == StoringInv /\ ReadInv /\ CertInv /\ [Next]_vars => CertInv'
<1> SUFFICES ASSUME StoringInv, ReadInv, CertInv, [Next]_vars, NEW c \in certs'
             PROVE  /\ c.id \in Commits
                    /\ commit'[c.id].pc # "idle"
                    /\ c.trace = commit'[c.id].trace
                    /\ c.leaves = commit'[c.id].leaves
  BY DEF CertInv
<1>1. CASE CommitsKept /\ c \in certs
  BY <1>1 DEF CommitsKept, CertInv
<1>2. ASSUME CommitsKept, NEW k \in Commits, commit[k].pc # "idle", c = Certificate(k)
      PROVE  /\ c.id \in Commits
             /\ commit'[c.id].pc # "idle"
             /\ c.trace = commit'[c.id].trace
             /\ c.leaves = commit'[c.id].leaves
  BY <1>2 DEF CommitsKept, Certificate
<1>3. ASSUME NEW k \in Commits, NEW t \in Traces, NEW level \in Levels, CommitRead(k, t, level)
      PROVE  c.id # k /\ commit'[c.id] = commit[c.id] /\ c \in certs
  <2>1. commit[k].pc = "idle" /\ certs' = certs
    BY <1>3 DEF CommitRead
  <2>2. PICK d : commit' = [commit EXCEPT ![k] = d]
    BY <1>3 DEF CommitRead
  <2>3. c \in certs /\ c.id \in Commits /\ c.id # k
    BY <2>1 DEF CertInv
  <2>4. QED
    BY <2>2, <2>3 DEF ReadInv
<1>4. ASSUME NEW k \in Commits, NEW t \in Traces, CommitRefused(k, t)
      PROVE  c.id # k /\ commit'[c.id] = commit[c.id] /\ c \in certs
  BY <1>4 DEF CommitRefused, CertInv, ReadInv
<1>5. QED
  BY <1>1, <1>2, <1>3, <1>4, CertifyingSteps DEF CertInv

----------------------------------------------------------------------------
LEMMA IInvInit == Init => IInv
<1> SUFFICES ASSUME Init PROVE IInv
  OBVIOUS
<1>1. NotStarted \in DraftType
  BY DEF NotStarted, Draft, DraftType, NoTrace
<1>2. \A k \in Commits : commit[k].pc = "idle" /\ commit[k].leaves = {}
  BY DEF Init, NotStarted, Draft
<1>3. ReadInv
  BY <1>1, <1>2 DEF Init, ReadInv, IsPrefix
<1>4. CertInv
  BY DEF Init, CertInv
<1>5. QED
  BY <1>3, <1>4, StoringInvInit DEF IInv

LEMMA IInvNext == IInv /\ [Next]_vars => IInv'
BY StoringInvNext, ReadInvNext, CertInvNext DEF IInv

(* The invariant about goroutines, reads and certificates holds in every   *)
(* reachable state of the pipeline.                                        *)
THEOREM InductiveInvariant == Spec => []IInv
BY IInvInit, IInvNext, PTL DEF Spec

(* A certificate covers, of every request, a prefix of what its goroutine  *)
(* stored, up to events whose INSERT failed: whatever CommitCert           *)
(* interleaves with, and through crashes.                                  *)
THEOREM CertificatesArePrefixes == Spec => []CertIsStorePrefix
<1>1. IInv => CertIsStorePrefix
  BY DEF IInv, ReadInv, CertInv, IsPrefix, CertIsStorePrefix
<1>2. QED
  BY <1>1, InductiveInvariant, PTL

(* Of two certificates of one trace, one covers all that the other covers. *)
THEOREM CertificatesAreNested == Spec => []CertsNested
<1>1. IInv => CertsNested
  BY DEF IInv, ReadInv, CertInv, CertsNested
<1>2. QED
  BY <1>1, InductiveInvariant, PTL

----------------------------------------------------------------------------
(* Type correctness.                                                       *)

RestTypes ==
  /\ streamed \in [Requests -> BOOLEAN]
  /\ answered \in [Requests -> BOOLEAN]
  /\ dropped \subseteq Event
  /\ \A o \in worm : o.id \in Commits /\ o.leaves \subseteq Event
  /\ faults \in 0 .. MaxFaults

LEMMA RestTypesNext == StoringInv /\ ReadInv /\ RestTypes /\ [Next]_vars => RestTypes'
<1> SUFFICES ASSUME StoringInv, ReadInv, RestTypes, [Next]_vars
             PROVE  RestTypes'
  OBVIOUS
<1> USE DEF RestTypes
<1>1. ASSUME NEW r \in Requests, NEW stream \in BOOLEAN, NEW t \in Traces, Start(r, stream, t)
      PROVE  RestTypes'
  BY <1>1 DEF Start
<1>2. ASSUME NEW r \in Requests, RequestStep(r)
      PROVE  RestTypes'
  BY <1>2 DEF RequestStep, UpstreamFails, UpstreamAnswers, Respond, StreamOpens, ReceiveChunk, StreamEnds
<1>3. ASSUME NEW r \in Requests, NEW i \in 1 .. EventCount(r)
      PROVE  StoredAt(r, i) \in Event
  BY <1>3, EventAtType DEF StoredAt, EventCount, StoringInv, RequestTypes
<1>4. ASSUME NEW r \in Requests, StoreStep(r)
      PROVE  RestTypes'
  <2>1. cursor[r] \in 1 .. EventCount(r)
    BY <1>4 DEF StoreStep, StoreEvent, StoreFails, StoringInv, StoreInv, RequestTypes, EventCount
  <2>2. StoredAt(r, cursor[r]) \in Event
    BY <1>3, <2>1
  <2>3. CASE StoreEvent(r)
    BY <2>3 DEF StoreEvent
  <2>4. CASE StoreFails(r)
    <3>1. dropped' = dropped \union {StoredAt(r, cursor[r])} /\ UNCHANGED <<streamed, answered, worm>>
      BY <2>4 DEF StoreFails
    <3>2. faults' \in 0 .. MaxFaults
      BY <2>4 DEF StoreFails, Fault
    <3>3. dropped' \subseteq Event
      BY <2>2, <3>1
    <3>4. QED
      BY <3>1, <3>2, <3>3
  <2>5. QED
    BY <1>4, <2>3, <2>4 DEF StoreStep
<1>5. CASE Crash
  <2>1. \A r \in Requests : NotYetStored(r) \subseteq Event
    BY <1>3 DEF NotYetStored, StoringInv, RequestTypes, EventCount
  <2>2. dropped' = dropped \union UNION {NotYetStored(r) : r \in {q \in Requests : pc[q] = "storing"}}
    BY <1>5 DEF Crash
  <2>3. dropped' \subseteq Event
    BY <2>1, <2>2
  <2>4. faults' \in 0 .. MaxFaults
    BY <1>5 DEF Crash, Fault
  <2>5. UNCHANGED <<streamed, answered, worm>>
    BY <1>5 DEF Crash
  <2>6. QED
    BY <2>3, <2>4, <2>5
<1>6. ASSUME NEW k \in Commits, CommitStep(k)
      PROVE  RestTypes'
  <2>1. \A locked \in BOOLEAN : Object(k, locked).id = k /\ Object(k, locked).leaves \subseteq Event
    BY DEF Object, ReadInv, DraftType
  <2>2. worm' = worm \/ \E locked \in BOOLEAN : worm' = worm \union {Object(k, locked)}
    BY <1>6 DEF CommitStep, UploadWORM, UploadFails, InsertCert, InsertCertFails, CommitFails, CommitAnswers
  <2>3. \A o \in worm' : o.id \in Commits /\ o.leaves \subseteq Event
    BY <2>1, <2>2
  <2>4. faults' \in 0 .. MaxFaults
    <3>1. faults' = faults \/ Fault
      BY <1>6 DEF CommitStep, UploadWORM, UploadFails, InsertCert, InsertCertFails, CommitFails, CommitAnswers
    <3>2. QED
      BY <3>1 DEF Fault
  <2>5. UNCHANGED <<streamed, answered, dropped>>
    BY <1>6 DEF CommitStep, UploadWORM, UploadFails, InsertCert, InsertCertFails, CommitFails, CommitAnswers, request
  <2>6. QED
    BY <2>3, <2>4, <2>5
<1>7. CASE UNCHANGED <<streamed, answered, dropped, worm, faults>>
  BY <1>7
<1>8. QED
  BY <1>1, <1>2, <1>4, <1>5, <1>6, <1>7 DEF Next, vars, request, CommitRead, CommitRefused

(* Every variable keeps its type, and no goroutine runs past the events of *)
(* its request.                                                            *)
THEOREM TypeCorrect == Spec => []TypeOK
<1>1. Init => RestTypes
  BY DEF Init, RestTypes
<1>2. IInv /\ RestTypes /\ [Next]_vars => RestTypes'
  BY RestTypesNext DEF IInv
<1>3. IInv /\ RestTypes => TypeOK
  <2> SUFFICES ASSUME IInv, RestTypes PROVE TypeOK
    OBVIOUS
  <2>1. rows \subseteq Event
    BY EventAtType DEF IInv, StoringInv, RowInv, RequestTypes, StoredAt, EventCount
  <2>2. \A c \in certs : c.id \in Commits /\ c.leaves \subseteq Event
    BY DEF IInv, ReadInv, CertInv, DraftType
  <2>3. QED
    BY <2>1, <2>2 DEF IInv, StoringInv, RequestTypes, Stages, ReadInv, RestTypes, TypeOK
<1>4. QED
  BY <1>1, <1>2, <1>3, InductiveInvariant, PTL DEF Spec

----------------------------------------------------------------------------
(* What certificates say is consistent.                                    *)

(* A WORM object and a certificate repeat what their commit read; the key  *)
(* is there only with the object, and an inserted commit has its           *)
(* certificate.                                                            *)
KeyInv ==
  \A k \in Commits :
    commit[k].objectKey => \E o \in worm : o.id = k /\ o.leaves = commit[k].leaves /\ o.tie = commit[k].tie

TieInv == \A k \in Commits : commit[k].tie \subseteq Tied(commit[k].leaves)

SealedInv ==
  \A o \in worm :
    /\ o.id \in Commits
    /\ commit[o.id].pc \in {"sealed", "inserted", "answered", "failed"}
    /\ o.leaves = commit[o.id].leaves

CertifiedInv ==
  \A c \in certs :
    /\ c.id \in Commits
    /\ commit[c.id].pc \in {"inserted", "answered", "failed"}
    /\ c.tie = commit[c.id].tie
    /\ c.objectKey = commit[c.id].objectKey

InsertedInv ==
  \A k \in Commits : commit[k].pc \in {"inserted", "answered"} => \E c \in certs : c.id = k

SealInv == KeyInv /\ TieInv /\ SealedInv /\ CertifiedInv /\ InsertedInv

LEMMA SealInvMove ==
  ASSUME ReadInv, SealInv, NEW k \in Commits, CommitStep(k)
  PROVE  SealInv'
<1> USE DEF SealInv
<1>1. PICK p \in {"sealed", "inserted", "answered", "failed"}, key \in BOOLEAN :
           /\ commit' = [commit EXCEPT ![k] = [commit[k] EXCEPT !.pc = p, !.objectKey = key]]
           /\ \/ /\ p = "sealed" /\ commit[k].pc = "read" /\ certs' = certs
                 /\ key => \E locked \in BOOLEAN : worm' = worm \union {Object(k, locked)}
                 /\ worm' \in {worm, worm \union {Object(k, TRUE)}, worm \union {Object(k, FALSE)}}
              \/ /\ p = "inserted" /\ commit[k].pc \in {"read", "sealed"}
                 /\ worm' = worm /\ certs' = certs \union {Certificate(k)} /\ key = commit[k].objectKey
              \/ /\ p = "failed" /\ commit[k].pc \in {"read", "sealed"}
                 /\ worm' = worm /\ certs' \in {certs, certs \union {Certificate(k)}} /\ key = commit[k].objectKey
              \/ /\ p = "answered" /\ commit[k].pc = "inserted"
                 /\ worm' = worm /\ certs' = certs /\ key = commit[k].objectKey
  BY CommitMoves
<1>2. /\ commit'[k].leaves = commit[k].leaves /\ commit'[k].tie = commit[k].tie
      /\ commit'[k].pc = p /\ commit'[k].objectKey = key
      /\ \A l \in Commits \ {k} : commit'[l] = commit[l]
  <2>1. commit[k] \in DraftType
    BY DEF ReadInv
  <2>2. QED
    BY <1>1, <2>1 DEF ReadInv, DraftType
<1>3. \A locked \in BOOLEAN :
        LET o == Object(k, locked) IN o.id = k /\ o.leaves = commit[k].leaves /\ o.tie = commit[k].tie
  BY DEF Object
<1>4. LET c == Certificate(k) IN c.id = k /\ c.tie = commit[k].tie /\ c.objectKey = commit[k].objectKey
  BY DEF Certificate
<1>5. /\ worm \subseteq worm'
      /\ \A o \in worm' \ worm : o \in {Object(k, TRUE), Object(k, FALSE)}
      /\ key => commit[k].objectKey \/ \E locked \in BOOLEAN : Object(k, locked) \in worm'
      /\ certs \subseteq certs' /\ certs' \in {certs, certs \union {Certificate(k)}}
  BY <1>1
<1>6. KeyInv'
  <2> SUFFICES ASSUME NEW l \in Commits, commit'[l].objectKey
               PROVE  \E o \in worm' : o.id = l /\ o.leaves = commit'[l].leaves /\ o.tie = commit'[l].tie
    BY DEF KeyInv
  <2>1. CASE commit[l].objectKey
    BY <1>2, <1>5, <2>1 DEF KeyInv
  <2>2. CASE l = k /\ \E locked \in BOOLEAN : Object(k, locked) \in worm'
    BY <1>2, <1>3, <2>2
  <2>3. QED
    BY <1>2, <1>5, <2>1, <2>2
<1>7. TieInv'
  <2> SUFFICES ASSUME NEW l \in Commits
               PROVE  commit'[l].tie \subseteq Tied(commit'[l].leaves)
    BY DEF TieInv, Tied
  <2>1. commit'[l].tie = commit[l].tie /\ commit'[l].leaves = commit[l].leaves
    BY <1>2
  <2>2. QED
    BY <2>1 DEF TieInv
<1>8. SealedInv'
  <2> SUFFICES ASSUME NEW o \in worm'
               PROVE  /\ o.id \in Commits
                      /\ commit'[o.id].pc \in {"sealed", "inserted", "answered", "failed"}
                      /\ o.leaves = commit'[o.id].leaves
    BY DEF SealedInv
  <2>1. CASE o \in worm
    BY <1>2, <2>1 DEF SealedInv
  <2>2. CASE o \in {Object(k, TRUE), Object(k, FALSE)}
    BY <1>2, <1>3, <2>2
  <2>3. QED
    BY <1>5, <2>1, <2>2
<1>9. CertifiedInv'
  <2> SUFFICES ASSUME NEW c \in certs'
               PROVE  /\ c.id \in Commits
                      /\ commit'[c.id].pc \in {"inserted", "answered", "failed"}
                      /\ c.tie = commit'[c.id].tie
                      /\ c.objectKey = commit'[c.id].objectKey
    BY DEF CertifiedInv
  <2>1. CASE c \in certs /\ c.id # k
    BY <1>2, <2>1 DEF CertifiedInv
  <2>2. CASE c \in certs /\ c.id = k
    BY <1>1, <1>2, <2>2 DEF CertifiedInv
  <2>3. CASE c = Certificate(k) /\ c \notin certs
    BY <1>1, <1>2, <1>4, <2>3
  <2>4. QED
    BY <1>5, <2>1, <2>2, <2>3
<1>10. InsertedInv'
  <2> SUFFICES ASSUME NEW l \in Commits, commit'[l].pc \in {"inserted", "answered"}
               PROVE  \E c \in certs' : c.id = l
    BY DEF InsertedInv
  <2>1. CASE commit[l].pc \in {"inserted", "answered"}
    BY <1>5, <2>1 DEF InsertedInv
  <2>2. CASE l = k /\ p = "inserted"
    BY <1>1, <1>4, <2>2
  <2>3. QED
    BY <1>1, <1>2, <2>1, <2>2
<1>11. QED
  BY <1>6, <1>7, <1>8, <1>9, <1>10

(* A step that starts a commit, or ends one early, touches no object and   *)
(* no certificate of it.                                                   *)
LEMMA SealInvStart ==
  ASSUME SealInv, NEW k \in Commits, commit[k].pc = "idle",
         commit'[k].pc \in {"read", "failed"}, commit'[k].tie \subseteq Tied(commit'[k].leaves),
         \/ commit'[k].objectKey = FALSE
         \/ /\ commit'[k].objectKey = commit[k].objectKey
            /\ commit'[k].leaves = commit[k].leaves /\ commit'[k].tie = commit[k].tie,
         \A l \in Commits \ {k} : commit'[l] = commit[l],
         worm' = worm, certs' = certs
  PROVE  SealInv'
<1> USE DEF SealInv
<1>1. UNCHANGED <<worm, certs>>
  OBVIOUS
<1>2. KeyInv'
  BY <1>1 DEF KeyInv
<1>3. TieInv'
  BY <1>1 DEF TieInv, Tied
<1>4. SealedInv'
  BY <1>1 DEF SealedInv
<1>5. CertifiedInv'
  BY <1>1 DEF CertifiedInv
<1>6. InsertedInv'
  BY <1>1 DEF InsertedInv
<1>7. QED
  BY <1>2, <1>3, <1>4, <1>5, <1>6

LEMMA SealInvCrash ==
  ASSUME ReadInv, SealInv, Crash
  PROVE  SealInv'
<1> USE DEF SealInv
<1>1. ASSUME NEW k \in Commits
      PROVE  /\ commit'[k].leaves = commit[k].leaves /\ commit'[k].tie = commit[k].tie
             /\ commit'[k].objectKey = commit[k].objectKey
             /\ commit'[k].pc \in {commit[k].pc, "failed"}
  <2>1. commit[k] \in DraftType
    BY DEF ReadInv
  <2>2. commit'[k] = IF Committing(k) THEN [commit[k] EXCEPT !.pc = "failed"] ELSE commit[k]
    BY DEF Crash
  <2>3. QED
    BY <2>1, <2>2 DEF DraftType
<1>2. worm' = worm /\ certs' = certs
  BY DEF Crash
<1>3. KeyInv'
  BY <1>1, <1>2 DEF KeyInv
<1>4. TieInv'
  BY <1>1 DEF TieInv, Tied
<1>5. SealedInv'
  BY <1>1, <1>2 DEF SealedInv
<1>6. CertifiedInv'
  BY <1>1, <1>2 DEF CertifiedInv
<1>7. InsertedInv'
  BY <1>1, <1>2 DEF InsertedInv
<1>8. QED
  BY <1>3, <1>4, <1>5, <1>6, <1>7

LEMMA SealInvNext == ReadInv /\ SealInv /\ [Next]_vars => SealInv'
<1> SUFFICES ASSUME ReadInv, SealInv, [Next]_vars
             PROVE  SealInv'
  OBVIOUS
<1>1. ASSUME NEW k \in Commits, NEW t \in Traces, NEW level \in Levels, CommitRead(k, t, level)
      PROVE  SealInv'
  <2>1. PICK S, tie :
          /\ tie \in TieBreaks(S)
          /\ commit' = [commit EXCEPT ![k] = Draft("read", t, level, S, tie, FALSE)]
    BY <1>1 DEF CommitRead
  <2>2. commit'[k] = Draft("read", t, level, S, tie, FALSE) /\ \A l \in Commits \ {k} : commit'[l] = commit[l]
    BY <2>1 DEF ReadInv
  <2>3. /\ commit'[k].pc = "read" /\ commit'[k].leaves = S /\ commit'[k].tie = tie
        /\ commit'[k].objectKey = FALSE /\ tie \subseteq Tied(S)
    BY <2>1, <2>2 DEF Draft, TieBreaks
  <2>4. commit[k].pc = "idle" /\ worm' = worm /\ certs' = certs
    BY <1>1 DEF CommitRead
  <2>5. QED
    BY <2>2, <2>3, <2>4, SealInvStart
<1>2. ASSUME NEW k \in Commits, NEW t \in Traces, CommitRefused(k, t)
      PROVE  SealInv'
  <2>1. commit[k] \in DraftType /\ commit[k].tie \subseteq Tied(commit[k].leaves)
    BY DEF ReadInv, SealInv, TieInv
  <2>2. /\ commit'[k] = [commit[k] EXCEPT !.pc = "failed", !.trace = t]
        /\ \A l \in Commits \ {k} : commit'[l] = commit[l]
    BY <1>2 DEF CommitRefused, ReadInv
  <2>3. /\ commit'[k].pc = "failed" /\ commit'[k].objectKey = commit[k].objectKey
        /\ commit'[k].leaves = commit[k].leaves /\ commit'[k].tie = commit[k].tie
    BY <2>1, <2>2 DEF DraftType
  <2>4. commit[k].pc = "idle" /\ worm' = worm /\ certs' = certs
    BY <1>2 DEF CommitRefused
  <2>5. QED
    BY <2>1, <2>2, <2>3, <2>4, SealInvStart
<1>3. CASE UNCHANGED <<commit, worm, certs>>
  BY <1>3 DEF SealInv, KeyInv, TieInv, Tied, SealedInv, CertifiedInv, InsertedInv
<1>4. QED
  BY <1>1, <1>2, <1>3, SealInvMove, SealInvCrash
  DEF Next, vars, Start, RequestStep, UpstreamFails, UpstreamAnswers, Respond, StreamOpens, ReceiveChunk,
      StreamEnds, StoreStep, StoreEvent, StoreFails

(* Of a request's events each has a sequence number of its own, one above  *)
(* that of its predecessor in the hash chain.                              *)
LEMMA EventAtChain ==
  ASSUME NEW r \in Requests, NEW n \in 0 .. MaxChunks, NEW i \in 1 .. n + 3
  PROVE  EventAt(r, n, i).seq = EventAt(r, n, i).prev + 1
<1>1. CASE i = 1
  BY <1>1 DEF EventAt, InputEvent, EventOf
<1>2. CASE i = 2
  BY <1>2 DEF EventAt, ModelEvent, EventOf
<1>3. CASE i = 3
  BY <1>3 DEF EventAt, OutputEvent, EventOf
<1>4. CASE i \in 4 .. n + 3
  BY <1>4 DEF EventAt, ChunkEvent, EventOf
<1>5. QED
  BY <1>1, <1>2, <1>3, <1>4

LEMMA SequenceIsKey ==
  ASSUME NEW r, NEW n \in Nat, NEW i \in 1 .. n + 3, NEW j \in 1 .. n + 3,
         EventAt(r, n, i).seq = EventAt(r, n, j).seq
  PROVE  i = j
<1> DEFINE Seq(m) == CASE m = 1 -> 1 [] m = 2 -> 2 [] m = 3 -> n + 3 [] OTHER -> m - 1
<1>1. \A m \in 1 .. n + 3 : EventAt(r, n, m).seq = Seq(m)
  <2> SUFFICES ASSUME NEW m \in 1 .. n + 3
               PROVE  EventAt(r, n, m).seq = Seq(m)
    OBVIOUS
  <2>1. CASE m = 1
    BY <2>1 DEF EventAt, InputEvent, EventOf
  <2>2. CASE m = 2
    BY <2>2 DEF EventAt, ModelEvent, EventOf
  <2>3. CASE m = 3
    BY <2>3 DEF EventAt, OutputEvent, EventOf
  <2>4. CASE m \in 4 .. n + 3
    BY <2>4 DEF EventAt, ChunkEvent, EventOf
  <2>5. QED
    BY <2>1, <2>2, <2>3, <2>4
<1>2. Seq(i) = Seq(j)
  BY <1>1
<1>3. QED
  BY <1>2

LEMMA RowsAreChained ==
  ASSUME StoringInv
  PROVE  /\ \A e \in rows : e.seq \in Nat /\ e.seq = e.prev + 1
         /\ \A e, f \in rows : e.req = f.req /\ e.seq = f.seq => e = f
<1>1. ASSUME NEW e \in rows
      PROVE  \E i \in 1 .. chunks[e.req] + 3 :
               /\ e.req \in Requests /\ chunks[e.req] \in 0 .. MaxChunks
               /\ e = EventAt(e.req, chunks[e.req], i)
  BY <1>1 DEF StoringInv, RowInv, RequestTypes, EventCount, StoredAt
<1>2. ASSUME NEW e \in rows
      PROVE  e.seq \in Nat /\ e.seq = e.prev + 1
  <2>1. PICK i \in 1 .. chunks[e.req] + 3 :
               /\ e.req \in Requests /\ chunks[e.req] \in 0 .. MaxChunks
               /\ e = EventAt(e.req, chunks[e.req], i)
    BY <1>1
  <2>2. e \in Event
    BY <2>1, EventAtType
  <2>3. e.seq = e.prev + 1
    BY <2>1, EventAtChain
  <2>4. QED
    BY <2>2, <2>3 DEF Event
<1>3. ASSUME NEW e \in rows, NEW f \in rows, e.req = f.req, e.seq = f.seq
      PROVE  e = f
  <2>1. PICK i \in 1 .. chunks[e.req] + 3 :
               /\ e.req \in Requests /\ chunks[e.req] \in 0 .. MaxChunks
               /\ e = EventAt(e.req, chunks[e.req], i)
    BY <1>1
  <2>2. PICK j \in 1 .. chunks[e.req] + 3 : f = EventAt(e.req, chunks[e.req], j)
    BY <1>1, <1>3
  <2>3. chunks[e.req] \in Nat /\ EventAt(e.req, chunks[e.req], i).seq = EventAt(e.req, chunks[e.req], j).seq
    BY <1>3, <2>1, <2>2
  <2>4. i = j
    BY <2>3, SequenceIsKey
  <2>5. QED
    BY <2>1, <2>2, <2>4
<1>4. QED
  BY <1>2, <1>3

(* What the parts of EvidenceIsConsistent follow from.                     *)
LEMMA EvidenceFromInv ==
  ASSUME IInv, SealInv, TypeOK
  PROVE  EvidenceIsConsistent
<1> USE DEF IInv, SealInv
<1>1. \A c \in certs : c.id \in Commits /\ c.leaves = commit[c.id].leaves /\ c.trace = commit[c.id].trace
  BY DEF CertInv
<1>2. \A c \in certs : c.leaves \subseteq RowsOf(c.trace)
  BY <1>1 DEF ReadInv
<1>3. LeavesFollowChain
  <2> SUFFICES ASSUME NEW c \in certs, NEW e \in c.leaves, NEW f \in c.leaves, f.prev = e.seq
               PROVE  e.seq < f.seq
    BY DEF LeavesFollowChain, Before
  <2>1. e \in rows /\ f \in rows
    BY <1>2 DEF RowsOf
  <2>2. QED
    BY <2>1, RowsAreChained
<1>4. KeyNamesSameLeaves
  BY <1>1 DEF KeyNamesSameLeaves, CertifiedInv, KeyInv
<1>5. OrphansAreUnanswered
  <2> SUFFICES ASSUME NEW o \in worm, commit[o.id].pc \notin {"sealed", "failed"}
               PROVE  \E c \in certs : c.id = o.id /\ c.leaves = o.leaves
    BY DEF OrphansAreUnanswered
  <2>1. /\ o.id \in Commits /\ o.leaves = commit[o.id].leaves
        /\ commit[o.id].pc \in {"inserted", "answered"}
    BY DEF SealedInv
  <2>2. PICK c \in certs : c.id = o.id
    BY <2>1 DEF InsertedInv
  <2>3. QED
    BY <1>1, <2>1, <2>2
<1>6. RootOfOwnTrace
  <2> SUFFICES ASSUME NEW c \in certs, NEW d \in certs, c.trace = d.trace, OwnTrace(c.trace), c.leaves = d.leaves
               PROVE  SameOrder(c, d)
    BY DEF RootOfOwnTrace
  <2>1. PICK r : {q \in Requests : trace[q] = c.trace} = {r}
    <3>1. IsFiniteSet({q \in Requests : trace[q] = c.trace})
      BY FS_Subset
    <3>2. QED
      BY <3>1, FS_Singleton DEF OwnTrace
  <2>2. ASSUME NEW b \in {c, d}
        PROVE  b.tie = {}
    <3>1. b.tie \subseteq Tied(b.leaves) /\ b.leaves \subseteq RowsOf(c.trace)
      BY <1>1, <1>2 DEF CertifiedInv, TieInv
    <3>2. ASSUME NEW p \in Tied(b.leaves)
          PROVE  FALSE
      <4>1. /\ p[1] \in RowsOf(c.trace) /\ p[2] \in RowsOf(c.trace)
            /\ p[1] # p[2] /\ p[1].seq = p[2].seq
        BY <3>1, <3>2 DEF Tied
      <4>2. p[1] \in rows /\ p[2] \in rows /\ trace[p[1].req] = c.trace /\ trace[p[2].req] = c.trace
        BY <4>1 DEF RowsOf
      <4>3. p[1].req \in Requests /\ p[2].req \in Requests
        BY <4>2 DEF StoringInv, RowInv
      <4>4. p[1].req = r /\ p[2].req = r
        BY <2>1, <4>2, <4>3
      <4>5. QED
        BY <4>1, <4>2, <4>4, RowsAreChained
    <3>3. QED
      BY <3>1, <3>2
  <2>3. QED
    BY <2>2 DEF SameOrder, Before
<1>7. QED
  BY <1>3, <1>4, <1>5, <1>6 DEF EvidenceIsConsistent

(* Whatever fails and however commits and requests interleave, what a      *)
(* certificate says agrees with the hash chain, with the WORM object it    *)
(* names and with the other certificates of its trace.                     *)
THEOREM CertificatesAreConsistent == Spec => []EvidenceIsConsistent
<1>1. Init => SealInv
  <2> SUFFICES ASSUME Init PROVE SealInv
    OBVIOUS
  <2>1. \A k \in Commits : commit[k].pc = "idle" /\ commit[k].tie = {} /\ commit[k].objectKey = FALSE
    BY DEF Init, NotStarted, Draft
  <2>2. worm = {} /\ certs = {}
    BY DEF Init
  <2>3. QED
    BY <2>1, <2>2 DEF SealInv, KeyInv, TieInv, SealedInv, CertifiedInv, InsertedInv
<1>2. IInv /\ SealInv /\ [Next]_vars => SealInv'
  BY SealInvNext DEF IInv
<1>3. IInv /\ SealInv /\ TypeOK => EvidenceIsConsistent
  BY EvidenceFromInv
<1>4. QED
  BY <1>1, <1>2, <1>3, InductiveInvariant, TypeCorrect, PTL DEF Spec

----------------------------------------------------------------------------
(* Refinement.                                                             *)

Started == \A r \in Requests : pc[r] # "idle" => trace[r] \in Traces

LEMMA StartedNext == StoringInv /\ Started /\ [Next]_vars => Started'
<1> SUFFICES ASSUME StoringInv, Started, [Next]_vars
             PROVE  Started'
  OBVIOUS
<1> USE DEF Started, StoringInv, RequestTypes
<1>1. ASSUME NEW r \in Requests, NEW stream \in BOOLEAN, NEW t \in Traces, Start(r, stream, t)
      PROVE  Started'
  BY <1>1 DEF Start
<1>2. ASSUME NEW r \in Requests, RequestStep(r) \/ StoreStep(r)
      PROVE  Started'
  <2>1. trace' = trace /\ \A q \in Requests : pc[q] = "idle" => pc'[q] = "idle"
    BY <1>2 DEF RequestStep, UpstreamFails, UpstreamAnswers, Respond, StreamOpens, ReceiveChunk, StreamEnds,
                StoreStep, StoreEvent, StoreFails, Advance
  <2>2. QED
    BY <2>1
<1>3. CASE Crash
  <2>1. trace' = trace /\ \A q \in Requests : pc[q] = "idle" => pc'[q] = "idle"
    BY <1>3 DEF Crash, Running
  <2>2. QED
    BY <2>1
<1>4. CASE UNCHANGED <<pc, trace>>
  BY <1>4
<1>5. QED
  BY <1>1, <1>2, <1>3, <1>4
  DEF Next, vars, request, CommitRead, CommitRefused, CommitStep, UploadWORM, UploadFails, InsertCert,
      InsertCertFails, CommitFails, CommitAnswers

(* What the rows and the commits are to the ledger.                        *)
Page(k) == EntriesOf(commit[k].leaves)
Issued(k) == UNION {EntriesOf(c.leaves) : c \in {d \in certs : d.id = k}}

(* Stored rows keep their entries.                                         *)
LEMMA EntriesKept ==
  ASSUME StoringInv, [Next]_vars, NEW S \in SUBSET rows
  PROVE  {[trace |-> trace'[e.req], event |-> e] : e \in S} = EntriesOf(S)
<1>1. \A e \in rows : e.req \in Requests /\ e \in RowsOf(trace[e.req])
  BY DEF StoringInv, RowInv, RowsOf
<1>2. \A e \in S : trace'[e.req] = trace[e.req]
  <2> SUFFICES ASSUME NEW e \in S
               PROVE  trace'[e.req] = trace[e.req]
    OBVIOUS
  <2>1. e \in {f \in rows' : trace'[f.req] = trace[e.req]}
    <3>1. \A t : RowsOf(t) \subseteq {f \in rows' : trace'[f.req] = t}
      BY RowsOfGrow DEF RowsOf
    <3>2. QED
      BY <1>1, <3>1
  <2>2. QED
    BY <2>1
<1>3. QED
  BY <1>2 DEF EntriesOf, Entry

LEMMA LedgerInit == Init => Ledger!Init
<1> SUFFICES ASSUME Init PROVE Ledger!Init
  OBVIOUS
<1>1. EntriesOf(rows) = {} /\ \A k \in Commits : EntriesOf(commit[k].leaves) = {}
  BY DEF Init, EntriesOf, NotStarted, Draft
<1>2. \A k \in Commits : UNION {EntriesOf(c.leaves) : c \in {d \in certs : d.id = k}} = {}
  BY DEF Init
<1>3. QED
  BY <1>1, <1>2 DEF Ledger!Init

(* The image of one step: the ledger, the pages and the certificates after *)
(* it, in terms of the entries before it.                                  *)
LEMMA ImageOfStep ==
  ASSUME IInv, [Next]_vars
  PROVE  /\ \A S \in SUBSET rows : EntriesOf(S)' = EntriesOf(S)
         /\ \A k \in Commits : commit[k].leaves \in SUBSET rows
         /\ \A c \in certs : c.leaves \in SUBSET rows
<1>1. \A S \in SUBSET rows : EntriesOf(S)' = EntriesOf(S)
  BY EntriesKept DEF IInv, EntriesOf, Entry
<1>2. \A k \in Commits : commit[k].leaves \in SUBSET rows
  BY DEF IInv, ReadInv, RowsOf
<1>3. QED
  BY <1>1, <1>2 DEF IInv, CertInv

(* The certificates of a commit all have its leaves.                       *)
IssuedArePages ==
  \A l \in Commits : Issued(l) = IF \E c \in certs : c.id = l THEN Page(l) ELSE {}

LEMMA IssuedIsPage == IInv => IssuedArePages
<1> SUFFICES ASSUME IInv, NEW k \in Commits
             PROVE  Issued(k) = IF \E c \in certs : c.id = k THEN Page(k) ELSE {}
  BY DEF IssuedArePages
<1>1. \A c \in certs : c.id = k => c.leaves = commit[k].leaves
  BY DEF IInv, CertInv
<1>2. CASE \E c \in certs : c.id = k
  BY <1>1, <1>2 DEF Issued, Page
<1>3. CASE ~ \E c \in certs : c.id = k
  BY <1>3 DEF Issued
<1>4. QED
  BY <1>2, <1>3

LEMMA PagesKept ==
  ASSUME IInv, [Next]_vars, CommitsKept
  PROVE  \A k \in Commits : Page(k)' = Page(k)
<1> SUFFICES ASSUME NEW k \in Commits
             PROVE  Page(k)' = Page(k)
  OBVIOUS
<1>1. commit'[k].leaves = commit[k].leaves
  BY DEF CommitsKept
<1>2. Page(k)' = {[trace |-> trace'[e.req], event |-> e] : e \in commit[k].leaves}
  BY <1>1 DEF Page, EntriesOf, Entry
<1>3. commit[k].leaves \in SUBSET rows
  BY ImageOfStep
<1>4. QED
  BY <1>2, <1>3, EntriesKept DEF Page, IInv

(* The state functions of the refinement mapping, and what leaves them     *)
(* alone.                                                                  *)
Pages == [k \in Commits |-> EntriesOf(commit[k].leaves)]
Certificates == [k \in Commits |-> UNION {EntriesOf(c.leaves) : c \in {d \in certs : d.id = k}}]

LEMMA CertificateIssues ==
  ASSUME IInv, [Next]_vars, CommitsKept, NEW k \in Commits,
         certs' \in {certs, certs \union {Certificate(k)}}
  PROVE  \/ UNCHANGED <<Pages, Certificates>>
         \/ /\ Certificates[k] = {}
            /\ Certificates' = [Certificates EXCEPT ![k] = Pages[k]]
            /\ UNCHANGED Pages
<1>1. IInv'
  BY IInvNext
<1>2. \A l \in Commits : Issued(l) = IF \E c \in certs : c.id = l THEN Page(l) ELSE {}
  BY IssuedIsPage DEF IssuedArePages
<1>3. \A l \in Commits : Issued(l)' = IF \E c \in certs' : c.id = l THEN Page(l)' ELSE {}
  <2>1. IssuedArePages'
    BY <1>1, IssuedIsPage, PTL
  <2>2. QED
    BY <2>1 DEF IssuedArePages
<1>4. \A l \in Commits : Page(l)' = Page(l)
  BY PagesKept
<1>5. Pages' = Pages
  BY <1>4 DEF Pages, Page
<1>6. \A l \in Commits : Pages[l] = Page(l) /\ Certificates[l] = Issued(l)
  BY DEF Pages, Certificates, Page, Issued
<1>7. Certificates' = [l \in Commits |-> Issued(l)']
  BY DEF Certificates, Issued
<1>8. Certificates = [l \in Commits |-> Issued(l)]
  BY DEF Certificates, Issued
<1>9. CASE \A l \in Commits : (\E c \in certs' : c.id = l) <=> (\E c \in certs : c.id = l)
  <2>1. \A l \in Commits : Issued(l)' = Issued(l)
    BY <1>2, <1>3, <1>4, <1>9
  <2>2. QED
    BY <1>5, <1>7, <1>8, <2>1
<1>10. CASE certs' = certs \union {Certificate(k)} /\ ~ \E c \in certs : c.id = k
  <2>1. Certificate(k).id = k
    BY DEF Certificate
  <2>2. Issued(k) = {} /\ Issued(k)' = Page(k)
    BY <1>2, <1>3, <1>4, <1>10, <2>1
  <2>3. \A l \in Commits \ {k} : Issued(l)' = Issued(l)
    BY <1>2, <1>3, <1>4, <1>10, <2>1
  <2>4. Certificates' = [Certificates EXCEPT ![k] = Pages[k]]
    <3>1. \A l \in Commits : Issued(l)' = IF l = k THEN Page(k) ELSE Issued(l)
      BY <2>2, <2>3
    <3>2. Pages[k] = Page(k)
      BY <1>6
    <3>3. QED
      BY <1>7, <1>8, <3>1, <3>2
  <2>5. QED
    BY <1>5, <1>6, <2>2, <2>4
<1>11. QED
  <2>1. Certificate(k).id = k
    BY DEF Certificate
  <2>2. QED
    BY <1>9, <1>10, <2>1

LEMMA LedgerStep ==
  IInv /\ Started /\ [Next]_vars =>
    \/ \E e \in [trace : Traces, event : Event] :
         EntriesOf(rows)' = EntriesOf(rows) \union {e} /\ UNCHANGED <<Pages, Certificates>>
    \/ \E k \in Commits, t \in Traces :
         /\ Pages[k] = {}
         /\ Pages' = [Pages EXCEPT ![k] = {e \in EntriesOf(rows) : e.trace = t}]
         /\ UNCHANGED <<EntriesOf(rows), Certificates>>
    \/ \E k \in Commits :
         /\ Certificates[k] = {}
         /\ Certificates' = [Certificates EXCEPT ![k] = Pages[k]]
         /\ UNCHANGED <<EntriesOf(rows), Pages>>
    \/ UNCHANGED <<EntriesOf(rows), Pages, Certificates>>
<1> SUFFICES ASSUME IInv, Started, [Next]_vars
             PROVE  \/ \E e \in [trace : Traces, event : Event] :
                         EntriesOf(rows)' = EntriesOf(rows) \union {e} /\ UNCHANGED <<Pages, Certificates>>
                    \/ \E k \in Commits, t \in Traces :
                         /\ Pages[k] = {}
                         /\ Pages' = [Pages EXCEPT ![k] = {e \in EntriesOf(rows) : e.trace = t}]
                         /\ UNCHANGED <<EntriesOf(rows), Certificates>>
                    \/ \E k \in Commits :
                         /\ Certificates[k] = {}
                         /\ Certificates' = [Certificates EXCEPT ![k] = Pages[k]]
                         /\ UNCHANGED <<EntriesOf(rows), Pages>>
                    \/ UNCHANGED <<EntriesOf(rows), Pages, Certificates>>
  OBVIOUS
<1>1. \A S \in SUBSET rows : {[trace |-> trace'[e.req], event |-> e] : e \in S} = EntriesOf(S)
  BY EntriesKept DEF IInv
<1>2. rows' = rows => UNCHANGED EntriesOf(rows)
  BY <1>1 DEF EntriesOf, Entry
<1>3. commit' = commit => UNCHANGED Pages
  <2> SUFFICES ASSUME commit' = commit PROVE UNCHANGED Pages
    OBVIOUS
  <2>1. CommitsKept
    BY DEF CommitsKept
  <2>2. QED
    BY <2>1, PagesKept DEF Pages, Page
<1>4. certs' = certs => UNCHANGED Certificates
  <2> SUFFICES ASSUME certs' = certs PROVE UNCHANGED Certificates
    OBVIOUS
  <2>1. \A c \in certs : {[trace |-> trace'[e.req], event |-> e] : e \in c.leaves} = EntriesOf(c.leaves)
    BY <1>1, ImageOfStep
  <2>2. \A c \in certs : EntriesOf(c.leaves)' = EntriesOf(c.leaves)
    BY <2>1 DEF EntriesOf, Entry
  <2>3. QED
    BY <2>2 DEF Certificates
<1>5. ASSUME NEW r \in Requests, StoreStep(r)
      PROVE  \/ \E e \in [trace : Traces, event : Event] : EntriesOf(rows)' = EntriesOf(rows) \union {e}
             \/ UNCHANGED EntriesOf(rows)
  <2>1. /\ rows' \in {rows, rows \union {StoredAt(r, cursor[r])}}
        /\ trace' = trace /\ pc[r] = "storing"
    BY <1>5 DEF StoreStep, StoreEvent, StoreFails
  <2>2. /\ cursor[r] \in 1 .. EventCount(r)
        /\ chunks[r] \in 0 .. MaxChunks
    BY <2>1 DEF IInv, StoringInv, StoreInv, RequestTypes, EventCount
  <2>3. StoredAt(r, cursor[r]) \in Event /\ StoredAt(r, cursor[r]).req = r
    BY <2>2, EventAtType DEF StoredAt, EventCount
  <2>4. Entry(StoredAt(r, cursor[r])) \in [trace : Traces, event : Event]
    BY <2>1, <2>3 DEF Entry, Started
  <2>5. CASE rows' = rows \union {StoredAt(r, cursor[r])}
    <3>1. EntriesOf(rows)' = EntriesOf(rows) \union {Entry(StoredAt(r, cursor[r]))}
      BY <2>1, <2>5 DEF EntriesOf, Entry
    <3>2. QED
      BY <2>4, <3>1
  <2>6. QED
    BY <1>2, <2>1, <2>5
<1>6. ASSUME NEW k \in Commits, NEW t \in Traces, NEW level \in Levels, CommitRead(k, t, level)
      PROVE  /\ Pages[k] = {}
             /\ Pages' = [Pages EXCEPT ![k] = {e \in EntriesOf(rows) : e.trace = t}]
  <2>1. PICK tie : commit' = [commit EXCEPT ![k] = Draft("read", t, level, RowsOf(t), tie, FALSE)]
    BY <1>6 DEF CommitRead, LeavesRead
  <2>2. commit'[k].leaves = RowsOf(t) /\ \A l \in Commits \ {k} : commit'[l] = commit[l]
    BY <2>1 DEF Draft, IInv, ReadInv
  <2>3. trace' = trace /\ rows' = rows
    BY <1>6 DEF CommitRead, request
  <2>4. EntriesOf(RowsOf(t)) = {e \in EntriesOf(rows) : e.trace = t}
    BY DEF EntriesOf, Entry, RowsOf
  <2>5. commit[k].leaves = {}
    BY <1>6 DEF CommitRead, IInv, ReadInv
  <2>6. Pages[k] = {}
    BY <2>5 DEF Pages, EntriesOf
  <2>7. Pages' = [l \in Commits |-> IF l = k THEN EntriesOf(RowsOf(t)) ELSE Pages[l]]
    BY <2>2, <2>3 DEF Pages, EntriesOf, Entry
  <2>8. QED
    BY <2>4, <2>6, <2>7 DEF Pages
<1>7. ASSUME NEW k \in Commits, NEW t \in Traces, CommitRefused(k, t)
      PROVE  UNCHANGED Pages
  <2>1. \A l \in Commits : commit'[l].leaves = commit[l].leaves
    BY <1>7 DEF CommitRefused, IInv, ReadInv, DraftType
  <2>2. UNCHANGED trace
    BY <1>7 DEF CommitRefused, request
  <2>3. QED
    BY <2>1, <2>2 DEF Pages, EntriesOf, Entry
<1>8. ASSUME NEW k \in Commits, CommitStep(k)
      PROVE  \/ UNCHANGED <<Pages, Certificates>>
             \/ /\ Certificates[k] = {}
                /\ Certificates' = [Certificates EXCEPT ![k] = Pages[k]]
                /\ UNCHANGED Pages
  <2>1. certs' \in {certs, certs \union {Certificate(k)}}
    BY <1>8 DEF CommitStep, UploadWORM, UploadFails, InsertCert, InsertCertFails, CommitFails, CommitAnswers
  <2>2. QED
    BY <1>8, <2>1, CommitStepKeeps, CertificateIssues DEF IInv
<1>9. CASE Crash
  <2>1. UNCHANGED Pages
    BY <1>9, CrashKeeps, PagesKept DEF Pages, Page, IInv
  <2>2. QED
    BY <1>2, <1>4, <1>9, <2>1 DEF Crash
<1>10. CASE UNCHANGED <<rows, commit, certs>>
  BY <1>2, <1>3, <1>4, <1>10
<1>11. ASSUME NEW r \in Requests, StoreStep(r)
       PROVE  UNCHANGED <<commit, certs>>
  BY <1>11 DEF StoreStep, StoreEvent, StoreFails
<1>12. ASSUME NEW k \in Commits, NEW t \in Traces, NEW level \in Levels, CommitRead(k, t, level)
       PROVE  UNCHANGED <<rows, certs>>
  BY <1>12 DEF CommitRead
<1>13. ASSUME NEW k \in Commits, NEW t \in Traces, CommitRefused(k, t)
       PROVE  UNCHANGED <<rows, certs>>
  BY <1>13 DEF CommitRefused
<1>14. ASSUME NEW k \in Commits, CommitStep(k)
       PROVE  UNCHANGED rows
  BY <1>14 DEF CommitStep, UploadWORM, UploadFails, InsertCert, InsertCertFails, CommitFails, CommitAnswers
<1>15. \/ \E r \in Requests : StoreStep(r)
       \/ \E k \in Commits, t \in Traces, level \in Levels : CommitRead(k, t, level)
       \/ \E k \in Commits, t \in Traces : CommitRefused(k, t)
       \/ \E k \in Commits : CommitStep(k)
       \/ Crash
       \/ UNCHANGED <<rows, commit, certs>>
  BY DEF Next, vars, Start, RequestStep, UpstreamFails, UpstreamAnswers, Respond, StreamOpens, ReceiveChunk, StreamEnds
<1>16. QED
  BY <1>2, <1>3, <1>4, <1>5, <1>6, <1>7, <1>8, <1>9, <1>10, <1>11, <1>12, <1>13, <1>14, <1>15

(* Every step of the pipeline is a step of the ledger or leaves it alone:  *)
(* certificates are exact, immutable readings of an append-only ledger.    *)
THEOREM PipelineImplementsLedger == Spec => ImplementsLedger
<1>1. Init => Started
  BY DEF Init, Started
<1>2. IInv /\ Started /\ [Next]_vars => Started'
  BY StartedNext DEF IInv
<1>3. IInv /\ Started /\ [Next]_vars => [Ledger!Next]_(Ledger!vars)
  BY LedgerStep
  DEF Ledger!Next, Ledger!vars, Ledger!Append, Ledger!Read, Ledger!Issue, Pages, Certificates
<1>4. QED
  BY <1>1, <1>2, <1>3, LedgerInit, InductiveInvariant, PTL DEF Spec, ImplementsLedger, Ledger!Spec

=============================================================================
