-------------------------- MODULE EvidencePipeline --------------------------
(***************************************************************************)
(* From a chat request to a certificate: the gateway that creates the      *)
(* events of a request (gateway/gateway.go, gateway/stream.go), the        *)
(* handlers that store them in the background (api/chat.go, api/events.go) *)
(* and CommitCert, which certifies whatever rows a trace has               *)
(* (api/certs.go, store/worm.go).                                          *)
(*                                                                         *)
(* A trace stands for a (trace_id, tenant_id) pair.  An event is           *)
(* identified by its request and its sequence number, which its hash       *)
(* covers together with the hash of its predecessor.                       *)
(***************************************************************************)
EXTENDS Naturals, FiniteSets

CONSTANTS
  Requests,   (* POST /chat/completions and /chat/completions/stream       *)
  Commits,    (* POST /certs/commit, one certificate id each               *)
  Traces,     (* trace ids; a client may send X-Trace-ID to reuse one      *)
  Levels,     (* evidence levels that clients ask for                      *)
  MaxChunks,  (* bound: content chunks of one stream                       *)
  MaxFaults   (* bound: failed or timed-out calls to the stores, crashes   *)

ASSUME PipelineAssumption ==
  /\ IsFiniteSet(Requests)
  /\ MaxChunks \in Nat
  /\ MaxFaults \in Nat
  /\ Levels \subseteq {"internal", "compliance", "legal"}

VARIABLES
  pc,        (* where each request is                                      *)
  streamed,  (* the request is a streaming one                             *)
  trace,     (* traceCtx.TraceID of each request                           *)
  chunks,    (* chunkIndex: chunks received and forwarded so far           *)
  cursor,    (* index in result.Events of the next event to store          *)
  answered,  (* the client has a complete successful response              *)
  rows,      (* table events                                               *)
  dropped,   (* history: events whose INSERT failed or never ran           *)
  commit,    (* where each commit is, and its certificate under way        *)
  worm,      (* objects of the WORM bucket                                 *)
  certs,     (* table certificates                                         *)
  faults     (* failures so far                                            *)

request == <<pc, streamed, trace, chunks, cursor, answered>>
vars == <<request, rows, dropped, commit, worm, certs, faults>>

----------------------------------------------------------------------------
(* The events of a request.  prev is the sequence number of the event      *)
(* whose hash is PrevEventHash; the INPUT event has none.                  *)

EventOf(r, kind, seq, prev) == [req |-> r, kind |-> kind, seq |-> seq, prev |-> prev]

InputEvent(r) == EventOf(r, "INPUT", 1, 0)
ModelEvent(r) == EventOf(r, "MODEL", 2, 1)
ChunkEvent(r, index) == EventOf(r, "CHUNK", index + 3, index + 2)

OutputEvent_NotLast(r, n) == EventOf(r, "OUTPUT", 3, n + 2)

(* The OUTPUT event after n chunks; a plain request has n = 0.             *)
OutputEvent(r, n) == EventOf(r, "OUTPUT", n + 3, n + 2)

(* result.Events[i] of a request with n chunks: OUTPUT comes before the    *)
(* chunks it follows in the chain.                                         *)
EventAt(r, n, i) ==
  CASE i = 1 -> InputEvent(r)
    [] i = 2 -> ModelEvent(r)
    [] i = 3 -> OutputEvent(r, n)
    [] OTHER -> ChunkEvent(r, i - 4)

EventCount(r) == chunks[r] + 3
StoredAt(r, i) == EventAt(r, chunks[r], i)
EventsOf(r) == {StoredAt(r, i) : i \in 1 .. EventCount(r)}

Event == [req : Requests, kind : {"INPUT", "MODEL", "CHUNK", "OUTPUT"},
          seq : 1 .. MaxChunks + 3, prev : 0 .. MaxChunks + 2]

----------------------------------------------------------------------------
(* Commits.  leaves is the set of event hashes read.  ORDER BY sequence    *)
(* leaves the order of rows with equal sequence numbers to the database:   *)
(* tie holds the pairs of such rows, first the one that came first.        *)

NoTrace == "none"

Draft(stage, t, level, S, tie, key) ==
  [pc |-> stage, trace |-> t, level |-> level, leaves |-> S, tie |-> tie, objectKey |-> key]

NotStarted == Draft("idle", NoTrace, "internal", {}, {}, FALSE)

Tied(S) == {p \in S \X S : p[1] # p[2] /\ p[1].seq = p[2].seq}

TieBreaks(S) ==
  {T \in SUBSET Tied(S) :
     /\ \A p \in Tied(S) : p \in T <=> <<p[2], p[1]>> \notin T
     /\ \A p, q \in T : p[2] = q[1] => <<p[1], q[2]>> \in T}

(* e precedes f among the leaves of the Merkle tree of certificate c.      *)
Before(c, e, f) == e.seq < f.seq \/ <<e, f>> \in c.tie

(* The rows that the SELECT of CommitCert returns.                         *)
RowsOf(t) == {e \in rows : trace[e.req] = t}

Init ==
  /\ pc = [r \in Requests |-> "idle"]
  /\ streamed = [r \in Requests |-> FALSE]
  /\ trace = [r \in Requests |-> NoTrace]
  /\ chunks = [r \in Requests |-> 0]
  /\ cursor = [r \in Requests |-> 1]
  /\ answered = [r \in Requests |-> FALSE]
  /\ rows = {}
  /\ dropped = {}
  /\ commit = [k \in Commits |-> NotStarted]
  /\ worm = {}
  /\ certs = {}
  /\ faults = 0

(* A call to a store that fails or times out, or a crash.                  *)
Fault ==
  /\ faults < MaxFaults
  /\ faults' = faults + 1

----------------------------------------------------------------------------
(* The gateway.  A request that the upstream refuses leaves no events: the *)
(* handler returns before it stores what the gateway created.              *)

(* ChatCompletions or ChatCompletionsStream up to the upstream call.       *)
Start(r, stream, t) ==
  /\ pc[r] = "idle"
  /\ pc' = [pc EXCEPT ![r] = "upstream"]
  /\ streamed' = [streamed EXCEPT ![r] = stream]
  /\ trace' = [trace EXCEPT ![r] = t]
  /\ UNCHANGED <<chunks, cursor, answered, rows, dropped, commit, worm, certs, faults>>

UpstreamFails(r) ==
  /\ pc[r] = "upstream"
  /\ pc' = [pc EXCEPT ![r] = "failed"]
  /\ UNCHANGED <<streamed, trace, chunks, cursor, answered, rows, dropped, commit, worm, certs, faults>>

(* The whole response of a plain request is read; its goroutine starts to  *)
(* store the events while the handler writes the response.                 *)
UpstreamAnswers(r) ==
  /\ pc[r] = "upstream" /\ ~streamed[r]
  /\ pc' = [pc EXCEPT ![r] = "storing"]
  /\ UNCHANGED <<streamed, trace, chunks, cursor, answered, rows, dropped, commit, worm, certs, faults>>

Respond(r) ==
  /\ pc[r] \in {"storing", "stored"} /\ ~streamed[r] /\ ~answered[r]
  /\ answered' = [answered EXCEPT ![r] = TRUE]
  /\ UNCHANGED <<pc, streamed, trace, chunks, cursor, rows, dropped, commit, worm, certs, faults>>

StreamOpens(r) ==
  /\ pc[r] = "upstream" /\ streamed[r]
  /\ pc' = [pc EXCEPT ![r] = "streaming"]
  /\ UNCHANGED <<streamed, trace, chunks, cursor, answered, rows, dropped, commit, worm, certs, faults>>

(* One chunk: its event is created and the callback forwards it with its   *)
(* event hash.                                                             *)
ReceiveChunk(r) ==
  /\ pc[r] = "streaming"
  /\ chunks[r] < MaxChunks
  /\ chunks' = [chunks EXCEPT ![r] = @ + 1]
  /\ UNCHANGED <<pc, streamed, trace, cursor, answered, rows, dropped, commit, worm, certs, faults>>

(* End of file, [DONE], a finish reason or a read error: all the same.     *)
(* The done message is sent, then the goroutine starts.                    *)
StreamEnds(r) ==
  /\ pc[r] = "streaming"
  /\ pc' = [pc EXCEPT ![r] = "storing"]
  /\ answered' = [answered EXCEPT ![r] = TRUE]
  /\ UNCHANGED <<streamed, trace, chunks, cursor, rows, dropped, commit, worm, certs, faults>>

----------------------------------------------------------------------------
(* The goroutine: one INSERT per event, in the order of result.Events.     *)

LoopDone(r, i) == i > EventCount(r)

Advance(r, i) ==
  /\ cursor' = [cursor EXCEPT ![r] = i]
  /\ pc' = [pc EXCEPT ![r] = IF LoopDone(r, i) THEN "stored" ELSE @]

StoreEvent(r) ==
  /\ pc[r] = "storing"
  /\ rows' = rows \union {StoredAt(r, cursor[r])}
  /\ Advance(r, cursor[r] + 1)
  /\ UNCHANGED <<streamed, trace, chunks, answered, dropped, commit, worm, certs, faults>>

AfterFailure_GivesUp(r) == EventCount(r) + 1

(* A failed INSERT is logged and the loop goes on.                         *)
AfterFailure(r) == cursor[r] + 1

(* The INSERT returns an error; after a time-out the row may be there.     *)
StoreFails(r) ==
  /\ pc[r] = "storing"
  /\ dropped' = dropped \union {StoredAt(r, cursor[r])}
  /\ rows' \in {rows, rows \union {StoredAt(r, cursor[r])}}
  /\ Advance(r, AfterFailure(r))
  /\ Fault
  /\ UNCHANGED <<streamed, trace, chunks, answered, commit, worm, certs>>

----------------------------------------------------------------------------
(* CommitCert.                                                             *)

LeavesRead_SkippingOne(S) == {T \in SUBSET S : Cardinality(T) + 1 >= Cardinality(S)} \ {{}}

(* What the loop over the rows returns: one statement, one snapshot.       *)
LeavesRead(S) == {S} \ {{}}

(* Query, tree, level and signature.                                       *)
CommitRead(k, t, level) ==
  /\ commit[k].pc = "idle"
  /\ \E S \in LeavesRead(RowsOf(t)) : \E tie \in TieBreaks(S) :
       commit' = [commit EXCEPT ![k] = Draft("read", t, level, S, tie, FALSE)]
  /\ UNCHANGED <<request, rows, dropped, worm, certs, faults>>

(* The query fails; or the trace has no rows: 404.                         *)
CommitRefused(k, t) ==
  /\ commit[k].pc = "idle"
  /\ commit' = [commit EXCEPT ![k].pc = "failed", ![k].trace = t]
  /\ UNCHANGED <<request, rows, dropped, worm, certs, faults>>

NeedsWORM(k) == commit[k].level = "compliance"

Object(k, locked) == [id |-> k, leaves |-> commit[k].leaves, tie |-> commit[k].tie, locked |-> locked]

(* PutObject succeeds; PutObjectRetention may fail, which is only printed. *)
UploadWORM(k) ==
  /\ commit[k].pc = "read" /\ NeedsWORM(k)
  /\ \E locked \in BOOLEAN : worm' = worm \union {Object(k, locked)}
  /\ commit' = [commit EXCEPT ![k].pc = "sealed", ![k].objectKey = TRUE]
  /\ UNCHANGED <<request, rows, dropped, certs, faults>>

KeyAfterFailedUpload == FALSE

(* MinIO is absent, or PutObject returns an error, after a time-out        *)
(* perhaps with the object written: a warning, and CommitCert goes on.     *)
UploadFails(k) ==
  /\ commit[k].pc = "read" /\ NeedsWORM(k)
  /\ worm' \in {worm, worm \union {Object(k, FALSE)}}
  /\ commit' = [commit EXCEPT ![k].pc = "sealed", ![k].objectKey = KeyAfterFailedUpload]
  /\ Fault
  /\ UNCHANGED <<request, rows, dropped, certs>>

InsertReady(k) ==
  \/ commit[k].pc = "read" /\ ~NeedsWORM(k)
  \/ commit[k].pc = "sealed"

Certificate(k) ==
  [id |-> k, trace |-> commit[k].trace, level |-> commit[k].level,
   leaves |-> commit[k].leaves, tie |-> commit[k].tie,
   anchor |-> IF NeedsWORM(k) THEN "worm" ELSE "local",
   objectKey |-> commit[k].objectKey]

InsertCert(k) ==
  /\ InsertReady(k)
  /\ certs' = certs \union {Certificate(k)}
  /\ commit' = [commit EXCEPT ![k].pc = "inserted"]
  /\ UNCHANGED <<request, rows, dropped, worm, faults>>

AfterFailedInsert == "failed"

(* The INSERT of the certificate fails, or times out with its row written. *)
InsertCertFails(k) ==
  /\ InsertReady(k)
  /\ certs' \in {certs, certs \union {Certificate(k)}}
  /\ commit' = [commit EXCEPT ![k].pc = AfterFailedInsert]
  /\ Fault
  /\ UNCHANGED <<request, rows, dropped, worm>>

(* The signer or the serialisation of the certificate fails.               *)
CommitFails(k) ==
  /\ commit[k].pc \in {"read", "sealed"}
  /\ commit' = [commit EXCEPT ![k].pc = "failed"]
  /\ Fault
  /\ UNCHANGED <<request, rows, dropped, worm, certs>>

CommitAnswers(k) ==
  /\ commit[k].pc = "inserted"
  /\ commit' = [commit EXCEPT ![k].pc = "answered"]
  /\ UNCHANGED <<request, rows, dropped, worm, certs, faults>>

----------------------------------------------------------------------------
(* The process dies and restarts: requests, goroutines and commits under   *)
(* way are gone, and so are the events they had not stored.                *)

Running(r) ==
  \/ pc[r] \in {"upstream", "streaming", "storing"}
  \/ pc[r] = "stored" /\ ~answered[r]
Committing(k) == commit[k].pc \in {"read", "sealed", "inserted"}

NotYetStored(r) == {StoredAt(r, i) : i \in cursor[r] .. EventCount(r)}

Crash ==
  /\ (\E r \in Requests : Running(r)) \/ (\E k \in Commits : Committing(k))
  /\ pc' = [r \in Requests |-> IF Running(r) THEN "failed" ELSE pc[r]]
  /\ dropped' = dropped \union UNION {NotYetStored(r) : r \in {q \in Requests : pc[q] = "storing"}}
  /\ commit' = [k \in Commits |-> IF Committing(k) THEN [commit[k] EXCEPT !.pc = "failed"] ELSE commit[k]]
  /\ Fault
  /\ UNCHANGED <<streamed, trace, chunks, cursor, answered, rows, worm, certs>>

----------------------------------------------------------------------------
RequestStep(r) ==
  \/ UpstreamFails(r) \/ UpstreamAnswers(r) \/ Respond(r)
  \/ StreamOpens(r) \/ ReceiveChunk(r) \/ StreamEnds(r)

StoreStep(r) == StoreEvent(r) \/ StoreFails(r)

CommitStep(k) ==
  \/ UploadWORM(k) \/ UploadFails(k)
  \/ InsertCert(k) \/ InsertCertFails(k)
  \/ CommitFails(k) \/ CommitAnswers(k)

Next ==
  \/ \E r \in Requests : RequestStep(r) \/ StoreStep(r)
  \/ \E r \in Requests, stream \in BOOLEAN, t \in Traces : Start(r, stream, t)
  \/ \E k \in Commits, t \in Traces, level \in Levels : CommitRead(k, t, level)
  \/ \E k \in Commits, t \in Traces : CommitRefused(k, t)
  \/ \E k \in Commits : CommitStep(k)
  \/ Crash

Spec == Init /\ [][Next]_vars

(* Every call has a deadline (gateway.timeout for the upstream, ten        *)
(* seconds for an INSERT, thirty for a commit), so none blocks for ever.   *)
FairSpec ==
  /\ Spec
  /\ \A r \in Requests : WF_vars(RequestStep(r)) /\ WF_vars(StoreStep(r))
  /\ \A k \in Commits : WF_vars(CommitStep(k))

----------------------------------------------------------------------------
DraftType ==
  [pc : {"idle", "read", "sealed", "inserted", "answered", "failed"},
   trace : Traces \union {NoTrace}, level : Levels \union {"internal"},
   leaves : SUBSET Event, tie : SUBSET (Event \X Event),
   objectKey : BOOLEAN]

(* Every variable keeps its type; no goroutine runs past result.Events,    *)
(* and nothing is certified that is not an event of a request.             *)
TypeOK ==
  /\ pc \in [Requests -> {"idle", "upstream", "streaming", "storing", "stored", "failed"}]
  /\ streamed \in [Requests -> BOOLEAN]
  /\ trace \in [Requests -> Traces \union {NoTrace}]
  /\ chunks \in [Requests -> 0 .. MaxChunks]
  /\ cursor \in [Requests -> Nat]
  /\ \A r \in Requests : cursor[r] \in 1 .. EventCount(r) + 1
  /\ answered \in [Requests -> BOOLEAN]
  /\ rows \subseteq Event
  /\ dropped \subseteq Event
  /\ commit \in [Commits -> DraftType]
  /\ \A o \in worm : o.id \in Commits /\ o.leaves \subseteq Event
  /\ \A c \in certs : c.id \in Commits /\ c.leaves \subseteq Event
  /\ faults \in 0 .. MaxFaults

(* A certificate covers, of each request it covers at all, the events      *)
(* stored up to some point: an event that the goroutine stored earlier is  *)
(* missing only if its INSERT failed.                                      *)
CertIsStorePrefix ==
  \A c \in certs, r \in Requests : \A i, j \in 1 .. EventCount(r) :
    (i < j /\ StoredAt(r, j) \in c.leaves) => StoredAt(r, i) \in c.leaves \union dropped

(* Of two certificates of one trace, one covers everything that the other  *)
(* covers, however their commits and the storing goroutines interleave.    *)
CertsNested ==
  \A c, d \in certs : c.trace = d.trace => c.leaves \subseteq d.leaves \/ d.leaves \subseteq c.leaves

(* ORDER BY sequence lists the events of a request in the order of its     *)
(* hash chain, although the goroutine stores OUTPUT before the chunks.     *)
LeavesFollowChain ==
  \A c \in certs : \A e, f \in c.leaves :
    (e.req = f.req /\ f.prev = e.seq) => Before(c, e, f)

(* A certificate that names a WORM object has one with the same leaves in  *)
(* the same order.                                                         *)
KeyNamesSameLeaves ==
  \A c \in certs : c.objectKey =>
    \E o \in worm : o.id = c.id /\ o.leaves = c.leaves /\ o.tie = c.tie

(* A WORM object outlives its certificate only if the commit was cut short *)
(* or failed: an answered commit leaves no orphan object behind.           *)
OrphansAreUnanswered ==
  \A o \in worm :
    \/ \E c \in certs : c.id = o.id /\ c.leaves = o.leaves
    \/ commit[o.id].pc \in {"sealed", "failed"}

(* Two certificates with the same leaves have the same Merkle root, as     *)
(* long as the trace belongs to one request.                               *)
SameOrder(c, d) == \A e, f \in c.leaves : Before(c, e, f) <=> Before(d, e, f)
OwnTrace(t) == Cardinality({r \in Requests : trace[r] = t}) = 1

RootOfOwnTrace ==
  \A c, d \in certs : (c.trace = d.trace /\ OwnTrace(c.trace) /\ c.leaves = d.leaves) => SameOrder(c, d)

(* Whatever fails and however commits and requests interleave, what a      *)
(* certificate says stays consistent: with the hash chain, with the WORM   *)
(* object it names, and with the other certificates of its trace           *)
(* (certs.go:60, 178, 208).                                                *)
EvidenceIsConsistent ==
  TypeOK /\ LeavesFollowChain /\ KeyNamesSameLeaves /\ OrphansAreUnanswered /\ RootOfOwnTrace

Settled(r) == EventsOf(r) \subseteq rows \union dropped

(* Once the upstream has answered, every event of the request is stored,   *)
(* or its INSERT failed, or the process died (chat.go:110).                *)
EvidenceSettles == \A r \in Requests : (pc[r] = "storing") ~> Settled(r)

----------------------------------------------------------------------------
(* What the documentation says and the code does not do.                   *)

(* "Gateway records output event" comes before "returns response": a       *)
(* commit that reads after the response covers the whole request.          *)
AnsweredIsCovered ==
  [][\A k \in Commits, r \in Requests :
       (commit[k].pc = "idle" /\ commit'[k].pc = "read" /\ answered[r] /\ trace[r] = commit'[k].trace)
         => EventsOf(r) \subseteq commit'[k].leaves \union dropped]_vars

(* The compliance level is WORM storage: its object exists and is locked.  *)
ComplianceIsLocked ==
  \A c \in certs : c.level = "compliance" => \E o \in worm : o.id = c.id /\ o.locked

----------------------------------------------------------------------------
(* Refinement: rows are the ledger, a commit's leaves its page.            *)

Entry(e) == [trace |-> trace[e.req], event |-> e]
EntriesOf(S) == {Entry(e) : e \in S}

Ledger == INSTANCE CertifiedLedger WITH
  Entries <- [trace : Traces, event : Event],
  ledger <- EntriesOf(rows),
  page <- [k \in Commits |-> EntriesOf(commit[k].leaves)],
  issued <- [k \in Commits |-> UNION {EntriesOf(c.leaves) : c \in {d \in certs : d.id = k}}]

(* The pipeline implements the ledger: what is stored stays, and what a    *)
(* commit issues is exactly what its trace held when it read.              *)
ImplementsLedger == Ledger!Spec
=============================================================================
