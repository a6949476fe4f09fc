--------------------------- MODULE CertificateDesk ---------------------------
(***************************************************************************)
(* What clients of the evidence store do, in one tenant's worth of it:     *)
(* writing a list of events (IngestEvents, api/events.go), searching page  *)
(* by page (api/certs_search.go, api/events.go), the report                *)
(* (api/certs_report.go, report/report.go), verifying a certificate        *)
(* (api/certs_verify.go) and handing out a proof (api/certs_proof.go) for  *)
(* the offline verifier (verifier/pkg/verify/verifier.go).                 *)
(*                                                                         *)
(* Rows are inserted in any order of their created_at or timestamp, and    *)
(* several may have the same.  The program deletes none;                   *)
(* cleanup_old_events of scripts/init.sql, which it never calls, is left   *)
(* out.  The stored certificate may be damaged in one field.               *)
(***************************************************************************)
EXTENDS MerkleTree, FiniteSets, FiniteSetsExt

CONSTANTS
  MaxCerts,     \* bound on certificates; number i covers i events
  MaxEvents,    \* bound on events in the table
  TimeOf,       \* the time a row is ordered by, of each certificate and event
  Batches,      \* lists of events that clients send
  Sizes,        \* page sizes a client asks for
  DefaultSize,  \* 20
  MaxSize,      \* 100: a larger page size falls back to DefaultSize
  TraceLimit,   \* 1000: LIMIT of the report's query of traces
  CertLimit     \* 500: LIMIT of its query of certificates

ASSUME DeskAssumption ==
  /\ MaxCerts \in Nat /\ MaxEvents \in Nat /\ Sizes \subseteq Nat
  /\ TimeOf \in [(1 .. MaxCerts) \cup (1 .. MaxEvents) -> Nat]
  /\ Batches \subseteq Seq(1 .. MaxEvents)
  /\ DefaultSize \in Nat \ {0} /\ MaxSize \in Nat
  /\ TraceLimit \in Nat /\ CertLimit \in Nat

VARIABLES
  certs,   \* rows of table certificates
  events,  \* rows of table events
  damage,  \* the damaged field of each certificate, or "none"
  client   \* what the client does: nothing, sending events, paging, or getting a report

deskVars == <<certs, events, damage, client>>

Fields == {"events", "root", "level", "timestamp", "fraction", "tree", "anchor", "trace_id"}
Idle == [at |-> "idle"]

EventTypes == {"INPUT", "OUTPUT"}
TraceOf(e) == e % 2
TypeOf(e) == IF e % 3 = 0 THEN "INPUT" ELSE "OUTPUT"

DeskInit ==
  /\ certs = {} /\ events = {}
  /\ damage = [i \in 1 .. MaxCerts |-> "none"]
  /\ client = Idle

(* A row appears between the COUNT of a page and its SELECT.               *)
Raced(kind) ==
  IF client.at = "counted" /\ client.kind = kind THEN [client EXCEPT !.raced = TRUE] ELSE client

(* The INSERT at the end of CommitCert.                                    *)
InsertCert(i) ==
  /\ i \notin certs
  /\ certs' = certs \cup {i}
  /\ client' = Raced("certs")
  /\ UNCHANGED <<events, damage>>

(* storeEvent, called by a gateway goroutine or by another client; a known *)
(* event_id is refused.                                                    *)
storeEvent(e) ==
  /\ e \notin events
  /\ events' = events \cup {e}
  /\ client' = Raced("events")
  /\ UNCHANGED <<certs, damage>>

Damage(i, field) ==
  /\ i \in certs /\ \A j \in 1 .. MaxCerts : damage[j] = "none"
  /\ damage' = [damage EXCEPT ![i] = field]
  /\ UNCHANGED <<certs, events, client>>

----------------------------------------------------------------------------
(* IngestEvents, and a client that sends a list again.  stored holds what  *)
(* the INSERTs of earlier rounds have stored, which the client may not     *)
(* have been told.                                                         *)

SendEvents(batch) ==
  /\ client = Idle
  /\ client' = [at |-> "ingesting", batch |-> batch, results |-> << >>, stored |-> {}]
  /\ UNCHANGED <<certs, events, damage>>

(* One round of the loop; an INSERT that fails may still store its row.    *)
IngestNext ==
  /\ client.at = "ingesting" /\ Len(client.results) < Len(client.batch)
  /\ LET e == client.batch[Len(client.results) + 1] IN
     \E result \in {"stored", "duplicate", "failed"} :
       /\ result = "stored" => e \notin events
       /\ result = "duplicate" => e \in events
       /\ events' \in IF result = "stored" THEN {events \cup {e}}
                      ELSE IF result = "duplicate" THEN {events}
                      ELSE {events, events \cup {e}}
       /\ client' = [client EXCEPT !.results = Append(@, result)]
  /\ UNCHANGED <<certs, damage>>

(* The answer says success whatever the results are; the client that does  *)
(* not get it, or finds an error in it, sends the whole list again.        *)
SendAgain ==
  /\ client.at = "ingesting" /\ Len(client.results) = Len(client.batch)
  /\ client' = [client EXCEPT !.results = << >>,
                   !.stored = @ \cup {client.batch[k] : k \in {j \in DOMAIN client.results : client.results[j] = "stored"}}]
  /\ UNCHANGED <<certs, events, damage>>

----------------------------------------------------------------------------
(* SearchCerts and SearchEvents, and a client that follows has_more.       *)

(* The first k of S by descending key: what ORDER BY key DESC LIMIT k may  *)
(* give, as the order of equal keys is the database's, anew in every query.*)
Firsts(S, key, k) ==
  {F \in SUBSET S :
     /\ Cardinality(F) <= k /\ (F = S \/ Cardinality(F) = k)
     /\ \A x \in F, y \in S \ F : key[x] >= key[y]}

(* A page: LIMIT n OFFSET offset.                                          *)
PagesOf(S, n, offset) ==
  {f.upTo \ f.before : f \in {g \in [before : Firsts(S, TimeOf, offset), upTo : Firsts(S, TimeOf, offset + n)] :
                                g.before \subseteq g.upTo}}

Pages_Whole(total, size) == total \div size
Pages(total, size) == (total + size - 1) \div size

(* The rows a search is for; its COUNT leaves the time range out.          *)
Counted(kind) == IF kind = "certs" THEN certs ELSE events
Matching(kind, since) == {x \in Counted(kind) : TimeOf[x] >= since}

OpenSearch(kind, size, since) ==
  /\ client = Idle
  /\ kind = "certs" => since = 0
  /\ client' = [at |-> "asking", kind |-> kind, since |-> since, page |-> 1, raced |-> FALSE, total |-> 0,
                size |-> IF kind = "certs" /\ size \notin 1 .. MaxSize THEN DefaultSize ELSE size,
                wanted |-> Matching(kind, since), got |-> {}]
  /\ UNCHANGED <<certs, events, damage>>

(* A COUNT that fails counts nothing; an events page of size 0 divides by  *)
(* zero and the panic is recovered by the router.                          *)
Count ==
  /\ client.at = "asking"
  /\ \/ /\ client.size > 0
        /\ client' = [client EXCEPT !.at = "counted", !.raced = FALSE, !.total = Cardinality(Counted(client.kind))]
     \/ client.size > 0 /\ client' = [client EXCEPT !.at = "counted", !.raced = TRUE, !.total = 0]
     \/ client.size = 0 /\ client' = Idle
  /\ UNCHANGED <<certs, events, damage>>

HasMore == client.page < Pages(client.total, client.size)

Select ==
  /\ client.at = "counted"
  /\ \E rows \in PagesOf(Matching(client.kind, client.since), client.size, (client.page - 1) * client.size) :
       client' = IF HasMore
                   THEN [client EXCEPT !.at = "asking", !.page = @ + 1, !.got = @ \cup rows, !.total = 0]
                   ELSE [client EXCEPT !.at = "listed", !.got = @ \cup rows]
  /\ UNCHANGED <<certs, events, damage>>

(* The client is done, or gives up; so is a report that fails.  A loop of  *)
(* IngestEvents that is left halfway is one whose server stops.            *)
Leave ==
  /\ client.at # "idle"
  /\ client' = Idle
  /\ UNCHANGED <<certs, events, damage>>

----------------------------------------------------------------------------
(* GenerateReport: four queries, each with a snapshot of its own.          *)

InWindow(since) == {e \in events : TimeOf[e] >= since}

(* The traces with the latest first events, TraceLimit of them.            *)
TracesListed(S) ==
  LET traces == {TraceOf(e) : e \in S}
  IN  Firsts(traces, [t \in traces |-> Min({TimeOf[e] : e \in {x \in S : TraceOf(x) = t}})], TraceLimit)

QueryTraces(since) ==
  /\ client = Idle
  /\ \E traces \in TracesListed(InWindow(since)) :
       client' = [at |-> "traces", since |-> since, traces |-> traces,
                  totalEvents |-> Cardinality({e \in InWindow(since) : TraceOf(e) \in traces}), certs |-> {},
                  failed |-> FALSE, eventsByType |-> [t \in EventTypes |-> 0], tokens |-> 0]
  /\ UNCHANGED <<certs, events, damage>>

(* The time range does not apply to certificates.                          *)
QueryCerts ==
  /\ client.at = "traces"
  /\ \E rows \in PagesOf(certs, CertLimit, 0) : client' = [client EXCEPT !.at = "certs", !.certs = rows]
  /\ UNCHANGED <<certs, events, damage>>

TypeRows(since) == InWindow(since)

(* A failing query of types is passed over; a type without rows counts 0.  *)
QueryTypes ==
  /\ client.at = "certs"
  /\ \E S \in {{}, TypeRows(client.since)} :
       client' = [client EXCEPT !.at = "types", !.failed = S # TypeRows(client.since),
                                !.eventsByType = [t \in EventTypes |-> Cardinality({e \in S : TypeOf(e) = t})]]
  /\ UNCHANGED <<certs, events, damage>>

(* Tokens of events of type llm_response, which no handler writes.         *)
QueryTokens ==
  /\ client.at = "types"
  /\ client' = [client EXCEPT !.at = "report", !.tokens = 0]
  /\ UNCHANGED <<certs, events, damage>>

----------------------------------------------------------------------------
(* A certificate as it is stored: what CommitCert wrote, one field damaged,*)
(* and then <<0>>; every field is a tuple, for the comparisons' sake, and  *)
(* the timestamp one of its seconds and its fraction of a second.          *)

Committed(i) ==
  LET leaves == [k \in 1 .. i |-> <<10 * i + k>>] IN
  [cert_id |-> i, events |-> leaves, tree |-> buildTree(leaves), root |-> TreeRoot(buildTree(leaves)),
   level |-> <<1>>, timestamp |-> <<i, 1>>, anchor |-> <<1>>, trace_id |-> <<1>>]

(* Format(time.RFC3339) drops the fraction.                                *)
Seconds(timestamp) == timestamp[1]

SignedData(c) == <<c.cert_id, c.root, c.level, Seconds(c.timestamp)>>

(* What SELECT cert_data gives to GetCert, VerifyCert and GenerateProof.   *)
CertData(i) ==
  LET c == Committed(i) IN
  CASE damage[i] = "none"     -> c
    [] damage[i] = "events"   -> [c EXCEPT !.events = [@ EXCEPT ![i] = <<0>>]]
    [] damage[i] = "tree"     -> [c EXCEPT !.tree = buildTree([k \in 1 .. i |-> <<0>>])]
    [] damage[i] = "fraction" -> [c EXCEPT !.timestamp = <<i, 0>>]
    [] OTHER                  -> [c EXCEPT ![damage[i]] = <<0>>]

SignatureValid_Unchecked(c, i) == TRUE

(* The signature is CommitCert's; the key to check it is in the metadata.  *)
SignatureValid(c, i) == SignedData(c) = SignedData(Committed(i))

VerifyCert(i) ==
  LET c == CertData(i) IN TreeRoot(buildTree(c.events)) = c.root /\ SignatureValid(c, i)

(* Indexes that are out of range are passed over.                          *)
GenerateProof(i, indexes) ==
  LET c == CertData(i)
      kept == {k \in indexes : k < Len(c.events)}
  IN  [root |-> c.root,
       proofs |-> {[hash |-> At(c.events, k), path |-> GetProof(c.tree, k)] : k \in kept}]

(* The offline verifier: Verifier.VerifyProof and VerifyCertificate.       *)
HasPrefix(root) == root # <<0>>

OfflineProof(p) ==
  /\ HasPrefix(p.root) /\ p.proofs # {}
  /\ \A m \in p.proofs : VerifyProof(m.hash, m.path, p.root)

OfflineCertificate(c) == c.events # << >> /\ buildMerkleRoot(c.events) = c.root

----------------------------------------------------------------------------
(* The start times that tell the rows apart.                               *)
Times == {0} \cup {TimeOf[e] : e \in 1 .. MaxEvents}

DeskNext ==
  \/ \E i \in 1 .. MaxCerts : InsertCert(i) \/ \E field \in Fields : Damage(i, field)
  \/ \E e \in 1 .. MaxEvents : storeEvent(e)
  \/ (\E batch \in Batches : SendEvents(batch)) \/ IngestNext \/ SendAgain
  \/ \E kind \in {"certs", "events"}, size \in Sizes, since \in Times : OpenSearch(kind, size, since)
  \/ Count \/ Select \/ Leave
  \/ \E since \in Times : QueryTraces(since)
  \/ QueryCerts \/ QueryTypes \/ QueryTokens

DeskSpec == DeskInit /\ [][DeskNext]_deskVars

----------------------------------------------------------------------------
(* Another row of the search has the same time.                            *)
Tied(S, x) == \E y \in S \ {x} : TimeOf[y] = TimeOf[x]

(* A search followed to the page without has_more lists every row that was *)
(* there when it began and is alone in its time, whatever is inserted      *)
(* meanwhile, and rows are then listed twice; unless a row comes between   *)
(* the COUNT and the SELECT of the last page and pushes the oldest off it, *)
(* or the COUNT fails (certs_search.go:46, 71; events.go:220).  Rows of    *)
(* one time may change places between two pages and be missed or listed    *)
(* twice with no race at all (certs_search.go:62, events.go:186).          *)
SearchMissesNone ==
  client.at = "listed" =>
    client.raced \/ \A x \in client.wanted \ client.got : Tied(Matching(client.kind, client.since), x)

(* A report never shows more events than its statistics by type, which are *)
(* asked for later (certs_report.go:177, 279), unless that query failed.   *)
ReportAddsUp ==
  client.at = "report" =>
    client.failed \/ client.totalEvents <= client.eventsByType["INPUT"] + client.eventsByType["OUTPUT"]

(* What an answer of IngestEvents says without an error is in the table,   *)
(* though a sender who repeats a list that failed in part, or whose answer *)
(* was lost, has no event stored twice: what was stored once is refused    *)
(* from then on, later in the list and in every further round, while       *)
(* others store events too (events.go:64, 81).                             *)
IngestAnswersStand ==
  client.at = "ingesting" =>
    /\ client.stored \subseteq events
    /\ \A k \in DOMAIN client.results :
         /\ client.results[k] # "failed" => client.batch[k] \in events
         /\ client.results[k] = "stored" =>
              /\ client.batch[k] \notin client.stored
              /\ \A j \in DOMAIN client.results :
                   j # k /\ client.batch[j] = client.batch[k] => client.results[j] # "stored"

(* The three together: what is written and read in several calls while     *)
(* rows are stored (events.go:64, certs_search.go:64, certs_report.go:263).*)
ListsAddUp == SearchMissesNone /\ ReportAddsUp /\ IngestAnswersStand

(* VerifyCert calls a certificate that is as it was committed valid, and   *)
(* what it calls valid has the events, the root, the level and the second  *)
(* it was committed with, and the offline verifier accepts it              *)
(* (certs_verify.go:100, 134).  It says nothing of the fields that neither *)
(* the root nor the signature covers.                                      *)
VerdictsAgree ==
  \A i \in certs :
    /\ damage[i] = "none" => VerifyCert(i)
    /\ VerifyCert(i) =>
         LET c == CertData(i)  w == Committed(i)
         IN  /\ c.events = w.events /\ c.root = w.root /\ c.level = w.level
             /\ Seconds(c.timestamp) = Seconds(w.timestamp)
             /\ OfflineCertificate(c)

(* A node above leaf k of n, not the root, is a left one, and the leaves   *)
(* end with those below it: it has no neighbour to hash with.              *)
Lonely(n, k) ==
  \E l \in 0 .. n :
    /\ Pow2(l) < n
    /\ Above(k, l) % 2 = 0
    /\ (Above(k, l) + 1) * Pow2(l) >= n

(* The proof of a set of events of an undamaged certificate passes offline *)
(* exactly if it names an event of the certificate and no event it names   *)
(* has a lonely node above it (certs_proof.go:77, verifier.go:177).        *)
ProofsPassOffline ==
  \A i \in certs, indexes \in SUBSET (0 .. MaxCerts) :
    damage[i] = "none" =>
      (OfflineProof(GenerateProof(i, indexes)) <=>
         LET kept == {k \in indexes : k < i} IN kept # {} /\ \A k \in kept : ~Lonely(i, k))

(* The two together: what the server says of a certificate, whole or in    *)
(* part, against what an auditor finds (certs_verify.go:100, main.go:162). *)
AuditsAgree == VerdictsAgree /\ ProofsPassOffline
=============================================================================
