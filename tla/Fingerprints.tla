---------------------------- MODULE Fingerprints ----------------------------
(***************************************************************************)
(* Model fingerprints: their collection (fingerprint/collector.go,         *)
(* statistical.go), the table that keeps them (store/fingerprints.go) and  *)
(* the API that reads, compares and verifies them.                         *)
(*                                                                         *)
(* A similarity is a whole number of thousandths. The semantic features    *)
(* and the means of the token probabilities come with the data; diversity  *)
(* and probabilities count in parts of Unit; a log probability is given by *)
(* its magnitude.                                                          *)
(***************************************************************************)
EXTENDS Integers, Sequences, FiniteSets

CONSTANTS
  FpTenants, FpTraces,
  Collections,    \* set of data to collect from: CollectionData
  Unit,           \* parts of 1
  FpClock,        \* bound: created_at is in 1..FpClock
  MaxRows,        \* bound on rows
  PageLimit

(* What is measured of a response: the first token's time and the counts,  *)
(* the token probabilities if the provider sends any, and the semantic     *)
(* features, of which the diversity is a share.                            *)
NoProbs == [none |-> TRUE]

CollectionData ==
  [latency : Nat, tokens : Nat, first : Nat, ollama : BOOLEAN,
   probs : [logprob : Nat, entropy : Nat] \cup {NoProbs},
   semantic : [diversity : 0 .. Unit, sentence : Nat, complexity : Nat]]

ASSUME FingerprintsAssumption ==
  /\ Unit \in Nat \ {0} /\ PageLimit \in Nat /\ FpClock \in Nat /\ MaxRows \in Nat
  /\ \A d \in Collections : d \in CollectionData

VARIABLES
  rows,           \* the fingerprints table, in the order of insertion
  fpClock,        \* CURRENT_TIMESTAMP
  reading,        \* a client's request that has made the first of its two reads
  answered        \* the last answer to a request of two reads

fpVars == <<rows, fpClock, reading, answered>>

Nothing == [op |-> "none"]

FpInit == rows = << >> /\ fpClock = 1 /\ reading = Nothing /\ answered = Nothing

----------------------------------------------------------------------------
(* Collection *)

\* no speed without tokens or for a response within a millisecond
CollectStatistical(data) ==
  [speed |-> IF data.latency > 0 /\ data.tokens > 0 THEN (1000 * data.tokens) \div data.latency ELSE 0,
   first |-> data.first]

\* the layer of token probabilities only if the provider sent any; the internal one only for Ollama
CollectLayers(data) ==
  [stat |-> CollectStatistical(data), probs |-> data.probs, semantic |-> data.semantic, internal |-> data.ollama]

\* and their hash, ComputeFingerprintHash, which tells any two apart
Collected == [d \in Collections |-> CollectLayers(d)]

----------------------------------------------------------------------------
(* Similarity *)

AbsDiff(a, b) == IF a < b THEN b - a ELSE a - b
Lesser(a, b) == IF a < b THEN a ELSE b
Greater(a, b) == IF a < b THEN b ELSE a

Ratio_NotInverted(a, b) == IF a > 0 /\ b > 0 THEN (1000 * a) \div b ELSE 0

\* a quotient above 1 is inverted
Ratio(a, b) == IF a > 0 /\ b > 0 THEN (1000 * Lesser(a, b)) \div Greater(a, b) ELSE 0

Nearness(a, b, width) == IF AbsDiff(a, b) < width THEN (1000 * (width - AbsDiff(a, b))) \div width ELSE 0

compareStatistical(a, b) == (Ratio(a.speed, b.speed) + Ratio(a.first, b.first)) \div 2

compareTokenProbs(a, b) == (Nearness(a.logprob, b.logprob, Unit) + Nearness(a.entropy, b.entropy, Unit)) \div 2

compareSemantic(a, b) ==
  (3 * ((1000 * (Unit - AbsDiff(a.diversity, b.diversity))) \div Unit)
    + 3 * Ratio(a.sentence, b.sentence) + 4 * Nearness(a.complexity, b.complexity, 20)) \div 10

\* weights 0.3, 0.3 and 0.4, of the layers that both have
CompareFingerprints(a, b) ==
  LET stat == 3 * compareStatistical(a.stat, b.stat)
      semantic == 4 * compareSemantic(a.semantic, b.semantic)
  IN  IF a.probs = NoProbs \/ b.probs = NoProbs THEN (stat + semantic) \div 7
      ELSE (stat + 3 * compareTokenProbs(a.probs, b.probs) + semantic) \div 10

\* one less the difference relative to the greater; 0/0 is not below 1, and so counts as 1
RelativeSimilarity(a, b) == IF Greater(a, b) = 0 THEN 0 ELSE 1000 - (1000 * AbsDiff(a, b)) \div Greater(a, b)

StatisticalDetail(a, b) == (RelativeSimilarity(a.speed, b.speed) + RelativeSimilarity(a.first, b.first)) \div 2

TokenProbDetail(a, b) ==
  IF a = NoProbs \/ b = NoProbs THEN 0
  ELSE (RelativeSimilarity(a.logprob, b.logprob) + RelativeSimilarity(a.entropy, b.entropy)) \div 2

SemanticDetail(a, b) ==
  ((1000 * (Unit - AbsDiff(a.diversity, b.diversity))) \div Unit
    + RelativeSimilarity(a.sentence, b.sentence) + (1000 - 10 * Lesser(AbsDiff(a.complexity, b.complexity), 100))) \div 3

getSimilarityConclusion(s) ==
  IF s >= 950 THEN "highly_similar" ELSE IF s >= 800 THEN "similar"
  ELSE IF s >= 600 THEN "moderately_similar" ELSE IF s >= 400 THEN "somewhat_different" ELSE "very_different"

----------------------------------------------------------------------------
(* The table *)

SaveFingerprint(tenant, trace, fp) ==
  /\ Len(rows) < MaxRows
  /\ rows' = Append(rows, [tenant |-> tenant, trace |-> trace, fp |-> fp, hash |-> fp, cert |-> "", at |-> fpClock])
  /\ UNCHANGED <<fpClock, reading, answered>>

OfTenant(tenant) == {i \in DOMAIN rows : rows[i].tenant = tenant}

\* ORDER BY created_at DESC LIMIT 1: any of the newest
GetByTraceID(tenant, trace) ==
  LET mine == {i \in OfTenant(tenant) : rows[i].trace = trace}
  IN  {i \in mine : \A j \in mine : rows[j].at <= rows[i].at}

\* the certificate goes to each row of the trace, whichever tenant's
UpdateCertID(trace, cert) ==
  /\ rows' = [i \in DOMAIN rows |-> IF rows[i].trace = trace THEN [rows[i] EXCEPT !.cert = cert] ELSE rows[i]]
  /\ UNCHANGED <<fpClock, reading, answered>>

NoHash == [none |-> TRUE]

\* the row's data against its hash, and its hash against the expected one, if any
Verify(i, expected) == rows[i].hash = rows[i].fp /\ expected \in {NoHash, rows[i].hash}

ClockTick == fpClock < FpClock /\ fpClock' = fpClock + 1 /\ UNCHANGED <<rows, reading, answered>>

Begin(request) == reading = Nothing /\ reading' = request /\ UNCHANGED <<rows, fpClock, answered>>

Finish(answer) == reading' = Nothing /\ answered' = answer /\ UNCHANGED <<rows, fpClock>>

(* Compare: a row for the first trace, then one for the second; 404 when   *)
(* either is missing.                                                      *)
BeginCompare(tenant, t1, t2) ==
  \E i \in GetByTraceID(tenant, t1) : Begin([op |-> "compare", at |-> i, tenant |-> tenant, second |-> t2])

Comparison(i, j) ==
  LET a == rows[i].fp
      b == rows[j].fp
  IN  [op |-> "compare", at |-> i, other |-> j, similarity |-> CompareFingerprints(a, b),
       conclusion |-> getSimilarityConclusion(CompareFingerprints(a, b)),
       details |-> <<StatisticalDetail(a.stat, b.stat), TokenProbDetail(a.probs, b.probs),
                     SemanticDetail(a.semantic, b.semantic)>>]

EndCompare ==
  /\ reading.op = "compare"
  /\ LET found == GetByTraceID(reading.tenant, reading.second)
     IN  IF found = {} THEN Finish(Nothing) ELSE \E j \in found : Finish(Comparison(reading.at, j))

(* GetFingerprint, and VerifyFingerprint with the hash it showed or none.  *)
GetFingerprint(tenant, trace) ==
  \E i \in GetByTraceID(tenant, trace) : Begin([op |-> "verify", at |-> i, tenant |-> tenant, trace |-> trace])

VerifyFingerprint ==
  /\ reading.op = "verify"
  /\ \E j \in GetByTraceID(reading.tenant, reading.trace), expected \in {NoHash, rows[reading.at].hash} :
       Finish([op |-> "verify", at |-> reading.at, other |-> j, valid |-> Verify(j, expected)])

RowCount(tenant) == Cardinality(OfTenant(tenant))

(* List: the count, then the page.                                         *)
ListCount(tenant, offset) ==
  Begin([op |-> "list", tenant |-> tenant, offset |-> offset, total |-> RowCount(tenant)])

ListPage ==
  /\ reading.op = "list"
  /\ Finish([op |-> "list", offset |-> reading.offset, total |-> reading.total,
             page |-> Greater(0, Lesser(PageLimit, Cardinality(OfTenant(reading.tenant)) - reading.offset))])

FpNext ==
  \/ ClockTick \/ EndCompare \/ VerifyFingerprint \/ ListPage
  \/ \E tenant \in FpTenants :
       \/ \E trace \in FpTraces, d \in Collections : SaveFingerprint(tenant, trace, Collected[d])
       \/ \E t1, t2 \in FpTraces : BeginCompare(tenant, t1, t2)
       \/ \E trace \in FpTraces : GetFingerprint(tenant, trace)
       \/ \E offset \in {0, PageLimit} : ListCount(tenant, offset)
  \/ \E trace \in FpTraces : UpdateCertID(trace, "cert")

FpSpec == FpInit /\ [][FpNext]_fpVars

----------------------------------------------------------------------------
(* Similarity of any two rows (collector.go:162-276): it does not depend   *)
(* on which comes first, is at most 1000, and no fingerprint is closer to  *)
(* a row than its own, whichever layers each has.                          *)
SimilarityIsSound ==
  \A i, j \in DOMAIN rows :
    LET s == CompareFingerprints(rows[i].fp, rows[j].fp) IN
    /\ s = CompareFingerprints(rows[j].fp, rows[i].fp)
    /\ s \in 0..1000
    /\ s <= CompareFingerprints(rows[i].fp, rows[i].fp)

(* The two reads of a request, with rows saved and certificates attached   *)
(* in between (fingerprints.go:206-214, 256, 325-345): a comparison is of  *)
(* two rows of one tenant; the hash that was shown for a trace is refuted  *)
(* only if the trace has another row, no older; and a page is never        *)
(* shorter than the total given with it promises.                          *)
ReadsAddUp ==
  /\ answered.op = "compare" => rows[answered.at].tenant = rows[answered.other].tenant
  /\ (answered.op = "verify" /\ ~answered.valid) =>
       /\ answered.other # answered.at
       /\ rows[answered.other].at >= rows[answered.at].at
  /\ answered.op = "list" => answered.page >= Lesser(PageLimit, answered.total - answered.offset)

(* The two together: what a client is told of two fingerprints is sound,  *)
(* and what it read twice fits together (fingerprints.go:205, 255).        *)
FingerprintsAddUp == SimilarityIsSound /\ ReadsAddUp
=============================================================================
