------------------------------- MODULE MCPeers -------------------------------
(* What other parties ask of a server, in one run: the nodes of its        *)
(* federation, a client that lists or reports what it has stored, an       *)
(* auditor of its certificates, a reader of its fingerprints, a caller of  *)
(* the providers it knows, a prober of its health, and the Merkle tree that*)
(* its proofs come from.                                                   *)
EXTENDS Federation, CertificateDesk, Fingerprints, ProviderRegistry, HealthProbe, IncrementalTree

VARIABLE peer

(* A streamed answer of a remote model and an instant one of a local model.*)
const_Collections ==
  {[latency |-> 2000, tokens |-> 10, first |-> 300, probs |-> [logprob |-> 1, entropy |-> 0],
    semantic |-> [diversity |-> 2, sentence |-> 7, complexity |-> 40], ollama |-> FALSE],
   [latency |-> 0, tokens |-> 10, first |-> 0, probs |-> NoProbs,
    semantic |-> [diversity |-> 3, sentence |-> 9, complexity |-> 55], ollama |-> TRUE]}

(* A model of each built-in provider, one of two of them and one of none.  *)
const_ModelNames ==
  {[prefix |-> "gpt-", words |-> {"gpt"}], [prefix |-> "gpt-", words |-> {"deepseek"}],
   [prefix |-> "claude-", words |-> {"claude"}], [prefix |-> "deepseek-", words |-> {"deepseek", "llama"}],
   [prefix |-> "own", words |-> {}]}

const_Dialogues ==
  {<<[role |-> "user", text |-> "a"]>>,
   <<[role |-> "system", text |-> "s"], [role |-> "system", text |-> "t"], [role |-> "user", text |-> "a"]>>}

(* The second and the third row of a table have one time; a list of two    *)
(* events and one that names an event twice.                               *)
const_TimeOf == <<1, 2, 2>>

const_Batches == {<<1, 2>>, <<2, 2>>}

const_LeafValues == {<<1>>, <<2>>}

const_Upstreams == {[url |-> "", key |-> ""], [url |-> "proxy", key |-> "theirs"]}

Init ==
  /\ peer \in {"node", "client", "auditor", "reader", "caller", "prober", "tree"}
  /\ FederationInit /\ DeskInit /\ FpInit /\ RegistryInit /\ HealthInit /\ TreeInit
  /\ peer # "caller" => registered = << >>
  /\ peer # "prober" => \A n \in Names : dependency[n] = "up"

Next ==
  \/ peer = "node" /\ FederationNext /\ UNCHANGED <<peer, deskVars, fpVars, registryVars, healthVars, treeVars>>
  \/ peer = "client" /\ UNCHANGED <<peer, damage, federationVars, fpVars, registryVars, healthVars, treeVars>> /\ DeskNext
  \/ peer = "auditor" /\ UNCHANGED <<peer, client, federationVars, fpVars, registryVars, healthVars, treeVars>> /\ DeskNext
  \/ peer = "reader" /\ FpNext /\ UNCHANGED <<peer, deskVars, federationVars, registryVars, healthVars, treeVars>>
  \/ peer = "caller" /\ RegistryNext /\ UNCHANGED <<peer, deskVars, federationVars, fpVars, healthVars, treeVars>>
  \/ peer = "prober" /\ HealthNext /\ UNCHANGED <<peer, deskVars, federationVars, fpVars, registryVars, treeVars>>
  \/ peer = "tree" /\ TreeNext /\ UNCHANGED <<peer, deskVars, federationVars, fpVars, registryVars, healthVars>>

Spec ==
  /\ Init /\ [][Next]_<<peer, deskVars, federationVars, fpVars, registryVars, healthVars, treeVars>>
  /\ FederationFairness
=============================================================================
