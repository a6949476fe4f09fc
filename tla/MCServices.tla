----------------------------- MODULE MCServices -----------------------------
(* Five helpers of the server, which share nothing, in one run: the first *)
(* state decides which of them is at work.                                 *)
EXTENDS EventDAG, TwoLevelCache, RateLimiter, BatchProcessor, AutoCert

VARIABLE helper

(* Clocks that agree with the chain, that stand still, and one that is fast.*)
const_Clocks == {<<1, 2, 3>>, <<1, 1, 1>>, <<2, 1, 1>>}

const_ConfiguredModels == <<{"gpt-4"}, {"claude"}>>

const_Traces ==
  {[model |-> {"gpt", "gpt-4"}, tokens |-> 50, content |-> {}, industry |-> ""],
   [model |-> {"llama"}, tokens |-> 1500, content |-> {"contract"}, industry |-> "finance"]}

(* What is not at work starts in one state.                                *)
Init ==
  /\ helper \in {"dag", "cache", "limiter", "processor", "auto"}
  /\ DagInit /\ CacheInit /\ LimiterInit /\ ProcessorInit /\ AutoInit
  /\ helper # "dag" => hashed = [e \in Events |-> << >>] /\ time = <<1, 2, 3>>
  /\ helper # "cache" => \A u, w \in Users : home[u] = home[w]
  /\ helper # "auto" => ~strategy.enabled

Next ==
  \/ /\ helper = "dag" /\ DagNext
     /\ UNCHANGED <<helper, cacheVars, limiterVars, processorVars, autoVars>>
  \/ /\ helper = "cache" /\ CacheNext
     /\ UNCHANGED <<helper, dagVars, limiterVars, processorVars, autoVars>>
  \/ /\ helper = "limiter" /\ LimiterNext
     /\ UNCHANGED <<helper, dagVars, cacheVars, processorVars, autoVars>>
  \/ /\ helper = "processor" /\ ProcessorNext
     /\ UNCHANGED <<helper, dagVars, cacheVars, limiterVars, autoVars>>
  \/ /\ helper = "auto" /\ AutoNext
     /\ UNCHANGED <<helper, dagVars, cacheVars, limiterVars, processorVars>>

Spec ==
  /\ Init /\ [][Next]_<<helper, dagVars, cacheVars, limiterVars, processorVars, autoVars>>
  /\ DagFairness /\ CacheFairness /\ ProcessorFairness
=============================================================================
