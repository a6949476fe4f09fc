------------------------------ MODULE AutoCert ------------------------------
(***************************************************************************)
(* Automatic certification (cert/auto_strategy.go, evidence_level.go): the *)
(* strategy that the router builds from the configuration, its evaluation  *)
(* for a finished trace, and the replacement of a strategy meanwhile.      *)
(*                                                                         *)
(* A name or a pattern is the set of the words it contains, lower-cased,   *)
(* so that strings.Contains is \subseteq and "" is contained in every one. *)
(***************************************************************************)
EXTENDS Integers, Sequences, SequencesExt

CONSTANTS
  ConfiguredModels,  \* cfg.AutoCert.Models: a sequence of patterns
  ConfiguredLevel,   \* cfg.AutoCert.DefaultLevel, as written
  ConfiguredMin,     \* cfg.AutoCert.MinTokens
  Traces,            \* set of [model, tokens, content, industry]: TraceContext
  Goroutines         \* those that evaluate

VARIABLES
  strategy,      \* AutoCertEvaluator.strategy
  evaluating,    \* goroutine -> its evaluation under the read lock, NotEvaluating if none
  verdicts       \* goroutine -> the last result

autoVars == <<strategy, evaluating, verdicts>>

NotEvaluating == [next |-> 0]
NoTrigger == [shouldCert |-> FALSE]

----------------------------------------------------------------------------
(* Evidence levels *)

\* lower-cased and trimmed
ParseEvidenceLevel(s) ==
  CASE s \in {"internal", "audit", "basic", "l1"} -> "internal"
    [] s \in {"compliance", "regulatory", "standard", "l2"} -> "compliance"
    [] s \in {"legal", "court", "blockchain", "l3"} -> "legal"
    [] OTHER -> "internal"

LegacyCode(level) == CASE level = "compliance" -> "l2" [] level = "legal" -> "l3" [] OTHER -> "l1"

----------------------------------------------------------------------------
(* Strategies *)

Disabled == [enabled |-> FALSE, default |-> "internal", triggers |-> << >>]

Trigger(type, condition, level) == [type |-> type, condition |-> condition, level |-> level]

DefaultStrategy ==
  [enabled |-> FALSE, default |-> "internal",
   triggers |-> <<Trigger("model", <<{"gpt-4"}, {"claude-3-opus"}, {"deepseek-chat"}>>, "compliance"),
                  Trigger("token_count", 2000, "internal")>>]

\* off in the configuration is off by DefaultStrategy
RouterStrategy(on) ==
  IF ~on THEN DefaultStrategy
  ELSE LET level == ParseEvidenceLevel(ConfiguredLevel)
       IN  [enabled |-> TRUE, default |-> level,
            triggers |-> <<Trigger("model", ConfiguredModels, level),
                           Trigger("token_count", ConfiguredMin, "internal")>>]

ExampleStrategies ==
  {[enabled |-> TRUE, default |-> "internal", triggers |-> << >>],
   [enabled |-> TRUE, default |-> "compliance",
    triggers |-> <<Trigger("model", <<{"gpt"}, {"claude"}>>, "compliance"),
                   Trigger("token_count", 1000, "compliance")>>]}

\* the other kinds of trigger, and one that leaves its level to the strategy
RegulatedStrategy ==
  [enabled |-> TRUE, default |-> "legal",
   triggers |-> <<Trigger("industry", {"finance"}, ""), Trigger("content_pattern", <<{"contract"}>>, "compliance")>>]

AnyContained(name, patterns) == \E i \in DOMAIN patterns : patterns[i] \subseteq name

matchesTrigger(trace, t) ==
  \/ t.type = "model" /\ AnyContained(trace.model, t.condition)
  \/ t.type = "token_count" /\ trace.tokens >= t.condition
  \/ t.type = "industry" /\ trace.industry \in t.condition
  \/ t.type = "content_pattern" /\ AnyContained(trace.content, t.condition)

Fired(s, t) == [shouldCert |-> TRUE, level |-> IF t.level = "" THEN s.default ELSE t.level]

----------------------------------------------------------------------------
AutoInit ==
  /\ \E on \in BOOLEAN : strategy = RouterStrategy(on)
  /\ evaluating = [g \in Goroutines |-> NotEvaluating]
  /\ verdicts = [g \in Goroutines |-> NoTrigger]

\* the goroutine of chat.go, which sets neither content nor industry
BeginEvaluate(g, trace) ==
  /\ evaluating[g] = NotEvaluating
  /\ evaluating' = [evaluating EXCEPT ![g] = [next |-> 1, trace |-> trace, under |-> strategy]]
  /\ UNCHANGED <<strategy, verdicts>>

Verdict(g, v) ==
  /\ evaluating' = [evaluating EXCEPT ![g] = NotEvaluating]
  /\ verdicts' = [verdicts EXCEPT ![g] = [trace |-> evaluating[g].trace, result |-> v, under |-> evaluating[g].under]]
  /\ UNCHANGED strategy

\* one trigger at a time, under the read lock
EvaluateNext(g) ==
  LET e == evaluating[g] IN
  /\ e # NotEvaluating
  /\ IF ~strategy.enabled \/ e.next > Len(strategy.triggers) THEN Verdict(g, NoTrigger)
     ELSE IF matchesTrigger(e.trace, strategy.triggers[e.next])
          THEN Verdict(g, Fired(strategy, strategy.triggers[e.next]))
          ELSE /\ evaluating' = [evaluating EXCEPT ![g].next = @ + 1]
               /\ UNCHANGED <<strategy, verdicts>>

WriteLock_None == TRUE

WriteLock == \A g \in Goroutines : evaluating[g] = NotEvaluating

UpdateStrategy(s) ==
  /\ WriteLock
  /\ strategy' = s
  /\ UNCHANGED <<evaluating, verdicts>>

AutoNext ==
  \/ \E g \in Goroutines : EvaluateNext(g) \/ \E t \in Traces : BeginEvaluate(g, t)
  \/ \E s \in ExampleStrategies \cup {RegulatedStrategy, Disabled} : UpdateStrategy(s)

AutoSpec == AutoInit /\ [][AutoNext]_autoVars

----------------------------------------------------------------------------
FirstFired(s, trace) ==
  LET i == SelectInSeq(s.triggers, LAMBDA t : matchesTrigger(trace, t))
  IN  IF ~s.enabled \/ i = 0 THEN NoTrigger ELSE Fired(s, s.triggers[i])

(* A strategy replaced while a trace is evaluated (auto_strategy.go:147,   *)
(* 222): the verdict is that of one strategy, the one in force when the    *)
(* evaluation took its lock, whose first matching trigger sets the level;  *)
(* and a level survives its legacy code.                                   *)
VerdictOfOneStrategy ==
  \A g \in Goroutines :
    verdicts[g] = NoTrigger \/
    /\ verdicts[g].result = FirstFired(verdicts[g].under, verdicts[g].trace)
    /\ verdicts[g].result # NoTrigger =>
         ParseEvidenceLevel(LegacyCode(verdicts[g].result.level)) = verdicts[g].result.level
=============================================================================
