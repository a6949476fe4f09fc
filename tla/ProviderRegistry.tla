-------------------------- MODULE ProviderRegistry --------------------------
(***************************************************************************)
(* The registry of LLM providers (gateway/provider.go): which provider is  *)
(* asked for a model, what it is sent and how its answer is translated.    *)
(*                                                                         *)
(* A model's name is a record: the word it begins with and the words it    *)
(* contains. A message is [role, text]; JSON and HTTP are left out.        *)
(***************************************************************************)
EXTENDS Integers, Sequences, FiniteSets, SequencesExt

CONSTANTS
  ModelNames,    \* set of [prefix: word, words: set of words]
  Dialogues,     \* set of sequences of [role, text]
  Upstreams,     \* set of [url, key] that callers bring along, "" for none
  MaxProviders   \* bound on calls of Register

VARIABLES
  providers,     \* ProviderRegistry.providers: a sequence of calls of Register, by number
  registered,    \* history: the provider of each call of Register
  exchange       \* the last request built, and the response translated from its answer

registryVars == <<providers, registered, exchange>>

NoExchange == [provider |-> "none"]

DefaultRegistry == <<"anthropic", "ollama", "deepseek", "openai">>

\* an empty registry, or the built-in providers in the order in which they are registered
RegistryInit ==
  /\ registered \in {<< >>, DefaultRegistry}
  /\ providers = [i \in DOMAIN registered |-> i]
  /\ exchange = NoExchange

----------------------------------------------------------------------------
(* The built-in providers *)

ProviderNames == {"anthropic", "ollama", "deepseek", "openai"}

OpenAIMatch(model) ==
  model.prefix \in {"gpt-", "o1-", "text-", "davinci", "curie", "babbage", "ada"}
ClaudeMatch(model) == "claude" \in model.words
DeepSeekMatch(model) == "deepseek" \in model.words
OllamaMatch(model) ==
  model.words \cap {"llama", "mistral", "qwen", "codellama", "phi", "gemma", "mixtral"} # {}

Match(p, model) ==
  \/ p = "openai" /\ OpenAIMatch(model)
  \/ p = "anthropic" /\ ClaudeMatch(model)
  \/ p = "deepseek" /\ DeepSeekMatch(model)
  \/ p = "ollama" /\ OllamaMatch(model)

Priority == [openai |-> 100, anthropic |-> 10, deepseek |-> 20, ollama |-> 15]

----------------------------------------------------------------------------
(* The registry *)

Swapped(list, i) == [list EXCEPT ![i] = list[i - 1], ![i - 1] = list[i]]

SortPass_EqualToo(list, name) ==
  LET OutOfOrder(l, i) == Priority[name[l[i]]] <= Priority[name[l[i - 1]]]
      pass[i \in 1..Len(list)] ==
        IF i = Len(list) THEN list
        ELSE LET after == pass[i + 1] IN IF OutOfOrder(after, i + 1) THEN Swapped(after, i + 1) ELSE after
  IN  pass[1]

\* one pass from the end, which swaps neighbours that are out of order
SortPass(list, name) ==
  LET OutOfOrder(l, i) == Priority[name[l[i]]] < Priority[name[l[i - 1]]]
      pass[i \in 1..Len(list)] ==
        IF i = Len(list) THEN list
        ELSE LET after == pass[i + 1] IN IF OutOfOrder(after, i + 1) THEN Swapped(after, i + 1) ELSE after
  IN  pass[1]

(* Register holds the lock for both the append and the pass; a provider    *)
(* may be registered again, say with another base URL.                     *)
Register(p) ==
  /\ Len(registered) < MaxProviders
  /\ registered' = Append(registered, p)
  /\ providers' = SortPass(Append(providers, Len(registered')), registered')
  /\ UNCHANGED exchange

ListProviders == [i \in DOMAIN providers |-> registered[providers[i]]]

\* the number of the call that registered the provider, 0 for nil
GetProvider(model) ==
  LET i == SelectInSeq(providers, LAMBDA n : Match(registered[n], model))
  IN  IF i = 0 THEN 0 ELSE providers[i]

----------------------------------------------------------------------------
(* Requests and responses *)

SystemPrompts(dialogue) == SelectSeq(dialogue, LAMBDA m : m.role = "system")

\* the last system message moves to a field of its own, the others are dropped
convertToClaudeRequest(dialogue) ==
  [messages |-> SelectSeq(dialogue, LAMBDA m : m.role # "system"),
   system |-> IF SystemPrompts(dialogue) = << >> THEN "" ELSE Last(SystemPrompts(dialogue)).text]

Unconverted(dialogue) == [messages |-> dialogue, system |-> ""]

BaseURL(own, upstream) == IF upstream.url # "" THEN upstream.url ELSE own

OpenAIRequest(dialogue, upstream) ==
  [url |-> BaseURL("openai", upstream), key |-> IF upstream.key # "" THEN upstream.key ELSE "own key",
   body |-> Unconverted(dialogue)]
ClaudeRequest(dialogue, upstream) ==
  [url |-> BaseURL("anthropic", upstream), key |-> upstream.key, body |-> convertToClaudeRequest(dialogue)]
DeepSeekRequest(dialogue, upstream) ==
  [url |-> BaseURL("deepseek", upstream), key |-> upstream.key, body |-> Unconverted(dialogue)]
\* neither the caller's base URL nor its key
OllamaRequest(dialogue, upstream) ==
  [url |-> "ollama", key |-> "", body |-> Unconverted(dialogue)]

BuildRequest(p, dialogue, upstream) ==
  CASE p = "openai" -> OpenAIRequest(dialogue, upstream)
    [] p = "anthropic" -> ClaudeRequest(dialogue, upstream)
    [] p = "deepseek" -> DeepSeekRequest(dialogue, upstream)
    [] p = "ollama" -> OllamaRequest(dialogue, upstream)

\* answers: the parts of the content and whether the provider reports the end
Answers == {[parts |-> <<"text">>, done |-> FALSE], [parts |-> <<"text", "tool", "text">>, done |-> TRUE]}

OpenAIResponse(answer) == [texts |-> Len(answer.parts), finish |-> IF answer.done THEN "stop" ELSE "length"]
\* the text parts are joined, the stop reason is passed on as it is
ClaudeResponse(answer) ==
  [texts |-> Len(SelectSeq(answer.parts, LAMBDA t : t = "text")),
   finish |-> IF answer.done THEN "end_turn" ELSE "max_tokens"]
OllamaResponse(answer) == [texts |-> Len(answer.parts), finish |-> IF answer.done THEN "stop" ELSE "length"]

ParseResponse(p, answer) ==
  CASE p = "anthropic" -> ClaudeResponse(answer)
    [] p = "ollama" -> OllamaResponse(answer)
    [] p \in {"openai", "deepseek"} -> OpenAIResponse(answer)

AskProvider(model, dialogue, upstream, answer) ==
  LET n == GetProvider(model) IN
  /\ n # 0
  /\ exchange' = [provider |-> registered[n],
                  request |-> BuildRequest(registered[n], dialogue, upstream),
                  response |-> ParseResponse(registered[n], answer)]
  /\ UNCHANGED <<providers, registered>>

RegistryNext ==
  \/ \E p \in ProviderNames : Register(p)
  \/ \E m \in ModelNames, d \in Dialogues, u \in Upstreams, a \in Answers : AskProvider(m, d, u, a)

RegistrySpec == RegistryInit /\ [][RegistryNext]_registryVars

----------------------------------------------------------------------------
Before(i, j) ==
  \/ Priority[registered[i]] < Priority[registered[j]]
  \/ Priority[registered[i]] = Priority[registered[j]] /\ i < j

(* The order of registration decides nothing but ties (provider.go:57): of *)
(* the providers that match a model, if any does, the one asked has the    *)
(* least priority and was registered first; each registration is listed    *)
(* once.                                                                   *)
RegistryIsOrdered ==
  /\ \A i, j \in DOMAIN providers : i < j => Before(providers[i], providers[j])
  /\ \A p \in ProviderNames :
       Cardinality({i \in DOMAIN ListProviders : ListProviders[i] = p}) =
         Cardinality({n \in DOMAIN registered : registered[n] = p})
  /\ \A m \in ModelNames :
       LET matching == {n \in DOMAIN registered : Match(registered[n], m)}
       IN  matching # {} =>
             GetProvider(m) = CHOOSE n \in matching : \A k \in matching \ {n} : Before(n, k)
=============================================================================
