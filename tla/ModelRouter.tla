------------------------------ MODULE ModelRouter ------------------------------
(***************************************************************************)
(* How a run gets its model (agent/classifier.py, agent/router.py over the *)
(* table of providers/models.py): the task's keywords give a tier and the  *)
(* capabilities it needs, the cascade picks a model, and the transport and *)
(* the API key are resolved for it, each by a function of its own.  Text   *)
(* is abstracted to the trigger lists and capabilities it matches, the     *)
(* environment to the switches and keys that are set.                      *)
(***************************************************************************)
EXTENDS Naturals, Sequences, FiniteSets

RouteTiers == {"free", "standard", "premium"}

(***************************************************************************)
(* The registry.  Prices are cents per million tokens, in plus out.        *)
(***************************************************************************)
Spec4(provider, price, ram, capabilities) ==
  [provider |-> provider, price |-> price, ram |-> ram, caps |-> capabilities]

FreeModels == [
  QWEN3_CODER_FREE |-> Spec4("QWEN", 0, 0, {"code", "tools", "long"}),
  DEEPSEEK_R1_FREE |-> Spec4("DEEPSEEK", 0, 0, {"reason", "math", "code"}),
  GLM_45_AIR_FREE |-> Spec4("GLM", 0, 0, {"tools", "creative"})]

StandardModels == [
  DEEPSEEK_V3_2 |-> Spec4("DEEPSEEK", 63, 0, {"code", "reason", "tools", "agentic"}),
  QWEN3_235B |-> Spec4("QWEN", 53, 0, {"code", "reason", "tools", "long"}),
  QWEN3_30B |-> Spec4("QWEN", 28, 0, {"code", "tools"}),
  GLM_47 |-> Spec4("GLM", 125, 0, {"code", "tools", "agentic"})]

PremiumModels == [
  DEEPSEEK_R1 |-> Spec4("DEEPSEEK", 215, 0, {"reason", "math", "code", "agentic"}),
  QWEN3_CODER |-> Spec4("QWEN", 117, 0, {"code", "tools", "long", "agentic"}),
  GLM_5 |-> Spec4("GLM", 420, 0, {"code", "reason", "tools", "agentic", "creative"}),
  KIMI_K2 |-> Spec4("MOONSHOT", 229, 0, {"code", "reason", "tools", "agentic"})]

WesternModels == [
  CLAUDE_SONNET_5 |-> Spec4("ANTHROPIC", 1200, 0, {"code", "reason", "tools", "agentic", "long", "multi"}),
  GPT_5_6_SOL |-> Spec4("OPENAI", 3500, 0, {"code", "reason", "tools", "agentic", "long", "multi", "math"}),
  GEMINI_3_5_FLASH |-> Spec4("GOOGLE", 1050, 0, {"code", "reason", "tools", "long", "multi"}),
  GPT_5_6_LUNA |-> Spec4("OPENAI", 700, 0, {"code", "tools", "agentic", "long"}),
  CLAUDE_HAIKU_4_5 |-> Spec4("ANTHROPIC", 600, 0, {"code", "tools", "agentic"})]

LocalModels == [
  QWEN3_30B_LOCAL |-> Spec4("OLLAMA", 0, 24, {"code", "tools"}),
  GLM_4_9B_LOCAL |-> Spec4("OLLAMA", 0, 8, {"tools", "creative"}),
  QWEN2_5_7B_LOCAL |-> Spec4("OLLAMA", 0, 8, {"tools", "agentic"}),
  QWEN2_5_14B_LOCAL |-> Spec4("OLLAMA", 0, 16, {"tools", "agentic"}),
  QWEN2_5_32B_LOCAL |-> Spec4("OLLAMA", 0, 24, {"tools", "agentic"}),
  DEEPSEEK_R1_14B_LOCAL |-> Spec4("OLLAMA", 0, 16, {"reason", "tools"})]

Chinese == DOMAIN FreeModels \cup DOMAIN StandardModels \cup DOMAIN PremiumModels

Models ==
  [m \in Chinese \cup DOMAIN WesternModels \cup DOMAIN LocalModels |->
     CASE m \in DOMAIN FreeModels -> FreeModels[m]
       [] m \in DOMAIN StandardModels -> StandardModels[m]
       [] m \in DOMAIN PremiumModels -> PremiumModels[m]
       [] m \in DOMAIN WesternModels -> WesternModels[m]
       [] m \in DOMAIN LocalModels -> LocalModels[m]]

Western == {"ANTHROPIC", "OPENAI", "GOOGLE"}

\* Mutated form of ModelsByTier: the western models come first.
ModelsByTierWesternFirst(tier) ==
  CASE tier = "free" -> <<"QWEN3_CODER_FREE", "DEEPSEEK_R1_FREE", "GLM_45_AIR_FREE">>
    [] tier = "standard" ->
         <<"CLAUDE_HAIKU_4_5", "GEMINI_3_5_FLASH", "GPT_5_6_LUNA", "DEEPSEEK_V3_2",
           "QWEN3_235B", "QWEN3_30B", "GLM_47">>
    [] tier = "premium" ->
         <<"CLAUDE_SONNET_5", "GPT_5_6_SOL", "DEEPSEEK_R1", "QWEN3_CODER", "GLM_5",
           "KIMI_K2">>

ModelsByTier(tier) ==
  CASE tier = "free" ->
         <<"QWEN3_CODER_FREE", "DEEPSEEK_R1_FREE", "GLM_45_AIR_FREE", "QWEN3_30B_LOCAL",
           "GLM_4_9B_LOCAL", "QWEN2_5_7B_LOCAL", "QWEN2_5_14B_LOCAL",
           "QWEN2_5_32B_LOCAL", "DEEPSEEK_R1_14B_LOCAL">>
    [] tier = "standard" ->
         <<"DEEPSEEK_V3_2", "QWEN3_235B", "QWEN3_30B", "GLM_47",
           "CLAUDE_HAIKU_4_5", "GEMINI_3_5_FLASH", "GPT_5_6_LUNA">>
    [] tier = "premium" ->
         <<"DEEPSEEK_R1", "QWEN3_CODER", "GLM_5", "KIMI_K2",
           "CLAUDE_SONNET_5", "GPT_5_6_SOL">>

DefaultRouting(tier) ==
  CASE tier = "free" ->
         <<"QWEN3_CODER_FREE", "DEEPSEEK_R1_FREE", "GLM_45_AIR_FREE",
           "QWEN3_30B_LOCAL", "GLM_4_9B_LOCAL">>
    [] tier = "standard" ->
         <<"DEEPSEEK_V3_2", "QWEN3_235B", "GLM_47", "QWEN3_30B",
           "CLAUDE_HAIKU_4_5", "GEMINI_3_5_FLASH", "GPT_5_6_LUNA">>
    [] tier = "premium" ->
         <<"DEEPSEEK_R1", "QWEN3_CODER", "GLM_5", "KIMI_K2",
           "CLAUDE_SONNET_5", "GPT_5_6_SOL">>

\* The vendors' own names; two models may be one model there.
DirectModelNames == [
  DEEPSEEK_V3_2 |-> "deepseek-v4-flash", DEEPSEEK_R1 |-> "deepseek-v4-pro",
  DEEPSEEK_R1_FREE |-> "deepseek-v4-flash", QWEN3_235B |-> "qwen-plus",
  QWEN3_30B |-> "qwen-turbo", QWEN3_CODER |-> "qwen3-coder-plus",
  QWEN3_CODER_FREE |-> "qwen3-coder-plus", GLM_47 |-> "glm-4.7",
  GLM_5 |-> "glm-5", GLM_45_AIR_FREE |-> "glm-4.5-air"]

\* The models with a silkroute-* alias in litellm_config.yaml.
ProxyModels == Chinese

DirectProviders == {"DEEPSEEK", "QWEN", "GLM"}
KeyedProviders == DirectProviders \cup {"MOONSHOT"}

(***************************************************************************)
(* classify_task.                                                          *)
(***************************************************************************)
\* The capabilities its keywords can name, and those of a task with none.
KeywordCapabilities == {"code", "reason", "tools", "agentic", "math", "creative"}
DetectedCapabilities(found) == IF found = {} THEN {"code", "tools"} ELSE found

\* The trigger lists a task matches give its tier: free before standard.
ClassifiedTier(triggers) ==
  CASE "premium" \in triggers -> "premium"
    [] "premium" \notin triggers /\ "free" \in triggers -> "free"
    [] OTHER -> "standard"

(***************************************************************************)
(* select_model.  RAM budgets: none given, or that of a hardware profile.  *)
(***************************************************************************)
NoModel == "NO_MODEL"
NoProfile == "NO_PROFILE"
ProfileRam == [RASPBERRY_PI |-> 0, HETZNER_VPS |-> 0, CUSTOM |-> 0,
               MAC_MINI |-> 16, MAC_STUDIO |-> 64, NVIDIA_SPARK |-> 128]

\* One point per capability, half a point more for agentic (in halves).
ScoreModel(m, required) ==
  2 * Cardinality(required \cap Models[m].caps)
    + Cardinality(required \cap Models[m].caps \cap {"agentic"})

\* Python's max over the places of a list: the first of the best.
FirstBest(places, rank) ==
  CHOOSE i \in places :
    \A j \in places : rank[j] <= rank[i] /\ (j < i => rank[j] < rank[i])

FitsRam(m, ram) == Models[m].provider = "OLLAMA" /\ Models[m].ram \in 1..ram

\* The biggest local model that fits, a capability score breaking ties.
BestLocalModel(ram) ==
  LET pool == ModelsByTier("free")
      fitting == {i \in DOMAIN pool : FitsRam(pool[i], ram)}
      rank == [i \in fitting |-> 100 * Models[pool[i]].ram
                                   + ScoreModel(pool[i], {"tools", "agentic"})]
  IN IF fitting = {} THEN NoModel ELSE pool[FirstBest(fitting, rank)]

\* Mutated form of LocalPick: premium work may stay on the box.
LocalPickAnyTier(ask) ==
  IF ask.profile # NoProfile /\ ask.ollama THEN BestLocalModel(ProfileRam[ask.profile])
  ELSE NoModel

LocalPick(ask) ==
  IF ask.profile # NoProfile /\ ask.tier # "premium" /\ ask.ollama
  THEN BestLocalModel(ProfileRam[ask.profile])
  ELSE NoModel

CloudPlaces(list) == {i \in DOMAIN list : Models[list[i]].provider # "OLLAMA"}

\* With nothing required every model scores 0: the first of the chain is taken.
CloudPick(ask) ==
  LET list == IF ask.caps # {} THEN ModelsByTier(ask.tier) ELSE DefaultRouting(ask.tier)
      rank == [i \in CloudPlaces(list) |-> ScoreModel(list[i], ask.caps)]
  IN list[FirstBest(CloudPlaces(list), rank)]

SelectModel(ask) ==
  IF ask.override # NoModel THEN ask.override
  ELSE IF LocalPick(ask) # NoModel THEN LocalPick(ask) ELSE CloudPick(ask)

(***************************************************************************)
(* get_litellm_model_string, resolve_api_base and resolve_api_key: three   *)
(* functions of the model and the environment.                             *)
(***************************************************************************)
HasDirect(m, env) ==
  /\ Models[m].provider \in env.keys \cap DirectProviders
  /\ m \in DOMAIN DirectModelNames

Transport(m, env) ==
  CASE env.proxy /\ m \in ProxyModels -> "proxy"
    [] ~(env.proxy /\ m \in ProxyModels) /\ Models[m].provider = "OLLAMA" -> "ollama"
    [] ~(env.proxy /\ m \in ProxyModels) /\ HasDirect(m, env) -> Models[m].provider
    [] OTHER -> "OPENROUTER"

ApiBase(m) == IF Models[m].provider = "OLLAMA" THEN "ollama" ELSE "default"

\* Mutated form of ApiKey: a key that is set is used, native name or not.
ApiKeyOfProvider(m, env) ==
  CASE env.proxy \/ Models[m].provider = "OLLAMA" -> "none"
    [] ~env.proxy /\ Models[m].provider \in env.keys -> Models[m].provider
    [] OTHER -> "OPENROUTER"

ApiKey(m, env) ==
  CASE env.proxy \/ Models[m].provider = "OLLAMA" -> "none"
    [] ~env.proxy /\ HasDirect(m, env) -> Models[m].provider
    [] OTHER -> "OPENROUTER"

(***************************************************************************)
(* A run: classify, select, resolve.                                       *)
(***************************************************************************)
VARIABLES
  routeAsk,    \* what select_model is asked
  routeModel,  \* the model it returned
  routeSent    \* the environment, transport, base and key of the calls

routeVars == <<routeAsk, routeModel, routeSent>>

Nothing == <<>>

RouteInit == routeAsk = Nothing /\ routeModel = NoModel /\ routeSent = Nothing

RouteChosen == routeAsk # Nothing /\ routeModel # NoModel

\* A tier_override only names a tier that a task could have, too; callers other
\* than run_agent may pass no capabilities.  An override is looked at first.
RouteTask ==
  /\ routeAsk = Nothing
  /\ routeModel = NoModel
  /\ \E triggers \in SUBSET RouteTiers, found \in SUBSET KeywordCapabilities :
       \E tier \in {ClassifiedTier(triggers)}, caps \in {DetectedCapabilities(found), {}} :
          \/ \E profile \in {NoProfile} \cup DOMAIN ProfileRam, ollama \in BOOLEAN :
               routeAsk' = [tier |-> tier, caps |-> caps, profile |-> profile,
                            ollama |-> ollama, override |-> NoModel]
          \/ \E m \in DOMAIN Models :
               routeAsk' = [tier |-> tier, caps |-> {}, profile |-> NoProfile,
                            ollama |-> FALSE, override |-> m]
  /\ UNCHANGED <<routeModel, routeSent>>

RouteSelect ==
  /\ routeAsk # Nothing
  /\ routeModel = NoModel
  /\ routeModel' = SelectModel(routeAsk)
  /\ UNCHANGED <<routeAsk, routeSent>>

\* Nothing of the request is read after the model is chosen.
RouteResolve ==
  /\ RouteChosen
  /\ \E proxy \in BOOLEAN, keys \in SUBSET KeyedProviders :
       LET env == [proxy |-> proxy, keys |-> keys] IN
       routeSent' = [env |-> env, via |-> Transport(routeModel, env),
                     base |-> ApiBase(routeModel), key |-> ApiKey(routeModel, env)]
  /\ routeAsk' = Nothing
  /\ UNCHANGED routeModel

RouteNext == RouteTask \/ RouteSelect \/ RouteResolve

RouteSpec == RouteInit /\ [][RouteNext]_routeVars

(***************************************************************************)
(* What routing promises.                                                  *)
(***************************************************************************)
\* "Listed after Chinese to keep local-first posture" (providers/models.py): a
\* western model is picked by the cascade only if it scores above every other
\* model of the tier.
RouteWesternLast ==
  RouteChosen /\ routeAsk.override = NoModel /\ Models[routeModel].provider \in Western
    => \A m \in DOMAIN Models :
         (\E i \in DOMAIN ModelsByTier(routeAsk.tier) : ModelsByTier(routeAsk.tier)[i] = m)
           /\ Models[m].provider \notin Western
           => ScoreModel(m, routeAsk.caps) < ScoreModel(routeModel, routeAsk.caps)

\* Local or the tier asked for (select_model's docstring): a local model is one
\* that Ollama runs and the box holds, and no bigger one would fit; premium
\* work goes to the cloud; a model from the cloud is of the tier asked for.
RouteServesTier ==
  RouteChosen /\ routeAsk.override = NoModel =>
    IF Models[routeModel].provider = "OLLAMA"
    THEN /\ routeAsk.ollama
         /\ routeAsk.tier # "premium"
         /\ Models[routeModel].ram <= ProfileRam[routeAsk.profile]
         /\ \A m \in DOMAIN LocalModels :
              Models[m].ram <= ProfileRam[routeAsk.profile]
                => Models[m].ram <= Models[routeModel].ram
    ELSE \E i \in DOMAIN ModelsByTier(routeAsk.tier) :
           ModelsByTier(routeAsk.tier)[i] = routeModel

\* The credentials a transport takes.
KeyOf(via) == IF via \in {"proxy", "ollama"} THEN "none" ELSE via

\* resolve_api_key "mirrors get_litellm_model_string's routing decision so the
\* key matches the transport actually used": it does wherever the proxy is off or
\* knows the model (for one it does not know, the proxy's flag leaves a direct
\* call without its key); and the base is Ollama's exactly when the transport is.
RouteKeyFits == routeSent # Nothing =>
  /\ ~routeSent.env.proxy \/ routeModel \in ProxyModels \cup DOMAIN LocalModels
       => routeSent.key = KeyOf(routeSent.via)
  /\ routeSent.base = "ollama" <=> routeSent.via = "ollama"

\* Routing's promise: the posture, the tier and the credentials.
RouteSound == RouteWesternLast /\ RouteServesTier /\ RouteKeyFits
================================================================================
