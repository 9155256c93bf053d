--------------------------- MODULE LiteLLMRoutes ---------------------------
(***************************************************************************)
(* What scripts/gen-litellm-config.sh writes into LiteLLM's config.yaml    *)
(* (deployments and router fallbacks) and what the concurrency_gate        *)
(* callback reads back from it (gate entries and picture models).          *)
(*                                                                         *)
(* A model name is a pair <<prefix, model>>: the prefix is the only part   *)
(* of a name the code looks at.  Prices, context lengths, timeouts and the *)
(* model_info fields shown by the picker are left out.                     *)
(***************************************************************************)
EXTENDS Integers, FiniteSets

CONSTANTS Models,      \* chat models the generator can register locally
          Pictures,    \* further names IMAGEGEN_BACKENDS may list
          Catalogue,   \* models served by OpenRouter only
          Nodes,       \* vLLM base URLs
          OpenRouter, ImageShim,   \* the two backends that are not vLLM
          DefaultCap   \* DEFAULT_CAPS, the same for a model's two aliases

ASSUME BackendsDiffer ==
  /\ OpenRouter \notin Nodes /\ ImageShim \notin Nodes
  /\ OpenRouter # ImageShim

ASSUME DefaultCapType == DefaultCap \in [Models -> Nat \ {0}]

Local(m)  == <<"local", m>>
Strict(m) == <<"strict", m>>
Slug(m)   == <<"slug", m>>      \* the OpenRouter name of the same model

HasPrefix(name, p) == name[1] = p

Names == {"local", "strict", "slug"} \X (Models \cup Pictures \cup Catalogue)

\* What the generator and the gate read: the VLLM_*_URL lists, the nodes whose
\* /v1/models lists the model, whether OPENROUTER_API_KEY is set, the names in
\* IMAGEGEN_BACKENDS, and CONCURRENCY_GATE_CAPS / CONCURRENCY_GATE_FORCE.
IsEnvironment(e) ==
  /\ e.csv \in [Models -> SUBSET Nodes]
  /\ e.serving \in [Models -> SUBSET Nodes]
  /\ e.openrouter \in BOOLEAN
  /\ e.images \in SUBSET (Models \cup Pictures)
  /\ DOMAIN e.caps \in SUBSET Names
  /\ \A name \in DOMAIN e.caps : e.caps[name] \in Int
  /\ e.force \in SUBSET Names

(*************************** the generated config **************************)

\* The URLs that serve the model, or the whole list when none answers yet.
ResolvedUrls(env, m) ==
  IF env.csv[m] \cap env.serving[m] # {}
  THEN env.csv[m] \cap env.serving[m]
  ELSE env.csv[m]

Deployment(name, via, strict) == [name |-> name, via |-> via, strict |-> strict]

Served(env) == {p \in Models \X Nodes : p[2] \in ResolvedUrls(env, p[1])}

\* emit_vllm_chat: each URL once as local/<m>, once as strict-local/<m>.
VllmChat(env) ==
  {Deployment(Local(p[1]), p[2], FALSE) : p \in Served(env)} \cup
  {Deployment(Strict(p[1]), p[2], TRUE) : p \in Served(env)}

\* The slug of a local model is registered either as the hidden twin
\* (emit_or_fallback) or as an ordinary route (emit_or_brain), never by both;
\* the rest of the catalogue needs the key as well.
Remote(env) ==
  {Deployment(Slug(m), OpenRouter, FALSE) :
     m \in IF env.openrouter THEN Models \cup Catalogue ELSE {}}

\* emit_local_images: one strict alias per listed name, behind the shim.
LocalImages(env) == {Deployment(Strict(p), ImageShim, TRUE) : p \in env.images}

Deployments(env) == VllmChat(env) \cup Remote(env) \cup LocalImages(env)

\* A bug: the strict alias falls back like the local one.
FallbackNamesOfBoth(env) ==
  UNION {{Local(m), Strict(m)} : m \in {x \in Models : env.csv[x] # {} /\ env.openrouter}}

\* fb_line: local/<m> falls back to its twin.
FallbackNames(env) ==
  {Local(m) : m \in {x \in Models : env.csv[x] # {} /\ env.openrouter}}

Fallbacks(env) == [name \in FallbackNames(env) |-> Slug(name[2])]

(************************ what the gate reads of it ************************)

\* A bug: a nonpositive cap for a strict alias is taken as it is.
OverridesAsGiven(env) == DOMAIN env.caps

\* A nonpositive cap for a strict alias is dropped.
Overrides(env) ==
  {name \in DOMAIN env.caps : ~(HasPrefix(name, "strict") /\ env.caps[name] <= 0)}

\* A positive cap for local/<m> also applies to strict-local/<m>, unless that
\* alias is named in CONCURRENCY_GATE_CAPS itself.
Mirrored(env) ==
  {name \in Names :
     /\ HasPrefix(name, "strict")
     /\ Local(name[2]) \in Overrides(env)
     /\ env.caps[Local(name[2])] > 0
     /\ name \notin DOMAIN env.caps}

DefaultNames == {Local(m) : m \in Models} \cup {Strict(m) : m \in Models}

Caps(env) ==
  [name \in DefaultNames \cup Overrides(env) \cup Mirrored(env) |->
     IF name \in Mirrored(env) THEN env.caps[Local(name[2])]
     ELSE IF name \in Overrides(env) THEN env.caps[name]
     ELSE DefaultCap[name[2]]]

\* The vLLM /metrics URLs of a name; other backends have none.
Metrics(env, name) ==
  {n \in Nodes : \E d \in Deployments(env) : d.name = name /\ d.via = n}

\* model_info.kchat_strict_local, read off the name's vLLM deployments.
MarkedStrict(env, name) ==
  \E d \in Deployments(env) : d.name = name /\ d.via \in Nodes /\ d.strict

GatedIn(env) ==
  {name \in DOMAIN Caps(env) :
     /\ Metrics(env, name) # {}
     /\ Caps(env)[name] > 0
     /\ MarkedStrict(env, name) \/ name \in DOMAIN Fallbacks(env)}

\* _load_gate_map: the metrics URLs, the cap and what saturation does; a strict
\* name is tried first, so it never gets a twin.
GateMap(env) ==
  [name \in GatedIn(env) |->
     [metrics |-> Metrics(env, name),
      cap     |-> Caps(env)[name],
      mode    |-> IF MarkedStrict(env, name) THEN "reject" ELSE "spill"]]

\* _load_shim_pictures: strict names that only the image shim serves.
ShimPictures(env) ==
  {name \in {d.name : d \in Deployments(env)} :
     /\ HasPrefix(name, "strict")
     /\ \A d \in Deployments(env) : d.name = name => d.via = ImageShim /\ d.strict
     /\ name \notin DOMAIN Fallbacks(env)}
=============================================================================
