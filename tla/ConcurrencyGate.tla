-------------------------- MODULE ConcurrencyGate --------------------------
(***************************************************************************)
(* services/litellm/callbacks/concurrency_gate.py: a daemon thread polls   *)
(* the vLLM nodes and writes two dictionaries; LiteLLM's event loop reads  *)
(* them in the pre-call hook of every request.  Nothing locks the two      *)
(* dictionaries, so the thread's two assignments and the hook's two reads  *)
(* interleave.  Around the hook stands LiteLLM's router (external): it     *)
(* picks a deployment by name and, once that has failed, the fallback.     *)
(*                                                                         *)
(* Time is discrete.  Ages saturate at AgeCap, which is past every         *)
(* threshold they are compared with.                                       *)
(***************************************************************************)
EXTENDS LiteLLMRoutes

CONSTANTS Requests,
          Environments,    \* the environments LiteLLM may be started in
          POLL_TTL, SCRAPE_TIMEOUT,
          ScrapeDelay,     \* the longest a poll's scraping takes in all
          MaxRunning,      \* bounds on a sampled vllm:num_requests_running
          MaxWaiting       \* and vllm:num_requests_waiting

ASSUME EnvironmentsType == \A e \in Environments : IsEnvironment(e)

ASSUME TimesType ==
  /\ POLL_TTL \in Nat /\ SCRAPE_TIMEOUT \in Nat
  /\ ScrapeDelay \in Nat /\ MaxRunning \in Nat /\ MaxWaiting \in Nat

Larger(a, b) == IF a >= b THEN a ELSE b

STRICT_STATE_TTL == Larger(3 * POLL_TTL, POLL_TTL + 2 * SCRAPE_TIMEOUT)

AgeCap == STRICT_STATE_TTL + ScrapeDelay + 1

Older(age) == IF age < AgeCap THEN age + 1 ELSE AgeCap

Pending == [run |-> -1, wait |-> 0]     \* not scraped yet in this poll
Failed  == [run |-> -2, wait |-> 0]     \* the scrape raised
Readings == [run : 0..MaxRunning, wait : 0..MaxWaiting]
Samples == Readings \cup {Pending, Failed}

None == <<"none", "none">>              \* no model name
ASSUME NoneIsNoBackend == None \notin Nodes \cup {OpenRouter, ImageShim}

Malformed == <<"malformed", "none">>    \* a "model" that is no string

VARIABLES
  env,         \* what this LiteLLM process was started with
  gate,        \* self.gate, read from the config at start
  saturated,   \* self._saturated
  age,         \* time since self._last_success, per gated name
  phase,       \* what the poll thread is doing
  elapsed,     \* time since it slept, or since it began to scrape
  sample,      \* samples_by_url of the current poll
  taken,       \* the age of each of those samples
  todo,        \* gated names this poll has not written yet
  stamped,     \* the name whose _last_success is written and flag is not
  req,         \* the requests in flight
  evidence,    \* history: evidence[name][n] is the age of the sample that
               \* showed n with room when the flag of a strict
               \* name was last written
  overload     \* history: that write saw a node at its cap or queueing

pollVars == <<phase, elapsed, sample, taken, todo, stamped>>
stateVars == <<saturated, age, evidence, overload>>
fixedVars == <<env, gate>>
vars == <<fixedVars, stateVars, pollVars, req>>

Gated == DOMAIN gate

Mode(name) == gate[name].mode

IdleRequest == [at |-> "idle", model |-> None, asked |-> None, meta |-> FALSE,
                stale |-> FALSE, via |-> None]

\* A bug: only the strict names get a flag.
InitialFlagsOfStrict(e) ==
  [name \in {x \in GatedIn(e) : GateMap(e)[x].mode = "reject"} |-> TRUE]

InitialFlags(e) == [name \in GatedIn(e) |-> GateMap(e)[name].mode = "reject"]

(***************************************************************************)
(* The process starts: strict names are saturated until a poll succeeds,   *)
(* _last_success is 0.0, and nothing of the previous process survives.     *)
(***************************************************************************)
StartIn(e) ==
  /\ env = e /\ gate = GateMap(e)
  /\ saturated = InitialFlags(e)
  /\ age = [name \in GatedIn(e) |-> AgeCap]
  /\ evidence = [name \in GatedIn(e) |-> [n \in Nodes |-> AgeCap]]
  /\ overload = [name \in GatedIn(e) |-> FALSE]
  /\ phase = "sleeping" /\ elapsed = POLL_TTL
  /\ sample = [n \in Nodes |-> Pending] /\ taken = [n \in Nodes |-> 0]
  /\ todo = {} /\ stamped = None
  /\ req = [r \in Requests |-> IdleRequest]

Init == \E e \in Environments : StartIn(e)

\* setup.sh regenerated the config and recreated the container.
Restart(e) ==
  /\ env' = e /\ gate' = GateMap(e)
  /\ saturated' = InitialFlags(e)
  /\ age' = [name \in GatedIn(e) |-> AgeCap]
  /\ evidence' = [name \in GatedIn(e) |-> [n \in Nodes |-> AgeCap]]
  /\ overload' = [name \in GatedIn(e) |-> FALSE]
  /\ phase' = "sleeping" /\ elapsed' = POLL_TTL
  /\ sample' = [n \in Nodes |-> Pending] /\ taken' = [n \in Nodes |-> 0]
  /\ todo' = {} /\ stamped' = None
  /\ req' = [r \in Requests |-> IdleRequest]

(***************************** the poll thread *****************************)

Urls == UNION {gate[name].metrics : name \in Gated}

\* time.sleep(POLL_TTL) lasts at least that long; it may last longer.  Without
\* a gated name the thread is never started.
Wake ==
  /\ phase = "sleeping" /\ elapsed = POLL_TTL
  /\ Gated # {}
  /\ phase' = "scraping" /\ elapsed' = 0
  /\ UNCHANGED <<fixedVars, stateVars, sample, taken, todo, stamped, req>>

\* One worker of the pool: a reading, or any exception (no answer, a status,
\* missing or non-finite metrics).  All URLs are scraped in parallel.
Scrape(n) ==
  /\ phase = "scraping" /\ n \in Urls /\ sample[n] = Pending
  /\ \E s \in Readings \cup {Failed} : sample' = [sample EXCEPT ![n] = s]
  /\ taken' = [taken EXCEPT ![n] = 0]
  /\ UNCHANGED <<fixedVars, stateVars, phase, elapsed, todo, stamped, req>>

Gathered ==
  /\ phase = "scraping"
  /\ \A n \in Urls : sample[n] # Pending
  /\ phase' = "recording" /\ todo' = Gated
  /\ UNCHANGED <<fixedVars, stateVars, elapsed, sample, taken, stamped, req>>

Observable(name) == \A n \in gate[name].metrics : sample[n] # Failed

Busy(name, n) == sample[n].run >= gate[name].cap \/ sample[n].wait > 0

\* A bug: a saturated flag is never cleared again.
AnyBusyLatched(name) ==
  saturated[name] \/ \E n \in gate[name].metrics : Busy(name, n)

AnyBusy(name) == \E n \in gate[name].metrics : Busy(name, n)

\* self._last_success[model] = time.monotonic()
Stamp(name) ==
  /\ phase = "recording" /\ name \in todo /\ stamped = None
  /\ Observable(name)
  /\ age' = [age EXCEPT ![name] = 0]
  /\ stamped' = name
  /\ UNCHANGED <<fixedVars, saturated, evidence, overload, phase, elapsed, sample,
                 taken, todo, req>>

\* self._saturated[model] = sat
SetFlag(name) ==
  /\ stamped = name /\ name \in todo
  /\ saturated' = [saturated EXCEPT ![name] = AnyBusy(name)]
  /\ overload' = [overload EXCEPT ![name] = AnyBusy(name)]
  /\ evidence' = [evidence EXCEPT ![name] =
       [n \in Nodes |-> IF /\ Mode(name) = "reject"
                           /\ n \in gate[name].metrics /\ ~Busy(name, n)
                        THEN taken[n] ELSE AgeCap]]
  /\ stamped' = None /\ todo' = todo \ {name}
  /\ UNCHANGED <<fixedVars, age, phase, elapsed, sample, taken, req>>

\* A bug: unknown capacity spills normal requests too.
UnknownIsSaturated(name) == TRUE

FlagWhenUnknown(name) == Mode(name) = "reject"

\* The except branch: unobservable capacity rejects strict, keeps normal local.
RecordUnknown(name) ==
  /\ phase = "recording" /\ name \in todo /\ stamped = None
  /\ ~Observable(name)
  /\ saturated' = [saturated EXCEPT ![name] = FlagWhenUnknown(name)]
  /\ overload' = [overload EXCEPT ![name] = FALSE]
  /\ evidence' = [evidence EXCEPT ![name] = [n \in Nodes |-> AgeCap]]
  /\ todo' = todo \ {name}
  /\ UNCHANGED <<fixedVars, age, phase, elapsed, sample, taken, stamped, req>>

EndPoll ==
  /\ phase = "recording" /\ todo = {}
  /\ phase' = "sleeping" /\ elapsed' = 0
  /\ sample' = [n \in Nodes |-> Pending] /\ taken' = [n \in Nodes |-> 0]
  /\ UNCHANGED <<fixedVars, stateVars, todo, stamped, req>>

\* Time passes while the thread sleeps or waits for its scrapes, not between
\* two assignments or two reads that follow each other in the code.
Tick ==
  /\ \A r \in Requests : req[r].at # "deciding"
  /\ \/ phase = "sleeping" /\ elapsed' = (IF elapsed < POLL_TTL THEN elapsed + 1 ELSE elapsed)
     \/ phase = "scraping" /\ elapsed < ScrapeDelay /\ elapsed' = elapsed + 1
  /\ age' = [name \in DOMAIN age |-> Older(age[name])]
  /\ taken' = [n \in Nodes |-> IF sample[n] = Pending THEN 0 ELSE Older(taken[n])]
  /\ evidence' = [name \in DOMAIN evidence |->
                    [n \in Nodes |-> Older(evidence[name][n])]]
  /\ UNCHANGED <<fixedVars, saturated, overload, phase, sample, todo, stamped, req>>

(************************* the hooks, per request **************************)

\* A bug: the alias's own name is not looked at.
FlaggedRequest(q) == q.meta

\* A model name, then data.metadata.kchat_strict_local.
StrictRequest(q) == HasPrefix(q.model, "strict") \/ q.meta

Arrive(r) ==
  /\ req[r].at = "idle"
  /\ \E name \in Names \cup {Malformed}, meta \in BOOLEAN :
       req' = [req EXCEPT ![r] = [IdleRequest EXCEPT
                 !.at = "new", !.model = name, !.asked = name, !.meta = meta]]
  /\ UNCHANGED <<fixedVars, stateVars, pollVars>>

Ungated(q) ==
  IF q.model \in ShimPictures(env) \/ ~StrictRequest(q) THEN "admitted" ELSE "failing"

\* A bug: the age of the last good poll is not looked at.
NeverStale(name) == FALSE

StrictStateStale(name) == Mode(name) = "reject" /\ age[name] > STRICT_STATE_TTL

\* async_pre_call_hook up to the staleness test; a name without an entry is
\* settled here, and so is a malformed one, whose lookup raises.
PreCall(r) ==
  /\ req[r].at = "new"
  /\ IF req[r].model \in Gated
     THEN req' = [req EXCEPT ![r].at = "deciding",
                    ![r].meta = @ \/ Mode(req[r].model) = "reject",
                    ![r].stale = StrictStateStale(req[r].model)]
     ELSE req' = [req EXCEPT ![r].at = Ungated(req[r])]
  /\ UNCHANGED <<fixedVars, stateVars, pollVars>>

\* The rest of the hook, from the read of _saturated on.
Decide(r) ==
  /\ req[r].at = "deciding"
  /\ LET name == req[r].model
         turnAway == name \in env.force \/ saturated[name] \/ req[r].stale
     IN req' = IF ~turnAway THEN [req EXCEPT ![r].at = "admitted"]
               ELSE IF Mode(name) = "reject" THEN [req EXCEPT ![r].at = "failing"]
               ELSE [req EXCEPT ![r].at = "admitted", ![r].model = Fallbacks(env)[name]]
  /\ UNCHANGED <<fixedVars, stateVars, pollVars>>

\* The router picks any deployment of the name, and another one on a retry.
Route(r) ==
  /\ req[r].at \in {"admitted", "upstream"}
  /\ \E d \in Deployments(env) :
       /\ d.name = req[r].model
       /\ req' = [req EXCEPT ![r].at = "upstream", ![r].via = d.via]
  /\ UNCHANGED <<fixedVars, stateVars, pollVars>>

\* Retries are used up, or no deployment has the name: the fallback is tried,
\* and without one the failure is final.
UpstreamFails(r) ==
  /\ \/ req[r].at = "upstream"
     \/ req[r].at = "admitted" /\ \A d \in Deployments(env) : d.name # req[r].model
  /\ req' = IF req[r].model \in DOMAIN Fallbacks(env)
            THEN [req EXCEPT ![r].at = "admitted", ![r].model = Fallbacks(env)[@]]
            ELSE [req EXCEPT ![r].at = "failing"]
  /\ UNCHANGED <<fixedVars, stateVars, pollVars>>

UpstreamAnswers(r) ==
  /\ req[r].at = "upstream"
  /\ req' = [req EXCEPT ![r].at = "answered"]
  /\ UNCHANGED <<fixedVars, stateVars, pollVars>>

\* async_post_call_failure_hook: the client sees the error as it is, or 503
\* strict_local_unavailable.
FailureHook(r) ==
  /\ req[r].at = "failing"
  /\ req' = [req EXCEPT ![r].at =
               IF StrictRequest(req[r]) THEN "unavailable" ELSE "error"]
  /\ UNCHANGED <<fixedVars, stateVars, pollVars>>

Leave(r) ==
  /\ req[r].at \in {"answered", "error", "unavailable"}
  /\ req' = [req EXCEPT ![r] = IdleRequest]
  /\ UNCHANGED <<fixedVars, stateVars, pollVars>>

PollStep ==
  \/ Wake \/ Gathered \/ EndPoll
  \/ \E n \in Nodes : Scrape(n)
  \/ \E name \in Gated : Stamp(name) \/ SetFlag(name) \/ RecordUnknown(name)

RequestStep ==
  \E r \in Requests :
    \/ Arrive(r) \/ PreCall(r) \/ Decide(r) \/ Route(r) \/ UpstreamFails(r)
    \/ UpstreamAnswers(r) \/ FailureHook(r) \/ Leave(r)

Next == PollStep \/ Tick \/ RequestStep \/ \E e \in Environments : Restart(e)

\* The thread keeps running, a hook that has begun returns (it never awaits) and
\* time keeps passing; requests and restarts are the outside world's.
Fairness ==
  /\ WF_vars(PollStep)
  /\ \A r \in Requests : WF_vars(Decide(r))
  /\ SF_vars(Tick)

Spec == Init /\ [][Next]_vars

\* One life of the process, for liveness: a restart may always come too early.
\* A restart leads back to an initial state, so this reaches all there is.
OneLifeSpec == Init /\ [][PollStep \/ Tick \/ RequestStep]_vars /\ Fairness
-----------------------------------------------------------------------------
Stages == {"idle", "new", "deciding", "admitted", "upstream", "failing",
           "answered", "error", "unavailable"}

TypeOK ==
  /\ env \in Environments /\ gate = GateMap(env)
  /\ saturated \in [Gated -> BOOLEAN]
  /\ age \in [Gated -> 0..AgeCap]
  /\ evidence \in [Gated -> [Nodes -> 0..AgeCap]]
  /\ overload \in [Gated -> BOOLEAN]
  /\ phase \in {"sleeping", "scraping", "recording"}
  /\ elapsed \in 0..Larger(POLL_TTL, ScrapeDelay)
  /\ sample \in [Nodes -> Samples]
  /\ taken \in [Nodes -> 0..AgeCap]
  /\ todo \in SUBSET Gated
  /\ stamped \in Gated \cup {None}
  /\ req \in [Requests -> [at : Stages,
                           model : Names \cup {Malformed, None},
                           asked : Names \cup {Malformed, None},
                           meta : BOOLEAN, stale : BOOLEAN,
                           via : Nodes \cup {OpenRouter, ImageShim, None}]]
  /\ \A r \in Requests : req[r].at = "deciding" => req[r].model \in Gated

\* A request for a strict-local alias is never sent to OpenRouter: not by the
\* gate's rewrite, not by a retry and not by the router's fallback, whatever
\* the environment the config was generated from.
StrictStaysLocal ==
  \A r \in Requests : HasPrefix(req[r].asked, "strict") => req[r].via # OpenRouter

\* Once the gate lets a strict request through on the flag, the flag came from
\* a poll that found room on every node of the alias, and each of those samples
\* is no older than STRICT_STATE_TTL plus the time one poll may spend scraping.
\* The moment between the poll's two assignments is left out.
StrictAdmit(r, bound) ==
  /\ req[r].at = "deciding" /\ Mode(req[r].model) = "reject"
  /\ req'[r].at = "admitted"
  => \A n \in gate[req[r].model].metrics : evidence[req[r].model][n] <= bound

AdmittedOnRecentRoom ==
  [][\A r \in Requests :
       stamped # req[r].model => StrictAdmit(r, STRICT_STATE_TTL + ScrapeDelay)]_vars

\* The gate sends a normal request to the twin only because a poll that reached
\* every node of the alias saw one of them full, or because the alias is
\* forced: never because capacity is unknown (fail-open).
SpillOnlyOnOverload ==
  [][\A r \in Requests :
       (req[r].at = "deciding" /\ req'[r].at = "admitted" /\ req'[r].model # req[r].model)
         => overload[req[r].model] \/ req[r].model \in env.force]_vars

\* A failed strict request always surfaces as strict_local_unavailable, and a
\* request that neither names a strict alias nor carries the flag never does.
StrictFailuresNormalised ==
  \A r \in Requests :
    /\ req[r].at = "error" => ~HasPrefix(req[r].asked, "strict")
    /\ req[r].at = "unavailable" => HasPrefix(req[r].asked, "strict") \/ req[r].meta

\* Whatever CONCURRENCY_GATE_CAPS says, a strict alias over vLLM keeps its entry
\* and the entry rejects: an operator can move the cap but not remove the gate.
StrictStaysGated ==
  \A m \in Models :
    Metrics(env, Strict(m)) # {}
      => Strict(m) \in Gated /\ Mode(Strict(m)) = "reject"

\* When from some time on every scrape of a strict alias's nodes finds room,
\* the alias is freed for good and its samples keep being renewed.
Roomy(name) ==
  \A n \in gate[name].metrics :
    sample[n] = Pending \/ (sample[n] # Failed /\ ~Busy(name, n))

StrictRecovers ==
  \A m \in Models :
    <>[](Strict(m) \in Gated /\ Roomy(Strict(m)))
      => <>[]~saturated[Strict(m)] /\ []<>(age[Strict(m)] = 0)
=============================================================================
