----------------------- MODULE ConcurrencyGateProofs -----------------------
(***************************************************************************)
(* For any models, nodes, environments, requests and delays: a strict      *)
(* request never reaches OpenRouter, is gated whatever the operator sets,  *)
(* is admitted on recent evidence of room only and fails as it should; a   *)
(* normal one spills only on overload that a poll has seen.                *)
(***************************************************************************)
EXTENDS ConcurrencyGate, TLAPS

(**************************** the configuration ****************************)

\* What the generator deploys has a name the client can ask for and a known
\* backend, and only slugs are deployed on OpenRouter.
LEMMA DeploymentFacts ==
  ASSUME NEW e \in Environments, NEW d \in Deployments(e)
  PROVE  /\ d.name \in Names
         /\ d.via \in Nodes \cup {OpenRouter, ImageShim}
         /\ d.via = OpenRouter => d.name[1] = "slug"
<1> USE DEF Deployment, Local, Strict, Slug, Names
<1>1. CASE d \in VllmChat(e)
  BY <1>1, BackendsDiffer DEF VllmChat, Served
<1>2. CASE d \in Remote(e)
  BY <1>2 DEF Remote
<1>3. CASE d \in LocalImages(e)
  BY <1>3, BackendsDiffer, EnvironmentsType DEF LocalImages, IsEnvironment
<1> QED
  BY <1>1, <1>2, <1>3 DEF Deployments

\* Only local aliases have a fallback, and it is a slug.
LEMMA FallbackFacts ==
  ASSUME NEW e, NEW name \in DOMAIN Fallbacks(e)
  PROVE  /\ name[1] = "local"
         /\ Fallbacks(e)[name] \in Names
         /\ Fallbacks(e)[name][1] = "slug"
BY DEF Fallbacks, FallbackNames, Local, Slug, Names

\* A gate entry that does not reject has a twin to spill to.
LEMMA GateFacts ==
  ASSUME NEW e
  PROVE  /\ DOMAIN GateMap(e) = GatedIn(e)
         /\ \A name \in GatedIn(e) :
              /\ GateMap(e)[name].mode \in {"reject", "spill"}
              /\ GateMap(e)[name].mode # "reject" => name \in DOMAIN Fallbacks(e)
              /\ GateMap(e)[name].metrics \subseteq Nodes
BY DEF GateMap, GatedIn, Metrics

\* Nothing is gated under the name that stands for no name.
LEMMA GatedNames ==
  ASSUME NEW e \in Environments, NEW name \in GatedIn(e)
  PROVE  name # None
<1>1. name \in DefaultNames \cup Overrides(e) \cup Mirrored(e)
  BY DEF GatedIn, Caps
<1>2. CASE name \in DefaultNames
  BY <1>2 DEF DefaultNames, Local, Strict, None
<1>3. CASE name \in Overrides(e) \cup Mirrored(e)
  BY <1>3, EnvironmentsType DEF Overrides, Mirrored, IsEnvironment, Names, None
<1> QED
  BY <1>1, <1>2, <1>3

LEMMA TimeFacts ==
  /\ STRICT_STATE_TTL \in Nat
  /\ AgeCap \in Nat
  /\ AgeCap = STRICT_STATE_TTL + ScrapeDelay + 1
  /\ \A a \in 0..AgeCap : Older(a) \in 0..AgeCap
BY TimesType DEF STRICT_STATE_TTL, AgeCap, Older, Larger

(****************************** type invariant *****************************)

LEMMA RequestTypes ==
  ASSUME NEW r \in Requests, TypeOK
  PROVE  /\ DOMAIN req[r] = {"at", "model", "asked", "meta", "stale", "via"}
         /\ req[r].at \in Stages
         /\ req[r].model \in Names \cup {Malformed, None}
         /\ req[r].asked \in Names \cup {Malformed, None}
         /\ req[r].meta \in BOOLEAN /\ req[r].stale \in BOOLEAN
         /\ req[r].via \in Nodes \cup {OpenRouter, ImageShim, None}
BY DEF TypeOK

\* The state of a process that has just started is well typed.
LEMMA StartType ==
  ASSUME NEW e \in Environments
  PROVE  /\ InitialFlags(e) \in [GatedIn(e) -> BOOLEAN]
         /\ IdleRequest \in [at : Stages,
                           model : Names \cup {Malformed, None},
                           asked : Names \cup {Malformed, None},
                           meta : BOOLEAN, stale : BOOLEAN,
                           via : Nodes \cup {OpenRouter, ImageShim, None}]
         /\ [name \in GatedIn(e) |-> AgeCap] \in [GatedIn(e) -> 0..AgeCap]
         /\ [name \in GatedIn(e) |-> [n \in Nodes |-> AgeCap]]
              \in [GatedIn(e) -> [Nodes -> 0..AgeCap]]
         /\ [name \in GatedIn(e) |-> FALSE] \in [GatedIn(e) -> BOOLEAN]
         /\ [n \in Nodes |-> Pending] \in [Nodes -> Samples]
         /\ [n \in Nodes |-> 0] \in [Nodes -> 0..AgeCap]
         /\ POLL_TTL \in 0..Larger(POLL_TTL, ScrapeDelay)
         /\ DOMAIN GateMap(e) = GatedIn(e)
         /\ IdleRequest.at = "idle"
<1>1. AgeCap \in 0..AgeCap /\ 0 \in 0..AgeCap
  BY TimeFacts
<1> QED
  BY <1>1, GateFacts, TimesType DEF InitialFlags, IdleRequest, Stages, Samples, Larger

LEMMA InitType == Init => TypeOK
<1> SUFFICES ASSUME NEW e \in Environments, StartIn(e)
             PROVE  TypeOK
  BY DEF Init
<1> QED
  BY StartType DEF StartIn, TypeOK, Gated

LEMMA RestartType ==
  ASSUME NEW e \in Environments, Restart(e)
  PROVE  TypeOK'
BY StartType DEF Restart, TypeOK, Gated

LEMMA PollType ==
  ASSUME TypeOK, PollStep
  PROVE  TypeOK'
<1> USE DEF TypeOK, Gated, fixedVars, stateVars
<1>0. 0 \in 0..Larger(POLL_TTL, ScrapeDelay) /\ AgeCap \in 0..AgeCap /\ 0 \in 0..AgeCap
  BY TimeFacts, TimesType DEF Larger
<1>1. CASE Wake
  BY <1>0, <1>1 DEF Wake
<1>2. CASE Gathered
  BY <1>2 DEF Gathered
<1>3. CASE EndPoll
  BY <1>0, <1>3 DEF EndPoll, Samples
<1>4. ASSUME NEW n \in Nodes, Scrape(n)
      PROVE  TypeOK'
  BY <1>0, <1>4 DEF Scrape, Samples
<1>5. ASSUME NEW name \in Gated, Stamp(name)
      PROVE  TypeOK'
  BY <1>0, <1>5 DEF Stamp
<1>6. ASSUME NEW name \in Gated, SetFlag(name)
      PROVE  TypeOK'
  <2>1. AnyBusy(name) \in BOOLEAN
    BY DEF AnyBusy
  <2>2. [n \in Nodes |-> IF /\ Mode(name) = "reject"
                           /\ n \in gate[name].metrics /\ ~Busy(name, n)
                        THEN taken[n] ELSE AgeCap] \in [Nodes -> 0..AgeCap]
    BY <1>0
  <2> QED
    BY <1>6, <2>1, <2>2 DEF SetFlag
<1>7. ASSUME NEW name \in Gated, RecordUnknown(name)
      PROVE  TypeOK'
  <2>1. FlagWhenUnknown(name) \in BOOLEAN
    BY DEF FlagWhenUnknown
  <2> QED
    BY <1>0, <1>7, <2>1 DEF RecordUnknown
<1> QED
  BY <1>1, <1>2, <1>3, <1>4, <1>5, <1>6, <1>7 DEF PollStep

LEMMA TickType ==
  ASSUME TypeOK, Tick
  PROVE  TypeOK'
<1> USE DEF TypeOK, Gated, fixedVars
<1>1. elapsed' \in 0..Larger(POLL_TTL, ScrapeDelay)
  BY TimesType DEF Tick, Larger
<1>2. age' \in [Gated' -> 0..AgeCap]
  BY TimeFacts DEF Tick
<1>3. taken' \in [Nodes -> 0..AgeCap]
  BY TimeFacts DEF Tick
<1>4. evidence' \in [Gated' -> [Nodes -> 0..AgeCap]]
  BY TimeFacts DEF Tick
<1> QED
  BY <1>1, <1>2, <1>3, <1>4 DEF Tick

LEMMA RequestType ==
  ASSUME TypeOK, NEW r \in Requests,
         \/ Arrive(r) \/ PreCall(r) \/ Decide(r) \/ Route(r) \/ UpstreamFails(r)
         \/ UpstreamAnswers(r) \/ FailureHook(r) \/ Leave(r)
  PROVE  TypeOK'
<1> DEFINE Req == [at : Stages, model : Names \cup {Malformed, None},
                   asked : Names \cup {Malformed, None},
                   meta : BOOLEAN, stale : BOOLEAN,
                   via : Nodes \cup {OpenRouter, ImageShim, None}]
<1>0. env \in Environments /\ gate = GateMap(env) /\ req \in [Requests -> Req]
      /\ req[r] \in Req
  BY DEF TypeOK
<1> SUFFICES ASSUME UNCHANGED <<fixedVars, stateVars, pollVars>>,
                    req' \in [Requests -> Req],
                    \A q \in Requests \ {r} : req'[q] = req[q],
                    req'[r].at = "deciding" => req'[r].model \in Gated
             PROVE  TypeOK'
  <2>1. UNCHANGED <<fixedVars, stateVars, pollVars>>
    BY DEF Arrive, PreCall, Decide, Route, UpstreamFails, UpstreamAnswers,
           FailureHook, Leave
  <2>2. CASE Arrive(r)
    <3>1. PICK name \in Names \cup {Malformed}, meta \in BOOLEAN :
            req' = [req EXCEPT ![r] = [IdleRequest EXCEPT
                 !.at = "new", !.model = name, !.asked = name, !.meta = meta]]
      BY <2>2 DEF Arrive
    <3>2. [IdleRequest EXCEPT !.at = "new", !.model = name, !.asked = name,
                              !.meta = meta] \in Req
      BY DEF IdleRequest, Stages
    <3> QED
      BY <1>0, <2>1, <3>1, <3>2
  <2>3. CASE PreCall(r)
    <3>1. Ungated(req[r]) \in Stages \ {"deciding"}
      BY DEF Ungated, Stages
    <3>2. StrictStateStale(req[r].model) \in BOOLEAN
      BY DEF StrictStateStale
    <3> QED
      BY <1>0, <2>1, <2>3, <3>1, <3>2 DEF PreCall, Stages
  <2>4. CASE Decide(r)
    <3>1. req[r].model \in Gated
      BY <2>4 DEF Decide, TypeOK
    <3>2. Mode(req[r].model) # "reject" => Fallbacks(env)[req[r].model] \in Names
      BY <1>0, <3>1, GateFacts, FallbackFacts DEF Mode, Gated
    <3> QED
      BY <1>0, <2>1, <2>4, <3>2 DEF Decide, Stages
  <2>5. CASE Route(r)
    <3>1. PICK d \in Deployments(env) :
            req' = [req EXCEPT ![r].at = "upstream", ![r].via = d.via]
      BY <2>5 DEF Route
    <3>2. d.via \in Nodes \cup {OpenRouter, ImageShim}
      BY <1>0, DeploymentFacts
    <3> QED
      BY <1>0, <2>1, <3>1, <3>2 DEF Stages
  <2>6. CASE UpstreamFails(r)
    <3>1. \A name \in DOMAIN Fallbacks(env) : Fallbacks(env)[name] \in Names
      BY FallbackFacts
    <3> QED
      BY <1>0, <2>1, <2>6, <3>1 DEF UpstreamFails, Stages
  <2>7. CASE UpstreamAnswers(r)
    BY <1>0, <2>1, <2>7 DEF UpstreamAnswers, Stages
  <2>8. CASE FailureHook(r)
    BY <1>0, <2>1, <2>8 DEF FailureHook, Stages
  <2>9. CASE Leave(r)
    <3>1. IdleRequest \in Req /\ IdleRequest.at = "idle"
      BY DEF IdleRequest, Stages
    <3> QED
      BY <1>0, <2>1, <2>9, <3>1 DEF Leave
  <2> QED
    BY <2>2, <2>3, <2>4, <2>5, <2>6, <2>7, <2>8, <2>9
<1>1. \A q \in Requests : req'[q].at = "deciding" => req'[q].model \in Gated
  BY DEF TypeOK
<1>2. Gated' = Gated
  BY DEF Gated, fixedVars
<1> QED
  BY <1>1, <1>2 DEF TypeOK, fixedVars, stateVars, pollVars

\* The gate's dictionaries, the poll and the requests keep their types, and a
\* request under decision has a gate entry.
THEOREM TypeCorrect == Spec => []TypeOK
<1>1. TypeOK /\ [Next]_vars => TypeOK'
  <2> SUFFICES ASSUME TypeOK, [Next]_vars
               PROVE  TypeOK'
    OBVIOUS
  <2>1. CASE PollStep
    BY <2>1, PollType
  <2>2. CASE Tick
    BY <2>2, TickType
  <2>3. CASE RequestStep
    BY <2>3, RequestType DEF RequestStep
  <2>4. CASE \E e \in Environments : Restart(e)
    BY <2>4, RestartType
  <2>5. CASE UNCHANGED vars
    BY <2>5 DEF vars, fixedVars, stateVars, pollVars, TypeOK, Gated
  <2> QED
    BY <2>1, <2>2, <2>3, <2>4, <2>5 DEF Next
<1> QED
  BY InitType, <1>1, PTL DEF Spec

(************************** strict requests stay local *********************)

\* What makes it inductive: the request still carries a strict name.
StaysStrict(q) ==
  q.asked[1] = "strict" => q.model[1] = "strict" /\ q.via # OpenRouter

LEMMA IdleStaysStrict == StaysStrict(IdleRequest)
BY DEF StaysStrict, IdleRequest, None

\* No step of a request takes its strict name away or sends it out.
LEMMA RequestStaysStrict ==
  ASSUME TypeOK, NEW r \in Requests, StaysStrict(req[r]),
         \/ Arrive(r) \/ PreCall(r) \/ Decide(r) \/ Route(r) \/ UpstreamFails(r)
         \/ UpstreamAnswers(r) \/ FailureHook(r) \/ Leave(r)
  PROVE  StaysStrict(req'[r]) /\ \A q \in Requests \ {r} : req'[q] = req[q]
<1>0. req \in [Requests -> [at : Stages, model : Names \cup {Malformed, None},
                   asked : Names \cup {Malformed, None},
                   meta : BOOLEAN, stale : BOOLEAN,
                   via : Nodes \cup {OpenRouter, ImageShim, None}]]
      /\ env \in Environments /\ gate = GateMap(env)
  BY DEF TypeOK
<1>1. CASE Arrive(r)
  <2>1. PICK name \in Names \cup {Malformed}, meta \in BOOLEAN :
          req' = [req EXCEPT ![r] = [IdleRequest EXCEPT
               !.at = "new", !.model = name, !.asked = name, !.meta = meta]]
    BY <1>1 DEF Arrive
  <2>2. req'[r].asked = name /\ req'[r].model = name /\ req'[r].via = None
    BY <1>0, <2>1 DEF IdleRequest
  <2> QED
    BY <1>0, <2>1, <2>2, NoneIsNoBackend DEF StaysStrict
<1>2. CASE PreCall(r)
  BY <1>0, <1>2 DEF PreCall, StaysStrict
<1>3. CASE Decide(r)
  <2>1. req[r].model \in GatedIn(env) /\ Mode(req[r].model) = GateMap(env)[req[r].model].mode
    BY <1>0, <1>3, GateFacts DEF Decide, TypeOK, Gated, Mode
  <2>2. req[r].model[1] = "strict" => Mode(req[r].model) = "reject"
    BY <2>1, GateFacts, FallbackFacts
  <2> QED
    BY <1>0, <1>3, <2>2 DEF Decide, StaysStrict
<1>4. CASE Route(r)
  <2>1. PICK d \in Deployments(env) :
          d.name = req[r].model
          /\ req' = [req EXCEPT ![r].at = "upstream", ![r].via = d.via]
    BY <1>4 DEF Route
  <2>2. req[r].model[1] = "strict" => d.via # OpenRouter
    BY <1>0, <2>1, DeploymentFacts
  <2> QED
    BY <1>0, <2>1, <2>2 DEF StaysStrict
<1>5. CASE UpstreamFails(r)
  <2>1. req[r].model[1] = "strict" => req[r].model \notin DOMAIN Fallbacks(env)
    BY FallbackFacts
  <2> QED
    BY <1>0, <1>5, <2>1 DEF UpstreamFails, StaysStrict
<1>6. CASE UpstreamAnswers(r)
  BY <1>0, <1>6 DEF UpstreamAnswers, StaysStrict
<1>7. CASE FailureHook(r)
  BY <1>0, <1>7 DEF FailureHook, StaysStrict
<1>8. CASE Leave(r)
  BY <1>0, <1>8, IdleStaysStrict DEF Leave
<1> QED
  BY <1>1, <1>2, <1>3, <1>4, <1>5, <1>6, <1>7, <1>8

\* A strict request is never sent to OpenRouter, by the gate, a retry or a
\* fallback, for every configuration the generator can write.
THEOREM StrictNeverLeaves == Spec => []StrictStaysLocal
<1> DEFINE Inv == \A r \in Requests : StaysStrict(req[r])
<1>1. Init => Inv
  BY IdleStaysStrict DEF Init, StartIn
<1>2. TypeOK /\ Inv /\ [Next]_vars => Inv'
  <2> SUFFICES ASSUME TypeOK, Inv, [Next]_vars
               PROVE  Inv'
    OBVIOUS
  <2>1. CASE PollStep \/ Tick
    <3>1. req' = req
      BY <2>1 DEF PollStep, Wake, Gathered, EndPoll, Scrape, Stamp, SetFlag,
                  RecordUnknown, Tick
    <3> QED
      BY <3>1 DEF StaysStrict
  <2>2. CASE RequestStep
    <3>1. PICK r \in Requests :
            \/ Arrive(r) \/ PreCall(r) \/ Decide(r) \/ Route(r) \/ UpstreamFails(r)
            \/ UpstreamAnswers(r) \/ FailureHook(r) \/ Leave(r)
      BY <2>2 DEF RequestStep
    <3>2. StaysStrict(req'[r]) /\ \A q \in Requests \ {r} : req'[q] = req[q]
      BY <3>1, RequestStaysStrict
    <3> QED
      BY <3>2 DEF StaysStrict
  <2>3. CASE \E e \in Environments : Restart(e)
    BY <2>3, IdleStaysStrict DEF Restart, StaysStrict
  <2>4. CASE UNCHANGED vars
    BY <2>4 DEF vars, StaysStrict
  <2> QED
    BY <2>1, <2>2, <2>3, <2>4 DEF Next
<1>3. Inv => StrictStaysLocal
  BY DEF StaysStrict, StrictStaysLocal, HasPrefix
<1> QED
  BY TypeCorrect, <1>1, <1>2, <1>3, PTL DEF Spec

(************************ strict is admitted on evidence *******************)

\* The samples of the poll under way are no older than the poll's scraping.
SamplesYoung ==
  /\ phase = "sleeping" => \A n \in Nodes : sample[n] = Pending /\ taken[n] = 0
  /\ phase # "sleeping" => elapsed <= ScrapeDelay /\ \A n \in Nodes : taken[n] <= elapsed

\* Between the poll's two assignments the stamp is as new as can be.
StampNew ==
  stamped # None => phase = "recording" /\ stamped \in todo /\ age[stamped] = 0

\* An open strict flag rests on samples hardly older than its stamp.
EvidenceFollowsStamp ==
  \A name \in Gated :
    (Mode(name) = "reject" /\ ~saturated[name] /\ stamped # name)
      => \A n \in gate[name].metrics : evidence[name][n] <= age[name] + ScrapeDelay

\* What a hook read of the stamp still holds when it reads the flag.
StampStillFresh ==
  \A r \in Requests :
    (req[r].at = "deciding" /\ Mode(req[r].model) = "reject" /\ ~req[r].stale)
      => age[req[r].model] <= STRICT_STATE_TTL

EvidenceInv ==
  SamplesYoung /\ StampNew /\ EvidenceFollowsStamp /\ StampStillFresh

LEMMA StartEvidence ==
  ASSUME NEW e \in Environments, StartIn(e)
  PROVE  EvidenceInv
<1>1. \A name \in Gated : Mode(name) = "reject" => saturated[name]
  BY GateFacts DEF StartIn, InitialFlags, Gated, Mode
<1> QED
  BY <1>1 DEF StartIn, EvidenceInv, SamplesYoung, StampNew, EvidenceFollowsStamp,
              StampStillFresh, IdleRequest

LEMMA RestartEvidence ==
  ASSUME NEW e \in Environments, Restart(e)
  PROVE  EvidenceInv'
<1>1. (\A name \in Gated : Mode(name) = "reject" => saturated[name])'
  BY GateFacts DEF Restart, InitialFlags, Gated, Mode
<1> QED
  BY <1>1 DEF Restart, EvidenceInv, SamplesYoung, StampNew, EvidenceFollowsStamp,
              StampStillFresh, IdleRequest

LEMMA PollEvidence ==
  ASSUME TypeOK, EvidenceInv, PollStep
  PROVE  EvidenceInv'
<1> USE DEF EvidenceInv, fixedVars, stateVars
<1>0. /\ ScrapeDelay \in Nat /\ AgeCap \in Nat /\ STRICT_STATE_TTL \in Nat
      /\ \A name \in Gated : age[name] \in 0..AgeCap
      /\ \A name \in Gated : \A n \in Nodes : evidence[name][n] \in 0..AgeCap
      /\ \A n \in Nodes : taken[n] \in 0..AgeCap
      /\ elapsed \in Nat
      /\ \A name \in Gated : gate[name].metrics \subseteq Nodes
  BY TimeFacts, TimesType, GateFacts DEF TypeOK, Gated, Larger
<1>1. CASE Wake \/ Gathered \/ EndPoll
  <2>1. UNCHANGED <<gate, saturated, age, evidence, stamped, req>>
    BY <1>1 DEF Wake, Gathered, EndPoll
  <2>2. EvidenceFollowsStamp' /\ StampStillFresh'
    BY <2>1 DEF EvidenceFollowsStamp, StampStillFresh, Gated, Mode
  <2>3. SamplesYoung'
    BY <1>0, <1>1 DEF Wake, Gathered, EndPoll, SamplesYoung
  <2>4. StampNew'
    BY <1>1, <2>1 DEF Wake, Gathered, EndPoll, StampNew, TypeOK
  <2> QED
    BY <2>2, <2>3, <2>4
<1>2. ASSUME NEW n \in Nodes, Scrape(n)
      PROVE  EvidenceInv'
  <2>1. SamplesYoung'
    BY <1>0, <1>2 DEF Scrape, SamplesYoung, TypeOK
  <2> QED
    BY <1>2, <2>1 DEF Scrape, StampNew, EvidenceFollowsStamp, StampStillFresh, Gated, Mode
<1>3. ASSUME NEW name \in Gated, Stamp(name)
      PROVE  EvidenceInv'
  <2>1. /\ age' = [age EXCEPT ![name] = 0] /\ stamped' = name /\ stamped = None
        /\ phase = "recording" /\ name \in todo
        /\ UNCHANGED <<gate, saturated, evidence, phase, sample, taken, elapsed,
                       todo, req>>
    BY <1>3 DEF Stamp
  <2>2. \A x \in Gated : x # name => age'[x] = age[x]
    BY <2>1 DEF TypeOK
  <2>3. age'[name] = 0
    BY <2>1 DEF TypeOK
  <2>4. SamplesYoung' /\ StampNew'
    BY <2>1, <2>3 DEF SamplesYoung, StampNew
  <2>5. EvidenceFollowsStamp'
    <3> SUFFICES ASSUME NEW x \in Gated', Mode(x)' = "reject", ~saturated'[x], stamped' # x,
                        NEW n \in (gate[x].metrics)'
                 PROVE  evidence'[x][n] <= age'[x] + ScrapeDelay
      BY DEF EvidenceFollowsStamp
    <3>1. x \in Gated /\ x # name /\ Mode(x) = "reject" /\ n \in gate[x].metrics
      BY <2>1 DEF Gated, Mode
    <3>2. stamped # x \/ x = None
      BY <2>1
    <3>3. x # None
      BY <3>1, GateFacts, GatedNames DEF TypeOK, Gated
    <3> QED
      BY <2>1, <2>2, <3>1, <3>2, <3>3 DEF EvidenceFollowsStamp
  <2>6. StampStillFresh'
    <3> SUFFICES ASSUME NEW r \in Requests, req[r].at = "deciding",
                        Mode(req[r].model) = "reject", ~req[r].stale
                 PROVE  age'[req[r].model] <= STRICT_STATE_TTL
      BY <2>1 DEF StampStillFresh, Mode
    <3>1. req[r].model \in Gated
      BY DEF TypeOK
    <3>2. CASE req[r].model = name
      BY <1>0, <2>3, <3>2
    <3>3. CASE req[r].model # name
      BY <2>2, <3>1, <3>3 DEF StampStillFresh
    <3> QED
      BY <3>2, <3>3
  <2> QED
    BY <2>4, <2>5, <2>6
<1>4. ASSUME NEW name \in Gated, SetFlag(name)
      PROVE  EvidenceInv'
  <2>1. /\ stamped = name /\ stamped' = None
        /\ saturated' = [saturated EXCEPT ![name] = AnyBusy(name)]
        /\ UNCHANGED <<gate, age, phase, sample, taken, elapsed, req>>
    BY <1>4 DEF SetFlag
  <2>2. \A x \in Gated : x # name => saturated'[x] = saturated[x]
                                     /\ evidence'[x] = evidence[x]
    BY <1>4 DEF SetFlag, TypeOK
  <2>3. ASSUME ~saturated'[name], Mode(name) = "reject", NEW n \in gate[name].metrics
        PROVE  evidence'[name][n] = taken[n]
    <3>1. ~Busy(name, n)
      BY <2>1, <2>3 DEF AnyBusy, TypeOK
    <3> QED
      BY <1>0, <1>4, <2>3, <3>1 DEF SetFlag, TypeOK
  <2>4. SamplesYoung' /\ StampNew'
    BY <2>1 DEF SamplesYoung, StampNew
  <2>5. \A n \in Nodes : taken[n] <= ScrapeDelay
    <3>1. name # None
      BY GateFacts, GatedNames DEF TypeOK, Gated
    <3> QED
      BY <1>0, <2>1, <3>1 DEF SamplesYoung, StampNew
  <2>6. EvidenceFollowsStamp'
    <3> SUFFICES ASSUME NEW x \in Gated, Mode(x) = "reject", ~saturated'[x],
                        NEW n \in gate[x].metrics
                 PROVE  evidence'[x][n] <= age[x] + ScrapeDelay
      BY <2>1 DEF EvidenceFollowsStamp, Gated, Mode
    <3>1. CASE x = name
      BY <1>0, <2>3, <2>5, <3>1
    <3>2. CASE x # name
      BY <2>1, <2>2, <3>2 DEF EvidenceFollowsStamp
    <3> QED
      BY <3>1, <3>2
  <2>7. StampStillFresh'
    BY <2>1 DEF StampStillFresh, Mode
  <2> QED
    BY <2>4, <2>6, <2>7
<1>5. ASSUME NEW name \in Gated, RecordUnknown(name)
      PROVE  EvidenceInv'
  <2>1. /\ saturated' = [saturated EXCEPT ![name] = FlagWhenUnknown(name)]
        /\ UNCHANGED <<gate, age, phase, sample, taken, elapsed, stamped, req>>
    BY <1>5 DEF RecordUnknown
  <2>2. \A x \in Gated : x # name => saturated'[x] = saturated[x]
                                     /\ evidence'[x] = evidence[x]
    BY <1>5 DEF RecordUnknown, TypeOK
  <2>3. Mode(name) = "reject" => saturated'[name]
    BY <2>1 DEF FlagWhenUnknown, TypeOK
  <2>4. EvidenceFollowsStamp'
    BY <2>1, <2>2, <2>3 DEF EvidenceFollowsStamp, Gated, Mode
  <2> QED
    BY <1>5, <2>1, <2>4 DEF RecordUnknown, SamplesYoung, StampNew, StampStillFresh, Mode
<1> QED
  BY <1>1, <1>2, <1>3, <1>4, <1>5 DEF PollStep

LEMMA TickEvidence ==
  ASSUME TypeOK, EvidenceInv, Tick
  PROVE  EvidenceInv'
<1> USE DEF EvidenceInv, fixedVars
<1>0. /\ ScrapeDelay \in Nat /\ AgeCap \in Nat
      /\ \A name \in Gated : age[name] \in 0..AgeCap /\ age'[name] = Older(age[name])
      /\ \A name \in Gated : \A n \in Nodes :
           evidence[name][n] \in 0..AgeCap /\ evidence'[name][n] = Older(evidence[name][n])
      /\ \A n \in Nodes : taken[n] \in 0..AgeCap
                          /\ taken'[n] = IF sample[n] = Pending THEN 0 ELSE Older(taken[n])
      /\ elapsed \in Nat
      /\ \A name \in Gated : gate[name].metrics \subseteq Nodes
      /\ UNCHANGED <<gate, saturated, phase, sample, todo, stamped, req>>
  BY TimeFacts, TimesType, GateFacts DEF TypeOK, Gated, Larger, Tick
<1>1. SamplesYoung'
  BY <1>0 DEF SamplesYoung, Tick, Older
<1>2. StampNew'
  BY <1>0 DEF StampNew, Tick
<1>3. EvidenceFollowsStamp'
  <2> SUFFICES ASSUME NEW name \in Gated, Mode(name) = "reject", ~saturated[name],
                      stamped # name, NEW n \in gate[name].metrics
               PROVE  evidence'[name][n] <= age'[name] + ScrapeDelay
    BY <1>0 DEF EvidenceFollowsStamp, Gated, Mode
  <2>1. evidence[name][n] <= age[name] + ScrapeDelay
    BY DEF EvidenceFollowsStamp
  <2> QED
    BY <1>0, <2>1 DEF Older
<1>4. StampStillFresh'
  BY <1>0 DEF StampStillFresh, Tick
<1> QED
  BY <1>1, <1>2, <1>3, <1>4

\* What a hook that goes on to the flag has read.
LEMMA HookReads ==
  ASSUME TypeOK, NEW r \in Requests, PreCall(r), req'[r].at = "deciding"
  PROVE  req'[r].model = req[r].model /\ req'[r].stale = StrictStateStale(req[r].model)
<1>1. req = [q \in Requests |-> req[q]]
      /\ DOMAIN req[r] = {"at", "model", "asked", "meta", "stale", "via"}
  BY RequestTypes DEF TypeOK
<1>2. CASE req[r].model \in Gated
  <2> DEFINE strict == Mode(req[r].model) = "reject"
             late == StrictStateStale(req[r].model)
  <2>1. req' = [req EXCEPT ![r].at = "deciding", ![r].meta = @ \/ strict, ![r].stale = late]
    BY <1>2 DEF PreCall
  <2> HIDE DEF strict, late
  <2>2. req'[r].model = req[r].model /\ req'[r].stale = late
    BY <1>1, <2>1
  <2> QED
    BY <2>2 DEF late
<1>3. CASE req[r].model \notin Gated
  BY <1>1, <1>3 DEF PreCall, Ungated
<1> QED
  BY <1>2, <1>3

\* A request comes under decision by the hook's first half only.
LEMMA DecidingIsNew ==
  ASSUME TypeOK, NEW r \in Requests, req'[r].at = "deciding",
         \/ Arrive(r) \/ PreCall(r) \/ Decide(r) \/ Route(r) \/ UpstreamFails(r)
         \/ UpstreamAnswers(r) \/ FailureHook(r) \/ Leave(r)
  PROVE  req'[r].model = req[r].model /\ req'[r].stale = StrictStateStale(req[r].model)
<1>1. CASE PreCall(r)
  BY <1>1, HookReads
<1>2. CASE Arrive(r)
  BY <1>2 DEF Arrive, IdleRequest, TypeOK
<1>3. CASE Decide(r) \/ Route(r)
  BY <1>3 DEF Decide, Route, TypeOK
<1>4. CASE UpstreamFails(r) \/ UpstreamAnswers(r)
  BY <1>4 DEF UpstreamFails, UpstreamAnswers, TypeOK
<1>5. CASE FailureHook(r) \/ Leave(r)
  BY <1>5 DEF FailureHook, Leave, IdleRequest, TypeOK
<1> QED
  BY <1>1, <1>2, <1>3, <1>4, <1>5

LEMMA RequestEvidence ==
  ASSUME TypeOK, EvidenceInv, RequestStep
  PROVE  EvidenceInv'
<1> USE DEF EvidenceInv, fixedVars, stateVars, pollVars
<1>1. PICK r \in Requests :
        \/ Arrive(r) \/ PreCall(r) \/ Decide(r) \/ Route(r) \/ UpstreamFails(r)
        \/ UpstreamAnswers(r) \/ FailureHook(r) \/ Leave(r)
  BY DEF RequestStep
<1>2. UNCHANGED <<fixedVars, stateVars, pollVars>>
  BY <1>1 DEF Arrive, PreCall, Decide, Route, UpstreamFails, UpstreamAnswers,
              FailureHook, Leave
<1>3. SamplesYoung' /\ StampNew' /\ EvidenceFollowsStamp'
  BY <1>2 DEF SamplesYoung, StampNew, EvidenceFollowsStamp, Gated, Mode
<1>4. \A q \in Requests \ {r} : req'[q] = req[q]
  BY <1>1 DEF Arrive, PreCall, Decide, Route, UpstreamFails, UpstreamAnswers,
              FailureHook, Leave, TypeOK
<1>5. req'[r].at = "deciding" =>
        req'[r].model = req[r].model /\ req'[r].stale = StrictStateStale(req[r].model)
  BY <1>1, DecidingIsNew
<1>6. StampStillFresh'
  <2> SUFFICES ASSUME NEW q \in Requests, req'[q].at = "deciding",
                      Mode(req'[q].model) = "reject", ~req'[q].stale
               PROVE  age[req'[q].model] <= STRICT_STATE_TTL
    BY <1>2 DEF StampStillFresh, Mode
  <2>1. CASE q = r
    <3>1. req'[r].model \in Gated
      BY <1>1, <2>1, RequestType, <1>2 DEF TypeOK, Gated
    <3>2. age[req[r].model] \in Int /\ req'[r].model = req[r].model
      BY <1>5, <2>1, <3>1, TimeFacts DEF TypeOK
    <3>3. ~StrictStateStale(req[r].model)
      BY <1>5, <2>1
    <3> QED
      BY <2>1, <3>2, <3>3, TimeFacts DEF StrictStateStale
  <2>2. CASE q # r
    BY <1>4, <2>2 DEF StampStillFresh, Mode
  <2> QED
    BY <2>1, <2>2
<1> QED
  BY <1>3, <1>6

\* Only the hook's second half lets a request that is being decided on pass.
LEMMA AdmitsByDecide ==
  ASSUME TypeOK, Next, NEW r \in Requests,
         req[r].at = "deciding", req'[r].at = "admitted"
  PROVE  Decide(r)
<1>1. RequestStep
  <2>1. ~PollStep /\ ~Tick
    <3>1. PollStep \/ Tick => req' = req
      BY DEF PollStep, Wake, Gathered, EndPoll, Scrape, Stamp, SetFlag,
             RecordUnknown, Tick
    <3> QED
      BY <3>1
  <2>2. \A e \in Environments : ~Restart(e)
    BY DEF Restart, IdleRequest
  <2> QED
    BY <2>1, <2>2 DEF Next
<1>2. PICK q \in Requests :
        \/ Arrive(q) \/ PreCall(q) \/ Decide(q) \/ Route(q) \/ UpstreamFails(q)
        \/ UpstreamAnswers(q) \/ FailureHook(q) \/ Leave(q)
  BY <1>1 DEF RequestStep
<1>3. q = r
  BY <1>2 DEF Arrive, PreCall, Decide, Route, UpstreamFails, UpstreamAnswers,
              FailureHook, Leave, TypeOK
<1> QED
  BY <1>2, <1>3 DEF Arrive, PreCall, Route, UpstreamFails, UpstreamAnswers,
                    FailureHook, Leave

\* A strict request passes on an open flag and a stamp the hook found fresh.
LEMMA StrictPassesOpen ==
  ASSUME TypeOK, NEW r \in Requests, Decide(r),
         Mode(req[r].model) = "reject", req'[r].at = "admitted"
  PROVE  ~saturated[req[r].model] /\ ~req[r].stale
BY DEF Decide, TypeOK

\* A strict request is let through only when every node of its alias showed
\* room in a sample not older than STRICT_STATE_TTL + ScrapeDelay.
THEOREM StrictAdmittedOnEvidence == Spec => AdmittedOnRecentRoom
<1>1. Init => EvidenceInv
  BY StartEvidence DEF Init
<1>2. TypeOK /\ EvidenceInv /\ [Next]_vars => EvidenceInv'
  <2> SUFFICES ASSUME TypeOK, EvidenceInv, [Next]_vars
               PROVE  EvidenceInv'
    OBVIOUS
  <2>1. CASE UNCHANGED vars
    BY <2>1 DEF vars, fixedVars, stateVars, pollVars, EvidenceInv, SamplesYoung,
                StampNew, EvidenceFollowsStamp, StampStillFresh, Gated, Mode
  <2> QED
    BY <2>1, PollEvidence, TickEvidence, RequestEvidence, RestartEvidence DEF Next
<1> DEFINE Admit == \A r \in Requests :
      stamped # req[r].model => StrictAdmit(r, STRICT_STATE_TTL + ScrapeDelay)
<1>3. TypeOK /\ EvidenceInv /\ [Next]_vars => [Admit]_vars
  <2> SUFFICES ASSUME TypeOK, EvidenceInv, Next, NEW r \in Requests,
                      stamped # req[r].model,
                      req[r].at = "deciding", Mode(req[r].model) = "reject",
                      req'[r].at = "admitted",
                      NEW n \in gate[req[r].model].metrics
               PROVE  evidence[req[r].model][n] <= STRICT_STATE_TTL + ScrapeDelay
    BY DEF StrictAdmit
  <2> DEFINE name == req[r].model
  <2>1. name \in Gated /\ ~saturated[name] /\ ~req[r].stale
    BY AdmitsByDecide, StrictPassesOpen DEF TypeOK
  <2>2. age[name] <= STRICT_STATE_TTL
    BY <2>1 DEF EvidenceInv, StampStillFresh
  <2>3. evidence[name][n] <= age[name] + ScrapeDelay
    BY <2>1 DEF EvidenceInv, EvidenceFollowsStamp
  <2>4. n \in Nodes
    BY <2>1, GateFacts DEF TypeOK, Gated
  <2>5. age[name] \in Int /\ evidence[name][n] \in Int
    BY <2>1, <2>4, TimeFacts DEF TypeOK
  <2> QED
    BY <2>2, <2>3, <2>5, TimeFacts, TimesType
<1> QED
  BY TypeCorrect, <1>1, <1>2, <1>3, PTL DEF Spec, AdmittedOnRecentRoom

(********************** strict failures are normalised *********************)

\* What makes it inductive, with StaysStrict: no step gives a request a strict
\* name it did not come with.
Normalised(q) ==
  /\ q.model[1] = "strict" => q.asked[1] = "strict"
  /\ q.at = "error" => q.asked[1] # "strict"
  /\ q.at = "unavailable" => q.asked[1] = "strict" \/ q.meta

LEMMA IdleNormalised == Normalised(IdleRequest)
BY DEF Normalised, IdleRequest, None

LEMMA RequestNormalised ==
  ASSUME TypeOK, NEW r \in Requests, StaysStrict(req[r]), Normalised(req[r]),
         \/ Arrive(r) \/ PreCall(r) \/ Decide(r) \/ Route(r) \/ UpstreamFails(r)
         \/ UpstreamAnswers(r) \/ FailureHook(r) \/ Leave(r)
  PROVE  Normalised(req'[r])
<1>0. req = [q \in Requests |-> req[q]]
      /\ DOMAIN req[r] = {"at", "model", "asked", "meta", "stale", "via"}
      /\ env \in Environments /\ gate = GateMap(env)
  BY RequestTypes DEF TypeOK
<1>1. CASE Arrive(r)
  <2>1. PICK name \in Names \cup {Malformed}, meta \in BOOLEAN :
          req' = [req EXCEPT ![r] = [IdleRequest EXCEPT
               !.at = "new", !.model = name, !.asked = name, !.meta = meta]]
    BY <1>1 DEF Arrive
  <2>2. req'[r].asked = name /\ req'[r].model = name /\ req'[r].at = "new"
    BY <1>0, <2>1 DEF IdleRequest
  <2> QED
    BY <2>2 DEF Normalised
<1>2. CASE PreCall(r)
  <2>1. Ungated(req[r]) \notin {"error", "unavailable"}
    BY DEF Ungated
  <2>2. /\ req'[r].asked = req[r].asked /\ req'[r].model = req[r].model
        /\ req'[r].at \notin {"error", "unavailable"}
    BY <1>0, <1>2, <2>1 DEF PreCall
  <2> QED
    BY <2>2 DEF Normalised
<1>3. CASE Decide(r)
  <2>1. req[r].model \in GatedIn(env) /\ Mode(req[r].model) = GateMap(env)[req[r].model].mode
    BY <1>0, <1>3, GateFacts DEF Decide, TypeOK, Gated, Mode
  <2>2. Mode(req[r].model) # "reject" => Fallbacks(env)[req[r].model][1] = "slug"
    BY <2>1, GateFacts, FallbackFacts
  <2> QED
    BY <1>0, <1>3, <2>2 DEF Decide, Normalised
<1>4. CASE Route(r)
  <2>1. PICK d \in Deployments(env) :
          req' = [req EXCEPT ![r].at = "upstream", ![r].via = d.via]
    BY <1>4 DEF Route
  <2> QED
    BY <1>0, <2>1 DEF Normalised
<1>5. CASE UpstreamFails(r)
  <2>1. req[r].model \in DOMAIN Fallbacks(env) => Fallbacks(env)[req[r].model][1] = "slug"
    BY FallbackFacts
  <2> QED
    BY <1>0, <1>5, <2>1 DEF UpstreamFails, Normalised
<1>6. CASE UpstreamAnswers(r)
  BY <1>0, <1>6 DEF UpstreamAnswers, Normalised
<1>7. CASE FailureHook(r)
  <2> DEFINE strict == StrictRequest(req[r])
  <2>1. req' = [req EXCEPT ![r].at = IF strict THEN "unavailable" ELSE "error"]
    BY <1>7 DEF FailureHook
  <2>2. strict <=> req[r].model[1] = "strict" \/ req[r].meta
    BY DEF StrictRequest, HasPrefix
  <2> HIDE DEF strict
  <2>3. /\ req'[r].asked = req[r].asked /\ req'[r].model = req[r].model
        /\ req'[r].meta = req[r].meta
        /\ req'[r].at = IF strict THEN "unavailable" ELSE "error"
    BY <1>0, <2>1
  <2> QED
    BY <2>2, <2>3 DEF Normalised, StaysStrict
<1>8. CASE Leave(r)
  BY <1>0, <1>8, IdleNormalised DEF Leave
<1> QED
  BY <1>1, <1>2, <1>3, <1>4, <1>5, <1>6, <1>7, <1>8

\* A failed strict request surfaces as strict_local_unavailable, and nothing
\* else does, whatever the router's retries and fallbacks made of the name.
THEOREM StrictFailuresAreNormalised == Spec => []StrictFailuresNormalised
<1> DEFINE Inv == \A r \in Requests : StaysStrict(req[r]) /\ Normalised(req[r])
<1>1. Init => Inv
  BY IdleStaysStrict, IdleNormalised DEF Init, StartIn
<1>2. TypeOK /\ Inv /\ [Next]_vars => Inv'
  <2> SUFFICES ASSUME TypeOK, Inv, [Next]_vars
               PROVE  Inv'
    OBVIOUS
  <2>1. CASE PollStep \/ Tick
    <3>1. req' = req
      BY <2>1 DEF PollStep, Wake, Gathered, EndPoll, Scrape, Stamp, SetFlag,
                  RecordUnknown, Tick
    <3> QED
      BY <3>1 DEF StaysStrict, Normalised
  <2>2. CASE RequestStep
    <3>1. PICK r \in Requests :
            \/ Arrive(r) \/ PreCall(r) \/ Decide(r) \/ Route(r) \/ UpstreamFails(r)
            \/ UpstreamAnswers(r) \/ FailureHook(r) \/ Leave(r)
      BY <2>2 DEF RequestStep
    <3>2. /\ StaysStrict(req'[r]) /\ Normalised(req'[r])
          /\ \A q \in Requests \ {r} : req'[q] = req[q]
      BY <3>1, RequestStaysStrict, RequestNormalised
    <3> QED
      BY <3>2 DEF StaysStrict, Normalised
  <2>3. CASE \E e \in Environments : Restart(e)
    BY <2>3, IdleStaysStrict, IdleNormalised DEF Restart, StaysStrict, Normalised
  <2>4. CASE UNCHANGED vars
    BY <2>4 DEF vars, StaysStrict, Normalised
  <2> QED
    BY <2>1, <2>2, <2>3, <2>4 DEF Next
<1>3. Inv => StrictFailuresNormalised
  BY DEF Normalised, StrictFailuresNormalised, HasPrefix
<1> QED
  BY TypeCorrect, <1>1, <1>2, <1>3, PTL DEF Spec

(************************ a strict alias stays gated ***********************)

\* Only the image shim serves a strict name that no chat deployment has, and a
\* chat deployment of a strict name is marked strict.
LEMMA StrictIsMarked ==
  ASSUME NEW e \in Environments, NEW m \in Models, Metrics(e, Strict(m)) # {}
  PROVE  MarkedStrict(e, Strict(m))
<1>1. PICK n \in Nodes, d \in Deployments(e) : d.name = Strict(m) /\ d.via = n
  BY DEF Metrics
<1>2. d \notin LocalImages(e)
  BY <1>1, BackendsDiffer DEF LocalImages, Deployment
<1>3. d \notin Remote(e)
  BY <1>1, BackendsDiffer DEF Remote, Deployment
<1>4. d.strict
  BY <1>1, <1>2, <1>3 DEF Deployments, VllmChat, Deployment, Strict, Local
<1> QED
  BY <1>1, <1>4 DEF MarkedStrict

\* A strict alias of a chat model has a positive cap, whatever the overrides.
LEMMA StrictCap ==
  ASSUME NEW e \in Environments, NEW m \in Models
  PROVE  Strict(m) \in DOMAIN Caps(e) /\ Caps(e)[Strict(m)] > 0
<1>1. \A name \in DOMAIN e.caps : e.caps[name] \in Int
  BY EnvironmentsType DEF IsEnvironment
<1>2. Strict(m) \in DefaultNames \cup Overrides(e) \cup Mirrored(e)
  BY DEF DefaultNames
<1>3. Strict(m)[1] = "strict" /\ Strict(m)[2] = m
  BY DEF Strict
<1>4. CASE Strict(m) \in Mirrored(e)
  <2>1. e.caps[Local(m)] > 0
    BY <1>3, <1>4 DEF Mirrored
  <2> QED
    BY <1>2, <1>3, <1>4, <2>1 DEF Caps
<1>5. CASE Strict(m) \notin Mirrored(e) /\ Strict(m) \in Overrides(e)
  <2>1. Strict(m) \in DOMAIN e.caps /\ ~(e.caps[Strict(m)] <= 0)
    BY <1>3, <1>5 DEF Overrides, HasPrefix
  <2> QED
    BY <1>1, <1>2, <1>5, <2>1 DEF Caps
<1>6. CASE Strict(m) \notin Mirrored(e) /\ Strict(m) \notin Overrides(e)
  <2>1. DefaultCap[m] \in Nat \ {0}
    BY DefaultCapType
  <2> QED
    BY <1>2, <1>3, <1>6, <2>1 DEF Caps
<1> QED
  BY <1>4, <1>5, <1>6

\* No setting of CONCURRENCY_GATE_CAPS takes the gate off a strict alias or
\* makes it spill: for every generated configuration, not those of a run only.
THEOREM StrictAlwaysGated == Spec => []StrictStaysGated
<1>1. TypeOK => StrictStaysGated
  <2> SUFFICES ASSUME TypeOK, NEW m \in Models, Metrics(env, Strict(m)) # {}
               PROVE  Strict(m) \in Gated /\ Mode(Strict(m)) = "reject"
    BY DEF StrictStaysGated
  <2>1. env \in Environments /\ gate = GateMap(env)
    BY DEF TypeOK
  <2>2. MarkedStrict(env, Strict(m))
    BY <2>1, StrictIsMarked
  <2>3. Strict(m) \in DOMAIN Caps(env) /\ Caps(env)[Strict(m)] > 0
    BY <2>1, StrictCap
  <2>4. Strict(m) \in GatedIn(env)
    BY <2>2, <2>3 DEF GatedIn
  <2>5. GateMap(env)[Strict(m)].mode = "reject"
    BY <2>2, <2>4 DEF GateMap
  <2> QED
    BY <2>1, <2>4, <2>5, GateFacts DEF Gated, Mode
<1> QED
  BY TypeCorrect, <1>1, PTL

(************************ normal requests spill on load ********************)

\* The flag of a name that spills was set by a poll that saw it full, and a hook
\* never finds such a name stale.
SpillInv ==
  /\ \A name \in Gated : Mode(name) # "reject" /\ saturated[name] => overload[name]
  /\ \A r \in Requests :
       req[r].at = "deciding" /\ Mode(req[r].model) # "reject" => ~req[r].stale

LEMMA StartSpill ==
  ASSUME NEW e \in Environments, StartIn(e)
  PROVE  SpillInv
BY GateFacts DEF StartIn, InitialFlags, SpillInv, IdleRequest, Gated, Mode

LEMMA RestartSpill ==
  ASSUME NEW e \in Environments, Restart(e)
  PROVE  SpillInv'
BY GateFacts DEF Restart, InitialFlags, SpillInv, IdleRequest, Gated, Mode

LEMMA PollSpill ==
  ASSUME TypeOK, SpillInv, PollStep \/ Tick
  PROVE  SpillInv'
<1>0. /\ saturated \in [Gated -> BOOLEAN] /\ overload \in [Gated -> BOOLEAN]
  BY DEF TypeOK
<1>1. gate' = gate /\ req' = req
  BY DEF PollStep, Wake, Gathered, EndPoll, Scrape, Stamp, SetFlag, RecordUnknown,
         Tick, fixedVars
<1>2. ASSUME NEW name \in Gated, Mode(name) # "reject", saturated'[name]
      PROVE  overload'[name]
  <2>1. CASE UNCHANGED <<saturated, overload>>
    BY <1>2, <2>1 DEF SpillInv
  <2>2. ASSUME NEW x \in Gated, SetFlag(x)
        PROVE  overload'[name]
    BY <1>0, <1>2, <2>2 DEF SetFlag, SpillInv
  <2>3. ASSUME NEW x \in Gated, RecordUnknown(x)
        PROVE  overload'[name]
    BY <1>0, <1>2, <2>3 DEF RecordUnknown, FlagWhenUnknown, SpillInv
  <2>4. \/ UNCHANGED <<saturated, overload>>
        \/ \E x \in Gated : SetFlag(x) \/ RecordUnknown(x)
    BY DEF PollStep, Wake, Gathered, EndPoll, Scrape, Stamp, Tick, stateVars
  <2> QED
    BY <2>1, <2>2, <2>3, <2>4
<1> QED
  BY <1>1, <1>2 DEF SpillInv, Gated, Mode

LEMMA RequestSpill ==
  ASSUME TypeOK, SpillInv, RequestStep
  PROVE  SpillInv'
<1>1. PICK r \in Requests :
        \/ Arrive(r) \/ PreCall(r) \/ Decide(r) \/ Route(r) \/ UpstreamFails(r)
        \/ UpstreamAnswers(r) \/ FailureHook(r) \/ Leave(r)
  BY DEF RequestStep
<1>2. UNCHANGED <<fixedVars, stateVars, pollVars>>
  BY <1>1 DEF Arrive, PreCall, Decide, Route, UpstreamFails, UpstreamAnswers,
              FailureHook, Leave
<1>3. \A q \in Requests \ {r} : req'[q] = req[q]
  BY <1>1 DEF Arrive, PreCall, Decide, Route, UpstreamFails, UpstreamAnswers,
              FailureHook, Leave, TypeOK
<1>4. req'[r].at = "deciding" =>
        req'[r].model = req[r].model /\ req'[r].stale = StrictStateStale(req[r].model)
  BY <1>1, DecidingIsNew
<1>5. req'[r].at = "deciding" /\ Mode(req'[r].model) # "reject" => ~req'[r].stale
  BY <1>4 DEF StrictStateStale
<1> QED
  BY <1>2, <1>3, <1>5 DEF SpillInv, Gated, Mode, fixedVars, stateVars

\* A normal request is sent to its OpenRouter twin on an observed overload or a
\* forced alias only; a poll that cannot see the nodes leaves it local.
THEOREM SpillNeedsOverload == Spec => SpillOnlyOnOverload
<1>1. Init => SpillInv
  BY StartSpill DEF Init
<1>2. TypeOK /\ SpillInv /\ [Next]_vars => SpillInv'
  <2> SUFFICES ASSUME TypeOK, SpillInv, [Next]_vars
               PROVE  SpillInv'
    OBVIOUS
  <2>1. CASE UNCHANGED vars
    BY <2>1 DEF vars, fixedVars, stateVars, SpillInv, Gated, Mode
  <2> QED
    BY <2>1, PollSpill, RequestSpill, RestartSpill DEF Next
<1> DEFINE Spill == \A r \in Requests :
       (req[r].at = "deciding" /\ req'[r].at = "admitted" /\ req'[r].model # req[r].model)
         => overload[req[r].model] \/ req[r].model \in env.force
<1>3. TypeOK /\ SpillInv /\ [Next]_vars => [Spill]_vars
  <2> SUFFICES ASSUME TypeOK, SpillInv, Next, NEW r \in Requests,
                      req[r].at = "deciding", req'[r].at = "admitted",
                      req'[r].model # req[r].model
               PROVE  overload[req[r].model] \/ req[r].model \in env.force
    OBVIOUS
  <2>1. Decide(r)
    BY AdmitsByDecide
  <2>2. req = [q \in Requests |-> req[q]] /\ req[r].model \in Gated
        /\ DOMAIN req[r] = {"at", "model", "asked", "meta", "stale", "via"}
    BY RequestTypes DEF TypeOK
  <2>3. Mode(req[r].model) # "reject"
    BY <2>1, <2>2 DEF Decide
  <2>4. req[r].model \in env.force \/ saturated[req[r].model] \/ req[r].stale
    BY <2>1, <2>2 DEF Decide
  <2> QED
    BY <2>2, <2>3, <2>4 DEF SpillInv
<1> QED
  BY TypeCorrect, <1>1, <1>2, <1>3, PTL DEF Spec, SpillOnlyOnOverload
=============================================================================
