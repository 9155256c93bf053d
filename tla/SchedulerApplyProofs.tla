------------------------ MODULE SchedulerApplyProofs ------------------------
(***************************************************************************)
(* Runs of scheduler apply over any nodes, models, plans and failures:     *)
(* what they put up has the options of the plan, what they route is there, *)
(* a run without failures repairs what others left and leaves nothing to   *)
(* do, and without failures at all no container drifts from its .env and   *)
(* "no changes" is true.                                                   *)
(***************************************************************************)
EXTENDS SchedulerApply, TLAPS

\* What is left to do is about what the plan has: options and services of placed
\* models.
TodoInv ==
  \A a \in todo :
    /\ a \in ActType
    /\ a.kind = "env" => a.option \in Options
    /\ a.kind # "stop" => plan[a.node][a.model] # None

\* On a node nothing has failed on, each option of a placed model is still to be
\* written or is in the .env already, if only as compose's default.
InForce(n, m, o) ==
  \/ Act("env", n, m, o) \in todo
  \/ Effective(env[n][m])[o] = plan[n][m][o]

WrittenInv ==
  pc # "idle" =>
    \A n \in Nodes : "env" \in answer[n] /\ n \notin failed =>
      \A m \in Models : plan[n][m] # None => \A o \in Options : InForce(n, m, o)

Inv == TypeOK /\ TodoInv /\ WrittenInv

(****************************** the operators ******************************)

LEMMA EffectiveType ==
  ASSUME NEW options \in [Options -> Nat]
  PROVE  Effective(options) \in Placements
BY DEF Effective, Placements, Default, Unset, Options

\* An option the diff leaves alone has the planned value as it is.
LEMMA LeftAlone ==
  ASSUME NEW options \in [Options -> Nat], NEW value \in [Options -> Nat \ {0}],
         NEW o \in Options, ~Restated(options[o], o, value[o])
  PROVE  Effective(options)[o] = value[o]
<1>1. CASE options[o] = value[o]
  BY <1>1 DEF Effective, Unset
<1>2. CASE options[o] # value[o]
  <2>1. o = "TP" /\ value[o] = 1 /\ options[o] \in {0, 1}
    BY <1>2 DEF Restated, Unset, Options
  <2> QED
    BY <2>1 DEF Effective, Default, Unset
<1> QED
  BY <1>1, <1>2

LEMMA OptionsType ==
  ASSUME TypeOK, NEW n \in Nodes, NEW m \in Models
  PROVE  env[n][m] \in [Options -> Nat]
<1>1. env \in [Nodes -> [Models -> [Options -> Nat]]]
  BY DEF TypeOK
<1> QED
  BY <1>1

LEMMA PlacedType ==
  ASSUME TypeOK, NEW n \in Nodes, NEW m \in Models, plan[n][m] # None
  PROVE  plan[n][m] \in Placements
<1>1. plan \in [Nodes -> [Models -> Placements \cup {None}]]
  BY DEF TypeOK
<1> QED
  BY <1>1

LEMMA PlannedType ==
  ASSUME TypeOK, NEW n \in Nodes, NEW m \in Models, plan[n][m] # None
  PROVE  plan[n][m] \in [Options -> Nat \ {0}]
<1>1. plan[n][m] \in Placements
  BY PlacedType
<1> QED
  BY <1>1 DEF Placements, Unset

\* A bounded counter that goes up below its bound stays in it.
LEMMA CountsUp ==
  ASSUME NEW max \in Nat, NEW x \in 0..max, NEW y, y = x \/ (x < max /\ y = x + 1)
  PROVE  y \in 0..max
OBVIOUS

LEMMA CountersType ==
  ASSUME TypeOK
  PROVE  /\ MAX_FAILURES \in Nat /\ failures \in 0..MAX_FAILURES
         /\ MAX_SURPRISES \in Nat /\ surprises \in 0..MAX_SURPRISES
BY PlansType DEF TypeOK

LEMMA DeadType ==
  ASSUME TypeOK, NEW a \in ActType
  PROVE  Dead(a) \subseteq Nodes \X Models
<1>1. dead \subseteq Nodes \X Models
  BY DEF TypeOK
<1>2. a.node \in Nodes /\ a.model \in Models
  BY DEF ActType
<1>3. <<a.node, a.model>> \in Nodes \X Models
  BY <1>2
<1> QED
  BY <1>1, <1>3 DEF Dead

LEMMA EnvFirst ==
  ASSUME NEW a, NEW n, NEW m, NEW o, Turn(a), Routed(a), a.node = n
  PROVE  Act("env", n, m, o) \notin todo
<1>1. Before(Act("env", n, m, o), a)
  BY DEF Before, Act, Phase, Routed
<1> QED
  BY <1>1 DEF Turn

LEMMA DiffType ==
  ASSUME NEW p \in Plans, NEW ans \in Probes, NEW a \in Diff(p, ans)
  PROVE  /\ a \in ActType
         /\ a.kind = "env" => a.option \in Options
         /\ a.kind # "stop" => p[a.node][a.model] # None
<1>1. PICK n \in Nodes, m \in Models :
        a \in EnvWrites(p, ans, n, m) \cup ServiceActions(p, ans, n, m)
  BY DEF Diff
<1>2. CASE a \in EnvWrites(p, ans, n, m)
  <2>1. PICK o \in Options : a = Act("env", n, m, o) /\ p[n][m] # None
    BY <1>2 DEF EnvWrites
  <2> QED
    BY <2>1 DEF Act, ActType
<1>3. CASE a \in ServiceActions(p, ans, n, m)
  <2>1. \/ a = Act("stop", n, m, "-")
        \/ a \in {Act("start", n, m, "-"), Act("recreate", n, m, "-")} /\ p[n][m] # None
    BY <1>3 DEF ServiceActions
  <2> QED
    BY <2>1 DEF Act, ActType
<1> QED
  BY <1>1, <1>2, <1>3

\* A routed service that is run comes up with the planned options.
LEMMA ComesUpAsPlanned ==
  ASSUME Inv, NEW a \in todo, Turn(a), Routed(a), ~Skipped(a.node),
         "env" \in answer[a.node]
  PROVE  Effective(env[a.node][a.model]) = plan[a.node][a.model]
<1> DEFINE n == a.node
           m == a.model
<1>1. n \in Nodes /\ m \in Models /\ plan[n][m] # None
  BY DEF Inv, TodoInv, ActType, Routed
<1>2. plan[n][m] \in Placements /\ env[n][m] \in [Options -> Nat]
  BY <1>1, PlacedType, OptionsType DEF Inv
<1>3. \A o \in Options : InForce(n, m, o)
  BY <1>1 DEF Inv, WrittenInv, Turn, Skipped
<1>4. \A o \in Options : Act("env", n, m, o) \notin todo
  BY EnvFirst
<1>5. \A o \in Options : Effective(env[n][m])[o] = plan[n][m][o]
  BY <1>3, <1>4 DEF InForce
<1>6. Effective(env[n][m]) \in Placements
  BY <1>2, EffectiveType
<1> QED
  BY <1>2, <1>5, <1>6 DEF Placements

(********************************** steps **********************************)

LEMMA InitOK == Init => Inv
BY PlansType DEF Init, Inv, TypeOK, TodoInv, WrittenInv, Nothing, Unset, Options, Probes, Reads

LEMMA ProbeKeeps ==
  ASSUME Inv, NEW p \in Plans, NEW ans \in Probes, Probe(p, ans)
  PROVE  Inv'
<1>1. TodoInv'
  BY DiffType DEF Probe, TodoInv
<1>2. TypeOK'
  <2>1. todo' \subseteq ActType
    BY <1>1 DEF TodoInv
  <2>2. said' \in {"no changes", "nothing"} /\ pc' \in {"idle", "confirm"}
    BY DEF Probe, Said
  <2>3. surprises' \in 0..MAX_SURPRISES
    <3>1. surprises' = surprises \/ (surprises < MAX_SURPRISES /\ surprises' = surprises + 1)
      BY DEF Probe
    <3> QED
      BY <3>1, CountersType, CountsUp DEF Inv
  <2>4. plan' \in [Nodes -> [Models -> Placements \cup {None}]]
    BY PlansType DEF Probe
  <2> QED
    BY <2>1, <2>2, <2>3, <2>4 DEF Probe, Inv, TypeOK
<1>3. ASSUME NEW n \in Nodes, "env" \in ans[n], NEW m \in Models, p[n][m] # None,
             NEW o \in Options
      PROVE  InForce(n, m, o)'
  <2>1. p[n][m] \in [Options -> Nat \ {0}] /\ env[n][m] \in [Options -> Nat]
    <3>1. p \in [Nodes -> [Models -> Placements \cup {None}]]
      BY PlansType
    <3>2. p[n][m] \in Placements \cup {None}
      BY <3>1
    <3>3. p[n][m] \in Placements
      BY <1>3, <3>2
    <3>4. p[n][m] \in [Options -> Nat \ {0}]
      BY <3>3 DEF Placements, Unset
    <3>5. env[n][m] \in [Options -> Nat]
      BY OptionsType DEF Inv
    <3> QED
      BY <3>4, <3>5
  <2>2. CASE Restated(env[n][m][o], o, p[n][m][o])
    <3>1. Act("env", n, m, o) \in EnvWrites(p, ans, n, m)
      BY <1>3, <2>2 DEF EnvWrites, Here
    <3> DEFINE Of(k, l) == EnvWrites(p, ans, k, l) \cup ServiceActions(p, ans, k, l)
    <3>a. Of(n, m) \in {Of(k, l) : k \in Nodes, l \in Models}
      OBVIOUS
    <3>b. Act("env", n, m, o) \in Of(n, m)
      BY <3>1
    <3> HIDE DEF Of
    <3>c. Act("env", n, m, o) \in UNION {Of(k, l) : k \in Nodes, l \in Models}
      BY <3>a, <3>b
    <3>2. Act("env", n, m, o) \in Diff(p, ans)
      BY <3>c DEF Diff, Of
    <3> QED
      BY <3>2 DEF InForce, Probe
  <2>3. CASE ~Restated(env[n][m][o], o, p[n][m][o])
    <3>1. Effective(env[n][m])[o] = p[n][m][o]
      BY <2>1, <2>3, LeftAlone
    <3> QED
      BY <3>1 DEF InForce, Probe, Effective
  <2> QED
    BY <2>2, <2>3
<1>4. WrittenInv'
  BY <1>3 DEF WrittenInv, Probe
<1> QED
  BY <1>1, <1>2, <1>4 DEF Inv

\* What Takes does to the types and to the options in force.
LEMMA TakesFacts ==
  ASSUME Inv, NEW a \in todo, Turn(a), Takes(a)
  PROVE  /\ env' \in [Nodes -> [Models -> [Options -> Nat]]]
         /\ running' \in [Nodes -> [Models -> Placements \cup {None}]]
         /\ \A n \in Nodes, m \in Models, o \in Options :
              Act("env", n, m, o) # a => env'[n][m][o] = env[n][m][o]
         /\ a.kind = "env" =>
              env'[a.node][a.model][a.option] = plan[a.node][a.model][a.option]
<1>1. a \in ActType /\ (a.kind = "env" => a.option \in Options)
      /\ (a.kind # "stop" => plan[a.node][a.model] # None)
  BY DEF Inv, TodoInv
<1>2. a.node \in Nodes /\ a.model \in Models
  BY <1>1 DEF ActType
<1>3. CASE a.kind = "env" /\ WriteOption(a)
  <2>1. plan[a.node][a.model] \in [Options -> Nat \ {0}]
    BY <1>1, <1>2, <1>3, PlannedType DEF Inv
  <2>2. plan[a.node][a.model][a.option] \in Nat
    BY <2>1, <1>1, <1>3
  <2>3. env' = [env EXCEPT ![a.node][a.model][a.option] = plan[a.node][a.model][a.option]]
        /\ running' = running
    BY <1>3 DEF WriteOption
  <2>4. env \in [Nodes -> [Models -> [Options -> Nat]]]
    BY DEF Inv, TypeOK
  <2>5. env' \in [Nodes -> [Models -> [Options -> Nat]]]
    BY <2>2, <2>3, <2>4
  <2>6. ASSUME NEW n \in Nodes, NEW m \in Models, NEW o \in Options, Act("env", n, m, o) # a
        PROVE  env'[n][m][o] = env[n][m][o]
    <3>1. ~(n = a.node /\ m = a.model /\ o = a.option)
      BY <2>6, <1>1, <1>3 DEF Act, ActType
    <3> QED
      BY <3>1, <2>3, <2>4, <1>1, <1>2, <1>3
  <2>7. env'[a.node][a.model][a.option] = plan[a.node][a.model][a.option]
    BY <2>3, <2>4, <1>1, <1>2, <1>3
  <2> QED
    BY <2>3, <2>5, <2>6, <2>7, <1>3 DEF Inv, TypeOK
<1>4. CASE a.kind = "stop" /\ Compose(a, None)
  BY <1>2, <1>4 DEF Compose, Inv, TypeOK
<1>5. CASE Routed(a) /\ Compose(a, Effective(env[a.node][a.model]))
  <2>1. env[a.node][a.model] \in [Options -> Nat]
    BY <1>2, OptionsType DEF Inv
  <2>2. Effective(env[a.node][a.model]) \in Placements
    BY <2>1, EffectiveType
  <2> QED
    BY <1>2, <1>5, <2>2 DEF Compose, Routed, Inv, TypeOK
<1> QED
  BY <1>3, <1>4, <1>5 DEF Takes

\* Taking an action off the list keeps the options in force where they were.
LEMMA StaysInForce ==
  ASSUME Inv, NEW a \in todo, todo' = todo \ {a}, plan' = plan,
         env' \in [Nodes -> [Models -> [Options -> Nat]]],
         NEW n \in Nodes, NEW m \in Models, NEW o \in Options, InForce(n, m, o),
         Act("env", n, m, o) # a => env'[n][m][o] = env[n][m][o],
         Act("env", n, m, o) = a => env'[n][m][o] = plan[n][m][o] /\ plan[n][m][o] # Unset
  PROVE  InForce(n, m, o)'
<1>1. Effective(env'[n][m]) = Effective(env[n][m])' BY DEF Effective
<1>2. CASE Act("env", n, m, o) = a
  BY <1>2 DEF InForce, Effective
<1>3. CASE Act("env", n, m, o) # a
  BY <1>3 DEF InForce, Effective
<1> QED
  BY <1>2, <1>3

LEMMA RunKeeps ==
  ASSUME Inv, NEW a \in todo, Run(a)
  PROVE  Inv'
<1>0. a \in ActType /\ (a.kind = "env" => a.option \in Options)
      /\ (a.kind # "stop" => plan[a.node][a.model] # None)
  BY DEF Inv, TodoInv
<1>1. /\ env' \in [Nodes -> [Models -> [Options -> Nat]]]
      /\ running' \in [Nodes -> [Models -> Placements \cup {None}]]
      /\ \A n \in Nodes, m \in Models, o \in Options :
           Act("env", n, m, o) # a => env'[n][m][o] = env[n][m][o]
      /\ a.kind = "env" =>
           env'[a.node][a.model][a.option] = plan[a.node][a.model][a.option]
  BY TakesFacts DEF Run
<1>2. TypeOK'
  BY <1>1 DEF Run, Inv, TypeOK
<1>3. TodoInv'
  BY DEF Run, Inv, TodoInv
<1>4. ASSUME NEW n \in Nodes, "env" \in answer[n], n \notin failed, NEW m \in Models,
             plan[n][m] # None, NEW o \in Options
      PROVE  InForce(n, m, o)'
  <2>1. InForce(n, m, o)
    BY <1>4 DEF Inv, WrittenInv, Run, Turn
  <2>2. plan[n][m][o] # Unset
    BY <1>4, PlannedType DEF Inv, Unset
  <2>3. Act("env", n, m, o) = a => env'[n][m][o] = plan[n][m][o]
    BY <1>1 DEF Act
  <2> QED
    BY <1>1, <2>1, <2>2, <2>3, StaysInForce DEF Run
<1>5. WrittenInv'
  BY <1>4 DEF WrittenInv, Run, Turn
<1> QED
  BY <1>2, <1>3, <1>5 DEF Inv

LEMMA FailKeeps ==
  ASSUME Inv, NEW a \in todo, Fail(a)
  PROVE  Inv'
<1>0. a \in ActType
  BY DEF Inv, TodoInv
<1>n. a.node \in Nodes /\ a.model \in Models
  BY <1>0 DEF ActType
<1>1. /\ env' \in [Nodes -> [Models -> [Options -> Nat]]]
      /\ running' \in [Nodes -> [Models -> Placements \cup {None}]]
      /\ \A n \in Nodes, m \in Models, o \in Options :
           n # a.node => env'[n][m][o] = env[n][m][o]
  <2>1. CASE Takes(a)
    <3>1. \A n \in Nodes, m \in Models, o \in Options :
            n # a.node => Act("env", n, m, o) # a
      BY DEF Act
    <3> QED
      BY <2>1, <3>1, TakesFacts DEF Fail
  <2>2. CASE UNCHANGED nodeVars
    BY <2>2 DEF nodeVars, Inv, TypeOK
  <2>3. CASE Compose(a, None)
    BY <2>3, <1>n DEF Compose, Inv, TypeOK
  <2> QED
    BY <2>1, <2>2, <2>3 DEF Fail
<1>2. TypeOK'
  <2>1. dead' \subseteq Nodes \X Models
    BY <1>0, DeadType DEF Fail, Inv
  <2>2. failures' \in 0..MAX_FAILURES
    BY CountersType, CountsUp DEF Fail, Inv
  <2> QED
    BY <1>1, <1>n, <2>1, <2>2 DEF Fail, Inv, TypeOK
<1>3. TodoInv'
  BY DEF Fail, Inv, TodoInv
<1>4. ASSUME NEW n \in Nodes, "env" \in answer[n], n \notin failed', NEW m \in Models,
             plan[n][m] # None, NEW o \in Options
      PROVE  InForce(n, m, o)'
  <2>1. n # a.node /\ n \notin failed
    BY <1>4 DEF Fail
  <2>2. InForce(n, m, o) /\ Act("env", n, m, o) # a
    BY <1>4, <2>1 DEF Inv, WrittenInv, Fail, Turn, Act
  <2> QED
    BY <1>1, <2>1, <2>2, StaysInForce DEF Fail
<1>5. WrittenInv'
  BY <1>4 DEF WrittenInv, Fail, Turn
<1> QED
  BY <1>2, <1>3, <1>5 DEF Inv

LEMMA SkipKeeps ==
  ASSUME Inv, NEW a \in todo, Skip(a)
  PROVE  Inv'
<1>0. a \in ActType
  BY DEF Inv, TodoInv
<1>1. TypeOK'
  <2>1. dead' \subseteq Nodes \X Models
    BY <1>0, DeadType DEF Skip, Inv
  <2> QED
    BY <2>1 DEF Skip, Inv, TypeOK
<1>2. TodoInv'
  BY DEF Skip, Inv, TodoInv
<1>3. ASSUME NEW n \in Nodes, "env" \in answer[n], n \notin failed, NEW m \in Models,
             plan[n][m] # None, NEW o \in Options
      PROVE  InForce(n, m, o)'
  <2>1. InForce(n, m, o) /\ Act("env", n, m, o) # a
    BY <1>3 DEF Inv, WrittenInv, Skip, Turn, Act, Skipped
  <2> QED
    BY <2>1, StaysInForce DEF Skip, Inv, TypeOK
<1>4. WrittenInv'
  BY <1>3 DEF WrittenInv, Skip, Turn
<1> QED
  BY <1>1, <1>2, <1>4 DEF Inv

LEMMA FinishKeeps ==
  ASSUME Inv, Finish
  PROVE  Inv'
<1>1. TypeOK'
  <2>1. urls' \in [Models -> SUBSET Nodes]
    BY DEF Finish, Alive, Desired, Inv, TypeOK
  <2> QED
    BY <2>1 DEF Finish, Said, Inv, TypeOK
<1> QED
  BY <1>1 DEF Finish, Said, Inv, TodoInv, WrittenInv

LEMMA KilledKeeps ==
  ASSUME Inv, Killed
  PROVE  Inv'
<1>1. failures' \in 0..MAX_FAILURES
  BY CountersType, CountsUp DEF Killed, Inv
<1> QED
  BY <1>1 DEF Killed, Said, Inv, TypeOK, TodoInv, WrittenInv

LEMMA StopsKeeps ==
  ASSUME Inv, NEW n \in Nodes, NEW m \in Models, Stops(n, m)
  PROVE  Inv'
<1>1. TypeOK'
  <2>1. surprises' \in 0..MAX_SURPRISES
    BY CountersType, CountsUp DEF Stops, Inv
  <2>2. running' \in [Nodes -> [Models -> Placements \cup {None}]]
    BY DEF Stops, Inv, TypeOK
  <2>3. lost' \subseteq Nodes \X Models
    <3>1. lost \subseteq Nodes \X Models
      BY DEF Inv, TypeOK
    <3>2. <<n, m>> \in Nodes \X Models
      OBVIOUS
    <3> QED
      BY <3>1, <3>2 DEF Stops
  <2> QED
    BY <2>1, <2>2, <2>3 DEF Stops, runVars, Inv, TypeOK
<1>2. UNCHANGED <<env, pc, plan, answer, todo, failed>>
  BY DEF Stops, runVars
<1>3. TodoInv' /\ WrittenInv'
  BY <1>2 DEF Inv, TodoInv, WrittenInv, InForce, Effective
<1> QED
  BY <1>1, <1>3 DEF Inv

LEMMA StepOK == Inv /\ [Next]_vars => Inv'
<1> SUFFICES ASSUME Inv, [Next]_vars PROVE Inv'
  OBVIOUS
<1>1. ASSUME NEW p \in Plans, NEW ans \in Probes, Probe(p, ans) PROVE Inv'
  BY <1>1, ProbeKeeps
<1>2. CASE Confirm
  <2>1. TypeOK'
    BY <1>2 DEF Confirm, Inv, TypeOK
  <2>2. UNCHANGED <<env, plan, answer, todo, failed>> /\ pc # "idle"
    BY <1>2 DEF Confirm
  <2>3. TodoInv' /\ WrittenInv'
    BY <2>2 DEF Inv, TodoInv, WrittenInv, InForce, Effective
  <2> QED
    BY <2>1, <2>3 DEF Inv
<1>3. CASE Decline
  BY <1>3 DEF Decline, Said, Inv, TypeOK, TodoInv, WrittenInv
<1>4. CASE Finish
  BY <1>4, FinishKeeps
<1>5. CASE Killed
  BY <1>5, KilledKeeps
<1>6. ASSUME NEW a \in todo, Run(a) \/ Fail(a) \/ Skip(a) PROVE Inv'
  BY <1>6, RunKeeps, FailKeeps, SkipKeeps
<1>7. ASSUME NEW n \in Nodes, NEW m \in Models, Stops(n, m) PROVE Inv'
  BY <1>7, StopsKeeps
<1>8. CASE UNCHANGED vars
  <2>1. TypeOK'
    BY <1>8 DEF vars, runVars, Inv, TypeOK
  <2>2. UNCHANGED <<env, pc, plan, answer, todo, failed>>
    BY <1>8 DEF vars, runVars
  <2>3. TodoInv' /\ WrittenInv'
    BY <2>2 DEF Inv, TodoInv, WrittenInv, InForce, Effective
  <2> QED
    BY <2>1, <2>3 DEF Inv
<1> QED
  BY <1>1, <1>2, <1>3, <1>4, <1>5, <1>6, <1>7, <1>8 DEF Next

LEMMA Invariance == Spec => []Inv
<1> QED
  BY InitOK, StepOK, PTL DEF Spec

\* scheduler apply: the state keeps its types, in any number of runs.
THEOREM TypeCorrect == Spec => []TypeOK
<1>1. Inv => TypeOK
  BY DEF Inv
<1> QED
  BY <1>1, Invariance, PTL

(******************************** the theorem ******************************)

AsPlanned ==
  \A n \in Nodes, m \in Models :
    running'[n][m] \notin {None, running[n][m]} /\ "env" \in answer[n]
      => running'[n][m] = plan[n][m]

LEMMA ActionStarts ==
  ASSUME Inv, NEW a \in todo, Turn(a), ~Skipped(a.node),
         \/ Takes(a)
         \/ UNCHANGED nodeVars
         \/ Routed(a) /\ Compose(a, None)
  PROVE  AsPlanned
<1> SUFFICES ASSUME NEW n \in Nodes, NEW m \in Models,
                    running'[n][m] \notin {None, running[n][m]}, "env" \in answer[n]
             PROVE  running'[n][m] = plan[n][m]
  BY DEF AsPlanned
<1>0. a.node \in Nodes /\ a.model \in Models
  BY DEF Inv, TodoInv, ActType
<1>1. CASE Routed(a) /\ Compose(a, Effective(env[a.node][a.model]))
  <2>1. n = a.node /\ m = a.model /\ running'[n][m] = Effective(env[n][m])
    BY <1>0, <1>1 DEF Compose, Inv, TypeOK
  <2> QED
    BY <1>1, <2>1, ComesUpAsPlanned
<1>2. CASE Compose(a, None)
  BY <1>0, <1>2 DEF Compose, Inv, TypeOK
<1>3. CASE running' = running
  BY <1>3
<1> QED
  BY <1>1, <1>2, <1>3 DEF Takes, WriteOption, nodeVars

\* scheduler apply: whatever runs before it have left and whatever fails in this
\* one, a container it puts up on a node whose .env was read has the options of
\* the plan.
THEOREM StartsAsPlanned == Spec => StartedAsPlanned
<1>1. Inv /\ [Next]_vars => [AsPlanned]_vars
  <2> SUFFICES ASSUME Inv, [Next]_vars PROVE [AsPlanned]_vars
    OBVIOUS
  <2>1. ASSUME NEW p \in Plans, NEW ans \in Probes, Probe(p, ans) PROVE AsPlanned
    BY <2>1 DEF Probe, AsPlanned
  <2>2. CASE Confirm \/ Decline \/ Finish \/ Killed
    BY <2>2 DEF Confirm, Decline, Finish, Killed, AsPlanned
  <2>3. ASSUME NEW a \in todo, Run(a) \/ Fail(a) PROVE AsPlanned
    BY <2>3, ActionStarts DEF Run, Fail
  <2>4. ASSUME NEW a \in todo, Skip(a) PROVE AsPlanned
    BY <2>4 DEF Skip, AsPlanned
  <2>5. ASSUME NEW n \in Nodes, NEW m \in Models, Stops(n, m) PROVE AsPlanned
    BY <2>5 DEF Stops, AsPlanned, Inv, TypeOK
  <2> QED
    BY <2>1, <2>2, <2>3, <2>4, <2>5 DEF Next
<1> QED
  BY <1>1, Invariance, PTL DEF Spec, StartedAsPlanned, AsPlanned

(****************************** the routes *********************************)

\* A service that is stopped is not in the plan, and services have no option.
ServiceTodo ==
  \A a \in todo :
    /\ a.kind = "stop" => plan[a.node][a.model] = None
    /\ a.kind # "env" => a = Act(a.kind, a.node, a.model, "-")

\* A placed service is there, was there at the probe, will be started, or is one
\* of those whose URL is dropped.
ServedOrDead(n, m) ==
  \/ running[n][m] # None
  \/ <<n, m>> \in lost
  \/ Act("start", n, m, "-") \in todo
  \/ <<n, m>> \in dead

ServedInv ==
  pc # "idle" =>
    \A n \in Nodes, m \in Models : plan[n][m] # None => ServedOrDead(n, m)

RouteInv == ServiceTodo /\ ServedInv

LEMMA DiffServices ==
  ASSUME NEW p \in Plans, NEW ans \in Probes, NEW a \in Diff(p, ans)
  PROVE  /\ a.kind = "stop" => p[a.node][a.model] = None
         /\ a.kind # "env" => a = Act(a.kind, a.node, a.model, "-")
<1>1. PICK n \in Nodes, m \in Models :
        a \in EnvWrites(p, ans, n, m) \cup ServiceActions(p, ans, n, m)
  BY DEF Diff
<1>2. CASE a \in EnvWrites(p, ans, n, m)
  BY <1>2 DEF EnvWrites, Act
<1>3. CASE a \in ServiceActions(p, ans, n, m)
  <2>1. \/ a = Act("stop", n, m, "-") /\ p[n][m] = None
        \/ a \in {Act("start", n, m, "-"), Act("recreate", n, m, "-")}
    BY <1>3 DEF ServiceActions
  <2> QED
    BY <2>1 DEF Act
<1> QED
  BY <1>1, <1>2, <1>3

LEMMA ProbeServes ==
  ASSUME NEW p \in Plans, NEW ans \in Probes, Probe(p, ans)
  PROVE  RouteInv'
<1>1. ServiceTodo'
  BY DiffServices DEF ServiceTodo, Probe
<1>2. ASSUME NEW n \in Nodes, NEW m \in Models, p[n][m] # None, running[n][m] = None
      PROVE  Act("start", n, m, "-") \in Diff(p, ans)
  <2> DEFINE Of(k, l) == EnvWrites(p, ans, k, l) \cup ServiceActions(p, ans, k, l)
  <2>1. Act("start", n, m, "-") \in Of(n, m)
    BY <1>2 DEF ServiceActions, Have
  <2>2. Of(n, m) \in {Of(k, l) : k \in Nodes, l \in Models}
    OBVIOUS
  <2> HIDE DEF Of
  <2>3. Act("start", n, m, "-") \in UNION {Of(k, l) : k \in Nodes, l \in Models}
    BY <2>1, <2>2
  <2> QED
    BY <2>3 DEF Diff, Of
<1>3. ServedInv'
  BY <1>2 DEF ServedInv, ServedOrDead, Probe
<1> QED
  BY <1>1, <1>3 DEF RouteInv

\* An action leaves every other container as it is; a service it puts up is
\* there, and one it takes away is not in the plan.
LEMMA ServesFacts ==
  ASSUME Inv, NEW a \in todo, NEW n \in Nodes, NEW m \in Models
  PROVE  /\ Compose(a, None) /\ (a.node # n \/ a.model # m)
              => running'[n][m] = running[n][m]
         /\ Takes(a) /\ (a.node # n \/ a.model # m \/ a.kind = "env")
              => running'[n][m] = running[n][m]
         /\ Takes(a) /\ a.node = n /\ a.model = m /\ Routed(a)
              => running'[n][m] # None
<1>1. a.node \in Nodes /\ a.model \in Models
  BY DEF Inv, TodoInv, ActType
<1>2. running \in [Nodes -> [Models -> Placements \cup {None}]]
  BY DEF Inv, TypeOK
<1>3. Compose(a, None) /\ (a.node # n \/ a.model # m) => running'[n][m] = running[n][m]
  BY <1>1, <1>2 DEF Compose
<1>4. Takes(a) /\ a.kind = "env" => running' = running
  BY DEF Takes, WriteOption, Routed
<1>5. ASSUME Takes(a), a.node # n \/ a.model # m
      PROVE  running'[n][m] = running[n][m]
  BY <1>1, <1>2, <1>4, <1>5 DEF Takes, WriteOption, Compose
<1>6. ASSUME Takes(a), Routed(a), a.node = n, a.model = m
      PROVE  running'[n][m] # None
  <2>1. env[n][m] \in [Options -> Nat]
    BY OptionsType DEF Inv
  <2>2. Effective(env[n][m]) \in Placements
    BY <2>1, EffectiveType
  <2>3. running'[n][m] = Effective(env[n][m])
    BY <1>2, <1>6 DEF Takes, Compose, Routed
  <2> QED
    BY <2>2, <2>3, PlansType
<1> QED
  BY <1>3, <1>4, <1>5, <1>6

LEMMA RunServes ==
  ASSUME Inv, RouteInv, NEW a \in todo, Run(a)
  PROVE  RouteInv'
<1>1. ServiceTodo'
  BY DEF Run, RouteInv, ServiceTodo
<1>2. ASSUME NEW n \in Nodes, NEW m \in Models, plan[n][m] # None
      PROVE  ServedOrDead(n, m)'
  <2>1. ServedOrDead(n, m)
    BY <1>2 DEF RouteInv, ServedInv, Run, Turn
  <2>2. CASE a.node = n /\ a.model = m /\ Routed(a)
    BY <2>2, ServesFacts DEF Run, ServedOrDead
  <2>3. CASE a.node # n \/ a.model # m \/ a.kind = "env"
    <3>1. running'[n][m] = running[n][m]
      BY <2>3, ServesFacts DEF Run
    <3>2. a # Act("start", n, m, "-")
      BY <2>3 DEF Act
    <3> QED
      BY <2>1, <3>1, <3>2 DEF Run, ServedOrDead, Act
  <2>4. a.kind = "stop" => ~(a.node = n /\ a.model = m)
    BY <1>2 DEF RouteInv, ServiceTodo
  <2>5. a.kind \in {"env", "stop"} \/ Routed(a)
    BY DEF Run, Takes
  <2> QED
    BY <2>2, <2>3, <2>4, <2>5
<1>3. ServedInv'
  BY <1>2 DEF ServedInv, Run, Turn
<1> QED
  BY <1>1, <1>3 DEF RouteInv

\* A service that is given up is one of those whose URL is dropped.
LEMMA DeadAfter ==
  ASSUME RouteInv, NEW a \in todo, todo' = todo \ {a}, dead' = Dead(a),
         NEW n \in Nodes, NEW m \in Models, ServedOrDead(n, m), lost' = lost,
         ~(Routed(a) /\ a.node = n /\ a.model = m) => running'[n][m] = running[n][m]
  PROVE  ServedOrDead(n, m)'
<1>1. CASE Routed(a) /\ a.node = n /\ a.model = m
  BY <1>1 DEF Dead, ServedOrDead
<1>2. CASE ~(Routed(a) /\ a.node = n /\ a.model = m)
  <2>1. a # Act("start", n, m, "-")
    BY <1>2 DEF Act, Routed
  <2>2. dead \subseteq dead'
    BY DEF Dead
  <2> QED
    BY <1>2, <2>1, <2>2 DEF ServedOrDead, Act
<1> QED
  BY <1>1, <1>2

LEMMA FailServes ==
  ASSUME Inv, RouteInv, NEW a \in todo, Fail(a)
  PROVE  RouteInv'
<1>1. ServiceTodo'
  BY DEF Fail, RouteInv, ServiceTodo
<1>2. ASSUME NEW n \in Nodes, NEW m \in Models, plan[n][m] # None
      PROVE  ServedOrDead(n, m)'
  <2>1. ServedOrDead(n, m)
    BY <1>2 DEF RouteInv, ServedInv, Fail, Turn
  <2>2. ASSUME ~(Routed(a) /\ a.node = n /\ a.model = m)
        PROVE  running'[n][m] = running[n][m]
    <3>1. CASE Takes(a)
      <4>1. a.kind = "stop" => ~(a.node = n /\ a.model = m)
        BY <1>2 DEF RouteInv, ServiceTodo
      <4>2. a.kind \in {"env", "stop"} \/ Routed(a)
        BY <3>1 DEF Takes
      <4> QED
        BY <2>2, <3>1, <4>1, <4>2, ServesFacts
    <3>2. CASE UNCHANGED nodeVars
      BY <3>2 DEF nodeVars
    <3>3. CASE Routed(a) /\ Compose(a, None)
      BY <2>2, <3>3, ServesFacts
    <3> QED
      BY <3>1, <3>2, <3>3 DEF Fail
  <2> QED
    BY <2>1, <2>2, DeadAfter DEF Fail
<1>3. ServedInv'
  BY <1>2 DEF ServedInv, Fail, Turn
<1> QED
  BY <1>1, <1>3 DEF RouteInv

LEMMA SkipServes ==
  ASSUME Inv, RouteInv, NEW a \in todo, Skip(a)
  PROVE  RouteInv'
<1>1. ServiceTodo'
  BY DEF Skip, RouteInv, ServiceTodo
<1>2. ASSUME NEW n \in Nodes, NEW m \in Models, plan[n][m] # None
      PROVE  ServedOrDead(n, m)'
  <2>1. ServedOrDead(n, m)
    BY <1>2 DEF RouteInv, ServedInv, Skip, Turn
  <2> QED
    BY <2>1, DeadAfter DEF Skip
<1>3. ServedInv'
  BY <1>2 DEF ServedInv, Skip, Turn
<1> QED
  BY <1>1, <1>3 DEF RouteInv

LEMMA StopsServes ==
  ASSUME Inv, RouteInv, NEW k \in Nodes, NEW l \in Models, Stops(k, l)
  PROVE  RouteInv'
<1>1. UNCHANGED <<pc, plan, todo, dead>>
  BY DEF Stops, runVars
<1>2. ASSUME NEW n \in Nodes, NEW m \in Models
      PROVE  ServedOrDead(n, m) => ServedOrDead(n, m)'
  <2>1. <<n, m>> \in lost' \/ running'[n][m] = running[n][m]
    BY DEF Stops, Inv, TypeOK
  <2>2. lost \subseteq lost'
    BY DEF Stops
  <2> QED
    BY <1>1, <2>1, <2>2 DEF ServedOrDead, Act
<1> QED
  BY <1>1, <1>2 DEF RouteInv, ServiceTodo, ServedInv, Act

LEMMA RouteStep == Inv /\ RouteInv /\ [Next]_vars => RouteInv'
<1> SUFFICES ASSUME Inv, RouteInv, [Next]_vars PROVE RouteInv'
  OBVIOUS
<1>1. ASSUME NEW p \in Plans, NEW ans \in Probes, Probe(p, ans) PROVE RouteInv'
  BY <1>1, ProbeServes
<1>2. CASE Confirm
  <2>1. UNCHANGED <<running, plan, todo, dead, lost>> /\ pc # "idle"
    BY <1>2 DEF Confirm
  <2> QED
    BY <2>1 DEF RouteInv, ServiceTodo, ServedInv, ServedOrDead, Act
<1>3. CASE Decline \/ Killed
  BY <1>3 DEF Decline, Killed, Said, RouteInv, ServiceTodo, ServedInv
<1>4. CASE Finish
  BY <1>4 DEF Finish, Said, RouteInv, ServiceTodo, ServedInv
<1>5. ASSUME NEW a \in todo, Run(a) \/ Fail(a) \/ Skip(a) PROVE RouteInv'
  BY <1>5, RunServes, FailServes, SkipServes
<1>6. ASSUME NEW n \in Nodes, NEW m \in Models, Stops(n, m) PROVE RouteInv'
  BY <1>6, StopsServes
<1>7. CASE UNCHANGED vars
  <2>1. UNCHANGED <<running, pc, plan, todo, dead, lost>>
    BY <1>7 DEF vars, runVars
  <2> QED
    BY <2>1 DEF RouteInv, ServiceTodo, ServedInv, ServedOrDead, Act
<1> QED
  BY <1>1, <1>2, <1>3, <1>4, <1>5, <1>6, <1>7 DEF Next

LEMMA RouteInit == Init => RouteInv
BY DEF Init, RouteInv, ServiceTodo, ServedInv

LiveRoutes ==
  pc = "running" /\ pc' = "idle" /\ said' # "killed"
    => \A m \in Models : \A n \in urls'[m] :
         plan[n][m] # None /\ (running[n][m] # None \/ <<n, m>> \in lost)

LEMMA FinishRoutes ==
  ASSUME Inv, RouteInv, Finish
  PROVE  LiveRoutes
<1> SUFFICES ASSUME NEW m \in Models, NEW n \in urls'[m]
             PROVE  plan[n][m] # None /\ (running[n][m] # None \/ <<n, m>> \in lost)
  BY DEF LiveRoutes
<1>1. urls'[m] = Alive(m)
  BY DEF Finish, Written
<1>2. n \in Nodes /\ plan[n][m] # None /\ <<n, m>> \notin dead
  BY <1>1 DEF Alive, Desired
<1>3. ServedOrDead(n, m) /\ todo = {}
  BY <1>2 DEF Finish, RouteInv, ServedInv
<1> QED
  BY <1>2, <1>3 DEF ServedOrDead

\* scheduler apply: a run that comes to its end writes only URLs of services the
\* plan has and whose container is there or has stopped since the probe; a start
\* or recreate that failed or was skipped never stays routed.
THEOREM RoutesAreLive == Spec => NoDeadRoute
<1>1. Inv /\ RouteInv /\ [Next]_vars => [LiveRoutes]_vars
  <2> SUFFICES ASSUME Inv, RouteInv, [Next]_vars PROVE [LiveRoutes]_vars
    OBVIOUS
  <2>1. ASSUME NEW p \in Plans, NEW ans \in Probes, Probe(p, ans) PROVE LiveRoutes
    BY <2>1 DEF Probe, LiveRoutes
  <2>2. CASE Confirm \/ Decline \/ Killed
    BY <2>2 DEF Confirm, Decline, Killed, Said, LiveRoutes
  <2>3. CASE Finish
    BY <2>3, FinishRoutes
  <2>4. ASSUME NEW a \in todo, Run(a) \/ Fail(a) \/ Skip(a) PROVE LiveRoutes
    BY <2>4 DEF Run, Fail, Skip, LiveRoutes
  <2>5. ASSUME NEW n \in Nodes, NEW m \in Models, Stops(n, m) PROVE LiveRoutes
    BY <2>5 DEF Stops, runVars, LiveRoutes
  <2> QED
    BY <2>1, <2>2, <2>3, <2>4, <2>5 DEF Next
<1> QED
  BY <1>1, RouteInit, RouteStep, Invariance, PTL DEF Spec, NoDeadRoute, LiveRoutes

(************************ what an applied run leaves ***********************)

\* An option is still to be written, or a probe would leave it alone.
Settles(n, m, o) ==
  Act("env", n, m, o) \in todo \/ ~Restated(env[n][m][o], o, plan[n][m][o])

\* A service that is not placed is still to be stopped, or is not there.
Clears(n, m) == Act("stop", n, m, "-") \in todo \/ running[n][m] = None

\* A run has said nothing yet, and drops URLs of nodes only that failed.
RunSays ==
  /\ pc # "idle" => said = "nothing"
  /\ \A d \in dead : d[1] \in failed
  /\ failures = 0 => failed = {}

SettleInv ==
  pc # "idle" => \A n \in Nodes, m \in Models : n \notin failed =>
    /\ "env" \in answer[n] /\ plan[n][m] # None => \A o \in Options : Settles(n, m, o)
    /\ "docker ps" \in answer[n] /\ plan[n][m] = None => Clears(n, m)

\* After a run that applied its plan, and until the next probe.
MatchInv ==
  said = "applied" => \A n \in Nodes, m \in Models :
    /\ urls[m] = Desired(plan, m)
    /\ "env" \in answer[n] /\ plan[n][m] # None =>
         \A o \in Options : ~Restated(env[n][m][o], o, plan[n][m][o])
    /\ "docker ps" \in answer[n] /\ plan[n][m] = None => running[n][m] = None
    /\ plan[n][m] # None => running[n][m] # None \/ <<n, m>> \in lost

DoneInv == RunSays /\ SettleInv /\ MatchInv

\* Every member of the union over the nodes and models is in the diff.
LEMMA InDiff ==
  ASSUME NEW p, NEW ans, NEW n \in Nodes, NEW m \in Models,
         NEW a \in EnvWrites(p, ans, n, m) \cup ServiceActions(p, ans, n, m)
  PROVE  a \in Diff(p, ans)
<1> DEFINE Of(k, l) == EnvWrites(p, ans, k, l) \cup ServiceActions(p, ans, k, l)
<1>1. Of(n, m) \in {Of(k, l) : k \in Nodes, l \in Models} /\ a \in Of(n, m)
  OBVIOUS
<1> HIDE DEF Of
<1>2. a \in UNION {Of(k, l) : k \in Nodes, l \in Models}
  BY <1>1
<1> QED
  BY <1>2 DEF Diff, Of

LEMMA DoneInit == Init => DoneInv
BY DEF Init, DoneInv, RunSays, SettleInv, MatchInv

LEMMA ProbeDone ==
  ASSUME Inv, DoneInv, NEW p \in Plans, NEW ans \in Probes, Probe(p, ans)
  PROVE  DoneInv'
<1>1. RunSays' /\ MatchInv'
  BY DEF Probe, Said, DoneInv, RunSays, MatchInv
<1>2. ASSUME NEW n \in Nodes, NEW m \in Models, "env" \in ans[n], p[n][m] # None,
             NEW o \in Options, Restated(env[n][m][o], o, p[n][m][o])
      PROVE  Act("env", n, m, o) \in Diff(p, ans)
  <2>1. Act("env", n, m, o) \in EnvWrites(p, ans, n, m)
    BY <1>2 DEF EnvWrites, Here
  <2> QED
    BY <2>1, InDiff
<1>3. ASSUME NEW n \in Nodes, NEW m \in Models, "docker ps" \in ans[n], p[n][m] = None,
             running[n][m] # None
      PROVE  Act("stop", n, m, "-") \in Diff(p, ans)
  <2>1. Act("stop", n, m, "-") \in ServiceActions(p, ans, n, m)
    BY <1>3 DEF ServiceActions, Have
  <2> QED
    BY <2>1, InDiff
<1>4. plan' = p /\ answer' = ans /\ todo' = Diff(p, ans) /\ UNCHANGED <<env, running>>
  BY DEF Probe
<1>5. SettleInv'
  BY <1>2, <1>3, <1>4 DEF SettleInv, Settles, Clears
<1> QED
  BY <1>1, <1>5 DEF DoneInv

\* Taking an action off the list keeps what settles and what is cleared.
LEMMA TakenOff ==
  ASSUME Inv, DoneInv, NEW a \in todo, todo' = todo \ {a}, UNCHANGED <<plan, answer>>,
         pc # "idle", NEW n \in Nodes, n \notin failed,
         NEW m \in Models,
         \A o \in Options : Act("env", n, m, o) # a => env'[n][m][o] = env[n][m][o],
         \A o \in Options : Act("env", n, m, o) = a => env'[n][m][o] = plan[n][m][o],
         ~(a.kind # "stop" /\ a.kind # "env" /\ a.node = n /\ a.model = m)
           => running'[n][m] = running[n][m] \/ running'[n][m] = None,
         a = Act("stop", n, m, "-") => running'[n][m] = None
  PROVE  /\ "env" \in answer[n] /\ plan[n][m] # None => \A o \in Options : Settles(n, m, o)'
         /\ "docker ps" \in answer[n] /\ plan[n][m] = None => Clears(n, m)'
<1>1. ASSUME "env" \in answer[n], plan[n][m] # None, NEW o \in Options
      PROVE  Settles(n, m, o)'
  <2>1. Settles(n, m, o)
    BY <1>1 DEF DoneInv, SettleInv
  <2>2. CASE Act("env", n, m, o) = a
    BY <2>2 DEF Settles, Restated
  <2>3. CASE Act("env", n, m, o) # a
    BY <2>1, <2>3 DEF Settles
  <2> QED
    BY <2>2, <2>3
<1>2. ASSUME "docker ps" \in answer[n], plan[n][m] = None
      PROVE  Clears(n, m)'
  <2>1. Clears(n, m)
    BY <1>2 DEF DoneInv, SettleInv
  <2>2. CASE a = Act("stop", n, m, "-")
    BY <2>2 DEF Clears
  <2>3. CASE a # Act("stop", n, m, "-")
    <3>1. ~(a.kind # "stop" /\ a.kind # "env" /\ a.node = n /\ a.model = m)
      BY <1>2 DEF Inv, TodoInv
    <3> QED
      BY <2>1, <2>3, <3>1 DEF Clears
  <2> QED
    BY <2>2, <2>3
<1> QED
  BY <1>1, <1>2

\* What one command does to one service.
LEMMA TakesOne ==
  ASSUME Inv, NEW a \in todo, Turn(a), Takes(a), NEW n \in Nodes, NEW m \in Models
  PROVE  /\ ~(Routed(a) /\ a.node = n /\ a.model = m)
              => running'[n][m] = running[n][m] \/ running'[n][m] = None
         /\ a = Act("stop", n, m, "-") => running'[n][m] = None
<1>1. a.node \in Nodes /\ a.model \in Models
  BY DEF Inv, TodoInv, ActType
<1>2. running \in [Nodes -> [Models -> Placements \cup {None}]]
  BY DEF Inv, TypeOK
<1>3. CASE a.kind = "env" /\ WriteOption(a)
  BY <1>3 DEF WriteOption, Act
<1>4. CASE a.kind = "stop" /\ Compose(a, None)
  BY <1>1, <1>2, <1>4 DEF Compose, Act
<1>5. CASE Routed(a) /\ Compose(a, Effective(env[a.node][a.model]))
  BY <1>1, <1>2, <1>5 DEF Compose, Act, Routed
<1> QED
  BY <1>3, <1>4, <1>5 DEF Takes

LEMMA RunDone ==
  ASSUME Inv, DoneInv, NEW a \in todo, Run(a)
  PROVE  DoneInv'
<1>1. /\ Turn(a) /\ Takes(a) /\ todo' = todo \ {a} /\ pc # "idle"
      /\ UNCHANGED <<urls, pc, plan, answer, failed, dead, said, lost, failures>>
  BY DEF Run, Turn
<1>2. RunSays' /\ MatchInv'
  BY <1>1 DEF DoneInv, RunSays, MatchInv
<1>3. a \in ActType /\ (a.kind = "env" => a.option \in Options)
  BY DEF Inv, TodoInv
<1>4. /\ \A n \in Nodes, m \in Models, o \in Options :
           Act("env", n, m, o) # a => env'[n][m][o] = env[n][m][o]
      /\ a.kind = "env" =>
           env'[a.node][a.model][a.option] = plan[a.node][a.model][a.option]
  BY <1>1, TakesFacts
<1>5. ASSUME NEW n \in Nodes, NEW m \in Models, n \notin failed
      PROVE  /\ "env" \in answer[n] /\ plan[n][m] # None => \A o \in Options : Settles(n, m, o)'
             /\ "docker ps" \in answer[n] /\ plan[n][m] = None => Clears(n, m)'
  <2>1. \A o \in Options : Act("env", n, m, o) = a => env'[n][m][o] = plan[n][m][o]
    BY <1>4 DEF Act
  <2>2. Routed(a) => a.kind # "stop" /\ a.kind # "env"
    BY DEF Routed
  <2>3. /\ ~(Routed(a) /\ a.node = n /\ a.model = m)
             => running'[n][m] = running[n][m] \/ running'[n][m] = None
        /\ a = Act("stop", n, m, "-") => running'[n][m] = None
    BY <1>1, TakesOne
  <2>4. ~(a.kind # "stop" /\ a.kind # "env" /\ a.node = n /\ a.model = m)
          => running'[n][m] = running[n][m] \/ running'[n][m] = None
    BY <2>2, <2>3
  <2>5. \A o \in Options : Act("env", n, m, o) # a => env'[n][m][o] = env[n][m][o]
    BY <1>4
  <2>6. a = Act("stop", n, m, "-") => running'[n][m] = None
    BY <2>3
  <2> QED
    BY <1>1, <1>5, <2>1, <2>4, <2>5, <2>6, TakenOff
<1>6. SettleInv'
  BY <1>1, <1>5 DEF SettleInv
<1> QED
  BY <1>2, <1>6 DEF DoneInv

LEMMA FailDone ==
  ASSUME Inv, DoneInv, NEW a \in todo, Fail(a)
  PROVE  DoneInv'
<1>1. /\ Turn(a) /\ todo' = todo \ {a} /\ pc # "idle"
      /\ failed' = failed \cup {a.node} /\ dead' = Dead(a)
      /\ failures' = failures + 1
      /\ UNCHANGED <<urls, pc, plan, answer, said, lost>>
  BY DEF Fail, Turn
<1>2. said = "nothing" /\ MatchInv'
  BY <1>1 DEF DoneInv, RunSays, MatchInv
<1>3. RunSays'
  <2>1. \A d \in dead' : d[1] \in failed'
    BY <1>1 DEF DoneInv, RunSays, Dead
  <2>2. failures' # 0
    <3>1. failures \in 0..MAX_FAILURES
      BY CountersType DEF Inv
    <3> QED
      BY <1>1, <3>1
  <2> QED
    BY <1>1, <1>2, <2>1, <2>2 DEF RunSays
<1>4. a.node \in Nodes /\ a.model \in Models
  BY DEF Inv, TodoInv, ActType
<1>5. ASSUME NEW n \in Nodes, NEW m \in Models, n \notin failed'
      PROVE  /\ "env" \in answer[n] /\ plan[n][m] # None => \A o \in Options : Settles(n, m, o)'
             /\ "docker ps" \in answer[n] /\ plan[n][m] = None => Clears(n, m)'
  <2>1. n # a.node /\ n \notin failed
    BY <1>1, <1>5
  <2>2. \A o \in Options : Act("env", n, m, o) # a
    BY <2>1 DEF Act
  <2>3. /\ \A o \in Options : env'[n][m][o] = env[n][m][o]
        /\ running'[n][m] = running[n][m] \/ running'[n][m] = None
    <3>1. CASE Takes(a)
      BY <1>1, <2>1, <2>2, <3>1, TakesFacts, TakesOne
    <3>2. CASE UNCHANGED nodeVars
      BY <3>2 DEF nodeVars
    <3>3. CASE Compose(a, None)
      BY <1>4, <2>1, <3>3 DEF Compose, Inv, TypeOK
    <3> QED
      BY <3>1, <3>2, <3>3 DEF Fail
  <2>4. a # Act("stop", n, m, "-")
    BY <2>1 DEF Act
  <2> QED
    BY <1>1, <2>1, <2>2, <2>3, <2>4, TakenOff
<1>6. SettleInv'
  BY <1>1, <1>5 DEF SettleInv
<1> QED
  BY <1>2, <1>3, <1>6 DEF DoneInv

LEMMA SkipDone ==
  ASSUME Inv, DoneInv, NEW a \in todo, Skip(a)
  PROVE  DoneInv'
<1>1. /\ todo' = todo \ {a} /\ pc # "idle" /\ a.node \in failed /\ dead' = Dead(a)
      /\ UNCHANGED <<env, running, urls, pc, plan, answer, failed, said, lost, failures>>
  BY DEF Skip, Turn, Skipped
<1>2. RunSays' /\ MatchInv'
  BY <1>1 DEF DoneInv, RunSays, MatchInv, Dead
<1>3. SettleInv'
  <2> SUFFICES ASSUME NEW n \in Nodes, NEW m \in Models, n \notin failed
               PROVE  /\ "env" \in answer[n] /\ plan[n][m] # None
                           => \A o \in Options : Settles(n, m, o)'
                      /\ "docker ps" \in answer[n] /\ plan[n][m] = None => Clears(n, m)'
    BY <1>1 DEF SettleInv
  <2>1. /\ \A o \in Options : Act("env", n, m, o) # a
        /\ Act("stop", n, m, "-") # a
    BY <1>1 DEF Act
  <2>2. /\ "env" \in answer[n] /\ plan[n][m] # None => \A o \in Options : Settles(n, m, o)
        /\ "docker ps" \in answer[n] /\ plan[n][m] = None => Clears(n, m)
    BY <1>1 DEF DoneInv, SettleInv
  <2> QED
    BY <1>1, <2>1, <2>2 DEF Settles, Clears, Act
<1> QED
  BY <1>2, <1>3 DEF DoneInv

LEMMA StopsDone ==
  ASSUME Inv, DoneInv, NEW k \in Nodes, NEW l \in Models, Stops(k, l)
  PROVE  DoneInv'
<1>1. UNCHANGED <<env, urls, pc, plan, answer, todo, failed, dead, said, failures>>
  BY DEF Stops, runVars
<1>2. ASSUME NEW n \in Nodes, NEW m \in Models
      PROVE  \/ running'[n][m] = running[n][m]
             \/ running'[n][m] = None /\ <<n, m>> \in lost'
  BY DEF Stops, Inv, TypeOK
<1>3. lost \subseteq lost'
  BY DEF Stops
<1>4. RunSays'
  BY <1>1 DEF DoneInv, RunSays
<1>5. SettleInv'
  BY <1>1, <1>2 DEF DoneInv, SettleInv, Settles, Clears, Act
<1>6. ASSUME said = "applied", NEW n \in Nodes, NEW m \in Models
      PROVE  /\ urls[m] = Desired(plan, m)
             /\ "env" \in answer[n] /\ plan[n][m] # None =>
                  \A o \in Options : ~Restated(env[n][m][o], o, plan[n][m][o])
             /\ "docker ps" \in answer[n] /\ plan[n][m] = None => running'[n][m] = None
             /\ plan[n][m] # None => running'[n][m] # None \/ <<n, m>> \in lost'
  <2>1. /\ urls[m] = Desired(plan, m)
        /\ "env" \in answer[n] /\ plan[n][m] # None =>
             \A o \in Options : ~Restated(env[n][m][o], o, plan[n][m][o])
        /\ "docker ps" \in answer[n] /\ plan[n][m] = None => running[n][m] = None
        /\ plan[n][m] # None => running[n][m] # None \/ <<n, m>> \in lost
    BY <1>6 DEF DoneInv, MatchInv
  <2>2. \/ running'[n][m] = running[n][m]
        \/ running'[n][m] = None /\ <<n, m>> \in lost'
    BY <1>2
  <2> QED
    BY <1>3, <2>1, <2>2
<1>7. MatchInv'
  BY <1>1, <1>6 DEF MatchInv, Desired
<1> QED
  BY <1>4, <1>5, <1>7 DEF DoneInv

\* A run without failures leaves what its plan says.
LEMMA FinishMatches ==
  ASSUME Inv, RouteInv, DoneInv, Finish, failed = {}
  PROVE  \A n \in Nodes, m \in Models :
           /\ urls'[m] = Desired(plan, m)
           /\ "env" \in answer[n] /\ plan[n][m] # None =>
                \A o \in Options : ~Restated(env[n][m][o], o, plan[n][m][o])
           /\ "docker ps" \in answer[n] /\ plan[n][m] = None => running[n][m] = None
           /\ plan[n][m] # None => running[n][m] # None \/ <<n, m>> \in lost
<1>1. pc # "idle" /\ todo = {}
  BY DEF Finish
<1>2. dead = {}
  BY DEF DoneInv, RunSays
<1> SUFFICES ASSUME NEW n \in Nodes, NEW m \in Models
             PROVE  /\ urls'[m] = Desired(plan, m)
                    /\ "env" \in answer[n] /\ plan[n][m] # None =>
                         \A o \in Options : ~Restated(env[n][m][o], o, plan[n][m][o])
                    /\ "docker ps" \in answer[n] /\ plan[n][m] = None => running[n][m] = None
                    /\ plan[n][m] # None => running[n][m] # None \/ <<n, m>> \in lost
  OBVIOUS
<1>3. urls'[m] = Desired(plan, m)
  <2>1. Alive(m) = Desired(plan, m)
    BY <1>2 DEF Alive
  <2>2. urls'[m] = IF Written(m) THEN Alive(m) ELSE urls[m]
    BY DEF Finish
  <2> QED
    BY <2>1, <2>2 DEF Written
<1>4. /\ "env" \in answer[n] /\ plan[n][m] # None => \A o \in Options : Settles(n, m, o)
      /\ "docker ps" \in answer[n] /\ plan[n][m] = None => Clears(n, m)
  BY <1>1 DEF DoneInv, SettleInv
<1>5. plan[n][m] # None => ServedOrDead(n, m)
  BY <1>1 DEF RouteInv, ServedInv
<1> QED
  BY <1>1, <1>2, <1>3, <1>4, <1>5 DEF Settles, Clears, ServedOrDead

LEMMA FinishDone ==
  ASSUME Inv, RouteInv, DoneInv, Finish
  PROVE  DoneInv'
<1>1. /\ pc' = "idle" /\ dead' = {} /\ failed' = {}
      /\ said' = IF failed = {} THEN "applied" ELSE "failed"
      /\ UNCHANGED <<env, running, plan, answer, lost>>
  BY DEF Finish, Said
<1>2. RunSays' /\ SettleInv'
  BY <1>1 DEF RunSays, SettleInv
<1>3. CASE failed = {}
  <2>1. MatchInv'
    BY <1>1, <1>3, FinishMatches DEF MatchInv, Desired
  <2> QED
    BY <1>2, <2>1 DEF DoneInv
<1>4. CASE failed # {}
  BY <1>1, <1>2, <1>4 DEF DoneInv, MatchInv
<1> QED
  BY <1>3, <1>4

LEMMA DoneStep == Inv /\ RouteInv /\ DoneInv /\ [Next]_vars => DoneInv'
<1> SUFFICES ASSUME Inv, RouteInv, DoneInv, [Next]_vars PROVE DoneInv'
  OBVIOUS
<1>1. ASSUME NEW p \in Plans, NEW ans \in Probes, Probe(p, ans) PROVE DoneInv'
  BY <1>1, ProbeDone
<1>2. CASE Confirm
  <2>1. /\ UNCHANGED <<env, running, urls, plan, answer, todo, failed, dead, said, lost, failures>>
        /\ pc # "idle"
    BY <1>2 DEF Confirm
  <2> QED
    BY <2>1 DEF DoneInv, RunSays, SettleInv, MatchInv, Settles, Clears, Desired, Act
<1>3. CASE Decline
  BY <1>3 DEF Decline, Said, DoneInv, RunSays, SettleInv, MatchInv
<1>4. CASE Killed
  <2>1. pc' = "idle" /\ said' = "killed" /\ dead' = {} /\ failed' = {}
    BY <1>4 DEF Killed, Said
  <2> QED
    BY <2>1 DEF DoneInv, RunSays, SettleInv, MatchInv
<1>5. CASE Finish
  BY <1>5, FinishDone
<1>6. ASSUME NEW a \in todo, Run(a) \/ Fail(a) \/ Skip(a) PROVE DoneInv'
  BY <1>6, RunDone, FailDone, SkipDone
<1>7. ASSUME NEW n \in Nodes, NEW m \in Models, Stops(n, m) PROVE DoneInv'
  BY <1>7, StopsDone
<1>8. CASE UNCHANGED vars
  <2>1. UNCHANGED <<env, running, urls, pc, plan, answer, todo, failed, dead, said, lost, failures>>
    BY <1>8 DEF vars, runVars
  <2> QED
    BY <2>1 DEF DoneInv, RunSays, SettleInv, MatchInv, Settles, Clears, Desired, Act
<1> QED
  BY <1>1, <1>2, <1>3, <1>4, <1>5, <1>6, <1>7, <1>8 DEF Next

LEMMA DoneInvariance == Spec => [](Inv /\ RouteInv /\ DoneInv)
<1>1. Init => Inv /\ RouteInv /\ DoneInv
  BY InitOK, RouteInit, DoneInit
<1>2. (Inv /\ RouteInv /\ DoneInv) /\ [Next]_vars => (Inv /\ RouteInv /\ DoneInv)'
  BY StepOK, RouteStep, DoneStep
<1> QED
  BY <1>1, <1>2, PTL DEF Spec

\* compute_diff of a plan that was applied without failures, against what every
\* node could be read to have: nothing, as long as no container has stopped.
THEOREM AppliedLeavesNothing == Spec => []ReapplyIsNoOp
<1>1. Inv /\ RouteInv /\ DoneInv => ReapplyIsNoOp
  <2> SUFFICES ASSUME Inv, DoneInv, said = "applied", lost = {},
                      \A n \in Nodes : answer[n] = Reads
               PROVE  Diff(plan, answer) = {} /\ Changed(plan) = {}
    BY DEF ReapplyIsNoOp
  <2>1. \A n \in Nodes : "env" \in answer[n] /\ "docker ps" \in answer[n]
    BY DEF Reads
  <2>2. ASSUME NEW n \in Nodes, NEW m \in Models
        PROVE  /\ urls[m] = Desired(plan, m)
               /\ plan[n][m] # None =>
                    /\ \A o \in Options : ~Restated(env[n][m][o], o, plan[n][m][o])
                    /\ running[n][m] # None
               /\ plan[n][m] = None => running[n][m] = None
    BY <2>1 DEF DoneInv, MatchInv
  <2>3. ASSUME NEW n \in Nodes, NEW m \in Models
        PROVE  /\ EnvWrites(plan, answer, n, m) = {}
               /\ ServiceActions(plan, answer, n, m) = {}
    <3>1. EnvWrites(plan, answer, n, m) = {}
      BY <2>1, <2>2 DEF EnvWrites, Here
    <3>2. m \in Have(answer, n) <=> running[n][m] # None
      BY <2>1 DEF Have
    <3> QED
      BY <2>2, <3>1, <3>2 DEF ServiceActions, Moved
  <2>4. Diff(plan, answer) = {}
    BY <2>3 DEF Diff
  <2>5. Changed(plan) = {}
    <3>1. CASE Nodes = {}
      BY <3>1 DEF Changed, Desired, Inv, TypeOK
    <3>2. CASE Nodes # {}
      BY <2>2, <3>2 DEF Changed
    <3> QED
      BY <3>1, <3>2
  <2> QED
    BY <2>4, <2>5
<1> QED
  BY <1>1, DoneInvariance, PTL

ServedNow ==
  pc' = "idle" /\ said' \in {"applied", "no changes"} /\ running' = running
    => \A n \in Nodes, m \in Models :
         /\ n \in urls'[m] <=> plan'[n][m] # None
         /\ plan'[n][m] # None => running[n][m] # None \/ <<n, m>> \in lost \cup lost'
         /\ plan'[n][m] = None /\ "docker ps" \in answer'[n] => running[n][m] = None

\* A probe that finds nothing to do finds everything served.
LEMMA NothingToDo ==
  ASSUME Inv, NEW p \in Plans, NEW ans \in Probes, Probe(p, ans)
  PROVE  ServedNow
<1> SUFFICES ASSUME pc' = "idle", NEW n \in Nodes, NEW m \in Models
             PROVE  /\ n \in urls'[m] <=> plan'[n][m] # None
                    /\ plan'[n][m] # None => running[n][m] # None
                    /\ plan'[n][m] = None /\ "docker ps" \in answer'[n] => running[n][m] = None
  BY DEF ServedNow
<1>1. /\ plan' = p /\ answer' = ans /\ urls' = urls
      /\ Diff(p, ans) = {} /\ Changed(p) = {}
  BY DEF Probe
<1>2. urls[m] = Desired(p, m)
  BY <1>1 DEF Changed
<1>3. ServiceActions(p, ans, n, m) = {}
  BY <1>1, InDiff
<1> QED
  BY <1>1, <1>2, <1>3 DEF Desired, ServiceActions, Have

\* scheduler apply: a run without failures repairs what failed and killed runs
\* before it left.  Every placed service is there, or has stopped since the
\* probe, and is routed; every other is stopped and not routed.
THEOREM AppliedRunsServe == Spec => AppliedIsServed
<1>1. Inv /\ RouteInv /\ DoneInv /\ [Next]_vars => [ServedNow]_vars
  <2> SUFFICES ASSUME Inv, RouteInv, DoneInv, [Next]_vars PROVE [ServedNow]_vars
    OBVIOUS
  <2>1. ASSUME NEW p \in Plans, NEW ans \in Probes, Probe(p, ans) PROVE ServedNow
    BY <2>1, NothingToDo
  <2>2. CASE Confirm \/ Decline \/ Killed
    BY <2>2 DEF Confirm, Decline, Killed, Said, ServedNow
  <2>3. CASE Finish
    <3>1. CASE failed = {}
      <4>1. UNCHANGED <<plan, answer, lost>>
        BY <2>3 DEF Finish
      <4>2. ASSUME NEW n \in Nodes, NEW m \in Models
            PROVE  n \in urls'[m] <=> plan[n][m] # None
        BY <2>3, <3>1, FinishMatches DEF Desired
      <4> QED
        BY <2>3, <3>1, <4>1, <4>2, FinishMatches DEF ServedNow
    <3>2. CASE failed # {}
      BY <2>3, <3>2 DEF Finish, Said, ServedNow
    <3> QED
      BY <3>1, <3>2
  <2>4. ASSUME NEW a \in todo, Run(a) \/ Fail(a) \/ Skip(a) PROVE ServedNow
    BY <2>4 DEF Run, Fail, Skip, Turn, ServedNow
  <2>5. ASSUME NEW n \in Nodes, NEW m \in Models, Stops(n, m) PROVE ServedNow
    <3>1. running'[n][m] = None /\ running[n][m] # None
      BY <2>5 DEF Stops, Inv, TypeOK
    <3> QED
      BY <3>1 DEF ServedNow
  <2> QED
    BY <2>1, <2>2, <2>3, <2>4, <2>5 DEF Next
<1> QED
  BY <1>1, DoneInvariance, PTL DEF Spec, AppliedIsServed, ServedNow

(******************************** no drift *********************************)

\* The container is gone or runs with what compose makes of the .env.
Holds(n, m) == running[n][m] \in {None, Effective(env[n][m])}

Coming(n, m) == Act("start", n, m, "-") \in todo \/ Act("recreate", n, m, "-") \in todo

\* Where an option is going to be written, or has been since the container came
\* up, the service is going to be started or recreated.
DriftInv ==
  failures = 0 => \A n \in Nodes, m \in Models :
    /\ pc # "running" => Holds(n, m)
    /\ pc = "running" => Holds(n, m) \/ Coming(n, m)
    /\ \A o \in Options : Act("env", n, m, o) \in todo => Coming(n, m)

LEMMA DriftInit == Init => DriftInv
<1> SUFFICES ASSUME Init PROVE DriftInv
  OBVIOUS
<1>1. \A n \in Nodes, m \in Models : running[n][m] = None
  BY DEF Init, Nothing
<1> QED
  BY <1>1 DEF Init, DriftInv, Holds

\* The diff recreates or starts every service it writes an option of.
LEMMA DiffBrings ==
  ASSUME NEW p, NEW ans, NEW n \in Nodes, NEW m \in Models, NEW o \in Options,
         Act("env", n, m, o) \in Diff(p, ans)
  PROVE  Act("start", n, m, "-") \in Diff(p, ans) \/ Act("recreate", n, m, "-") \in Diff(p, ans)
<1>1. PICK k \in Nodes, l \in Models :
        Act("env", n, m, o) \in EnvWrites(p, ans, k, l) \cup ServiceActions(p, ans, k, l)
  BY DEF Diff
<1>2. Act("env", n, m, o) \notin ServiceActions(p, ans, k, l)
  BY DEF ServiceActions, Act
<1>3. PICK q \in Options : Act("env", n, m, o) = Act("env", k, l, q) /\ p[k][l] # None
  BY <1>1, <1>2 DEF EnvWrites
<1>4. n = k /\ m = l
  BY <1>3 DEF Act
<1>5. Moved(EnvWrites(p, ans, n, m)) /\ p[n][m] # None
  BY <1>1, <1>2, <1>3, <1>4 DEF Moved
<1>6. \/ Act("start", n, m, "-") \in ServiceActions(p, ans, n, m)
      \/ Act("recreate", n, m, "-") \in ServiceActions(p, ans, n, m)
  BY <1>5 DEF ServiceActions
<1> QED
  BY <1>6, InDiff

LEMMA ProbeDrift ==
  ASSUME DriftInv, NEW p \in Plans, NEW ans \in Probes, Probe(p, ans)
  PROVE  DriftInv'
<1>1. /\ pc = "idle" /\ pc' # "running" /\ todo' = Diff(p, ans)
      /\ UNCHANGED <<env, running, failures>>
  BY DEF Probe, Said
<1>2. \A n \in Nodes, m \in Models : failures' = 0 => Holds(n, m)'
  BY <1>1 DEF DriftInv, Holds, Effective
<1>3. \A n \in Nodes, m \in Models, o \in Options :
        Act("env", n, m, o) \in todo' => Coming(n, m)'
  BY <1>1, DiffBrings DEF Coming
<1> QED
  BY <1>1, <1>2, <1>3 DEF DriftInv

LEMMA RunDrift ==
  ASSUME Inv, RouteInv, DriftInv, NEW a \in todo, Run(a)
  PROVE  DriftInv'
<1>1. /\ Turn(a) /\ Takes(a) /\ todo' = todo \ {a} /\ pc = "running"
      /\ UNCHANGED <<pc, failures>>
  BY DEF Run, Turn
<1>2. /\ a \in ActType /\ (a.kind = "env" => a.option \in Options)
      /\ (a.kind # "env" => a = Act(a.kind, a.node, a.model, "-"))
  BY DEF Inv, TodoInv, RouteInv, ServiceTodo
<1>3. a.node \in Nodes /\ a.model \in Models
  BY <1>2 DEF ActType
<1>4. /\ \A n \in Nodes, m \in Models, o \in Options :
           Act("env", n, m, o) # a => env'[n][m][o] = env[n][m][o]
  BY <1>1, TakesFacts
<1>5. ASSUME failures = 0, NEW n \in Nodes, NEW m \in Models
      PROVE  /\ Holds(n, m)' \/ Coming(n, m)'
             /\ \A o \in Options : Act("env", n, m, o) \in todo' => Coming(n, m)'
  <2>1. /\ Holds(n, m) \/ Coming(n, m)
        /\ \A o \in Options : Act("env", n, m, o) \in todo => Coming(n, m)
    BY <1>1, <1>5 DEF DriftInv
  <2>2. CASE a.node # n \/ a.model # m
    <3>1. running'[n][m] = running[n][m]
      BY <1>1, <2>2, ServesFacts
    <3>2. \A o \in Options : env'[n][m][o] = env[n][m][o]
      BY <1>4, <2>2 DEF Act
    <3>3. Effective(env[n][m])' = Effective(env[n][m])
      BY <3>2 DEF Effective
    <3>4. Coming(n, m)' <=> Coming(n, m)
      BY <1>1, <2>2 DEF Coming, Act
    <3> QED
      BY <1>1, <2>1, <3>1, <3>3, <3>4 DEF Holds
  <2>3. CASE a.node = n /\ a.model = m /\ a.kind = "env"
    <3>1. Act("env", n, m, a.option) = a
      BY <1>2, <2>3 DEF ActType, Act
    <3>2. Coming(n, m)
      BY <1>2, <2>1, <2>3, <3>1
    <3>3. Coming(n, m)'
      BY <1>1, <2>3, <3>2 DEF Coming, Act
    <3> QED
      BY <3>3
  <2>4. CASE a.node = n /\ a.model = m /\ a.kind = "stop"
    <3>1. running'[n][m] = None
      BY <1>2, <1>1, <2>4, TakesOne
    <3>2. Coming(n, m)' <=> Coming(n, m)
      BY <1>1, <2>4 DEF Coming, Act
    <3> QED
      BY <1>1, <2>1, <3>1, <3>2 DEF Holds
  <2>5. CASE a.node = n /\ a.model = m /\ Routed(a)
    <3>1. running'[n][m] = Effective(env[n][m]) /\ env' = env
      <4>1. Compose(a, Effective(env[a.node][a.model]))
        BY <1>1, <2>5 DEF Takes, Routed
      <4>2. running \in [Nodes -> [Models -> Placements \cup {None}]]
        BY DEF Inv, TypeOK
      <4> QED
        BY <1>3, <2>5, <4>1, <4>2 DEF Compose
    <3>2. \A o \in Options : Act("env", n, m, o) \notin todo
      BY <1>1, <2>5, EnvFirst
    <3> QED
      BY <1>1, <3>1, <3>2 DEF Holds, Effective
  <2>6. a.kind \in {"env", "stop"} \/ Routed(a)
    BY <1>1 DEF Takes
  <2> QED
    BY <2>2, <2>3, <2>4, <2>5, <2>6
<1> QED
  BY <1>1, <1>5 DEF DriftInv

LEMMA Failures == Inv => failures \in Nat
BY CountersType DEF Inv

LEMMA HoldsKept ==
  ASSUME UNCHANGED <<env, running>>, NEW n, NEW m
  PROVE  Holds(n, m)' <=> Holds(n, m)
BY DEF Holds, Effective

LEMMA ComingKept ==
  ASSUME UNCHANGED todo, NEW n, NEW m
  PROVE  Coming(n, m)' <=> Coming(n, m)
BY DEF Coming, Act

LEMMA DriftStep == Inv /\ RouteInv /\ DoneInv /\ DriftInv /\ [Next]_vars => DriftInv'
<1> SUFFICES ASSUME Inv, RouteInv, DoneInv, DriftInv, [Next]_vars PROVE DriftInv'
  OBVIOUS
<1>1. ASSUME NEW p \in Plans, NEW ans \in Probes, Probe(p, ans) PROVE DriftInv'
  BY <1>1, ProbeDrift
<1>2. CASE Confirm
  <2>1. UNCHANGED <<env, running, todo, failures>> /\ pc = "confirm"
    BY <1>2 DEF Confirm
  <2> QED
    BY <2>1, HoldsKept, ComingKept DEF DriftInv, Act
<1>3. CASE Decline
  <2>1. UNCHANGED <<env, running, failures>> /\ pc = "confirm" /\ todo' = {}
    BY <1>3 DEF Decline
  <2>2. pc' = "idle"
    BY <1>3 DEF Decline, Said
  <2> QED
    BY <2>1, <2>2, HoldsKept DEF DriftInv
<1>4. CASE Finish
  <2>1. UNCHANGED <<env, running, todo, failures>> /\ pc = "running" /\ todo = {}
    BY <1>4 DEF Finish
  <2>2. pc' = "idle"
    BY <1>4 DEF Finish, Said
  <2> QED
    BY <2>1, <2>2, HoldsKept DEF DriftInv, Coming
<1>5. CASE Killed
  <2>1. failures' # 0
    BY <1>5, Failures DEF Killed
  <2> QED
    BY <2>1 DEF DriftInv
<1>6. ASSUME NEW a \in todo, Fail(a) PROVE DriftInv'
  <2>1. failures' # 0
    BY <1>6, Failures DEF Fail
  <2> QED
    BY <2>1 DEF DriftInv
<1>7. ASSUME NEW a \in todo, Skip(a) PROVE DriftInv'
  <2>1. failures' # 0
    BY <1>7 DEF Skip, Skipped, DoneInv, RunSays
  <2> QED
    BY <2>1 DEF DriftInv
<1>8. ASSUME NEW a \in todo, Run(a) PROVE DriftInv'
  BY <1>8, RunDrift
<1>9. ASSUME NEW k \in Nodes, NEW l \in Models, Stops(k, l) PROVE DriftInv'
  <2>1. UNCHANGED <<env, pc, todo, failures>>
    BY <1>9 DEF Stops, runVars
  <2>2. \A n \in Nodes, m \in Models :
          running'[n][m] = running[n][m] \/ running'[n][m] = None
    BY <1>9 DEF Stops, Inv, TypeOK
  <2>3. \A n \in Nodes, m \in Models : Holds(n, m) => Holds(n, m)'
    BY <2>1, <2>2 DEF Holds, Effective
  <2> QED
    BY <2>1, <2>3, ComingKept DEF DriftInv, Act
<1>10. CASE UNCHANGED vars
  <2>1. UNCHANGED <<env, running, pc, todo, failures>>
    BY <1>10 DEF vars, runVars
  <2> QED
    BY <2>1, HoldsKept, ComingKept DEF DriftInv, Act
<1> QED
  BY <1>1, <1>2, <1>3, <1>4, <1>5, <1>6, <1>7, <1>8, <1>9, <1>10 DEF Next

\* scheduler apply: until a command fails or the process is killed, no container
\* runs with anything but what its node's .env says, whatever stops by itself,
\* whatever could not be read and however many runs there have been: no option
\* is written without the service being started or recreated in the same run.
THEOREM NothingDrifts == Spec => []NoDrift
<1>1. Init => DriftInv
  BY DriftInit
<1>2. DriftInv => NoDrift
  BY DEF DriftInv, NoDrift, Holds
<1> QED
  BY <1>1, <1>2, DriftStep, DoneInvariance, PTL DEF Spec

(******************************* no changes ********************************)

\* A service that a probe leaves alone runs with its plan's options.
LEMMA LeftAsPlanned ==
  ASSUME Inv, DriftInv, failures = 0, pc = "idle", NEW p \in Plans, NEW ans \in Probes,
         Diff(p, ans) = {}, NEW n \in Nodes, NEW m \in Models, ans[n] = Reads
  PROVE  running[n][m] = p[n][m]
<1>1. EnvWrites(p, ans, n, m) = {} /\ ServiceActions(p, ans, n, m) = {}
  BY InDiff
<1>2. "env" \in ans[n] /\ "docker ps" \in ans[n]
  BY DEF Reads
<1>3. CASE p[n][m] = None
  BY <1>1, <1>2, <1>3 DEF ServiceActions, Have
<1>4. CASE p[n][m] # None
  <2>1. env[n][m] \in [Options -> Nat] /\ Effective(env[n][m]) \in [Options -> Nat \ {0}]
    BY OptionsType, EffectiveType DEF Inv, Placements, Unset
  <2>2. p[n][m] \in [Options -> Nat \ {0}]
    <3>1. p[n][m] \in Placements
      BY <1>4, PlansType
    <3> QED
      BY <3>1 DEF Placements, Unset
  <2>3. ASSUME NEW o \in Options PROVE Effective(env[n][m])[o] = p[n][m][o]
    <3>1. ~Restated(env[n][m][o], o, p[n][m][o])
      BY <1>1, <1>2, <1>4 DEF EnvWrites, Here
    <3> QED
      BY <2>1, <2>2, <3>1, LeftAlone
  <2>4. Effective(env[n][m]) = p[n][m]
    BY <2>1, <2>2, <2>3
  <2>5. running[n][m] # None
    BY <1>1, <1>4 DEF ServiceActions, Have
  <2>6. Holds(n, m)
    BY DEF DriftInv
  <2> QED
    BY <2>4, <2>5, <2>6 DEF Holds
<1> QED
  BY <1>3, <1>4

Matching ==
  pc = "idle" /\ failures = 0 /\ said' = "no changes" /\ running' = running
    => \A n \in Nodes : answer'[n] = Reads => running[n] = plan'[n]

\* cmd_apply: "No changes - the cluster already matches the plan".  Where no
\* command has failed and no run was killed it does, on every node that was
\* read: whatever earlier runs could not read, whoever declined and whatever
\* stopped by itself.
THEOREM UntouchedClusterMatches == Spec => UntouchedMatch
<1>1. Inv /\ DriftInv /\ [Next]_vars => [Matching]_vars
  <2> SUFFICES ASSUME Inv, DriftInv, [Next]_vars PROVE [Matching]_vars
    OBVIOUS
  <2>1. ASSUME NEW p \in Plans, NEW ans \in Probes, Probe(p, ans) PROVE Matching
    <3> SUFFICES ASSUME pc = "idle", failures = 0, said' = "no changes",
                        NEW n \in Nodes, ans[n] = Reads
                 PROVE  running[n] = p[n]
      BY <2>1 DEF Matching, Probe
    <3>1. Diff(p, ans) = {}
      BY <2>1 DEF Probe, Said
    <3>2. \A m \in Models : running[n][m] = p[n][m]
      BY <3>1, LeftAsPlanned
    <3>3. /\ running[n] \in [Models -> Placements \cup {None}]
          /\ p[n] \in [Models -> Placements \cup {None}]
      BY PlansType DEF Inv, TypeOK
    <3>4. /\ running[n] = [m \in Models |-> running[n][m]]
          /\ p[n] = [m \in Models |-> p[n][m]]
      BY <3>3
    <3> QED
      BY ONLY <3>2, <3>4
  <2>2. CASE Confirm \/ Decline \/ Killed \/ Finish
    BY <2>2 DEF Confirm, Decline, Killed, Finish, Matching
  <2>3. ASSUME NEW a \in todo, Run(a) \/ Fail(a) \/ Skip(a) PROVE Matching
    BY <2>3 DEF Run, Fail, Skip, Turn, Matching
  <2>4. ASSUME NEW n \in Nodes, NEW m \in Models, Stops(n, m) PROVE Matching
    <3>1. running'[n][m] = None /\ running[n][m] # None
      BY <2>4 DEF Stops, Inv, TypeOK
    <3> QED
      BY <3>1 DEF Matching
  <2> QED
    BY <2>1, <2>2, <2>3, <2>4 DEF Next
<1> QED
  BY <1>1, DriftInit, DriftStep, DoneInvariance, PTL DEF Spec, UntouchedMatch, Matching
=============================================================================
