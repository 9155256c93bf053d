--------------------------- MODULE SchedulerApply ---------------------------
(***************************************************************************)
(* python3 -m scheduler apply: probe the nodes, plan, list the changes,    *)
(* ask, then run them one by one over SSH and write the URLs last.  Every  *)
(* run starts from what earlier runs, finished, failed or killed, have     *)
(* left on the nodes.                                                      *)
(*                                                                         *)
(* The plan is the planner's: any of Plans that uses only nodes that       *)
(* answered.  MAX_LEN stands for the options that are always written (with *)
(* GPU_UTIL), TP for those written only where they differ from what        *)
(* compose takes by default (with DEVICES).                                *)
(***************************************************************************)
EXTENDS Integers

CONSTANTS Nodes, Models, Plans, None,
          MAX_FAILURES,        \* of actions, and kills, in a behaviour
          MAX_SURPRISES        \* probes that fail, containers that stop

Options == {"MAX_LEN", "TP"}
Unset == 0
Default == [MAX_LEN |-> 1, TP |-> 1]          \* of docker-compose.vllm.yml
Placements == [Options -> Nat \ {Unset}]
\* What a probe of a node can get: an answer ("up": its containers or its memory),
\* the list of its containers, its .env.  Each read may fail by itself.
Reads == {"up", "docker ps", "env"}
Probes == [Nodes -> {reads \in SUBSET Reads : reads = {} \/ "up" \in reads}]

ASSUME PlansType ==
  /\ Nodes \subseteq Nat /\ Models \subseteq Nat
  /\ Plans \subseteq [Nodes -> [Models -> Placements \cup {None}]]
  /\ None \notin Placements
  /\ MAX_FAILURES \in Nat /\ MAX_SURPRISES \in Nat

VARIABLES
  env,         \* a node's .env: the options of each model
  running,     \* the options a node's container of a model runs with, or None
  urls,        \* the orchestrator's .env: the nodes a model is routed to
  pc,          \* of the run: "idle", "confirm", "running"
  plan,        \* the target of this run or of the last one
  answer,      \* what could be read of each node in this run
  todo,        \* the actions that are left
  failed,      \* failed_nodes
  dead,        \* dead_urls
  said,        \* the last line of the run
  lost,        \* containers that have stopped by themselves since the probe
  failures, surprises

nodeVars == <<env, running>>
runVars == <<pc, plan, answer, todo, failed, dead, said>>
vars == <<env, running, urls, runVars, lost, failures, surprises>>

Nothing == [n \in Nodes |-> [m \in Models |-> None]]

Init ==
  /\ env = [n \in Nodes |-> [m \in Models |-> [o \in Options |-> Unset]]]
  /\ running = Nothing /\ urls = [m \in Models |-> {}]
  /\ pc = "idle" /\ plan = Nothing /\ answer = [n \in Nodes |-> {}]
  /\ todo = {} /\ failed = {} /\ dead = {} /\ said = "nothing"
  /\ lost = {} /\ failures = 0 /\ surprises = 0

(****************************** compute_diff ******************************)

Act(kind, n, m, o) == [kind |-> kind, node |-> n, model |-> m, option |-> o]

\* A bug: the value read is not looked at.
AlwaysRestated(old, o, value) == TRUE

\* An option is written where it differs, TP only above 1 or to undo it.
Restated(old, o, value) ==
  old # value /\ (o = "MAX_LEN" \/ value > 1 \/ old \notin {Unset, 1})

\* read_env: unreachable reads empty.
Here(ans, n, m, o) == IF "env" \in ans[n] THEN env[n][m][o] ELSE Unset

EnvWrites(p, ans, n, m) ==
  {Act("env", n, m, o) : o \in {q \in Options :
     p[n][m] # None /\ Restated(Here(ans, n, m, q), q, p[n][m][q])}}

Have(ans, n) ==
  {m \in Models : "docker ps" \in ans[n] /\ running[n][m] # None}

\* A bug: a service that runs is left as it is.
NeverRecreated(writes) == FALSE

Moved(writes) == writes # {}

ServiceActions(p, ans, n, m) ==
  IF p[n][m] = None
  THEN IF m \in Have(ans, n) THEN {Act("stop", n, m, "-")} ELSE {}
  ELSE IF m \notin Have(ans, n) THEN {Act("start", n, m, "-")}
  ELSE IF Moved(EnvWrites(p, ans, n, m)) THEN {Act("recreate", n, m, "-")} ELSE {}

Diff(p, ans) ==
  UNION {EnvWrites(p, ans, n, m) \cup ServiceActions(p, ans, n, m)
           : n \in Nodes, m \in Models}

\* _url_csvs, over the whole catalogue.
Desired(p, m) == {n \in Nodes : p[n][m] # None}

\* A bug: a plan without actions is taken for one without changes.
ActionsOnly(p) == {}

Changed(p) == {m \in Models : urls[m] # Desired(p, m)}

(******************************** cmd_apply *******************************)

Said(line) == pc' = "idle" /\ said' = line

Probe(p, ans) ==
  /\ pc = "idle"
  /\ \A n \in Nodes : "up" \notin ans[n] => \A m \in Models : p[n][m] = None
  /\ IF \A n \in Nodes : ans[n] = Reads THEN UNCHANGED surprises
     ELSE surprises < MAX_SURPRISES /\ surprises' = surprises + 1
  /\ plan' = p /\ answer' = ans /\ todo' = Diff(p, ans)
  /\ failed' = {} /\ dead' = {} /\ lost' = {}
  /\ IF Diff(p, ans) = {} /\ Changed(p) = {}
     THEN Said("no changes") ELSE pc' = "confirm" /\ said' = "nothing"
  /\ UNCHANGED <<env, running, urls, failures>>

Confirm ==
  /\ pc = "confirm" /\ pc' = "running"
  /\ UNCHANGED <<env, running, urls, plan, answer, todo, failed, dead, said,
                 lost, failures, surprises>>

Decline ==
  /\ pc = "confirm" /\ Said("cancelled") /\ todo' = {}
  /\ UNCHANGED <<env, running, urls, plan, answer, failed, dead, lost, failures, surprises>>

(********************************** apply *********************************)

Phase == [env |-> 1, stop |-> 2, start |-> 3, recreate |-> 4]

\* Node by node; in a node the options, then what stops, starts, is recreated.
Before(a, b) ==
  \/ a.node < b.node
  \/ a.node = b.node /\ Phase[a.kind] < Phase[b.kind]
  \/ /\ a.node = b.node /\ a.kind = b.kind
     /\ \/ a.model < b.model
        \/ a.model = b.model /\ a.option = "MAX_LEN" /\ b.option = "TP"

Turn(a) == pc = "running" /\ a \in todo /\ \A b \in todo : ~Before(b, a)

\* A bug: a container gets the file's values as they are.
Verbatim(options) == options

\* compose puts its default where the .env has no line.
Effective(options) ==
  [o \in Options |-> IF options[o] = Unset THEN Default[o] ELSE options[o]]

WriteOption(a) ==
  /\ env' = [env EXCEPT ![a.node][a.model][a.option] = plan[a.node][a.model][a.option]]
  /\ UNCHANGED running

Compose(a, options) ==
  /\ running' = [running EXCEPT ![a.node][a.model] = options]
  /\ UNCHANGED env

Routed(a) == a.kind \in {"start", "recreate"}

\* What a command does: up -d and --force-recreate leave a container of the
\* options that are in the .env now.
Takes(a) ==
  \/ a.kind = "env" /\ WriteOption(a)
  \/ a.kind = "stop" /\ Compose(a, None)
  \/ Routed(a) /\ Compose(a, Effective(env[a.node][a.model]))

\* A bug: a failure is reported and the node goes on.
NeverSkipped(n) == FALSE

Skipped(n) == n \in failed

Dead(a) == IF Routed(a) THEN dead \cup {<<a.node, a.model>>} ELSE dead

Run(a) ==
  /\ Turn(a) /\ ~Skipped(a.node)
  /\ Takes(a)
  /\ todo' = todo \ {a}
  /\ UNCHANGED <<urls, pc, plan, answer, failed, dead, said, lost, failures, surprises>>

\* A command fails before or after what it does (a timeout), or compose has
\* removed the old container and not put up the new one.
Fail(a) ==
  /\ Turn(a) /\ ~Skipped(a.node) /\ failures < MAX_FAILURES
  /\ \/ Takes(a)
     \/ UNCHANGED nodeVars
     \/ Routed(a) /\ Compose(a, None)
  /\ todo' = todo \ {a} /\ failed' = failed \cup {a.node} /\ dead' = Dead(a)
  /\ failures' = failures + 1
  /\ UNCHANGED <<urls, pc, plan, answer, said, lost, surprises>>

Skip(a) ==
  /\ Turn(a) /\ Skipped(a.node)
  /\ todo' = todo \ {a} /\ dead' = Dead(a)
  /\ UNCHANGED <<env, running, urls, pc, plan, answer, failed, said, lost, failures, surprises>>

Alive(m) == {n \in Desired(plan, m) : <<n, m>> \notin dead}

\* A bug: only the values the diff lists are written.
ListedOnly(m) == urls[m] # Desired(plan, m)

Written(m) == urls[m] # Desired(plan, m) \/ Alive(m) # Desired(plan, m)

Finish ==
  /\ pc = "running" /\ todo = {}
  /\ urls' = [m \in Models |-> IF Written(m) THEN Alive(m) ELSE urls[m]]
  /\ Said(IF failed = {} THEN "applied" ELSE "failed")
  /\ failed' = {} /\ dead' = {}
  /\ UNCHANGED <<env, running, plan, answer, todo, lost, failures, surprises>>

\* The process is killed between two commands; the URLs are not written.
Killed ==
  /\ pc = "running" /\ failures < MAX_FAILURES
  /\ Said("killed") /\ todo' = {} /\ failed' = {} /\ dead' = {}
  /\ failures' = failures + 1
  /\ UNCHANGED <<env, running, urls, plan, answer, lost, surprises>>

\* An operator, manage-vllm.sh or a reinstall takes a container down.
Stops(n, m) ==
  /\ running[n][m] # None /\ surprises < MAX_SURPRISES
  /\ running' = [running EXCEPT ![n][m] = None]
  /\ lost' = lost \cup {<<n, m>>} /\ surprises' = surprises + 1
  /\ UNCHANGED <<env, urls, runVars, failures>>

Next ==
  \/ \E p \in Plans, ans \in Probes : Probe(p, ans)
  \/ Confirm \/ Decline \/ Finish \/ Killed
  \/ \E a \in todo : Run(a) \/ Fail(a) \/ Skip(a)
  \/ \E n \in Nodes, m \in Models : Stops(n, m)

Spec == Init /\ [][Next]_vars
-----------------------------------------------------------------------------
ActType == [kind : {"env", "stop", "start", "recreate"}, node : Nodes,
            model : Models, option : Options \cup {"-"}]

TypeOK ==
  /\ env \in [Nodes -> [Models -> [Options -> Nat]]]
  /\ running \in [Nodes -> [Models -> Placements \cup {None}]]
  /\ urls \in [Models -> SUBSET Nodes]
  /\ pc \in {"idle", "confirm", "running"}
  /\ plan \in [Nodes -> [Models -> Placements \cup {None}]]
  /\ answer \in Probes
  /\ todo \subseteq ActType
  /\ failed \subseteq Nodes /\ dead \subseteq Nodes \X Models
  /\ said \in {"nothing", "no changes", "cancelled", "applied", "failed", "killed"}
  /\ lost \subseteq Nodes \X Models
  /\ failures \in 0..MAX_FAILURES /\ surprises \in 0..MAX_SURPRISES

\* Whatever earlier runs have left, a container this run puts up has exactly
\* the options of its plan, as far as the node's .env could be read: an option
\* is never half written, never an old one, when the service comes up.
StartedAsPlanned ==
  [][\A n \in Nodes, m \in Models :
       running'[n][m] \notin {None, running[n][m]} /\ "env" \in answer[n]
         => running'[n][m] = plan[n][m]]_vars

\* The URLs a run writes, also one with failures, are those of services its plan
\* has and whose container is there, unless it has stopped since the probe.
NoDeadRoute ==
  [][pc = "running" /\ pc' = "idle" /\ said' # "killed"
       => \A m \in Models : \A n \in urls'[m] :
            plan[n][m] # None /\ (running[n][m] # None \/ <<n, m>> \in lost)]_vars

\* A run without failures repairs what runs before it left: every placed service
\* is there and routed, every other is stopped and not routed.
AppliedIsServed ==
  [][pc' = "idle" /\ said' \in {"applied", "no changes"} /\ running' = running
       => \A n \in Nodes, m \in Models :
            /\ n \in urls'[m] <=> plan'[n][m] # None
            /\ plan'[n][m] # None => running[n][m] # None \/ <<n, m>> \in lost \cup lost'
            /\ plan'[n][m] = None /\ "docker ps" \in answer'[n]
                 => running[n][m] = None]_vars

\* The same plan again does nothing.
ReapplyIsNoOp ==
  said = "applied" /\ lost = {} /\ (\A n \in Nodes : answer[n] = Reads)
    => Diff(plan, answer) = {} /\ Changed(plan) = {}

\* Without failed commands and kills, a container runs with what its node's .env
\* says whenever no run is under way.
NoDrift ==
  failures = 0 /\ pc = "idle"
    => \A n \in Nodes, m \in Models :
         running[n][m] \in {None, Effective(env[n][m])}

\* What is true of it: where no command has failed and no run was killed, every
\* node that was read runs just what the plan has.
UntouchedMatch ==
  [][pc = "idle" /\ failures = 0 /\ said' = "no changes" /\ running' = running
       => \A n \in Nodes : answer'[n] = Reads => running[n] = plan'[n]]_vars

\* cmd_apply: "No changes - the cluster already matches the plan".
NoChangesMeansMatch ==
  [][pc = "idle" /\ said' = "no changes" /\ running' = running
       => \A n \in Nodes : answer'[n] = Reads => running[n] = plan'[n]]_vars
=============================================================================
