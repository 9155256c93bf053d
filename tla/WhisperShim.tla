---------------------------- MODULE WhisperShim ----------------------------
(***************************************************************************)
(* services/whisper-shim/app.py: each upload goes to the least busy of the *)
(* backends whose last health check was good.  Whoever finds the checks    *)
(* older than the TTL makes a round of them under _HEALTH_LOCK, the others *)
(* wait.  From the end of the round or of the wait to the call of the      *)
(* backend there is no await that yields: _INFLIGHT_LOCK is never held     *)
(* across one.                                                             *)
(***************************************************************************)
EXTENDS Integers, FiniteSets

CONSTANTS Uploads, NoUpload,
          Backends,              \* the number of WHISPER_URLS
          HEALTH_CACHE_TTL_SEC, AgeCap,
          HEALTH_PROBE_TIMEOUT_SEC   \* the longest a check takes: httpx's limit is per phase

Whispers == 1..Backends

ASSUME TimesType ==
  /\ Backends \in Nat \ {0} /\ NoUpload \notin Uploads
  /\ HEALTH_CACHE_TTL_SEC \in Nat \ {0} /\ HEALTH_PROBE_TIMEOUT_SEC \in Nat
  /\ AgeCap \in Nat /\ AgeCap > HEALTH_CACHE_TTL_SEC + HEALTH_PROBE_TIMEOUT_SEC

VARIABLES
  dead,        \* how long each backend has not answered; 0 while it does
  health,      \* _HEALTH: the backends found up
  checked,     \* the time since _HEALTH_AT, up to AgeCap
  prober,      \* who holds _HEALTH_LOCK
  probing,     \* how long the round has lasted
  verdict,     \* the checks of the round that are back
  inflight,    \* _INFLIGHT
  upload       \* each request: Away, Picking, Reporting, or sent to a backend

speechVars == <<dead, health, checked, prober, probing, verdict, inflight, upload>>

Away == 0
Picking == -1
Reporting == -2

NoVerdict == [b \in Whispers |-> "none"]

SpeechInit ==
  /\ dead = [b \in Whispers |-> 0] /\ health = {} /\ checked = AgeCap
  /\ prober = NoUpload /\ probing = 0 /\ verdict = NoVerdict
  /\ inflight = [b \in Whispers |-> 0] /\ upload = [u \in Uploads |-> Away]

(***************************** _pick_backend *****************************)

LeastBusy(healthy) == {b \in healthy : \A o \in healthy : inflight[b] <= inflight[o]}

FirstOf(S) == CHOOSE b \in S : \A o \in S : b <= o

\* With none up the first one is tried all the same.
Pick(healthy) == IF healthy = {} THEN 1 ELSE FirstOf(LeastBusy(healthy))

Send(u, b) ==
  /\ upload' = [upload EXCEPT ![u] = b]
  /\ inflight' = [inflight EXCEPT ![b] = @ + 1]

Arrive(u) ==
  /\ upload[u] = Away
  /\ IF Backends = 1
     THEN Send(u, 1)
     ELSE upload' = [upload EXCEPT ![u] = Picking] /\ UNCHANGED inflight
  /\ UNCHANGED <<dead, health, checked, prober, probing, verdict>>

\* /health refreshes the checks too.
AsksHealth(u) ==
  /\ upload[u] = Away
  /\ upload' = [upload EXCEPT ![u] = Reporting]
  /\ UNCHANGED <<dead, health, checked, prober, probing, verdict, inflight>>

Waits(u) == upload[u] \in {Picking, Reporting} /\ prober = NoUpload

Proceeds(u, healthy) ==
  IF upload[u] = Picking
  THEN Send(u, Pick(healthy))
  ELSE upload' = [upload EXCEPT ![u] = Away] /\ UNCHANGED inflight

\* A bug: checks once good stay good.
OnceChecked == checked < AgeCap

Fresh == checked < HEALTH_CACHE_TTL_SEC

\* The lock is free and the checks are young, or were made while this one waited.
TakesChecks(u) ==
  /\ Waits(u) /\ Fresh
  /\ Proceeds(u, health)
  /\ UNCHANGED <<dead, health, checked, prober, probing, verdict>>

BeginsRound(u) ==
  /\ Waits(u) /\ ~Fresh
  /\ prober' = u /\ probing' = 0 /\ verdict' = NoVerdict
  /\ UNCHANGED <<dead, health, checked, inflight, upload>>

CheckBack(b) ==
  /\ prober # NoUpload /\ verdict[b] = "none"
  /\ verdict' = [verdict EXCEPT ![b] = IF dead[b] = 0 THEN "up" ELSE "down"]
  /\ UNCHANGED <<dead, health, checked, prober, probing, inflight, upload>>

EndsRound(u) ==
  /\ prober = u /\ \A b \in Whispers : verdict[b] # "none"
  /\ health' = {b \in Whispers : verdict[b] = "up"}
  /\ checked' = 0 /\ prober' = NoUpload /\ probing' = 0 /\ verdict' = NoVerdict
  /\ Proceeds(u, health')
  /\ UNCHANGED dead

(******************************* transcribe ******************************)

\* A bug: an upload that fails stays counted.
CountOfAnswered(b) == IF dead[b] = 0 THEN inflight[b] - 1 ELSE inflight[b]

CountWithout(b) == IF inflight[b] = 0 THEN 0 ELSE inflight[b] - 1

\* Answered, or 502 without a try of another backend.
Transcribed(u) ==
  /\ upload[u] \in Whispers
  /\ inflight' = [inflight EXCEPT ![upload[u]] = CountWithout(upload[u])]
  /\ upload' = [upload EXCEPT ![u] = Away]
  /\ UNCHANGED <<dead, health, checked, prober, probing, verdict>>

(**************************** the world outside **************************)

Changes(b) ==
  /\ dead' = [dead EXCEPT ![b] = IF @ = 0 THEN 1 ELSE 0]
  /\ UNCHANGED <<health, checked, prober, probing, verdict, inflight, upload>>

Older(age) == IF age < AgeCap THEN age + 1 ELSE age

\* A round of checks lasts no longer than one check may.
Second ==
  /\ prober # NoUpload => probing < HEALTH_PROBE_TIMEOUT_SEC
  /\ checked' = Older(checked)
  /\ probing' = IF prober = NoUpload THEN 0 ELSE probing + 1
  /\ dead' = [b \in Whispers |-> IF dead[b] = 0 THEN 0 ELSE Older(dead[b])]
  /\ UNCHANGED <<health, prober, verdict, inflight, upload>>

SpeechNext ==
  \/ Second
  \/ \E b \in Whispers : CheckBack(b) \/ Changes(b)
  \/ \E u \in Uploads :
       Arrive(u) \/ AsksHealth(u) \/ TakesChecks(u) \/ BeginsRound(u) \/ EndsRound(u) \/ Transcribed(u)

SpeechSpec == SpeechInit /\ [][SpeechNext]_speechVars
-----------------------------------------------------------------------------
\* A backend that has stopped answering gets no upload once the TTL and a round
\* of checks have passed, unless no backend answers its check.
DeadAvoided ==
  [][\A u \in Uploads, b \in Whispers :
       upload[u] = Picking /\ upload'[u] = b =>
         \/ dead[b] <= HEALTH_CACHE_TTL_SEC + HEALTH_PROBE_TIMEOUT_SEC
         \/ health' = {}]_speechVars

\* An upload goes where fewest really are under way, among the backends found
\* up: uploads that waited for one round of checks do not all take the same one.
UploadsSpread ==
  [][\A u \in Uploads, b, o \in Whispers :
       upload[u] = Picking /\ upload'[u] = b /\ o \in health' =>
         \/ b \notin health'
         \/ Cardinality({v \in Uploads : upload[v] = b})
              <= Cardinality({v \in Uploads : upload[v] = o})]_speechVars
=============================================================================
