------------------------------ MODULE ModelGate ------------------------------
(***************************************************************************)
(* The embedding model's liveness as the server sees it: the flag failed   *)
(* queries trip, the cached probe, and the gate get_for_task puts before   *)
(* the composer, under concurrent tool calls and a model that comes and    *)
(* goes. Sources: internal/ckvclient/real.go, internal/mcp/health.go,      *)
(* get_for_task.go, search.go, internal/composer/stage1/extractor.go.      *)
(*                                                                         *)
(* An embed call and the store of its outcome are separate steps: other    *)
(* calls run in between. A cancelled request fails its embed although the  *)
(* model is up; it is the model being "flaky" for that moment.             *)
(***************************************************************************)
EXTENDS FiniteSets

CONSTANTS
  Tasks,      \* callers of get_for_task
  Searchers,  \* callers of semantic_search
  Pollers     \* callers of ops.health

Callers == Tasks \union Searchers \union Pollers
Nobody == "nobody"

ASSUME DistinctCallers ==
  /\ Tasks \intersect Searchers = {} /\ Tasks \intersect Pollers = {}
  /\ Searchers \intersect Pollers = {} /\ Nobody \notin Callers

VARIABLES
  model, graphStore, \* the environment: the embedding model, the graph store
  modelDown,       \* Real.modelDown
  age, lastProbeOK,\* Real.lastProbe as an age against modelProbeTTL, and its result
  probeMu,         \* who holds Real.probeMu
  pc,              \* per caller: where its call is
  seen,            \* per caller: what the backends told its call
  outcome          \* per caller: how its last call ended

envVars == <<model, graphStore>>
realVars == <<modelDown, age, lastProbeOK, probeMu>>
callVars == <<pc, seen, outcome>>
gateVars == <<envVars, realVars, callVars>>

\* Fault: a call starts with no round set.
NothingUnset == [ckgUp |-> FALSE, embedded |-> FALSE, round |-> "none"]

\* What a call keeps: the result of CKG.Health, the outcome of its last embed,
\* the query of Extract it is at.
Nothing == [ckgUp |-> FALSE, embedded |-> FALSE, round |-> "first"]

\* NewReal: the caller has probed the model, the probe cache is empty.
GateInit ==
  /\ model = "up" /\ graphStore = "up"
  /\ modelDown = FALSE /\ age = "never" /\ lastProbeOK = TRUE /\ probeMu = Nobody
  /\ pc = [c \in Callers |-> "idle"]
  /\ seen = [c \in Callers |-> Nothing]
  /\ outcome = [c \in Callers |-> "none"]

(***************************************************************************)
(* The environment                                                         *)
(***************************************************************************)
ModelChanges ==
  /\ model' \in {"up", "down", "flaky"} \ {model}
  /\ UNCHANGED <<graphStore, realVars, callVars>>

CkgChanges ==
  /\ graphStore' \in {"up", "down"} \ {graphStore}
  /\ UNCHANGED <<model, realVars, callVars>>

\* modelProbeTTL passes.
CacheExpires ==
  /\ age = "fresh"
  /\ age' = "stale"
  /\ UNCHANGED <<envVars, modelDown, lastProbeOK, probeMu, callVars>>

(***************************************************************************)
(* A call, up to the verdict on the backends                               *)
(***************************************************************************)
Goto(c, l) == pc' = [pc EXCEPT ![c] = l]
Return(c, o) ==
  /\ Goto(c, "idle")
  /\ seen' = [seen EXCEPT ![c] = Nothing]
  /\ outcome' = [outcome EXCEPT ![c] = o]

CallTool(c) ==
  /\ pc[c] = "idle"
  /\ Goto(c, IF c \in Searchers THEN "query" ELSE "ckg")
  /\ outcome' = [outcome EXCEPT ![c] = "none"]
  /\ UNCHANGED <<envVars, realVars, seen>>

\* CKG.Health; CKV.Health follows whatever it returns.
CheckCkg(c) ==
  /\ pc[c] = "ckg"
  /\ seen' = [seen EXCEPT ![c].ckgUp = (graphStore = "up")]
  /\ Goto(c, "flag")
  /\ UNCHANGED <<envVars, realVars, outcome>>

\* Fault: an open index counts as usable, the model behind it is not asked about.
ServiceableWithoutModel(c, modelUp) == seen[c].ckgUp

\* probeModel returned `modelUp`. The gate and the health report agree: only
\* both backends usable is serviceable.
Serviceable(c, modelUp) == seen[c].ckgUp /\ modelUp

Verdict(c, modelUp) ==
  \/ /\ Serviceable(c, modelUp) /\ c \in Tasks
     /\ Goto(c, "query")
     /\ UNCHANGED <<seen, outcome>>
  \/ Serviceable(c, modelUp) /\ c \in Pollers /\ Return(c, "ok")
  \/ ~Serviceable(c, modelUp) /\ Return(c, "unavailable")

(***************************************************************************)
(* probeModel                                                              *)
(***************************************************************************)
FlagIsDown(c) ==
  /\ pc[c] = "flag" /\ modelDown
  /\ Verdict(c, FALSE)
  /\ UNCHANGED <<envVars, realVars>>

FlagIsUp(c) ==
  /\ pc[c] = "flag" /\ ~modelDown
  /\ Goto(c, "lock")
  /\ UNCHANGED <<envVars, realVars, seen, outcome>>

UseCachedProbe(c) ==
  /\ pc[c] = "lock" /\ probeMu = Nobody /\ age = "fresh"
  /\ Verdict(c, lastProbeOK)
  /\ UNCHANGED <<envVars, realVars>>

\* Fault: the cache is read before the mutex is taken.
ProbeUnlocked(c) ==
  /\ pc[c] = "lock" /\ age # "fresh"
  /\ probeMu' = c
  /\ Goto(c, "probe")
  /\ UNCHANGED <<envVars, modelDown, age, lastProbeOK, seen, outcome>>

LockProbe(c) ==
  /\ pc[c] = "lock" /\ probeMu = Nobody /\ age # "fresh"
  /\ probeMu' = c
  /\ Goto(c, "probe")
  /\ UNCHANGED <<envVars, modelDown, age, lastProbeOK, seen, outcome>>

\* The model is asked, and answers by its state at that moment.
Embed(c, ok) ==
  /\ ok \in IF model = "flaky" THEN BOOLEAN ELSE {model = "up"}
  /\ seen' = [seen EXCEPT ![c].embedded = ok]
  /\ UNCHANGED <<envVars, realVars, outcome>>

ProbeEmbed(c) ==
  /\ pc[c] = "probe"
  /\ \E ok \in BOOLEAN : Embed(c, ok)
  /\ Goto(c, "probed")

ProbeStore(c) ==
  /\ pc[c] = "probed"
  /\ age' = "fresh"
  /\ lastProbeOK' = seen[c].embedded
  /\ modelDown' = ~seen[c].embedded
  /\ probeMu' = Nobody
  /\ Verdict(c, seen[c].embedded)
  /\ UNCHANGED <<envVars>>

(***************************************************************************)
(* SemanticSearch, called by semantic_search and by the rounds of Extract  *)
(***************************************************************************)
QueryEmbed(c) ==
  /\ pc[c] = "query"
  /\ \E ok \in BOOLEAN : Embed(c, ok)
  /\ Goto(c, "queried")

\* Fault: a query that succeeds does not clear the flag.
QueryNeverClears(c) ==
  /\ pc[c] = "queried"
  /\ modelDown' = (modelDown \/ ~seen[c].embedded)
  /\ UNCHANGED <<envVars, age, lastProbeOK, probeMu>>

QueryStore(c) ==
  /\ pc[c] = "queried"
  /\ modelDown' = ~seen[c].embedded
  /\ UNCHANGED <<envVars, age, lastProbeOK, probeMu>>

SearchReturns(c) ==
  /\ c \in Searchers /\ QueryStore(c)
  /\ Return(c, IF seen[c].embedded THEN "ok" ELSE "unavailable")

\* A failure of the first round aborts Extract, and with it Compose.
FirstRoundFails(c) ==
  /\ c \in Tasks /\ seen[c].round = "first" /\ ~seen[c].embedded /\ QueryStore(c)
  /\ Return(c, "error")

\* Another round follows a first one of low confidence, the knowledge pass the last.
NextRound(c) ==
  /\ c \in Tasks /\ seen[c].round # "knowledge"
  /\ seen[c].round = "first" => seen[c].embedded
  /\ QueryStore(c)
  /\ Goto(c, "query")
  /\ \E r \in IF seen[c].round = "first" THEN {"second", "knowledge"} ELSE {"knowledge"} :
       seen' = [seen EXCEPT ![c].round = r]
  /\ UNCHANGED outcome

\* The knowledge pass ends Extract whatever its outcome; the rest of Compose
\* does not ask the model.
KnowledgePassEnds(c) ==
  /\ c \in Tasks /\ seen[c].round = "knowledge" /\ QueryStore(c)
  /\ Return(c, "pack")

Continue(c) ==
  \/ CheckCkg(c)
  \/ FlagIsDown(c) \/ FlagIsUp(c)
  \/ UseCachedProbe(c) \/ LockProbe(c) \/ ProbeEmbed(c) \/ ProbeStore(c)
  \/ QueryEmbed(c) \/ SearchReturns(c)
  \/ FirstRoundFails(c) \/ NextRound(c) \/ KnowledgePassEnds(c)

GateNext ==
  \/ ModelChanges \/ CkgChanges \/ CacheExpires
  \/ \E c \in Callers : CallTool(c) \/ Continue(c)

\* A call that has begun goes on; time passes; clients keep calling. A goroutine
\* that waits for probeMu gets it in the end: sync.Mutex hands the lock over
\* to a waiter it has kept waiting (its starvation mode).
Fairness ==
  /\ \A c \in Callers : /\ WF_gateVars(Continue(c)) /\ WF_gateVars(CallTool(c))
                       /\ SF_gateVars(UseCachedProbe(c) \/ LockProbe(c))
  /\ WF_gateVars(CacheExpires)

GateSpec == GateInit /\ [][GateNext]_gateVars
GateFairSpec == GateSpec /\ Fairness
-----------------------------------------------------------------------------
(***************************************************************************)
(* Properties                                                              *)
(***************************************************************************)
\* Type invariant.
GateTypeOK ==
  /\ model \in {"up", "down", "flaky"} /\ graphStore \in {"up", "down"}
  /\ modelDown \in BOOLEAN /\ age \in {"never", "fresh", "stale"}
  /\ lastProbeOK \in BOOLEAN /\ probeMu \in Callers \union {Nobody}
  /\ pc \in [Callers -> {"idle", "ckg", "flag", "lock", "probe", "probed", "query", "queried"}]
  /\ seen \in [Callers -> [ckgUp : BOOLEAN, embedded : BOOLEAN,
                            round : {"first", "second", "knowledge"}]]
  /\ outcome \in [Callers -> {"none", "ok", "unavailable", "error", "pack"}]

\* However many callers poll at once, the model is probed by one of them at a
\* time and only when no probe finished within the TTL: the others wait on the
\* mutex and find the fresh result.
OneProbePerWindow ==
  \A c \in Callers : pc[c] \in {"probe", "probed"} => probeMu = c /\ age # "fresh"

\* A failed probe is remembered twice, in the flag and in the cache. A query
\* that succeeds, or one that succeeded before the outage and stores late,
\* clears the flag; the cache still keeps the gate shut until it expires.
BadProbeHolds ==
  age = "fresh" /\ ~lastProbeOK =>
    \A c \in Tasks : pc[c] # "queried" => pc'[c] # "query" \/ pc[c] = "query"

\* What one probe found stands for all callers until its result expires.
ProbesAreShared == [][OneProbePerWindow' /\ BadProbeHolds]_gateVars

\* Once the model stays down, only finitely many calls still get past the
\* gate: stale successes and a good cached probe run out.
OutageRefused ==
  <>[](model = "down") => <>[](\A c \in Tasks : pc[c] \notin {"query", "queried"})

\* Once both backends stay up, a client that retries get_for_task is served
\* again ("wait for ckv to become ready or provision it, then retry",
\* get_for_task.go:36).
RetryServes ==
  <>[](model = "up" /\ graphStore = "up") => \A c \in Tasks : []<>(outcome[c] = "pack")
=============================================================================
