-------------------------------- MODULE Server --------------------------------
(***************************************************************************)
(* One cks-mcp process from its configuration file to its exit: the        *)
(* startup that opens backend after backend and degrades or refuses, the   *)
(* tools it serves over HTTP to concurrent clients, and the shutdown that  *)
(* races running requests against a grace period. Sources:                 *)
(* cmd/cks-mcp/main.go, internal/mcp/server.go, internal/mcp/flow.go,      *)
(* internal/config/config.go, internal/embedder/embedder.go,               *)
(* internal/footprint/footprint.go, internal/ckvclient/{dummy,flow}.go.    *)
(*                                                                         *)
(* What a backend answers is a choice of the environment at the moment it  *)
(* is asked. Coordinates and the gate's probe have modules of their own    *)
(* (Dataset, ModelGate); the graph tools' answers are in GraphTools.       *)
(***************************************************************************)
EXTENDS Naturals, Sequences, FiniteSets

CONSTANTS
  Configs,          \* what the file, the environment and -http-addr may say
  Clients,          \* hosts that connect
  Network,          \* [Clients -> network], the network of the peer address
  PrivateNetworks   \* RFC 1918, fc00::/7 and link-local

Networks == {Network[c] : c \in Clients} \union PrivateNetworks
Config ==
  [version : {"current", "other"}, level : {"info", "loud"},
   transport : {"stdio", "http", "grpc"},
   addr : {"none", "loopback", "routable"}, override : {"none", "loopback", "routable"},
   allowRemote : BOOLEAN, allowedNets : SUBSET (Networks \union {"malformed"}),
   projectDir : BOOLEAN, corpusDir : BOOLEAN, rulesPath : BOOLEAN,
   ckgPath : BOOLEAN, ckvPath : BOOLEAN, provider : {"ollama", "other"},
   footprintDir : BOOLEAN, glossaryPath : BOOLEAN]

ASSUME ServerInputs ==
  /\ Configs \subseteq Config
  /\ "malformed" \notin Networks

VARIABLES
  main,        \* where main() is
  cfg,         \* the configuration
  addr,        \* the address RunHTTP is given
  ckg, ckv,    \* the clients: "none" before they are built, "dummy", "degraded" or "real"
  ckvEmb,      \* the embedder shared by the vectors and the intent classifier
  intentEmb,   \* "none", "model" or "fake"
  aligned,     \* AlignmentReport.OK
  open,        \* what the process holds open
  deferred,    \* run's deferred closers, the last one first
  exit,        \* the exit status main is heading for
  signalled,   \* SIGINT or SIGTERM arrived: ctx is done
  listener,    \* the goroutine of ListenAndServe
  graceOver,   \* the five seconds of Shutdown have passed
  calls        \* per client, its tool call

startVars == <<cfg, addr, ckg, ckv, ckvEmb, intentEmb, aligned>>
runVars == <<listener, graceOver, calls>>
vars == <<main, startVars, open, deferred, exit, signalled, runVars>>

NoCall == [phase |-> "idle", tool |-> "none", answer |-> "none"]

Init ==
  /\ main = "config" /\ cfg \in Configs /\ addr = "none"
  /\ ckg = "none" /\ ckv = "none" /\ ckvEmb = "none" /\ intentEmb = "none" /\ aligned = TRUE
  /\ open = {} /\ deferred = <<>> /\ exit = 0 /\ signalled = FALSE
  /\ listener = "none" /\ graceOver = FALSE
  /\ calls = [c \in Clients |-> NoCall]

(***************************************************************************)
(* Startup: run, step by step. A step that fails ends the process with     *)
(* status 1 after the closers deferred so far.                             *)
(***************************************************************************)
Validate(c) ==
  /\ c.version = "current" /\ c.level # "loud"
  /\ c.transport \in {"stdio", "http"}
  /\ c.transport = "http" => c.addr # "none"
  /\ c.addr = "routable" => c.allowRemote
  /\ "malformed" \notin c.allowedNets
  /\ c.projectDir = c.corpusDir

Advance(from, to) == main = from /\ main' = to /\ UNCHANGED <<exit, signalled, runVars>>
Refuse(from) ==
  /\ main = from /\ main' = "unwind" /\ exit' = 1
  /\ UNCHANGED <<startVars, deferred, signalled, runVars>>

\* The overrides come after Validate and are not validated again.
LoadConfig ==
  /\ Advance("config", "rules")
  /\ Validate(cfg)
  /\ addr' = IF cfg.override # "none" THEN cfg.override ELSE cfg.addr
  /\ UNCHANGED <<cfg, ckg, ckv, ckvEmb, intentEmb, aligned, open, deferred>>

RejectConfig == ~ Validate(cfg) /\ Refuse("config") /\ UNCHANGED open

LoadRuleset == Advance("rules", "graph") /\ UNCHANGED <<startVars, open, deferred>>
RejectRuleset == cfg.rulesPath /\ Refuse("rules") /\ UNCHANGED open

OpenGraph ==
  /\ Advance("graph", "embedder")
  /\ ckg' = IF cfg.ckgPath THEN "real" ELSE "dummy"
  /\ open' = IF cfg.ckgPath THEN open \union {"ckg"} ELSE open
  /\ UNCHANGED <<cfg, addr, ckv, ckvEmb, intentEmb, aligned, deferred>>

\* Fault: a graph that fails to open leaves its store open.
GraphLeaks == cfg.ckgPath /\ Refuse("graph") /\ open' = {"ckg"}

\* No graph, no citations: the one backend whose failure is fatal.
GraphFails == cfg.ckgPath /\ Refuse("graph") /\ UNCHANGED open

\* Open may fail for its provider, the daemon or the dimension: it closes what
\* it opened and the server degrades. No closer is kept for an adapter that
\* opened: the composite closer of buildBackends closes the two clients.
OpenEmbedder ==
  /\ Advance("embedder", "vectors")
  /\ ckvEmb' \in IF ~ cfg.ckvPath \/ cfg.provider # "ollama" THEN {"none"} ELSE {"none", "model"}
  /\ open' = IF ckvEmb' = "model" THEN open \union {"embedder"} ELSE open
  /\ UNCHANGED <<cfg, addr, ckg, ckv, intentEmb, aligned, deferred>>

\* Fault: the index is opened without asking whether there is an embedder.
VectorsWithoutEmbedder == IF ~ cfg.ckvPath THEN {"dummy"} ELSE {"degraded", "real"}

\* What buildCKVClient may return.
VectorClients ==
  CASE ~ cfg.ckvPath -> {"dummy"}
    [] cfg.ckvPath /\ ckvEmb = "none" -> {"degraded"}
    [] OTHER -> {"degraded", "real"}

OpenVectors ==
  /\ Advance("vectors", "align")
  /\ ckv' \in VectorClients
  /\ open' = IF ckv' = "real" THEN open \union {"ckv"} ELSE open
  /\ intentEmb' = IF ckvEmb = "model" THEN "model" ELSE "fake"
  /\ deferred' = <<"backends">>
  /\ UNCHANGED <<cfg, addr, ckg, ckvEmb, aligned>>

\* A mismatch, or a graph whose schema is too old, is logged and served. The
\* dummy's schema is the word "dummy", which is no version: it never aligns.
Align ==
  /\ Advance("align", "footprint")
  /\ aligned' \in IF ckg = "real" THEN BOOLEAN ELSE {FALSE}
  /\ UNCHANGED <<cfg, addr, ckg, ckv, ckvEmb, intentEmb, open, deferred>>

BuildFootprint ==
  /\ Advance("footprint", "glossary")
  /\ open' = IF cfg.footprintDir THEN open \union {"footprint"} ELSE open
  /\ deferred' = <<"footprint">> \o deferred
  /\ UNCHANGED startVars

FootprintFails == cfg.footprintDir /\ Refuse("footprint") /\ UNCHANGED open

LoadGlossary == Advance("glossary", "composer") /\ UNCHANGED <<startVars, open, deferred>>
RejectGlossary == cfg.glossaryPath /\ Refuse("glossary") /\ UNCHANGED open

\* intent.New embeds every anchor; the fake embedder cannot fail.
BuildComposer ==
  /\ Advance("composer", IF cfg.transport = "http" THEN "serve" ELSE "stdio")
  /\ UNCHANGED <<startVars, open, deferred>>
AnchorsFail == intentEmb = "model" /\ Refuse("composer") /\ UNCHANGED open

(***************************************************************************)
(* Serving                                                                 *)
(***************************************************************************)
\* Run: stdio has one client, and mcp-go ends the loop at end of input or at
\* a signal.
ServeStdio ==
  /\ main = "stdio" /\ main' = "unwind"
  /\ exit' \in {0, 1}
  /\ UNCHANGED <<startVars, open, deferred, signalled, runVars>>

\* RunHTTP starts the goroutine and waits for it or for the signal.
RunHTTP ==
  /\ main = "serve" /\ main' = "select"
  /\ listener' = "starting"
  /\ UNCHANGED <<startVars, open, deferred, exit, signalled, graceOver, calls>>

ShuttingDown == main \in {"shutdown", "unwind", "exited"}

\* ListenAndServe: up, refused by a Shutdown that came first, or the port is taken.
Listen ==
  /\ listener = "starting" /\ main # "exited"
  /\ listener' = IF ShuttingDown THEN "closed" ELSE "up"
  /\ UNCHANGED <<main, startVars, open, deferred, exit, signalled, graceOver, calls>>

ListenerFails ==
  /\ listener \in {"starting", "up"} /\ ~ ShuttingDown
  /\ listener' = "failed"
  /\ UNCHANGED <<main, startVars, open, deferred, exit, signalled, graceOver, calls>>

\* Anyone may signal the process; NotifyContext keeps it from dying of it.
Signal ==
  /\ ~ signalled /\ main # "exited"
  /\ signalled' = TRUE
  /\ UNCHANGED <<main, startVars, open, deferred, exit, runVars>>

\* The two arms of the select; when both are ready either may be taken.
SelectListenerError ==
  /\ main = "select" /\ listener = "failed"
  /\ main' = "unwind" /\ exit' = 1
  /\ UNCHANGED <<startVars, open, deferred, signalled, runVars>>

SelectSignal ==
  /\ main = "select" /\ signalled
  /\ main' = "shutdown"
  /\ listener' = IF listener = "up" THEN "closed" ELSE listener
  /\ UNCHANGED <<startVars, open, deferred, exit, signalled, graceOver, calls>>

(***************************************************************************)
(* The tools. A call is "running" from the accept to its answer.           *)
(***************************************************************************)
FlowTools == {"get_flow", "find_invariants"}   \* one that navigates, one that looks up
Tools == FlowTools \union {"get_for_task", "semantic_search", "freshness", "graph"}
Running(c) == calls[c].phase \in {"asked", "composing"}

\* clientACL: the loopback always; others by consent, by list or by the private ranges.
Allowed(c) ==
  \/ Network[c] = "loopback"
  \/ /\ cfg.allowRemote
     /\ Network[c] \in IF cfg.allowedNets = {} THEN PrivateNetworks ELSE cfg.allowedNets

Reaches(c) == addr = "routable" \/ Network[c] = "loopback"
Answer(c, a) ==
  /\ calls' = [calls EXCEPT ![c].phase = "answered", ![c].answer = a]
  /\ UNCHANGED <<main, startVars, open, deferred, exit, signalled, listener, graceOver>>

Connect(c) ==
  /\ listener = "up" /\ calls[c].phase = "idle" /\ Reaches(c)
  /\ \E t \in Tools :
       calls' = [calls EXCEPT ![c] = IF Allowed(c) THEN [phase |-> "asked", tool |-> t, answer |-> "none"]
                                     ELSE [phase |-> "answered", tool |-> t, answer |-> "forbidden"]]
  /\ UNCHANGED <<main, startVars, open, deferred, exit, signalled, listener, graceOver>>

Asked(c, t) == calls[c].phase = "asked" /\ calls[c].tool = t /\ main # "exited"

\* handleGetForTask: the gate first; the model may be down at any time.
PassGate(c) ==
  /\ Asked(c, "get_for_task") /\ aligned /\ ckv = "real"
  /\ calls' = [calls EXCEPT ![c].phase = "composing"]
  /\ UNCHANGED <<main, startVars, open, deferred, exit, signalled, listener, graceOver>>

FailGate(c) ==
  /\ Asked(c, "get_for_task")
  /\ Answer(c, "refused")

Compose(c) ==
  /\ calls[c].phase = "composing" /\ main # "exited"
  /\ \E a \in {"pack", "error"} : Answer(c, a)

\* The direct tools, none of which asks the gate: what a real backend answers,
\* and what the dummy in its place does.
SearchAnswers == IF ckv = "real" THEN {"data", "error"} ELSE {"placeholder"}
GraphAnswers == IF ckg = "real" THEN {"data", "error"} ELSE {"placeholder"}
NavigationAnswers == IF ckv = "real" THEN {"data", "error"} ELSE {"unsupported"}
LookupAnswers == IF ckv = "real" THEN {"data", "error"} ELSE {"empty"}

\* Only freshness and the two lookups need no argument.
MissingArgument(c) ==
  /\ \E t \in Tools \ {"freshness", "find_invariants"} : Asked(c, t)
  /\ Answer(c, "error")

handleSemanticSearch(c) == Asked(c, "semantic_search") /\ \E a \in SearchAnswers : Answer(c, a)
handleFreshness(c) == Asked(c, "freshness") /\ \E a \in SearchAnswers : Answer(c, a)
handleGraphTool(c) == Asked(c, "graph") /\ \E a \in GraphAnswers : Answer(c, a)
handleGetFlow(c) == Asked(c, "get_flow") /\ \E a \in NavigationAnswers : Answer(c, a)
handleFindInvariants(c) == Asked(c, "find_invariants") /\ \E a \in LookupAnswers : Answer(c, a)

NextCall(c) ==
  /\ calls[c].phase = "answered" /\ listener = "up"
  /\ calls' = [calls EXCEPT ![c] = NoCall]
  /\ UNCHANGED <<main, startVars, open, deferred, exit, signalled, listener, graceOver>>

ToolStep(c) ==
  \/ MissingArgument(c) \/ FailGate(c) \/ PassGate(c) \/ Compose(c)
  \/ handleSemanticSearch(c) \/ handleFreshness(c) \/ handleGraphTool(c)
  \/ handleGetFlow(c) \/ handleFindInvariants(c)

(***************************************************************************)
(* Shutdown and exit                                                       *)
(***************************************************************************)
\* Fault: RunHTTP returns when ListenAndServe does, without waiting for Shutdown.
IdleAssumed == main = "shutdown"

\* Every connection is idle.
Idle == main = "shutdown" /\ \A c \in Clients : ~ Running(c)

ShutdownReturns ==
  /\ Idle
  /\ main' = "unwind"
  /\ UNCHANGED <<startVars, open, deferred, exit, signalled, runVars>>

GraceRunsOut ==
  /\ main = "shutdown" /\ ~ graceOver
  /\ graceOver' = TRUE
  /\ UNCHANGED <<main, startVars, open, deferred, exit, signalled, listener, calls>>

\* Fault: Shutdown is given a context that never ends.
NeverTimesOut == FALSE /\ UNCHANGED vars

\* The context's error goes up to main: exit status 1.
ShutdownTimesOut ==
  /\ main = "shutdown" /\ graceOver
  /\ main' = "unwind" /\ exit' = 1
  /\ UNCHANGED <<startVars, open, deferred, signalled, runVars>>

\* Fault: the composite closer stops at the vectors.
ClosesVectors(d) == CASE d = "footprint" -> <<"footprint">> [] d = "backends" -> <<"ckv">>

\* What a deferred closer closes, in order.
Closes(d) == CASE d = "footprint" -> <<"footprint">> [] d = "backends" -> <<"ckv", "ckg">>

\* The closers run one close at a time, while what the process still runs goes on.
Unwind ==
  /\ main = "unwind" /\ deferred # <<>>
  /\ LET order == Closes(Head(deferred)) IN
     \/ \E i \in DOMAIN order :
          /\ order[i] \in open /\ \A j \in 1..(i - 1) : order[j] \notin open
          /\ open' = open \ {order[i]} /\ deferred' = deferred
     \/ /\ \A i \in DOMAIN order : order[i] \notin open
        /\ open' = open /\ deferred' = Tail(deferred)
  /\ UNCHANGED <<main, startVars, exit, signalled, runVars>>

Exit ==
  /\ main = "unwind" /\ deferred = <<>>
  /\ main' = "exited"
  /\ UNCHANGED <<startVars, open, deferred, exit, signalled, runVars>>

StartupStep ==
  \/ LoadConfig \/ RejectConfig \/ LoadRuleset \/ RejectRuleset \/ OpenGraph \/ GraphFails
  \/ OpenEmbedder \/ OpenVectors \/ Align \/ BuildFootprint \/ FootprintFails
  \/ LoadGlossary \/ RejectGlossary \/ BuildComposer \/ AnchorsFail
ServeStep ==
  RunHTTP \/ SelectListenerError \/ SelectSignal \/ ShutdownReturns \/ ShutdownTimesOut
MainStep == StartupStep \/ ServeStep \/ Unwind \/ Exit

Next ==
  \/ MainStep \/ ServeStdio \/ Signal \/ Listen \/ ListenerFails \/ GraceRunsOut
  \/ \E c \in Clients : Connect(c) \/ ToolStep(c) \/ NextCall(c)

Spec == Init /\ [][Next]_vars
\* main runs whenever it can, and the timer fires. Nothing is assumed of the
\* tools, a call may hang in its embed for ever, nor of mcp-go's stdio loop.
FairSpec == Spec /\ WF_vars(MainStep) /\ WF_vars(GraceRunsOut)

(***************************************************************************)
(* Properties                                                              *)
(***************************************************************************)
Phases == {"idle", "asked", "composing", "answered"}
AllAnswers == {"none", "forbidden", "refused", "pack", "error", "data", "placeholder", "unsupported", "empty"}

\* Types; and what is open is what the clients built so far need.
TypeOK ==
  /\ main \in {"config", "rules", "graph", "embedder", "vectors", "align", "footprint", "glossary",
              "composer", "stdio", "serve", "select", "shutdown", "unwind", "exited"}
  /\ cfg \in Configs /\ addr \in {"none", "loopback", "routable"}
  /\ ckg \in {"none", "dummy", "real"} /\ ckv \in {"none", "dummy", "degraded", "real"}
  /\ ckvEmb \in {"none", "model"} /\ intentEmb \in {"none", "model", "fake"}
  /\ aligned \in BOOLEAN /\ signalled \in BOOLEAN /\ graceOver \in BOOLEAN /\ exit \in {0, 1}
  /\ open \subseteq {"ckg", "ckv", "footprint", "embedder"} /\ deferred \in Seq({"backends", "footprint"})
  /\ listener \in {"none", "starting", "up", "failed", "closed"}
  /\ calls \in [Clients -> [phase : Phases, tool : Tools \union {"none"}, answer : AllAnswers]]
  /\ ("ckg" \in open => ckg = "real") /\ ("ckv" \in open => ckv = "real")
  /\ ("embedder" \in open <=> ckvEmb = "model")
  /\ main \notin {"unwind", "exited"} => (ckg = "real" => "ckg" \in open) /\ (ckv = "real" => "ckv" \in open)

\* The stores are closed under a running request only when the grace period ran
\* out or the listener died by itself (RunHTTP returns at once then); and a
\* process that ends a signalled run with status 0 cut nobody off.
GraceBeforeClose ==
  \A c \in Clients : Running(c) =>
    /\ main \in {"unwind", "exited"} => graceOver \/ listener = "failed"
    /\ main = "exited" => exit = 1

\* Every way out of run, a startup that fails half way included, closes what the
\* process opened, except the embedder's adapter: it has a Close, which only Open
\* calls, on a wrong dimension, so that it stays open whenever it was opened. And
\* the stores outlive the footprint that is written about them.
NothingStaysOpen ==
  /\ main = "exited" => open = IF ckvEmb = "model" THEN {"embedder"} ELSE {}
  /\ main = "unwind" /\ "footprint" \in open =>
       (ckg = "real" => "ckg" \in open) /\ (ckv = "real" => "ckv" \in open)

\* "the fake only keeps the wiring valid - it never serves a degraded pack": a
\* pack comes from two real indexes, reported as aligned, and the model that built them.
FakeNeverServes ==
  \A c \in Clients : calls[c].answer = "pack" =>
    ckg = "real" /\ ckv = "real" /\ intentEmb = "model" /\ aligned

\* A signal ends a server on HTTP, whatever step of its startup it is at and
\* whatever its clients' calls do.
StopsOnSignal == (signalled /\ cfg.transport = "http") ~> (main = "exited")
=============================================================================
