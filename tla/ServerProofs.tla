----------------------------- MODULE ServerProofs -----------------------------
(***************************************************************************)
(* Proofs about one server process, for every set of configurations and    *)
(* any number of clients on any networks; and, in the last part, about the *)
(* model gate that its tools pass, for any number of callers of each kind. *)
(***************************************************************************)
EXTENDS Server, ModelGate, SequenceTheorems, TLAPS

(***************************************************************************)
(* The inductive invariant.                                                *)
(***************************************************************************)
Early == {"config", "rules", "graph", "embedder", "vectors"}
Half == {"align", "footprint"}
Full == {"glossary", "composer", "stdio", "serve", "select", "shutdown"}

\* run's defers, as a function of how far startup got.
DeferredSoFar ==
  /\ main \in Early => deferred = <<>> /\ open \subseteq {"ckg", "embedder"} /\ ckv = "none"
  /\ main \in Early \ {"vectors"} => ckvEmb = "none"
  /\ main \in {"config", "rules", "graph"} => open = {} /\ ckg = "none"
  /\ main \in Half => deferred = <<"backends">> /\ open \subseteq {"ckv", "ckg", "embedder"}
  /\ main \in Full => deferred = <<"footprint", "backends">>

\* A closer that is still deferred closes what is still open, the adapter excepted.
ClosersCover ==
  main \in {"unwind", "exited"} =>
    /\ deferred \in {<<>>, <<"backends">>, <<"footprint", "backends">>}
    /\ deferred = <<>> => open \subseteq {"embedder"}
    /\ deferred = <<"backends">> => open \subseteq {"ckv", "ckg", "embedder"}
    /\ deferred = <<"footprint", "backends">> =>
         (ckg = "real" => "ckg" \in open) /\ (ckv = "real" => "ckv" \in open)
    /\ main = "exited" => deferred = <<>>

\* Requests come through a listener, and RunHTTP made it.
CallsNeedListener ==
  /\ listener # "none" => main \in {"select", "shutdown", "unwind", "exited"}
  /\ main \in {"shutdown", "unwind", "exited"} => listener # "up"
  /\ main \in {"select", "shutdown"} => listener # "none"
  /\ listener = "none" => \A c \in Clients : calls[c] = NoCall

\* What the backends are is settled before the first request.
BackendsSettled ==
  /\ ckv = "real" => intentEmb = "model"
  /\ main \in {"footprint"} \union Full => (aligned => ckg = "real")
  /\ listener # "none" => (aligned => ckg = "real")
  /\ \A c \in Clients : calls[c].phase = "composing" => aligned /\ ckv = "real"

\* A request that outlives the serving was cut off, and main says so when it ends.
CutOffIsTold ==
  main \in {"unwind", "exited"} =>
    \A c \in Clients : Running(c) => exit = 1 /\ (graceOver \/ listener = "failed")

ServerInv ==
  /\ TypeOK /\ DeferredSoFar /\ ClosersCover /\ CallsNeedListener /\ BackendsSettled
  /\ CutOffIsTold /\ FakeNeverServes

Call == [phase : Phases, tool : Tools \union {"none"}, answer : AllAnswers]

LEMMA InitHolds == Init => ServerInv
<1>. SUFFICES ASSUME Init PROVE ServerInv
  OBVIOUS
<1>1. TypeOK
  <2>1. NoCall \in Call
    BY DEF NoCall, Call, Phases, AllAnswers
  <2>2. calls \in [Clients -> Call]
    BY <2>1 DEF Init
  <2>3. deferred \in Seq({"backends", "footprint"})
    BY DEF Init
  <2>. QED
    BY <2>2, <2>3 DEF Init, TypeOK, Call
<1>2. DeferredSoFar /\ ClosersCover
  BY DEF Init, DeferredSoFar, ClosersCover, Early, Half, Full
<1>3. CallsNeedListener /\ BackendsSettled /\ CutOffIsTold /\ FakeNeverServes
  BY DEF Init, CallsNeedListener, BackendsSettled, CutOffIsTold, FakeNeverServes, NoCall, Full
<1>. QED
  BY <1>1, <1>2, <1>3 DEF ServerInv

(***************************************************************************)
(* Startup: nobody is connected.                                           *)
(***************************************************************************)
LEMMA StoresOfTwo == <<"footprint">> \o <<"backends">> = <<"footprint", "backends">>
<1>. DEFINE s == <<"footprint">> \o <<"backends">>
            t == <<"footprint", "backends">>
<1>1. s \in Seq({"footprint", "backends"}) /\ t \in Seq({"footprint", "backends"})
  OBVIOUS
<1>2. Len(s) = 2 /\ Len(t) = 2
  OBVIOUS
<1>3. s[1] = t[1] /\ s[2] = t[2]
  OBVIOUS
<1>4. \A i \in 1..Len(s) : s[i] = t[i]
  <2>. HIDE DEF s, t
  <2>. QED
    BY <1>2, <1>3
<1>. HIDE DEF s, t
<1>5. s = t
  BY <1>1, <1>2, <1>4, SeqEqual
<1>. QED
  BY <1>5 DEF s, t

LEMMA ThreeStacks ==
  /\ <<"backends">> # <<>> /\ <<"footprint", "backends">> # <<>>
  /\ <<"footprint", "backends">> # <<"backends">>
<1>1. Len(<<"backends">>) = 1 /\ Len(<<"footprint", "backends">>) = 2
  OBVIOUS
<1>. QED
  BY <1>1

\* What every step of startup leaves alone, and what that settles.
LEMMA NobodyConnected ==
  ASSUME ServerInv, main \in Early \union Half \union {"glossary", "composer", "stdio"},
         UNCHANGED runVars, main' \notin {"select", "shutdown"}
  PROVE  /\ listener = "none" /\ \A c \in Clients : calls'[c] = NoCall
         /\ CallsNeedListener' /\ CutOffIsTold' /\ FakeNeverServes'
<1>1. listener = "none" /\ listener' = "none"
  BY DEF ServerInv, CallsNeedListener, Early, Half, runVars
<1>2. \A c \in Clients : calls'[c] = NoCall
  BY <1>1 DEF ServerInv, CallsNeedListener, runVars
<1>. QED
  BY <1>1, <1>2 DEF CallsNeedListener, CutOffIsTold, FakeNeverServes, Running, NoCall

LEMMA RefuseKeeps ==
  ASSUME ServerInv, NEW from \in {"config", "rules", "graph", "footprint", "glossary", "composer"},
         Refuse(from), UNCHANGED open
  PROVE  ServerInv'
<1>1. CallsNeedListener' /\ CutOffIsTold' /\ FakeNeverServes' /\ \A c \in Clients : calls'[c] = NoCall
  BY NobodyConnected DEF Refuse, Early, Half
<1>2. TypeOK'
  BY DEF ServerInv, TypeOK, Refuse, startVars, runVars
<1>3. DeferredSoFar'
  BY DEF Refuse, DeferredSoFar, Early, Half, Full
<1>4. ClosersCover'
  <2>1. CASE from \in {"config", "rules", "graph"}
    BY <2>1 DEF ServerInv, DeferredSoFar, ClosersCover, Refuse, Early
  <2>2. CASE from = "footprint"
    BY <2>2 DEF ServerInv, DeferredSoFar, ClosersCover, Refuse, Half
  <2>3. CASE from \in {"glossary", "composer"}
    <3>1. deferred' = <<"footprint", "backends">> /\ main' = "unwind"
      BY <2>3 DEF ServerInv, DeferredSoFar, Refuse, Full
    <3>2. (ckg' = "real" => "ckg" \in open') /\ (ckv' = "real" => "ckv" \in open')
      BY <2>3 DEF ServerInv, TypeOK, Refuse, startVars
    <3>. QED
      BY <3>1, <3>2, ThreeStacks DEF ClosersCover
  <2>. QED
    BY <2>1, <2>2, <2>3
<1>5. BackendsSettled'
  <2>1. listener' = "none"
    BY NobodyConnected DEF Refuse, runVars, Early, Half
  <2>. QED
    BY <1>1, <2>1 DEF ServerInv, BackendsSettled, Refuse, startVars, NoCall, Full
<1>. QED
  BY <1>1, <1>2, <1>3, <1>4, <1>5 DEF ServerInv

\* A step of startup that goes on.
LEMMA AdvanceKeeps ==
  ASSUME ServerInv,
         \/ LoadConfig \/ LoadRuleset \/ OpenGraph \/ OpenEmbedder \/ OpenVectors
         \/ Align \/ BuildFootprint \/ LoadGlossary \/ BuildComposer
  PROVE  ServerInv'
<1>. USE DEF Advance, Early, Half, Full
<1>a. /\ main \in Early \union Half \union {"glossary", "composer", "stdio"}
      /\ UNCHANGED <<exit, signalled, runVars>>
      /\ main' \in {"rules", "graph", "embedder", "vectors", "align", "footprint", "glossary",
                    "composer", "stdio", "serve"}
  BY DEF LoadConfig, LoadRuleset, OpenGraph, OpenEmbedder, OpenVectors, Align, BuildFootprint,
         LoadGlossary, BuildComposer
<1>b. CallsNeedListener' /\ CutOffIsTold' /\ FakeNeverServes'
      /\ listener' = "none" /\ \A c \in Clients : calls'[c] = NoCall
  BY <1>a, NobodyConnected DEF runVars
<1>c. ClosersCover'
  BY <1>a DEF ClosersCover
<1>1. CASE LoadConfig
  <2>1. addr' \in {"none", "loopback", "routable"}
    <3>1. cfg \in Config
      BY ServerInputs DEF ServerInv, TypeOK
    <3>2. cfg.addr \in {"none", "loopback", "routable"} /\ cfg.override \in {"none", "loopback", "routable"}
      BY <3>1 DEF Config
    <3>. QED
      BY <1>1, <3>2 DEF LoadConfig
  <2>2. TypeOK'
    BY <1>1, <2>1 DEF ServerInv, TypeOK, LoadConfig, runVars
  <2>. QED
    BY <1>1, <1>b, <1>c, <2>2 DEF ServerInv, LoadConfig, DeferredSoFar, BackendsSettled, NoCall
<1>2. CASE LoadRuleset
  <2>1. TypeOK'
    BY <1>2 DEF ServerInv, TypeOK, LoadRuleset, startVars, runVars
  <2>. QED
    BY <1>2, <1>b, <1>c, <2>1 DEF ServerInv, LoadRuleset, startVars, DeferredSoFar, BackendsSettled, NoCall
<1>3. CASE OpenGraph
  <2>1. TypeOK'
    BY <1>3 DEF ServerInv, TypeOK, OpenGraph, runVars, DeferredSoFar
  <2>2. DeferredSoFar'
    BY <1>3 DEF ServerInv, OpenGraph, DeferredSoFar
  <2>. QED
    BY <1>3, <1>b, <1>c, <2>1, <2>2 DEF ServerInv, OpenGraph, BackendsSettled, NoCall
<1>4. CASE OpenEmbedder
  <2>1. ckvEmb' \in {"none", "model"} /\ deferred = <<>> /\ open \subseteq {"ckg", "embedder"} /\ ckv = "none"
    BY <1>4 DEF ServerInv, DeferredSoFar, OpenEmbedder
  <2>2. open' \subseteq {"ckg", "embedder"} /\ ("ckg" \in open' <=> "ckg" \in open)
    BY <1>4, <2>1 DEF OpenEmbedder
  <2>3. "embedder" \in open' <=> ckvEmb' = "model"
    <3>1. ckvEmb = "none"
      BY <1>4 DEF ServerInv, DeferredSoFar, OpenEmbedder
    <3>. QED
      BY <1>4, <2>1, <3>1 DEF ServerInv, TypeOK, OpenEmbedder
  <2>4. TypeOK'
    BY <1>4, <2>1, <2>2, <2>3 DEF ServerInv, TypeOK, OpenEmbedder, runVars
  <2>5. DeferredSoFar'
    BY <1>4, <2>1, <2>2 DEF OpenEmbedder, DeferredSoFar
  <2>. QED
    BY <1>4, <1>b, <1>c, <2>4, <2>5 DEF ServerInv, OpenEmbedder, BackendsSettled, NoCall
<1>5. CASE OpenVectors
  <2>1. ckv' \in {"dummy", "degraded", "real"} /\ (ckv' = "real" => ckvEmb # "none")
    BY <1>5 DEF OpenVectors, VectorClients
  <2>2. TypeOK'
    <3>1. "ckv" \notin open /\ deferred' = <<"backends">> /\ deferred' \in Seq({"backends", "footprint"})
      BY <1>5 DEF ServerInv, DeferredSoFar, OpenVectors
    <3>2. intentEmb' \in {"model", "fake"}
      BY <1>5 DEF OpenVectors
    <3>. QED
      BY <1>5, <2>1, <3>1, <3>2 DEF ServerInv, TypeOK, OpenVectors, runVars
  <2>3. DeferredSoFar'
    BY <1>5 DEF ServerInv, OpenVectors, DeferredSoFar
  <2>4. ckv' = "real" => intentEmb' = "model"
    BY <1>5, <2>1 DEF ServerInv, TypeOK, OpenVectors
  <2>. QED
    BY <1>5, <1>b, <1>c, <2>2, <2>3, <2>4 DEF ServerInv, OpenVectors, BackendsSettled, NoCall
<1>6. CASE Align
  <2>1. TypeOK' /\ (aligned' => ckg' = "real")
    <3>1. aligned' \in BOOLEAN /\ (aligned' => ckg' = "real")
      BY <1>6 DEF Align
    <3>. QED
      BY <1>6, <3>1 DEF ServerInv, TypeOK, Align, runVars
  <2>. QED
    BY <1>6, <1>b, <1>c, <2>1 DEF ServerInv, Align, DeferredSoFar, BackendsSettled, NoCall
<1>7. CASE BuildFootprint
  <2>1. deferred' = <<"footprint", "backends">>
    BY <1>7, StoresOfTwo DEF ServerInv, BuildFootprint, DeferredSoFar
  <2>2. deferred' \in Seq({"backends", "footprint"})
    BY <2>1
  <2>3. TypeOK'
    BY <1>7, <2>2 DEF ServerInv, TypeOK, BuildFootprint, startVars, runVars
  <2>4. DeferredSoFar'
    BY <1>7, <2>1 DEF BuildFootprint, DeferredSoFar
  <2>5. BackendsSettled'
    BY <1>7, <1>b DEF ServerInv, BuildFootprint, startVars, BackendsSettled, NoCall
  <2>. QED
    BY <1>b, <1>c, <2>3, <2>4, <2>5 DEF ServerInv
<1>8. CASE LoadGlossary
  <2>1. TypeOK'
    BY <1>8 DEF ServerInv, TypeOK, LoadGlossary, startVars, runVars
  <2>. QED
    BY <1>8, <1>b, <1>c, <2>1 DEF ServerInv, LoadGlossary, startVars, DeferredSoFar, BackendsSettled, NoCall
<1>9. CASE BuildComposer
  <2>1. TypeOK'
    BY <1>9 DEF ServerInv, TypeOK, BuildComposer, startVars, runVars
  <2>. QED
    BY <1>9, <1>b, <1>c, <2>1 DEF ServerInv, BuildComposer, startVars, DeferredSoFar, BackendsSettled, NoCall
<1>. QED
  BY <1>1, <1>2, <1>3, <1>4, <1>5, <1>6, <1>7, <1>8, <1>9

LEMMA StartupKeeps == ASSUME ServerInv, StartupStep PROVE ServerInv'
<1>1. CASE RejectConfig \/ RejectRuleset \/ GraphFails \/ FootprintFails \/ RejectGlossary \/ AnchorsFail
  BY <1>1, RefuseKeeps
  DEF RejectConfig, RejectRuleset, GraphFails, FootprintFails, RejectGlossary, AnchorsFail
<1>. QED
  BY <1>1, AdvanceKeeps DEF StartupStep

(***************************************************************************)
(* The clients: they change nothing but their calls.                       *)
(***************************************************************************)
\* What a step of a client leaves alone, and what it may write.
ClientMoves(c) ==
  /\ UNCHANGED <<main, startVars, open, deferred, exit, signalled, listener, graceOver>>
  /\ \E call \in Call : calls' = [calls EXCEPT ![c] = call]
  /\ listener # "none"
  /\ Running(c)' => Running(c) \/ listener = "up"
  /\ calls'[c].phase = "composing" => aligned /\ ckv = "real"
  /\ calls'[c].answer = "pack" => ckg = "real" /\ ckv = "real" /\ intentEmb = "model" /\ aligned

LEMMA ClientKeeps ==
  ASSUME ServerInv, NEW c \in Clients, ClientMoves(c)
  PROVE  ServerInv'
<1>. USE DEF ServerInv, ClientMoves, startVars
<1>1. \A d \in Clients \ {c} : calls'[d] = calls[d]
  BY DEF TypeOK
<1>2. TypeOK'
  BY DEF TypeOK, Call
<1>3. DeferredSoFar' /\ ClosersCover'
  BY DEF DeferredSoFar, ClosersCover
<1>4. CallsNeedListener'
  BY DEF CallsNeedListener
<1>5. BackendsSettled'
  BY <1>1 DEF BackendsSettled
<1>6. CutOffIsTold'
  BY <1>1 DEF CutOffIsTold, CallsNeedListener, Running
<1>7. FakeNeverServes'
  BY <1>1 DEF FakeNeverServes
<1>. QED
  BY <1>2, <1>3, <1>4, <1>5, <1>6, <1>7

\* Any answer but a pack may be given at any time.
LEMMA AnswerMoves ==
  ASSUME ServerInv, NEW c \in Clients, NEW a \in AllAnswers, Answer(c, a), Running(c),
         a = "pack" => calls[c].phase = "composing"
  PROVE  ClientMoves(c)
<1>. USE DEF Answer, ServerInv
<1>0. calls \in [Clients -> Call] /\ calls[c] \in Call
  BY DEF TypeOK, Call
<1>1. calls' = [calls EXCEPT ![c] = [calls[c] EXCEPT !.phase = "answered", !.answer = a]]
  BY <1>0
<1>2. [calls[c] EXCEPT !.phase = "answered", !.answer = a] \in Call
  BY <1>0 DEF Call, Phases
<1>3. calls'[c].phase = "answered" /\ calls'[c].answer = a
  BY <1>0, <1>1 DEF Call
<1>4. listener # "none"
  BY DEF CallsNeedListener, Running, NoCall
<1>5. a = "pack" => ckg = "real" /\ ckv = "real" /\ intentEmb = "model" /\ aligned
  BY <1>4 DEF BackendsSettled
<1>. QED
  BY <1>1, <1>2, <1>3, <1>4, <1>5 DEF ClientMoves, Running

LEMMA ToolMoves ==
  ASSUME ServerInv, NEW c \in Clients, ToolStep(c)
  PROVE  ClientMoves(c)
<1>1. \A t : Asked(c, t) => Running(c) /\ calls[c].phase # "composing"
  BY DEF Asked, Running
<1>2. CASE PassGate(c)
  <2>0. calls \in [Clients -> Call] /\ calls[c] \in Call
    BY DEF ServerInv, TypeOK, Call
  <2>1. calls' = [calls EXCEPT ![c] = [calls[c] EXCEPT !.phase = "composing"]]
    BY <1>2, <2>0 DEF PassGate
  <2>2. [calls[c] EXCEPT !.phase = "composing"] \in Call
    BY <2>0 DEF Call, Phases
  <2>3. calls'[c].phase = "composing" /\ calls'[c].answer = calls[c].answer
    BY <2>0, <2>1 DEF Call
  <2>4. listener # "none" /\ Running(c)
    BY <1>2 DEF PassGate, Asked, ServerInv, CallsNeedListener, Running, NoCall
  <2>. QED
    BY <1>2, <2>1, <2>2, <2>3, <2>4 DEF PassGate, ClientMoves, ServerInv, FakeNeverServes
<1>3. CASE Compose(c)
  <2>1. PICK a \in {"pack", "error"} : Answer(c, a)
    BY <1>3 DEF Compose
  <2>2. a \in AllAnswers /\ Running(c) /\ calls[c].phase = "composing"
    BY <1>3 DEF Compose, Running, AllAnswers
  <2>. QED
    BY <2>1, <2>2, AnswerMoves
<1>4. ASSUME \E t : Asked(c, t), NEW a \in AllAnswers \ {"pack"}, Answer(c, a)
      PROVE  ClientMoves(c)
  BY <1>1, <1>4, AnswerMoves
<1>5. CASE MissingArgument(c) \/ FailGate(c)
  BY <1>4, <1>5 DEF MissingArgument, FailGate, AllAnswers
<1>6. CASE handleSemanticSearch(c) \/ handleFreshness(c)
  BY <1>4, <1>6 DEF handleSemanticSearch, handleFreshness, SearchAnswers, AllAnswers
<1>7. CASE handleGraphTool(c)
  BY <1>4, <1>7 DEF handleGraphTool, GraphAnswers, AllAnswers
<1>8. CASE handleGetFlow(c) \/ handleFindInvariants(c)
  BY <1>4, <1>8 DEF handleGetFlow, handleFindInvariants, NavigationAnswers, LookupAnswers, AllAnswers
<1>. QED
  BY <1>2, <1>3, <1>5, <1>6, <1>7, <1>8 DEF ToolStep

LEMMA ConnectMoves ==
  ASSUME ServerInv, NEW c \in Clients, Connect(c) \/ NextCall(c)
  PROVE  ClientMoves(c)
<1>0. calls \in [Clients -> Call]
  BY DEF ServerInv, TypeOK, Call
<1>1. CASE Connect(c)
  <2>1. PICK t \in Tools :
          calls' = [calls EXCEPT ![c] = IF Allowed(c) THEN [phase |-> "asked", tool |-> t, answer |-> "none"]
                                        ELSE [phase |-> "answered", tool |-> t, answer |-> "forbidden"]]
    BY <1>1 DEF Connect
  <2>2. PICK call \in Call :
          calls' = [calls EXCEPT ![c] = call] /\ call.phase # "composing" /\ call.answer # "pack"
    <3>1. CASE Allowed(c)
      <4>1. [phase |-> "asked", tool |-> t, answer |-> "none"] \in Call
        BY DEF Call, Phases, AllAnswers
      <4>. QED
        BY <2>1, <3>1, <4>1
    <3>2. CASE ~ Allowed(c)
      <4>1. [phase |-> "answered", tool |-> t, answer |-> "forbidden"] \in Call
        BY DEF Call, Phases, AllAnswers
      <4>. QED
        BY <2>1, <3>2, <4>1
    <3>. QED
      BY <3>1, <3>2
  <2>. QED
    BY <1>0, <1>1, <2>2 DEF Connect, ClientMoves
<1>2. CASE NextCall(c)
  <2>1. NoCall \in Call /\ NoCall.phase = "idle" /\ NoCall.answer = "none"
    BY DEF NoCall, Call, Phases, AllAnswers
  <2>. QED
    BY <1>0, <1>2, <2>1 DEF NextCall, ClientMoves
<1>. QED
  BY <1>1, <1>2

(***************************************************************************)
(* Serving, shutdown and exit.                                             *)
(***************************************************************************)
LEMMA ListenerKeeps ==
  ASSUME ServerInv, Listen \/ ListenerFails \/ Signal \/ GraceRunsOut \/ UNCHANGED vars
  PROVE  ServerInv'
<1>. USE DEF ServerInv, startVars, runVars, vars
<1>1. /\ UNCHANGED <<main, startVars, open, deferred, exit, calls>>
      /\ listener' \in {"none", "starting", "up", "failed", "closed"}
      /\ (listener' = "none" <=> listener = "none") /\ (listener = "failed" => listener' = "failed")
      /\ ShuttingDown => listener' # "up"
      /\ graceOver' \in BOOLEAN /\ (graceOver => graceOver') /\ signalled' \in BOOLEAN
  BY DEF Listen, ListenerFails, Signal, GraceRunsOut, TypeOK, CallsNeedListener, ShuttingDown
<1>2. TypeOK'
  BY <1>1 DEF TypeOK
<1>3. DeferredSoFar' /\ ClosersCover'
  BY <1>1 DEF DeferredSoFar, ClosersCover
<1>4. CallsNeedListener'
  BY <1>1 DEF CallsNeedListener, ShuttingDown
<1>5. BackendsSettled' /\ FakeNeverServes'
  BY <1>1 DEF BackendsSettled, FakeNeverServes
<1>6. CutOffIsTold'
  BY <1>1 DEF CutOffIsTold, Running
<1>. QED
  BY <1>2, <1>3, <1>4, <1>5, <1>6

LEMMA ServeKeeps ==
  ASSUME ServerInv, ServeStep \/ ServeStdio
  PROVE  ServerInv'
<1>. USE DEF ServerInv, startVars, runVars
<1>1. CASE RunHTTP \/ SelectSignal
  <2>1. /\ UNCHANGED <<startVars, open, deferred, exit, signalled, graceOver, calls>>
        /\ main \in {"serve", "select"} /\ main' \in {"select", "shutdown"}
        /\ listener' \in {"starting", "failed", "up", "closed"} /\ (main' = "shutdown" => listener' # "up")
    BY <1>1 DEF RunHTTP, SelectSignal, TypeOK, CallsNeedListener
  <2>2. TypeOK'
    BY <2>1 DEF TypeOK
  <2>3. DeferredSoFar' /\ ClosersCover' /\ CutOffIsTold'
    BY <2>1 DEF DeferredSoFar, ClosersCover, CutOffIsTold, Early, Half, Full
  <2>4. CallsNeedListener' /\ BackendsSettled' /\ FakeNeverServes'
    BY <2>1 DEF CallsNeedListener, BackendsSettled, FakeNeverServes, Full
  <2>. QED
    BY <2>2, <2>3, <2>4
<1>2. CASE SelectListenerError \/ ShutdownReturns \/ ShutdownTimesOut \/ ServeStdio
  <2>1. /\ UNCHANGED <<startVars, open, deferred, signalled, listener, graceOver, calls>>
        /\ main \in {"select", "shutdown", "stdio"} /\ main' = "unwind" /\ exit' \in {0, 1}
        /\ listener # "up"
    BY <1>2 DEF SelectListenerError, ShutdownReturns, Idle, ShutdownTimesOut, ServeStdio, TypeOK, CallsNeedListener
  <2>2. TypeOK'
    BY <2>1 DEF TypeOK
  <2>3. DeferredSoFar'
    BY <2>1 DEF DeferredSoFar, Early, Half, Full
  <2>4. ClosersCover'
    <3>1. deferred' = <<"footprint", "backends">>
      BY <2>1 DEF DeferredSoFar, Full
    <3>. QED
      BY <2>1, <3>1, ThreeStacks DEF ClosersCover, TypeOK
  <2>5. CallsNeedListener' /\ BackendsSettled' /\ FakeNeverServes'
    BY <2>1 DEF CallsNeedListener, BackendsSettled, FakeNeverServes, Full
  <2>6. CutOffIsTold'
    <3>1. CASE SelectListenerError
      BY <3>1 DEF SelectListenerError, CutOffIsTold
    <3>2. CASE ShutdownReturns
      BY <3>2 DEF ShutdownReturns, Idle, CutOffIsTold, Running
    <3>3. CASE ShutdownTimesOut
      BY <3>3 DEF ShutdownTimesOut, CutOffIsTold
    <3>4. CASE ServeStdio
      BY <3>4 DEF ServeStdio, CallsNeedListener, CutOffIsTold, Running, NoCall
    <3>. QED
      BY <1>2, <3>1, <3>2, <3>3, <3>4
  <2>. QED
    BY <2>2, <2>3, <2>4, <2>5, <2>6
<1>. QED
  BY <1>1, <1>2 DEF ServeStep

LEMMA UnwindKeeps ==
  ASSUME ServerInv, Unwind \/ Exit
  PROVE  ServerInv'
<1>. USE DEF ServerInv, startVars, runVars
<1>1. /\ UNCHANGED <<startVars, exit, signalled, listener, graceOver, calls>>
      /\ main = "unwind" /\ main' \in {"unwind", "exited"}
  BY DEF Unwind, Exit
<1>0. /\ deferred \in Seq({"backends", "footprint"})
      /\ <<>> \in Seq({"backends", "footprint"}) /\ <<"backends">> \in Seq({"backends", "footprint"})
  <2>1. deferred \in Seq({"backends", "footprint"})
    BY DEF TypeOK
  <2>. QED
    BY <2>1
<1>2. /\ ClosersCover' /\ open' \subseteq open
      /\ "embedder" \in open' <=> "embedder" \in open
      /\ deferred' \in Seq({"backends", "footprint"})
  <2>1. CASE Exit
    BY <2>1 DEF Exit, ClosersCover, TypeOK
  <2>2. CASE Unwind /\ deferred = <<"backends">>
    <3>1. Closes(Head(deferred)) = <<"ckv", "ckg">> /\ Tail(deferred) = <<>>
      BY <2>2 DEF Closes
    <3>2. /\ open' \subseteq open /\ main' = "unwind"
          /\ \/ deferred' = deferred
             \/ deferred' = <<>> /\ open' = open /\ "ckv" \notin open /\ "ckg" \notin open
          /\ "embedder" \in open' <=> "embedder" \in open
      BY <2>2, <3>1 DEF Unwind
    <3>3. deferred' \in Seq({"backends", "footprint"})
      BY <1>0, <3>2
    <3>4. open \subseteq {"ckv", "ckg", "embedder"}
      BY <1>1, <2>2 DEF ClosersCover
    <3>5. CASE deferred' = deferred
      BY <2>2, <3>2, <3>4, <3>5, ThreeStacks DEF ClosersCover
    <3>6. CASE deferred' = <<>> /\ open' = open /\ "ckv" \notin open /\ "ckg" \notin open
      BY <3>2, <3>4, <3>6, ThreeStacks DEF ClosersCover
    <3>. QED
      BY <3>2, <3>3, <3>5, <3>6
  <2>3. CASE Unwind /\ deferred = <<"footprint", "backends">>
    <3>1. Closes(Head(deferred)) = <<"footprint">> /\ Tail(deferred) = <<"backends">>
      BY <2>3 DEF Closes
    <3>2. /\ main' = "unwind"
          /\ \/ deferred' = deferred /\ open' = open \ {"footprint"}
             \/ deferred' = <<"backends">> /\ open' = open /\ "footprint" \notin open
      BY <2>3, <3>1 DEF Unwind
    <3>3. deferred' \in Seq({"backends", "footprint"})
      BY <1>0, <3>2
    <3>4. CASE deferred' = deferred /\ open' = open \ {"footprint"}
      BY <1>1, <2>3, <3>2, <3>4, ThreeStacks DEF ClosersCover
    <3>5. CASE deferred' = <<"backends">> /\ open' = open /\ "footprint" \notin open
      BY <3>2, <3>5, ThreeStacks DEF ClosersCover, TypeOK
    <3>. QED
      BY <3>2, <3>3, <3>4, <3>5
  <2>. QED
    BY <1>1, <2>1, <2>2, <2>3 DEF ClosersCover, Unwind
<1>3. TypeOK'
  BY <1>1, <1>2 DEF TypeOK
<1>4. DeferredSoFar' /\ CallsNeedListener' /\ BackendsSettled' /\ FakeNeverServes'
  BY <1>1 DEF DeferredSoFar, Early, Half, Full, CallsNeedListener, BackendsSettled, FakeNeverServes
<1>5. CutOffIsTold'
  BY <1>1 DEF CutOffIsTold, Running
<1>. QED
  BY <1>2, <1>3, <1>4, <1>5

(***************************************************************************)
(* The theorems.                                                           *)
(***************************************************************************)
\* The invariant holds whatever the configuration says and whoever connects.
THEOREM ServerInvariant == Spec => []ServerInv
<1>1. ASSUME ServerInv, [Next]_vars PROVE ServerInv'
  <2>1. CASE MainStep \/ ServeStdio
    BY <1>1, <2>1, StartupKeeps, ServeKeeps, UnwindKeeps DEF MainStep
  <2>2. ASSUME NEW c \in Clients, Connect(c) \/ ToolStep(c) \/ NextCall(c) PROVE ServerInv'
    BY <1>1, <2>2, ConnectMoves, ToolMoves, ClientKeeps
  <2>3. CASE Listen \/ ListenerFails \/ Signal \/ GraceRunsOut \/ UNCHANGED vars
    BY <1>1, <2>3, ListenerKeeps
  <2>. QED
    BY <1>1, <2>1, <2>2, <2>3 DEF Next
<1>. QED
  BY <1>1, InitHolds, PTL DEF Spec

\* Every variable keeps its type, and a store that is opened stays open until main unwinds.
THEOREM ServerTypeCorrect == Spec => []TypeOK
<1>1. ServerInv => TypeOK
  BY DEF ServerInv
<1>. QED
  BY <1>1, ServerInvariant, PTL

\* The stores are closed under a running request only when the grace period ran
\* out or the listener died, and then the process says so with its exit status.
THEOREM GraceSafe == Spec => []GraceBeforeClose
<1>1. ServerInv => GraceBeforeClose
  BY DEF ServerInv, CutOffIsTold, GraceBeforeClose
<1>. QED
  BY <1>1, ServerInvariant, PTL

\* Whatever step fails, the stores and the footprint are closed, the footprint
\* first, and an embedder's adapter that was opened is what stays open.
THEOREM NothingStaysOpenSafe == Spec => []NothingStaysOpen
<1>1. ServerInv => NothingStaysOpen
  BY DEF ServerInv, TypeOK, ClosersCover, NothingStaysOpen
<1>. QED
  BY <1>1, ServerInvariant, PTL

\* No pack is ever answered by the dummy clients, by indexes that do not align or
\* by the fake embedder.
THEOREM FakeNeverServesSafe == Spec => []FakeNeverServes
<1>1. ServerInv => FakeNeverServes
  BY DEF ServerInv
<1>. QED
  BY <1>1, ServerInvariant, PTL

USE DistinctCallers DEF Callers

(***************************************************************************)
(* The model gate. The inductive invariant: who is probing holds the mutex *)
(* and found no fresh result.                                              *)
(***************************************************************************)
GateInv == GateTypeOK /\ OneProbePerWindow

Labels == {"idle", "ckg", "flag", "lock", "probe", "probed", "query", "queried"}
Sight == [ckgUp : BOOLEAN, embedded : BOOLEAN, round : {"first", "second", "knowledge"}]
Outcomes == {"none", "ok", "unavailable", "error", "pack"}

\* A call c moves on to one of `labels`, and touches no other call.
Moves(c, labels) ==
  /\ \E l \in labels : pc' = [pc EXCEPT ![c] = l]
  /\ \E s \in Sight : seen' = [seen EXCEPT ![c] = s]
  /\ \E o \in Outcomes : outcome' = [outcome EXCEPT ![c] = o]
  /\ UNCHANGED envVars

\* What a call has seen and how the last one ended may stay as they are.
LEMMA SeenStays ==
  ASSUME GateTypeOK, NEW c \in Callers
  PROVE  /\ seen[c] \in Sight /\ outcome[c] \in Outcomes /\ pc[c] \in Labels
         /\ UNCHANGED seen => seen' = [seen EXCEPT ![c] = seen[c]]
         /\ UNCHANGED outcome => outcome' = [outcome EXCEPT ![c] = outcome[c]]
  BY DEF GateTypeOK, Sight, Outcomes, Labels

\* Only a serviceable server lets a task past the gate.
LEMMA VerdictMoves ==
  ASSUME GateTypeOK, NEW c \in Callers, NEW up \in BOOLEAN, Verdict(c, up), UNCHANGED envVars
  PROVE  /\ Moves(c, {"idle", "query"})
         /\ pc'[c] = "query" => up
<1>1. Nothing \in Sight
  BY DEF Nothing, Sight
<1>2. pc \in [Callers -> Labels]
  BY DEF GateTypeOK, Labels
<1>3. CASE Serviceable(c, up) /\ Goto(c, "query") /\ UNCHANGED <<seen, outcome>>
  BY <1>2, <1>3, SeenStays DEF Moves, Goto, Serviceable
<1>4. CASE Return(c, "ok") \/ Return(c, "unavailable")
  BY <1>1, <1>2, <1>4 DEF Moves, Return, Goto, Outcomes
<1>. QED
  BY <1>3, <1>4 DEF Verdict
\* A call that moves on alone keeps the invariant when it probes under the mutex
\* and nobody else probes while age or mutex change; and no task passes the gate
\* against a bad probe unless it is in the rounds of Extract already.
LEMMA MoveKeeps ==
  ASSUME GateInv, NEW c \in Callers, Moves(c, Labels),
         modelDown' \in BOOLEAN, age' \in {"never", "fresh", "stale"}, lastProbeOK' \in BOOLEAN,
         probeMu' \in Callers \union {Nobody},
         pc'[c] \in {"probe", "probed"} => probeMu' = c /\ age' # "fresh",
         \/ UNCHANGED <<age, probeMu>>
         \/ \A d \in Callers \ {c} : pc[d] \notin {"probe", "probed"},
         age = "fresh" /\ ~ lastProbeOK /\ pc'[c] = "query" /\ c \in Tasks => pc[c] \in {"query", "queried"}
  PROVE  GateInv' /\ BadProbeHolds
<1>. USE DEF GateInv
<1>1. /\ \A d \in Callers \ {c} : pc'[d] = pc[d]
      /\ pc' \in [Callers -> Labels]
  BY DEF Moves, GateTypeOK, Labels
<1>2. GateTypeOK'
  BY <1>1 DEF GateTypeOK, Moves, Labels, Sight, Outcomes, envVars
<1>3. OneProbePerWindow'
  BY <1>1 DEF OneProbePerWindow
<1>4. BadProbeHolds
  BY <1>1 DEF BadProbeHolds
<1>. QED
  BY <1>2, <1>3, <1>4

LEMMA MovesWider ==
  ASSUME NEW c, NEW S \in SUBSET Labels, Moves(c, S)
  PROVE  Moves(c, Labels)
  BY DEF Moves

\* One call of one caller, up to the next time another may run.
LEMMA CallKeeps ==
  ASSUME GateInv, NEW c \in Callers, CallTool(c) \/ Continue(c)
  PROVE  GateInv' /\ BadProbeHolds
<1>. USE DEF GateInv
<1>t. /\ pc \in [Callers -> Labels] /\ seen \in [Callers -> Sight] /\ outcome \in [Callers -> Outcomes]
      /\ modelDown \in BOOLEAN /\ age \in {"never", "fresh", "stale"} /\ lastProbeOK \in BOOLEAN
      /\ probeMu \in Callers \union {Nobody}
  BY DEF GateTypeOK, Labels, Sight, Outcomes
<1>n. Nothing \in Sight
  BY DEF Nothing, Sight
<1>e. \A ok \in BOOLEAN : Embed(c, ok) =>
        /\ \E s \in Sight : seen' = [seen EXCEPT ![c] = s]
        /\ UNCHANGED <<envVars, realVars, outcome>>
  <2>. SUFFICES ASSUME NEW ok \in BOOLEAN, Embed(c, ok)
                PROVE  /\ \E s \in Sight : seen' = [seen EXCEPT ![c] = s]
                       /\ UNCHANGED <<envVars, realVars, outcome>>
    OBVIOUS
  <2>1. [seen[c] EXCEPT !.embedded = ok] \in Sight
    BY <1>t DEF Sight
  <2>2. seen' = [seen EXCEPT ![c] = [seen[c] EXCEPT !.embedded = ok]]
    BY <1>t DEF Embed
  <2>. QED
    BY <2>1, <2>2 DEF Embed
<1>1. CASE CallTool(c)
  <2>1. Moves(c, Labels) /\ UNCHANGED realVars /\ pc'[c] \in {"query", "ckg"} /\ (c \in Tasks => pc'[c] = "ckg")
    BY <1>1, <1>t, SeenStays DEF CallTool, Goto, Moves, Labels, Outcomes
  <2>. QED
    BY <1>t, <2>1, MoveKeeps DEF realVars
<1>2. CASE CheckCkg(c)
  <2>1. [seen[c] EXCEPT !.ckgUp = (graphStore = "up")] \in Sight
    <3>1. \A b \in BOOLEAN : [seen[c] EXCEPT !.ckgUp = b] \in Sight
      BY <1>t DEF Sight
    <3>2. (graphStore = "up") \in BOOLEAN
      OBVIOUS
    <3>. QED
      BY <3>1, <3>2
  <2>2. seen' = [seen EXCEPT ![c] = [seen[c] EXCEPT !.ckgUp = (graphStore = "up")]]
    BY <1>2, <1>t DEF CheckCkg
  <2>3. Moves(c, Labels) /\ UNCHANGED realVars /\ pc'[c] = "flag"
    BY <1>2, <1>t, <2>1, <2>2, SeenStays DEF CheckCkg, Goto, Moves, Labels
  <2>. QED
    BY <1>t, <2>3, MoveKeeps DEF realVars
<1>3. CASE FlagIsDown(c)
  <2>1. Moves(c, {"idle", "query"}) /\ UNCHANGED realVars /\ pc'[c] # "query"
    BY <1>3, VerdictMoves DEF FlagIsDown
  <2>2. Moves(c, Labels) /\ pc'[c] \in {"idle", "query"}
    BY <1>t, <2>1, MovesWider DEF Labels, Moves
  <2>. QED
    BY <1>t, <2>1, <2>2, MoveKeeps DEF realVars
<1>4. CASE FlagIsUp(c)
  <2>1. Moves(c, Labels) /\ UNCHANGED realVars /\ pc'[c] = "lock"
    BY <1>4, <1>t, SeenStays DEF FlagIsUp, Goto, Moves, Labels
  <2>. QED
    BY <1>t, <2>1, MoveKeeps DEF realVars
<1>5. CASE UseCachedProbe(c)
  <2>1. Moves(c, {"idle", "query"}) /\ UNCHANGED realVars /\ (pc'[c] = "query" => lastProbeOK)
    BY <1>5, <1>t, VerdictMoves DEF UseCachedProbe
  <2>2. Moves(c, Labels) /\ pc'[c] \in {"idle", "query"}
    BY <1>t, <2>1, MovesWider DEF Labels, Moves
  <2>. QED
    BY <1>t, <2>1, <2>2, MoveKeeps DEF realVars
<1>6. CASE LockProbe(c)
  <2>1. Moves(c, Labels) /\ pc'[c] = "probe"
    BY <1>6, <1>t, SeenStays DEF LockProbe, Goto, Moves, Labels
  <2>2. \A d \in Callers : pc[d] \notin {"probe", "probed"}
    BY <1>6 DEF LockProbe, OneProbePerWindow
  <2>. QED
    BY <1>6, <1>t, <2>1, <2>2, MoveKeeps DEF LockProbe
<1>7. CASE ProbeEmbed(c)
  <2>1. Moves(c, Labels) /\ UNCHANGED realVars /\ pc'[c] = "probed"
    BY <1>7, <1>t, <1>e, SeenStays DEF ProbeEmbed, Goto, Moves, Labels
  <2>2. probeMu = c /\ age # "fresh"
    BY <1>7 DEF ProbeEmbed, OneProbePerWindow
  <2>. QED
    BY <1>t, <2>1, <2>2, MoveKeeps DEF realVars
<1>8. CASE ProbeStore(c)
  <2>0. seen[c].embedded \in BOOLEAN
    BY <1>t DEF Sight
  <2>1. Moves(c, {"idle", "query"})
    BY <1>8, <2>0, VerdictMoves DEF ProbeStore
  <2>2. Moves(c, Labels) /\ pc'[c] \in {"idle", "query"}
    BY <1>t, <2>1, MovesWider DEF Labels, Moves
  <2>3. /\ probeMu = c /\ age # "fresh"
        /\ \A d \in Callers \ {c} : pc[d] \notin {"probe", "probed"}
    BY <1>8 DEF ProbeStore, OneProbePerWindow
  <2>. QED
    BY <1>8, <1>t, <2>0, <2>2, <2>3, MoveKeeps DEF ProbeStore
<1>9. CASE QueryEmbed(c)
  <2>1. Moves(c, Labels) /\ UNCHANGED realVars /\ pc'[c] = "queried"
    BY <1>9, <1>t, <1>e, SeenStays DEF QueryEmbed, Goto, Moves, Labels
  <2>. QED
    BY <1>t, <2>1, MoveKeeps DEF realVars
<1>10. CASE SearchReturns(c) \/ FirstRoundFails(c) \/ KnowledgePassEnds(c)
  <2>1. QueryStore(c) /\ \E o \in Outcomes : Return(c, o)
    BY <1>10 DEF SearchReturns, FirstRoundFails, KnowledgePassEnds, Outcomes
  <2>2. Moves(c, Labels) /\ pc'[c] = "idle"
    BY <1>n, <1>t, <2>1 DEF QueryStore, Return, Goto, Moves, Labels
  <2>3. modelDown' \in BOOLEAN /\ UNCHANGED <<age, lastProbeOK, probeMu>>
    BY <1>t, <2>1 DEF QueryStore, Sight
  <2>. QED
    BY <1>t, <2>2, <2>3, MoveKeeps
<1>11. CASE NextRound(c)
  <2>1. PICK r \in {"second", "knowledge"} : seen' = [seen EXCEPT ![c].round = r]
    BY <1>11 DEF NextRound
  <2>2. [seen[c] EXCEPT !.round = r] \in Sight
    BY <1>t DEF Sight
  <2>3. seen' = [seen EXCEPT ![c] = [seen[c] EXCEPT !.round = r]]
    BY <1>t, <2>1
  <2>4. Moves(c, Labels) /\ pc'[c] = "query" /\ pc[c] = "queried"
    BY <1>11, <1>t, <2>2, <2>3, SeenStays DEF NextRound, QueryStore, Goto, Moves, Labels
  <2>5. modelDown' \in BOOLEAN /\ UNCHANGED <<age, lastProbeOK, probeMu>>
    BY <1>11, <1>t DEF NextRound, QueryStore, Sight
  <2>. QED
    BY <1>t, <2>4, <2>5, MoveKeeps
<1>. QED
  BY <1>1, <1>2, <1>3, <1>4, <1>5, <1>6, <1>7, <1>8, <1>9, <1>10, <1>11 DEF Continue

LEMMA EnvironmentKeeps ==
  ASSUME GateInv, ModelChanges \/ CkgChanges \/ CacheExpires \/ UNCHANGED gateVars
  PROVE  GateInv' /\ BadProbeHolds
<1>. USE DEF GateInv, ModelChanges, CkgChanges, CacheExpires, gateVars, envVars, realVars, callVars
<1>1. GateTypeOK'
  BY DEF GateTypeOK
<1>2. OneProbePerWindow' /\ BadProbeHolds
  BY DEF OneProbePerWindow, BadProbeHolds
<1>. QED
  BY <1>1, <1>2

(***************************************************************************)
(* The theorems.                                                           *)
(***************************************************************************)
LEMMA GateStep == GateInv /\ [GateNext]_gateVars => GateInv' /\ BadProbeHolds
  BY CallKeeps, EnvironmentKeeps DEF GateNext

\* The invariant holds however many callers there are and whatever the model does.
THEOREM GateInvariant == GateSpec => []GateInv
<1>1. GateInit => GateInv
  <2>1. Nothing \in Sight
    BY DEF Nothing, Sight
  <2>2. GateInit => seen \in [Callers -> Sight]
    BY <2>1 DEF GateInit
  <2>3. GateInit => GateTypeOK
    BY <2>2 DEF GateInit, GateTypeOK, Sight
  <2>. QED
    BY <2>3 DEF GateInit, GateInv, OneProbePerWindow
<1>. QED
  BY <1>1, GateStep, PTL DEF GateSpec

\* Flag, cache and calls keep their types.
THEOREM GateTypeCorrect == GateSpec => []GateTypeOK
<1>1. GateInv => GateTypeOK
  BY DEF GateInv
<1>. QED
  BY <1>1, GateInvariant, PTL

\* However many callers poll at once, one of them probes at a time and the others
\* live by what it found; a failed probe keeps tasks out until it expires.
THEOREM ProbesShared == GateSpec => ProbesAreShared
<1>1. GateInv /\ [GateNext]_gateVars => [OneProbePerWindow' /\ BadProbeHolds]_gateVars
  BY GateStep DEF GateInv
<1>. QED
  BY <1>1, GateInvariant, PTL DEF GateSpec, ProbesAreShared
=============================================================================
