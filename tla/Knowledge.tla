------------------------------ MODULE Knowledge ------------------------------
(***************************************************************************)
(* The domain-knowledge inventory of one project: the entries authors      *)
(* write and reviewers promote, the source their anchors point into, and   *)
(* the commands that read the one and write the other. Authors and source  *)
(* move between runs; a command writes its files one after the other and   *)
(* may fail at any of them.                                                *)
(* Sources: internal/inventory/{types,load,validate,verify,render}.go,     *)
(* internal/domainexport/export.go, cmd/cks-{entry-verify,anchor-refresh,  *)
(* inventory-check,domain-sync,glossary-gen,domain-export}/main.go.        *)
(*                                                                         *)
(* An anchor's kind, file, symbol and the definition its author meant do   *)
(* not change: they are constants of its slot, and an entry keeps a line   *)
(* for each. The graph the commands are given is one of the source as it   *)
(* stands. A lost entry is a file that a write truncated and did not fill, *)
(* with what it held in the history of the repository.                     *)
(***************************************************************************)
EXTENDS Integers, FiniteSets

CONSTANTS
  Ids, Rank,             \* the entries, [Ids -> Nat] their order by file name
  FirstStatus,           \* [Ids -> {"needs_author", "draft", "needs_verification"}]
  Slots,                 \* the anchors
  OwnerOf, KindOf,       \* [Slots -> Ids], [Slots -> {"def", "loc"}]
  NameAt, MeantBy,       \* [Slots -> Names], "" for no symbol; [Slots -> Defs]
  Plain,                 \* anchors with file, symbol and line as bare scalars, one to a line
  RelatedTo,             \* [Ids -> SUBSET Ids], related_concepts
  Undated,               \* entries without the keys last_verified_at and verified_by
  Matchable,             \* entries with aliases and keywords
  Defs, NameOf, FileOf,  \* the definitions of the source, [Defs -> Names], [Defs -> Files]
  FirstLine,             \* [Defs -> Nat], where they are at first
  Shifts,                \* bound: by how much code may move at once
  MaxShift,              \* -max-shift
  EditsAtMost,           \* bound: how often authors and source move
  RunsAtMost             \* bound: how many commands are run

\* Anchors belong to entries and point at definitions; one that has a symbol has
\* the name of the definition its author meant.
ASSUME Inventory ==
  /\ Rank \in [Ids -> Nat]
  /\ FirstStatus \in [Ids -> {"needs_author", "draft", "needs_verification"}]
  /\ OwnerOf \in [Slots -> Ids] /\ KindOf \in [Slots -> {"def", "loc"}] /\ MeantBy \in [Slots -> Defs]
  /\ \A s \in Slots : NameAt[s] # "" => NameOf[MeantBy[s]] = NameAt[s]
  /\ RelatedTo \in [Ids -> SUBSET Ids] /\ Plain \subseteq Slots

\* Lines are counted from 1, and code moves down.
ASSUME Lines ==
  /\ IsFiniteSet(Defs) /\ FirstLine \in [Defs -> Nat \ {0}]
  /\ Shifts \subseteq Nat /\ MaxShift \in Nat /\ EditsAtMost \in Nat /\ RunsAtMost \in Nat

VARIABLES
  code,       \* [Defs -> Nat], the line of each, 0 when it is gone
  entries,    \* [Ids -> Entry], entries/<id>.yaml
  dashboard,  \* inventory.md: the status of each entry it lists, if it has tables
  glossary,   \* glossary.yaml: the entries it has
  ckv, ckg,   \* the two policy views: the entries they derive from
  corpus,     \* the exported documents: of which entry, with which status
  cmd, arg,   \* the command at work, and the entry it is about, "" for none
  project,    \* what it loaded, nothing when none is at work
  todo,       \* the entries whose files it has still to write
  updates,    \* anchor-refresh: the new line of each slot, 0 for none
  ended,      \* the last command and how it ended; no command after an edit
  edits, runs

vars == <<code, entries, dashboard, glossary, ckv, ckg, corpus, cmd, arg, project, todo, updates, ended, edits, runs>>
outputs == <<dashboard, glossary, ckv, ckg, corpus>>
atWork == <<arg, project, todo, updates>>

Statuses == {"needs_author", "draft", "needs_verification", "verified"}
Deleted == "deleted"  \* no status: there is no file
Entry == [status : Statuses \union {Deleted}, stamped : BOOLEAN, lost : BOOLEAN, lines : [Slots -> Nat]]

AnchorsOf(e) == {s \in Slots : OwnerOf[s] = e}
FileAt(s) == FileOf[MeantBy[s]]
Files(es) == {e \in Ids : es[e].status # Deleted}

(***************************************************************************)
(* Loading and validation                                                  *)
(***************************************************************************)
\* A file goes with its last definition.
Exists(file) == \E d \in Defs : FileOf[d] = file /\ code[d] # 0

\* Fault: a file that does not parse does not fail the load.
LoadsTheRest == Files(entries) # {}

\* LoadEntry refuses a file without an id, and one refused file fails the load.
Loads == Files(entries) # {} /\ \A e \in Files(entries) : ~ entries[e].lost

\* validateEntry finds no error in entry e of a project with entries es.
Valid(es, e) ==
  /\ es[e].status \in {"verified", "needs_verification"} => AnchorsOf(e) # {}
  /\ es[e].status = "verified" => es[e].stamped
  /\ RelatedTo[e] \subseteq Files(es) \ {e}
  /\ \A s \in AnchorsOf(e) : Exists(FileAt(s))

FindSymbol(name) == {d \in Defs : NameOf[d] = name /\ code[d] # 0}
\* Fault: the file of the citation is not looked at.
foundAnywhere(s) == {code[d] : d \in FindSymbol(NameAt[s])}

\* The lines of the definitions in the anchor's file.
Found(s) == {code[d] : d \in {d \in FindSymbol(NameAt[s]) : FileOf[d] = FileAt(s)}}

\* checkDefAnchorResolution: no definition is a warning, two are an error.
Unambiguous(e) == \A s \in AnchorsOf(e) : KindOf[s] = "def" => Cardinality(Found(s)) <= 1

\* The tables of inventory.md; a file that has lost their headings gets none.
NoTables == <<>>
Rendered(es) == [e \in Files(es) |-> es[e].status]

(***************************************************************************)
(* Commands: how one starts and ends                                       *)
(***************************************************************************)
Idle == cmd = "none"

AtMost == runs < RunsAtMost /\ runs' = runs + 1

Start(c) == Idle /\ AtMost /\ cmd' = c /\ project' = entries

NoUpdates == [s \in Slots |-> 0]

\* The file a command writes next: it goes through them in the order of their names.
IsNext(e) == e \in todo /\ \A x \in todo : Rank[e] <= Rank[x]

\* A command ends with an exit code, and leaves nothing behind but its files.
End(c, exit) ==
  /\ cmd' = "none" /\ ended' = <<c, exit>>
  /\ arg' = "" /\ project' = <<>> /\ todo' = {} /\ updates' = NoUpdates
  /\ UNCHANGED runs

\* One that does its work in a single step.
AtOnce(c, exit) == Idle /\ AtMost /\ ended' = <<c, exit>> /\ UNCHANGED <<cmd, atWork>>

Init ==
  /\ code = FirstLine
  /\ entries = [e \in Ids |->
                  [status |-> FirstStatus[e], stamped |-> FALSE, lost |-> FALSE,
                   lines |-> [s \in Slots |-> IF OwnerOf[s] = e THEN FirstLine[MeantBy[s]] ELSE 0]]]
  /\ dashboard = Rendered(entries) /\ glossary = {} /\ ckv = {} /\ ckg = {} /\ corpus = {}
  /\ cmd = "none" /\ arg = "" /\ project = <<>> /\ todo = {} /\ updates = NoUpdates
  /\ ended = <<"none", "ok">> /\ edits = 0 /\ runs = 0

(***************************************************************************)
(* Authors and source                                                      *)
(***************************************************************************)
Forget == ended' = <<"none", "ok">>
Edit == Idle /\ edits < EditsAtMost /\ edits' = edits + 1 /\ Forget /\ UNCHANGED runs
Present(e) == e \in Files(entries) /\ ~ entries[e].lost

\* Also by hand: to verified, without the stamp, and back.
Rewrite(e, status) ==
  /\ Edit /\ Present(e) /\ entries[e].status # status
  /\ entries' = [entries EXCEPT ![e].status = status]
  /\ UNCHANGED <<code, outputs, cmd, atWork>>

Supersede(e) ==
  /\ Edit /\ Present(e)
  /\ entries' = [entries EXCEPT ![e].status = Deleted]
  /\ UNCHANGED <<code, outputs, cmd, atWork>>

\* A file a failed write left empty comes back from the history of the repository.
Restore(e) ==
  /\ Idle /\ entries[e].lost
  /\ entries' = [entries EXCEPT ![e].lost = FALSE]
  /\ Forget
  /\ UNCHANGED <<code, outputs, cmd, atWork, edits, runs>>

\* Lines are added above d, or d is removed.
MoveCode(d, shift) ==
  /\ Edit /\ code[d] # 0
  /\ code' = [x \in Defs |-> IF code[x] # 0 /\ FileOf[x] = FileOf[d] /\ code[x] >= code[d]
                              THEN code[x] + shift ELSE code[x]]
  /\ UNCHANGED <<entries, outputs, cmd, atWork>>

RemoveCode(d) ==
  /\ Edit /\ code[d] # 0
  /\ code' = [code EXCEPT ![d] = 0]
  /\ UNCHANGED <<entries, outputs, cmd, atWork>>

\* Every command but glossary-gen loads the project first.
CannotLoad(c) == ~ Loads /\ AtOnce(c, "unloaded") /\ UNCHANGED <<code, entries, outputs, edits>>

\* resolveEntry: none has the id or the path that was asked for.
NoSuchEntry == Loads /\ AtOnce("verify", "unknown") /\ UNCHANGED <<code, entries, outputs, edits>>

(***************************************************************************)
(* cks-entry-verify                                                        *)
(***************************************************************************)
\* Fault: the entry is checked as it is, not as it will be.
checkedAsItIs(es, e) == es

\* The project as the promotion will leave it.
simulated(es, e) == [es EXCEPT ![e].status = "verified", ![e].stamped = TRUE]

StartVerify(e) ==
  /\ Loads /\ e \in Files(entries)
  /\ IF Valid(simulated(entries, e), e)
     THEN Start("verify") /\ arg' = e /\ UNCHANGED <<ended, todo, updates>>
     ELSE AtOnce("verify", "invalid")
  /\ UNCHANGED <<code, entries, outputs, edits>>

\* MarkVerified sets the three fields or, with a key missing, none.
MarkVerified ==
  /\ cmd = "verify" /\ arg \notin Undated
  /\ entries' = [entries EXCEPT ![arg].status = "verified", ![arg].stamped = TRUE]
  /\ \/ cmd' = "count" /\ UNCHANGED <<ended, atWork, runs>>
     \/ End("verify", "skipped")
  /\ UNCHANGED <<code, outputs, edits>>

MarkFails ==
  /\ cmd = "verify" /\ End("verify", "error")
  /\ \/ UNCHANGED entries
     \/ arg \notin Undated /\ entries' = [entries EXCEPT ![arg].lost = TRUE]
  /\ UNCHANGED <<code, outputs, edits>>

\* Fault: the counts are of the project as it was loaded before the promotion.
CountStale == Rendered(project)

\* The project is loaded again, to see the new status.
Recount == Rendered(entries)

\* The file is rewritten or, when the write fails, left or emptied.
WriteCounts(tables) == dashboard' = IF dashboard = NoTables THEN NoTables ELSE tables
CountsFail == dashboard' \in {dashboard, NoTables}

UpdateInventoryCounts ==
  /\ cmd = "count"
  /\ \/ End("verify", "ok") /\ WriteCounts(Recount)
     \/ End("verify", "error") /\ CountsFail
  /\ UNCHANGED <<code, entries, glossary, ckv, ckg, corpus, edits>>

(***************************************************************************)
(* cks-inventory-check -update-inventory                                   *)
(***************************************************************************)
InventoryCheck ==
  /\ Loads
  /\ \E graph \in BOOLEAN :
       IF \A e \in Files(entries) : Valid(entries, e) /\ (graph => Unambiguous(e))
       THEN \/ AtOnce("check", "ok") /\ WriteCounts(Rendered(entries))
            \/ AtOnce("check", "error") /\ CountsFail
       ELSE AtOnce("check", "invalid") /\ UNCHANGED dashboard
  /\ UNCHANGED <<code, entries, glossary, ckv, ckg, corpus, edits>>

(***************************************************************************)
(* cks-anchor-refresh                                                      *)
(***************************************************************************)
Distance(a, b) == IF a < b THEN b - a ELSE a - b

\* Anchors whose line is derived from a symbol.
Derived(es) == {s \in Slots : OwnerOf[s] \in Files(es) /\ KindOf[s] = "def" /\ NameAt[s] # ""}

Nearest(s, line) == {l \in Found(s) : \A m \in Found(s) : Distance(l, line) <= Distance(m, line)}

\* resolveInFile: between two lines as near, the first in the graph's order.
resolveInFile(s, line, lower) ==
  CHOOSE l \in Nearest(s, line) : \A m \in Nearest(s, line) : IF lower THEN l <= m ELSE l >= m

\* The new line of an anchor that drifted, 0 for one that is clean, out of reach or unresolved.
Drift(es, lower) ==
  [s \in Slots |->
     LET line == es[OwnerOf[s]].lines[s] IN
     IF s \in Derived(es) /\ Found(s) # {} /\ Distance(resolveInFile(s, line, lower), line) \in 1..MaxShift
     THEN resolveInFile(s, line, lower) ELSE 0]

\* Anchors a human has to look at: unresolved, or moved too far.
Attention(es) ==
  {s \in Derived(es) : \A l \in Found(s) : Distance(l, es[OwnerOf[s]].lines[s]) > MaxShift}

RefreshExit == IF Attention(project) = {} THEN "ok" ELSE "attention"

StartRefresh ==
  /\ Loads
  /\ \E lower \in BOOLEAN :
       LET drift == Drift(entries, lower)
           drifted == {e \in Ids : \E s \in AnchorsOf(e) : drift[s] # 0} IN
       IF drifted = {}
       THEN AtOnce("refresh", IF Attention(entries) = {} THEN "ok" ELSE "attention")
       ELSE \/ AtOnce("refresh", "drift")  \* -check
            \/ Start("refresh") /\ updates' = drift /\ todo' = drifted /\ UNCHANGED <<arg, ended>>
  /\ UNCHANGED <<code, entries, outputs, edits>>

\* An error of FindSymbol ends the run before it writes anything.
RefreshErrs ==
  /\ Loads /\ AtOnce("refresh", "error") /\ UNCHANGED <<code, entries, outputs, edits>>

\* The updates an anchor of e matches by its file, its symbol and its line, if the
\* rewriter can read them: YAML allows more than its line by line search does.
Matching(e, s) ==
  {u \in AnchorsOf(e) : /\ s \in Plain /\ updates[u] # 0
                        /\ FileAt(u) = FileAt(s) /\ NameAt[u] = NameAt[s]
                        /\ project[e].lines[u] = entries[e].lines[s]}

UpdateFor(e, s) ==
  IF Matching(e, s) = {} THEN entries[e].lines[s] ELSE updates[CHOOSE u \in Matching(e, s) : TRUE]

\* Only a file of which it reads no anchor at all is an error (RewriteFails).
rewriteAnchorLines(e) ==
  /\ cmd = "refresh" /\ IsNext(e)
  /\ \E s \in AnchorsOf(e) : Matching(e, s) # {}
  /\ entries' = [entries EXCEPT ![e].lines = [s \in Slots |-> IF OwnerOf[s] = e THEN UpdateFor(e, s) ELSE @[s]]]
  /\ IF todo = {e} THEN End("refresh", RefreshExit)
     ELSE todo' = todo \ {e} /\ UNCHANGED <<cmd, arg, project, updates, ended, runs>>
  /\ UNCHANGED <<code, outputs, edits>>

RewriteFails ==
  /\ cmd = "refresh" /\ End("refresh", "error")
  /\ \/ UNCHANGED entries
     \/ \E e \in Ids : IsNext(e) /\ entries' = [entries EXCEPT ![e].lost = TRUE]
  /\ UNCHANGED <<code, outputs, edits>>

(***************************************************************************)
(* cks-domain-sync, cks-glossary-gen, cks-domain-export                    *)
(***************************************************************************)
Verified(es) == {e \in Ids : es[e].status = "verified" /\ ~ es[e].lost}

StartSync ==
  /\ Loads /\ Start("sync") /\ UNCHANGED <<code, entries, outputs, arg, todo, updates, ended, edits>>

EmitCkv ==
  /\ cmd = "sync"
  /\ \/ ckv' = Verified(project) /\ cmd' = "policies" /\ UNCHANGED <<ended, atWork, runs>>
     \/ ckv' \in {ckv, {}} /\ End("sync", "error")
  /\ UNCHANGED <<code, entries, dashboard, glossary, ckg, corpus, edits>>

EmitCkg ==
  /\ cmd = "policies"
  /\ \/ ckg' = Verified(project) /\ End("sync", "ok")
     \/ ckg' \in {ckg, {}} /\ End("sync", "error")
  /\ UNCHANGED <<code, entries, dashboard, glossary, ckv, corpus, edits>>

\* It reads the files itself, and passes over an empty one as over any that is not verified.
GenerateGlossary ==
  /\ \/ /\ Files(entries) # {} /\ AtOnce("glossary", "ok")
        /\ glossary' = Verified(entries) \intersect Matchable
     \/ AtOnce("glossary", "error") /\ glossary' \in {glossary, {}}
  /\ UNCHANGED <<code, entries, dashboard, ckv, ckg, corpus, edits>>

embeddableStatuses == {"verified", "needs_verification"}
Doc(es, e) == [id |-> e, status |-> es[e].status]
Embeddable(es) == {e \in Ids : es[e].status \in embeddableStatuses}

\* Export sweeps its directory before it writes.
StartExport ==
  /\ Loads /\ Start("export") /\ corpus' = {}
  /\ todo' = Embeddable(entries)
  /\ UNCHANGED <<code, entries, dashboard, glossary, ckv, ckg, arg, updates, ended, edits>>

SweepFails ==
  /\ Loads /\ AtOnce("export", "unswept") /\ corpus' \in SUBSET corpus
  /\ UNCHANGED <<code, entries, dashboard, glossary, ckv, ckg, edits>>

WriteDoc(e) ==
  /\ cmd = "export" /\ IsNext(e)
  /\ corpus' = corpus \union {Doc(project, e)} /\ todo' = todo \ {e}
  /\ UNCHANGED <<code, entries, dashboard, glossary, ckv, ckg, cmd, arg, project, updates, ended, edits, runs>>

\* After the entries it copies the project's authoritative documents.
FinishExport ==
  /\ cmd = "export" /\ todo = {} /\ End("export", "ok")
  /\ UNCHANGED <<code, entries, outputs, edits>>

\* At an entry, of which a part may be written, or at an authoritative document.
ExportFails ==
  /\ cmd = "export" /\ End("export", "error")
  /\ \/ UNCHANGED corpus
     \/ \E e \in Ids : IsNext(e) /\ corpus' = corpus \union {Doc(project, e)}
  /\ UNCHANGED <<code, entries, dashboard, glossary, ckv, ckg, edits>>

Author == \E e \in Ids : Restore(e) \/ Supersede(e) \/ \E status \in Statuses : Rewrite(e, status)
Source == \E d \in Defs : RemoveCode(d) \/ \E shift \in Shifts : MoveCode(d, shift)
Command ==
  \/ \E c \in {"verify", "check", "refresh", "sync", "export"} : CannotLoad(c)
  \/ NoSuchEntry \/ (\E e \in Ids : StartVerify(e)) \/ MarkVerified \/ MarkFails \/ UpdateInventoryCounts
  \/ InventoryCheck
  \/ StartRefresh \/ RefreshErrs \/ (\E e \in Ids : rewriteAnchorLines(e)) \/ RewriteFails
  \/ StartSync \/ EmitCkv \/ EmitCkg \/ GenerateGlossary
  \/ StartExport \/ SweepFails \/ (\E e \in Ids : WriteDoc(e)) \/ FinishExport \/ ExportFails

Next == Author \/ Source \/ Command

Spec == Init /\ [][Next]_vars

(***************************************************************************)
(* Properties                                                              *)
(***************************************************************************)
\* Types; a command at work has loaded a project that parses.
TypeOK ==
  /\ code \in [Defs -> Nat] /\ entries \in [Ids -> Entry]
  /\ DOMAIN dashboard \subseteq Ids /\ glossary \subseteq Ids /\ ckv \subseteq Ids /\ ckg \subseteq Ids
  /\ \A doc \in corpus : doc.id \in Ids /\ doc.status \in embeddableStatuses
  /\ cmd \in {"none", "verify", "count", "refresh", "sync", "policies", "export"}
  /\ arg \in Ids \union {""} /\ todo \subseteq Ids /\ updates \in [Slots -> Nat]
  /\ edits \in 0..EditsAtMost /\ runs \in 0..RunsAtMost
  /\ Idle => todo = {}
  /\ ~ Idle => project \in [Ids -> Entry] /\ \A e \in Files(project) : ~ project[e].lost

\* What a command wrote is what the entries say, as long as nobody edits them after
\* it: the dashboard's tables (where it still has them), both policy views, the
\* glossary and the corpus, which holds nothing stale even when its export failed.
FreshOutputs ==
  Idle =>
    /\ ended \in {<<"verify", "ok">>, <<"check", "ok">>} => dashboard \in {NoTables, Rendered(entries)}
    /\ ended = <<"sync", "ok">> => ckv = Verified(entries) /\ ckg = Verified(entries)
    /\ ended = <<"glossary", "ok">> => glossary = Verified(entries) \intersect Matchable
    /\ ended \in {<<"export", "ok">>, <<"export", "error">>} => corpus \subseteq {Doc(entries, e) : e \in Embeddable(entries)}
    /\ ended = <<"export", "ok">> => {doc.id : doc \in corpus} = Embeddable(entries)

\* A step of a command leaves every entry that passed the checks passing them, and
\* every entry it promotes: what cks-inventory-check accepted it goes on accepting.
\* (A file that a failed write emptied is lost to both.)
CommandsKeepValid ==
  ~ Idle => \A e \in Files(entries) :
    ~ entries'[e].lost /\ (Valid(entries, e) \/ entries'[e].status # entries[e].status)
      => Valid(entries', e)

\* "a re-run produces no diff": after a refresh every derived anchor stands on a
\* definition of its symbol in its file or has none near, and then the run said so.
\* The rewriter holds it for the anchors it can read; one with, say, a comment
\* behind its number is left where it was and counted as updated.
RefreshConverges ==
  Idle /\ ended \in {<<"refresh", "ok">>, <<"refresh", "attention">>} =>
    \A s \in Derived(entries) \intersect Plain :
      LET line == entries[OwnerOf[s]].lines[s]
          here == {d \in Defs : code[d] # 0 /\ NameOf[d] = NameAt[s] /\ FileOf[d] = FileAt(s)} IN
      \/ \E d \in here : code[d] = line
      \/ ended[2] = "attention" /\ \A d \in here : Distance(code[d], line) > MaxShift

\* An anchor that a refresh moves stands on the definition its author meant, as long
\* as that is there and the only one of its name in the file (what the -graph check
\* of cks-inventory-check asks for).
RefreshKeepsMeaning ==
  cmd = "refresh" => \A s \in Slots :
    LET e == OwnerOf[s] IN
    entries'[e].lines[s] # entries[e].lines[s] /\ Unambiguous(e) /\ code[MeantBy[s]] # 0
      => entries'[e].lines[s] = code[MeantBy[s]]

\* What commands do to the entries leaves them valid and their anchors meaningful.
CommandsKeepEntries == [][CommandsKeepValid /\ RefreshKeepsMeaning]_vars
=============================================================================
