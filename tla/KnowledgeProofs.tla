---------------------------- MODULE KnowledgeProofs ----------------------------
(***************************************************************************)
(* Proofs about the domain-knowledge inventory, for every project, every   *)
(* movement of its source and every order of edits, commands and failures. *)
(***************************************************************************)
EXTENDS Knowledge, ListProofs

(***************************************************************************)
(* Type correctness.                                                       *)
(***************************************************************************)
LEMMA TypeInit == Init => TypeOK
<1>. SUFFICES ASSUME Init PROVE TypeOK
  OBVIOUS
<1>1. code \in [Defs -> Nat]
  BY Lines DEF Init
<1>2. entries \in [Ids -> Entry]
  BY <1>1, Inventory, Lines DEF Init, Entry, Statuses
<1>3. DOMAIN dashboard \subseteq Ids
  BY DEF Init, Rendered, Files
<1>4. 0 \in 0..EditsAtMost /\ 0 \in 0..RunsAtMost
  BY Lines
<1>5. Idle /\ cmd = "none" /\ arg \in Ids \union {""} /\ todo = {}
  BY DEF Init, Idle
<1>7. updates \in [Slots -> Nat]
  BY DEF Init, NoUpdates
<1>6. glossary = {} /\ ckv = {} /\ ckg = {} /\ corpus = {} /\ edits = 0 /\ runs = 0
  BY DEF Init
<1>. QED
  BY <1>1, <1>2, <1>3, <1>4, <1>5, <1>6, <1>7 DEF TypeOK

\* The lines a refresh can give an anchor.
LEMMA FoundType ==
  ASSUME code \in [Defs -> Nat], NEW s \in Slots
  PROVE  Found(s) \subseteq Nat \ {0}
BY DEF Found, FindSymbol

LEMMA NearestLine ==
  ASSUME code \in [Defs -> Nat], NEW s \in Slots, NEW line \in Nat, NEW lower \in BOOLEAN,
         Found(s) # {}
  PROVE  resolveInFile(s, line, lower) \in Nearest(s, line)
<1>1. PICK n \in Found(s) : \A m \in Found(s) : Distance(n, line) <= Distance(m, line)
  <2>. DEFINE T == {Distance(l, line) : l \in Found(s)}
  <2>1. T \in SUBSET Nat /\ T # {}
    BY FoundType DEF Distance
  <2>2. \E k \in T : \A j \in T : k <= j
    <3>. HIDE DEF T
    <3>. QED
      BY <2>1, Least
  <2>. QED
    BY <2>2
<1>2. n \in Nearest(s, line)
  BY <1>1 DEF Nearest
<1>3. Nearest(s, line) \in SUBSET Nat
  BY FoundType DEF Nearest
<1>4. CASE lower
  <2>1. \E l \in Nearest(s, line) : \A m \in Nearest(s, line) : l <= m
    BY <1>2, <1>3, Least
  <2>. QED
    BY <1>4, <2>1 DEF resolveInFile
<1>5. CASE ~ lower
  <2>. DEFINE bound == line + Distance(n, line)
              T == {bound - l : l \in Nearest(s, line)}
  <2>1. \A l \in Nearest(s, line) : l \in Nat /\ l <= bound
    BY <1>1, <1>3, FoundType DEF Nearest, Distance
  <2>2. bound \in Nat
    BY <1>1, FoundType DEF Distance
  <2>3. T \in SUBSET Nat /\ T # {}
    BY <1>2, <2>1, <2>2
  <2>4. \E k \in T : \A j \in T : k <= j
    <3>. HIDE DEF T
    <3>. QED
      BY <2>3, Least
  <2>5. \E l \in Nearest(s, line) : \A m \in Nearest(s, line) : bound - l <= bound - m
    BY <2>4
  <2>6. \E l \in Nearest(s, line) : \A m \in Nearest(s, line) : l >= m
    <3>. HIDE DEF bound
    <3>. QED
      BY <2>1, <2>2, <2>5
  <2>. QED
    BY <1>5, <2>6 DEF resolveInFile
<1>. QED
  BY <1>4, <1>5

LEMMA DriftLine ==
  ASSUME code \in [Defs -> Nat], NEW es \in [Ids -> Entry], NEW lower \in BOOLEAN, NEW s \in Slots
  PROVE  /\ Drift(es, lower)[s] \in Nat
         /\ Drift(es, lower)[s] # 0 => s \in Derived(es) /\ Drift(es, lower)[s] \in Found(s)
<1>. DEFINE line == es[OwnerOf[s]].lines[s]
<1>1. line \in Nat
  BY Inventory DEF Entry
<1>2. Found(s) # {} => resolveInFile(s, line, lower) \in Found(s)
  BY <1>1, NearestLine DEF Nearest
<1>. QED
  BY <1>2, FoundType DEF Drift

LEMMA EntryChanges ==
  ASSUME NEW es \in [Ids -> Entry], NEW e \in Ids
  PROVE  /\ \A st \in Statuses : [es EXCEPT ![e].status = st] \in [Ids -> Entry]
         /\ [es EXCEPT ![e].status = Deleted] \in [Ids -> Entry]
         /\ [es EXCEPT ![e].lost = TRUE] \in [Ids -> Entry]
         /\ [es EXCEPT ![e].lost = FALSE] \in [Ids -> Entry]
         /\ \A ls \in [Slots -> Nat] : [es EXCEPT ![e].lines = ls] \in [Ids -> Entry]
         /\ simulated(es, e) \in [Ids -> Entry]
<1>1. es[e] \in Entry
  OBVIOUS
<1>2. \A entry \in Entry : [es EXCEPT ![e] = entry] \in [Ids -> Entry]
  OBVIOUS
<1>3. /\ \A st \in Statuses \union {Deleted} : [es[e] EXCEPT !.status = st] \in Entry
      /\ \A l \in BOOLEAN : [es[e] EXCEPT !.lost = l] \in Entry
      /\ \A ls \in [Slots -> Nat] : [es[e] EXCEPT !.lines = ls] \in Entry
  BY <1>1 DEF Entry
<1>4. [es[e] EXCEPT !.status = "verified", !.stamped = TRUE] \in Entry
  BY <1>1 DEF Entry, Statuses
<1>5. simulated(es, e) = [es EXCEPT ![e] = [es[e] EXCEPT !.status = "verified", !.stamped = TRUE]]
  BY DEF simulated
<1>6. /\ \A st : [es EXCEPT ![e].status = st] = [es EXCEPT ![e] = [es[e] EXCEPT !.status = st]]
      /\ \A l : [es EXCEPT ![e].lost = l] = [es EXCEPT ![e] = [es[e] EXCEPT !.lost = l]]
      /\ \A ls : [es EXCEPT ![e].lines = ls] = [es EXCEPT ![e] = [es[e] EXCEPT !.lines = ls]]
  OBVIOUS
<1>. QED
  BY <1>2, <1>3, <1>4, <1>5, <1>6

\* A command starts on a project of which every file parsed, and its end leaves none.
LEMMA StartType ==
  ASSUME TypeOK, Loads, NEW c, Start(c)
  PROVE  /\ project' = entries /\ runs' \in 0..RunsAtMost
         /\ project' \in [Ids -> Entry] /\ \A e \in {e \in Ids : project'[e].status # Deleted} : ~ project'[e].lost
<1>1. runs \in 0..RunsAtMost /\ RunsAtMost \in Nat
  BY Lines DEF TypeOK
<1>2. runs' \in 0..RunsAtMost
  BY <1>1 DEF Start, AtMost
<1>. QED
  BY <1>2 DEF Start, Loads, TypeOK, Files

LEMMA EndType ==
  ASSUME TypeOK, NEW c, NEW exit, End(c, exit)
  PROVE  cmd' = "none" /\ arg' = "" /\ todo' = {} /\ updates' \in [Slots -> Nat] /\ runs' = runs
BY DEF End, NoUpdates

LEMMA AtOnceType ==
  ASSUME TypeOK, NEW c, NEW exit, AtOnce(c, exit)
  PROVE  /\ cmd = "none" /\ cmd' = "none" /\ runs' \in 0..RunsAtMost
         /\ arg' = arg /\ todo' = todo /\ updates' = updates /\ project' = project
<1>1. runs \in 0..RunsAtMost /\ RunsAtMost \in Nat
  BY Lines DEF TypeOK
<1>2. runs' \in 0..RunsAtMost
  BY <1>1 DEF AtOnce, AtMost
<1>. QED
  BY <1>2 DEF AtOnce, Idle, atWork

LEMMA TablesType == DOMAIN NoTables \subseteq Ids /\ \A es : DOMAIN Rendered(es) \subseteq Ids
<1>1. DOMAIN NoTables \subseteq Ids
  BY DEF NoTables
<1>2. ASSUME NEW es PROVE DOMAIN Rendered(es) \subseteq Ids
  BY DEF Rendered, Files
<1>. QED
  BY <1>1, <1>2

LEMMA EditType ==
  ASSUME TypeOK, Edit
  PROVE  cmd = "none" /\ todo = {} /\ edits' \in 0..EditsAtMost /\ runs' = runs
<1>1. edits \in 0..EditsAtMost /\ EditsAtMost \in Nat
  BY Lines DEF TypeOK
<1>2. edits' \in 0..EditsAtMost
  BY <1>1 DEF Edit
<1>. QED
  BY <1>2 DEF Edit, Idle, TypeOK

(***************************************************************************)
(* A command at work goes by the project it loaded, and nobody edits the   *)
(* entries meanwhile. What each relies on between its steps:               *)
(***************************************************************************)
Undisturbed == cmd \in {"verify", "sync", "policies", "export"} => entries = project

Promoting == cmd = "verify" => arg \in Files(entries) /\ Valid(simulated(entries, arg), arg)

Emitting == cmd = "policies" => ckv = Verified(project)

Exporting ==
  cmd = "export" =>
    /\ todo \subseteq Embeddable(project)
    /\ corpus \subseteq {Doc(project, e) : e \in Embeddable(project)}
    /\ {doc.id : doc \in corpus} \union todo = Embeddable(project)

\* The line an anchor has once its entry is written.
RefreshedLine(s) ==
  IF updates[s] # 0 THEN updates[s] ELSE project[OwnerOf[s]].lines[s]

Refreshing ==
  cmd = "refresh" =>
    /\ \E lower \in BOOLEAN : updates = Drift(project, lower)
    /\ \A e \in Ids : entries[e].status = project[e].status
    /\ \A e \in todo : entries[e].lines = project[e].lines
    /\ \A s \in Derived(project) \intersect Plain : OwnerOf[s] \notin todo => entries[OwnerOf[s]].lines[s] = RefreshedLine(s)

WorkInv == Undisturbed /\ Promoting /\ Emitting /\ Exporting /\ Refreshing

LEMMA DocType ==
  ASSUME TypeOK, Exporting, cmd = "export", NEW e \in todo
  PROVE  Doc(project, e).id \in Ids /\ Doc(project, e).status \in embeddableStatuses
<1>1. e \in Embeddable(project)
  BY DEF Exporting
<1>. QED
  BY <1>1 DEF Embeddable, Doc

LEMMA TypeStep ==
  ASSUME TypeOK, Exporting, [Next]_vars
  PROVE  TypeOK'
<1>1. CASE UNCHANGED vars
  BY <1>1 DEF vars, outputs, atWork, TypeOK, Idle, Files
<1>2. ASSUME NEW e \in Ids, Restore(e) \/ Supersede(e) \/ \E status \in Statuses : Rewrite(e, status)
      PROVE  TypeOK'
  <2>1. entries' \in [Ids -> Entry]
    <3>1. entries \in [Ids -> Entry]
      BY DEF TypeOK
    <3>2. CASE Restore(e)
      BY <3>1, <3>2, EntryChanges DEF Restore
    <3>3. CASE Supersede(e)
      BY <3>1, <3>3, EntryChanges DEF Supersede
    <3>4. ASSUME NEW status \in Statuses, Rewrite(e, status) PROVE entries' \in [Ids -> Entry]
      <4>1. [entries EXCEPT ![e].status = status] \in [Ids -> Entry]
        BY <3>1, EntryChanges
      <4>. QED
        BY <3>4, <4>1, Zenon DEF Rewrite
    <3>. QED
      BY <1>2, <3>2, <3>3, <3>4
  <2>2. cmd = "none" /\ todo = {} /\ edits' \in 0..EditsAtMost /\ runs' = runs
    BY <1>2, EditType DEF Restore, Supersede, Rewrite, Idle, TypeOK
  <2>3. UNCHANGED <<code, outputs, cmd, atWork>>
    BY <1>2 DEF Restore, Supersede, Rewrite
  <2>. QED
    BY <2>1, <2>2, <2>3 DEF TypeOK, outputs, atWork, Idle
<1>3. ASSUME NEW d \in Defs, RemoveCode(d) \/ \E shift \in Shifts : MoveCode(d, shift)
      PROVE  TypeOK'
  <2>1. code' \in [Defs -> Nat]
    <3>1. code \in [Defs -> Nat] /\ Shifts \subseteq Nat
      BY Lines DEF TypeOK
    <3>. QED
      BY <1>3, <3>1 DEF RemoveCode, MoveCode
  <2>2. cmd = "none" /\ todo = {} /\ edits' \in 0..EditsAtMost /\ runs' = runs
    BY <1>3, EditType DEF RemoveCode, MoveCode
  <2>3. UNCHANGED <<entries, outputs, cmd, atWork>>
    BY <1>3 DEF RemoveCode, MoveCode
  <2>. QED
    BY <2>1, <2>2, <2>3 DEF TypeOK, outputs, atWork, Idle
<1>4. CASE (\E c \in {"verify", "check", "refresh", "sync", "export"} : CannotLoad(c)) \/ NoSuchEntry \/ RefreshErrs
  <2>1. PICK c, exit : AtOnce(c, exit)
    BY <1>4 DEF CannotLoad, NoSuchEntry, RefreshErrs
  <2>2. UNCHANGED <<code, entries, outputs, edits>>
    BY <1>4 DEF CannotLoad, NoSuchEntry, RefreshErrs
  <2>. QED
    BY <2>1, <2>2, AtOnceType DEF TypeOK, outputs, Idle
<1>5. ASSUME NEW e \in Ids, StartVerify(e) PROVE TypeOK'
  <2>1. UNCHANGED <<code, entries, outputs, edits>>
    BY <1>5 DEF StartVerify
  <2>2. CASE Start("verify") /\ arg' = e /\ UNCHANGED <<ended, todo, updates>>
    BY <1>5, <2>1, <2>2, StartType DEF StartVerify, Start, TypeOK, outputs, Idle, Files
  <2>3. CASE AtOnce("verify", "invalid")
    BY <2>1, <2>3, AtOnceType DEF TypeOK, outputs, Idle
  <2>. QED
    BY <1>5, <2>2, <2>3 DEF StartVerify
<1>6. CASE MarkVerified
  <2>1. entries' \in [Ids -> Entry]
    <3>1. entries \in [Ids -> Entry]
      BY DEF TypeOK
    <3>2. CASE arg \in Ids
      <4>1. entries' = simulated(entries, arg)
        BY <1>6, Zenon DEF MarkVerified, simulated
      <4>. QED
        BY <3>1, <3>2, <4>1, EntryChanges
    <3>3. CASE arg \notin Ids
      <4>1. entries' = entries
        BY <1>6, <3>1, <3>3 DEF MarkVerified
      <4>. QED
        BY <3>1, <4>1
    <3>. QED
      BY <3>2, <3>3
  <2>. QED
    BY <1>6, <2>1, EndType DEF MarkVerified, TypeOK, outputs, atWork, Idle, Files
<1>7. CASE MarkFails
  <2>1. entries' \in [Ids -> Entry]
    <3>1. entries \in [Ids -> Entry]
      BY DEF TypeOK
    <3>2. CASE arg \in Ids
      <4>1. [entries EXCEPT ![arg].lost = TRUE] \in [Ids -> Entry]
        BY <3>1, <3>2, EntryChanges
      <4>. QED
        BY <1>7, <3>1, <4>1, Zenon DEF MarkFails
    <3>3. CASE arg \notin Ids
      <4>1. entries' = entries
        BY <1>7, <3>1, <3>3 DEF MarkFails
      <4>. QED
        BY <3>1, <4>1
    <3>. QED
      BY <3>2, <3>3
  <2>. QED
    BY <1>7, <2>1, EndType DEF MarkFails, TypeOK, outputs, Idle
<1>8. CASE UpdateInventoryCounts
  <2>1. DOMAIN dashboard' \subseteq Ids
    BY <1>8, TablesType DEF UpdateInventoryCounts, WriteCounts, CountsFail, Recount, TypeOK
  <2>. QED
    BY <1>8, <2>1, EndType DEF UpdateInventoryCounts, TypeOK, Idle
<1>9. CASE InventoryCheck
  <2>1. DOMAIN dashboard' \subseteq Ids
    BY <1>9, TablesType DEF InventoryCheck, WriteCounts, CountsFail, TypeOK
  <2>2. PICK exit : AtOnce("check", exit)
    BY <1>9 DEF InventoryCheck
  <2>3. UNCHANGED <<code, entries, glossary, ckv, ckg, corpus, edits>>
    BY <1>9 DEF InventoryCheck
  <2>. QED
    BY <2>1, <2>2, <2>3, AtOnceType DEF TypeOK, Idle
<1>10. CASE StartRefresh
  <2>1. UNCHANGED <<code, entries, outputs, edits>>
    BY <1>10 DEF StartRefresh
  <2>2. ASSUME NEW exit, AtOnce("refresh", exit) PROVE TypeOK'
    BY <2>1, <2>2, AtOnceType DEF TypeOK, outputs, Idle
  <2>3. ASSUME NEW lower \in BOOLEAN, Start("refresh"), UNCHANGED <<arg, ended>>,
               updates' = Drift(entries, lower),
               todo' = {e \in Ids : \E s \in AnchorsOf(e) : Drift(entries, lower)[s] # 0}
        PROVE  TypeOK'
    <3>1. updates' \in [Slots -> Nat]
      BY <2>3, DriftLine DEF TypeOK, Drift
    <3>. QED
      BY <1>10, <2>1, <2>3, <3>1, StartType DEF StartRefresh, Start, TypeOK, outputs, Idle, Files
  <2>. QED
    BY <1>10, <2>2, <2>3 DEF StartRefresh
<1>11. ASSUME NEW e \in Ids, rewriteAnchorLines(e) PROVE TypeOK'
  <2>1. entries' \in [Ids -> Entry]
    <3>. DEFINE lines == [s \in Slots |-> IF OwnerOf[s] = e THEN UpdateFor(e, s) ELSE entries[e].lines[s]]
    <3>1. entries \in [Ids -> Entry] /\ updates \in [Slots -> Nat]
      BY DEF TypeOK
    <3>2. \A s \in Slots : UpdateFor(e, s) \in Nat
      BY <3>1 DEF UpdateFor, Matching, AnchorsOf, Entry
    <3>3. lines \in [Slots -> Nat]
      BY <3>1, <3>2 DEF Entry
    <3>4. entries' = [entries EXCEPT ![e].lines = lines]
      BY <1>11 DEF rewriteAnchorLines
    <3>. QED
      BY <3>1, <3>3, <3>4, EntryChanges
  <2>2. CASE End("refresh", RefreshExit)
    BY <1>11, <2>1, <2>2, EndType DEF rewriteAnchorLines, TypeOK, outputs, Idle
  <2>3. CASE todo' = todo \ {e} /\ UNCHANGED <<cmd, arg, project, updates, ended, runs>>
    BY <1>11, <2>1, <2>3 DEF rewriteAnchorLines, TypeOK, outputs, Idle, Files
  <2>. QED
    BY <1>11, <2>2, <2>3 DEF rewriteAnchorLines
<1>12. CASE RewriteFails
  <2>1. entries' \in [Ids -> Entry]
    <3>1. entries \in [Ids -> Entry]
      BY DEF TypeOK
    <3>2. ASSUME NEW e \in Ids, entries' = [entries EXCEPT ![e].lost = TRUE]
          PROVE  entries' \in [Ids -> Entry]
      BY <3>1, <3>2, EntryChanges
    <3>. QED
      BY <1>12, <3>1, <3>2 DEF RewriteFails
  <2>. QED
    BY <1>12, <2>1, EndType DEF RewriteFails, TypeOK, outputs, Idle
<1>13. CASE StartSync
  BY <1>13, StartType DEF StartSync, Start, TypeOK, outputs, Idle, Files
<1>14. CASE EmitCkv \/ EmitCkg
  <2>1. ckv' \subseteq Ids /\ ckg' \subseteq Ids
    BY <1>14 DEF EmitCkv, EmitCkg, Verified, TypeOK
  <2>2. UNCHANGED <<code, entries, dashboard, glossary, corpus, edits>>
    BY <1>14 DEF EmitCkv, EmitCkg
  <2>3. CASE cmd' = "policies" /\ UNCHANGED <<ended, atWork, runs>>
    BY <1>14, <2>1, <2>2, <2>3 DEF EmitCkv, EmitCkg, TypeOK, atWork, Idle, Files
  <2>4. ASSUME NEW exit, End("sync", exit) PROVE TypeOK'
    BY <2>1, <2>2, <2>4, EndType DEF TypeOK, Idle
  <2>. QED
    BY <1>14, <2>3, <2>4 DEF EmitCkv, EmitCkg
<1>15. CASE GenerateGlossary
  <2>1. glossary' \subseteq Ids
    BY <1>15 DEF GenerateGlossary, Verified, TypeOK
  <2>2. PICK exit : AtOnce("glossary", exit)
    BY <1>15 DEF GenerateGlossary
  <2>. QED
    BY <1>15, <2>1, <2>2, AtOnceType DEF GenerateGlossary, TypeOK, Idle
<1>16. CASE StartExport
  BY <1>16, StartType DEF StartExport, Start, Embeddable, TypeOK, Idle, Files
<1>17. CASE SweepFails
  <2>1. PICK exit : AtOnce("export", exit)
    BY <1>17 DEF SweepFails
  <2>2. \A doc \in corpus' : doc.id \in Ids /\ doc.status \in embeddableStatuses
    BY <1>17 DEF SweepFails, TypeOK
  <2>. QED
    BY <1>17, <2>1, <2>2, AtOnceType DEF SweepFails, TypeOK, Idle
<1>18. ASSUME NEW e \in Ids, WriteDoc(e) PROVE TypeOK'
  <2>1. \A doc \in corpus' : doc.id \in Ids /\ doc.status \in embeddableStatuses
    <3>1. \A doc \in corpus : doc.id \in Ids /\ doc.status \in embeddableStatuses
      BY DEF TypeOK
    <3>2. corpus' = corpus \/ \E ex \in todo : corpus' = corpus \union {Doc(project, ex)}
      BY <1>18 DEF WriteDoc, IsNext
    <3>. QED
      BY <1>18, <3>1, <3>2, DocType DEF WriteDoc
  <2>. QED
    BY <1>18, <2>1 DEF WriteDoc, TypeOK, Idle, Files
<1>19. CASE FinishExport
  BY <1>19, EndType DEF FinishExport, TypeOK, outputs, Idle
<1>20. CASE ExportFails
  <2>1. \A doc \in corpus' : doc.id \in Ids /\ doc.status \in embeddableStatuses
    <3>1. \A doc \in corpus : doc.id \in Ids /\ doc.status \in embeddableStatuses
      BY DEF TypeOK
    <3>2. corpus' = corpus \/ \E ex \in todo : corpus' = corpus \union {Doc(project, ex)}
      BY <1>20 DEF ExportFails, IsNext
    <3>. QED
      BY <1>20, <3>1, <3>2, DocType DEF ExportFails
  <2>. QED
    BY <1>20, <2>1, EndType DEF ExportFails, TypeOK, Idle
<1>. QED
  BY <1>1, <1>2, <1>3, <1>4, <1>5, <1>6, <1>7, <1>8, <1>9, <1>10, <1>11, <1>12, <1>13, <1>14, <1>15,
     <1>16, <1>17, <1>18, <1>19, <1>20 DEF Next, Author, Source, Command

(***************************************************************************)
(* The step of a refresh. An anchor that was derived gets the line that    *)
(* was computed for it, though the update is looked up by what it matches: *)
(* two anchors of an entry with one file, name and line drift alike.       *)
(***************************************************************************)
LEMMA DriftAlike ==
  ASSUME NEW es, NEW lower, NEW s \in Derived(es), NEW u \in Derived(es),
         FileAt(u) = FileAt(s), NameAt[u] = NameAt[s], es[OwnerOf[u]].lines[u] = es[OwnerOf[s]].lines[s]
  PROVE  Drift(es, lower)[u] = Drift(es, lower)[s]
<1>. DEFINE line == es[OwnerOf[s]].lines[s]
<1>1. Found(u) = Found(s)
  BY DEF Found
<1>2. Nearest(u, line) = Nearest(s, line)
  BY <1>1 DEF Nearest
<1>3. resolveInFile(u, line, lower) = resolveInFile(s, line, lower)
  BY <1>2 DEF resolveInFile
<1>4. s \in Slots /\ u \in Slots
  BY DEF Derived
<1>. QED
  BY <1>1, <1>3, <1>4 DEF Drift

LEMMA UpdateForDerived ==
  ASSUME TypeOK, Refreshing, cmd = "refresh",
         NEW e \in todo, NEW s \in Derived(project) \intersect Plain, OwnerOf[s] = e
  PROVE  UpdateFor(e, s) = RefreshedLine(s)
<1>. DEFINE matching == Matching(e, s)
<1>1. PICK lower \in BOOLEAN : updates = Drift(project, lower)
  BY DEF Refreshing
<1>2. entries[e].lines = project[e].lines /\ s \in Slots
  BY DEF Refreshing, Derived
<1>3. ASSUME NEW u \in matching PROVE updates[u] = updates[s]
  <2>1. u \in Slots /\ OwnerOf[u] = e
    BY DEF AnchorsOf, Matching
  <2>2. u \in Derived(project)
    BY <1>1, <2>1, DriftLine DEF TypeOK, Idle, Matching
  <2>. QED
    BY <1>1, <1>2, <2>1, <2>2, DriftAlike DEF Matching
<1>4. UpdateFor(e, s) = IF matching = {} THEN entries[e].lines[s] ELSE updates[CHOOSE u \in matching : TRUE]
  BY DEF UpdateFor
<1>5. CASE updates[s] # 0
  <2>1. s \in matching
    BY <1>2, <1>5 DEF AnchorsOf, Matching
  <2>2. (CHOOSE u \in matching : TRUE) \in matching
    BY <2>1
  <2>. QED
    BY <1>3, <1>4, <1>5, <2>1, <2>2 DEF RefreshedLine
<1>6. CASE updates[s] = 0
  <2>1. matching = {}
    BY <1>3, <1>6 DEF Matching
  <2>. QED
    BY <1>2, <1>4, <1>6, <2>1 DEF RefreshedLine
<1>. QED
  BY <1>5, <1>6

LEMMA LinesWritten ==
  ASSUME TypeOK, Refreshing, NEW e \in Ids, rewriteAnchorLines(e)
  PROVE  /\ \A x \in Ids : entries'[x].status = project[x].status
         /\ \A x \in todo \ {e} : entries'[x].lines = project[x].lines
         /\ \A s \in Derived(project) \intersect Plain :
              OwnerOf[s] \notin todo \ {e} => entries'[OwnerOf[s]].lines[s] = RefreshedLine(s)
<1>1. entries \in [Ids -> Entry] /\ e \in todo /\ cmd = "refresh"
  BY DEF TypeOK, rewriteAnchorLines, IsNext
<1>2. /\ \A x \in Ids : entries'[x].status = entries[x].status
      /\ \A x \in Ids \ {e} : entries'[x].lines = entries[x].lines
      /\ \A s \in Slots : OwnerOf[s] = e => entries'[e].lines[s] = UpdateFor(e, s)
  BY <1>1 DEF rewriteAnchorLines, Entry
<1>3. ASSUME NEW s \in Derived(project) \intersect Plain, OwnerOf[s] \notin todo \ {e}
      PROVE  entries'[OwnerOf[s]].lines[s] = RefreshedLine(s)
  <2>1. s \in Slots /\ OwnerOf[s] \in Ids
    BY Inventory DEF Derived
  <2>2. CASE OwnerOf[s] = e
    BY <1>1, <1>2, <2>1, <2>2, UpdateForDerived
  <2>3. CASE OwnerOf[s] # e
    BY <1>1, <1>2, <1>3, <2>1, <2>3 DEF Refreshing
  <2>. QED
    BY <2>2, <2>3
<1>. QED
  BY <1>1, <1>2, <1>3 DEF Refreshing, TypeOK

LEMMA WorkInit == Init => WorkInv
BY DEF Init, WorkInv, Undisturbed, Promoting, Emitting, Exporting, Refreshing

LEMMA SameSource ==
  ASSUME code' = code
  PROVE  /\ \A es, e : (Valid(es, e) <=> Valid(es, e)')
         /\ \A s : Found(s)' = Found(s)
         /\ \A es, lower : Drift(es, lower)' = Drift(es, lower)
<1>1. \A es, e : (Valid(es, e) <=> Valid(es, e)')
  BY DEF Valid, Exists, Files, AnchorsOf
<1>2. \A s : Found(s)' = Found(s)
  BY DEF Found, FindSymbol
<1>3. \A s, line : Nearest(s, line)' = Nearest(s, line)
  BY <1>2 DEF Nearest
<1>4. \A s, line, lower : resolveInFile(s, line, lower)' = resolveInFile(s, line, lower)
  BY <1>3 DEF resolveInFile
<1>5. \A es : Derived(es)' = Derived(es)
  BY DEF Derived, Files
<1>6. ASSUME NEW es, NEW lower PROVE Drift(es, lower)' = Drift(es, lower)
  BY <1>2, <1>4, <1>5 DEF Drift
<1>. QED
  BY <1>1, <1>2, <1>6

LEMMA WorkStep ==
  ASSUME TypeOK, WorkInv, [Next]_vars
  PROVE  WorkInv'
<1>. USE DEF WorkInv, Undisturbed, Promoting, Emitting, Exporting, Refreshing
<1>1. CASE cmd' \in {"none", "count"}
  BY <1>1
<1>2. CASE UNCHANGED vars
  <2>1. /\ entries' = entries /\ project' = project /\ cmd' = cmd /\ arg' = arg /\ todo' = todo
        /\ updates' = updates /\ ckv' = ckv /\ corpus' = corpus /\ code' = code
    BY <1>2 DEF vars, atWork, outputs
  <2>2. Undisturbed' /\ Promoting'
    BY <2>1, SameSource DEF Files, simulated
  <2>3. Emitting' /\ Exporting'
    BY <2>1 DEF Verified, Embeddable, Doc
  <2>4. Refreshing'
    BY <2>1, SameSource DEF Derived, Files, RefreshedLine
  <2>. QED
    BY <2>2, <2>3, <2>4, Zenon
<1>3. ASSUME NEW e \in Ids, StartVerify(e), cmd' \notin {"none", "count"} PROVE WorkInv'
  <2>1. /\ cmd' = "verify" /\ entries' = entries /\ project' = entries /\ code' = code /\ arg' = e
        /\ e \in Files(entries) /\ Valid(simulated(entries, e), e)
    BY <1>3 DEF StartVerify, Start, AtOnce, Idle
  <2>. QED
    BY <2>1, SameSource DEF Files, simulated
<1>4. CASE StartRefresh /\ cmd' \notin {"none", "count"}
  <2>1. PICK lower \in BOOLEAN :
          /\ cmd' = "refresh" /\ entries' = entries /\ project' = entries /\ code' = code
          /\ updates' = Drift(entries, lower)
          /\ todo' = {e \in Ids : \E s \in AnchorsOf(e) : Drift(entries, lower)[s] # 0}
    BY <1>4 DEF StartRefresh, Start, AtOnce, Idle
  <2>2. ASSUME NEW s \in Derived(entries), OwnerOf[s] \notin todo'
        PROVE  updates'[s] = 0
    BY <2>1, <2>2, Inventory DEF Derived, AnchorsOf
  <2>. QED
    BY <2>1, <2>2, SameSource DEF RefreshedLine, Derived, Files
<1>5. ASSUME NEW e \in Ids, rewriteAnchorLines(e), cmd' \notin {"none", "count"} PROVE WorkInv'
  <2>1. /\ cmd = "refresh" /\ cmd' = "refresh" /\ code' = code /\ project' = project
        /\ updates' = updates /\ todo' = todo \ {e}
    BY <1>5 DEF rewriteAnchorLines, End
  <2>2. \E lower \in BOOLEAN : updates' = Drift(project, lower)'
    BY <2>1, SameSource
  <2>3. Derived(project)' = Derived(project) /\ \A s : RefreshedLine(s)' = RefreshedLine(s)
    BY <2>1 DEF Derived, Files, RefreshedLine
  <2>4. /\ \A x \in Ids : entries'[x].status = project[x].status
        /\ \A x \in todo \ {e} : entries'[x].lines = project[x].lines
        /\ \A s \in Derived(project) \intersect Plain :
             OwnerOf[s] \notin todo \ {e} => entries'[OwnerOf[s]].lines[s] = RefreshedLine(s)
    BY <1>5, LinesWritten
  <2>5. Refreshing'
    BY <2>1, <2>2, <2>3, <2>4
  <2>. QED
    BY <2>1, <2>5
<1>6. CASE StartSync
  BY <1>6 DEF StartSync, Start
<1>7. CASE (EmitCkv \/ EmitCkg) /\ cmd' \notin {"none", "count"}
  <2>1. cmd = "sync" /\ cmd' = "policies" /\ entries' = entries /\ project' = project /\ ckv' = Verified(project)
    BY <1>7 DEF EmitCkv, EmitCkg, End, atWork
  <2>. QED
    BY <2>1 DEF Verified
<1>8. CASE StartExport
  BY <1>8 DEF StartExport, Start, Embeddable, Doc
<1>9. ASSUME NEW e \in Ids, WriteDoc(e) PROVE WorkInv'
  <2>1. /\ cmd = "export" /\ cmd' = "export" /\ entries' = entries /\ project' = project
        /\ corpus' = corpus \union {Doc(project, e)} /\ todo' = todo \ {e} /\ e \in todo
    BY <1>9 DEF WriteDoc, IsNext
  <2>2. Doc(project, e).id = e
    BY DEF Doc
  <2>3. Embeddable(project') = Embeddable(project)
    BY <2>1 DEF Embeddable
  <2>4. {doc.id : doc \in corpus'} = {doc.id : doc \in corpus} \union {e}
    BY <2>1, <2>2
  <2>. QED
    BY <2>1, <2>3, <2>4 DEF Doc, Embeddable
<1>10. ASSUME Author \/ Source PROVE cmd' = "none"
  BY <1>10 DEF Author, Source, Restore, Supersede, Rewrite, RemoveCode, MoveCode, Edit, Idle
<1>11. ASSUME \/ \E c \in {"verify", "check", "refresh", "sync", "export"} : CannotLoad(c)
              \/ NoSuchEntry \/ MarkVerified \/ MarkFails \/ UpdateInventoryCounts \/ InventoryCheck
              \/ RefreshErrs \/ RewriteFails \/ GenerateGlossary \/ SweepFails \/ FinishExport \/ ExportFails
       PROVE  cmd' \in {"none", "count"}
  BY <1>11 DEF CannotLoad, NoSuchEntry, MarkVerified, MarkFails, UpdateInventoryCounts, InventoryCheck, RefreshErrs,
               RewriteFails, GenerateGlossary, SweepFails, FinishExport, ExportFails, AtOnce, End, Idle
<1>. QED
  BY <1>1, <1>2, <1>3, <1>4, <1>5, <1>6, <1>7, <1>8, <1>9, <1>10, <1>11 DEF Next, Command

(***************************************************************************)
(* What a command wrote is what the entries say.                           *)
(***************************************************************************)
FreshEndings == {<<"verify", "ok">>, <<"check", "ok">>, <<"sync", "ok">>, <<"glossary", "ok">>,
                 <<"export", "ok">>, <<"export", "error">>}
RefreshEndings == {<<"refresh", "ok">>, <<"refresh", "attention">>}

LEMMA FreshStep ==
  ASSUME TypeOK, WorkInv, FreshOutputs, [Next]_vars
  PROVE  FreshOutputs'
<1>1. CASE cmd' # "none" \/ ended' \notin FreshEndings
  BY <1>1 DEF Idle, FreshEndings, FreshOutputs
<1>2. CASE UNCHANGED vars
  BY <1>2 DEF vars, atWork, outputs, Idle, Rendered, Verified, Files, Doc, Embeddable, FreshOutputs
<1>3. ASSUME Author \/ Source PROVE ended' \notin FreshEndings
  <2>1. ended' = <<"none", "ok">>
    BY <1>3 DEF Author, Source, Restore, Supersede, Rewrite, RemoveCode, MoveCode, Edit, Forget
  <2>. QED
    BY <2>1 DEF FreshEndings
<1>4. ASSUME \/ \E c \in {"verify", "check", "refresh", "sync", "export"} : CannotLoad(c)
             \/ NoSuchEntry \/ (\E e \in Ids : StartVerify(e)) \/ RefreshErrs
             \/ StartSync \/ StartExport \/ SweepFails \/ (\E e \in Ids : WriteDoc(e))
      PROVE  cmd' # "none" \/ ended' \notin FreshEndings
  <2>1. \/ cmd' # "none"
        \/ \E c, exit : ended' = <<c, exit>> /\ exit \in {"unloaded", "unknown", "invalid", "unswept"}
        \/ ended' = <<"refresh", "error">>
    BY <1>4 DEF CannotLoad, NoSuchEntry, StartVerify, RefreshErrs, StartSync, StartExport, SweepFails, WriteDoc,
                Start, AtOnce
  <2>. QED
    BY <2>1 DEF FreshEndings
<1>5. ASSUME MarkVerified \/ MarkFails \/ StartRefresh \/ (\E e \in Ids : rewriteAnchorLines(e)) \/ RewriteFails \/ EmitCkv
      PROVE  cmd' # "none" \/ ended' \notin FreshEndings
  <2>1. ASSUME MarkVerified \/ MarkFails \/ EmitCkv
        PROVE  cmd' # "none" \/ ended' \in {<<"verify", "skipped">>, <<"verify", "error">>, <<"sync", "error">>}
    BY <2>1 DEF MarkVerified, MarkFails, EmitCkv, End
  <2>2. ASSUME StartRefresh \/ (\E e \in Ids : rewriteAnchorLines(e)) \/ RewriteFails
        PROVE  cmd' # "none" \/ \E exit : ended' = <<"refresh", exit>>
    BY <2>2 DEF StartRefresh, rewriteAnchorLines, RewriteFails, Start, AtOnce, End
  <2>. QED
    BY <1>5, <2>1, <2>2 DEF FreshEndings
<1>6. CASE UpdateInventoryCounts
  <2>1. \/ ended' = <<"verify", "error">>
        \/ ended' = <<"verify", "ok">> /\ dashboard' \in {NoTables, Rendered(entries')}
    BY <1>6 DEF UpdateInventoryCounts, WriteCounts, Recount, Rendered, Files, End
  <2>. QED
    BY <2>1 DEF FreshOutputs
<1>7. CASE InventoryCheck
  <2>1. \/ ended' \in {<<"check", "error">>, <<"check", "invalid">>}
        \/ ended' = <<"check", "ok">> /\ dashboard' \in {NoTables, Rendered(entries')}
    BY <1>7 DEF InventoryCheck, WriteCounts, Rendered, Files, AtOnce
  <2>. QED
    BY <2>1 DEF FreshOutputs
<1>8. CASE EmitCkg
  <2>1. \/ ended' = <<"sync", "error">>
        \/ ended' = <<"sync", "ok">> /\ ckv' = Verified(entries') /\ ckg' = Verified(entries')
    BY <1>8 DEF EmitCkg, End, WorkInv, Emitting, Undisturbed, Verified
  <2>. QED
    BY <2>1 DEF FreshOutputs
<1>9. CASE GenerateGlossary
  <2>1. \/ ended' = <<"glossary", "error">>
        \/ ended' = <<"glossary", "ok">> /\ glossary' = Verified(entries') \intersect Matchable
    BY <1>9 DEF GenerateGlossary, AtOnce, Verified
  <2>. QED
    BY <2>1 DEF FreshOutputs
<1>10. CASE FinishExport
  <2>1. /\ ended' = <<"export", "ok">> /\ entries' = entries /\ corpus' = corpus /\ entries = project
        /\ corpus \subseteq {Doc(project, e) : e \in Embeddable(project)}
        /\ {doc.id : doc \in corpus} = Embeddable(project)
    BY <1>10 DEF FinishExport, End, WorkInv, Exporting, Undisturbed, outputs
  <2>. QED
    BY <2>1 DEF FreshOutputs, Embeddable, Doc
<1>11. CASE ExportFails
  <2>1. /\ ended' = <<"export", "error">> /\ entries' = entries /\ entries = project
        /\ corpus \subseteq {Doc(project, e) : e \in Embeddable(project)}
        /\ todo \subseteq Embeddable(project)
        /\ corpus' = corpus \/ \E e \in todo : corpus' = corpus \union {Doc(project, e)}
    BY <1>11 DEF ExportFails, IsNext, End, WorkInv, Exporting, Undisturbed
  <2>2. corpus' \subseteq {Doc(entries', e) : e \in Embeddable(entries')}
    BY <2>1 DEF Embeddable, Doc
  <2>. QED
    BY <2>1, <2>2 DEF FreshOutputs
<1>. QED
  BY <1>1, <1>2, <1>3, <1>4, <1>5, <1>6, <1>7, <1>8, <1>9, <1>10, <1>11 DEF Next, Command

(***************************************************************************)
(* A refresh leaves every derived anchor on a definition of its symbol, or *)
(* says that it needs attention.                                           *)
(***************************************************************************)
LEMMA DriftConverges ==
  ASSUME code \in [Defs -> Nat], NEW es \in [Ids -> Entry], NEW lower \in BOOLEAN, NEW s \in Derived(es)
  PROVE  LET line == es[OwnerOf[s]].lines[s]
             drift == Drift(es, lower)[s] IN
         \/ drift # 0 /\ drift \in Found(s)
         \/ drift = 0 /\ line \in Found(s)
         \/ drift = 0 /\ s \in Attention(es)
<1>. DEFINE line == es[OwnerOf[s]].lines[s]
            drift == Drift(es, lower)[s]
            near == resolveInFile(s, line, lower)
<1>1. s \in Slots /\ OwnerOf[s] \in Ids /\ line \in Nat
  BY Inventory DEF Derived, Entry
<1>2. Found(s) \subseteq Nat /\ drift \in Nat /\ (drift # 0 => drift \in Found(s))
  BY <1>1, FoundType, DriftLine
<1>3. CASE drift = 0 /\ Found(s) = {}
  BY <1>3 DEF Attention
<1>4. CASE drift = 0 /\ Found(s) # {}
  <2>1. near \in Nearest(s, line)
    BY <1>1, <1>4, NearestLine
  <2>2. near \in Found(s) /\ near \in Nat /\ near # 0
    BY <1>1, <2>1, FoundType DEF Nearest
  <2>3. Distance(near, line) \notin 1..MaxShift
    BY <1>1, <1>4, <2>2 DEF Drift
  <2>4. CASE Distance(near, line) = 0
    <3>1. near = line
      BY <1>1, <2>2, <2>4 DEF Distance
    <3>. QED
      BY <1>4, <2>2, <3>1
  <2>5. CASE Distance(near, line) > MaxShift
    <3>1. \A l \in Found(s) : Distance(l, line) > MaxShift
      <4>1. \A l \in Found(s) : Distance(l, line) \in Nat /\ Distance(near, line) <= Distance(l, line)
        BY <1>1, <1>2, <2>1 DEF Nearest, Distance
      <4>2. Distance(near, line) \in Nat
        BY <2>2, <4>1
      <4>. QED
        BY <2>5, <4>1, <4>2, Lines
    <3>. QED
      BY <1>4, <3>1 DEF Attention
  <2>6. Distance(near, line) \in Nat
    BY <1>1, <2>2 DEF Distance
  <2>. QED
    BY <2>3, <2>4, <2>5, <2>6, Lines
<1>. QED
  BY <1>2, <1>3, <1>4

\* The end of a refresh that wrote nothing, or the last of its files.
LEMMA RefreshEnds ==
  ASSUME TypeOK, NEW es \in [Ids -> Entry], NEW lower \in BOOLEAN, code' = code,
         \A e \in Ids : entries'[e].status = es[e].status,
         \A s \in Derived(es) \intersect Plain : entries'[OwnerOf[s]].lines[s] =
                                 IF Drift(es, lower)[s] # 0 THEN Drift(es, lower)[s] ELSE es[OwnerOf[s]].lines[s],
         ended' = <<"refresh", IF Attention(es) = {} THEN "ok" ELSE "attention">>
  PROVE  RefreshConverges'
<1>1. code \in [Defs -> Nat]
  BY DEF TypeOK
<1>2. SUFFICES ASSUME NEW s \in Derived(entries') \intersect Plain
               PROVE  \/ entries'[OwnerOf[s]].lines[s] \in Found(s)
                      \/ /\ Attention(es) # {}
                         /\ \A l \in Found(s) : Distance(l, entries'[OwnerOf[s]].lines[s]) > MaxShift
  <2>. DEFINE here(s) == {d \in Defs : code[d] # 0 /\ NameOf[d] = NameAt[s] /\ FileOf[d] = FileAt(s)}
  <2>1. \A s : Found(s) = {code[d] : d \in here(s)}
    BY DEF Found, FindSymbol
  <2>2. Attention(es) # {} => ended'[2] = "attention"
    OBVIOUS
  <2>. QED
    <3>1. SUFFICES ASSUME NEW s \in Derived(entries') \intersect Plain
                   PROVE  \/ \E d \in here(s) : code[d] = entries'[OwnerOf[s]].lines[s]
                          \/ /\ ended'[2] = "attention"
                             /\ \A d \in here(s) : Distance(code[d], entries'[OwnerOf[s]].lines[s]) > MaxShift
      BY DEF RefreshConverges, Derived, Files, Idle
    <3>2. CASE entries'[OwnerOf[s]].lines[s] \in Found(s)
      BY <2>1, <3>2
    <3>3. CASE /\ Attention(es) # {}
               /\ \A l \in Found(s) : Distance(l, entries'[OwnerOf[s]].lines[s]) > MaxShift
      BY <2>1, <2>2, <3>3
    <3>. QED
      BY <1>2, <3>1, <3>2, <3>3
<1>3. s \in Derived(es) \intersect Plain
  BY Inventory DEF Derived, Files
<1>. QED
  BY <1>1, <1>3, DriftConverges DEF Attention

LEMMA ConvergesStep ==
  ASSUME TypeOK, WorkInv, RefreshConverges, [Next]_vars
  PROVE  RefreshConverges'
<1>1. CASE cmd' # "none" \/ ended' \notin RefreshEndings
  BY <1>1 DEF Idle, RefreshEndings, RefreshConverges
<1>2. CASE UNCHANGED vars
  BY <1>2 DEF vars, atWork, outputs, Idle, RefreshConverges, Derived, Files
<1>3. ASSUME Author \/ Source PROVE ended' \notin RefreshEndings
  <2>1. ended' = <<"none", "ok">>
    BY <1>3 DEF Author, Source, Restore, Supersede, Rewrite, RemoveCode, MoveCode, Edit, Forget
  <2>. QED
    BY <2>1 DEF RefreshEndings
<1>4. CASE StartRefresh /\ cmd' = "none" /\ ended' \in RefreshEndings
  <2>1. PICK lower \in BOOLEAN :
          /\ {e \in Ids : \E s \in AnchorsOf(e) : Drift(entries, lower)[s] # 0} = {}
          /\ ended' = <<"refresh", IF Attention(entries) = {} THEN "ok" ELSE "attention">>
    BY <1>4 DEF StartRefresh, Start, AtOnce, RefreshEndings
  <2>2. entries' = entries /\ code' = code /\ entries \in [Ids -> Entry]
    BY <1>4 DEF StartRefresh, TypeOK
  <2>3. \A s \in Derived(entries) : Drift(entries, lower)[s] = 0
    BY <2>1, Inventory DEF Derived, AnchorsOf
  <2>. QED
    BY <2>1, <2>2, <2>3, RefreshEnds
<1>5. ASSUME NEW e \in Ids, rewriteAnchorLines(e), cmd' = "none" PROVE RefreshConverges'
  <2>1. cmd = "refresh" /\ todo = {e} /\ End("refresh", RefreshExit) /\ code' = code
    BY <1>5 DEF rewriteAnchorLines
  <2>2. PICK lower \in BOOLEAN : updates = Drift(project, lower)
    BY <2>1 DEF WorkInv, Refreshing
  <2>3. project \in [Ids -> Entry]
    BY <2>1 DEF TypeOK, Idle
  <2>4. \A s \in Derived(project) \intersect Plain : entries'[OwnerOf[s]].lines[s] = RefreshedLine(s)
    BY <1>5, <2>1, LinesWritten DEF WorkInv
  <2>5. \A x \in Ids : entries'[x].status = project[x].status
    BY <1>5, LinesWritten DEF WorkInv
  <2>6. ended' = <<"refresh", IF Attention(project) = {} THEN "ok" ELSE "attention">>
    BY <2>1 DEF End, RefreshExit
  <2>. QED
    BY <2>1, <2>2, <2>3, <2>4, <2>5, <2>6, RefreshEnds DEF RefreshedLine
<1>6. ASSUME \/ \E c \in {"verify", "check", "refresh", "sync", "export"} : CannotLoad(c)
             \/ NoSuchEntry \/ (\E e \in Ids : StartVerify(e)) \/ RefreshErrs \/ RewriteFails
             \/ MarkVerified \/ MarkFails \/ UpdateInventoryCounts \/ InventoryCheck
             \/ StartSync \/ EmitCkv \/ EmitCkg \/ GenerateGlossary
             \/ StartExport \/ SweepFails \/ (\E e \in Ids : WriteDoc(e)) \/ FinishExport \/ ExportFails
      PROVE  cmd' # "none" \/ ended' \notin RefreshEndings
  <2>1. ASSUME (\E c \in {"verify", "check", "refresh", "sync", "export"} : CannotLoad(c)) \/ RefreshErrs \/ RewriteFails
        PROVE  \E c : ended' = <<c, "unloaded">> \/ ended' = <<c, "error">>
    BY <2>1 DEF CannotLoad, RefreshErrs, RewriteFails, AtOnce, End
  <2>2. ASSUME \/ NoSuchEntry \/ (\E e \in Ids : StartVerify(e)) \/ MarkVerified \/ MarkFails
               \/ UpdateInventoryCounts \/ InventoryCheck
        PROVE  cmd' # "none" \/ \E exit : ended' = <<"verify", exit>> \/ ended' = <<"check", exit>>
    BY <2>2 DEF NoSuchEntry, StartVerify, MarkVerified, MarkFails, UpdateInventoryCounts, InventoryCheck, Start, AtOnce, End
  <2>3. ASSUME StartSync \/ EmitCkv \/ EmitCkg \/ GenerateGlossary
        PROVE  cmd' # "none" \/ \E exit : ended' = <<"sync", exit>> \/ ended' = <<"glossary", exit>>
    BY <2>3 DEF StartSync, EmitCkv, EmitCkg, GenerateGlossary, Start, AtOnce, End
  <2>4. ASSUME StartExport \/ SweepFails \/ (\E e \in Ids : WriteDoc(e)) \/ FinishExport \/ ExportFails
        PROVE  cmd' # "none" \/ \E exit : ended' = <<"export", exit>>
    BY <2>4 DEF StartExport, SweepFails, WriteDoc, FinishExport, ExportFails, Start, AtOnce, End
  <2>. QED
    BY <1>6, <2>1, <2>2, <2>3, <2>4 DEF RefreshEndings
<1>. QED
  BY <1>1, <1>2, <1>3, <1>4, <1>5, <1>6 DEF Next, Command

(***************************************************************************)
(* What commands do to the entries.                                        *)
(***************************************************************************)
LEMMA PairCardinality ==
  ASSUME NEW S, IsFiniteSet(S), Cardinality(S) <= 1, NEW a \in S, NEW b \in S
  PROVE  a = b
<1>1. SUFFICES ASSUME a # b PROVE FALSE
  OBVIOUS
<1>2. Cardinality({a, b}) = 2 /\ {a, b} \subseteq S
  <2>1. IsFiniteSet({a}) /\ Cardinality({a}) = 1
    BY FS_Singleton, Zenon
  <2>2. Cardinality({a} \union {b}) = IF b \in {a} THEN Cardinality({a}) ELSE Cardinality({a}) + 1
    BY <2>1, FS_AddElement, Zenon
  <2>3. {a, b} = {a} \union {b} /\ b \notin {a} /\ {a, b} \subseteq S
    BY <1>1
  <2>4. Cardinality({a} \union {b}) = 2
    BY <2>1, <2>2, <2>3
  <2>. QED
    BY <2>3, <2>4, Zenon
<1>3. Cardinality({a, b}) <= Cardinality(S)
  BY <1>2, FS_Subset
<1>4. Cardinality(S) \in Nat
  BY FS_CardinalityType
<1>. QED
  BY <1>2, <1>3, <1>4

\* Valid looks at the status, the stamp and which files there are.
LEMMA ValidDependsOn ==
  ASSUME NEW es, NEW fs, NEW e \in Ids,
         \A x \in Ids : (fs[x].status = Deleted) <=> (es[x].status = Deleted),
         fs[e].status = es[e].status, fs[e].stamped = es[e].stamped
  PROVE  Valid(es, e) <=> Valid(fs, e)
BY DEF Valid, Files

LEMMA KeepsValid ==
  ASSUME TypeOK, WorkInv, Next
  PROVE  CommandsKeepValid
<1>. SUFFICES ASSUME cmd # "none", NEW e \in Files(entries), ~ entries'[e].lost,
                     Valid(entries, e) \/ entries'[e].status # entries[e].status
              PROVE  Valid(entries', e)
  BY DEF CommandsKeepValid, Idle
<1>1. entries \in [Ids -> Entry] /\ e \in Ids
  BY DEF TypeOK, Files
<1>2. CASE MarkVerified
  <2>1. entries' = simulated(entries, arg) /\ arg \in Files(entries) /\ Valid(simulated(entries, arg), arg)
    BY <1>2, Zenon DEF MarkVerified, simulated, WorkInv, Promoting
  <2>2. CASE e = arg
    BY <2>1, <2>2
  <2>3. CASE e # arg
    <3>1. \A x \in Ids \ {arg} : entries'[x] = entries[x]
      BY <1>1, <2>1 DEF simulated
    <3>2. entries'[arg].status = "verified" /\ arg \in Ids /\ entries[arg].status # Deleted
      BY <1>1, <2>1 DEF simulated, Files, Entry
    <3>3. \A x \in Ids : (entries'[x].status = Deleted) <=> (entries[x].status = Deleted)
      BY <3>1, <3>2 DEF Deleted
    <3>. QED
      BY <1>1, <2>3, <3>1, <3>3, ValidDependsOn
  <2>. QED
    BY <2>2, <2>3
<1>3. ASSUME \A x \in Ids : entries'[x].status = entries[x].status /\ entries'[x].stamped = entries[x].stamped
      PROVE  Valid(entries', e)
  BY <1>1, <1>3, ValidDependsOn
<1>4. CASE MarkFails \/ RewriteFails \/ \E x \in Ids : rewriteAnchorLines(x)
  <2>1. \A x \in Ids : entries'[x].status = entries[x].status /\ entries'[x].stamped = entries[x].stamped
    BY <1>1, <1>4 DEF MarkFails, RewriteFails, rewriteAnchorLines, Entry
  <2>. QED
    BY <1>3, <2>1
<1>5. ASSUME Author \/ Source PROVE FALSE
  BY <1>5 DEF Author, Source, Restore, Supersede, Rewrite, RemoveCode, MoveCode, Edit, Idle
<1>6. ASSUME \/ \E c \in {"verify", "check", "refresh", "sync", "export"} : CannotLoad(c)
             \/ NoSuchEntry \/ (\E x \in Ids : StartVerify(x)) \/ UpdateInventoryCounts
             \/ InventoryCheck \/ StartRefresh \/ RefreshErrs
             \/ StartSync \/ EmitCkv \/ EmitCkg \/ GenerateGlossary
             \/ StartExport \/ SweepFails \/ (\E x \in Ids : WriteDoc(x)) \/ FinishExport \/ ExportFails
      PROVE  entries' = entries
  BY <1>6 DEF CannotLoad, NoSuchEntry, StartVerify, UpdateInventoryCounts, InventoryCheck, StartRefresh, RefreshErrs,
              StartSync, EmitCkv, EmitCkg, GenerateGlossary, StartExport, SweepFails, WriteDoc, FinishExport, ExportFails
<1>. QED
  BY <1>2, <1>3, <1>4, <1>5, <1>6 DEF Next, Command

LEMMA KeepsMeaning ==
  ASSUME TypeOK, WorkInv, Next
  PROVE  RefreshKeepsMeaning
<1>. SUFFICES ASSUME cmd = "refresh", NEW s \in Slots,
                     entries'[OwnerOf[s]].lines[s] # entries[OwnerOf[s]].lines[s],
                     Unambiguous(OwnerOf[s]), code[MeantBy[s]] # 0
              PROVE  entries'[OwnerOf[s]].lines[s] = code[MeantBy[s]]
  BY DEF RefreshKeepsMeaning
<1>. DEFINE e == OwnerOf[s]
<1>1. entries \in [Ids -> Entry] /\ project \in [Ids -> Entry] /\ e \in Ids /\ code \in [Defs -> Nat]
  BY Inventory DEF TypeOK, Idle
<1>2. rewriteAnchorLines(e)
  <2>1. (\E x \in Ids : rewriteAnchorLines(x)) \/ RewriteFails
    BY DEF Next, Author, Source, Command, Restore, Supersede, Rewrite, RemoveCode, MoveCode, Edit, CannotLoad, NoSuchEntry,
           StartVerify, MarkVerified, MarkFails, UpdateInventoryCounts, InventoryCheck, StartRefresh, RefreshErrs, StartSync,
           EmitCkv, EmitCkg, GenerateGlossary, StartExport, SweepFails, WriteDoc, FinishExport, ExportFails, Start, AtOnce, Idle
  <2>2. ~ RewriteFails
    BY <1>1 DEF RewriteFails, Entry
  <2>3. \A x \in Ids \ {e} : ~ rewriteAnchorLines(x)
    BY <1>1 DEF rewriteAnchorLines, Entry
  <2>. QED
    BY <2>1, <2>2, <2>3
<1>3. entries'[e].lines[s] = UpdateFor(e, s)
  BY <1>1, <1>2 DEF rewriteAnchorLines, Entry
<1>4. PICK u \in AnchorsOf(e) : /\ updates[u] # 0 /\ FileAt(u) = FileAt(s) /\ NameAt[u] = NameAt[s]
                                /\ UpdateFor(e, s) = updates[u]
  BY <1>3 DEF UpdateFor, Matching
<1>5. PICK lower \in BOOLEAN : updates = Drift(project, lower)
  BY DEF WorkInv, Refreshing
<1>6. u \in Slots /\ updates[u] \in Found(u) /\ u \in Derived(project)
  BY <1>1, <1>4, <1>5, DriftLine DEF AnchorsOf
<1>7. code[MeantBy[s]] \in Found(u)
  <2>1. MeantBy[s] \in Defs /\ NameOf[MeantBy[s]] = NameAt[u]
    BY <1>4, <1>6, Inventory DEF Derived
  <2>. QED
    BY <1>4, <2>1 DEF Found, FindSymbol, FileAt
<1>8. Cardinality(Found(u)) <= 1 /\ IsFiniteSet(Found(u))
  <2>1. Cardinality(Found(u)) <= 1
    BY <1>4, <1>6 DEF Unambiguous, Derived
  <2>2. IsFiniteSet({d \in FindSymbol(NameAt[u]) : FileOf[d] = FileAt(u)})
    BY Lines, FS_Subset DEF FindSymbol
  <2>3. IsFiniteSet(Found(u))
    <3>. DEFINE D == {d \in FindSymbol(NameAt[u]) : FileOf[d] = FileAt(u)}
    <3>1. IsFiniteSet({code[d] : d \in D})
      <4>. DEFINE f == [d \in D |-> code[d]]
                  T == {code[d] : d \in D}
      <4>1. f \in Surjection(D, T)
        BY DEF Surjection
      <4>. QED
        BY <2>2, <4>1, FS_Surjection
    <3>. QED
      BY <3>1 DEF Found
  <2>. QED
    BY <2>1, <2>3
<1>. QED
  BY <1>3, <1>4, <1>6, <1>7, <1>8, PairCardinality

(***************************************************************************)
(* The theorems.                                                           *)
(***************************************************************************)
KnowledgeInv == TypeOK /\ WorkInv

LEMMA KnowledgeInvariant == Spec => []KnowledgeInv
<1>1. Init => KnowledgeInv
  BY TypeInit, WorkInit DEF KnowledgeInv
<1>2. KnowledgeInv /\ [Next]_vars => KnowledgeInv'
  BY TypeStep, WorkStep DEF KnowledgeInv, WorkInv
<1>. QED
  BY <1>1, <1>2, PTL DEF Spec

\* Whatever edits, failures and commands do, the project is well typed and a command
\* at work has loaded one of which every file parsed.
THEOREM KnowledgeTypeCorrect == Spec => []TypeOK
<1>1. KnowledgeInv => TypeOK
  BY DEF KnowledgeInv
<1>. QED
  BY <1>1, KnowledgeInvariant, PTL

\* Dashboard, policy views, glossary and corpus say what the entries say when the
\* command that wrote them ends well, and the corpus also when it fails.
THEOREM FreshSafe == Spec => []FreshOutputs
<1>1. Init => FreshOutputs
  <2>1. Init => ended = <<"none", "ok">>
    BY DEF Init
  <2>. QED
    BY <2>1 DEF FreshOutputs
<1>2. KnowledgeInv /\ FreshOutputs /\ [Next]_vars => FreshOutputs'
  BY FreshStep DEF KnowledgeInv
<1>. QED
  BY <1>1, <1>2, KnowledgeInvariant, PTL DEF Spec

\* A refresh that ends leaves every derived anchor that its rewriter can read on a
\* definition of its symbol, or says that it needs attention.
THEOREM ConvergesSafe == Spec => []RefreshConverges
<1>1. Init => RefreshConverges
  <2>1. Init => ended = <<"none", "ok">>
    BY DEF Init
  <2>. QED
    BY <2>1 DEF RefreshConverges
<1>2. KnowledgeInv /\ RefreshConverges /\ [Next]_vars => RefreshConverges'
  BY ConvergesStep DEF KnowledgeInv
<1>. QED
  BY <1>1, <1>2, KnowledgeInvariant, PTL DEF Spec

\* No command makes a valid entry invalid or promotes one into invalidity, and none
\* moves an anchor away from the only definition it can mean.
THEOREM CommandsSafe == Spec => CommandsKeepEntries
<1>1. KnowledgeInv /\ Next => CommandsKeepValid /\ RefreshKeepsMeaning
  BY KeepsValid, KeepsMeaning DEF KnowledgeInv
<1>2. Spec => [][Next]_vars
  BY PTL DEF Spec
<1>. QED
  BY <1>1, <1>2, KnowledgeInvariant, PTL DEF CommandsKeepEntries
=============================================================================
