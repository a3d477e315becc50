----------------------------- MODULE PartsProofs -----------------------------
(***************************************************************************)
(* The components that stand alone, for every value of their constants:    *)
(* the settings store, the desktop, the native engine, the serving of a    *)
(* range, the qBittorrent engine, the staging of a release and the cache   *)
(* of subtitles.  Each has an inductive invariant over its own variables,  *)
(* kept by its own steps; a step of another component leaves them alone.   *)
(* The invariants of the feed, the hub and the manager come from the       *)
(* modules of their own proofs; with them the whole instance is typed.     *)
(***************************************************************************)
EXTENDS MCParts, EventFeedProofs, PortalHubProofs, UpdateManagerProofs, Integers, FiniteSetTheorems,
        SequenceTheorems, WellFoundedInduction, TLAPS

\* Fairness is not needed for what follows.
LEMMA SpecSteps == Spec => Init /\ [][Next]_vars
  BY PTL DEF Spec
---------------------------------------------------------------------------
(* The settings store.                                                     *)

Layers == [base : S!Doc, value : S!Doc, provided : BOOLEAN, pc : {"ready", "written"}, next : S!Doc]

SettingsTyped ==
    /\ file \in S!Doc \cup {S!NoFile} /\ tmp \in S!Doc \cup {S!NoFile}
    /\ env \in [Store -> SUBSET S!Key]
    /\ stores \in [Store -> Layers]
    /\ view \in [Client -> S!Doc]
    /\ saves \in 0..MaxSaves /\ current \subseteq Store

\* The value in effect is that of the base, and a save under way keeps what it has to.
LayersFit(t, managed) ==
    /\ t.value \in {S!Overlay(t.base, managed), S!Anchor(S!Overlay(t.base, managed))}
    /\ t.pc = "written" =>
          /\ \A k \in managed : t.next[k] = t.base[k]
          /\ t.base["secret"] # "blank" => t.next["secret"] # "blank"

\* The layers are those of the file.
InStep(t) ==
    /\ t.base = S!Base(file)
    /\ t.provided => file # S!NoFile
    /\ file # S!NoFile => t.provided \/ t.base["secret"] = "blank"

SettingsInv ==
    /\ SettingsTyped
    /\ \A s \in Store : LayersFit(stores[s], env[s])
    /\ \A s \in current : InStep(stores[s])

\* The functions on documents.
LEMMA DocTypes ==
    /\ S!Defaults \in S!Doc /\ S!Defaults["secret"] = "blank" /\ S!NoFile \notin S!Doc
    /\ \A k \in S!Key : S!NoFile[k] = "none"
<1>1. S!Defaults = [k \in S!Key |-> IF k = "secret" THEN "blank" ELSE IF k = "path" THEN "rel" ELSE "default"]
  BY DEF S!Defaults, S!Key
<1>2. S!NoFile["plain"] = "none"
  BY DEF S!NoFile, S!Key
<1>3. \A f \in S!Doc : f["plain"] # "none"
  BY DEF S!Doc, S!Key, S!Value
<1> QED BY <1>1, <1>2, <1>3 DEF S!Doc, S!Key, S!Value, S!NoFile

LEMMA BaseType == ASSUME NEW f \in S!Doc \cup {S!NoFile} PROVE S!Base(f) \in S!Doc
  BY DocTypes DEF S!Base

LEMMA OverlayType ==
    ASSUME NEW d \in S!Doc, NEW managed \in SUBSET S!Key
    PROVE  /\ S!Overlay(d, managed) \in S!Doc
           /\ \A k \in S!Key : S!Overlay(d, managed)[k] = IF k \in managed THEN "env" ELSE d[k]
  BY DEF S!Overlay, S!Doc, S!Value

LEMMA AnchorType ==
    ASSUME NEW d \in S!Doc
    PROVE  /\ S!Anchor(d) \in S!Doc
           /\ \A k \in S!Key : S!Anchor(d)[k] = IF k = "path" /\ d[k] = "rel" THEN "abs" ELSE d[k]
<1>1. S!Anchor(d) = [d EXCEPT !["path"] = IF d["path"] = "rel" THEN "abs" ELSE d["path"]]
  BY DEF S!Anchor, S!Doc, S!Key
<1>2. PICK v \in S!Value : v = IF d["path"] = "rel" THEN "abs" ELSE d["path"]
  BY DEF S!Doc, S!Value, S!Key
<1> QED BY <1>1, <1>2 DEF S!Doc, S!Key

LEMMA RestoreType ==
    ASSUME NEW d \in S!Doc, NEW b \in S!Doc, NEW managed \in SUBSET S!Key
    PROVE  /\ S!Restore(d, b, managed) \in S!Doc
           /\ \A k \in S!Key : S!Restore(d, b, managed)[k] = IF k \in managed THEN b[k] ELSE d[k]
  BY DEF S!Restore, S!Doc

LEMMA MergeType ==
    ASSUME NEW d \in S!Doc, NEW old \in S!Doc
    PROVE  /\ S!Merge(d, old) \in S!Doc
           /\ \A k \in S!Key : S!Merge(d, old)[k] = IF k = "secret" /\ d[k] = "blank" THEN old[k] ELSE d[k]
<1>1. S!Merge(d, old) = [d EXCEPT !["secret"] = IF d["secret"] = "blank" THEN old["secret"] ELSE d["secret"]]
  BY DEF S!Merge, S!Doc, S!Key
<1>2. PICK v \in S!Value : v = IF d["secret"] = "blank" THEN old["secret"] ELSE d["secret"]
  BY DEF S!Doc, S!Key
<1> QED BY <1>1, <1>2 DEF S!Doc, S!Key

\* What the layers say of the secret.
LEMMA SecretInEffect ==
    ASSUME NEW managed \in SUBSET S!Key, NEW t \in Layers, LayersFit(t, managed)
    PROVE  t.value["secret"] = IF "secret" \in managed THEN "env" ELSE t.base["secret"]
<1>1. "secret" \in S!Key /\ t.base \in S!Doc
  BY DEF S!Key, Layers
<1>2. PICK d : d = S!Overlay(t.base, managed)
  OBVIOUS
<1>3. d \in S!Doc /\ d["secret"] = IF "secret" \in managed THEN "env" ELSE t.base["secret"]
  BY <1>1, <1>2, OverlayType
<1>4. S!Anchor(d)["secret"] = d["secret"]
  BY <1>1, <1>3, AnchorType
<1> QED BY <1>2, <1>3, <1>4 DEF LayersFit

\* A start builds the layers of the file.
LEMMA LoadedFits ==
    ASSUME NEW f \in S!Doc \cup {S!NoFile}, NEW managed \in SUBSET S!Key
    PROVE  /\ S!Loaded(f, managed) \in Layers
           /\ S!Loaded(f, managed).base = S!Base(f)
           /\ S!Loaded(f, managed).value = S!Anchor(S!Overlay(S!Base(f), managed))
           /\ S!Loaded(f, managed).provided <=> f # S!NoFile
           /\ S!Loaded(f, managed).pc = "ready"
           /\ LayersFit(S!Loaded(f, managed), managed)
<1>1. PICK b \in S!Doc : b = S!Base(f)
  BY BaseType
<1>2. PICK v \in S!Doc : v = S!Anchor(S!Overlay(b, managed))
  BY OverlayType, AnchorType
<1>3. PICK provided \in BOOLEAN : provided = (f # S!NoFile)
  OBVIOUS
<1>4. S!Loaded(f, managed) = [base |-> b, value |-> v, provided |-> provided, pc |-> "ready", next |-> b]
  BY <1>1, <1>2, <1>3 DEF S!Loaded
<1>5. PICK l : l = S!Loaded(f, managed)
  OBVIOUS
<1>6. l \in Layers /\ l.base = b /\ l.value = v /\ l.provided = provided /\ l.pc = "ready"
  BY <1>4, <1>5 DEF Layers
<1>7. LayersFit(l, managed)
  BY <1>1, <1>2, <1>6 DEF LayersFit
<1> QED BY <1>1, <1>2, <1>3, <1>5, <1>6, <1>7

LEMMA SettingsInitially == S!SettingsInit => SettingsInv
<1> SUFFICES ASSUME S!SettingsInit PROVE SettingsInv
  OBVIOUS
<1>1. PICK d : d = [S!Defaults EXCEPT !.secret = "mine"]
  OBVIOUS
<1>2. d = [S!Defaults EXCEPT !["secret"] = "mine"]
  BY <1>1
<1>3. d \in S!Doc
  BY <1>2, DocTypes DEF S!Doc, S!Key, S!Value
<1>4. file \in S!Doc \cup {S!NoFile} /\ env \in [Store -> SUBSET S!Key] /\ tmp = S!NoFile
  BY <1>1, <1>3, DocTypes, StoreAssumption DEF S!SettingsInit
<1>5. ASSUME NEW s \in Store PROVE stores[s] \in Layers /\ LayersFit(stores[s], env[s]) /\ InStep(stores[s])
  <2>1. PICK t : t = S!Loaded(file, env[s]) /\ stores[s] = t
    BY DEF S!SettingsInit
  <2>2. /\ t \in Layers /\ (t.provided <=> file # S!NoFile) /\ t.base = S!Base(file)
        /\ LayersFit(t, env[s])
    BY <1>4, <2>1, LoadedFits
  <2>3. InStep(t)
    BY <2>2 DEF InStep
  <2> QED BY <2>1, <2>2, <2>3
<1>6. stores \in [Store -> Layers]
  BY <1>5 DEF S!SettingsInit
<1>7. view \in [Client -> S!Doc] /\ saves \in 0..MaxSaves /\ current = Store
  BY DocTypes, StoreAssumption DEF S!SettingsInit
<1> QED BY <1>4, <1>5, <1>6, <1>7 DEF SettingsInv, SettingsTyped

LEMMA LoadKeeps == ASSUME SettingsInv, NEW s \in Store, S!Load(s) PROVE SettingsInv'
<1>1. PICK managed \in SUBSET S!Key : /\ env' = [env EXCEPT ![s] = managed]
                                     /\ stores' = [stores EXCEPT ![s] = S!Loaded(file, managed)]
  BY StoreAssumption DEF S!Load
<1>2. /\ UNCHANGED <<file, tmp, view, saves>> /\ file \in S!Doc \cup {S!NoFile}
      /\ current' = current \cup {s}
  BY DEF S!Load, SettingsInv, SettingsTyped
<1>3. PICK t : t = S!Loaded(file, managed)
  OBVIOUS
<1>4. /\ t \in Layers /\ (t.provided <=> file # S!NoFile) /\ t.base = S!Base(file)
      /\ LayersFit(t, managed)
  BY <1>2, <1>3, LoadedFits
<1>5. stores' = [stores EXCEPT ![s] = t]
  BY <1>1, <1>3
<1>6. SettingsTyped'
  BY <1>1, <1>2, <1>4, <1>5 DEF SettingsInv, SettingsTyped
<1>7. ASSUME NEW r \in Store PROVE LayersFit(stores'[r], env'[r])
  BY <1>1, <1>4, <1>5 DEF SettingsInv, SettingsTyped
<1>8. ASSUME NEW r \in current' PROVE InStep(stores[r])'
  <2>1. CASE r = s
    BY <1>2, <1>4, <1>5, <2>1 DEF SettingsInv, SettingsTyped, InStep
  <2>2. CASE r # s
    BY <1>2, <1>5, <1>8, <2>2 DEF SettingsInv, SettingsTyped, InStep
  <2> QED BY <2>1, <2>2
<1>9. \A r \in Store : LayersFit(stores[r], env[r])'
  BY <1>7 DEF LayersFit
<1> QED BY <1>6, <1>8, <1>9 DEF SettingsInv

LEMMA GetSettingsKeeps ==
    ASSUME SettingsInv, NEW c \in Client, NEW s \in Store, S!GetSettings(c, s)
    PROVE  SettingsInv'
<1>1. UNCHANGED <<file, tmp, env, stores, saves, current>> /\ view' = [view EXCEPT ![c] = S!Redacted(stores[s].value)]
  BY DEF S!GetSettings
<1>2. PICK d \in S!Doc : d = stores[s].value
  BY DEF SettingsInv, SettingsTyped, Layers
<1>3. S!Redacted(d) = [d EXCEPT !["secret"] = "blank"]
  BY DEF S!Redacted
<1>4. S!Redacted(d) \in S!Doc
  BY <1>3 DEF S!Doc, S!Key, S!Value
<1>5. view' \in [Client -> S!Doc]
  BY <1>1, <1>2, <1>4 DEF SettingsInv, SettingsTyped
<1> QED BY <1>1, <1>5 DEF SettingsInv, SettingsTyped, LayersFit, InStep

\* A save keeps what the environment manages, and a secret.
LEMMA BeginSaveKeeps ==
    ASSUME SettingsInv, NEW s \in Store, NEW d \in S!Doc, S!BeginSave(s, d)
    PROVE  SettingsInv'
<1>1. PICK t \in Layers : t = stores[s]
  BY DEF SettingsInv, SettingsTyped
<1>2. PICK managed \in SUBSET S!Key : managed = env[s] /\ LayersFit(t, managed)
  BY <1>1 DEF SettingsInv, SettingsTyped
<1>3. PICK m : m = S!Merge(d, t.value)
  OBVIOUS
<1>4. /\ t.base \in S!Doc /\ t.value \in S!Doc
      /\ m \in S!Doc
      /\ \A k \in S!Key : m[k] = IF k = "secret" /\ d[k] = "blank" THEN t.value[k] ELSE d[k]
  BY <1>3, MergeType DEF Layers
<1>5. PICK n : n = S!Restore(m, t.base, managed)
  OBVIOUS
<1>6. n \in S!Doc /\ \A k \in S!Key : n[k] = IF k \in managed THEN t.base[k] ELSE m[k]
  BY <1>2, <1>4, <1>5, RestoreType
<1>7. /\ tmp' = n /\ stores' = [stores EXCEPT ![s].pc = "written", ![s].next = n]
      /\ saves < MaxSaves /\ saves' = saves + 1 /\ UNCHANGED <<file, env, view, current>>
  BY <1>1, <1>2, <1>3, <1>5 DEF S!BeginSave, S!Persisted
<1>8. t.base["secret"] # "blank" => n["secret"] # "blank"
  <2>1. "secret" \in S!Key
    BY DEF S!Key
  <2>2. t.value["secret"] = IF "secret" \in managed THEN "env" ELSE t.base["secret"]
    BY <1>2, SecretInEffect
  <2>3. CASE "secret" \in managed
    BY <1>6, <2>1, <2>3
  <2>4. CASE "secret" \notin managed
    BY <1>4, <1>6, <2>1, <2>2, <2>4
  <2> QED BY <2>3, <2>4
<1>9. PICK u : u = [t EXCEPT !.pc = "written", !.next = n]
  OBVIOUS
<1>10. u \in Layers /\ u.pc = "written" /\ u.next = n
       /\ u.base = t.base /\ u.value = t.value /\ u.provided = t.provided
  BY <1>6, <1>9 DEF Layers
<1>11. stores' = [stores EXCEPT ![s] = u]
  BY <1>1, <1>7, <1>9 DEF SettingsInv, SettingsTyped
<1>12. LayersFit(u, managed)
  BY <1>2, <1>6, <1>8, <1>10 DEF LayersFit
<1>13. stores' \in [Store -> Layers] /\ \A r \in Store : stores'[r] = IF r = s THEN u ELSE stores[r]
  BY <1>10, <1>11 DEF SettingsInv, SettingsTyped
<1>14. \A r \in Store : LayersFit(stores[r], env[r])'
  <2>1. \A r \in Store : LayersFit(stores'[r], env'[r])
    BY <1>2, <1>7, <1>12, <1>13 DEF SettingsInv
  <2> QED BY <2>1 DEF LayersFit
<1>15. saves' \in 0..MaxSaves
  BY <1>7, StoreAssumption DEF SettingsInv, SettingsTyped
<1>16. SettingsTyped'
  BY <1>6, <1>7, <1>13, <1>15 DEF SettingsInv, SettingsTyped
<1>17. InStep(t) => InStep(u)'
  BY <1>7, <1>10 DEF InStep
<1>18. ASSUME NEW r \in current' PROVE InStep(stores[r])'
  <2>1. r \in current /\ r \in Store /\ InStep(stores[r])
    BY <1>7, <1>18 DEF SettingsInv, SettingsTyped
  <2>2. CASE r = s
    BY <1>1, <1>13, <1>17, <2>1, <2>2 DEF InStep
  <2>3. CASE r # s
    BY <1>7, <1>13, <2>1, <2>3 DEF InStep
  <2> QED BY <2>2, <2>3
<1> QED BY <1>14, <1>16, <1>18 DEF SettingsInv

\* The documents that are saved: what a page sends back with one field edited, and
\* the effective document with an answer or a tool.
LEMMA SavesKeep ==
    ASSUME SettingsInv, NEW s \in Store,
           S!PromptRequired(s) \/ S!ResolveMediaTools(s) \/ \E c \in Client : S!PutSettings(c, s)
    PROVE  SettingsInv'
<1>1. PICK d \in S!Doc : d = stores[s].value
  BY DEF SettingsInv, SettingsTyped, Layers
<1>2. \A k \in S!Key, v \in S!Value : [d EXCEPT ![k] = v] \in S!Doc
  BY DEF S!Doc
<1>3. CASE S!PromptRequired(s)
  <2>1. PICK answer \in {"blank", "mine"} : S!BeginSave(s, [d EXCEPT !["secret"] = answer])
    BY <1>1, <1>3 DEF S!PromptRequired
  <2>2. [d EXCEPT !["secret"] = answer] \in S!Doc
    BY <1>2 DEF S!Key, S!Value
  <2> QED BY <2>1, <2>2, BeginSaveKeeps
<1>4. CASE S!ResolveMediaTools(s)
  <2>1. S!BeginSave(s, [d EXCEPT !["plain"] = "mine"])
    BY <1>1, <1>4 DEF S!ResolveMediaTools
  <2>2. [d EXCEPT !["plain"] = "mine"] \in S!Doc
    BY <1>2 DEF S!Key, S!Value
  <2> QED BY <2>1, <2>2, BeginSaveKeeps
<1>5. ASSUME NEW c \in Client, S!PutSettings(c, s) PROVE SettingsInv'
  <2>1. PICK e \in S!Doc : e = view[c]
    BY DEF SettingsInv, SettingsTyped
  <2>2. PICK edit : /\ edit \in {e} \cup {[e EXCEPT ![k] = v] : k \in {"secret", "plain"}, v \in {"mine", "bad"}}
                    /\ S!BeginSave(s, edit)
    BY <1>5, <2>1 DEF S!PutSettings
  <2>3. ASSUME NEW k \in {"secret", "plain"}, NEW v \in {"mine", "bad"} PROVE [e EXCEPT ![k] = v] \in S!Doc
    BY <1>2, <2>1 DEF S!Doc, S!Key, S!Value
  <2>4. CASE edit = e
    BY <2>2, <2>4, BeginSaveKeeps
  <2>5. ASSUME NEW k \in {"secret", "plain"}, NEW v \in {"mine", "bad"}, edit = [e EXCEPT ![k] = v]
        PROVE  SettingsInv'
    <3>1. edit \in S!Doc
      BY <2>3, <2>5
    <3>2. S!BeginSave(s, edit)
      BY <2>2
    <3> QED BY <3>1, <3>2, BeginSaveKeeps
  <2> QED BY <2>2, <2>4, <2>5
<1> QED BY <1>3, <1>4, <1>5

LEMMA FinishSaveKeeps == ASSUME SettingsInv, NEW s \in Store, S!FinishSave(s) PROVE SettingsInv'
<1>1. PICK t \in Layers : t = stores[s]
  BY DEF SettingsInv, SettingsTyped
<1>2. PICK managed \in SUBSET S!Key : managed = env[s] /\ LayersFit(t, managed)
  BY <1>1 DEF SettingsInv, SettingsTyped
<1>3. /\ t.pc = "written" /\ tmp # S!NoFile /\ file' = tmp /\ tmp' = S!NoFile
      /\ UNCHANGED <<env, view, saves>>
      /\ current' = IF tmp = t.next THEN {s} ELSE {}
      /\ stores' = [stores EXCEPT ![s] =
            [base |-> t.next, value |-> S!Effective(t.next, managed),
             provided |-> t.provided \/ t.next.secret # "blank", pc |-> "ready", next |-> t.next]]
  BY <1>1, <1>2 DEF S!FinishSave, S!Writes, SettingsInv, SettingsTyped
<1>4. t.next \in S!Doc /\ tmp \in S!Doc
  BY <1>3 DEF Layers, SettingsInv, SettingsTyped
<1>5. PICK v \in S!Doc : v = S!Overlay(t.next, managed)
  BY <1>2, <1>4, OverlayType
<1>6. PICK provided \in BOOLEAN : provided = (t.provided \/ t.next["secret"] # "blank")
  BY DEF Layers
<1>7. PICK u : u = [base |-> t.next, value |-> v, provided |-> provided, pc |-> "ready", next |-> t.next]
  OBVIOUS
<1>8. /\ u \in Layers /\ u.base = t.next /\ u.value = v /\ u.provided = provided /\ u.pc = "ready"
  BY <1>4, <1>7 DEF Layers
<1>9. stores' = [stores EXCEPT ![s] = u]
  BY <1>3, <1>5, <1>6, <1>7 DEF S!Effective
<1>10. file' \in S!Doc /\ file' # S!NoFile /\ S!Base(file') = tmp
  BY <1>3, <1>4, DocTypes DEF S!Base
<1>11. LayersFit(u, managed)
  BY <1>5, <1>8 DEF LayersFit
<1>12. u.provided \/ u.base["secret"] = "blank"
  BY <1>6, <1>8
<1>13. stores' \in [Store -> Layers] /\ \A r \in Store : stores'[r] = IF r = s THEN u ELSE stores[r]
  BY <1>8, <1>9 DEF SettingsInv, SettingsTyped
<1>14. \A r \in Store : LayersFit(stores[r], env[r])'
  <2>1. \A r \in Store : LayersFit(stores'[r], env'[r])
    BY <1>2, <1>3, <1>11, <1>13 DEF SettingsInv
  <2> QED BY <2>1 DEF LayersFit
<1>15. \A r \in current' : InStep(stores[r])'
  BY <1>3, <1>8, <1>10, <1>12, <1>13 DEF InStep
<1>16. SettingsTyped'
  BY <1>3, <1>10, <1>13 DEF SettingsInv, SettingsTyped
<1> QED BY <1>14, <1>15, <1>16 DEF SettingsInv

\* A rename that finds nothing leaves the layers as they were.
LEMMA FailSaveKeeps == ASSUME SettingsInv, NEW s \in Store, S!FailSave(s) PROVE SettingsInv'
<1>1. PICK t \in Layers : t = stores[s]
  BY DEF SettingsInv, SettingsTyped
<1>2. PICK b \in S!Doc : b = t.base
  BY DEF Layers
<1>3. PICK u : u = [t EXCEPT !.pc = "ready", !.next = b]
  OBVIOUS
<1>4. /\ u \in Layers /\ u.pc = "ready" /\ u.base = t.base /\ u.value = t.value /\ u.provided = t.provided
  BY <1>2, <1>3 DEF Layers
<1>5. UNCHANGED <<file, tmp, env, view, saves, current>> /\ stores' = [stores EXCEPT ![s] = u]
  BY <1>1, <1>2, <1>3 DEF S!FailSave, SettingsInv, SettingsTyped
<1>6. stores' \in [Store -> Layers] /\ \A r \in Store : stores'[r] = IF r = s THEN u ELSE stores[r]
  BY <1>4, <1>5 DEF SettingsInv, SettingsTyped
<1>7. SettingsTyped'
  BY <1>5, <1>6 DEF SettingsInv, SettingsTyped
<1>8. \A m : LayersFit(t, m) => LayersFit(u, m)
  BY <1>4 DEF LayersFit
<1>9. \A r \in Store : LayersFit(stores[r], env[r])'
  <2>1. \A r \in Store : LayersFit(stores'[r], env'[r])
    BY <1>1, <1>5, <1>6, <1>8 DEF SettingsInv
  <2> QED BY <2>1 DEF LayersFit
<1>10. ASSUME NEW r \in current' PROVE InStep(stores[r])'
  <2>1. r \in Store /\ InStep(stores[r])
    BY <1>5, <1>10 DEF SettingsInv, SettingsTyped
  <2>2. CASE r = s
    BY <1>1, <1>4, <1>5, <1>6, <2>1, <2>2 DEF InStep
  <2>3. CASE r # s
    BY <1>5, <1>6, <2>1, <2>3 DEF InStep
  <2> QED BY <2>2, <2>3
<1> QED BY <1>7, <1>9, <1>10 DEF SettingsInv

LEMMA SettingsKept == SettingsInv /\ S!SettingsNext => SettingsInv'
  BY LoadKeeps, SavesKeep, FinishSaveKeeps, FailSaveKeeps, GetSettingsKeeps DEF S!SettingsNext

LEMMA SettingsKeptAtRest == SettingsInv /\ UNCHANGED settingsAll => SettingsInv'
  BY DEF SettingsInv, SettingsTyped, LayersFit, InStep, settingsAll

LEMMA SettingsSteps == [Next]_vars => S!SettingsNext \/ UNCHANGED settingsAll
  BY DEF Next, Only, vars

LEMMA SettingsInductive == Init /\ [][Next]_vars => []SettingsInv
<1>1. Init => SettingsInv
  BY SettingsInitially DEF Init
<1>2. SettingsInv /\ [Next]_vars => SettingsInv'
  BY SettingsKept, SettingsKeptAtRest, SettingsSteps
<1> QED BY <1>1, <1>2, PTL

LEMMA SettingsTypes == Spec => [](part = "settings" => S!SettingsTypeOK)
<1>1. SettingsInv => S!SettingsTypeOK
  BY DEF SettingsInv, SettingsTyped, S!SettingsTypeOK, Layers
<1> QED BY <1>1, SettingsInductive, SpecSteps, PTL

\* However many stores share the file, whatever the pages send, the environments of
\* the processes and wherever they end: the settings in effect in a store since whose
\* load or save no other saved are those the next start builds from the file, and it
\* asks for the same keys.
THEOREM ReloadsSame == Spec => []ReloadSame
<1>1. SettingsInv => ReloadSame
  <2> SUFFICES ASSUME SettingsInv, NEW s \in current, stores[s].pc = "ready"
               PROVE  /\ \A k \in S!Key : stores[s].value[k] # "rel" =>
                                          stores[s].value[k] = S!Loaded(file, env[s]).value[k]
                      /\ S!Missing(stores[s], env[s]) <=> S!Missing(S!Loaded(file, env[s]), env[s])
    BY DEF ReloadSame, S!ReloadSame
  <2>1. s \in Store /\ \E t \in Layers : t = stores[s]
    BY DEF SettingsInv, SettingsTyped
  <2>a. PICK t \in Layers : t = stores[s]
    BY <2>1
  <2>b. PICK managed \in SUBSET S!Key : managed = env[s]
    BY <2>1 DEF SettingsInv, SettingsTyped
  <2>2. LayersFit(t, managed) /\ InStep(t) /\ file \in S!Doc \cup {S!NoFile}
    BY <2>1, <2>a, <2>b DEF SettingsInv, SettingsTyped
  <2>3. PICK l : l = S!Loaded(file, managed)
    OBVIOUS
  <2>4. PICK d \in S!Doc : d = S!Overlay(t.base, managed)
    BY <2>2, OverlayType DEF Layers
  <2>5. /\ l \in Layers /\ l.base = t.base /\ l.value = S!Anchor(d) /\ (l.provided <=> file # S!NoFile)
        /\ LayersFit(l, managed)
    BY <2>2, <2>3, <2>4, LoadedFits DEF InStep
  <2>6. \A k \in S!Key : t.value[k] # "rel" => t.value[k] = l.value[k]
    <3>1. \A k \in S!Key : S!Anchor(d)[k] = IF k = "path" /\ d[k] = "rel" THEN "abs" ELSE d[k]
      BY <2>4, AnchorType
    <3>2. t.value = d \/ t.value = S!Anchor(d)
      BY <2>2, <2>4 DEF LayersFit
    <3> QED BY <2>5, <3>1, <3>2
  <2>7. t.value["secret"] = IF "secret" \in managed THEN "env" ELSE t.base["secret"]
    BY <2>2, SecretInEffect
  <2>8. l.value["secret"] = IF "secret" \in managed THEN "env" ELSE t.base["secret"]
    BY <2>5, SecretInEffect
  <2>9. "secret" \notin managed /\ ~(t.provided <=> l.provided) => t.base["secret"] = "blank"
    BY <2>2, <2>5 DEF InStep
  <2>10. S!Missing(t, managed) <=> S!Missing(l, managed)
    BY <2>7, <2>8, <2>9 DEF S!Missing
  <2> QED BY <2>a, <2>b, <2>3, <2>6, <2>10
<1> QED BY <1>1, SettingsInductive, SpecSteps, PTL

\* A store since whose load or save no other saved leaves what its environment manages
\* as the file had it, and never replaces a secret by the blank a page sends back for
\* it, unless another store wrote the temporary file in between.
THEOREM SavesKeepSecrets == Spec => SaveKeeps
<1> DEFINE Kept(s) == S!Writes(s) /\ tmp = stores[s].next /\ file' # file /\ stores'[s] # stores[s] =>
                        /\ \A k \in env[s] : S!Base(file')[k] = S!Base(file)[k]
                        /\ S!Base(file).secret # "blank" => S!Base(file').secret # "blank"
<1>1. SettingsInv /\ [Next]_vars => [\A s \in current : Kept(s)]_S!settingsVars
  <2> SUFFICES ASSUME SettingsInv, [Next]_vars, NEW s \in current,
                      S!Writes(s), tmp = stores[s].next, file' # file
               PROVE  /\ \A k \in env[s] : S!Base(file')[k] = S!Base(file)[k]
                      /\ S!Base(file).secret # "blank" => S!Base(file').secret # "blank"
    OBVIOUS
  <2>1. file' = tmp
    <3>1. S!SettingsNext
      BY SettingsSteps DEF settingsAll
    <3>2. \A r, d : ~S!Load(r) /\ ~S!FailSave(r) /\ ~S!BeginSave(r, d)
      BY DEF S!Load, S!FailSave, S!BeginSave
    <3>3. \A r \in Store : ~S!PromptRequired(r) /\ ~S!ResolveMediaTools(r)
      BY <3>2 DEF S!PromptRequired, S!ResolveMediaTools
    <3>4. \A c \in Client, r \in Store : ~S!GetSettings(c, r) /\ ~S!PutSettings(c, r)
      BY <3>2 DEF S!GetSettings, S!PutSettings
    <3> QED BY <3>1, <3>2, <3>3, <3>4 DEF S!SettingsNext, S!FinishSave
  <2>2. s \in Store
    BY DEF SettingsInv, SettingsTyped
  <2>3. PICK t \in Layers : t = stores[s]
    BY <2>2 DEF SettingsInv, SettingsTyped
  <2>4. t.pc = "written" /\ LayersFit(t, env[s]) /\ InStep(t)
    BY <2>2, <2>3 DEF SettingsInv, S!Writes
  <2>5. file' = t.next /\ t.next \in S!Doc /\ t.base = S!Base(file)
    BY <2>1, <2>3, <2>4 DEF InStep, Layers
  <2>6. S!Base(file') = t.next
    BY <2>5, DocTypes DEF S!Base
  <2> QED BY <2>4, <2>5, <2>6 DEF LayersFit
<1> QED BY <1>1, SettingsInductive, SpecSteps, PTL DEF SaveKeeps, S!SaveKeeps
---------------------------------------------------------------------------
(* The desktop.                                                            *)

Supervisor == [state : D!State, app : App \cup {0}]
Server == [pc : D!AppPC, dir : Dir, open : BOOLEAN]
Holder == [dir : Dir, complete : BOOLEAN, moving : BOOLEAN]
Disk == [present : SUBSET Dir, complete : SUBSET Dir]
Task == [pc : D!TaskPC, op : {"none", "stop", "restart", "save", "change"},
         was : BOOLEAN, app : App \cup {0}, to : Dir]

DesktopTyped ==
    /\ sup \in Supervisor
    /\ apps \in [App -> Server]
    /\ holder \in Holder
    /\ disk \in Disk
    /\ task \in [Caller -> Task]

Closing == {"close", "stopped"}
Swapping == {"move", "remap", "commit"}
Relocating == Swapping \cup {"look", "stop", "autostart"}

\* A call that moves the directory holds the guard, one that closes the server is
\* the reason why the supervisor is stopping, and the directory moves only while
\* nothing runs or starts.
TaskFits(c, t) ==
    /\ t.op = "change" => c \in Mover
    /\ t.pc \in Relocating \cup {"resume", "resumed"} => t.op = "change"
    /\ t.pc \in Relocating => holder.moving
    /\ t.pc \in Closing /\ t.op = "change" => holder.moving
    /\ t.pc \in Closing => sup.state = "stopping"
    /\ t.pc \in Swapping => sup.state \in {"stopped", "failed"}

TasksFit == \A c \in Caller : TaskFits(c, task[c])
OneCloses == \A c, d \in Caller : task[c].pc \in Closing /\ task[d].pc \in Closing => c = d

\* One server at a time is constructed, while the supervisor is starting, and what
\* is composed or runs is of the directory the bindings hold.
Constructing == {"construct", "create"}
Driven == {"serving", "failing"}

AppsFit ==
    /\ \A a \in App : /\ apps[a].pc \in Constructing => sup.state = "starting"
                      /\ apps[a].pc = "create" => apps[a].dir = holder.dir
    /\ \A a, b \in App : apps[a].pc \in Constructing /\ apps[b].pc \in Constructing => a = b
    /\ sup.state = "running" => /\ sup.app \in App
                                /\ apps[sup.app].dir = holder.dir /\ apps[sup.app].pc \in Driven

DesktopInv == DesktopTyped /\ TasksFit /\ OneCloses /\ AppsFit

\* A call goes on and the servers are left alone.
LEMMA CallKeeps ==
    ASSUME DesktopInv, NEW c \in Caller, NEW t \in Task, task' = [task EXCEPT ![c] = t],
           sup' = sup, apps' = apps, disk' \in Disk,
           holder' \in Holder, holder'.dir = holder.dir,
           holder.moving => holder'.moving \/ c \in Mover,
           TaskFits(c, t)', t.pc \in Closing => task[c].pc \in Closing
    PROVE  DesktopInv'
<1>1. task' \in [Caller -> Task] /\ task'[c] = t /\ \A d \in Caller \ {c} : task'[d] = task[d]
  BY DEF DesktopInv, DesktopTyped
<1>2. DesktopTyped'
  BY <1>1 DEF DesktopInv, DesktopTyped
<1>3. AppsFit'
  BY DEF DesktopInv, AppsFit
<1>4. OneCloses'
  BY <1>1 DEF DesktopInv, OneCloses
<1>5. ASSUME NEW d \in Caller PROVE TaskFits(d, task[d])'
  <2>1. CASE d = c
    BY <1>1, <2>1 DEF TaskFits
  <2>2. CASE d # c
    <3>1. TaskFits(d, task[d])
      BY DEF DesktopInv, TasksFit
    <3>2. d \in Mover /\ holder.moving => holder'.moving
      BY <2>2, DesktopAssumption
    <3> QED BY <1>1, <2>2, <3>1, <3>2 DEF TaskFits
  <2> QED BY <2>1, <2>2
<1> QED BY <1>2, <1>3, <1>4, <1>5 DEF DesktopInv, TasksFit

\* A call whose record does not change.
LEMMA Waits ==
    ASSUME DesktopInv, NEW c \in Caller,
           sup'.state = sup.state \/ sup.state \in {"starting", "running"}
                \/ (sup.state \in {"stopped", "failed"} /\ ~holder.moving),
           holder'.moving = holder.moving, task'[c] = task[c]
    PROVE  TaskFits(c, task[c])'
<1>1. TaskFits(c, task[c])
  BY DEF DesktopInv, TasksFit
<1> QED BY <1>1 DEF TaskFits, Closing, Swapping, Relocating

\* The goroutine of a server takes a step.
LEMMA ServerKeeps ==
    ASSUME DesktopInv, NEW a \in App, NEW s \in Server, apps' = [apps EXCEPT ![a] = s],
           sup' \in Supervisor, disk' \in Disk, holder' = holder, task' = task,
           sup'.state = sup.state \/ sup.state \in {"starting", "running"},
           AppsFit'
    PROVE  DesktopInv'
<1>1. DesktopTyped'
  BY DEF DesktopInv, DesktopTyped
<1>2. OneCloses'
  BY DEF DesktopInv, OneCloses
<1>3. \A c \in Caller : TaskFits(c, task[c])'
  BY Waits
<1> QED BY <1>1, <1>2, <1>3 DEF DesktopInv, TasksFit

LEMMA ReadStoreKeeps == ASSUME DesktopInv, NEW a \in App, D!ReadStore(a) PROVE DesktopInv'
<1>1. /\ apps[a].pc = "construct" /\ apps' = [apps EXCEPT ![a].pc = "create", ![a].dir = holder.dir]
      /\ sup' = sup /\ disk' = disk /\ holder' = holder /\ task' = task
  BY DEF D!ReadStore, D!FactoryDir
<1>2. PICK r \in Server : r = apps[a]
  BY DEF DesktopInv, DesktopTyped
<1>3. PICK dir \in Dir : dir = holder.dir
  BY DEF DesktopInv, DesktopTyped, Holder
<1>4. PICK s : s = [r EXCEPT !.pc = "create", !.dir = dir]
  OBVIOUS
<1>5. s \in Server /\ s.pc = "create" /\ s.dir = dir
  BY <1>2, <1>3, <1>4 DEF Server, D!AppPC
<1>6. apps' = [apps EXCEPT ![a] = s]
  BY <1>1, <1>2, <1>3, <1>4 DEF DesktopInv, DesktopTyped
<1>7. apps'[a] = s /\ \A b \in App \ {a} : apps'[b] = apps[b]
  BY <1>6 DEF DesktopInv, DesktopTyped
<1>8. AppsFit'
  <2>1. AppsFit
    BY DEF DesktopInv
  <2>2. \A b \in App : apps'[b].pc \in Constructing => apps[b].pc \in Constructing
    BY <1>1, <1>7 DEF Constructing
  <2>3. \A b \in App : apps'[b].dir = apps[b].dir \/ apps'[b].dir = holder.dir
    BY <1>3, <1>5, <1>7
  <2>4. \A b \in App : apps'[b].pc = "create" => apps'[b].dir = holder.dir
    BY <1>3, <1>5, <1>7, <2>1 DEF AppsFit
  <2>5. sup.state # "running"
    BY <1>1, <2>1 DEF AppsFit, Constructing
  <2> QED BY <1>1, <2>1, <2>2, <2>3, <2>4, <2>5 DEF AppsFit
<1> QED BY <1>1, <1>5, <1>6, <1>8, ServerKeeps DEF DesktopInv, DesktopTyped

\* The goroutines that only change where they are.
LEMMA PcKeeps ==
    ASSUME DesktopInv, NEW a \in App, NEW pc \in D!AppPC, apps' = [apps EXCEPT ![a].pc = pc],
           sup' \in Supervisor, disk' \in Disk, holder' = holder, task' = task,
           sup'.state = sup.state \/ sup.state \in {"starting", "running"},
           pc \notin Constructing,
           sup' = sup \/ sup'.state = "failed",
           sup' = sup \/ apps[a].pc \in Constructing \/ sup.state = "running",
           sup' = sup => pc = "failing" \/ sup.state # "running"
    PROVE  DesktopInv'
<1>1. PICK r \in Server : r = apps[a]
  BY DEF DesktopInv, DesktopTyped
<1>2. PICK s : s = [r EXCEPT !.pc = pc]
  OBVIOUS
<1>3. s \in Server /\ s.pc = pc /\ s.dir = r.dir
  BY <1>1, <1>2 DEF Server
<1>4. apps' = [apps EXCEPT ![a] = s]
  BY <1>1, <1>2 DEF DesktopInv, DesktopTyped
<1>5. apps'[a] = s /\ \A b \in App \ {a} : apps'[b] = apps[b]
  BY <1>4 DEF DesktopInv, DesktopTyped
<1>6. AppsFit'
  <2>1. AppsFit
    BY DEF DesktopInv
  <2>2. \A b \in App : apps'[b].pc \in Constructing => b # a /\ apps[b].pc \in Constructing
    BY <1>3, <1>5
  <2>3. \A b \in App : apps'[b].dir = apps[b].dir
    BY <1>1, <1>3, <1>5
  <2>4. \A b \in App : apps'[b].pc = "create" => apps[b].pc = "create"
    BY <1>3, <1>5 DEF Constructing
  <2>5. CASE sup' = sup
    <3>1. sup.state = "running" => \A b \in App : apps[b].pc \in Driven => apps'[b].pc \in Driven
      BY <1>3, <1>5, <2>5 DEF Driven
    <3> QED BY <2>1, <2>2, <2>3, <2>4, <2>5, <3>1 DEF AppsFit
  <2>6. CASE sup' # sup
    <3>1. \A b \in App : apps'[b].pc \notin Constructing
      BY <2>1, <2>2, <2>6 DEF AppsFit
    <3> QED BY <2>6, <3>1 DEF AppsFit, Constructing
  <2> QED BY <2>5, <2>6
<1> QED BY <1>3, <1>4, <1>6, ServerKeeps

LEMMA ConstructFailsKeeps == ASSUME DesktopInv, NEW a \in App, D!ConstructFails(a) PROVE DesktopInv'
<1>1. /\ apps[a].pc = "create" /\ apps' = [apps EXCEPT ![a].pc = "none", ![a].dir = Home]
      /\ sup' = [sup EXCEPT !.state = "failed"] /\ UNCHANGED <<holder, disk, task>>
  BY DEF D!ConstructFails
<1>2. PICK r \in Server : r = apps[a]
  BY DEF DesktopInv, DesktopTyped
<1>3. PICK s : s = [r EXCEPT !.pc = "none", !.dir = Home]
  OBVIOUS
<1>4. s \in Server /\ s.pc = "none"
  BY <1>3, DesktopAssumption DEF Server, D!AppPC
<1>5. apps' = [apps EXCEPT ![a] = s]
  BY <1>1, <1>2, <1>3 DEF DesktopInv, DesktopTyped
<1>6. apps'[a] = s /\ \A b \in App \ {a} : apps'[b] = apps[b]
  BY <1>5 DEF DesktopInv, DesktopTyped
<1>7. apps[a].pc \in Constructing
  BY <1>1 DEF Constructing
<1>8. sup.state = "starting"
  BY <1>7 DEF DesktopInv, AppsFit
<1>9. sup' \in Supervisor /\ sup'.state = "failed" /\ disk' \in Disk
  BY <1>1 DEF DesktopInv, DesktopTyped, Supervisor, D!State
<1>10. \A b \in App : apps'[b].pc \notin Constructing
  BY <1>4, <1>6, <1>7 DEF DesktopInv, AppsFit, Constructing
<1>11. AppsFit'
  BY <1>9, <1>10 DEF AppsFit, Constructing
<1> QED BY <1>1, <1>4, <1>5, <1>8, <1>9, <1>11, ServerKeeps

LEMMA ServeFailsKeeps == ASSUME DesktopInv, NEW a \in App, D!ServeFails(a) PROVE DesktopInv'
<1>1. apps' = [apps EXCEPT ![a].pc = "failing"] /\ UNCHANGED <<sup, holder, disk, task>>
  BY DEF D!ServeFails
<1>2. "failing" \notin Constructing /\ "failing" \in D!AppPC
  BY DEF Constructing, D!AppPC
<1>3. sup \in Supervisor /\ disk \in Disk
  BY DEF DesktopInv, DesktopTyped
<1> QED BY <1>1, <1>2, <1>3, PcKeeps

LEMMA ReportFailureKeeps == ASSUME DesktopInv, NEW a \in App, D!ReportFailure(a) PROVE DesktopInv'
<1>1. UNCHANGED <<holder, disk, task>>
  BY DEF D!ReportFailure
<1>2. /\ "closing" \notin Constructing /\ "closing" \in D!AppPC
      /\ "none" \notin Constructing /\ "none" \in D!AppPC
  BY DEF Constructing, D!AppPC
<1>3. sup \in Supervisor /\ disk \in Disk
  BY DEF DesktopInv, DesktopTyped
<1>4. CASE sup.state = "running"
  <2>1. sup' = [state |-> "failed", app |-> 0] /\ apps' = [apps EXCEPT ![a].pc = "closing"]
    BY <1>4 DEF D!ReportFailure
  <2>2. sup' \in Supervisor /\ sup'.state = "failed"
    BY <2>1 DEF Supervisor, D!State
  <2> QED BY <1>1, <1>2, <1>3, <1>4, <2>1, <2>2, PcKeeps
<1>5. CASE sup.state # "running"
  <2>1. sup' = sup /\ apps' = [apps EXCEPT ![a].pc = "none"]
    BY <1>5 DEF D!ReportFailure
  <2> QED BY <1>1, <1>2, <1>3, <1>5, <2>1, PcKeeps
<1> QED BY <1>4, <1>5

LEMMA ConstructKeeps == ASSUME DesktopInv, NEW a \in App, D!Construct(a) PROVE DesktopInv'
<1>1. /\ apps[a].pc = "create" /\ apps' = [apps EXCEPT ![a].pc = "serving", ![a].open = TRUE]
      /\ sup' = [state |-> "running", app |-> a]
      /\ disk' = [disk EXCEPT !.present = disk.present \cup {apps[a].dir}]
      /\ holder' = holder /\ task' = task
  BY DEF D!Construct
<1>2. PICK r \in Server : r = apps[a]
  BY DEF DesktopInv, DesktopTyped
<1>3. PICK s : s = [r EXCEPT !.pc = "serving", !.open = TRUE]
  OBVIOUS
<1>4. s \in Server /\ s.pc = "serving" /\ s.dir = r.dir
  BY <1>2, <1>3 DEF Server, D!AppPC
<1>5. apps' = [apps EXCEPT ![a] = s]
  BY <1>1, <1>2, <1>3 DEF DesktopInv, DesktopTyped
<1>6. apps'[a] = s /\ \A b \in App \ {a} : apps'[b] = apps[b]
  BY <1>5 DEF DesktopInv, DesktopTyped
<1>7. apps[a].pc \in Constructing
  BY <1>1 DEF Constructing
<1>8. sup.state = "starting" /\ apps[a].dir = holder.dir
  BY <1>1, <1>7 DEF DesktopInv, AppsFit
<1>9. sup' \in Supervisor
  BY <1>1 DEF Supervisor, D!State
<1>10. disk' \in Disk
  BY <1>1, <1>2 DEF DesktopInv, DesktopTyped, Disk, Server
<1>11. \A b \in App : apps'[b].pc \notin Constructing
  BY <1>4, <1>6, <1>7 DEF DesktopInv, AppsFit, Constructing
<1>12. AppsFit'
  BY <1>1, <1>2, <1>4, <1>6, <1>8, <1>11 DEF AppsFit, Constructing, Driven
<1> QED BY <1>1, <1>4, <1>5, <1>8, <1>9, <1>10, <1>12, ServerKeeps

\* Close releases a server or gives up on it; none comes to be constructed.
LEMMA Released ==
    ASSUME DesktopInv, NEW a, apps' = D!Closed(a) \/ D!GivesUp(a)
    PROVE  /\ apps' \in [App -> Server]
           /\ \A b \in App \ {a} : apps'[b] = apps[b]
           /\ \A b \in App : apps'[b].pc \in Constructing => apps'[b].pc = apps[b].pc
<1>1. apps \in [App -> Server]
  BY DEF DesktopInv, DesktopTyped
<1>2. CASE a \notin App
  BY <1>1, <1>2 DEF D!Closed, D!GivesUp
<1>3. CASE a \in App
  <2>1. PICK r \in Server : r = apps[a]
    BY <1>1, <1>3
  <2>2. PICK s : s = [r EXCEPT !.open = FALSE, !.dir = Home,
                               !.pc = IF r.pc \in {"serving", "closing"} THEN "none" ELSE r.pc]
    OBVIOUS
  <2>3. /\ s \in Server
        /\ s.pc \in Constructing => s.pc = r.pc
    BY <2>2, DesktopAssumption DEF Server, D!AppPC, Constructing
  <2>4. PICK k : k = [r EXCEPT !.pc = "leaked"]
    OBVIOUS
  <2>5. /\ k \in Server /\ k.pc \notin Constructing
    BY <2>4 DEF Server, D!AppPC, Constructing
  <2>6. apps' = [apps EXCEPT ![a] = s] \/ apps' = [apps EXCEPT ![a] = k]
    <3>1. CASE apps' = D!Closed(a)
      <4>1. apps' = [apps EXCEPT ![a] = s]
        BY <1>1, <1>3, <2>1, <2>2, <3>1 DEF D!Closed
      <4> QED BY <4>1
    <3>2. CASE D!GivesUp(a)
      BY <1>1, <1>3, <2>1, <2>4, <3>2 DEF D!GivesUp
    <3> QED BY <3>1, <3>2
  <2> QED BY <1>1, <1>3, <2>1, <2>3, <2>5, <2>6
<1> QED BY <1>2, <1>3

\* What is closed is neither under construction nor the server that runs.
LEMMA ReleasedFits ==
    ASSUME DesktopInv, NEW a, apps' = D!Closed(a) \/ D!GivesUp(a), sup' = sup, holder'.dir = holder.dir,
           a \in App => apps[a].pc \notin Constructing,
           sup.state = "running" => sup.app # a
    PROVE  AppsFit'
<1>1. /\ \A b \in App \ {a} : apps'[b] = apps[b]
      /\ \A b \in App : apps'[b].pc \in Constructing => apps'[b].pc = apps[b].pc
  BY Released
<1>2. \A b \in App : apps'[b].pc \in Constructing => apps'[b] = apps[b]
  BY <1>1
<1>3. \A b \in App : apps'[b].pc = "create" => apps'[b] = apps[b]
  BY <1>2 DEF Constructing
<1> QED BY <1>1, <1>2, <1>3 DEF DesktopInv, AppsFit

LEMMA CloseFailedKeeps == ASSUME DesktopInv, NEW a \in App, D!CloseFailed(a) PROVE DesktopInv'
<1>1. UNCHANGED <<sup, holder, disk, task>> /\ (apps' = D!Closed(a) \/ D!GivesUp(a))
  BY DEF D!CloseFailed
<1>2. DesktopTyped'
  BY <1>1, Released DEF DesktopInv, DesktopTyped
<1>3. TasksFit' /\ OneCloses'
  BY <1>1 DEF DesktopInv, TasksFit, TaskFits, OneCloses
<1>4. AppsFit'
  <2>1. apps[a].pc = "closing"
    BY DEF D!CloseFailed
  <2>2. apps[a].pc \notin Constructing
    BY <2>1 DEF Constructing
  <2>3. sup.state = "running" => sup.app # a
    BY <2>1 DEF DesktopInv, AppsFit, Driven
  <2> QED BY <1>1, <2>2, <2>3, ReleasedFits
<1> QED BY <1>2, <1>3, <1>4 DEF DesktopInv

\* A record of a call after a step that changes where it is.
LEMMA TaskGoes ==
    ASSUME DesktopInv, NEW c \in Caller, NEW pc \in D!TaskPC, task' = [task EXCEPT ![c].pc = pc]
    PROVE  /\ task' \in [Caller -> Task] /\ task'[c].pc = pc /\ task'[c].op = task[c].op
           /\ task'[c].to = task[c].to
           /\ \A d \in Caller \ {c} : task'[d] = task[d]
           /\ \E t \in Task : /\ task' = [task EXCEPT ![c] = t]
                              /\ t.pc = pc /\ t.op = task[c].op /\ t.to = task[c].to
<1>1. PICK r \in Task : r = task[c]
  BY DEF DesktopInv, DesktopTyped
<1>2. PICK t : t = [r EXCEPT !.pc = pc]
  OBVIOUS
<1>3. t \in Task /\ t.pc = pc /\ t.op = r.op /\ t.to = r.to
  BY <1>1, <1>2 DEF Task
<1>4. task' = [task EXCEPT ![c] = t]
  BY <1>1, <1>2 DEF DesktopInv, DesktopTyped
<1> QED BY <1>1, <1>3, <1>4 DEF DesktopInv, DesktopTyped

LEMMA StopClosesKeeps == ASSUME DesktopInv, NEW c \in Caller, D!StopCloses(c) PROVE DesktopInv'
<1>1. /\ task[c].pc = "close" /\ UNCHANGED <<sup, holder, disk>>
      /\ apps' = D!Closed(task[c].app) \/ D!GivesUp(task[c].app)
      /\ task' = [task EXCEPT ![c].pc = "stopped", ![c].app = 0]
  BY DEF D!StopCloses
<1>2. PICK r \in Task : r = task[c]
  BY DEF DesktopInv, DesktopTyped
<1>3. /\ task' \in [Caller -> Task] /\ task'[c].pc = "stopped" /\ task'[c].op = task[c].op
      /\ \A d \in Caller \ {c} : task'[d] = task[d]
  <2>1. PICK t : t = [r EXCEPT !.pc = "stopped", !.app = 0]
    OBVIOUS
  <2>2. t \in Task /\ t.pc = "stopped" /\ t.op = r.op
    BY <1>2, <2>1 DEF Task, D!TaskPC
  <2>3. task' = [task EXCEPT ![c] = t]
    BY <1>1, <1>2, <2>1 DEF DesktopInv, DesktopTyped
  <2> QED BY <1>2, <2>2, <2>3 DEF DesktopInv, DesktopTyped
<1>4. DesktopTyped'
  BY <1>1, <1>3, Released DEF DesktopInv, DesktopTyped
<1>5. AppsFit'
  <2>1. sup.state = "stopping"
    BY <1>1 DEF DesktopInv, TasksFit, TaskFits, Closing
  <2>2. \A a \in App : apps[a].pc \notin Constructing
    BY <2>1 DEF DesktopInv, AppsFit
  <2> QED BY <1>1, <2>1, <2>2, ReleasedFits
<1>6. OneCloses'
  BY <1>1, <1>3 DEF DesktopInv, OneCloses, Closing
<1>7. ASSUME NEW d \in Caller PROVE TaskFits(d, task[d])'
  <2>1. CASE d = c
    <3>1. TaskFits(c, task[c])
      BY DEF DesktopInv, TasksFit
    <3> QED BY <1>1, <1>3, <2>1, <3>1 DEF TaskFits, Closing, Swapping, Relocating
  <2>2. CASE d # c
    BY <1>1, <1>3, <2>2, Waits
  <2> QED BY <2>1, <2>2
<1> QED BY <1>4, <1>5, <1>6, <1>7 DEF DesktopInv, TasksFit

\* The server that is stopped is the only one.
LEMMA StopEndsKeeps == ASSUME DesktopInv, NEW c \in Caller, D!StopEnds(c) PROVE DesktopInv'
<1>1. /\ task[c].pc = "stopped" /\ UNCHANGED <<apps, holder, disk>>
      /\ sup' = [state |-> "stopped", app |-> 0]
      /\ task' = [task EXCEPT ![c].pc = D!AfterStop(task[c].op)]
  BY DEF D!StopEnds, D!Goto
<1>2. PICK pc \in D!TaskPC : pc = D!AfterStop(task[c].op)
  BY DEF D!AfterStop, D!TaskPC
<1>3. (task[c].op = "change" => pc = "move") /\ (task[c].op # "change" => pc \in {"start", "return"})
  BY <1>2 DEF D!AfterStop
<1>4. /\ task' \in [Caller -> Task] /\ task'[c].pc = pc /\ task'[c].op = task[c].op
      /\ \A d \in Caller \ {c} : task'[d] = task[d]
  BY <1>1, <1>2, TaskGoes
<1>5. TaskFits(c, task[c]) /\ sup.state = "stopping"
  BY <1>1 DEF DesktopInv, TasksFit, TaskFits, Closing
<1>6. sup' \in Supervisor /\ sup'.state = "stopped"
  BY <1>1 DEF Supervisor, D!State
<1>7. DesktopTyped'
  BY <1>1, <1>4, <1>6 DEF DesktopInv, DesktopTyped
<1>8. \A d \in Caller \ {c} : task[d].pc \notin Closing
  BY <1>1 DEF DesktopInv, OneCloses, Closing
<1>9. task'[c].pc \notin Closing
  BY <1>3, <1>4 DEF Closing
<1>10. OneCloses'
  BY <1>4, <1>8, <1>9 DEF OneCloses
<1>11. AppsFit'
  BY <1>1, <1>5, <1>6 DEF DesktopInv, AppsFit, Constructing
<1>12. ASSUME NEW d \in Caller PROVE TaskFits(d, task[d])'
  <2>1. CASE d = c
    BY <1>1, <1>3, <1>4, <1>5, <1>6, <2>1 DEF TaskFits, Closing, Swapping, Relocating
  <2>2. CASE d # c
    <3>1. TaskFits(d, task[d])
      BY DEF DesktopInv, TasksFit
    <3> QED BY <1>1, <1>4, <1>6, <1>8, <2>2, <3>1 DEF TaskFits
  <2> QED BY <2>1, <2>2
<1> QED BY <1>7, <1>10, <1>11, <1>12 DEF DesktopInv, TasksFit

\* An accepted start makes one server, with no relocation in its way.
LEMMA Launched ==
    ASSUME DesktopInv, D!Launch, holder'.dir = holder.dir
    PROVE  /\ sup' \in Supervisor /\ apps' \in [App -> Server] /\ AppsFit'
           /\ \/ sup' = sup
              \/ sup.state \in {"stopped", "failed"} /\ ~holder.moving /\ sup'.state = "starting"
<1>1. CASE sup' = sup /\ apps' = apps
  BY <1>1 DEF DesktopInv, DesktopTyped, AppsFit
<1>2. CASE D!Accepts /\ sup' = [sup EXCEPT !.state = "starting"]
           /\ \E a \in App : D!NextApp(a) /\ apps' = [apps EXCEPT ![a].pc = "construct"]
  <2>1. sup.state \in {"stopped", "failed"} /\ ~holder.moving
    BY <1>2 DEF D!Accepts, D!CanStart
  <2>2. sup' \in Supervisor /\ sup'.state = "starting"
    BY <1>2 DEF DesktopInv, DesktopTyped, Supervisor, D!State
  <2>3. PICK a \in App : apps' = [apps EXCEPT ![a].pc = "construct"]
    BY <1>2
  <2>4. PICK r \in Server : r = apps[a]
    BY DEF DesktopInv, DesktopTyped
  <2>5. PICK s : s = [r EXCEPT !.pc = "construct"]
    OBVIOUS
  <2>6. s \in Server /\ s.pc = "construct"
    BY <2>4, <2>5 DEF Server, D!AppPC
  <2>7. apps' = [apps EXCEPT ![a] = s]
    BY <2>3, <2>4, <2>5 DEF DesktopInv, DesktopTyped
  <2>8. apps' \in [App -> Server] /\ apps'[a] = s /\ \A b \in App \ {a} : apps'[b] = apps[b]
    BY <2>6, <2>7 DEF DesktopInv, DesktopTyped
  <2>9. \A b \in App : apps[b].pc \notin Constructing
    BY <2>1 DEF DesktopInv, AppsFit
  <2>10. AppsFit'
    BY <2>2, <2>6, <2>8, <2>9 DEF AppsFit, Constructing
  <2> QED BY <2>1, <2>2, <2>8, <2>10
<1> QED BY <1>1, <1>2 DEF D!Launch

LEMMA StartKeeps == ASSUME DesktopInv, D!Launch, UNCHANGED <<holder, disk, task>> PROVE DesktopInv'
<1>1. DesktopTyped' /\ AppsFit'
  BY Launched DEF DesktopInv, DesktopTyped
<1>2. OneCloses'
  BY DEF DesktopInv, OneCloses
<1>3. \/ sup' = sup
      \/ sup.state \in {"stopped", "failed"} /\ ~holder.moving
  BY Launched
<1>4. \A d \in Caller : TaskFits(d, task[d])'
  BY <1>3, Waits
<1> QED BY <1>1, <1>2, <1>4 DEF DesktopInv, TasksFit

\* A call that starts the server after what it did.
LEMMA LaunchGoesKeeps ==
    ASSUME DesktopInv, NEW c \in Caller, NEW pc \in {"return", "resumed"},
           D!Launch, D!Goto(c, pc), UNCHANGED <<holder, disk>>,
           pc = "resumed" => task[c].op = "change"
    PROVE  DesktopInv'
<1>1. pc \in D!TaskPC /\ task' = [task EXCEPT ![c].pc = pc]
  BY DEF D!TaskPC, D!Goto
<1>2. /\ task' \in [Caller -> Task] /\ task'[c].pc = pc /\ task'[c].op = task[c].op
      /\ \A d \in Caller \ {c} : task'[d] = task[d]
  BY <1>1, TaskGoes
<1>3. DesktopTyped' /\ AppsFit'
  BY <1>2, Launched DEF DesktopInv, DesktopTyped
<1>4. OneCloses'
  BY <1>2 DEF DesktopInv, OneCloses, Closing
<1>5. \/ sup' = sup
      \/ sup.state \in {"stopped", "failed"} /\ ~holder.moving
  BY Launched
<1>6. ASSUME NEW d \in Caller PROVE TaskFits(d, task[d])'
  <2>1. CASE d = c
    <3>1. TaskFits(c, task[c])
      BY DEF DesktopInv, TasksFit
    <3> QED BY <1>2, <2>1, <3>1 DEF TaskFits, Closing, Swapping, Relocating
  <2>2. CASE d # c
    BY <1>2, <1>5, <2>2, Waits
  <2> QED BY <2>1, <2>2
<1> QED BY <1>3, <1>4, <1>6 DEF DesktopInv, TasksFit

\* A running server is asked to stop by one call.
LEMMA StoppingKeeps ==
    ASSUME DesktopInv, NEW c \in Caller, D!Stopping(c), NEW t \in Task, t.pc = "close",
           task' = [task EXCEPT ![c] = t],
           t.op = "change" => c \in Mover /\ holder.moving
    PROVE  DesktopInv'
<1>1. sup.state = "running" /\ sup' = [sup EXCEPT !.state = "stopping"] /\ UNCHANGED <<apps, holder, disk>>
  BY DEF D!Stopping
<1>2. sup' \in Supervisor /\ sup'.state = "stopping"
  BY <1>1 DEF DesktopInv, DesktopTyped, Supervisor, D!State
<1>3. task' \in [Caller -> Task] /\ task'[c] = t /\ \A d \in Caller \ {c} : task'[d] = task[d]
  BY DEF DesktopInv, DesktopTyped
<1>4. DesktopTyped'
  BY <1>1, <1>2, <1>3 DEF DesktopInv, DesktopTyped
<1>5. \A d \in Caller : task[d].pc \notin Closing
  BY <1>1 DEF DesktopInv, TasksFit, TaskFits
<1>6. OneCloses'
  BY <1>3, <1>5 DEF OneCloses
<1>7. AppsFit'
  BY <1>1, <1>2 DEF DesktopInv, AppsFit, Constructing
<1>8. ASSUME NEW d \in Caller PROVE TaskFits(d, task[d])'
  <2>1. CASE d = c
    BY <1>1, <1>2, <1>3, <2>1 DEF TaskFits, Closing, Swapping, Relocating
  <2>2. CASE d # c
    BY <1>1, <1>3, <2>2, Waits
  <2> QED BY <2>1, <2>2
<1> QED BY <1>4, <1>6, <1>7, <1>8 DEF DesktopInv, TasksFit

LEMMA StopKeeps == ASSUME DesktopInv, NEW c \in Caller, D!Stop(c) PROVE DesktopInv'
<1>1. PICK op \in {"stop", "restart"} :
          task' = [task EXCEPT ![c].pc = "close", ![c].op = op, ![c].app = sup.app]
  BY DEF D!Stop
<1>2. PICK r \in Task : r = task[c]
  BY DEF DesktopInv, DesktopTyped
<1>3. PICK app \in App \cup {0} : app = sup.app
  BY DEF DesktopInv, DesktopTyped, Supervisor
<1>4. PICK t : t = [r EXCEPT !.pc = "close", !.op = op, !.app = app]
  OBVIOUS
<1>5. t \in Task /\ t.pc = "close" /\ t.op = op
  BY <1>2, <1>4 DEF Task, D!TaskPC
<1>6. task' = [task EXCEPT ![c] = t]
  BY <1>1, <1>2, <1>3, <1>4 DEF DesktopInv, DesktopTyped
<1> QED BY <1>5, <1>6, StoppingKeeps DEF D!Stop

\* ChangeDataDir stops the server, or finds it stopped by another call.
LEMMA StopForMoveKeeps == ASSUME DesktopInv, NEW c \in Caller, D!StopForMove(c) PROVE DesktopInv'
<1>1. task[c].pc = "stop" /\ TaskFits(c, task[c])
  BY DEF D!StopForMove, DesktopInv, TasksFit
<1>2. CASE D!Stopping(c) /\ task' = [task EXCEPT ![c].pc = "close", ![c].was = TRUE, ![c].app = sup.app]
  <2>1. PICK r \in Task : r = task[c]
    BY DEF DesktopInv, DesktopTyped
  <2>2. PICK app \in App \cup {0} : app = sup.app
    BY DEF DesktopInv, DesktopTyped, Supervisor
  <2>3. PICK t : t = [r EXCEPT !.pc = "close", !.was = TRUE, !.app = app]
    OBVIOUS
  <2>4. t \in Task /\ t.pc = "close" /\ t.op = r.op
    BY <2>1, <2>3 DEF Task, D!TaskPC
  <2>5. task' = [task EXCEPT ![c] = t]
    BY <1>2, <2>1, <2>2, <2>3 DEF DesktopInv, DesktopTyped
  <2>6. t.op = "change" => c \in Mover /\ holder.moving
    BY <1>1, <2>1, <2>4 DEF TaskFits, Relocating
  <2> QED BY <1>2, <2>4, <2>5, <2>6, StoppingKeeps
<1>3. CASE D!Goto(c, "return") /\ UNCHANGED <<sup, apps, holder, disk>>
  <2>1. "return" \in D!TaskPC /\ task' = [task EXCEPT ![c].pc = "return"]
    BY <1>3 DEF D!TaskPC, D!Goto
  <2>2. PICK t \in Task : task' = [task EXCEPT ![c] = t] /\ t.pc = "return" /\ t.op = task[c].op
    BY <2>1, TaskGoes
  <2>3. TaskFits(c, t)' /\ t.pc \notin Closing
    BY <1>1, <2>2 DEF TaskFits, Closing, Swapping, Relocating
  <2> QED BY <1>3, <2>2, <2>3, CallKeeps DEF DesktopInv, DesktopTyped
<1> QED BY <1>2, <1>3 DEF D!StopForMove

\* A call that only goes on.
LEMMA GoesKeeps ==
    ASSUME DesktopInv, NEW c \in Caller, NEW pc \in D!TaskPC \ Closing, D!Goto(c, pc),
           sup' = sup, apps' = apps, disk' \in Disk,
           holder' \in Holder, holder'.dir = holder.dir, holder.moving => holder'.moving \/ c \in Mover,
           pc \in Relocating \cup {"resume", "resumed"} => task[c].op = "change",
           pc \in Relocating => holder'.moving,
           pc \in Swapping => sup.state \in {"stopped", "failed"}
    PROVE  DesktopInv'
<1>1. task' = [task EXCEPT ![c].pc = pc]
  BY DEF D!Goto
<1>2. PICK t \in Task : task' = [task EXCEPT ![c] = t] /\ t.pc = pc /\ t.op = task[c].op
  BY <1>1, TaskGoes
<1>3. TaskFits(c, task[c])
  BY DEF DesktopInv, TasksFit
<1>4. TaskFits(c, t)'
  BY <1>2, <1>3 DEF TaskFits
<1> QED BY <1>2, <1>4, CallKeeps

LEMMA ReturnsKeeps == ASSUME DesktopInv, NEW c \in Caller, D!Returns(c) PROVE DesktopInv'
<1>1. UNCHANGED <<sup, apps, disk>> /\ task' = [task EXCEPT ![c] = D!NoTask]
  BY DEF D!Returns, D!Return
<1>2. PICK t : t = D!NoTask
  OBVIOUS
<1>3. t \in Task /\ t.pc = "idle" /\ t.op = "none"
  BY <1>2, DesktopAssumption DEF D!NoTask, Task, D!TaskPC
<1>4. PICK m \in BOOLEAN : m = IF task[c].op = "change" THEN FALSE ELSE holder.moving
  BY DEF DesktopInv, DesktopTyped, Holder
<1>5. holder' = [holder EXCEPT !.moving = m]
  BY <1>4 DEF D!Returns
<1>6. holder' \in Holder /\ holder'.dir = holder.dir /\ holder'.moving = m
  BY <1>5 DEF DesktopInv, DesktopTyped, Holder
<1>7. TaskFits(c, task[c])
  BY DEF DesktopInv, TasksFit
<1>8. holder.moving => holder'.moving \/ c \in Mover
  BY <1>4, <1>6, <1>7 DEF TaskFits
<1>9. TaskFits(c, t)' /\ t.pc \notin Closing
  BY <1>3 DEF TaskFits, Closing, Swapping, Relocating
<1> QED BY <1>1, <1>2, <1>3, <1>6, <1>8, <1>9, CallKeeps DEF DesktopInv, DesktopTyped

\* A call begins or returns: its record is written anew.
LEMMA RecordKeeps ==
    ASSUME DesktopInv, NEW c \in Caller, NEW t \in Task, task' = [task EXCEPT ![c] = t],
           UNCHANGED <<sup, apps, holder, disk>>,
           t.pc \in {"idle", "save"}, t.op \in {"none", "save"}
    PROVE  DesktopInv'
<1>1. t.pc \notin Closing /\ TaskFits(c, t)'
  BY DEF TaskFits, Closing, Swapping, Relocating
<1> QED BY <1>1, CallKeeps DEF DesktopInv, DesktopTyped

LEMMA NoTaskTyped == D!NoTask \in Task
  BY DesktopAssumption DEF D!NoTask, Task, D!TaskPC

LEMMA SaveSettingsKeeps == ASSUME DesktopInv, NEW c \in Caller, D!SaveSettings(c) PROVE DesktopInv'
<1>1. PICK n \in Task : n = D!NoTask
  BY NoTaskTyped
<1>2. PICK was \in BOOLEAN : was = ~holder.complete
  OBVIOUS
<1>3. PICK dir \in Dir : dir = holder.dir
  BY DEF DesktopInv, DesktopTyped, Holder
<1>4. PICK t : t = [n EXCEPT !.pc = "save", !.op = "save", !.was = was, !.to = dir]
  OBVIOUS
<1>5. t \in Task /\ t.pc = "save" /\ t.op = "save"
  BY <1>4 DEF Task, D!TaskPC
<1>6. task' = [task EXCEPT ![c] = t] /\ UNCHANGED <<sup, apps, holder, disk>>
  BY <1>1, <1>2, <1>3, <1>4 DEF D!SaveSettings
<1> QED BY <1>5, <1>6, RecordKeeps

LEMMA WriteSettingsKeeps == ASSUME DesktopInv, NEW c \in Caller, D!WriteSettings(c) PROVE DesktopInv'
<1>1. PICK dir \in Dir : dir = task[c].to
  BY DEF DesktopInv, DesktopTyped, Task
<1>2. PICK complete \in BOOLEAN : complete = (holder.complete \/ dir = holder.dir)
  OBVIOUS
<1>3. /\ UNCHANGED <<sup, apps>> /\ D!Goto(c, "check")
      /\ holder' = [holder EXCEPT !.complete = complete]
      /\ disk' = [disk EXCEPT !.present = disk.present \cup {dir}, !.complete = disk.complete \cup {dir}]
  BY <1>1, <1>2 DEF D!WriteSettings
<1>4. holder \in Holder /\ disk \in Disk
  BY DEF DesktopInv, DesktopTyped
<1>5. holder' \in Holder /\ holder'.dir = holder.dir /\ holder'.moving = holder.moving
  BY <1>3, <1>4 DEF Holder
<1>6. disk' \in Disk
  BY <1>3, <1>4 DEF Disk
<1>7. /\ "check" \in D!TaskPC \ Closing
      /\ "check" \notin Relocating \cup {"resume", "resumed"} /\ "check" \notin Swapping
  BY DEF D!TaskPC, Closing, Swapping, Relocating
<1> QED BY <1>3, <1>5, <1>6, <1>7, GoesKeeps

LEMMA CheckStateKeeps == ASSUME DesktopInv, NEW c \in Caller, D!CheckState(c) PROVE DesktopInv'
<1>1. UNCHANGED <<sup, apps, holder, disk>>
  BY DEF D!CheckState
<1>2. CASE D!Goto(c, "start")
  <2>1. /\ "start" \in D!TaskPC \ Closing
        /\ "start" \notin Relocating \cup {"resume", "resumed"} /\ "start" \notin Swapping
    BY DEF D!TaskPC, Closing, Swapping, Relocating
  <2> QED BY <1>1, <1>2, <2>1, GoesKeeps DEF DesktopInv, DesktopTyped
<1>3. CASE D!Return(c)
  <2>1. PICK n \in Task : n = D!NoTask
    BY NoTaskTyped
  <2>2. n.pc = "idle" /\ n.op = "none" /\ task' = [task EXCEPT ![c] = n]
    BY <1>3, <2>1 DEF D!NoTask, D!Return
  <2> QED BY <1>1, <2>2, RecordKeeps
<1> QED BY <1>2, <1>3 DEF D!CheckState

LEMMA ChangeDataDirKeeps == ASSUME DesktopInv, NEW c \in Mover, D!ChangeDataDir(c) PROVE DesktopInv'
<1>1. UNCHANGED <<sup, apps, disk>> /\ holder' = [holder EXCEPT !.moving = TRUE]
  BY DEF D!ChangeDataDir
<1>2. PICK to \in Dir : task' = [task EXCEPT ![c] = [D!NoTask EXCEPT !.pc = "look", !.op = "change", !.to = to]]
  BY DEF D!ChangeDataDir
<1>3. PICK n : n = D!NoTask
  OBVIOUS
<1>4. n \in Task
  BY <1>3, DesktopAssumption DEF D!NoTask, Task, D!TaskPC
<1>5. PICK t : t = [n EXCEPT !.pc = "look", !.op = "change", !.to = to]
  OBVIOUS
<1>6. t \in Task /\ t.pc = "look" /\ t.op = "change"
  BY <1>4, <1>5 DEF Task, D!TaskPC
<1>7. task' = [task EXCEPT ![c] = t]
  BY <1>2, <1>3, <1>5
<1>8. holder' \in Holder /\ holder'.dir = holder.dir /\ holder'.moving
  BY <1>1 DEF DesktopInv, DesktopTyped, Holder
<1>9. TaskFits(c, t)' /\ t.pc \notin Closing
  BY <1>6, <1>8 DEF TaskFits, Closing, Swapping, Relocating
<1>10. c \in Caller /\ disk \in Disk
  BY DesktopAssumption DEF DesktopInv, DesktopTyped
<1> QED BY <1>1, <1>6, <1>7, <1>8, <1>9, <1>10, CallKeeps

LEMMA LookAtStateKeeps == ASSUME DesktopInv, NEW c \in Caller, D!LookAtState(c) PROVE DesktopInv'
<1>1. task[c].pc = "look" /\ UNCHANGED <<sup, apps, holder, disk>> /\ TaskFits(c, task[c])
  BY DEF D!LookAtState, DesktopInv, TasksFit
<1>2. task[c].op = "change" /\ holder.moving
  BY <1>1 DEF TaskFits, Relocating
<1>3. PICK pc : pc = CASE sup.state = "running" -> "stop"
                       [] sup.state \in {"stopped", "failed"} -> "move"
                       [] OTHER -> "return"
  OBVIOUS
<1>4. D!Goto(c, pc)
  BY <1>3 DEF D!LookAtState
<1>5. /\ pc \in D!TaskPC \ Closing
      /\ pc \in Swapping => sup.state \in {"stopped", "failed"}
  BY <1>3 DEF D!TaskPC, Closing, Swapping
<1> QED BY <1>1, <1>2, <1>4, <1>5, GoesKeeps DEF DesktopInv, DesktopTyped

LEMMA MovedTyped ==
    ASSUME DesktopInv, NEW from \in Dir, NEW to \in Dir, NEW left \in SUBSET Dir, D!Moved(from, to, left)
    PROVE  disk' \in Disk
  BY DEF DesktopInv, DesktopTyped, Disk, D!Moved

LEMMA CopiedTyped ==
    ASSUME DesktopInv, NEW from \in Dir, NEW to \in Dir, D!CopiedInPart(from, to)
    PROVE  disk' \in Disk
  BY DEF DesktopInv, DesktopTyped, Disk, D!CopiedInPart

LEMMA RelocateKeeps == ASSUME DesktopInv, NEW c \in Caller, D!Relocate(c) PROVE DesktopInv'
<1>1. task[c].pc = "move" /\ UNCHANGED <<sup, apps, holder>> /\ TaskFits(c, task[c])
  BY DEF D!Relocate, DesktopInv, TasksFit
<1>2. task[c].op = "change" /\ holder.moving /\ sup.state \in {"stopped", "failed"}
  BY <1>1 DEF TaskFits, Relocating, Swapping
<1>3. holder.dir \in Dir /\ task[c].to \in Dir /\ disk \in Disk /\ holder \in Holder
  BY DEF DesktopInv, DesktopTyped, Holder, Task
<1>4. disk' \in Disk
  BY <1>3, MovedTyped, CopiedTyped DEF D!Relocate
<1>5. PICK pc \in {"resume", "remap"} : D!Goto(c, pc)
  BY DEF D!Relocate
<1>6. pc \in D!TaskPC \ Closing
  BY DEF D!TaskPC, Closing
<1> QED BY <1>1, <1>2, <1>3, <1>4, <1>5, <1>6, GoesKeeps

LEMMA ResumeKeeps == ASSUME DesktopInv, NEW c \in Caller, D!Resume(c) PROVE DesktopInv'
<1>1. task[c].pc = "resume" /\ UNCHANGED <<holder, disk>> /\ TaskFits(c, task[c])
  BY DEF D!Resume, DesktopInv, TasksFit
<1>2. task[c].op = "change"
  BY <1>1 DEF TaskFits
<1>3. CASE D!Launch /\ D!Goto(c, "resumed")
  BY <1>1, <1>2, <1>3, LaunchGoesKeeps
<1>4. CASE D!Goto(c, "return") /\ UNCHANGED <<sup, apps>>
  <2>1. /\ "return" \in D!TaskPC \ Closing
        /\ "return" \notin Relocating \cup {"resume", "resumed"} /\ "return" \notin Swapping
    BY DEF D!TaskPC, Closing, Swapping, Relocating
  <2> QED BY <1>1, <1>4, <2>1, GoesKeeps DEF DesktopInv, DesktopTyped
<1> QED BY <1>3, <1>4 DEF D!Resume

LEMMA RemapKeeps == ASSUME DesktopInv, NEW c \in Caller, D!Remap(c) PROVE DesktopInv'
<1>1. task[c].pc = "remap" /\ UNCHANGED <<sup, apps, holder, disk>> /\ TaskFits(c, task[c])
  BY DEF D!Remap, DesktopInv, TasksFit
<1>2. task[c].op = "change" /\ holder.moving /\ sup.state \in {"stopped", "failed"}
  BY <1>1 DEF TaskFits, Relocating, Swapping
<1>3. PICK pc \in {"commit", "return"} : D!Goto(c, pc)
  BY DEF D!Remap
<1>4. pc \in D!TaskPC \ Closing
  BY DEF D!TaskPC, Closing
<1> QED BY <1>1, <1>2, <1>3, <1>4, GoesKeeps DEF DesktopInv, DesktopTyped

\* The swap of the directory: nothing runs and nothing is composed from the old one.
LEMMA CommitKeeps == ASSUME DesktopInv, NEW c \in Caller, D!Commit(c) PROVE DesktopInv'
<1>1. task[c].pc = "commit" /\ UNCHANGED <<sup, apps, disk>> /\ TaskFits(c, task[c])
  BY DEF D!Commit, DesktopInv, TasksFit
<1>2. task[c].op = "change" /\ holder.moving /\ sup.state \in {"stopped", "failed"}
  BY <1>1 DEF TaskFits, Relocating, Swapping
<1>3. "autostart" \in D!TaskPC /\ task' = [task EXCEPT ![c].pc = "autostart"]
  BY DEF D!Commit, D!Goto, D!TaskPC
<1>4. /\ task' \in [Caller -> Task] /\ task'[c].pc = "autostart" /\ task'[c].op = task[c].op
      /\ \A d \in Caller \ {c} : task'[d] = task[d]
  BY <1>3, TaskGoes
<1>5. PICK to \in Dir : to = task[c].to
  BY DEF DesktopInv, DesktopTyped, Task
<1>6. PICK complete \in BOOLEAN : complete = (task[c].to \in disk.complete)
  <2>1. (task[c].to \in disk.complete) \in BOOLEAN
    OBVIOUS
  <2> QED BY <2>1, Zenon
<1>7. holder' = [holder EXCEPT !.dir = to, !.complete = complete]
  BY <1>5, <1>6 DEF D!Commit
<1>8. holder' \in Holder /\ holder'.moving = holder.moving
  BY <1>7 DEF DesktopInv, DesktopTyped, Holder
<1>9. DesktopTyped'
  BY <1>1, <1>4, <1>8 DEF DesktopInv, DesktopTyped
<1>10. \A a \in App : apps[a].pc \notin Constructing
  BY <1>2 DEF DesktopInv, AppsFit
<1>11. AppsFit'
  BY <1>1, <1>2, <1>10 DEF AppsFit, Constructing
<1>12. OneCloses'
  BY <1>4 DEF DesktopInv, OneCloses, Closing
<1>13. ASSUME NEW d \in Caller PROVE TaskFits(d, task[d])'
  <2>1. TaskFits(d, task[d])
    BY DEF DesktopInv, TasksFit
  <2>2. CASE d = c
    BY <1>1, <1>2, <1>4, <1>8, <2>2 DEF TaskFits, Closing, Swapping, Relocating
  <2>3. CASE d # c
    BY <1>1, <1>4, <1>8, <2>1, <2>3 DEF TaskFits
  <2> QED BY <2>2, <2>3
<1> QED BY <1>9, <1>11, <1>12, <1>13 DEF DesktopInv, TasksFit

LEMMA AutostartKeeps == ASSUME DesktopInv, NEW c \in Caller, D!Autostart(c) PROVE DesktopInv'
<1>1. task[c].pc = "autostart" /\ UNCHANGED <<sup, apps, disk>> /\ TaskFits(c, task[c])
  BY DEF D!Autostart, DesktopInv, TasksFit
<1>2. c \in Mover
  BY <1>1 DEF TaskFits, Relocating
<1>3. PICK pc \in {"start", "return"} : D!Goto(c, pc)
  BY DEF D!Autostart
<1>4. holder' \in Holder /\ holder'.dir = holder.dir
  <2>1. holder \in Holder
    BY DEF DesktopInv, DesktopTyped
  <2> QED BY <2>1 DEF D!Autostart, Holder
<1>5. pc \in D!TaskPC \ Closing /\ pc \notin Relocating \cup {"resume", "resumed"} /\ pc \notin Swapping
  BY DEF D!TaskPC, Closing, Swapping, Relocating
<1> QED BY <1>1, <1>2, <1>3, <1>4, <1>5, GoesKeeps DEF DesktopInv, DesktopTyped

LEMMA DesktopInitially == D!DesktopInit => DesktopInv
<1> SUFFICES ASSUME D!DesktopInit PROVE DesktopInv
  OBVIOUS
<1>1. sup \in Supervisor /\ sup.state = "stopped"
  BY DEF D!DesktopInit, Supervisor, D!State
<1>2. apps \in [App -> Server] /\ \A a \in App : apps[a].pc = "none"
  BY DesktopAssumption DEF D!DesktopInit, Server, D!AppPC
<1>3. holder \in Holder /\ disk \in Disk
  BY DesktopAssumption DEF D!DesktopInit, Holder, Disk
<1>4. PICK t : t = D!NoTask
  OBVIOUS
<1>5. t \in Task /\ t.pc = "idle" /\ t.op = "none"
  BY <1>4, DesktopAssumption DEF D!NoTask, Task, D!TaskPC
<1>6. task = [c \in Caller |-> t]
  BY <1>4 DEF D!DesktopInit
<1>7. DesktopTyped
  BY <1>1, <1>2, <1>3, <1>5, <1>6 DEF DesktopTyped
<1>8. TasksFit /\ OneCloses
  BY <1>5, <1>6 DEF TasksFit, TaskFits, OneCloses, Closing, Swapping, Relocating
<1>9. AppsFit
  BY <1>1, <1>2 DEF AppsFit, Constructing
<1> QED BY <1>7, <1>8, <1>9 DEF DesktopInv

LEMMA DesktopKept == DesktopInv /\ D!DesktopNext => DesktopInv'
<1> SUFFICES ASSUME DesktopInv, D!DesktopNext PROVE DesktopInv'
  OBVIOUS
<1>1. ASSUME NEW a \in App, D!Goroutine(a) \/ D!ServeFails(a) PROVE DesktopInv'
  BY <1>1, ReadStoreKeeps, ConstructFailsKeeps, ConstructKeeps, ReportFailureKeeps, CloseFailedKeeps,
     ServeFailsKeeps DEF D!Goroutine
<1>2. ASSUME NEW c \in Caller, D!StartAfter(c) PROVE DesktopInv'
  BY <1>2, LaunchGoesKeeps DEF D!StartAfter
<1>3. ASSUME NEW c \in Caller, D!Continue(c) PROVE DesktopInv'
  BY <1>2, <1>3, StopClosesKeeps, StopEndsKeeps, ReturnsKeeps, LookAtStateKeeps, StopForMoveKeeps,
     WriteSettingsKeeps, CheckStateKeeps, RelocateKeeps, ResumeKeeps, RemapKeeps, CommitKeeps,
     AutostartKeeps DEF D!Continue
<1>4. ASSUME NEW c \in Caller, D!Start(c) \/ D!Stop(c) \/ D!SaveSettings(c) PROVE DesktopInv'
  BY <1>4, StartKeeps, StopKeeps, SaveSettingsKeeps DEF D!Start
<1>5. ASSUME NEW c \in Mover, D!ChangeDataDir(c) PROVE DesktopInv'
  BY <1>5, ChangeDataDirKeeps
<1> QED BY <1>1, <1>3, <1>4, <1>5 DEF D!DesktopNext

LEMMA DesktopKeptAtRest == DesktopInv /\ UNCHANGED desktopAll => DesktopInv'
  BY DEF DesktopInv, DesktopTyped, TasksFit, TaskFits, OneCloses, AppsFit, desktopAll

LEMMA DesktopSteps == [Next]_vars => D!DesktopNext \/ UNCHANGED desktopAll
  BY DEF Next, Only, vars

LEMMA DesktopInductive == Init /\ [][Next]_vars => []DesktopInv
<1>1. Init => DesktopInv
  BY DesktopInitially DEF Init
<1>2. DesktopInv /\ [Next]_vars => DesktopInv'
  BY DesktopKept, DesktopKeptAtRest, DesktopSteps
<1> QED BY <1>1, <1>2, PTL

LEMMA DesktopTypes == Spec => [](part = "desktop" => D!DesktopTypeOK)
<1>1. DesktopInv => D!DesktopTypeOK
  BY DEF DesktopInv, DesktopTyped, D!DesktopTypeOK, Supervisor, Server, Holder, Disk, Task
<1> QED BY <1>1, DesktopInductive, SpecSteps, PTL

\* While ChangeDataDir is between its Stop and its swap nothing is being constructed
\* and the supervisor drives no server, for any callers of the other bindings.
THEOREM RelocationsAlone == Spec => []MoveAlone
<1>1. DesktopInv => MoveAlone
  BY DEF DesktopInv, TasksFit, TaskFits, AppsFit, Swapping, Constructing, MoveAlone, D!MoveAlone
<1> QED BY <1>1, DesktopInductive, SpecSteps, PTL

\* A server that runs serves the directory of the bindings.
THEOREM ServersFollow == Spec => []ServesCurrentDir
<1>1. DesktopInv => ServesCurrentDir
  BY DEF DesktopInv, AppsFit, ServesCurrentDir, D!ServesCurrentDir
<1> QED BY <1>1, DesktopInductive, SpecSteps, PTL
---------------------------------------------------------------------------
(* The native torrent engine.                                              *)

Changes == {"add", "prepare", "pause", "resume", "remove"}

Library == [live : BOOLEAN, wanted : SUBSET Piece, allowed : BOOLEAN, raised : SUBSET Piece]
Maps == [paused : BOOLEAN, sel : SUBSET Piece, window : SUBSET Piece, steered : BOOLEAN,
         failed : BOOLEAN]
Kept == [entry : N!Entry, bits : SUBSET Piece, data : SUBSET Piece]
Request == [op : Changes \cup {"none", "range"}, pc : {"idle", "locked", "bits", "session", "data"},
            t : {"nil", "current", "dropped"}, arg : SUBSET Piece]

EngineTyped ==
    /\ lib \in Library /\ maps \in Maps /\ session \in N!Entry /\ store \in Kept
    /\ torn \in BOOLEAN
    /\ requests \in [Call -> Request]

\* Calls that overlap are reads of a range and at most one change of another kind.
Apart ==
    \A c, d \in Call :
        c # d /\ N!Busy(c) /\ N!Busy(d) =>
            /\ "remove" \notin {requests[c].op, requests[d].op}
            /\ "range" \in {requests[c].op, requests[d].op}

\* A call in progress has the torrent it looked up, until a removal drops it.
Holding(q) ==
    /\ q.pc = "idle" <=> q.op = "none"
    /\ q.op \in {"add", "prepare", "pause", "resume", "range"} => q.pc = "locked"
    /\ q.op \in {"prepare", "pause", "resume", "range"} => lib.live /\ q.t = "current"
    /\ q.op = "prepare" => q.arg # {}
    /\ q.op = "remove" =>
          /\ q.pc \in {"locked", "bits"} => q.t \in {"nil", "current"} /\ (q.t = "current" <=> lib.live)
          /\ q.pc = "bits" => lib.live
          /\ q.pc \in {"session", "data"} => ~lib.live

\* A removal that has come as far as one of these steps.
Removed(pcs) == \E c \in Call : requests[c].op = "remove" /\ requests[c].pc \in pcs
InProgress(kinds) == \E c \in Call : requests[c].op \in kinds

\* What the library does, what the maps say and what the session file says agree
\* but for what the call in progress has changed already.
Agree ==
    /\ session = store.entry
    /\ ~session.meta => session = N!NoEntry
    /\ lib.live => session.meta
    /\ session.meta => lib.live \/ Removed({"session"})
    /\ lib.live /\ ~Removed({"bits"}) =>
          /\ maps.sel = session.sel /\ maps.paused = session.paused
          /\ lib.raised = maps.window
    /\ lib.live /\ ~InProgress({"prepare"}) => lib.wanted = session.sel
    /\ lib.live /\ ~InProgress({"pause", "resume"}) => lib.allowed = ~session.paused
    /\ ~lib.live \/ Removed({"bits"}) =>
          maps.sel = {} /\ ~maps.paused /\ maps.window = {}
    /\ \A c \in Call :
          /\ requests[c].op = "prepare" => lib.wanted = requests[c].arg
          /\ requests[c].op \in {"pause", "resume"} => lib.allowed = (requests[c].op = "resume")

Whole == Apart /\ (\A c \in Call : Holding(requests[c])) /\ Agree
EngineInv == EngineTyped /\ (~torn => Whole)

LEMMA LeastPiece ==
    ASSUME NEW pieces \in SUBSET Piece, pieces # {}
    PROVE  \E p \in pieces : \A q \in pieces : p <= q
<1>1. pieces \subseteq Nat
  BY EngineAssumption
<1>2. PICK p \in pieces : \A q \in pieces : ~(<<q, p>> \in OpToRel(<, Nat))
  BY <1>1, NatLessThanWellFounded, WFMin
<1>3. \A q \in pieces : ~(q < p)
  BY <1>1, <1>2 DEF OpToRel
<1> QED BY <1>1, <1>3

LEMMA HeadTyped == ASSUME NEW pieces \in SUBSET Piece, pieces # {} PROVE N!Head(pieces) \subseteq pieces
  BY LeastPiece DEF N!Head

LEMMA Entries ==
    /\ N!NoEntry \in N!Entry /\ ~N!NoEntry.meta /\ N!NoEntry.sel = {} /\ ~N!NoEntry.paused
    /\ N!NoTorrent \in Library /\ ~N!NoTorrent.live
    /\ N!NoTorrent.wanted = {} /\ N!NoTorrent.allowed /\ N!NoTorrent.raised = {}
    /\ N!NoMaps \in Maps /\ N!NoMaps.sel = {} /\ ~N!NoMaps.paused /\ N!NoMaps.window = {}
    /\ N!NoCall \in Request /\ N!NoCall.op = "none" /\ N!NoCall.pc = "idle"
  BY DEF N!NoEntry, N!Entry, N!NoTorrent, Library, N!NoMaps, Maps, N!NoCall, Request, Changes

\* What a start makes of an entry of the session file.
LEMMA Loads ==
    ASSUME NEW e \in N!Entry, ~e.meta => e = N!NoEntry
    PROVE  /\ N!Loaded(e) \in Library /\ N!LoadedMaps(e) \in Maps
           /\ N!Loaded(e).live = e.meta /\ N!Loaded(e).wanted = e.sel /\ N!Loaded(e).allowed = ~e.paused
           /\ N!LoadedMaps(e).sel = e.sel /\ N!LoadedMaps(e).paused = e.paused
           /\ N!Loaded(e).raised = N!LoadedMaps(e).window
           /\ ~e.meta => N!LoadedMaps(e).window = {}
<1>1. PICK r \in SUBSET Piece : r = IF e.sel = {} THEN {} ELSE N!Head(e.sel)
  BY HeadTyped DEF N!Entry
<1>2. PICK n \in Library : n = N!NoTorrent
  BY Entries
<1>3. PICK allowed \in BOOLEAN : allowed = ~e.paused
  BY DEF N!Entry
<1>4. N!Loaded(e) = [n EXCEPT !.live = e.meta, !.wanted = e.sel, !.allowed = allowed, !.raised = r]
  BY <1>1, <1>2, <1>3 DEF N!Loaded
<1>5. /\ N!Loaded(e) \in Library /\ N!Loaded(e).live = e.meta /\ N!Loaded(e).wanted = e.sel
      /\ N!Loaded(e).allowed = allowed /\ N!Loaded(e).raised = r
  BY <1>4 DEF Library, N!Entry
<1>6. PICK m \in Maps : m = N!NoMaps
  BY Entries
<1>7. PICK steered \in BOOLEAN : steered = (e.sel # {})
  OBVIOUS
<1>8. CASE e.meta
  <2>1. N!LoadedMaps(e) = [m EXCEPT !.paused = e.paused, !.sel = e.sel, !.steered = steered, !.window = r]
    BY <1>5, <1>6, <1>7, <1>8 DEF N!LoadedMaps
  <2> QED BY <1>3, <1>5, <1>8, <2>1 DEF Maps, N!Entry
<1>9. CASE ~e.meta
  <2>1. e = N!NoEntry /\ N!LoadedMaps(e) = N!NoMaps
    BY <1>9 DEF N!LoadedMaps
  <2>2. e.sel = {} /\ ~e.paused
    BY <2>1, Entries
  <2>3. r = {}
    BY <1>1, <2>2
  <2>4. N!LoadedMaps(e) \in Maps /\ N!LoadedMaps(e).sel = {} /\ ~N!LoadedMaps(e).paused
        /\ N!LoadedMaps(e).window = {}
    BY <2>1, Entries
  <2>5. N!LoadedMaps(e).paused \in BOOLEAN /\ e.paused \in BOOLEAN
    BY <2>4 DEF Maps, N!Entry
  <2>6. N!LoadedMaps(e).paused = e.paused
    BY <2>2, <2>4, <2>5
  <2> QED BY <1>3, <1>5, <2>2, <2>3, <2>4, <2>6
<1> QED BY <1>8, <1>9 DEF N!Entry

\* The requests of the other calls stay, and so do theirs.
LEMMA RequestGoes ==
    ASSUME EngineTyped, NEW c \in Call, NEW pc \in {"idle", "locked", "bits", "session", "data"},
           requests' = [requests EXCEPT ![c].pc = pc]
    PROVE  /\ requests' \in [Call -> Request]
           /\ requests'[c].pc = pc /\ requests'[c].op = requests[c].op /\ requests'[c].t = requests[c].t
           /\ requests'[c].arg = requests[c].arg
           /\ \A d \in Call \ {c} : requests'[d] = requests[d]
<1>1. PICK r \in Request : r = requests[c]
  BY DEF EngineTyped
<1>2. PICK q : q = [r EXCEPT !.pc = pc]
  OBVIOUS
<1>3. q \in Request /\ q.pc = pc /\ q.op = r.op /\ q.t = r.t /\ q.arg = r.arg
  BY <1>2 DEF Request
<1>4. requests' = [requests EXCEPT ![c] = q]
  BY <1>1, <1>2 DEF EngineTyped
<1> QED BY <1>1, <1>3, <1>4 DEF EngineTyped

LEMMA RequestEnds ==
    ASSUME EngineTyped, NEW c \in Call, N!End(c)
    PROVE  /\ requests' \in [Call -> Request]
           /\ requests'[c].pc = "idle" /\ requests'[c].op = "none"
           /\ \A d \in Call \ {c} : requests'[d] = requests[d]
  BY Entries DEF EngineTyped, N!End

\* A call that starts apart from the others, or its start is the end of the story.
LEMMA RequestBegins ==
    ASSUME EngineTyped, ~torn => Apart, NEW c \in Call, NEW op \in Changes \cup {"range"},
           NEW arg \in SUBSET Piece, N!Begin(c, op, arg)
    PROVE  /\ requests' \in [Call -> Request] /\ torn' \in BOOLEAN
           /\ requests[c].pc = "idle"
           /\ requests'[c].pc = "locked" /\ requests'[c].op = op /\ requests'[c].arg = arg
           /\ requests'[c].t = IF lib.live THEN "current" ELSE "nil"
           /\ \A d \in Call \ {c} : requests'[d] = requests[d]
           /\ ~torn' => /\ ~torn /\ Apart'
                        /\ \A d \in Call \ {c} : N!Busy(d) => op # "remove" /\ requests[d].op # "remove"
                                                             /\ "range" \in {op, requests[d].op}
<1>1. PICK t \in {"nil", "current"} : t = IF lib.live THEN "current" ELSE "nil"
  OBVIOUS
<1>2. PICK q : q = [op |-> op, pc |-> "locked", arg |-> arg, t |-> t]
  OBVIOUS
<1>3. q \in Request /\ q.pc = "locked" /\ q.op = op /\ q.arg = arg /\ q.t = t
  BY <1>2 DEF Request
<1>4. requests' = [requests EXCEPT ![c] = q]
  BY <1>1, <1>2 DEF N!Begin
<1>5. requests' \in [Call -> Request] /\ requests'[c] = q /\ \A d \in Call \ {c} : requests'[d] = requests[d]
  BY <1>3, <1>4 DEF EngineTyped
<1>6. requests[c].pc = "idle"
  BY DEF N!Begin, N!Busy
<1>7. torn' = (torn \/ N!Overlaps(c, op))
  BY DEF N!Begin
<1>8. torn' \in BOOLEAN
  BY <1>7 DEF EngineTyped, N!Overlaps
<1>9. ASSUME ~torn'
      PROVE  /\ ~torn
             /\ \A d \in Call \ {c} : N!Busy(d) => op # "remove" /\ requests[d].op # "remove"
                                                  /\ "range" \in {op, requests[d].op}
  BY <1>7, <1>9 DEF N!Overlaps, N!Removing
<1>10. ASSUME ~torn' PROVE Apart'
  BY <1>3, <1>5, <1>9, <1>10 DEF Apart, N!Busy
<1> QED BY <1>1, <1>3, <1>5, <1>6, <1>8, <1>9, <1>10

\* The calls in progress, when all but one of them read ranges.
Stands(q) ==
    /\ Removed({"session"}) <=> q.op = "remove" /\ q.pc = "session"
    /\ Removed({"bits"}) <=> q.op = "remove" /\ q.pc = "bits"
    /\ InProgress({"prepare"}) <=> q.op = "prepare"
    /\ InProgress({"pause", "resume"}) <=> q.op \in {"pause", "resume"}

LEMMA OnlyChange ==
    ASSUME NEW c \in Call, \A d \in Call \ {c} : requests[d].op \in {"none", "range"}
    PROVE  Stands(requests[c])
<1>1. \A d \in Call \ {c} : requests[d].op \notin {"remove", "prepare", "pause", "resume"}
  OBVIOUS
<1>2. /\ Removed({"session"}) <=> requests[c].op = "remove" /\ requests[c].pc = "session"
      /\ Removed({"bits"}) <=> requests[c].op = "remove" /\ requests[c].pc = "bits"
  BY <1>1 DEF Removed
<1>3. /\ InProgress({"prepare"}) <=> requests[c].op = "prepare"
      /\ InProgress({"pause", "resume"}) <=> requests[c].op \in {"pause", "resume"}
  BY <1>1 DEF InProgress
<1> QED BY <1>2, <1>3 DEF Stands

LEMMA OnlyChangeNext ==
    ASSUME NEW c \in Call, \A d \in Call \ {c} : requests'[d].op \in {"none", "range"}
    PROVE  Stands(requests[c])'
<1>1. \A d \in Call \ {c} : requests'[d].op \notin {"remove", "prepare", "pause", "resume"}
  OBVIOUS
<1>2. /\ Removed({"session"})' <=> requests'[c].op = "remove" /\ requests'[c].pc = "session"
      /\ Removed({"bits"})' <=> requests'[c].op = "remove" /\ requests'[c].pc = "bits"
  BY <1>1 DEF Removed
<1>3. /\ InProgress({"prepare"})' <=> requests'[c].op = "prepare"
      /\ InProgress({"pause", "resume"})' <=> requests'[c].op \in {"pause", "resume"}
  BY <1>1 DEF InProgress
<1> QED BY <1>2, <1>3 DEF Stands

\* Next to a change there are only reads of a range, and nothing next to a removal.
LEMMA Beside ==
    ASSUME EngineTyped, Whole, NEW c \in Call, requests[c].op \in Changes
    PROVE  /\ \A d \in Call \ {c} : requests[d].op \in {"none", "range"}
           /\ requests[c].op = "remove" \/ ~lib.live => \A d \in Call \ {c} : requests[d].op = "none"
<1>1. N!Busy(c) /\ requests[c].op # "range" /\ requests[c].op # "none"
  BY DEF Whole, Holding, N!Busy, Changes
<1> SUFFICES ASSUME NEW d \in Call \ {c}
             PROVE  /\ requests[d].op \in {"none", "range"}
                    /\ requests[c].op = "remove" \/ ~lib.live => requests[d].op = "none"
  OBVIOUS
<1>2. Holding(requests[d])
  BY DEF Whole
<1>3. CASE N!Busy(d)
  <2>1. requests[c].op # "remove" /\ requests[d].op = "range"
    BY <1>1, <1>3 DEF Whole, Apart
  <2> QED BY <1>2, <2>1 DEF Holding
<1>4. CASE ~N!Busy(d)
  BY <1>2, <1>4 DEF Holding, N!Busy
<1> QED BY <1>3, <1>4

\* A call that goes on or returns leaves the others apart and with what they hold.
LEMMA RequestApart ==
    ASSUME EngineTyped, Whole, NEW c \in Call, requests' \in [Call -> Request],
           \A d \in Call \ {c} : requests'[d] = requests[d],
           requests'[c].op \in {"none", requests[c].op}, requests[c].op # "none",
           Holding(requests[c])',
           lib'.live = lib.live \/ \A d \in Call \ {c} : requests[d].op = "none"
    PROVE  Apart' /\ \A d \in Call : Holding(requests[d])'
<1>1. N!Busy(c)
  BY DEF Whole, Holding, N!Busy
<1>2. N!Busy(c)' => requests'[c].op = requests[c].op
  BY DEF Holding, N!Busy
<1>3. \A d \in Call \ {c} : N!Busy(d)' <=> N!Busy(d)
  BY DEF N!Busy
<1>4. Apart'
  <2> SUFFICES ASSUME NEW d \in Call, NEW e \in Call, d # e, N!Busy(d)', N!Busy(e)'
               PROVE  /\ "remove" \notin {requests'[d].op, requests'[e].op}
                      /\ "range" \in {requests'[d].op, requests'[e].op}
    BY DEF Apart
  <2>1. N!Busy(d) /\ requests'[d].op = requests[d].op
    BY <1>1, <1>2, <1>3
  <2>2. N!Busy(e) /\ requests'[e].op = requests[e].op
    BY <1>1, <1>2, <1>3
  <2> QED BY <2>1, <2>2 DEF Whole, Apart
<1>5. \A d \in Call \ {c} : Holding(requests[d])'
  <2> SUFFICES ASSUME NEW d \in Call \ {c} PROVE Holding(requests[d])'
    OBVIOUS
  <2>1. Holding(requests[d]) /\ requests'[d] = requests[d]
    BY DEF Whole
  <2>2. CASE lib'.live = lib.live
    BY <2>1, <2>2 DEF Holding
  <2>3. CASE requests[d].op = "none"
    BY <2>1, <2>3 DEF Holding
  <2> QED BY <2>2, <2>3
<1> QED BY <1>4, <1>5

\* What the process loses at a restart, the session file brings back.
LEMMA EngineRestartKeeps == ASSUME EngineTyped, Whole, N!Restart PROVE EngineInv'
<1>1. PICK e : e = store.entry
  OBVIOUS
<1>2. /\ session' = e /\ lib' = N!Loaded(e) /\ maps' = N!LoadedMaps(e)
      /\ store' = store /\ torn' = torn
      /\ requests' = [c \in Call |-> N!NoCall]
  BY <1>1 DEF N!Restart
<1>3. e \in N!Entry /\ e = session
  BY <1>1 DEF EngineTyped, Kept, Whole, Agree
<1>4. ~e.meta => e = N!NoEntry
  BY <1>3 DEF Whole, Agree
<1>5. /\ lib' \in Library /\ maps' \in Maps /\ lib'.live = e.meta /\ lib'.wanted = e.sel
      /\ lib'.allowed = ~e.paused /\ maps'.sel = e.sel /\ maps'.paused = e.paused
      /\ lib'.raised = maps'.window /\ (~e.meta => maps'.window = {})
  BY <1>2, <1>3, <1>4, Loads
<1>6. requests' \in [Call -> Request] /\ \A c \in Call : requests'[c].op = "none" /\ requests'[c].pc = "idle"
  BY <1>2, Entries
<1>7. EngineTyped'
  BY <1>2, <1>3, <1>5, <1>6 DEF EngineTyped
<1>8. Apart' /\ \A c \in Call : Holding(requests[c])'
  BY <1>6 DEF Apart, Holding, N!Busy
<1>9. ~Removed({"bits"})'
  BY <1>6 DEF Removed
<1>10. ~e.meta => e.sel = {} /\ ~e.paused
  BY <1>4, Entries
<1>11. Agree'
  BY <1>1, <1>2, <1>4, <1>5, <1>6, <1>9, <1>10 DEF Agree
<1> QED BY <1>7, <1>8, <1>11 DEF EngineInv, Whole

\* A call that returns leaves the others apart.
LEMMA RequestReturns ==
    ASSUME EngineTyped, Whole, NEW c \in Call, requests[c].op # "none", N!End(c),
           lib'.live = lib.live \/ \A d \in Call \ {c} : requests[d].op = "none"
    PROVE  /\ requests' \in [Call -> Request] /\ requests'[c].op = "none"
           /\ \A d \in Call \ {c} : requests'[d] = requests[d]
           /\ Apart' /\ \A d \in Call : Holding(requests[d])'
<1>1. /\ requests' \in [Call -> Request]
      /\ requests'[c].pc = "idle" /\ requests'[c].op = "none"
      /\ \A d \in Call \ {c} : requests'[d] = requests[d]
  BY RequestEnds
<1>2. Holding(requests[c])'
  BY <1>1 DEF Holding
<1>3. Apart' /\ \A d \in Call : Holding(requests[d])'
  BY <1>1, <1>2, RequestApart
<1> QED BY <1>1, <1>3

\* A save that succeeds: the entries in memory are those of the file.
LEMMA Saved ==
    ASSUME EngineTyped, NEW entry \in N!Entry, N!Save(entry)
    PROVE  /\ session' = entry /\ store' \in Kept /\ torn' \in BOOLEAN
           /\ store'.bits = store.bits /\ store'.data = store.data
           /\ ~torn' => ~torn /\ store'.entry = entry
<1>1. CASE store' = [store EXCEPT !.entry = entry] /\ UNCHANGED torn
  BY <1>1 DEF N!Save, EngineTyped, Kept
<1>2. CASE UNCHANGED store /\ torn' = TRUE
  BY <1>2 DEF N!Save, EngineTyped
<1> QED BY <1>1, <1>2 DEF N!Save

LEMMA EngineAddKeeps == ASSUME EngineTyped, Whole, NEW c \in Call, N!Add(c) PROVE EngineInv'
<1>1. requests[c].op = "add" /\ requests[c].op \in Changes /\ N!End(c) /\ maps' = maps
  BY DEF N!Add, Changes
<1>2. /\ \A d \in Call \ {c} : requests[d].op \in {"none", "range"}
      /\ ~lib.live => \A d \in Call \ {c} : requests[d].op = "none"
  BY <1>1, Beside
<1>3. Stands(requests[c])
  BY <1>2, OnlyChange
<1>4. CASE lib.live /\ UNCHANGED <<lib, session, store, torn>>
  <2>1. /\ requests' \in [Call -> Request] /\ requests'[c].op = "none"
        /\ \A d \in Call \ {c} : requests'[d] = requests[d]
        /\ Apart' /\ \A d \in Call : Holding(requests[d])'
    BY <1>1, <1>4, RequestReturns
  <2>2. Stands(requests[c])'
    BY <1>2, <2>1, OnlyChangeNext
  <2>3. \A d \in Call : requests'[d] = requests[d] \/ requests'[d].op = "none"
    BY <2>1
  <2>4. Agree'
    BY <1>1, <1>3, <1>4, <2>1, <2>2, <2>3 DEF Agree, Whole, Stands
  <2>5. EngineTyped'
    BY <1>1, <1>4, <2>1 DEF EngineTyped
  <2> QED BY <2>1, <2>4, <2>5 DEF EngineInv, Whole
<1>5. CASE ~lib.live /\ lib' = [N!NoTorrent EXCEPT !.live = TRUE]
  <2>1. /\ requests' \in [Call -> Request] /\ requests'[c].op = "none"
        /\ \A d \in Call \ {c} : requests'[d] = requests[d]
        /\ Apart' /\ \A d \in Call : Holding(requests[d])'
    BY <1>1, <1>2, <1>5, RequestReturns
  <2>2. Stands(requests[c])'
    BY <1>2, <2>1, OnlyChangeNext
  <2>3. PICK n \in Library : n = N!NoTorrent /\ n.wanted = {} /\ n.allowed /\ n.raised = {}
    BY Entries
  <2>4. lib' \in Library /\ lib'.live /\ lib'.wanted = {} /\ lib'.allowed = n.allowed /\ lib'.raised = {}
    BY <1>5, <2>3 DEF Library
  <2>5. ~session.meta
    BY <1>1, <1>3, <1>5 DEF Whole, Agree, Stands
  <2>6. session \in N!Entry /\ session = N!NoEntry
    BY <2>5 DEF Whole, Agree, EngineTyped
  <2>7. PICK e : e = [session EXCEPT !.meta = TRUE]
    OBVIOUS
  <2>8. e \in N!Entry /\ e.meta /\ e.sel = {} /\ ~e.paused
    BY <2>6, <2>7, Entries DEF N!Entry
  <2>9. CASE N!Save(e)
    <3>1. /\ session' = e /\ store' \in Kept /\ torn' \in BOOLEAN
          /\ store'.bits = store.bits /\ store'.data = store.data
          /\ ~torn' => ~torn /\ store'.entry = e
      BY <2>8, <2>9, Saved
    <3>2. EngineTyped'
      BY <1>1, <2>1, <2>4, <2>8, <3>1 DEF EngineTyped
    <3>3. maps.sel = {} /\ ~maps.paused /\ maps.window = {} /\ maps.paused \in BOOLEAN /\ e.paused \in BOOLEAN
      BY <1>5, <2>8 DEF Whole, Agree, EngineTyped, Maps, N!Entry
    <3>4. lib'.allowed = ~e.paused /\ e.paused = maps.paused
      BY <2>3, <2>4, <2>8, <3>3 DEF Library
    <3>5. \A d \in Call : requests'[d].op = "none"
      BY <1>2, <1>5, <2>1
    <3>6. ASSUME ~torn' PROVE Agree'
      BY <1>1, <2>1, <2>2, <2>4, <2>6, <2>8, <3>1, <3>3, <3>4, <3>5, <3>6 DEF Agree, Stands
    <3> QED BY <2>1, <3>2, <3>6 DEF EngineInv, Whole
  <2>10. CASE torn' = TRUE /\ UNCHANGED <<session, store>>
    BY <1>1, <2>1, <2>4, <2>10 DEF EngineInv, EngineTyped
  <2> QED BY <1>5, <2>7, <2>9, <2>10 DEF N!Add
<1> QED BY <1>4, <1>5 DEF N!Add

\* Steering moves the window of a torrent that is there to the pieces asked for.
LEMMA Steers ==
    ASSUME EngineTyped, NEW c \in Call, requests[c].t = "current", NEW to \in SUBSET Piece,
           NEW m \in Maps, N!Steer(c, to, m), lib.raised = m.window
    PROVE  /\ lib' \in Library /\ maps' \in Maps
           /\ lib'.live = lib.live /\ lib'.wanted = lib.wanted /\ lib'.allowed = lib.allowed
           /\ lib'.raised = to /\ maps'.window = to
           /\ maps'.sel = m.sel /\ maps'.paused = m.paused
<1>1. maps' = [m EXCEPT !.window = to, !.steered = TRUE]
  BY DEF N!Steer
<1>2. maps' \in Maps /\ maps'.window = to /\ maps'.sel = m.sel /\ maps'.paused = m.paused
  BY <1>1 DEF Maps
<1>3. lib' = [lib EXCEPT !.raised = (lib.raised \ m.window) \cup to]
  BY DEF N!Steer, N!Raised, EngineTyped, Library
<1>4. (lib.raised \ m.window) \cup to = to
  OBVIOUS
<1>5. lib' = [lib EXCEPT !.raised = to]
  BY <1>3, <1>4
<1>6. /\ lib' \in Library /\ lib'.raised = to
      /\ lib'.live = lib.live /\ lib'.wanted = lib.wanted /\ lib'.allowed = lib.allowed
  BY <1>5 DEF EngineTyped, Library
<1> QED BY <1>2, <1>6

LEMMA EnginePrepareKeeps == ASSUME EngineTyped, Whole, NEW c \in Call, N!Prepare(c) PROVE EngineInv'
<1>1. requests[c].op = "prepare" /\ requests[c].op \in Changes /\ N!End(c)
  BY DEF N!Prepare, Changes
<1>2. \A d \in Call \ {c} : requests[d].op \in {"none", "range"}
  BY <1>1, Beside
<1>3. Stands(requests[c]) /\ Holding(requests[c])
  BY <1>2, OnlyChange DEF Whole
<1>4. lib.live /\ requests[c].t = "current"
  BY <1>1, <1>3 DEF Holding
<1>5. PICK pieces \in SUBSET Piece : pieces = requests[c].arg
  BY DEF EngineTyped, Request
<1>6. lib.wanted = pieces
  BY <1>1, <1>5 DEF Whole, Agree
<1>7. PICK e : e = [session EXCEPT !.sel = pieces]
  OBVIOUS
<1>8. e \in N!Entry /\ e.meta = session.meta /\ e.sel = pieces /\ e.paused = session.paused
  BY <1>7 DEF EngineTyped, N!Entry
<1>9. CASE session' = e /\ torn' = TRUE /\ UNCHANGED <<maps, lib, store>>
  <2>1. requests' \in [Call -> Request]
    BY <1>1, RequestEnds
  <2> QED BY <1>8, <1>9, <2>1 DEF EngineInv, EngineTyped
<1>10. CASE /\ N!Save(e)
            /\ IF maps.steered
               THEN maps' = [maps EXCEPT !.sel = pieces] /\ UNCHANGED lib
               ELSE N!Steer(c, N!Head(pieces), [maps EXCEPT !.sel = pieces])
  <2>1. /\ session' = e /\ store' \in Kept /\ torn' \in BOOLEAN
        /\ store'.bits = store.bits /\ store'.data = store.data
        /\ ~torn' => ~torn /\ store'.entry = e
    BY <1>8, <1>10, Saved
  <2>2. maps.sel = session.sel /\ maps.paused = session.paused /\ lib.raised = maps.window /\ session.meta
        /\ lib.allowed = ~session.paused /\ maps \in Maps /\ lib \in Library
    BY <1>1, <1>3, <1>4 DEF Whole, Agree, Stands, EngineTyped
  <2>3. PICK m : m = [maps EXCEPT !.sel = pieces]
    OBVIOUS
  <2>4. m \in Maps /\ m.sel = pieces /\ m.paused = maps.paused /\ m.window = maps.window
    BY <2>2, <2>3 DEF Maps
  <2>5. /\ lib' \in Library /\ maps' \in Maps
        /\ lib'.live = lib.live /\ lib'.wanted = lib.wanted /\ lib'.allowed = lib.allowed
        /\ lib'.raised = maps'.window
        /\ maps'.sel = pieces /\ maps'.paused = maps.paused
    <3>1. CASE maps.steered
      BY <1>10, <2>2, <2>3, <2>4, <3>1
    <3>2. CASE ~maps.steered
      <4>1. PICK to : to = N!Head(pieces)
        OBVIOUS
      <4>2. pieces # {}
        BY <1>1, <1>3, <1>5 DEF Holding
      <4>3. to \in SUBSET Piece
        BY <4>1, <4>2, HeadTyped
      <4>4. N!Steer(c, to, m)
        BY <1>10, <2>3, <3>2, <4>1
      <4>5. lib.raised = m.window
        BY <2>2, <2>4
      <4> QED BY <1>4, <2>4, <4>3, <4>4, <4>5, Steers
    <3> QED BY <3>1, <3>2
  <2>6. /\ requests' \in [Call -> Request] /\ requests'[c].op = "none"
        /\ \A d \in Call \ {c} : requests'[d] = requests[d]
        /\ Apart' /\ \A d \in Call : Holding(requests[d])'
    BY <1>1, <2>5, RequestReturns
  <2>7. Stands(requests[c])'
    BY <1>2, <2>6, OnlyChangeNext
  <2>8. EngineTyped'
    BY <1>8, <2>1, <2>5, <2>6 DEF EngineTyped
  <2>9. \A d \in Call : requests'[d].op \in {"none", "range"}
    BY <1>2, <2>6
  <2>10. ASSUME ~torn' PROVE Agree'
    BY <1>4, <1>6, <1>8, <2>1, <2>2, <2>5, <2>6, <2>7, <2>9, <2>10 DEF Agree, Stands
  <2> QED BY <2>6, <2>8, <2>10 DEF EngineInv, Whole
<1> QED BY <1>5, <1>7, <1>9, <1>10 DEF N!Prepare

\* Calls whose start and end show neither in the library nor in the maps.
Silent(q) == q.op \in {"none", "add", "range"} \/ (q.op = "remove" /\ q.pc = "locked")

LEMMA SameProgress ==
    ASSUME NEW c \in Call, \A d \in Call \ {c} : requests'[d] = requests[d],
           Silent(requests[c]), Silent(requests[c])'
    PROVE  /\ Removed({"session"})' <=> Removed({"session"})
           /\ Removed({"bits"})' <=> Removed({"bits"})
           /\ InProgress({"prepare"})' <=> InProgress({"prepare"})
           /\ InProgress({"pause", "resume"})' <=> InProgress({"pause", "resume"})
           /\ \A d \in Call : requests'[d].op \in {"prepare", "pause", "resume"} => requests'[d] = requests[d]
<1>1. /\ ~(requests[c].op = "remove" /\ requests[c].pc \in {"bits", "session", "data"})
      /\ ~(requests'[c].op = "remove" /\ requests'[c].pc \in {"bits", "session", "data"})
  BY DEF Silent
<1>2. requests[c].op \notin {"prepare", "pause", "resume"} /\ requests'[c].op \notin {"prepare", "pause", "resume"}
  BY DEF Silent
<1>3. /\ Removed({"session"})' <=> Removed({"session"})
      /\ Removed({"bits"})' <=> Removed({"bits"})
  BY <1>1 DEF Removed
<1>4. /\ InProgress({"prepare"})' <=> InProgress({"prepare"})
      /\ InProgress({"pause", "resume"})' <=> InProgress({"pause", "resume"})
  BY <1>2 DEF InProgress
<1> QED BY <1>2, <1>3, <1>4

LEMMA SilentAgrees ==
    ASSUME Agree, NEW c \in Call, \A d \in Call \ {c} : requests'[d] = requests[d],
           Silent(requests[c]), Silent(requests[c])', UNCHANGED <<lib, maps, session, store>>
    PROVE  Agree'
  BY SameProgress DEF Agree

LEMMA EngineRangeKeeps == ASSUME EngineTyped, Whole, ~torn, NEW c \in Call, N!Range(c) PROVE EngineInv'
<1>1. requests[c].op = "range" /\ N!End(c) /\ session' = session /\ store' = store /\ torn' = torn
      /\ N!Steer(c, requests[c].arg, maps)
  BY DEF N!Range
<1>2. Holding(requests[c])
  BY DEF Whole
<1>3. lib.live /\ requests[c].t = "current" /\ N!Busy(c)
  BY <1>1, <1>2 DEF Holding, N!Busy
<1>4. \A d \in Call : requests[d].op # "remove"
  BY <1>1, <1>3 DEF Whole, Holding, Apart, N!Busy
<1>5. ~Removed({"bits"}) /\ ~Removed({"session"})
  BY <1>4 DEF Removed
<1>6. maps.sel = session.sel /\ maps.paused = session.paused /\ lib.raised = maps.window /\ maps \in Maps
  BY <1>3, <1>5 DEF Whole, Agree, EngineTyped
<1>7. PICK to \in SUBSET Piece : to = requests[c].arg
  BY DEF EngineTyped, Request
<1>8. /\ lib' \in Library /\ maps' \in Maps
      /\ lib'.live = lib.live /\ lib'.wanted = lib.wanted /\ lib'.allowed = lib.allowed
      /\ lib'.raised = to /\ maps'.window = to
      /\ maps'.sel = maps.sel /\ maps'.paused = maps.paused
  BY <1>1, <1>3, <1>6, <1>7, Steers
<1>9. /\ requests' \in [Call -> Request] /\ requests'[c].op = "none"
      /\ \A d \in Call \ {c} : requests'[d] = requests[d]
      /\ Apart' /\ \A d \in Call : Holding(requests[d])'
  BY <1>1, <1>8, RequestReturns
<1>10. Silent(requests[c]) /\ Silent(requests[c])'
  BY <1>1, <1>9 DEF Silent
<1>11. /\ Removed({"session"})' <=> Removed({"session"})
       /\ Removed({"bits"})' <=> Removed({"bits"})
       /\ InProgress({"prepare"})' <=> InProgress({"prepare"})
       /\ InProgress({"pause", "resume"})' <=> InProgress({"pause", "resume"})
       /\ \A d \in Call : requests'[d].op \in {"prepare", "pause", "resume"} => requests'[d] = requests[d]
  BY <1>9, <1>10, SameProgress
<1>12. Agree'
  BY <1>1, <1>3, <1>5, <1>6, <1>8, <1>11 DEF Whole, Agree
<1>13. EngineTyped'
  BY <1>1, <1>8, <1>9 DEF EngineTyped
<1> QED BY <1>9, <1>12, <1>13 DEF EngineInv, Whole

LEMMA EnginePauseKeeps == ASSUME EngineTyped, Whole, NEW c \in Call, N!Pause(c) PROVE EngineInv'
<1>1. requests[c].op \in {"pause", "resume"} /\ requests[c].op \in Changes /\ N!End(c) /\ lib' = lib
  BY DEF N!Pause, Changes
<1>2. \A d \in Call \ {c} : requests[d].op \in {"none", "range"}
  BY <1>1, Beside
<1>3. Stands(requests[c]) /\ Holding(requests[c])
  BY <1>2, OnlyChange DEF Whole
<1>4. lib.live
  BY <1>1, <1>3 DEF Holding
<1>5. PICK on \in BOOLEAN : on = (requests[c].op = "pause")
  OBVIOUS
<1>6. lib.allowed = ~on
  BY <1>1, <1>5 DEF Whole, Agree
<1>7. PICK failed \in BOOLEAN : failed = (maps.failed /\ on)
  OBVIOUS
<1>8. maps' = [maps EXCEPT !.paused = on, !.failed = failed]
  BY <1>5, <1>7 DEF N!Pause, EngineTyped, Maps
<1>9. maps' \in Maps /\ maps'.paused = on /\ maps'.sel = maps.sel /\ maps'.window = maps.window
  BY <1>8 DEF EngineTyped, Maps
<1>10. PICK e : e = [session EXCEPT !.paused = on]
  OBVIOUS
<1>11. e \in N!Entry /\ e.meta = session.meta /\ e.sel = session.sel /\ e.paused = on
  BY <1>10 DEF EngineTyped, N!Entry
<1>12. N!Save(e)
  BY <1>5, <1>10 DEF N!Pause
<1>13. /\ session' = e /\ store' \in Kept /\ torn' \in BOOLEAN
       /\ store'.bits = store.bits /\ store'.data = store.data
       /\ ~torn' => ~torn /\ store'.entry = e
  BY <1>11, <1>12, Saved
<1>14. /\ requests' \in [Call -> Request] /\ requests'[c].op = "none"
       /\ \A d \in Call \ {c} : requests'[d] = requests[d]
       /\ Apart' /\ \A d \in Call : Holding(requests[d])'
  BY <1>1, RequestReturns
<1>15. Stands(requests[c])'
  BY <1>2, <1>14, OnlyChangeNext
<1>16. EngineTyped'
  BY <1>1, <1>9, <1>11, <1>13, <1>14 DEF EngineTyped
<1>17. maps.sel = session.sel /\ lib.raised = maps.window /\ session.meta /\ lib.wanted = session.sel
  BY <1>1, <1>3, <1>4 DEF Whole, Agree, Stands
<1>18. \A d \in Call : requests'[d].op \in {"none", "range"}
  BY <1>2, <1>14
<1>19. ASSUME ~torn' PROVE Agree'
  BY <1>1, <1>4, <1>6, <1>9, <1>11, <1>13, <1>14, <1>15, <1>17, <1>18, <1>19 DEF Agree, Stands
<1> QED BY <1>14, <1>16, <1>19 DEF EngineInv, Whole

\* A call that starts when the torrent is there, or may start when it is not.
LEMMA RequestStarts ==
    ASSUME EngineTyped, Whole, NEW c \in Call, NEW op \in Changes \cup {"range"},
           NEW arg \in SUBSET Piece, N!Begin(c, op, arg), lib'.live = lib.live,
           op \in {"add", "remove"} \/ lib.live, op = "prepare" => arg # {}
    PROVE  /\ requests' \in [Call -> Request] /\ torn' \in BOOLEAN
           /\ requests[c].op = "none" /\ requests'[c].pc = "locked"
           /\ requests'[c].op = op /\ requests'[c].arg = arg
           /\ \A d \in Call \ {c} : requests'[d] = requests[d]
           /\ ~torn' => /\ Apart' /\ \A d \in Call : Holding(requests[d])'
                        /\ op \in Changes => \A d \in Call \ {c} : requests[d].op \in {"none", "range"}
<1>1. /\ requests' \in [Call -> Request] /\ torn' \in BOOLEAN
      /\ requests[c].pc = "idle"
      /\ requests'[c].pc = "locked" /\ requests'[c].op = op /\ requests'[c].arg = arg
      /\ requests'[c].t = IF lib.live THEN "current" ELSE "nil"
      /\ \A d \in Call \ {c} : requests'[d] = requests[d]
      /\ ~torn' => /\ ~torn /\ Apart'
                   /\ \A d \in Call \ {c} : N!Busy(d) => op # "remove" /\ requests[d].op # "remove"
                                                        /\ "range" \in {op, requests[d].op}
  BY RequestBegins DEF Whole
<1>2. requests[c].op = "none"
  BY <1>1 DEF Whole, Holding
<1>3. op # "none" /\ (op \in Changes => op # "range")
  BY DEF Changes
<1>4. Holding(requests[c])'
  <2>1. CASE lib.live
    BY <1>1, <1>3, <2>1 DEF Holding
  <2>2. CASE ~lib.live
    BY <1>1, <1>3, <2>2 DEF Holding
  <2> QED BY <2>1, <2>2
<1>5. \A d \in Call \ {c} : Holding(requests[d])'
  <2> SUFFICES ASSUME NEW d \in Call \ {c} PROVE Holding(requests[d])'
    OBVIOUS
  <2> QED BY <1>1 DEF Whole, Holding
<1>6. ASSUME ~torn', op \in Changes, NEW d \in Call \ {c} PROVE requests[d].op \in {"none", "range"}
  <2>1. Holding(requests[d])
    BY DEF Whole
  <2>2. CASE N!Busy(d)
    BY <1>1, <1>3, <1>6, <2>2
  <2>3. CASE ~N!Busy(d)
    BY <2>1, <2>3 DEF Holding, N!Busy
  <2> QED BY <2>2, <2>3
<1> QED BY <1>1, <1>2, <1>4, <1>5, <1>6

\* Add, a read of a range and a removal start with a lookup alone.
LEMMA EngineLooksKeeps ==
    ASSUME EngineTyped, Whole, NEW c \in Call, N!BeginAdd(c) \/ N!BeginRange(c) \/ N!BeginRemove(c)
    PROVE  EngineInv'
<1>1. PICK op \in {"add", "range", "remove"}, arg \in SUBSET Piece :
          N!Begin(c, op, arg) /\ (op = "range" => lib.live)
  BY DEF N!BeginAdd, N!BeginRange, N!BeginRemove
<1>2. UNCHANGED <<lib, maps, session, store>>
  BY DEF N!BeginAdd, N!BeginRange, N!BeginRemove
<1>3. op \in Changes \cup {"range"} /\ op # "prepare" /\ (op \in {"add", "remove"} \/ lib.live)
  BY <1>1 DEF Changes
<1>4. /\ requests' \in [Call -> Request] /\ torn' \in BOOLEAN
      /\ requests[c].op = "none" /\ requests'[c].pc = "locked"
      /\ requests'[c].op = op /\ requests'[c].arg = arg
      /\ \A d \in Call \ {c} : requests'[d] = requests[d]
      /\ ~torn' => Apart' /\ \A d \in Call : Holding(requests[d])'
  BY <1>1, <1>2, <1>3, RequestStarts
<1>5. Silent(requests[c]) /\ Silent(requests[c])'
  BY <1>1, <1>4 DEF Silent
<1>6. Agree'
  BY <1>2, <1>4, <1>5, SilentAgrees DEF Whole
<1>7. EngineTyped'
  BY <1>2, <1>4 DEF EngineTyped
<1> QED BY <1>4, <1>6, <1>7 DEF EngineInv, Whole

\* The same of a call that changes something: the others only read.
LEMMA ChangeStarts ==
    ASSUME EngineTyped, Whole, NEW c \in Call, NEW op \in Changes,
           NEW arg \in SUBSET Piece, N!Begin(c, op, arg), lib'.live = lib.live, lib.live,
           op = "prepare" => arg # {}
    PROVE  /\ requests' \in [Call -> Request] /\ torn' \in BOOLEAN
           /\ requests[c].op = "none" /\ requests'[c].pc = "locked"
           /\ requests'[c].op = op /\ requests'[c].arg = arg
           /\ \A d \in Call \ {c} : requests'[d] = requests[d]
           /\ ~torn' => /\ Apart' /\ \A d \in Call : Holding(requests[d])'
                        /\ \A d \in Call \ {c} : requests[d].op \in {"none", "range"}
<1>1. op \in Changes \cup {"range"}
  OBVIOUS
<1> QED BY <1>1, RequestStarts

\* PrepareFiles, Pause and Resume tell the library first.
LEMMA EngineBeginPrepareKeeps == ASSUME EngineTyped, Whole, NEW c \in Call, N!BeginPrepare(c) PROVE EngineInv'
<1>1. PICK pieces \in (SUBSET Piece) \ {{}} : N!Begin(c, "prepare", pieces) /\ lib' = [lib EXCEPT !.wanted = pieces]
  BY DEF N!BeginPrepare
<1>2. lib.live /\ UNCHANGED <<maps, session, store>>
  BY DEF N!BeginPrepare
<1>3. /\ lib' \in Library /\ lib'.live = lib.live /\ lib'.allowed = lib.allowed /\ lib'.raised = lib.raised
      /\ lib'.wanted = pieces
  BY <1>1 DEF EngineTyped, Library
<1>4. "prepare" \in Changes /\ pieces \in SUBSET Piece
  BY DEF Changes
<1>5. /\ requests' \in [Call -> Request] /\ torn' \in BOOLEAN
      /\ requests[c].op = "none" /\ requests'[c].pc = "locked"
      /\ requests'[c].op = "prepare" /\ requests'[c].arg = pieces
      /\ \A d \in Call \ {c} : requests'[d] = requests[d]
      /\ ~torn' => /\ Apart' /\ \A d \in Call : Holding(requests[d])'
                   /\ \A d \in Call \ {c} : requests[d].op \in {"none", "range"}
  <2>1. lib'.live = lib.live /\ lib.live /\ pieces # {}
    BY <1>1, <1>2, <1>3
  <2> QED BY <1>1, <1>4, <2>1, ChangeStarts
<1>6. EngineTyped'
  BY <1>2, <1>3, <1>5 DEF EngineTyped
<1>7. ASSUME ~torn' PROVE Agree'
  <2>1. Stands(requests[c])
    BY <1>5, <1>7, OnlyChange
  <2>2. Stands(requests[c])'
    BY <1>5, <1>7, OnlyChangeNext
  <2>3. \A d \in Call \ {c} : requests'[d].op \in {"none", "range"}
    BY <1>5, <1>7
  <2> QED BY <1>2, <1>3, <1>5, <2>1, <2>2, <2>3 DEF Whole, Agree, Stands
<1> QED BY <1>5, <1>6, <1>7 DEF EngineInv, Whole

LEMMA EngineBeginPauseKeeps == ASSUME EngineTyped, Whole, NEW c \in Call, N!BeginPause(c) PROVE EngineInv'
<1>1. PICK op \in {"pause", "resume"} : N!Begin(c, op, {}) /\ lib' = [lib EXCEPT !.allowed = (op = "resume")]
  BY DEF N!BeginPause
<1>2. lib.live /\ UNCHANGED <<maps, session, store>>
  BY DEF N!BeginPause
<1>3. PICK allowed \in BOOLEAN : allowed = (op = "resume")
  OBVIOUS
<1>4. /\ lib' \in Library /\ lib'.live = lib.live /\ lib'.allowed = allowed /\ lib'.raised = lib.raised
      /\ lib'.wanted = lib.wanted
  BY <1>1, <1>3 DEF EngineTyped, Library
<1>5. op \in Changes /\ op # "prepare" /\ {} \in SUBSET Piece
  BY DEF Changes
<1>6. /\ requests' \in [Call -> Request] /\ torn' \in BOOLEAN
      /\ requests[c].op = "none" /\ requests'[c].pc = "locked"
      /\ requests'[c].op = op
      /\ \A d \in Call \ {c} : requests'[d] = requests[d]
      /\ ~torn' => /\ Apart' /\ \A d \in Call : Holding(requests[d])'
                   /\ \A d \in Call \ {c} : requests[d].op \in {"none", "range"}
  <2>1. lib'.live = lib.live /\ lib.live
    BY <1>2, <1>4
  <2> QED BY <1>1, <1>5, <2>1, ChangeStarts
<1>7. EngineTyped'
  BY <1>2, <1>4, <1>6 DEF EngineTyped
<1>8. ASSUME ~torn' PROVE Agree'
  <2>1. Stands(requests[c])
    BY <1>6, <1>8, OnlyChange
  <2>2. Stands(requests[c])'
    BY <1>6, <1>8, OnlyChangeNext
  <2>3. \A d \in Call \ {c} : requests'[d].op \in {"none", "range"}
    BY <1>6, <1>8
  <2>4. lib'.allowed = (requests'[c].op = "resume")
    BY <1>3, <1>4, <1>6
  <2> QED BY <1>1, <1>2, <1>4, <1>6, <2>1, <2>2, <2>3, <2>4 DEF Whole, Agree, Stands
<1> QED BY <1>6, <1>7, <1>8 DEF EngineInv, Whole

\* The steps of a removal, next to which there is no other call.
LEMMA EngineForgetMapsKeeps == ASSUME EngineTyped, Whole, NEW c \in Call, N!ForgetMaps(c) PROVE EngineInv'
<1>1. /\ requests[c].op = "remove" /\ requests[c].op \in Changes /\ requests[c].pc = "locked"
      /\ maps' = N!NoMaps /\ UNCHANGED <<lib, session, store, torn>>
  BY DEF N!ForgetMaps, N!Removing, Changes
<1>2. \A d \in Call \ {c} : requests[d].op = "none"
  BY <1>1, Beside
<1>3. Stands(requests[c]) /\ Holding(requests[c])
  BY <1>2, OnlyChange DEF Whole
<1>4. PICK pc \in {"bits", "session"} : pc = IF requests[c].t = "nil" THEN "session" ELSE "bits"
  OBVIOUS
<1>5. PICK r \in Request : r = requests[c]
  BY DEF EngineTyped
<1>6. /\ requests' \in [Call -> Request]
      /\ requests'[c].pc = pc /\ requests'[c].op = requests[c].op /\ requests'[c].t = requests[c].t
      /\ \A d \in Call \ {c} : requests'[d] = requests[d]
  <2>1. PICK arg \in SUBSET Piece : arg = IF r.t = "nil" THEN r.arg ELSE Piece
    BY DEF Request
  <2>2. PICK q : q = [r EXCEPT !.pc = pc, !.arg = arg]
    OBVIOUS
  <2>3. q \in Request /\ q.pc = pc /\ q.op = r.op /\ q.t = r.t
    BY <2>2 DEF Request
  <2>4. requests' = [requests EXCEPT ![c] = IF r.t = "nil" THEN [r EXCEPT !.pc = "session"]
                                            ELSE [r EXCEPT !.pc = "bits", !.arg = Piece]]
    BY <1>5 DEF N!ForgetMaps, EngineTyped
  <2>5. q = IF r.t = "nil" THEN [r EXCEPT !.pc = "session"] ELSE [r EXCEPT !.pc = "bits", !.arg = Piece]
    BY <1>4, <1>5, <2>1, <2>2 DEF Request
  <2>6. requests' = [requests EXCEPT ![c] = q]
    BY <2>4, <2>5
  <2> QED BY <1>5, <2>3, <2>6 DEF EngineTyped
<1>7. pc = "bits" <=> lib.live
  BY <1>1, <1>3, <1>4 DEF Holding
<1>8. Holding(requests[c])'
  BY <1>1, <1>3, <1>6, <1>7 DEF Holding
<1>9. Apart' /\ \A d \in Call : Holding(requests[d])'
  BY <1>1, <1>2, <1>6, <1>8, RequestApart
<1>10. Stands(requests[c])'
  BY <1>2, <1>6, OnlyChangeNext
<1>11. EngineTyped'
  BY <1>1, <1>6, Entries DEF EngineTyped
<1>12. \A d \in Call : requests'[d].op \in {"none", "remove"}
  BY <1>1, <1>2, <1>6
<1>13. maps'.sel = {} /\ ~maps'.paused /\ maps'.window = {}
  BY <1>1, Entries
<1>14. Agree'
  BY <1>1, <1>3, <1>6, <1>7, <1>10, <1>12, <1>13 DEF Whole, Agree, Stands
<1> QED BY <1>9, <1>11, <1>14 DEF EngineInv, Whole

\* What one step of clearPieceCompletion does.
LEMMA ClearsOne ==
    ASSUME EngineTyped, NEW c \in Call, N!ClearBits(c)
    PROVE  \E p \in Piece :
              /\ store' \in Kept /\ store'.bits = store.bits \ {p} /\ store'.data = store.data
              /\ store'.entry = store.entry /\ late' = late \ {p}
              /\ requests' \in [Call -> Request] /\ requests'[c].arg = requests[c].arg \ {p}
              /\ requests'[c].op = requests[c].op /\ requests'[c].t = requests[c].t
              /\ requests'[c].pc = requests[c].pc
              /\ \A d \in Call \ {c} : requests'[d] = requests[d]
<1>1. PICK r \in Request : r = requests[c]
  BY DEF EngineTyped
<1>2. PICK p \in N!Head(r.arg) :
          /\ store' = [store EXCEPT !.bits = @ \ {p}] /\ late' = late \ {p}
          /\ requests' = [requests EXCEPT ![c].arg = @ \ {p}]
  BY <1>1 DEF N!ClearBits
<1>3. r.arg \in SUBSET Piece /\ r.arg # {}
  BY <1>1 DEF N!ClearBits, Request
<1>4. p \in Piece
  BY <1>2, <1>3, HeadTyped
<1>5. PICK q : q = [r EXCEPT !.arg = r.arg \ {p}]
  OBVIOUS
<1>6. q \in Request /\ q.arg = r.arg \ {p} /\ q.op = r.op /\ q.t = r.t /\ q.pc = r.pc
  BY <1>5 DEF Request
<1>7. requests' = [requests EXCEPT ![c] = q]
  BY <1>1, <1>2, <1>5 DEF EngineTyped
<1>8. /\ requests' \in [Call -> Request] /\ requests'[c] = q
      /\ \A d \in Call \ {c} : requests'[d] = requests[d]
  BY <1>6, <1>7 DEF EngineTyped
<1>9. /\ store' \in Kept /\ store'.bits = store.bits \ {p} /\ store'.data = store.data
      /\ store'.entry = store.entry
  BY <1>2 DEF EngineTyped, Kept
<1> QED BY <1>1, <1>2, <1>4, <1>6, <1>8, <1>9

LEMMA EngineClearBitsKeeps == ASSUME EngineTyped, Whole, NEW c \in Call, N!ClearBits(c) PROVE EngineInv'
<1>1. /\ requests[c].op = "remove" /\ requests[c].op \in Changes /\ requests[c].pc = "bits"
      /\ UNCHANGED <<lib, maps, session, torn>>
  BY DEF N!ClearBits, N!Removing, Changes
<1>2. \A d \in Call \ {c} : requests[d].op = "none"
  BY <1>1, Beside
<1>3. Stands(requests[c]) /\ Holding(requests[c])
  BY <1>2, OnlyChange DEF Whole
<1>4. /\ requests' \in [Call -> Request]
      /\ requests'[c].pc = "bits" /\ requests'[c].op = requests[c].op /\ requests'[c].t = requests[c].t
      /\ \A d \in Call \ {c} : requests'[d] = requests[d]
      /\ store' \in Kept /\ store'.entry = store.entry
  BY <1>1, ClearsOne
<1>5. Holding(requests[c])'
  BY <1>1, <1>3, <1>4 DEF Holding
<1>6. Apart' /\ \A d \in Call : Holding(requests[d])'
  BY <1>1, <1>2, <1>4, <1>5, RequestApart
<1>7. Stands(requests[c])'
  BY <1>2, <1>4, OnlyChangeNext
<1>8. EngineTyped'
  BY <1>1, <1>4 DEF EngineTyped
<1>9. \A d \in Call : requests'[d].op \in {"none", "remove"}
  BY <1>1, <1>2, <1>4
<1>10. Agree'
  BY <1>1, <1>3, <1>4, <1>7, <1>9 DEF Whole, Agree, Stands
<1> QED BY <1>6, <1>8, <1>10 DEF EngineInv, Whole

LEMMA EngineDropKeeps == ASSUME EngineTyped, Whole, NEW c \in Call, N!Drop(c) PROVE EngineInv'
<1>1. /\ requests[c].op = "remove" /\ requests[c].op \in Changes /\ requests[c].pc = "bits"
      /\ UNCHANGED <<maps, session, store, torn>>
  BY DEF N!Drop, N!Removing, Changes
<1>2. \A d \in Call \ {c} : requests[d].op = "none"
  BY <1>1, Beside
<1>3. Stands(requests[c]) /\ Holding(requests[c])
  BY <1>2, OnlyChange DEF Whole
<1>4. lib' = N!NoTorrent
  BY <1>1, <1>3 DEF N!Drop, Holding
<1>5. /\ requests' \in [Call -> Request] /\ requests'[c].pc = "session"
      /\ \A d \in Call : requests'[d].op = requests[d].op
      /\ \A d \in Call \ {c} : requests'[d].pc = requests[d].pc
  <2>1. ASSUME NEW d \in Call
        PROVE  /\ requests'[d] \in Request /\ requests'[d].op = requests[d].op
               /\ d = c => requests'[d].pc = "session"
               /\ d # c => requests'[d].pc = requests[d].pc
    <3>1. PICK r \in Request : r = requests[d]
      BY DEF EngineTyped
    <3>2. requests'[d] = IF d = c THEN [requests[c] EXCEPT !.pc = "session"]
                         ELSE IF requests[d].t = "current" THEN [requests[d] EXCEPT !.t = "dropped"]
                         ELSE requests[d]
      BY DEF N!Drop
    <3>3. CASE d = c
      <4>1. requests'[d] = [r EXCEPT !.pc = "session"]
        BY <3>1, <3>2, <3>3
      <4> QED BY <3>1, <3>3, <4>1 DEF Request
    <3>4. CASE d # c /\ r.t = "current"
      <4>1. requests'[d] = [r EXCEPT !.t = "dropped"]
        BY <3>1, <3>2, <3>4
      <4> QED BY <3>1, <3>4, <4>1 DEF Request
    <3>5. CASE d # c /\ r.t # "current"
      BY <3>1, <3>2, <3>5
    <3> QED BY <3>3, <3>4, <3>5
  <2>2. requests' = [d \in Call |-> requests'[d]]
    BY DEF N!Drop
  <2> QED BY <2>1, <2>2
<1>6. \A d \in Call : Holding(requests[d])'
  <2> SUFFICES ASSUME NEW d \in Call PROVE Holding(requests[d])'
    OBVIOUS
  <2>1. CASE d = c
    BY <1>1, <1>4, <1>5, <2>1, Entries DEF Holding
  <2>2. CASE d # c
    <3>1. requests'[d].op = "none" /\ requests'[d].pc = "idle"
      BY <1>2, <1>5, <2>2 DEF Whole, Holding
    <3> QED BY <3>1 DEF Holding
  <2> QED BY <2>1, <2>2
<1>7. Apart'
  <2>1. \A d \in Call \ {c} : ~N!Busy(d)'
    BY <1>2, <1>5 DEF Whole, Holding, N!Busy
  <2> QED BY <2>1 DEF Apart
<1>8. Stands(requests[c])'
  BY <1>2, <1>5, OnlyChangeNext
<1>9. EngineTyped'
  BY <1>1, <1>4, <1>5, Entries DEF EngineTyped
<1>10. \A d \in Call : requests'[d].op \in {"none", "remove"}
  BY <1>1, <1>2, <1>5
<1>11. requests'[c].op = "remove" /\ requests'[c].pc = "session" /\ ~lib'.live
  BY <1>1, <1>4, <1>5, Entries
<1>12. Agree'
  BY <1>1, <1>3, <1>8, <1>10, <1>11 DEF Whole, Agree, Stands
<1> QED BY <1>6, <1>7, <1>9, <1>12 DEF EngineInv, Whole

LEMMA EngineForgetEntryKeeps == ASSUME EngineTyped, Whole, NEW c \in Call, N!ForgetEntry(c) PROVE EngineInv'
<1>1. /\ requests[c].op = "remove" /\ requests[c].op \in Changes /\ requests[c].pc = "session"
      /\ N!Save(N!NoEntry) /\ requests' = [requests EXCEPT ![c].pc = "data"]
      /\ UNCHANGED <<lib, maps>>
  BY DEF N!ForgetEntry, N!Removing, N!Goes, Changes
<1>2. \A d \in Call \ {c} : requests[d].op = "none"
  BY <1>1, Beside
<1>3. Stands(requests[c]) /\ Holding(requests[c])
  BY <1>2, OnlyChange DEF Whole
<1>4. /\ requests' \in [Call -> Request]
      /\ requests'[c].pc = "data" /\ requests'[c].op = requests[c].op /\ requests'[c].t = requests[c].t
      /\ \A d \in Call \ {c} : requests'[d] = requests[d]
  BY <1>1, RequestGoes
<1>5. Holding(requests[c])'
  BY <1>1, <1>3, <1>4 DEF Holding
<1>6. Apart' /\ \A d \in Call : Holding(requests[d])'
  BY <1>1, <1>2, <1>4, <1>5, RequestApart
<1>7. Stands(requests[c])'
  BY <1>2, <1>4, OnlyChangeNext
<1>8. /\ session' = N!NoEntry /\ store' \in Kept /\ torn' \in BOOLEAN
      /\ store'.bits = store.bits /\ store'.data = store.data
      /\ ~torn' => ~torn /\ store'.entry = N!NoEntry
  BY <1>1, Entries, Saved
<1>9. EngineTyped'
  BY <1>1, <1>4, <1>8, Entries DEF EngineTyped
<1>10. \A d \in Call : requests'[d].op \in {"none", "remove"}
  BY <1>1, <1>2, <1>4
<1>11. ~lib.live /\ ~N!NoEntry.meta
  BY <1>1, <1>3, Entries DEF Holding
<1>12. ASSUME ~torn' PROVE Agree'
  BY <1>1, <1>3, <1>4, <1>7, <1>8, <1>10, <1>11, <1>12 DEF Whole, Agree, Stands
<1> QED BY <1>6, <1>9, <1>12 DEF EngineInv, Whole

LEMMA EngineDeleteDataKeeps == ASSUME EngineTyped, Whole, NEW c \in Call, N!DeleteData(c) PROVE EngineInv'
<1>1. /\ requests[c].op = "remove" /\ requests[c].op \in Changes /\ requests[c].pc = "data"
      /\ store' = [store EXCEPT !.data = {}] /\ N!End(c)
      /\ UNCHANGED <<lib, maps, session, torn>>
  BY DEF N!DeleteData, N!Removing, Changes
<1>2. \A d \in Call \ {c} : requests[d].op = "none"
  BY <1>1, Beside
<1>3. Stands(requests[c]) /\ Holding(requests[c])
  BY <1>2, OnlyChange DEF Whole
<1>4. /\ requests' \in [Call -> Request] /\ requests'[c].op = "none"
      /\ \A d \in Call \ {c} : requests'[d] = requests[d]
      /\ Apart' /\ \A d \in Call : Holding(requests[d])'
  BY <1>1, RequestReturns
<1>5. Stands(requests[c])'
  BY <1>2, <1>4, OnlyChangeNext
<1>6. store' \in Kept /\ store'.bits = store.bits /\ store'.entry = store.entry
  BY <1>1 DEF EngineTyped, Kept
<1>7. EngineTyped'
  BY <1>1, <1>4, <1>6 DEF EngineTyped
<1>8. \A d \in Call : requests'[d].op = "none"
  BY <1>2, <1>4
<1>9. ~lib.live
  BY <1>1, <1>3 DEF Holding
<1>10. Agree'
  BY <1>1, <1>3, <1>4, <1>5, <1>6, <1>8, <1>9 DEF Whole, Agree, Stands
<1> QED BY <1>4, <1>7, <1>10 DEF EngineInv, Whole

\* A piece that the library writes and marks, and the mark of one that a removal passed.
LEMMA Completes ==
    ASSUME EngineTyped, N!Complete
    PROVE  \E p \in Piece :
              /\ store' \in Kept /\ store'.bits = store.bits \cup {p} /\ store'.data = store.data \cup {p}
              /\ store'.entry = store.entry
              /\ late' = IF N!Passed(p) THEN late \cup {p} ELSE late \ {p}
<1>1. PICK p \in lib.wanted :
          /\ store' = [store EXCEPT !.bits = @ \cup {p}, !.data = @ \cup {p}]
          /\ late' = IF N!Passed(p) THEN late \cup {p} ELSE late \ {p}
  BY DEF N!Complete
<1>2. p \in Piece
  BY <1>1 DEF EngineTyped, Library
<1> QED BY <1>1, <1>2 DEF EngineTyped, Kept

LEMMA EngineCompleteKeeps == ASSUME EngineTyped, Whole, N!Complete PROVE EngineInv'
<1>1. UNCHANGED <<lib, maps, session, requests, torn>>
  BY DEF N!Complete
<1>2. store' \in Kept /\ store'.entry = store.entry
  BY Completes
<1>3. EngineTyped'
  BY <1>1, <1>2 DEF EngineTyped
<1>4. Agree'
  BY <1>1, <1>2 DEF Whole, Agree, Removed, InProgress
<1>5. Apart' /\ \A c \in Call : Holding(requests[c])'
  BY <1>1 DEF Whole, Apart, Holding, N!Busy
<1> QED BY <1>3, <1>4, <1>5 DEF EngineInv, Whole

LEMMA EngineReportKeeps == ASSUME EngineTyped, Whole, N!Report PROVE EngineInv'
<1>1. UNCHANGED <<lib, session, store, requests, torn>>
  BY DEF N!Report
<1>2. maps' \in Maps /\ maps'.sel = maps.sel /\ maps'.paused = maps.paused /\ maps'.window = maps.window
  BY DEF N!Report, EngineTyped, Maps
<1>3. EngineTyped'
  BY <1>1, <1>2 DEF EngineTyped
<1>4. Apart' /\ \A c \in Call : Holding(requests[c])'
  BY <1>1 DEF Whole, Apart, Holding, N!Busy
<1>5. Agree'
  BY <1>1, <1>2 DEF Whole, Agree, Removed, InProgress
<1> QED BY <1>3, <1>4, <1>5 DEF EngineInv, Whole

LEMMA EngineInitially == N!EngineInit => EngineInv
<1> SUFFICES ASSUME N!EngineInit PROVE EngineInv
  OBVIOUS
<1>1. \A c \in Call : requests[c].op = "none" /\ requests[c].pc = "idle"
  BY Entries DEF N!EngineInit
<1>2. requests \in [Call -> Request]
  BY Entries DEF N!EngineInit
<1>3. store \in Kept /\ store.entry = N!NoEntry
  BY Entries DEF N!EngineInit, Kept
<1>4. EngineTyped
  BY <1>2, <1>3, Entries DEF N!EngineInit, EngineTyped
<1>5. Apart /\ \A c \in Call : Holding(requests[c])
  BY <1>1 DEF Apart, Holding, N!Busy
<1>6. ~lib.live
  BY Entries DEF N!EngineInit
<1>7. Agree
  BY <1>1, <1>3, <1>6, Entries DEF N!EngineInit, Agree
<1> QED BY <1>4, <1>5, <1>7 DEF EngineInv, Whole

LEMMA EngineKept == EngineInv /\ N!EngineNext => EngineInv'
<1> SUFFICES ASSUME EngineInv, N!EngineNext PROVE EngineInv'
  OBVIOUS
<1>1. EngineTyped /\ Whole /\ ~torn
  BY DEF EngineInv, N!EngineNext
<1>2. CASE N!Restart \/ N!Complete \/ N!Report
  BY <1>1, <1>2, EngineRestartKeeps, EngineCompleteKeeps, EngineReportKeeps
<1>3. ASSUME NEW c \in Call, N!CallStep(c) PROVE EngineInv'
  BY <1>1, <1>3, EngineAddKeeps, EnginePrepareKeeps, EngineRangeKeeps, EnginePauseKeeps, EngineForgetMapsKeeps,
     EngineClearBitsKeeps, EngineDropKeeps, EngineForgetEntryKeeps, EngineDeleteDataKeeps DEF N!CallStep
<1>4. ASSUME NEW c \in Call,
             N!BeginAdd(c) \/ N!BeginPrepare(c) \/ N!BeginRange(c) \/ N!BeginPause(c) \/ N!BeginRemove(c)
      PROVE  EngineInv'
  BY <1>1, <1>4, EngineLooksKeeps, EngineBeginPrepareKeeps, EngineBeginPauseKeeps
<1> QED BY <1>2, <1>3, <1>4 DEF N!EngineNext

LEMMA EngineKeptAtRest == EngineInv /\ UNCHANGED engineAll => EngineInv'
<1> SUFFICES ASSUME EngineInv, UNCHANGED engineAll PROVE EngineInv'
  OBVIOUS
<1>1. UNCHANGED <<lib, maps, session, store, requests, torn>>
  BY DEF engineAll
<1>2. EngineTyped'
  BY <1>1 DEF EngineInv, EngineTyped
<1>3. Whole => Apart' /\ \A c \in Call : Holding(requests[c])'
  BY <1>1 DEF Whole, Apart, Holding, N!Busy
<1>4. Whole => Agree'
  BY <1>1 DEF Whole, Agree, Removed, InProgress
<1> QED BY <1>1, <1>2, <1>3, <1>4 DEF EngineInv, Whole

LEMMA EngineSteps == [Next]_vars => N!EngineNext \/ UNCHANGED engineAll
  BY DEF Next, Only, vars

---------------------------------------------------------------------------
\* A completion bit vouches for its bytes, or was set behind a removal that goes on
\* to drop the torrent; nothing else keeps a bit once the torrent is gone.
Marks ==
    /\ store.bits \ late \subseteq store.data
    /\ ~lib.live => store.bits \subseteq late
    /\ \A c \in Call : requests[c].op = "remove" /\ requests[c].pc = "bits" =>
          store.bits \ late \subseteq requests[c].arg

MarksInv == late \subseteq Piece /\ (~torn => Marks)

LEMMA MarksClear ==
    ASSUME EngineInv, ~torn, MarksInv, NEW c \in Call, N!ClearBits(c)
    PROVE  MarksInv'
<1>1. EngineTyped /\ Marks
  BY DEF EngineInv, MarksInv
<1>2. PICK p \in Piece :
          /\ store'.bits = store.bits \ {p} /\ store'.data = store.data
          /\ late' = late \ {p} /\ requests'[c].arg = requests[c].arg \ {p}
          /\ requests'[c].op = requests[c].op /\ requests'[c].pc = requests[c].pc
          /\ \A d \in Call \ {c} : requests'[d] = requests[d]
  BY <1>1, ClearsOne
<1>3. lib' = lib /\ requests[c].op = "remove" /\ requests[c].pc = "bits"
  BY DEF N!ClearBits, N!Removing
<1>4. store'.bits \ late' = (store.bits \ late) \ {p}
  BY <1>2
<1>5. store'.bits \ late' \subseteq store'.data
  BY <1>1, <1>2, <1>4 DEF Marks
<1>6. ~lib'.live => store'.bits \subseteq late'
  BY <1>1, <1>2, <1>3 DEF Marks
<1>7. ASSUME NEW d \in Call, requests'[d].op = "remove", requests'[d].pc = "bits"
      PROVE  store'.bits \ late' \subseteq requests'[d].arg
  <2>1. CASE d = c
    BY <1>1, <1>2, <1>3, <1>4, <2>1 DEF Marks
  <2>2. CASE d # c
    BY <1>1, <1>2, <1>4, <1>7, <2>2 DEF Marks
  <2> QED BY <2>1, <2>2
<1>8. late' \subseteq Piece
  BY <1>2 DEF MarksInv
<1> QED BY <1>5, <1>6, <1>7, <1>8 DEF Marks, MarksInv

LEMMA MarksComplete == ASSUME EngineInv, ~torn, MarksInv, N!Complete PROVE MarksInv'
<1>1. EngineTyped /\ Marks
  BY DEF EngineInv, MarksInv
<1>2. PICK p \in Piece :
          /\ store'.bits = store.bits \cup {p} /\ store'.data = store.data \cup {p}
          /\ late' = IF N!Passed(p) THEN late \cup {p} ELSE late \ {p}
  BY <1>1, Completes
<1>3. lib.live /\ lib' = lib /\ requests' = requests
  BY DEF N!Complete
<1>4. store'.bits \ late' \subseteq (store.bits \ late) \cup {p}
  BY <1>2
<1>5. store'.bits \ late' \subseteq store'.data
  BY <1>1, <1>2, <1>4 DEF Marks
<1>6. ASSUME NEW d \in Call, requests[d].op = "remove", requests[d].pc = "bits"
      PROVE  store'.bits \ late' \subseteq requests[d].arg
  <2>1. store.bits \ late \subseteq requests[d].arg
    BY <1>1, <1>6 DEF Marks
  <2>2. CASE N!Passed(p)
    BY <1>2, <2>1, <2>2
  <2>3. CASE ~N!Passed(p)
    <3>1. p \in requests[d].arg
      BY <1>6, <2>3 DEF N!Passed, N!Removing
    <3> QED BY <1>4, <2>1, <3>1
  <2> QED BY <2>2, <2>3
<1>7. late' \subseteq Piece
  BY <1>2 DEF MarksInv
<1> QED BY <1>3, <1>5, <1>6, <1>7 DEF Marks, MarksInv

\* The requests of the other calls, and this one unless it clears bits, are no
\* removals that clear bits after the step that were none before.
LEMMA MarksStay ==
    ASSUME MarksInv, ~torn, late' = late, store'.bits = store.bits, store.data \subseteq store'.data,
           ~lib'.live => ~lib.live \/ store.bits \subseteq late,
           \A d \in Call : requests'[d].op = "remove" /\ requests'[d].pc = "bits" =>
               \/ requests'[d].arg = Piece /\ store.bits \subseteq Piece
               \/ requests[d].op = "remove" /\ requests[d].pc = "bits" /\ requests'[d].arg = requests[d].arg
    PROVE  MarksInv'
<1>1. Marks
  BY DEF MarksInv
<1>2. ASSUME NEW d \in Call, requests'[d].op = "remove", requests'[d].pc = "bits"
      PROVE  store'.bits \ late' \subseteq requests'[d].arg
  BY <1>1, <1>2 DEF Marks
<1>3. store'.bits \ late' \subseteq store'.data
  BY <1>1 DEF Marks
<1>4. ~lib'.live => store'.bits \subseteq late'
  BY <1>1 DEF Marks
<1> QED BY <1>2, <1>3, <1>4 DEF Marks, MarksInv

LEMMA SaveMarksNothing ==
    ASSUME EngineTyped, NEW entry, N!Save(entry) PROVE store'.bits = store.bits /\ store'.data = store.data
  BY DEF N!Save, EngineTyped, Kept

LEMMA MarksRestart == ASSUME EngineInv, ~torn, MarksInv, N!Restart PROVE MarksInv'
<1>1. PICK e : e = store.entry
  OBVIOUS
<1>2. store' = store /\ late' = late /\ lib' = N!Loaded(e) /\ requests' = [c \in Call |-> N!NoCall]
  BY <1>1 DEF N!Restart
<1>3. session \in N!Entry /\ e = session /\ (~session.meta => session = N!NoEntry /\ ~lib.live)
  BY <1>1 DEF EngineInv, EngineTyped, Whole, Agree
<1>4. lib'.live = e.meta
  BY <1>2, <1>3, Loads
<1>5. \A d \in Call : requests'[d].op = "none"
  BY <1>2, Entries
<1> QED BY <1>2, <1>3, <1>4, <1>5, MarksStay

\* The calls that leave the marks alone and return.
LEMMA MarksReturn ==
    ASSUME EngineInv, ~torn, MarksInv, NEW c \in Call, N!Add(c) \/ N!Prepare(c) \/ N!Range(c) \/ N!Pause(c)
    PROVE  MarksInv'
<1>1. EngineTyped /\ N!End(c) /\ late' = late
  BY DEF EngineInv, N!Add, N!Prepare, N!Range, N!Pause
<1>2. requests'[c].op = "none" /\ \A d \in Call \ {c} : requests'[d] = requests[d]
  BY <1>1, RequestEnds
<1>3. store'.bits = store.bits /\ store'.data = store.data
  BY <1>1, SaveMarksNothing DEF N!Add, N!Prepare, N!Range, N!Pause
<1>4. lib'.live \/ lib'.live = lib.live
  BY <1>1 DEF N!Add, N!Prepare, N!Range, N!Pause, N!Steer, EngineTyped, Library, N!NoTorrent
<1> QED BY <1>1, <1>2, <1>3, <1>4, MarksStay

LEMMA MarksBegin ==
    ASSUME EngineInv, ~torn, MarksInv, NEW c \in Call,
           N!BeginAdd(c) \/ N!BeginPrepare(c) \/ N!BeginRange(c) \/ N!BeginPause(c) \/ N!BeginRemove(c)
    PROVE  MarksInv'
<1>1. EngineTyped /\ store' = store
  BY DEF EngineInv, N!BeginAdd, N!BeginPrepare, N!BeginRange, N!BeginPause, N!BeginRemove
<1>2. \E op, arg : N!Begin(c, op, arg)
  BY DEF N!BeginAdd, N!BeginPrepare, N!BeginRange, N!BeginPause, N!BeginRemove
<1>3. late' = late /\ requests'[c].pc = "locked" /\ \A d \in Call \ {c} : requests'[d] = requests[d]
  BY <1>1, <1>2 DEF N!Begin, EngineTyped
<1>4. lib'.live = lib.live
  BY <1>1 DEF N!BeginAdd, N!BeginPrepare, N!BeginRange, N!BeginPause, N!BeginRemove, EngineTyped, Library
<1> QED BY <1>1, <1>3, <1>4, MarksStay

\* A removal is to clear the bit of every piece, drops the torrent when it has, and
\* deletes the data when the torrent is gone.
LEMMA MarksRemove ==
    ASSUME EngineInv, ~torn, MarksInv, NEW c \in Call,
           N!ForgetMaps(c) \/ N!Drop(c) \/ N!ForgetEntry(c) \/ N!DeleteData(c)
    PROVE  MarksInv'
<1>1. EngineTyped /\ Marks /\ late' = late /\ requests[c].op = "remove" /\ Holding(requests[c])
  BY DEF EngineInv, Whole, MarksInv, N!ForgetMaps, N!Drop, N!ForgetEntry, N!DeleteData, N!Removing
<1>2. store.bits \subseteq Piece
  BY <1>1 DEF EngineTyped, Kept
<1>3. CASE N!ForgetMaps(c)
  <2>1. store' = store /\ lib' = lib
    BY <1>3 DEF N!ForgetMaps
  <2>2. requests'[c].pc = "bits" => requests'[c].arg = Piece
    <3>1. PICK r \in Request : r = requests[c]
      BY <1>1 DEF EngineTyped
    <3>2. requests'[c] = IF r.t = "nil" THEN [r EXCEPT !.pc = "session"]
                         ELSE [r EXCEPT !.pc = "bits", !.arg = Piece]
      BY <1>1, <1>3, <3>1 DEF N!ForgetMaps, EngineTyped
    <3>3. CASE r.t = "nil"
      BY <3>2, <3>3 DEF Request
    <3>4. CASE r.t # "nil"
      BY <3>2, <3>4 DEF Request
    <3> QED BY <3>3, <3>4
  <2>3. \A d \in Call \ {c} : requests'[d] = requests[d]
    BY <1>1, <1>3 DEF N!ForgetMaps, EngineTyped
  <2> QED BY <1>1, <1>2, <2>1, <2>2, <2>3, MarksStay
<1>4. CASE N!Drop(c)
  <2>1. store' = store /\ requests[c].pc = "bits" /\ requests[c].arg = {}
    BY <1>4 DEF N!Drop
  <2>2. store.bits \subseteq late
    BY <1>1, <2>1 DEF Marks
  <2>3. ASSUME NEW d \in Call, requests'[d].op = "remove", requests'[d].pc = "bits"
        PROVE  requests[d].op = "remove" /\ requests[d].pc = "bits" /\ requests'[d].arg = requests[d].arg
    <3>1. PICK r \in Request : r = requests[d]
      BY <1>1 DEF EngineTyped
    <3>2. requests'[d] = IF d = c THEN [requests[c] EXCEPT !.pc = "session"]
                         ELSE IF requests[d].t = "current" THEN [requests[d] EXCEPT !.t = "dropped"]
                         ELSE requests[d]
      BY <1>4 DEF N!Drop
    <3>3. CASE d = c
      BY <2>3, <3>1, <3>2, <3>3 DEF Request
    <3>4. CASE d # c /\ r.t = "current"
      <4>1. requests'[d] = [r EXCEPT !.t = "dropped"]
        BY <3>1, <3>2, <3>4
      <4> QED BY <2>3, <3>1, <4>1 DEF Request
    <3>5. CASE d # c /\ r.t # "current"
      BY <2>3, <3>1, <3>2, <3>5
    <3> QED BY <3>3, <3>4, <3>5
  <2> QED BY <1>1, <2>1, <2>2, <2>3, MarksStay
<1>5. CASE N!ForgetEntry(c)
  <2>1. store'.bits = store.bits /\ store'.data = store.data /\ lib' = lib
    BY <1>1, <1>5, SaveMarksNothing DEF N!ForgetEntry
  <2>2. requests'[c].pc = "data" /\ \A d \in Call \ {c} : requests'[d] = requests[d]
    BY <1>1, <1>5, RequestGoes DEF N!ForgetEntry, N!Goes
  <2> QED BY <1>1, <2>1, <2>2, MarksStay
<1>6. CASE N!DeleteData(c)
  <2>1. /\ requests'[c].op = "none" /\ \A d \in Call \ {c} : requests'[d] = requests[d]
    BY <1>1, <1>6, RequestEnds DEF N!DeleteData
  <2>2. store'.bits = store.bits /\ lib' = lib /\ ~lib.live
    BY <1>1, <1>6 DEF N!DeleteData, EngineTyped, Kept, Holding
  <2>3. store.bits \subseteq late
    BY <1>1, <2>2 DEF Marks
  <2>4. \A d \in Call : requests'[d].op = "remove" /\ requests'[d].pc = "bits" =>
            store'.bits \ late' \subseteq requests'[d].arg
    BY <1>1, <2>2, <2>3
  <2> QED BY <1>1, <2>2, <2>3, <2>4 DEF Marks, MarksInv
<1> QED BY <1>3, <1>4, <1>5, <1>6

LEMMA MarksKept == ASSUME EngineInv, MarksInv, N!EngineNext PROVE MarksInv'
<1>1. ~torn
  BY DEF N!EngineNext
<1>2. CASE N!Restart \/ N!Complete
  BY <1>1, <1>2, MarksRestart, MarksComplete
<1>3. CASE N!Report
  BY <1>1, <1>3, MarksStay DEF N!Report
<1>4. ASSUME NEW c \in Call, N!CallStep(c) PROVE MarksInv'
  BY <1>1, <1>4, MarksReturn, MarksRemove, MarksClear DEF N!CallStep
<1>5. ASSUME NEW c \in Call,
             N!BeginAdd(c) \/ N!BeginPrepare(c) \/ N!BeginRange(c) \/ N!BeginPause(c) \/ N!BeginRemove(c)
      PROVE  MarksInv'
  BY <1>1, <1>5, MarksBegin
<1> QED BY <1>2, <1>3, <1>4, <1>5 DEF N!EngineNext

LEMMA MarksInitially == N!EngineInit => MarksInv
<1> SUFFICES ASSUME N!EngineInit PROVE MarksInv
  OBVIOUS
<1>1. store.bits = {} /\ late = {}
  BY DEF N!EngineInit
<1> QED BY <1>1 DEF MarksInv, Marks

LEMMA MarksAtRest == ASSUME MarksInv, UNCHANGED engineAll PROVE MarksInv'
  BY DEF engineAll, MarksInv, Marks

LEMMA EngineInductive == Init /\ [][Next]_vars => [](EngineInv /\ MarksInv)
<1> DEFINE Inv == EngineInv /\ MarksInv
<1>1. Init => Inv
  BY EngineInitially, MarksInitially DEF Init
<1>2. Inv /\ [Next]_vars => Inv'
  BY EngineKept, EngineKeptAtRest, EngineSteps, MarksKept, MarksAtRest
<1> HIDE DEF Inv
<1>3. Init /\ [][Next]_vars => []Inv
  BY <1>1, <1>2, PTL
<1> QED BY <1>3 DEF Inv

\* For any number of pieces, calls and restarts, with changes that do not overlap and
\* saves that succeed: the session file says what the library does once the calls
\* returned; the raised pieces are the window of the last prepare or read; and a
\* completion bit outlives its bytes only when the library set it behind a removal
\* that had cleared it and had not dropped the torrent yet.
THEOREM RestartsRestore == Spec => []RestartRestores
<1>1. EngineInv /\ MarksInv => RestartRestores
  <2> SUFFICES ASSUME EngineInv, MarksInv PROVE N!RestartRestores /\ N!BitsHaveData /\ N!WindowExact
    BY DEF RestartRestores
  <2>1. N!BitsHaveData
    BY DEF MarksInv, Marks, N!BitsHaveData
  <2>2. ASSUME N!Quiet
        PROVE  /\ ~Removed({"session"}) /\ ~Removed({"bits"})
               /\ ~InProgress({"prepare"}) /\ ~InProgress({"pause", "resume"})
    <3>1. \A c \in Call : requests[c].op = "none"
      BY <2>2 DEF N!Quiet, N!Busy, EngineInv, Whole, Holding
    <3> QED BY <3>1 DEF Removed, InProgress
  <2>3. N!Quiet => Agree
    BY DEF N!Quiet, EngineInv, Whole
  <2>4. N!WindowExact
    BY <2>2, <2>3 DEF N!WindowExact, Agree
  <2>5. ASSUME N!Quiet, lib.live
        PROVE  /\ store.entry.sel = lib.wanted /\ store.entry.sel = maps.sel
               /\ maps.paused = store.entry.paused /\ lib.allowed = ~store.entry.paused
    BY <2>2, <2>3, <2>5 DEF Agree
  <2>6. store.entry.paused \in BOOLEAN /\ lib.allowed \in BOOLEAN /\ maps.paused \in BOOLEAN
    BY DEF EngineInv, EngineTyped, Kept, N!Entry, Library, Maps
  <2>7. ASSUME N!Quiet, lib.live PROVE N!Status = "paused" => ~lib.allowed
    BY <2>5, <2>6, <2>7 DEF N!Status
  <2>8. ASSUME N!Quiet, lib.live PROVE store.entry.paused = ~lib.allowed
    BY <2>5, <2>6, <2>8
  <2>9. ASSUME N!Quiet PROVE store.entry.meta = lib.live
    <3>1. session = store.entry /\ (lib.live <=> session.meta)
      BY <2>2, <2>3, <2>9 DEF Agree
    <3>2. session.meta \in BOOLEAN /\ lib.live \in BOOLEAN
      BY DEF EngineInv, EngineTyped, N!Entry, Library
    <3> QED BY <3>1, <3>2
  <2>10. ASSUME N!Quiet, ~lib.live PROVE maps.sel = {} /\ ~maps.paused
    BY <2>3, <2>10 DEF Agree
  <2>11. N!RestartRestores
    BY <2>5, <2>7, <2>8, <2>9, <2>10 DEF N!RestartRestores
  <2> QED BY <2>1, <2>4, <2>11
<1> QED BY <1>1, EngineInductive, SpecSteps, PTL
---------------------------------------------------------------------------
(* Serving a range.                                                        *)

PieceOf(b) == (FileOffset + b) \div PieceSize

LEMMA DivMonotonic ==
    ASSUME NEW a \in Int, NEW b \in Int, NEW d \in Nat \ {0}, a <= b
    PROVE  a \div d \in Int /\ b \div d \in Int /\ a \div d <= b \div d
<1>1. PICK x \in Int : x = a \div d
  OBVIOUS
<1>2. PICK y \in Int : y = b \div d
  OBVIOUS
<1>3. d * x <= a /\ a < d * x + d
  BY <1>1
<1>4. d * y <= b /\ b < d * y + d
  BY <1>2
<1>5. ASSUME y < x PROVE FALSE
  <2>1. d * (y + 1) <= d * x
    BY <1>5
  <2>2. d * (y + 1) = d * y + d
    OBVIOUS
  <2> QED BY <1>3, <1>4, <2>1, <2>2
<1> QED BY <1>1, <1>2, <1>5

\* What a chunk of count bytes at start may read is what its pieces say is ready.
ReadyBytes(start, count) == \A b \in start..start + count - 1 : PieceOf(b) \in done

LEMMA ReadyPieces ==
    ASSUME NEW start \in Nat, NEW count \in Nat, R!RangeReady(start, count)
    PROVE  ReadyBytes(start, count)
<1> SUFFICES ASSUME NEW b \in start..start + count - 1 PROVE PieceOf(b) \in done
  BY DEF ReadyBytes
<1>1. PICK lo \in Int : lo = FileOffset + start
  BY RangeAssumption
<1>2. PICK mid \in Int : mid = FileOffset + b
  BY RangeAssumption
<1>3. PICK hi \in Int : hi = FileOffset + start + count - 1
  BY RangeAssumption
<1>4. lo <= mid /\ mid <= hi
  BY RangeAssumption, <1>1, <1>2, <1>3
<1>5. /\ lo \div PieceSize \in Int /\ mid \div PieceSize \in Int /\ hi \div PieceSize \in Int
      /\ lo \div PieceSize <= mid \div PieceSize /\ mid \div PieceSize <= hi \div PieceSize
  BY RangeAssumption, <1>4, DivMonotonic
<1>6. mid \div PieceSize \in R!FirstPiece(start)..R!LastPiece(start, count)
  BY <1>1, <1>3, <1>5 DEF R!FirstPiece, R!LastPiece
<1> QED BY <1>2, <1>6 DEF R!RangeReady, PieceOf

\* Every byte of the file is in one of its pieces.
LEMMA FilePieces == \A b \in 0..Length - 1 : PieceOf(b) \in R!Pieces
<1> SUFFICES ASSUME NEW b \in 0..Length - 1 PROVE PieceOf(b) \in R!Pieces
  OBVIOUS
<1>1. PICK lo \in Int : lo = FileOffset + 0
  BY RangeAssumption
<1>2. PICK mid \in Int : mid = FileOffset + b
  BY RangeAssumption
<1>3. PICK hi \in Int : hi = FileOffset + 0 + Length - 1
  BY RangeAssumption
<1>4. lo <= mid /\ mid <= hi
  BY RangeAssumption, <1>1, <1>2, <1>3
<1>5. /\ lo \div PieceSize \in Int /\ mid \div PieceSize \in Int /\ hi \div PieceSize \in Int
      /\ lo \div PieceSize <= mid \div PieceSize /\ mid \div PieceSize <= hi \div PieceSize
  BY RangeAssumption, <1>4, DivMonotonic
<1> QED BY <1>1, <1>2, <1>3, <1>5 DEF R!Pieces, R!FirstPiece, R!LastPiece, PieceOf

\* A request that is not refused is of bytes of the file.
LEMMA RangesTyped ==
    ASSUME NEW h \in R!Header, NEW range \in R!ParseRange(h)
    PROVE  range[1] \in 0..Length - 1 /\ range[2] \in 0..Length - 1 /\ range[1] <= range[2]
<1>1. h.first \in -1..Length /\ h.last \in -1..Length + 1
  BY DEF R!Header, R!None
<1>2. CASE h.first = -1 /\ h.last = -1
  BY RangeAssumption, <1>2 DEF R!ParseRange, R!None
<1>3. CASE h.first = -1 /\ h.last # -1
  <2>1. range = <<Length - R!Min(h.last, Length), Length - 1>> /\ h.last # 0
    BY <1>3 DEF R!ParseRange, R!None
  <2>2. R!Min(h.last, Length) \in 1..Length
    BY RangeAssumption, <1>1, <1>3, <2>1 DEF R!Min
  <2> QED BY RangeAssumption, <2>1, <2>2
<1>4. CASE h.first # -1 /\ h.last = -1
  <2>1. range = <<h.first, Length - 1>> /\ h.first \in 0..Length - 1
    BY <1>4 DEF R!ParseRange, R!None
  <2> QED BY RangeAssumption, <2>1
<1>5. CASE h.first # -1 /\ h.last # -1
  <2>1. range = <<h.first, R!Min(h.last, Length - 1)>> /\ h.first \in 0..R!Min(h.last, Length - 1)
    BY <1>5 DEF R!ParseRange, R!None
  <2>2. R!Min(h.last, Length - 1) \in 0..Length - 1
    BY RangeAssumption, <1>1, <1>5 DEF R!Min
  <2> QED BY RangeAssumption, <2>1, <2>2
<1> QED BY <1>2, <1>3, <1>4, <1>5

\* The chunk of the loop ends within the range.
LEMMA ChunkBounds ==
    ASSUME NEW q, q.chunk \in Nat \ {0}, q.pos \in Nat, q.end \in Nat, q.pos <= q.end
    PROVE  /\ R!ChunkOf(q) \in Nat \ {0} /\ R!ChunkOf(q) <= q.end - q.pos + 1
           /\ R!ChunkOf(q) <= q.chunk
           /\ R!Count(q) \in Nat \ {0} /\ R!ChunkOf(q) <= R!Count(q)
  BY RangeAssumption DEF R!ChunkOf, R!Count, R!Min

Answer == [pc : {"idle", "path", "wait", "open", "copy", "sent"}, kind : {"stream", "probe"},
           local : BOOLEAN, start : 0..Length - 1, end : 0..Length - 1, pos : 0..Length,
           chunk : 0..2 * Length, path : {"temp", "final"}]

\* What a request has sent, and may send of the chunk it waited for, is complete.
Sound(q) ==
    q.pc # "idle" =>
        /\ q.start <= q.pos /\ q.pos <= q.end + 1 /\ q.chunk # 0
        /\ q.pos = q.end + 1 <=> q.pc = "sent"
        /\ \A b \in q.start..q.pos - 1 : PieceOf(b) \in done
        /\ q.local => R!Pieces \subseteq done
        /\ q.pc \in {"open", "copy"} /\ ~q.local => ReadyBytes(q.pos, R!Count(q))

RangeInv ==
    /\ done \subseteq R!Pieces /\ place \in {"temp", "final"}
    /\ reads \in [Reader -> Answer]
    /\ \A r \in Reader : Sound(reads[r])

\* The pieces that are complete stay so.
LEMMA SoundStays ==
    ASSUME NEW q, Sound(q), done \subseteq done' PROVE Sound(q)'
<1>1. CASE q.pc = "idle"
  BY <1>1 DEF Sound
<1>2. CASE q.pc # "idle"
  <2>1. ReadyBytes(q.pos, R!Count(q)) => ReadyBytes(q.pos, R!Count(q))'
    BY DEF ReadyBytes
  <2> QED BY <1>2, <2>1 DEF Sound
<1> QED BY <1>1, <1>2

\* One request goes on.
LEMMA ReaderKeeps ==
    ASSUME RangeInv, NEW r \in Reader, NEW q \in Answer, reads' = [reads EXCEPT ![r] = q],
           done' = done, place' = place, Sound(q)
    PROVE  RangeInv'
<1>1. reads' \in [Reader -> Answer] /\ reads'[r] = q /\ \A s \in Reader \ {r} : reads'[s] = reads[s]
  BY DEF RangeInv
<1>2. ASSUME NEW s \in Reader PROVE Sound(reads[s])'
  <2>1. PICK p : p = reads'[s]
    OBVIOUS
  <2>2. Sound(p)
    BY <1>1, <2>1 DEF RangeInv
  <2>3. Sound(p)'
    BY <2>2, SoundStays
  <2> QED BY <2>1, <2>3 DEF Sound
<1> QED BY <1>1, <1>2 DEF RangeInv

LEMMA IdleSound == R!Idle \in Answer /\ Sound(R!Idle)
<1>1. PICK q : q = R!Idle
  OBVIOUS
<1>2. q \in Answer /\ q.pc = "idle"
  BY <1>1, RangeAssumption DEF R!Idle, Answer
<1> QED BY <1>1, <1>2 DEF Sound

\* A request starts with nothing sent; a row that says complete tells the truth.
LEMMA StartSound ==
    ASSUME RangeInv, NEW local \in R!Local, NEW kind \in {"stream", "probe"},
           NEW start \in 0..Length - 1, NEW end \in 0..Length - 1, start <= end,
           NEW chunk \in 1..Length,
           NEW q, q = [pc |-> IF local THEN "copy" ELSE "path", kind |-> kind, local |-> local,
                       start |-> start, end |-> end, pos |-> start, chunk |-> chunk, path |-> place]
    PROVE  q \in Answer /\ Sound(q)
<1>1. local \in BOOLEAN /\ (local => R!Pieces \subseteq done)
  BY DEF R!Local
<1>2. /\ q.pc = IF local THEN "copy" ELSE "path"
      /\ q.local = local /\ q.start = start /\ q.end = end /\ q.pos = start /\ q.chunk = chunk
  OBVIOUS
<1>3. q \in Answer
  BY <1>1, RangeAssumption DEF RangeInv, Answer
<1>4. Sound(q)
  BY <1>1, <1>2, RangeAssumption DEF Sound
<1> QED BY <1>3, <1>4

LEMMA RequestKeeps == ASSUME RangeInv, NEW r \in Reader, R!Request(r) PROVE RangeInv'
<1>1. done' = done /\ place' = place
  BY DEF R!Request
<1>2. PICK h \in R!Header, local \in R!Local : \E range \in R!ParseRange(h) :
          reads' = [reads EXCEPT ![r] =
              [pc |-> IF local THEN "copy" ELSE "path", kind |-> "stream", local |-> local,
               start |-> range[1], end |-> range[2], pos |-> range[1],
               chunk |-> R!Min(FirstChunk, range[2] - range[1] + 1), path |-> place]]
  BY DEF R!Request
<1>3. PICK range \in R!ParseRange(h) :
          reads' = [reads EXCEPT ![r] =
              [pc |-> IF local THEN "copy" ELSE "path", kind |-> "stream", local |-> local,
               start |-> range[1], end |-> range[2], pos |-> range[1],
               chunk |-> R!Min(FirstChunk, range[2] - range[1] + 1), path |-> place]]
  BY <1>2
<1>4. range[1] \in 0..Length - 1 /\ range[2] \in 0..Length - 1 /\ range[1] <= range[2]
  BY RangesTyped
<1>5. R!Min(FirstChunk, range[2] - range[1] + 1) \in 1..Length
  BY <1>4, RangeAssumption DEF R!Min
<1>6. PICK q : q = [pc |-> IF local THEN "copy" ELSE "path", kind |-> "stream", local |-> local,
                    start |-> range[1], end |-> range[2], pos |-> range[1],
                    chunk |-> R!Min(FirstChunk, range[2] - range[1] + 1), path |-> place]
  OBVIOUS
<1>7. q \in Answer /\ Sound(q)
  BY <1>4, <1>5, <1>6, StartSound
<1> QED BY <1>1, <1>3, <1>6, <1>7, ReaderKeeps

LEMMA ProbeKeeps == ASSUME RangeInv, NEW r \in Reader, R!Probe(r) PROVE RangeInv'
<1>1. done' = done /\ place' = place
  BY DEF R!Probe
<1>2. PICK local \in R!Local :
          reads' = [reads EXCEPT ![r] =
              [pc |-> IF local THEN "copy" ELSE "path", kind |-> "probe", local |-> local,
               start |-> 0, end |-> R!Min(FirstChunk, Length) - 1, pos |-> 0,
               chunk |-> R!Min(FirstChunk, Length), path |-> place]]
  BY DEF R!Probe
<1>3. R!Min(FirstChunk, Length) \in 1..Length
  BY RangeAssumption DEF R!Min
<1>4. 0 \in 0..Length - 1 /\ R!Min(FirstChunk, Length) - 1 \in 0..Length - 1 /\ 0 <= R!Min(FirstChunk, Length) - 1
  BY <1>3, RangeAssumption
<1>5. PICK q : q = [pc |-> IF local THEN "copy" ELSE "path", kind |-> "probe", local |-> local,
                    start |-> 0, end |-> R!Min(FirstChunk, Length) - 1, pos |-> 0,
                    chunk |-> R!Min(FirstChunk, Length), path |-> place]
  OBVIOUS
<1>6. q \in Answer /\ Sound(q)
  BY <1>3, <1>4, <1>5, StartSound
<1> QED BY <1>1, <1>2, <1>5, <1>6, ReaderKeeps

\* The path and the step of a request change; the chunk stays the one it is.
LEMMA GoesOn ==
    ASSUME RangeInv, NEW r \in Reader, reads[r].pc # "idle", reads[r].pc # "sent",
           NEW pc \in {"path", "wait", "open", "copy"},
           NEW path \in {"temp", "final"}, reads' = [reads EXCEPT ![r].pc = pc, ![r].path = path],
           done' = done, place' = place,
           pc \in {"open", "copy"} /\ ~reads[r].local => ReadyBytes(reads[r].pos, R!Count(reads[r]))
    PROVE  RangeInv'
<1>1. PICK p \in Answer : p = reads[r]
  BY DEF RangeInv
<1>2. Sound(p)
  BY <1>1 DEF RangeInv
<1>3. PICK q : q = [p EXCEPT !.pc = pc, !.path = path]
  OBVIOUS
<1>4. /\ q \in Answer /\ q.pc = pc /\ q.local = p.local /\ q.start = p.start /\ q.end = p.end
      /\ q.pos = p.pos /\ q.chunk = p.chunk
  BY <1>1, <1>3 DEF Answer
<1>5. reads' = [reads EXCEPT ![r] = q]
  BY <1>1, <1>3 DEF RangeInv
<1>6. R!Count(q) = R!Count(p)
  BY <1>4 DEF R!Count, R!ChunkOf
<1>7. Sound(q)
  BY <1>1, <1>2, <1>4, <1>6 DEF Sound
<1> QED BY <1>4, <1>5, <1>7, ReaderKeeps

LEMMA ResolvePathKeeps == ASSUME RangeInv, NEW r \in Reader, R!ResolvePath(r) PROVE RangeInv'
  BY GoesOn DEF R!ResolvePath, RangeInv

LEMMA WaitRangeKeeps == ASSUME RangeInv, NEW r \in Reader, R!WaitRange(r) PROVE RangeInv'
<1>1. /\ reads[r].pc = "wait" /\ R!RangeReady(reads[r].pos, R!Count(reads[r]))
      /\ reads' = [reads EXCEPT ![r].pc = "open"] /\ done' = done /\ place' = place
  BY DEF R!WaitRange
<1>2. PICK p \in Answer : p = reads[r]
  BY DEF RangeInv
<1>3. Sound(p)
  BY <1>2 DEF RangeInv
<1>4. p.chunk \in Nat \ {0} /\ p.pos \in Nat /\ p.end \in Nat /\ p.pos <= p.end
  BY <1>1, <1>2, <1>3, RangeAssumption DEF Answer, Sound
<1>5. R!Count(p) \in Nat
  BY <1>4, ChunkBounds
<1>6. ReadyBytes(p.pos, R!Count(p))
  BY <1>1, <1>2, <1>4, <1>5, ReadyPieces
<1>7. reads' = [reads EXCEPT ![r].pc = "open", ![r].path = p.path]
  BY <1>1, <1>2 DEF RangeInv, Answer
<1>8. p.path \in {"temp", "final"}
  BY DEF Answer
<1> QED BY <1>1, <1>2, <1>6, <1>7, <1>8, GoesOn

LEMMA TryOpenKeeps == ASSUME RangeInv, NEW r \in Reader, R!TryOpen(r) PROVE RangeInv'
<1>1. reads[r].pc = "open" /\ done' = done /\ place' = place
  BY DEF R!TryOpen
<1>2. PICK p \in Answer : p = reads[r]
  BY DEF RangeInv
<1>3. ~reads[r].local => ReadyBytes(reads[r].pos, R!Count(reads[r]))
  BY <1>1, <1>2 DEF RangeInv, Sound
<1>4. CASE reads' = [reads EXCEPT ![r].pc = "copy"]
  <2>1. reads' = [reads EXCEPT ![r].pc = "copy", ![r].path = p.path]
    BY <1>2, <1>4 DEF RangeInv, Answer
  <2>2. p.path \in {"temp", "final"}
    BY DEF Answer
  <2> QED BY <1>1, <1>3, <2>1, <2>2, GoesOn
<1>5. CASE reads' = [reads EXCEPT ![r].path = place]
  <2>1. reads' = [reads EXCEPT ![r].pc = "open", ![r].path = place]
    BY <1>1, <1>2, <1>5 DEF RangeInv, Answer
  <2> QED BY <1>1, <1>3, <2>1, GoesOn DEF RangeInv
<1> QED BY <1>4, <1>5 DEF R!TryOpen

\* The copy sends a chunk that is complete, and no byte beyond the range.
LEMMA CopyRangeKeeps == ASSUME RangeInv, NEW r \in Reader, R!CopyRange(r) PROVE RangeInv'
<1>1. reads[r].pc = "copy" /\ done' = done /\ place' = place
  BY DEF R!CopyRange
<1>2. PICK p \in Answer : p = reads[r]
  BY DEF RangeInv
<1>3. Sound(p) /\ p.pc = "copy"
  BY <1>1, <1>2 DEF RangeInv
<1>4. PICK n : n = R!ChunkOf(p)
  OBVIOUS
<1>5. p.chunk \in Nat \ {0} /\ p.pos \in Nat /\ p.end \in 0..Length - 1 /\ p.start \in Nat
      /\ p.start <= p.pos /\ p.pos <= p.end
  BY <1>3, RangeAssumption DEF Answer, Sound
<1>6. n \in Nat \ {0} /\ n <= p.end - p.pos + 1 /\ R!Count(p) \in Nat /\ n <= R!Count(p)
  BY <1>4, <1>5, ChunkBounds, RangeAssumption
<1>7. ReadyBytes(p.pos, n)
  <2>1. CASE p.local
    <3>1. p.pos + n - 1 <= Length - 1
      BY <1>5, <1>6, RangeAssumption
    <3>2. \A b \in p.pos..p.pos + n - 1 : b \in 0..Length - 1
      BY <1>5, <1>6, <3>1, RangeAssumption
    <3> QED BY <1>3, <2>1, <3>2, FilePieces DEF Sound, ReadyBytes
  <2>2. CASE ~p.local
    <3>1. ReadyBytes(p.pos, R!Count(p))
      BY <1>3, <2>2 DEF Sound
    <3>2. \A b \in p.pos..p.pos + n - 1 : b \in p.pos..p.pos + R!Count(p) - 1
      BY <1>5, <1>6
    <3> QED BY <3>1, <3>2 DEF ReadyBytes
  <2> QED BY <2>1, <2>2
<1>8. \A b \in p.start..p.pos + n - 1 : PieceOf(b) \in done
  <2> SUFFICES ASSUME NEW b \in p.start..p.pos + n - 1 PROVE PieceOf(b) \in done
    OBVIOUS
  <2>1. CASE b < p.pos
    <3>1. b \in p.start..p.pos - 1
      BY <1>5, <1>6, <2>1
    <3> QED BY <1>3, <3>1 DEF Sound
  <2>2. CASE b >= p.pos
    <3>1. b \in p.pos..p.pos + n - 1
      BY <1>5, <1>6, <2>2
    <3> QED BY <1>7, <3>1 DEF ReadyBytes
  <2> QED BY <1>5, <1>6, <2>1, <2>2
<1>9. p.pos + n \in 0..Length /\ n * 2 \in 1..2 * Length
  BY <1>5, <1>6, RangeAssumption
<1>10. CASE reads' = [reads EXCEPT ![r] = R!Idle]
  BY <1>1, <1>10, IdleSound, ReaderKeeps
<1>11. CASE p.pos + n > p.end /\ reads' = [reads EXCEPT ![r] = [p EXCEPT !.pos = p.pos + n, !.pc = "sent"]]
  <2>1. PICK q : q = [p EXCEPT !.pos = p.pos + n, !.pc = "sent"]
    OBVIOUS
  <2>2. /\ q \in Answer /\ q.pc = "sent" /\ q.local = p.local /\ q.start = p.start /\ q.end = p.end
        /\ q.pos = p.pos + n /\ q.chunk = p.chunk
    BY <1>9, <2>1 DEF Answer
  <2>3. q.pos = q.end + 1
    BY <1>5, <1>6, <1>11, <2>2
  <2>4. Sound(q)
    BY <1>3, <1>5, <1>6, <1>8, <2>2, <2>3 DEF Sound
  <2> QED BY <1>1, <1>11, <2>1, <2>2, <2>4, ReaderKeeps
<1>12. CASE /\ p.pos + n <= p.end
            /\ reads' = [reads EXCEPT ![r] = [p EXCEPT !.pos = p.pos + n, !.chunk = n * 2,
                                                       !.pc = IF p.local THEN "copy" ELSE "path"]]
  <2>1. PICK pc \in {"copy", "path"} : pc = IF p.local THEN "copy" ELSE "path"
    OBVIOUS
  <2>2. PICK pos \in 0..Length : pos = p.pos + n
    BY <1>9
  <2>3. PICK chunk \in 0..2 * Length : chunk = n * 2 /\ chunk # 0
    BY <1>9, RangeAssumption
  <2>4. PICK q : q = [p EXCEPT !.pos = pos, !.chunk = chunk, !.pc = pc]
    OBVIOUS
  <2>5. /\ q \in Answer /\ q.pc = pc /\ q.local = p.local
        /\ q.start = p.start /\ q.end = p.end /\ q.pos = p.pos + n /\ q.chunk = chunk
    BY <2>2, <2>4 DEF Answer
  <2>6. q.pos <= q.end /\ q.start <= q.pos /\ q.chunk # 0 /\ q.pc # "sent" /\ q.end \in Int /\ q.pos \in Int
    BY <1>5, <1>6, <1>12, <2>1, <2>3, <2>5
  <2>7. q.local \/ q.pc = "path"
    BY <2>1, <2>5
  <2>8. \A b \in q.start..q.pos - 1 : PieceOf(b) \in done
    BY <1>5, <1>6, <1>8, <2>5
  <2>9. q.local => R!Pieces \subseteq done
    BY <1>3, <2>5 DEF Sound
  <2>10. Sound(q)
    BY <2>6, <2>7, <2>8, <2>9 DEF Sound
  <2> QED BY <1>1, <1>12, <2>1, <2>2, <2>3, <2>4, <2>5, <2>10, ReaderKeeps
<1>13. p.pos + n > p.end \/ p.pos + n <= p.end
  BY <1>5, <1>6
<1> QED BY <1>2, <1>4, <1>10, <1>11, <1>12, <1>13 DEF R!CopyRange

LEMMA OverKeeps == ASSUME RangeInv, NEW r \in Reader, R!Over(r) PROVE RangeInv'
  BY IdleSound, ReaderKeeps DEF R!Over

LEMMA CompletePieceKeeps == ASSUME RangeInv, R!CompletePiece PROVE RangeInv'
<1>1. done \subseteq done' /\ done' \subseteq R!Pieces /\ place' = place /\ reads' = reads
  BY DEF R!CompletePiece, RangeInv
<1>2. ASSUME NEW s \in Reader PROVE Sound(reads[s])'
  <2>1. PICK p : p = reads[s]
    OBVIOUS
  <2>2. Sound(p)'
    BY <1>1, <2>1, SoundStays DEF RangeInv
  <2> QED BY <1>1, <2>1, <2>2 DEF Sound
<1> QED BY <1>1, <1>2 DEF RangeInv

LEMMA MoveContentKeeps == ASSUME RangeInv, R!MoveContent PROVE RangeInv'
  BY DEF R!MoveContent, RangeInv, Sound, ReadyBytes

LEMMA RangeInitially == R!RangeInit => RangeInv
<1> SUFFICES ASSUME R!RangeInit PROVE RangeInv
  OBVIOUS
<1>1. \A s \in Reader : reads[s] \in Answer /\ Sound(reads[s])
  BY IdleSound DEF R!RangeInit
<1>2. reads \in [Reader -> Answer]
  BY IdleSound DEF R!RangeInit
<1> QED BY <1>1, <1>2 DEF R!RangeInit, RangeInv

LEMMA RangeKept == RangeInv /\ R!RangeNext => RangeInv'
  BY CompletePieceKeeps, MoveContentKeeps, RequestKeeps, ProbeKeeps, ResolvePathKeeps, WaitRangeKeeps,
     TryOpenKeeps, CopyRangeKeeps, OverKeeps DEF R!RangeNext, R!ReadStep

LEMMA RangeKeptAtRest == RangeInv /\ UNCHANGED rangeAll => RangeInv'
  BY DEF RangeInv, Sound, ReadyBytes, rangeAll

LEMMA RangeSteps == [Next]_vars => R!RangeNext \/ UNCHANGED rangeAll
  BY DEF Next, Only, vars

LEMMA RangeInductive == Init /\ [][Next]_vars => []RangeInv
<1>1. Init => RangeInv
  BY RangeInitially DEF Init
<1>2. RangeInv /\ [Next]_vars => RangeInv'
  BY RangeKept, RangeKeptAtRest, RangeSteps
<1> QED BY <1>1, <1>2, PTL

\* What a client was sent is its range so far and came from complete pieces, for any
\* size of the file, of its pieces and of the chunks, wherever the file starts in the
\* torrent and whatever the swarm completes and the engine moves meanwhile.
THEOREM RangesComplete == Spec => []SentIsComplete
<1>1. RangeInv => SentIsComplete
  <2> SUFFICES ASSUME RangeInv, part = "range", NEW r \in Reader, reads[r].pc # "idle"
               PROVE  /\ reads[r].pos <= reads[r].end + 1
                      /\ \A b \in reads[r].start..reads[r].pos - 1 : (FileOffset + b) \div PieceSize \in done
                      /\ reads[r].pc = "sent" => reads[r].pos = reads[r].end + 1
    BY DEF SentIsComplete, R!SentIsComplete
  <2> QED BY DEF RangeInv, Sound, PieceOf
<1> QED BY <1>1, RangeInductive, SpecSteps, PTL
---------------------------------------------------------------------------
(* The qBittorrent engine.                                                 *)

Preparing == {"list", "deselect", "select", "status", "toggle", "verify", "prepared"}

Work == [pc : {"idle", "post", "confirm"} \cup Preparing, media : SUBSET (Item \cup {Q!Missing}),
         off : SUBSET Item, sel : SUBSET (Item \cup {Q!Missing}), changed : BOOLEAN, again : BOOLEAN,
         seq : 0..2, edge : 0..2, disturbed : BOOLEAN]
Torrent == [here : BOOLEAN, on : SUBSET Item, seq : BOOLEAN, edge : BOOLEAN, set : BOOLEAN, paused : BOOLEAN]

QBTyped ==
    /\ qb \in Torrent
    /\ ready \in BOOLEAN /\ tainted \in BOOLEAN
    /\ work \in [User -> Work]

\* A preparation in progress has the mutex of the torrent.
Held == \A u \in User : work[u].pc \in Preparing => lock = u

\* What a preparation has done so far of what it was asked for, if the torrent is
\* the one it started with.
Progress(w) ==
    /\ w.pc \in {"list", "deselect"} => ~w.changed
    /\ w.pc \in {"deselect", "select"} => w.sel \subseteq w.media
    /\ w.pc = "toggle" /\ w.edge = 2 => w.again
    /\ w.pc \in Preparing \ {"list"} /\ ~w.disturbed =>
          /\ qb.here
          /\ w.pc = "deselect" => w.off = qb.on \ w.media
          /\ w.pc \in {"deselect", "select"} => w.sel = w.media \ qb.on
          /\ w.pc = "select" => qb.on \subseteq w.media
          /\ w.pc \in {"status", "toggle", "verify", "prepared"} => qb.on = w.media
          /\ w.pc = "status" /\ ~w.again => tainted \/ qb.set
          /\ w.pc = "toggle" => /\ w.edge = 0 => tainted \/ qb.set
                                /\ w.edge = 1 => ~qb.edge
                                /\ w.edge = 2 => qb.edge
          /\ w.pc \in {"verify", "prepared"} => tainted \/ qb.set
          /\ w.pc = "prepared" => qb.seq /\ qb.edge

Steady == \A u \in User : Progress(work[u])

\* A preparation that lost the edge pieces and is going to schedule them again.
Owes(w) ==
    /\ ~w.disturbed
    /\ \/ w.pc = "select" /\ w.changed
       \/ w.pc \in {"status", "toggle"} /\ w.again

\* The mark of the map ready is true of the torrent, unless a call failed or one
\* is about to make it true again.
Vouched == ready /\ qb.here => tainted \/ qb.set \/ \E u \in User : Owes(work[u])

\* A preparation whose torrent was replaced finds no mark, or one that is tainted.
Replaced ==
    \A u \in User : work[u].pc \in Preparing /\ work[u].disturbed /\ ready /\ qb.here => tainted

QBInv == QBTyped /\ Held /\ Steady /\ Vouched /\ Replaced

\* The mutex: while one call prepares, no other does.
LEMMA OnePrepares ==
    ASSUME Held, NEW u \in User, work[u].pc \in Preparing, NEW v \in User, v # u
    PROVE  work[v].pc \notin Preparing
  BY DEF Held

\* A call that fails leaves what the others rely on.
LEMMA FailKeeps ==
    ASSUME QBInv, NEW u \in User, Q!Fails(u), qb' \in Torrent, ready' = ready,
           work[u].pc \in Preparing \/ qb' = qb
    PROVE  QBInv'
<1>1. /\ work' = [work EXCEPT ![u] = Q!NoWork] /\ tainted' = TRUE
      /\ lock' = IF lock = u THEN Q!Nobody ELSE lock
  BY DEF Q!Fails, Q!Ends
<1>2. Q!NoWork \in Work /\ Q!NoWork.pc = "idle"
  BY DEF Q!NoWork, Work
<1>3. work' \in [User -> Work] /\ work'[u].pc = "idle" /\ \A v \in User \ {u} : work'[v] = work[v]
  BY <1>1, <1>2 DEF QBInv, QBTyped
<1>4. QBTyped'
  BY <1>1, <1>3 DEF QBInv, QBTyped
<1>5. Held'
  BY <1>1, <1>3 DEF QBInv, Held, Preparing
<1>6. Vouched' /\ Replaced'
  BY <1>1 DEF Vouched, Replaced
<1>7. \A v \in User : Progress(work[v])'
  <2> SUFFICES ASSUME NEW v \in User PROVE Progress(work[v])'
    OBVIOUS
  <2>1. CASE v = u
    BY <2>1, <1>3 DEF Progress, Preparing
  <2>2. CASE v # u /\ work[u].pc \in Preparing
    <3>1. work[v].pc \notin Preparing
      BY <2>2, OnePrepares DEF QBInv
    <3> QED BY <3>1, <2>2, <1>3 DEF Progress, Preparing
  <2>3. CASE v # u /\ qb' = qb
    <3>1. Progress(work[v])
      BY DEF QBInv, Steady
    <3> QED BY <3>1, <2>3, <1>1, <1>3 DEF Progress
  <2> QED BY <2>1, <2>2, <2>3
<1> QED BY <1>4, <1>5, <1>6, <1>7 DEF QBInv, Steady

\* A step of the preparation that has the mutex disturbs no other call.
LEMMA StepKeeps ==
    ASSUME QBInv, NEW u \in User, work[u].pc \in Preparing, NEW w \in Work, w.pc \in Preparing,
           work' = [work EXCEPT ![u] = w], lock' = lock,
           qb' \in Torrent, ready' \in BOOLEAN, tainted' \in BOOLEAN,
           Progress(w)', Vouched',
           w.disturbed /\ ready' /\ qb'.here => tainted'
    PROVE  QBInv'
<1>1. work' \in [User -> Work] /\ work'[u] = w /\ \A v \in User \ {u} : work'[v] = work[v]
  BY DEF QBInv, QBTyped
<1>2. QBTyped'
  BY <1>1 DEF QBTyped
<1>3. lock = u
  BY DEF QBInv, Held
<1>4. \A v \in User \ {u} : work[v].pc \notin Preparing
  BY OnePrepares DEF QBInv
<1>5. Held'
  BY <1>1, <1>3, <1>4 DEF Held
<1>6. Replaced'
  BY <1>1, <1>4 DEF Replaced
<1>7. \A v \in User : Progress(work[v])'
  <2> SUFFICES ASSUME NEW v \in User PROVE Progress(work[v])'
    OBVIOUS
  <2>1. CASE v = u
    BY <2>1, <1>1 DEF Progress
  <2>2. CASE v # u
    BY <2>2, <1>1, <1>4 DEF Progress, Preparing
  <2> QED BY <2>1, <2>2
<1> QED BY <1>2, <1>5, <1>6, <1>7 DEF QBInv, Steady

\* Adding: the mark is dropped before the request.
LEMMA BeginAddKeeps == ASSUME QBInv, NEW u \in User, Q!BeginAdd(u) PROVE QBInv'
<1>1. /\ work' = [work EXCEPT ![u].pc = "post"] /\ ready' = FALSE
      /\ qb' = qb /\ lock' = lock /\ tainted' = tainted
  BY DEF Q!BeginAdd, Q!Goes
<1>2. work[u] \in Work
  BY DEF QBInv, QBTyped
<1>3. [work[u] EXCEPT !.pc = "post"] \in Work /\ [work[u] EXCEPT !.pc = "post"].pc = "post"
  BY <1>2 DEF Work
<1>4. work' \in [User -> Work] /\ work'[u].pc = "post" /\ \A v \in User \ {u} : work'[v] = work[v]
  BY <1>1, <1>3 DEF QBInv, QBTyped
<1>5. QBTyped'
  BY <1>1, <1>4 DEF QBInv, QBTyped
<1>6. Held' /\ Vouched' /\ Replaced'
  BY <1>1, <1>4 DEF QBInv, Held, Vouched, Replaced, Preparing
<1>7. \A v \in User : Progress(work[v])'
  BY <1>1, <1>4 DEF QBInv, Steady, Progress, Preparing
<1> QED BY <1>5, <1>6, <1>7 DEF QBInv, Steady

\* What Disturb makes of the calls.
LEMMA Disturbed ==
    ASSUME NEW w \in [User -> Work], NEW d, d = Q!Disturb(w)
    PROVE  /\ d \in [User -> Work]
           /\ \A v \in User : /\ d[v].pc = w[v].pc /\ d[v].changed = w[v].changed
                              /\ d[v].again = w[v].again /\ d[v].edge = w[v].edge
                              /\ d[v].media = w[v].media /\ d[v].sel = w[v].sel
                              /\ w[v].pc # "idle" => d[v].disturbed
<1>1. \A v \in User : d[v] = [w[v] EXCEPT !.disturbed = w[v].disturbed \/ w[v].pc # "idle"]
  BY DEF Q!Disturb
<1>2. \A r \in Work : \A b \in BOOLEAN :
          LET s == [r EXCEPT !.disturbed = b] IN
          /\ s \in Work /\ s.pc = r.pc /\ s.changed = r.changed /\ s.again = r.again
          /\ s.edge = r.edge /\ s.media = r.media /\ s.sel = r.sel /\ s.disturbed = b
  BY DEF Work
<1>3. \A v \in User : w[v] \in Work /\ (w[v].disturbed \/ w[v].pc # "idle") \in BOOLEAN
  BY DEF Work
<1>4. d \in [User -> Work]
  BY <1>2, <1>3 DEF Q!Disturb
<1>5. ASSUME NEW v \in User
      PROVE  LET s == d[v] IN
             /\ s.pc = w[v].pc /\ s.changed = w[v].changed /\ s.again = w[v].again
             /\ s.edge = w[v].edge /\ s.media = w[v].media /\ s.sel = w[v].sel
             /\ w[v].pc # "idle" => s.disturbed
  <2>1. PICK r \in Work : r = w[v]
    BY <1>3
  <2>2. PICK b \in BOOLEAN : b = (w[v].disturbed \/ w[v].pc # "idle")
    BY <1>3
  <2>3. d[v] = [r EXCEPT !.disturbed = b]
    BY <1>1, <2>1, <2>2
  <2>4. PICK s : s = [r EXCEPT !.disturbed = b]
    OBVIOUS
  <2>5. /\ s.pc = r.pc /\ s.changed = r.changed /\ s.again = r.again
        /\ s.edge = r.edge /\ s.media = r.media /\ s.sel = r.sel /\ s.disturbed = b
    BY <1>2, <2>4
  <2> QED BY <2>1, <2>2, <2>3, <2>4, <2>5
<1> QED BY <1>4, <1>5

\* A change of the torrent that every call in progress knows as a disturbance.
LEMMA DisturbKeeps ==
    ASSUME QBInv, NEW w \in [User -> Work], work' = Q!Disturb(w),
           \A v \in User : w[v] = work[v] \/ w[v].pc = "idle",
           lock' = lock, qb' \in Torrent, ready' = ready, tainted' \in BOOLEAN,
           ready /\ qb'.here => tainted'
    PROVE  QBInv'
<1>1. work' \in [User -> Work]
  BY Disturbed
<1>2. \A v \in User : /\ work'[v].pc = w[v].pc /\ work'[v].changed = w[v].changed
                      /\ work'[v].again = w[v].again /\ work'[v].edge = w[v].edge
                      /\ work'[v].media = w[v].media /\ work'[v].sel = w[v].sel
                      /\ w[v].pc # "idle" => work'[v].disturbed
  BY Disturbed
<1>3. QBTyped'
  BY <1>1 DEF QBInv, QBTyped
<1>4. Held'
  BY <1>2 DEF QBInv, Held, Preparing
<1>5. Vouched' /\ Replaced'
  BY DEF Vouched, Replaced
<1>6. ASSUME NEW v \in User PROVE Progress(work[v])'
  <2>1. Progress(work[v])
    BY DEF QBInv, Steady
  <2>2. CASE w[v].pc = "idle"
    BY <2>2, <1>2 DEF Progress, Preparing
  <2>3. CASE w[v] = work[v] /\ w[v].pc # "idle"
    BY <2>1, <2>3, <1>2 DEF Progress
  <2> QED BY <2>2, <2>3
<1> QED BY <1>3, <1>4, <1>5, <1>6 DEF QBInv, Steady

\* The torrent goes.
LEMMA GoneKeeps == ASSUME QBInv, qb' = Q!Absent, Q!Gone PROVE QBInv'
<1>1. Q!Absent \in Torrent /\ ~Q!Absent.here
  BY DEF Q!Absent, Torrent
<1>2. work \in [User -> Work] /\ tainted \in BOOLEAN
  BY DEF QBInv, QBTyped
<1>3. work' = Q!Disturb(work) /\ lock' = lock /\ ready' = ready /\ tainted' = tainted
  BY DEF Q!Gone
<1> QED BY <1>1, <1>2, <1>3, DisturbKeeps

\* The torrent comes back: a mark that is still there is tainted.
LEMMA PostKeeps == ASSUME QBInv, NEW u \in User, Q!Post(u) PROVE QBInv'
<1>1. work[u].pc = "post" /\ ready' = ready
  BY DEF Q!Post
<1>2. work \in [User -> Work] /\ qb \in Torrent /\ ready \in BOOLEAN /\ tainted \in BOOLEAN
  BY DEF QBInv, QBTyped
<1>3. CASE qb.here /\ qb' = qb /\ Q!Fails(u)
  BY <1>1, <1>2, <1>3, FailKeeps
<1>4. CASE qb' = qb /\ Q!Goes(u, "confirm") /\ lock' = lock /\ tainted' = tainted
  <2>1. work' = [work EXCEPT ![u].pc = "confirm"]
    BY <1>4 DEF Q!Goes
  <2>2. [work[u] EXCEPT !.pc = "confirm"] \in Work /\ [work[u] EXCEPT !.pc = "confirm"].pc = "confirm"
    BY <1>2 DEF Work
  <2>3. work' \in [User -> Work] /\ work'[u].pc = "confirm" /\ \A v \in User \ {u} : work'[v] = work[v]
    BY <2>1, <2>2, <1>2
  <2>4. QBTyped'
    BY <1>1, <1>4, <2>3 DEF QBInv, QBTyped
  <2>5. Held' /\ Replaced'
    BY <1>1, <1>4, <2>3 DEF QBInv, Held, Replaced, Preparing
  <2>6. ASSUME NEW v \in User PROVE Progress(work[v])'
    BY <1>4, <2>3 DEF QBInv, Steady, Progress, Preparing
  <2>7. Vouched'
    <3>1. \A v \in User : Owes(work[v]) => v # u
      BY <1>1 DEF Owes
    <3>2. \A v \in User \ {u} : Owes(work[v]) => Owes(work[v])'
      BY <2>3 DEF Owes
    <3> QED BY <1>1, <1>4, <3>1, <3>2 DEF QBInv, Vouched
  <2> QED BY <2>4, <2>5, <2>6, <2>7 DEF QBInv, Steady
<1> DEFINE w == [work EXCEPT ![u] = Q!NoWork]
<1>5. Q!NoWork \in Work /\ Q!NoWork.pc = "idle"
  BY DEF Q!NoWork, Work
<1>6. w \in [User -> Work] /\ \A v \in User : w[v] = work[v] \/ w[v].pc = "idle"
  BY <1>2, <1>5
<1>7. CASE ~qb.here /\ qb' \in Q!Added /\ work' = Q!Disturb(w) /\ lock' = lock
           /\ \E lost \in BOOLEAN : tainted' = (tainted \/ ready \/ lost)
  <2>1. qb' \in Torrent
    <3>1. PICK set \in BOOLEAN : qb' = [here |-> TRUE, on |-> Item, seq |-> TRUE, edge |-> TRUE,
                                        set |-> set, paused |-> FALSE]
      BY <1>7 DEF Q!Added
    <3> QED BY <3>1 DEF Torrent
  <2>2. tainted' \in BOOLEAN /\ (ready => tainted')
    BY <1>7
  <2> HIDE DEF w
  <2> QED BY <1>1, <1>6, <1>7, <2>1, <2>2, DisturbKeeps
<1>8. CASE ~qb.here /\ qb' = qb /\ work' = w /\ tainted' = TRUE /\ lock' = lock
  <2>1. \A v \in User : v # u => work'[v] = work[v]
    BY <1>8, <1>2
  <2>2. work'[u].pc = "idle"
    BY <1>8, <1>2, <1>5
  <2>3. QBTyped'
    BY <1>1, <1>6, <1>8 DEF QBInv, QBTyped
  <2>4. Held'
    BY <1>8, <2>1, <2>2 DEF QBInv, Held, Preparing
  <2>5. Vouched' /\ Replaced'
    BY <1>8 DEF Vouched, Replaced
  <2>6. ASSUME NEW v \in User PROVE Progress(work[v])'
    BY <1>8, <2>1, <2>2 DEF QBInv, Steady, Progress, Preparing
  <2> QED BY <2>3, <2>4, <2>5, <2>6 DEF QBInv, Steady
<1>9. \/ qb.here /\ qb' = qb /\ Q!Fails(u)
      \/ qb' = qb /\ Q!Goes(u, "confirm") /\ lock' = lock /\ tainted' = tainted
      \/ /\ ~qb.here /\ qb' \in Q!Added /\ work' = Q!Disturb(w) /\ lock' = lock
         /\ \E lost \in BOOLEAN : tainted' = (tainted \/ ready \/ lost)
      \/ ~qb.here /\ qb' = qb /\ work' = w /\ tainted' = TRUE /\ lock' = lock
  BY <1>2 DEF Q!Post, Q!Command
<1> QED BY <1>3, <1>4, <1>7, <1>8, <1>9

\* Confirming a duplicate.
LEMMA ConfirmKeeps == ASSUME QBInv, NEW u \in User, Q!Confirm(u) PROVE QBInv'
<1>1. work[u].pc = "confirm" /\ qb' = qb /\ ready' = ready
  BY DEF Q!Confirm
<1>2. CASE Q!Fails(u)
  BY <1>1, <1>2, FailKeeps DEF QBInv, QBTyped
<1>3. CASE Q!Ends(u) /\ tainted' = tainted
  <2>1. work' = [work EXCEPT ![u] = Q!NoWork] /\ Q!NoWork \in Work /\ Q!NoWork.pc = "idle"
    BY <1>3 DEF Q!Ends, Q!NoWork, Work
  <2>2. work' \in [User -> Work] /\ work'[u].pc = "idle" /\ \A v \in User \ {u} : work'[v] = work[v]
    BY <2>1 DEF QBInv, QBTyped
  <2>3. lock' = IF lock = u THEN Q!Nobody ELSE lock
    BY <1>3 DEF Q!Ends
  <2>4. QBTyped'
    BY <1>1, <1>3, <2>2 DEF QBInv, QBTyped
  <2>5. Held' /\ Replaced'
    BY <1>1, <1>3, <2>2, <2>3 DEF QBInv, Held, Replaced, Preparing
  <2>6. ASSUME NEW v \in User PROVE Progress(work[v])'
    BY <1>1, <1>3, <2>2 DEF QBInv, Steady, Progress, Preparing
  <2>7. Vouched'
    <3>1. \A v \in User : Owes(work[v]) => v # u
      BY <1>1 DEF Owes
    <3>2. \A v \in User \ {u} : Owes(work[v]) => Owes(work[v])'
      BY <2>2 DEF Owes
    <3> QED BY <1>1, <1>3, <3>1, <3>2 DEF QBInv, Vouched
  <2> QED BY <2>4, <2>5, <2>6, <2>7 DEF QBInv, Steady
<1> QED BY <1>2, <1>3 DEF Q!Confirm

\* The end of a preparation.
LEMMA ReturnKeeps == ASSUME QBInv, NEW u \in User, Q!Return(u) PROVE QBInv'
<1>1. work[u].pc = "prepared" /\ qb' = qb /\ ready' = ready /\ tainted' = tainted
  BY DEF Q!Return
<1>2. work' = [work EXCEPT ![u] = Q!NoWork] /\ Q!NoWork \in Work /\ Q!NoWork.pc = "idle"
  BY DEF Q!Return, Q!Ends, Q!NoWork, Work
<1>3. work' \in [User -> Work] /\ work'[u].pc = "idle" /\ \A v \in User \ {u} : work'[v] = work[v]
  BY <1>2 DEF QBInv, QBTyped
<1>4. lock' = IF lock = u THEN Q!Nobody ELSE lock
  BY DEF Q!Return, Q!Ends
<1>5. QBTyped'
  BY <1>1, <1>3 DEF QBInv, QBTyped
<1>6. Held' /\ Replaced'
  BY <1>1, <1>3, <1>4 DEF QBInv, Held, Replaced, Preparing
<1>7. ASSUME NEW v \in User PROVE Progress(work[v])'
  BY <1>1, <1>3 DEF QBInv, Steady, Progress, Preparing
<1>8. Vouched'
  <2>1. \A v \in User : Owes(work[v]) => v # u
    BY <1>1 DEF Owes
  <2>2. \A v \in User \ {u} : Owes(work[v]) => Owes(work[v])'
    BY <1>3 DEF Owes
  <2> QED BY <1>1, <2>1, <2>2 DEF QBInv, Vouched
<1> QED BY <1>5, <1>6, <1>7, <1>8 DEF QBInv, Steady

\* Pausing and resuming touch neither the files nor the schedulers.
LEMMA SetPausedKeeps == ASSUME QBInv, NEW u \in User, Q!SetPaused(u) PROVE QBInv'
<1>1. PICK paused \in BOOLEAN : qb' = [qb EXCEPT !.paused = paused]
  BY DEF Q!SetPaused
<1>2. UNCHANGED <<ready, lock, work, tainted>>
  BY DEF Q!SetPaused
<1>3. /\ qb' \in Torrent /\ qb'.here = qb.here /\ qb'.on = qb.on /\ qb'.seq = qb.seq
      /\ qb'.edge = qb.edge /\ qb'.set = qb.set
  BY <1>1 DEF QBInv, QBTyped, Torrent
<1>4. QBTyped' /\ Held' /\ Replaced'
  BY <1>2, <1>3 DEF QBInv, QBTyped, Held, Replaced
<1>5. \A v \in User : Progress(work[v])'
  BY <1>2, <1>3 DEF QBInv, Steady, Progress
<1>6. Vouched'
  BY <1>2, <1>3 DEF QBInv, Vouched, Owes
<1> QED BY <1>4, <1>5, <1>6 DEF QBInv, Steady

\* A preparation starts with the mutex and nothing done.
LEMMA BeginPrepareKeeps == ASSUME QBInv, NEW u \in User, Q!BeginPrepare(u) PROVE QBInv'
<1>1. work[u].pc = "idle" /\ lock = Q!Nobody /\ lock' = u /\ UNCHANGED <<qb, ready, tainted>>
  BY DEF Q!BeginPrepare, Q!LockFree
<1>2. PICK media \in SUBSET (Item \cup {Q!Missing}) :
          work' = [work EXCEPT ![u] = [Q!NoWork EXCEPT !.pc = "list", !.media = media]]
  BY DEF Q!BeginPrepare
<1>3. PICK w : w = [Q!NoWork EXCEPT !.pc = "list", !.media = media]
  OBVIOUS
<1>4. w \in Work /\ w.pc = "list" /\ ~w.changed /\ ~w.disturbed
  <2>1. PICK n : n = Q!NoWork
    OBVIOUS
  <2>2. n \in Work /\ ~n.changed /\ ~n.disturbed
    BY <2>1 DEF Q!NoWork, Work
  <2>3. w = [n EXCEPT !.pc = "list", !.media = media]
    BY <1>3, <2>1
  <2> QED BY <2>2, <2>3 DEF Work, Preparing
<1>5. work' \in [User -> Work] /\ work'[u] = w /\ \A v \in User \ {u} : work'[v] = work[v]
  BY <1>2, <1>3, <1>4 DEF QBInv, QBTyped
<1>6. \A v \in User : work[v].pc \notin Preparing
  BY <1>1, QBAssumption DEF QBInv, Held
<1>7. QBTyped' /\ Held' /\ Replaced'
  BY <1>1, <1>4, <1>5, <1>6 DEF QBInv, QBTyped, Held, Replaced
<1>8. ASSUME NEW v \in User PROVE Progress(work[v])'
  BY <1>4, <1>5, <1>6 DEF Progress, Preparing
<1>9. Vouched'
  <2>1. \A v \in User : ~Owes(work[v])
    BY <1>6 DEF Owes, Preparing
  <2> QED BY <1>1, <2>1 DEF QBInv, Vouched
<1> QED BY <1>7, <1>8, <1>9 DEF QBInv, Steady

\* The process ends: the maps of the next one are empty.
LEMMA RestartKeeps == ASSUME QBInv, Q!Restart PROVE QBInv'
<1>1. Q!NoWork \in Work /\ Q!NoWork.pc = "idle"
  BY DEF Q!NoWork, Work
<1>2. \A v \in User : work'[v].pc = "idle"
  BY <1>1 DEF Q!Restart
<1>3. QBTyped'
  BY <1>1 DEF Q!Restart, QBInv, QBTyped
<1>4. Held' /\ Vouched' /\ Replaced'
  BY <1>2 DEF Q!Restart, Held, Vouched, Replaced, Preparing
<1>5. \A v \in User : Progress(work[v])'
  BY <1>2 DEF Progress, Preparing
<1> QED BY <1>3, <1>4, <1>5 DEF QBInv, Steady

\* A step of the call u, from its record r to w, under the mutex.
LEMMA CallOf ==
    ASSUME QBInv, NEW u \in User
    PROVE  work[u] \in Work /\ Progress(work[u]) /\ qb \in Torrent /\ ready \in BOOLEAN /\ tainted \in BOOLEAN
  BY DEF QBInv, QBTyped, Steady

\* A call that owes nothing takes no part in what vouches for the mark.
LEMMA StillVouched ==
    ASSUME QBInv, NEW u \in User, ~Owes(work[u]), NEW w, work' = [work EXCEPT ![u] = w],
           qb' = qb, ready' => ready, tainted => tainted'
    PROVE  Vouched'
<1>1. \A v \in User \ {u} : work'[v] = work[v]
  BY DEF QBInv, QBTyped
<1>2. \A v \in User \ {u} : Owes(work[v]) => Owes(work[v])'
  BY <1>1 DEF Owes
<1>3. ASSUME NEW v \in User, Owes(work[v]) PROVE v # u
  BY <1>3
<1> QED BY <1>2, <1>3 DEF QBInv, Vouched

\* A call that owes the edge pieces, or qb.set, vouches for the mark.
LEMMA VouchedBy ==
    ASSUME QBInv, NEW u \in User, NEW w, work' = [work EXCEPT ![u] = w],
           ready' /\ qb'.here => tainted' \/ qb'.set \/ Owes(w)
    PROVE  Vouched'
<1>1. work'[u] = w
  BY DEF QBInv, QBTyped
<1> QED BY <1>1 DEF Vouched, Owes

\* What to deselect and what to select come from one listing.
LEMMA ListFilesKeeps == ASSUME QBInv, NEW u \in User, Q!ListFiles(u) PROVE QBInv'
<1>1. work[u].pc = "list" /\ qb' = qb /\ ready' = ready /\ work[u].pc \in Preparing
  BY DEF Q!ListFiles, Preparing
<1>2. PICK r : r = work[u]
  OBVIOUS
<1>3. r \in Work /\ Progress(r) /\ qb \in Torrent /\ ready \in BOOLEAN /\ tainted \in BOOLEAN
  BY <1>2, CallOf
<1>4. CASE Q!Fails(u)
  BY <1>1, <1>3, <1>4, FailKeeps
<1>5. CASE /\ qb.here /\ lock' = lock /\ tainted' = tainted
           /\ work' = [work EXCEPT ![u].pc = "deselect", ![u].off = qb.on \ work[u].media,
                                   ![u].sel = work[u].media \ qb.on]
  <2>1. PICK off \in SUBSET Item : off = qb.on \ r.media
    BY <1>3 DEF Torrent
  <2>2. PICK chosen \in SUBSET (Item \cup {Q!Missing}) : chosen = r.media \ qb.on
    BY <1>3 DEF Work
  <2>3. PICK w : w = [r EXCEPT !.pc = "deselect", !.off = off, !.sel = chosen]
    OBVIOUS
  <2>4. work' = [work EXCEPT ![u] = w]
    BY <1>2, <1>5, <2>1, <2>2, <2>3 DEF QBInv, QBTyped
  <2>5. /\ w \in Work /\ w.pc = "deselect" /\ w.off = off /\ w.sel = chosen /\ w.media = r.media
        /\ w.changed = r.changed /\ w.disturbed = r.disturbed
    BY <1>3, <2>3 DEF Work, Preparing
  <2>6. ~r.changed
    BY <1>1, <1>2, <1>3 DEF Progress
  <2>7. Progress(w)'
    BY <1>1, <1>5, <2>1, <2>2, <2>5, <2>6 DEF Progress, Preparing
  <2>8. ~Owes(work[u])
    BY <1>1 DEF Owes
  <2>9. Vouched'
    BY <1>1, <1>5, <2>4, <2>8, StillVouched
  <2>10. w.disturbed /\ ready' /\ qb'.here => tainted'
    BY <1>1, <1>2, <1>5, <2>5 DEF QBInv, Replaced
  <2>11. w.pc \in Preparing
    BY <2>5 DEF Preparing
  <2>12. qb' \in Torrent /\ ready' \in BOOLEAN /\ tainted' \in BOOLEAN
    BY <1>1, <1>3, <1>5
  <2> QED BY <1>1, <1>5, <2>4, <2>5, <2>7, <2>9, <2>10, <2>11, <2>12, StepKeeps
<1> QED BY <1>4, <1>5 DEF Q!ListFiles

\* What filePrio makes of the torrent.
LEMMA PrioritisedTyped ==
    ASSUME qb \in Torrent, NEW on \in SUBSET Item, NEW t \in Q!Prioritised(on)
    PROVE  qb.here /\ t \in Torrent /\ t.here /\ t.on = on /\ t.seq = qb.seq /\ t.edge = qb.edge
<1>1. qb.here
  BY DEF Q!Prioritised
<1>2. PICK set \in BOOLEAN : t = [qb EXCEPT !.on = on, !.set = qb.set /\ set]
  BY DEF Q!Prioritised
<1>3. PICK s \in BOOLEAN : s = (qb.set /\ set)
  BY DEF Torrent
<1>4. t = [qb EXCEPT !.on = on, !.set = s]
  BY <1>2, <1>3
<1> QED BY <1>1, <1>4 DEF Torrent

LEMMA DeselectKeeps == ASSUME QBInv, NEW u \in User, Q!Deselect(u) PROVE QBInv'
<1>1. work[u].pc = "deselect" /\ ready' = ready /\ work[u].pc \in Preparing
  BY DEF Q!Deselect, Preparing
<1>2. PICK r : r = work[u]
  OBVIOUS
<1>3. r \in Work /\ Progress(r) /\ qb \in Torrent /\ ready \in BOOLEAN /\ tainted \in BOOLEAN
  BY <1>2, CallOf
<1>4. PICK on \in SUBSET Item : on = qb.on \ r.off
  BY <1>3 DEF Torrent
<1>5. ~Owes(work[u])
  BY <1>1 DEF Owes
<1>6. r.disturbed /\ ready /\ qb.here => tainted
  BY <1>1, <1>2 DEF QBInv, Replaced
<1>7. CASE qb' \in Q!Prioritised(on) \cup {qb} /\ Q!Fails(u)
  <2>1. qb' \in Torrent
    BY <1>3, <1>7, PrioritisedTyped
  <2> QED BY <1>1, <1>7, <2>1, FailKeeps
<1>8. CASE r.off = {} /\ qb' = qb /\ lock' = lock /\ tainted' = tainted /\ Q!Goes(u, "select")
  <2>1. PICK w : w = [r EXCEPT !.pc = "select"]
    OBVIOUS
  <2>2. work' = [work EXCEPT ![u] = w]
    BY <1>2, <1>8, <2>1 DEF QBInv, QBTyped, Q!Goes
  <2>3. /\ w \in Work /\ w.pc = "select" /\ w.off = r.off /\ w.sel = r.sel /\ w.media = r.media
        /\ w.changed = r.changed /\ w.disturbed = r.disturbed
    BY <1>3, <2>1 DEF Work, Preparing
  <2>4. Progress(w)'
    <3>1. ~r.disturbed => qb.here /\ r.off = qb.on \ r.media /\ r.sel = r.media \ qb.on
      BY <1>1, <1>2, <1>3 DEF Progress, Preparing
    <3>2. r.sel \subseteq r.media
      BY <1>1, <1>2, <1>3 DEF Progress
    <3> QED BY <1>8, <2>3, <3>1, <3>2 DEF Progress, Preparing
  <2>5. Vouched'
    BY <1>1, <1>5, <1>8, <2>2, StillVouched
  <2>6. w.pc \in Preparing
    BY <2>3 DEF Preparing
  <2>7. w.disturbed /\ ready' /\ qb'.here => tainted'
    BY <1>1, <1>6, <1>8, <2>3
  <2>8. qb' \in Torrent /\ ready' \in BOOLEAN /\ tainted' \in BOOLEAN
    BY <1>1, <1>3, <1>8
  <2> QED BY <1>1, <1>8, <2>2, <2>3, <2>4, <2>5, <2>6, <2>7, <2>8, StepKeeps
<1>9. CASE /\ qb' \in Q!Prioritised(on) /\ lock' = lock /\ tainted' = tainted
           /\ work' = [work EXCEPT ![u].pc = "select", ![u].changed = TRUE]
  <2>1. PICK w : w = [r EXCEPT !.pc = "select", !.changed = TRUE]
    OBVIOUS
  <2>2. work' = [work EXCEPT ![u] = w]
    BY <1>2, <1>9, <2>1 DEF QBInv, QBTyped
  <2>3. /\ w \in Work /\ w.pc = "select" /\ w.sel = r.sel /\ w.media = r.media
        /\ w.changed /\ w.disturbed = r.disturbed
    BY <1>3, <2>1 DEF Work, Preparing
  <2>4. qb.here /\ qb' \in Torrent /\ qb'.here /\ qb'.on = on
    BY <1>3, <1>9, PrioritisedTyped
  <2>5. Progress(w)'
    <3>1. ~r.disturbed => r.off = qb.on \ r.media /\ r.sel = r.media \ qb.on
      BY <1>1, <1>2, <1>3 DEF Progress, Preparing
    <3>2. ~r.disturbed => qb'.on \subseteq r.media /\ r.sel = r.media \ qb'.on
      BY <1>4, <2>4, <3>1
    <3>3. r.sel \subseteq r.media
      BY <1>1, <1>2, <1>3 DEF Progress
    <3> QED BY <2>3, <2>4, <3>2, <3>3 DEF Progress, Preparing
  <2>6. w.disturbed /\ ready' /\ qb'.here => tainted'
    BY <1>1, <1>6, <1>9, <2>3, <2>4
  <2>7. ready' /\ qb'.here => tainted' \/ qb'.set \/ Owes(w)
    BY <2>3, <2>6 DEF Owes
  <2>8. Vouched'
    BY <2>2, <2>7, VouchedBy
  <2>9. w.pc \in Preparing
    BY <2>3 DEF Preparing
  <2>10. ready' \in BOOLEAN /\ tainted' \in BOOLEAN
    BY <1>1, <1>3, <1>9
  <2> QED BY <1>1, <1>9, <2>2, <2>3, <2>4, <2>5, <2>6, <2>8, <2>9, <2>10, StepKeeps
<1> QED BY <1>2, <1>4, <1>7, <1>8, <1>9 DEF Q!Deselect, Q!Command

\* The step to the status, with the priorities changed or not.
LEMMA SelectedKeeps ==
    ASSUME QBInv, NEW u \in User, work[u].pc = "select", NEW changed \in BOOLEAN,
           work' = [work EXCEPT ![u].pc = "status", ![u].changed = changed,
                                ![u].again = changed \/ ~ready],
           lock' = lock, tainted' = tainted, ready' = ready, qb' \in Torrent, qb'.here = qb.here,
           ~work[u].disturbed => qb'.on = work[u].media,
           changed \/ (~work[u].changed /\ qb' = qb)
    PROVE  QBInv'
<1>1. work[u].pc \in Preparing
  BY DEF Preparing
<1>2. PICK r : r = work[u]
  OBVIOUS
<1>3. r \in Work /\ Progress(r) /\ qb \in Torrent /\ ready \in BOOLEAN /\ tainted \in BOOLEAN
  BY <1>2, CallOf
<1>4. PICK again \in BOOLEAN : again = (changed \/ ~ready)
  BY <1>3
<1>5. PICK w : w = [r EXCEPT !.pc = "status", !.changed = changed, !.again = again]
  OBVIOUS
<1>6. work' = [work EXCEPT ![u] = w]
  BY <1>2, <1>4, <1>5 DEF QBInv, QBTyped
<1>7. /\ w \in Work /\ w.pc = "status" /\ w.media = r.media /\ w.disturbed = r.disturbed
      /\ w.changed = changed /\ w.again = again
  BY <1>3, <1>5 DEF Work, Preparing
<1>8. w.disturbed /\ ready' /\ qb'.here => tainted'
  BY <1>1, <1>2, <1>7 DEF QBInv, Replaced
<1>9. Vouched'
  <2>1. CASE changed
    <3>1. ready' /\ qb'.here => tainted' \/ qb'.set \/ Owes(w)
      BY <1>4, <1>7, <1>8, <2>1 DEF Owes
    <3> QED BY <1>6, <3>1, VouchedBy
  <2>2. CASE ~work[u].changed /\ qb' = qb
    <3>1. ~Owes(work[u])
      BY <2>2 DEF Owes
    <3> QED BY <1>6, <2>2, <3>1, StillVouched
  <2> QED BY <2>1, <2>2
<1>10. Progress(w)'
  <2>1. ~r.disturbed => qb.here /\ qb'.on = r.media
    BY <1>2, <1>3 DEF Progress, Preparing
  <2>2. ~again /\ ~r.disturbed => tainted' \/ qb'.set
    <3>1. ASSUME ~again, ~r.disturbed PROVE tainted \/ qb.set
      <4>1. ready /\ qb.here /\ ~work[u].changed
        BY <1>4, <2>1, <3>1
      <4>2. \A v \in User \ {u} : ~Owes(work[v])
        BY <1>1, OnePrepares DEF QBInv, Owes, Preparing
      <4>3. ~Owes(work[u])
        BY <4>1 DEF Owes
      <4> QED BY <4>1, <4>2, <4>3 DEF QBInv, Vouched
    <3>2. ~again => qb' = qb
      BY <1>4
    <3> QED BY <3>1, <3>2
  <2> QED BY <1>7, <2>1, <2>2 DEF Progress, Preparing
<1>11. w.pc \in Preparing
  BY <1>7 DEF Preparing
<1> QED BY <1>1, <1>3, <1>6, <1>7, <1>8, <1>9, <1>10, <1>11, StepKeeps

LEMMA SelectKeeps == ASSUME QBInv, NEW u \in User, Q!Select(u) PROVE QBInv'
<1>1. work[u].pc = "select" /\ ready' = ready /\ work[u].pc \in Preparing
  BY DEF Q!Select, Preparing
<1>2. PICK r : r = work[u]
  OBVIOUS
<1>3. r \in Work /\ Progress(r) /\ qb \in Torrent /\ ready \in BOOLEAN /\ tainted \in BOOLEAN
  BY <1>2, CallOf
<1>4. r.sel \subseteq r.media
  BY <1>1, <1>2, <1>3 DEF Progress
<1>10. ~r.disturbed => r.sel = r.media \ qb.on /\ qb.on \subseteq r.media
  BY <1>1, <1>2, <1>3 DEF Progress, Preparing
<1>5. CASE qb' = qb /\ Q!Fails(u)
  BY <1>1, <1>3, <1>5, FailKeeps
<1>6. CASE /\ r.sel = {} /\ qb' = qb /\ lock' = lock /\ tainted' = tainted
           /\ work' = [work EXCEPT ![u].pc = "status", ![u].changed = work[u].changed,
                                   ![u].again = work[u].changed \/ ~ready]
  <2>1. PICK changed \in BOOLEAN : changed = work[u].changed
    BY <1>2, <1>3 DEF Work
  <2>2. ~work[u].disturbed => qb'.on = work[u].media
    BY <1>2, <1>6, <1>10
  <2> QED BY <1>1, <1>3, <1>6, <2>1, <2>2, SelectedKeeps
<1>7. ASSUME Q!Missing \notin r.media, qb' \in Q!Prioritised(qb.on \cup r.sel)
      PROVE  qb.here /\ qb' \in Torrent /\ qb'.here /\ (~r.disturbed => qb'.on = r.media)
  <2>1. PICK on \in SUBSET Item : on = qb.on \cup r.sel
    BY <1>3, <1>4, <1>7 DEF Work, Torrent
  <2>2. qb.here /\ qb' \in Torrent /\ qb'.here /\ qb'.on = on
    BY <1>3, <1>7, <2>1, PrioritisedTyped
  <2> QED BY <1>10, <2>1, <2>2
<1>8. CASE Q!Missing \notin r.media /\ qb' \in Q!Prioritised(qb.on \cup r.sel) /\ Q!Fails(u)
  BY <1>1, <1>7, <1>8, FailKeeps
<1>9. CASE /\ Q!Missing \notin r.media /\ qb' \in Q!Prioritised(qb.on \cup r.sel)
           /\ lock' = lock /\ tainted' = tainted
           /\ work' = [work EXCEPT ![u].pc = "status", ![u].changed = TRUE, ![u].again = TRUE \/ ~ready]
  BY <1>1, <1>2, <1>7, <1>9, SelectedKeeps
<1> QED BY <1>2, <1>5, <1>6, <1>8, <1>9 DEF Q!Select, Q!Command, Q!Reapplies

LEMMA TogglesTyped ==
    ASSUME NEW on \in BOOLEAN, NEW again \in BOOLEAN
    PROVE  /\ Q!Toggles(on, again) \in 0..2
           /\ Q!Toggles(on, again) = 0 => on /\ ~again
           /\ Q!Toggles(on, again) = 1 => ~on
           /\ Q!Toggles(on, again) = 2 => on /\ again
  BY DEF Q!Toggles

LEMMA ReadFlagsKeeps == ASSUME QBInv, NEW u \in User, Q!ReadFlags(u) PROVE QBInv'
<1>1. work[u].pc = "status" /\ qb' = qb /\ ready' = ready /\ work[u].pc \in Preparing
  BY DEF Q!ReadFlags, Preparing
<1>2. PICK r : r = work[u]
  OBVIOUS
<1>3. r \in Work /\ Progress(r) /\ qb \in Torrent /\ ready \in BOOLEAN /\ tainted \in BOOLEAN
  BY <1>2, CallOf
<1>4. CASE Q!Fails(u)
  BY <1>1, <1>3, <1>4, FailKeeps
<1>5. CASE /\ qb.here /\ lock' = lock /\ tainted' = tainted
           /\ work' = [work EXCEPT ![u].pc = "toggle", ![u].seq = Q!Toggles(qb.seq, work[u].again),
                                   ![u].edge = Q!Toggles(qb.edge, work[u].again)]
  <2>1. qb.seq \in BOOLEAN /\ qb.edge \in BOOLEAN /\ r.again \in BOOLEAN
    BY <1>3 DEF Torrent, Work
  <2>2. PICK seq \in 0..2 : seq = Q!Toggles(qb.seq, r.again)
    BY <2>1, TogglesTyped
  <2>3. PICK edge \in 0..2 : edge = Q!Toggles(qb.edge, r.again)
    BY <2>1, TogglesTyped
  <2>4. (edge = 0 => ~r.again) /\ (edge = 1 => ~qb.edge) /\ (edge = 2 => qb.edge /\ r.again)
    BY <2>1, <2>3, TogglesTyped
  <2>5. PICK w : w = [r EXCEPT !.pc = "toggle", !.seq = seq, !.edge = edge]
    OBVIOUS
  <2>6. work' = [work EXCEPT ![u] = w]
    BY <1>2, <1>5, <2>2, <2>3, <2>5 DEF QBInv, QBTyped
  <2>7. /\ w \in Work /\ w.pc = "toggle" /\ w.media = r.media /\ w.disturbed = r.disturbed
        /\ w.again = r.again /\ w.edge = edge
    BY <1>3, <2>5 DEF Work, Preparing
  <2>8. w.disturbed /\ ready' /\ qb'.here => tainted'
    BY <1>1, <1>2, <1>5, <2>7 DEF QBInv, Replaced
  <2>9. Vouched'
    <3>1. CASE Owes(work[u])
      <4>1. Owes(w)
        BY <1>1, <1>2, <2>7, <3>1 DEF Owes
      <4> QED BY <2>6, <4>1, VouchedBy
    <3>2. CASE ~Owes(work[u])
      BY <1>1, <1>5, <2>6, <3>2, StillVouched
    <3> QED BY <3>1, <3>2
  <2>10. Progress(w)'
    <3>1. ~r.disturbed => qb.here /\ qb.on = r.media /\ (~r.again => tainted \/ qb.set)
      BY <1>1, <1>2, <1>3 DEF Progress, Preparing
    <3> QED BY <1>1, <1>5, <2>4, <2>7, <3>1 DEF Progress, Preparing
  <2>11. w.pc \in Preparing
    BY <2>7 DEF Preparing
  <2>12. qb' \in Torrent /\ ready' \in BOOLEAN /\ tainted' \in BOOLEAN
    BY <1>1, <1>3, <1>5
  <2> QED BY <1>1, <1>5, <2>6, <2>7, <2>8, <2>9, <2>10, <2>11, <2>12, StepKeeps
<1> QED BY <1>4, <1>5 DEF Q!ReadFlags

\* What a toggle makes of the torrent.
LEMMA ToggledTyped ==
    ASSUME qb \in Torrent, NEW flag \in {"seq", "edge"}
    PROVE  /\ Q!Toggled(flag) \in Torrent
           /\ Q!Toggled(flag).here = qb.here /\ Q!Toggled(flag).on = qb.on
           /\ flag = "seq" => Q!Toggled(flag).edge = qb.edge /\ Q!Toggled(flag).set = qb.set
           /\ flag = "edge" /\ qb.here => (Q!Toggled(flag).set <=> ~qb.edge)
           /\ flag = "edge" /\ qb.here => (Q!Toggled(flag).edge <=> ~qb.edge)
<1>1. CASE ~qb.here
  <2>1. Q!Toggled(flag) = qb
    BY <1>1 DEF Q!Toggled
  <2> QED BY <1>1, <2>1, Z3 DEF Torrent
<1>2. PICK nseq \in BOOLEAN : nseq = ~qb.seq
  BY DEF Torrent
<1>3. PICK nedge \in BOOLEAN : nedge = ~qb.edge
  BY DEF Torrent
<1>4. CASE qb.here /\ flag = "seq"
  <2>1. Q!Toggled(flag) = [qb EXCEPT !.seq = nseq]
    BY <1>2, <1>4 DEF Q!Toggled
  <2> QED BY <1>4, <2>1 DEF Torrent
<1>5. CASE qb.here /\ flag = "edge"
  <2>1. Q!Toggled(flag) = [qb EXCEPT !.edge = nedge, !.set = nedge]
    BY <1>3, <1>5 DEF Q!Toggled
  <2> QED BY <1>3, <1>5, <2>1 DEF Torrent
<1> QED BY <1>1, <1>4, <1>5

\* A call under the mutex is not touched by the torrent's flags alone.
LEMMA ToggleKeeps == ASSUME QBInv, NEW u \in User, Q!Toggle(u) PROVE QBInv'
<1>1. work[u].pc = "toggle" /\ ready' = ready /\ work[u].pc \in Preparing
  BY DEF Q!Toggle, Preparing
<1>2. PICK r : r = work[u]
  OBVIOUS
<1>3. r \in Work /\ Progress(r) /\ qb \in Torrent /\ ready \in BOOLEAN /\ tainted \in BOOLEAN
  BY <1>2, CallOf
<1>4. r.disturbed /\ ready /\ qb.here => tainted
  BY <1>1, <1>2 DEF QBInv, Replaced
<1>5. ~r.disturbed => /\ qb.here /\ qb.on = r.media
                      /\ (r.edge = 0 => tainted \/ qb.set) /\ (r.edge = 1 => ~qb.edge) /\ (r.edge = 2 => qb.edge)
  BY <1>1, <1>2, <1>3 DEF Progress, Preparing
<1>6. r.edge = 2 => r.again
  BY <1>1, <1>2, <1>3 DEF Progress
<1>7. CASE /\ r.seq = 0 /\ r.edge = 0 /\ qb' = qb /\ lock' = lock /\ tainted' = tainted
           /\ Q!Goes(u, "verify")
  <2>1. PICK w : w = [r EXCEPT !.pc = "verify"]
    OBVIOUS
  <2>2. work' = [work EXCEPT ![u] = w]
    BY <1>2, <1>7, <2>1 DEF QBInv, QBTyped, Q!Goes
  <2>3. w \in Work /\ w.pc = "verify" /\ w.media = r.media /\ w.disturbed = r.disturbed
    BY <1>3, <2>1 DEF Work, Preparing
  <2>4. w.disturbed /\ ready' /\ qb'.here => tainted'
    BY <1>1, <1>4, <1>7, <2>3
  <2>5. Vouched'
    <3>1. ready' /\ qb'.here => tainted' \/ qb'.set \/ Owes(w)
      BY <1>5, <1>7, <2>3, <2>4
    <3> QED BY <2>2, <3>1, VouchedBy
  <2>6. Progress(w)'
    BY <1>5, <1>7, <2>3 DEF Progress, Preparing
  <2>7. w.pc \in Preparing
    BY <2>3 DEF Preparing
  <2>8. qb' \in Torrent /\ ready' \in BOOLEAN /\ tainted' \in BOOLEAN
    BY <1>1, <1>3, <1>7
  <2> QED BY <1>1, <1>7, <2>2, <2>3, <2>4, <2>5, <2>6, <2>7, <2>8, StepKeeps
<1>8. PICK flag \in {"seq", "edge"} : flag = IF work[u].seq > 0 THEN "seq" ELSE "edge"
  OBVIOUS
<1>9. CASE qb' \in {Q!Toggled(flag), qb} /\ Q!Fails(u)
  <2>1. qb' \in Torrent
    BY <1>3, <1>9, ToggledTyped
  <2> QED BY <1>1, <1>9, <2>1, FailKeeps
<1>10. CASE /\ ~(r.seq = 0 /\ r.edge = 0) /\ qb' = Q!Toggled(flag) /\ lock' = lock /\ tainted' = tainted
            /\ work' = [work EXCEPT ![u][flag] = work[u][flag] - 1]
  <2>1. qb' \in Torrent /\ qb'.here = qb.here /\ qb'.on = qb.on
    BY <1>3, <1>10, ToggledTyped
  <2>2. CASE flag = "seq"
    <3>1. r.seq \in 1..2
      BY <1>2, <1>3, <1>8, <2>2 DEF Work
    <3>2. PICK w : w = [r EXCEPT !.seq = r.seq - 1]
      OBVIOUS
    <3>3. work' = [work EXCEPT ![u] = w]
      BY <1>2, <1>10, <2>2, <3>2 DEF QBInv, QBTyped
    <3>4. /\ w \in Work /\ w.pc = "toggle" /\ w.media = r.media /\ w.disturbed = r.disturbed
          /\ w.again = r.again /\ w.edge = r.edge
      BY <1>1, <1>2, <1>3, <3>1, <3>2 DEF Work
    <3>5. qb'.edge = qb.edge /\ qb'.set = qb.set
      BY <1>3, <1>10, <2>2, ToggledTyped
    <3>6. w.disturbed /\ ready' /\ qb'.here => tainted'
      BY <1>1, <1>4, <1>10, <2>1, <3>4
    <3>7. Progress(w)'
      BY <1>5, <1>6, <1>10, <2>1, <3>4, <3>5 DEF Progress, Preparing
    <3>8. ready' /\ qb'.here => tainted' \/ qb'.set \/ Owes(w)
      <4>1. CASE r.disturbed
        BY <3>4, <3>6, <4>1
      <4>2. CASE ~r.disturbed /\ r.again
        BY <3>4, <4>2 DEF Owes
      <4>3. CASE ~r.disturbed /\ ~r.again
        <5>1. ~Owes(work[u])
          BY <1>1, <1>2, <4>3 DEF Owes
        <5>2. \A v \in User \ {u} : ~Owes(work[v])
          BY <1>1, OnePrepares DEF QBInv, Owes, Preparing
        <5>3. ready /\ qb.here => tainted \/ qb.set
          BY <5>1, <5>2 DEF QBInv, Vouched
        <5> QED BY <1>1, <1>10, <2>1, <3>5, <5>3
      <4> QED BY <4>1, <4>2, <4>3
    <3>9. Vouched'
      BY <3>3, <3>8, VouchedBy
    <3>10. w.pc \in Preparing
      BY <3>4 DEF Preparing
    <3>11. ready' \in BOOLEAN /\ tainted' \in BOOLEAN
      BY <1>1, <1>3, <1>10
    <3> QED BY <1>1, <1>10, <2>1, <3>3, <3>4, <3>6, <3>7, <3>9, <3>10, <3>11, StepKeeps
  <2>3. CASE flag = "edge"
    <3>1. r.edge \in 1..2
      BY <1>2, <1>3, <1>8, <1>10, <2>3 DEF Work
    <3>2. PICK w : w = [r EXCEPT !.edge = r.edge - 1]
      OBVIOUS
    <3>3. work' = [work EXCEPT ![u] = w]
      BY <1>2, <1>10, <2>3, <3>2 DEF QBInv, QBTyped
    <3>4. /\ w \in Work /\ w.pc = "toggle" /\ w.media = r.media /\ w.disturbed = r.disturbed
          /\ w.again = r.again /\ w.edge = r.edge - 1
      BY <1>1, <1>2, <1>3, <3>1, <3>2 DEF Work
    <3>5. qb.here => (qb'.edge <=> ~qb.edge) /\ (qb'.set <=> ~qb.edge)
      BY <1>3, <1>10, <2>3, ToggledTyped
    <3>6. w.disturbed /\ ready' /\ qb'.here => tainted'
      BY <1>1, <1>4, <1>10, <2>1, <3>4
    <3>7. Progress(w)'
      <4>1. ~r.disturbed /\ w.edge = 0 => qb'.set
        BY <1>5, <3>1, <3>4, <3>5
      <4>2. w.edge # 2
        BY <3>1, <3>4
      <4>3. ~r.disturbed /\ w.edge = 1 => ~qb'.edge
        BY <1>5, <3>1, <3>4, <3>5
      <4> QED BY <1>5, <1>10, <2>1, <3>4, <4>1, <4>2, <4>3 DEF Progress, Preparing
    <3>8. ready' /\ qb'.here => tainted' \/ qb'.set \/ Owes(w)
      <4>1. CASE r.disturbed
        BY <3>4, <3>6, <4>1
      <4>2. CASE ~r.disturbed /\ r.again
        BY <3>4, <4>2 DEF Owes
      <4>3. CASE ~r.disturbed /\ ~r.again
        <5>1. r.edge = 1
          BY <1>6, <3>1, <4>3
        <5> QED BY <1>5, <2>1, <3>5, <4>3, <5>1
      <4> QED BY <4>1, <4>2, <4>3
    <3>9. Vouched'
      BY <3>3, <3>8, VouchedBy
    <3>10. w.pc \in Preparing
      BY <3>4 DEF Preparing
    <3>11. ready' \in BOOLEAN /\ tainted' \in BOOLEAN
      BY <1>1, <1>3, <1>10
    <3> QED BY <1>1, <1>10, <2>1, <3>3, <3>4, <3>6, <3>7, <3>9, <3>10, <3>11, StepKeeps
  <2> QED BY <2>2, <2>3
<1> QED BY <1>2, <1>7, <1>8, <1>9, <1>10 DEF Q!Toggle, Q!Command

\* The flags are read back, and the mark is set.
LEMMA VerifyKeeps == ASSUME QBInv, NEW u \in User, Q!Verify(u) PROVE QBInv'
<1>1. work[u].pc = "verify" /\ qb' = qb /\ work[u].pc \in Preparing
  BY DEF Q!Verify, Preparing
<1>2. PICK r : r = work[u]
  OBVIOUS
<1>3. r \in Work /\ Progress(r) /\ qb \in Torrent /\ ready \in BOOLEAN /\ tainted \in BOOLEAN
  BY <1>2, CallOf
<1>4. CASE Q!Fails(u) /\ ready' = ready
  BY <1>1, <1>3, <1>4, FailKeeps
<1>5. CASE /\ qb.here /\ qb.seq /\ qb.edge /\ ready' = TRUE /\ lock' = lock
           /\ tainted' = (tainted \/ work[u].disturbed)
           /\ Q!Goes(u, "prepared")
  <2>1. PICK w : w = [r EXCEPT !.pc = "prepared"]
    OBVIOUS
  <2>2. work' = [work EXCEPT ![u] = w]
    BY <1>2, <1>5, <2>1 DEF QBInv, QBTyped, Q!Goes
  <2>3. w \in Work /\ w.pc = "prepared" /\ w.media = r.media /\ w.disturbed = r.disturbed
    BY <1>3, <2>1 DEF Work, Preparing
  <2>4. ~r.disturbed => qb.on = r.media /\ (tainted \/ qb.set)
    BY <1>1, <1>2, <1>3 DEF Progress, Preparing
  <2>5. tainted' <=> tainted \/ r.disturbed
    BY <1>2, <1>5
  <2>6. Progress(w)'
    BY <1>1, <1>5, <2>3, <2>4, <2>5 DEF Progress, Preparing
  <2>7. Vouched'
    BY <1>1, <2>4, <2>5 DEF Vouched
  <2>8. w.pc \in Preparing
    BY <2>3 DEF Preparing
  <2>9. ready' \in BOOLEAN /\ tainted' \in BOOLEAN
    BY <1>2, <1>3, <1>5 DEF Work
  <2> QED BY <1>1, <1>3, <1>5, <2>2, <2>3, <2>5, <2>6, <2>7, <2>8, <2>9, StepKeeps
<1> QED BY <1>4, <1>5 DEF Q!Verify

LEMMA QBInitially == Q!QBInit => QBInv
<1> SUFFICES ASSUME Q!QBInit PROVE QBInv
  OBVIOUS
<1>1. Q!NoWork \in Work /\ Q!NoWork.pc = "idle" /\ Q!Absent \in Torrent
  BY DEF Q!NoWork, Work, Q!Absent, Torrent
<1>2. QBTyped
  BY <1>1 DEF Q!QBInit, QBTyped
<1>3. \A u \in User : work[u].pc = "idle"
  BY <1>1 DEF Q!QBInit
<1>4. Held /\ Vouched /\ Replaced
  BY <1>3 DEF Q!QBInit, Held, Vouched, Replaced, Preparing
<1>5. \A u \in User : Progress(work[u])
  BY <1>3 DEF Progress, Preparing
<1> QED BY <1>2, <1>4, <1>5 DEF QBInv, Steady

LEMMA QBKept == QBInv /\ Q!QBNext => QBInv'
<1> SUFFICES ASSUME QBInv, Q!QBNext PROVE QBInv'
  OBVIOUS
<1>1. CASE Q!Restart
  BY <1>1, RestartKeeps
<1>2. CASE Q!Vanish
  BY <1>2, GoneKeeps DEF Q!Vanish
<1>3. ASSUME NEW u \in User, Q!BeginAdd(u) \/ Q!Post(u) \/ Q!Confirm(u) \/ Q!Remove(u)
      PROVE  QBInv'
  BY <1>3, BeginAddKeeps, PostKeeps, ConfirmKeeps, GoneKeeps DEF Q!Remove
<1>4. ASSUME NEW u \in User, Q!SetPaused(u) \/ Q!BeginPrepare(u) PROVE QBInv'
  BY <1>4, SetPausedKeeps, BeginPrepareKeeps
<1>5. ASSUME NEW u \in User, Q!Prepare(u) PROVE QBInv'
  BY <1>5, ListFilesKeeps, DeselectKeeps, SelectKeeps, ReadFlagsKeeps, ToggleKeeps, VerifyKeeps,
     ReturnKeeps DEF Q!Prepare
<1> QED BY <1>1, <1>2, <1>3, <1>4, <1>5 DEF Q!QBNext

LEMMA QBKeptAtRest == QBInv /\ UNCHANGED qbittorrentAll => QBInv'
  BY DEF QBInv, QBTyped, Held, Steady, Progress, Vouched, Owes, Replaced, qbittorrentAll

\* A step of the instance is one of the engine or leaves it alone.
LEMMA QBSteps == [Next]_vars => Q!QBNext \/ UNCHANGED qbittorrentAll
  BY DEF Next, Only, vars

LEMMA QBInductive == Init /\ [][Next]_vars => []QBInv
<1>1. Init => QBInv
  BY QBInitially DEF Init
<1>2. QBInv /\ [Next]_vars => QBInv'
  BY QBKept, QBKeptAtRest, QBSteps
<1> QED BY <1>1, <1>2, PTL

\* PrepareFiles reports success only when the torrent has exactly the files it was
\* asked for selected and both schedulers on, for any files and any number of calls,
\* whatever requests failed, lost their answer or met a restart.
THEOREM PreparationsWhole == Spec => []PreparedWhole
<1>1. QBInv => PreparedWhole
  BY DEF QBInv, Steady, Progress, Preparing, PreparedWhole, Q!PreparedWhole
<1> QED BY <1>1, QBInductive, SpecSteps, PTL

---------------------------------------------------------------------------
(* Staging a release.                                                      *)

MemberSize(x) == x.size

Expanded == INSTANCE Sums WITH Weight <- MemberSize

LEMMA CardinalityThere == \A X : G!Cardinality(X) = Cardinality(X)
  BY DEF G!Cardinality, Cardinality

LEMMA TreeBytes == G!MapThenSumSet(LAMBDA x : x.size, tree) = Expanded!Sum(tree)
  BY DEF G!MapThenSumSet, G!MapThenFoldSet, Expanded!Sum, Expanded!MapThenSumSet, Expanded!MapThenFoldSet, MemberSize

LEMMA BytesGrow ==
    ASSUME NEW X, IsFiniteSet(X), NEW m, m \notin X, \A x \in X \cup {m} : x.size \in Nat
    PROVE  Expanded!Sum(X \cup {m}) = Expanded!Sum(X) + m.size /\ Expanded!Sum(X) \in Nat
<1>1. Expanded!IsFiniteSet(X)
  BY DEF IsFiniteSet, Expanded!IsFiniteSet
<1>2. \A x \in X \cup {m} : MemberSize(x) \in Nat
  BY DEF MemberSize
<1>3. Expanded!Sum(X \cup {m}) = Expanded!Sum(X) + MemberSize(m) /\ Expanded!Sum(X) \in Nat
  BY <1>1, <1>2, Expanded!SumGrows
<1> QED BY <1>3 DEF MemberSize

LEMMA NoBytes == Expanded!Sum({}) = 0
  BY Expanded!SumEmpty

StagerPC == {"idle", "resolved", "streaming", "staged", "extracting", "verifying", "verified", "failed"}
Rules == [entries : 0..MaxEntries, seen : SUBSET G!Names, expanded : 0..MaxExpanded,
          bundle : {"none", "A.app", "B.app"}]
TreeMember == [name : G!Names, kind : {"file", "dir", "link"}, size : 0..MaxExpanded, at : G!Way, lead : G!Way]
Extracted == {"extracting", "verifying", "verified"}

StagingTyped ==
    /\ release \in [id : Identity, hint : Version] /\ temp \subseteq {"part", "dir"}
    /\ rules \in Rules /\ tree \subseteq TreeMember /\ payload \subseteq G!Binary
    /\ stager \in StagerPC

\* What was selected is the asset of the announced release, if there is one.
SelFits ==
    /\ sel = {} \/ (sel = G!AssetName(release.id, release.hint) /\ ~release.hint.pre)
    /\ stager \notin {"idle", "failed"} => sel # {}

\* The rules have counted what is on disk.
Counted ==
    /\ IsFiniteSet(tree) /\ IsFiniteSet({x.name : x \in tree})
    /\ {x.name : x \in tree} \subseteq rules.seen
    /\ Cardinality({x.name : x \in tree}) = Cardinality(tree)
    /\ Cardinality(tree) <= rules.entries
    /\ Expanded!Sum(tree) = rules.expanded
    /\ G!ForBundle => \A x \in tree : G!IsBundle(x.name)

\* What the verification found of the tree and of its executable.
Verified ==
    /\ G!ForBundle => Cardinality(G!FindBundleDir) = 1
    /\ \A b \in payload : G!VerifyExecutable(b, release.id)

\* A single link leads into the bundle.
Fair(w) == w.to # "home" => w.hops > 1
Located == \A x \in tree : Fair(x.at) /\ Fair(x.lead)

StagingInv ==
    /\ StagingTyped /\ SelFits
    /\ stager \notin Extracted \cup {"failed"} => tree = {}
    /\ stager \notin Extracted => "dir" \notin temp /\ \A x \in tree : x.at.to = "beyond"
    /\ Located
    /\ stager \in Extracted => Counted
    /\ stager = "verified" => Verified

LEMMA AssetOnce ==
    ASSUME NEW i, NEW v
    PROVE  G!AssetName(i, v) = {} \/ \E n : G!AssetName(i, v) = {n}
  BY DEF G!AssetName

LEMMA StagingInitInv == ASSUME Init PROVE StagingInv
<1>1. G!StagingInit
  BY DEF Init
<1>2. G!NoRules \in Rules
  BY StagingAssumption DEF G!NoRules, Rules
<1>3. StagingTyped
  BY <1>1, <1>2 DEF G!StagingInit, StagingTyped, StagerPC
<1> QED BY <1>1, <1>3 DEF G!StagingInit, StagingInv, SelFits, Extracted, Located

\* Before there is a tree.
LEMMA StagingResolveKeeps == ASSUME StagingInv, G!Resolve PROVE StagingInv'
<1>1. PICK r \in G!Release, m \in G!Manifest :
          sel' = IF release.id.valid /\ G!Matches(release.hint, r) THEN G!Chosen(release.id, r, m) ELSE {}
  BY DEF G!Resolve
<1>2. /\ stager = "idle" /\ stager' \in {"failed", "resolved"} /\ (stager' = "resolved" => sel' # {})
      /\ UNCHANGED <<release, temp, rules, tree, payload>>
  BY DEF G!Resolve
<1>3. sel' = {} \/ (sel' = G!AssetName(release.id, release.hint) /\ ~release.hint.pre)
  <2> SUFFICES ASSUME sel' # {} PROVE sel' = G!AssetName(release.id, release.hint) /\ ~release.hint.pre
    OBVIOUS
  <2>1. G!Matches(release.hint, r) /\ sel' = G!Chosen(release.id, r, m)
    BY <1>1
  <2>2. r.tag = release.hint /\ ~release.hint.pre
    BY <2>1 DEF G!Matches
  <2>3. sel' \subseteq G!AssetName(release.id, release.hint)
    BY <2>1, <2>2 DEF G!Chosen
  <2> QED BY <2>2, <2>3, AssetOnce
<1>4. StagingTyped'
  BY <1>2 DEF StagingInv, StagingTyped, StagerPC
<1> QED BY <1>2, <1>3, <1>4 DEF StagingInv, SelFits, Extracted, Located

LEMMA StagingBeforeKeeps ==
    ASSUME StagingInv, G!CreatePart \/ G!FinishPart PROVE StagingInv'
<1>1. /\ stager \in {"resolved", "streaming"} /\ stager' \in {"streaming", "staged", "failed"}
      /\ temp' \subseteq temp \cup {"part"}
      /\ UNCHANGED <<release, sel, rules, tree, payload>>
  BY DEF G!CreatePart, G!FinishPart
<1>2. StagingTyped'
  BY <1>1 DEF StagingInv, StagingTyped, StagerPC
<1> QED BY <1>1, <1>2 DEF StagingInv, SelFits, Extracted, Located

LEMMA StagingCreateDirKeeps == ASSUME StagingInv, G!CreateDir PROVE StagingInv'
<1>1. stager = "staged" /\ UNCHANGED <<release, sel, tree, payload>>
  BY DEF G!CreateDir
<1>2. tree = {}
  BY <1>1 DEF StagingInv, Extracted
<1>3. CASE stager' = "failed" /\ UNCHANGED <<temp, rules>>
  <2>1. StagingTyped'
    BY <1>1, <1>3 DEF StagingInv, StagingTyped, StagerPC
  <2> QED BY <1>1, <1>3, <2>1 DEF StagingInv, SelFits, Extracted, Located
<1>4. CASE stager' = "extracting" /\ temp' = temp \cup {"dir"} /\ rules' = G!NoRules
  <2>1. rules' \in Rules /\ rules'.entries = 0 /\ rules'.expanded = 0
    BY <1>4, StagingAssumption DEF G!NoRules, Rules
  <2>2. StagingTyped'
    BY <1>1, <1>4, <2>1 DEF StagingInv, StagingTyped, StagerPC
  <2>3. {x.name : x \in tree'} = {} /\ tree' = {}
    BY <1>1, <1>2
  <2>4. Counted'
    BY <2>1, <2>3, NoBytes, FS_EmptySet DEF Counted
  <2> QED BY <1>1, <1>4, <2>2, <2>4 DEF StagingInv, SelFits, Extracted, Located
<1> QED BY <1>3, <1>4 DEF G!CreateDir

\* The apply is given up and the directory goes.
LEMMA DiscardKeeps == ASSUME StagingInv, G!Discard PROVE StagingInv'
<1>1. /\ stager' = "failed" /\ temp' = temp \ {"dir"} /\ tree' = {x \in tree : x.at.to = "beyond"}
      /\ UNCHANGED <<release, sel, rules, payload>>
  BY DEF G!Discard
<1>2. StagingTyped'
  BY <1>1 DEF StagingInv, StagingTyped, StagerPC
<1> QED BY <1>1, <1>2 DEF StagingInv, SelFits, Extracted, Located

\* A member that is accepted has a new name, unless it names the root.
LEMMA MemberAccepted ==
    ASSUME StagingTyped, NEW m \in G!Member, G!Accepts(m), m.name.root # "."
    PROVE  /\ rules.entries + 1 <= MaxEntries /\ m.name \notin rules.seen
           /\ m.kind \in {"file", "dir", "link"}
           /\ m.kind = "file" => rules.expanded + m.size <= MaxExpanded
           /\ IF G!ForBundle THEN G!IsBundle(m.name) ELSE ~G!IsBundle(m.name)
<1>1. G!MemberPath(m.name)
  BY DEF G!Accepts
<1>2. /\ rules.entries + 1 <= MaxEntries /\ m.name \notin rules.seen
      /\ IF G!ForBundle THEN G!IsBundle(m.name) ELSE ~G!IsBundle(m.name)
  BY <1>1 DEF G!MemberPath, G!MarkBundle
<1>3. m.kind \in {"file", "dir", "link", "odd"}
  BY DEF G!Member
<1>4. CASE m.kind = "file"
  BY <1>2, <1>4 DEF G!Accepts, G!AccountSize
<1>5. CASE m.kind \in {"dir", "link"}
  BY <1>2, <1>5
<1>6. CASE m.kind = "odd"
  BY <1>6 DEF G!Accepts
<1> QED BY <1>3, <1>4, <1>5, <1>6

LEMMA OneMore ==
    ASSUME NEW X, IsFiniteSet(X), NEW x, x \notin X
    PROVE  IsFiniteSet(X \cup {x}) /\ Cardinality(X \cup {x}) = Cardinality(X) + 1
  BY FS_AddElement

\* A member lies where one link leads, or none; a link leads there by its text unless
\* an earlier one is on the way.
LEMMA MemberLies ==
    ASSUME StagingTyped, Located, NEW m \in G!Member, G!Accepts(m), m.name.root # ".",
           NEW at \in G!Ways, NEW on \in G!Ways, NEW lead \in G!Leads(m, at, on)
    PROVE  at \in G!Way /\ lead \in G!Way /\ Fair(at) /\ Fair(lead)
<1>1. G!Straight \in G!Way /\ Fair(G!Straight)
  BY DEF G!Straight, G!Way, Fair
<1>2. \A w \in G!Ways : w \in G!Way /\ Fair(w)
  BY <1>1 DEF G!Ways, StagingTyped, TreeMember, Located
<1>3. CASE m.kind # "link"
  BY <1>1, <1>2, <1>3 DEF G!Leads
<1>4. CASE m.kind = "link" /\ at.hops + on.hops > 0
  <2>1. PICK p \in {"home", "dir", "beyond"} : lead = [to |-> p, hops |-> 2]
    BY <1>4 DEF G!Leads
  <2>2. lead \in G!Way /\ lead.hops = 2
    BY <2>1 DEF G!Way
  <2> QED BY <1>2, <2>2 DEF Fair
<1>5. CASE m.kind = "link" /\ ~(at.hops + on.hops > 0)
  <2>1. m.target = "inside"
    BY <1>5 DEF G!Accepts, G!CheckLinkTarget
  <2>2. lead = [to |-> "home", hops |-> 1]
    BY <1>5, <2>1 DEF G!Leads
  <2>3. lead \in G!Way /\ Fair(lead)
    BY <2>2 DEF G!Way, Fair
  <2> QED BY <1>2, <2>3
<1> QED BY <1>3, <1>4, <1>5

\* The member goes to the tree and the rules count it.
LEMMA MemberKeeps ==
    ASSUME StagingInv, stager = "extracting", NEW m \in G!Member, G!Accepts(m),
           rules' = [entries |-> rules.entries + 1,
                     seen |-> IF m.name.root = "." THEN rules.seen ELSE rules.seen \cup {m.name},
                     expanded |-> rules.expanded + (IF m.kind = "file" /\ m.name.root # "." THEN m.size ELSE 0),
                     bundle |-> IF G!IsBundle(m.name) THEN m.name.root ELSE rules.bundle],
           NEW at \in G!Ways, NEW on \in G!Ways, NEW lead \in G!Leads(m, at, on),
           tree' = IF m.name.root = "." THEN tree
                   ELSE tree \cup {[name |-> m.name, kind |-> m.kind, at |-> at, lead |-> lead,
                                    size |-> IF m.kind = "file" THEN m.size ELSE 0]},
           UNCHANGED <<release, sel, temp, stager, payload>>
    PROVE  StagingInv'
<1>1. /\ rules.entries \in Nat /\ rules.expanded \in Nat /\ rules.seen \subseteq G!Names
      /\ rules.expanded <= MaxExpanded /\ rules.bundle \in {"none", "A.app", "B.app"}
      /\ tree \subseteq TreeMember
  BY StagingAssumption DEF StagingInv, StagingTyped, Rules
<1>2. m.name \in G!Names /\ m.size \in 0..MaxExpanded /\ m.size \in Nat
  BY StagingAssumption DEF G!Member
<1>3. rules.entries + 1 <= MaxEntries
  BY DEF G!Accepts, G!MemberPath
<1>4. Counted
  BY DEF StagingInv, Extracted
<1>5. G!IsBundle(m.name) => m.name.root \in {"none", "A.app", "B.app"}
  BY DEF G!IsBundle
<1>6. G!ForBundle' <=> G!ForBundle
  BY DEF G!ForBundle
<1>7. CASE m.name.root = "."
  <2>1. tree' = tree /\ rules'.entries = rules.entries + 1 /\ rules'.seen = rules.seen
        /\ rules'.expanded = rules.expanded
    BY <1>1, <1>7
  <2>2. rules' \in Rules
    BY <1>1, <1>3, <1>5, <1>7, StagingAssumption DEF Rules
  <2>3. Cardinality(tree) \in Nat
    BY <1>4, FS_CardinalityType DEF Counted
  <2>4. Counted'
    <3>1. Cardinality(tree) <= rules'.entries
      BY <1>1, <1>4, <2>1, <2>3 DEF Counted
    <3>2. Expanded!Sum(tree') = rules'.expanded /\ {x.name : x \in tree'} = {x.name : x \in tree}
      BY <1>4, <2>1 DEF Counted
    <3> QED BY <1>4, <1>6, <2>1, <3>1, <3>2 DEF Counted
  <2>5. StagingTyped'
    BY <1>1, <2>1, <2>2 DEF StagingInv, StagingTyped
  <2> QED BY <2>1, <2>4, <2>5 DEF StagingInv, SelFits, Extracted, Located
<1>8. CASE m.name.root # "."
  <2>1. PICK x : x = [name |-> m.name, kind |-> m.kind, at |-> at, lead |-> lead,
                      size |-> IF m.kind = "file" THEN m.size ELSE 0]
    OBVIOUS
  <2>14. at \in G!Way /\ lead \in G!Way /\ Fair(at) /\ Fair(lead)
    BY <1>8, MemberLies DEF StagingInv
  <2>2. /\ m.name \notin rules.seen /\ m.kind \in {"file", "dir", "link"}
        /\ m.kind = "file" => rules.expanded + m.size <= MaxExpanded
        /\ G!ForBundle => G!IsBundle(m.name)
    BY <1>8, MemberAccepted DEF StagingInv
  <2>3. /\ x \in TreeMember /\ x.name = m.name /\ x.size \in Nat
        /\ rules.expanded + x.size <= MaxExpanded
    BY <1>1, <1>2, <2>1, <2>2, <2>14, StagingAssumption DEF TreeMember
  <2>4. /\ tree' = tree \cup {x} /\ rules'.entries = rules.entries + 1
        /\ rules'.seen = rules.seen \cup {x.name} /\ rules'.expanded = rules.expanded + x.size
    BY <1>1, <1>2, <1>8, <2>1
  <2>5. rules' \in Rules
    <3>1. rules'.bundle \in {"none", "A.app", "B.app"}
      BY <1>1, <1>5
    <3>2. rules' = [entries |-> rules'.entries, seen |-> rules'.seen, expanded |-> rules'.expanded, bundle |-> rules'.bundle]
      OBVIOUS
    <3>3. rules'.entries \in 0..MaxEntries /\ rules'.expanded \in 0..MaxExpanded /\ rules'.seen \in SUBSET G!Names
      BY <1>1, <1>2, <1>3, <2>3, <2>4, StagingAssumption
    <3> QED BY <3>1, <3>2, <3>3 DEF Rules
  <2>6. StagingTyped'
    BY <1>1, <2>3, <2>4, <2>5 DEF StagingInv, StagingTyped
  <2>7. PICK names : names = {y.name : y \in tree}
    OBVIOUS
  <2>8. x.name \notin names /\ x \notin tree
    BY <1>4, <2>2, <2>3, <2>7 DEF Counted
  <2>9. {y.name : y \in tree'} = names \cup {x.name}
    BY <2>4, <2>7
  <2>10. /\ IsFiniteSet(tree') /\ IsFiniteSet(names \cup {x.name})
         /\ Cardinality(tree) \in Nat
         /\ Cardinality(tree') = Cardinality(tree) + 1
         /\ Cardinality(names \cup {x.name}) = Cardinality(names) + 1
    <3>1. IsFiniteSet(tree) /\ IsFiniteSet(names)
      BY <1>4, <2>7 DEF Counted
    <3>2. IsFiniteSet(tree') /\ Cardinality(tree') = Cardinality(tree) + 1
      BY <2>4, <2>8, <3>1, OneMore
    <3>3. IsFiniteSet(names \cup {x.name}) /\ Cardinality(names \cup {x.name}) = Cardinality(names) + 1
      BY <2>8, <3>1, OneMore
    <3> QED BY <3>1, <3>2, <3>3, FS_CardinalityType
  <2>11. Expanded!Sum(tree') = Expanded!Sum(tree) + x.size
    <3>1. \A y \in tree \cup {x} : y.size \in Nat
      BY <1>1, <2>3, StagingAssumption DEF TreeMember
    <3> QED BY <1>4, <2>4, <2>8, <3>1, BytesGrow DEF Counted
  <2>12. G!ForBundle => \A y \in tree' : G!IsBundle(y.name)
    BY <1>4, <2>2, <2>3, <2>4 DEF Counted
  <2>13. Counted'
    <3>1. Cardinality(tree') <= rules'.entries
      BY <1>1, <1>4, <2>4, <2>10 DEF Counted
    <3>2. Expanded!Sum(tree') = rules'.expanded
      BY <1>4, <2>4, <2>11 DEF Counted
    <3>3. Cardinality(names) = Cardinality(tree) /\ names \subseteq rules.seen
      BY <1>4, <2>7 DEF Counted
    <3>4. Cardinality({y.name : y \in tree'}) = Cardinality(tree')
      BY <2>9, <2>10, <3>3
    <3>5. IsFiniteSet({y.name : y \in tree'}) /\ {y.name : y \in tree'} \subseteq rules'.seen
      BY <2>4, <2>9, <2>10, <3>3
    <3> QED BY <1>6, <2>10, <2>12, <3>1, <3>2, <3>4, <3>5 DEF Counted
  <2>15. Located'
    BY <2>1, <2>4, <2>14 DEF StagingInv, Located, Fair
  <2> QED BY <2>6, <2>13, <2>15 DEF StagingInv, SelFits, Extracted
<1> QED BY <1>7, <1>8

LEMMA StagingExtractKeeps == ASSUME StagingInv, G!ExtractMember \/ G!EndOfArchive PROVE StagingInv'
<1>1. CASE G!ExtractMember
  <2>1. CASE G!Discard
    BY <2>1, DiscardKeeps
  <2>2. CASE ~G!Discard
    BY <1>1, <2>2, MemberKeeps DEF G!ExtractMember
  <2> QED BY <2>1, <2>2
<1>2. CASE G!EndOfArchive
  <2>1. CASE G!Discard
    BY <2>1, DiscardKeeps
  <2>2. CASE stager' = "verifying" /\ UNCHANGED <<release, sel, temp, rules, tree, payload>>
    <3>1. stager = "extracting"
      BY <1>2 DEF G!EndOfArchive
    <3>2. StagingTyped'
      BY <2>2 DEF StagingInv, StagingTyped, StagerPC
    <3>3. Counted'
      BY <2>2, <3>1 DEF StagingInv, Extracted, Counted, G!ForBundle
    <3> QED BY <2>2, <3>1, <3>2, <3>3 DEF StagingInv, SelFits, Extracted, Located
  <2> QED BY <1>2, <2>1, <2>2 DEF G!EndOfArchive
<1> QED BY <1>1, <1>2

LEMMA StagingVerifyKeeps == ASSUME StagingInv, G!VerifyPayload PROVE StagingInv'
<1>1. CASE G!Discard
  BY <1>1, DiscardKeeps
<1>2. CASE ~G!Discard
  <2>1. PICK b \in G!Binary, plist \in Version, signed \in BOOLEAN :
            /\ G!ForBundle => G!VerifyBundle(plist) /\ signed
            /\ G!VerifyExecutable(b, release.id)
            /\ stager' = "verified" /\ payload' = {b} /\ UNCHANGED <<release, sel, temp, rules, tree>>
    BY <1>2 DEF G!VerifyPayload
  <2>2. stager = "verifying"
    BY DEF G!VerifyPayload
  <2>3. StagingTyped'
    BY <2>1 DEF StagingInv, StagingTyped, StagerPC
  <2>4. Counted'
    BY <2>1, <2>2 DEF StagingInv, Extracted, Counted, G!ForBundle
  <2>5. G!ForBundle => Cardinality(G!FindBundleDir) = 1
    BY <2>1, CardinalityThere DEF G!VerifyBundle
  <2>6. G!Asset' = G!Asset
    BY <2>1 DEF G!Asset
  <2>7. \A i : G!VerifyExecutable(b, i) => G!VerifyExecutable(b, i)'
    BY <2>6 DEF G!VerifyExecutable
  <2>8. Verified'
    BY <2>1, <2>5, <2>7 DEF Verified, G!ForBundle, G!FindBundleDir
  <2> QED BY <2>1, <2>2, <2>3, <2>4, <2>8 DEF StagingInv, SelFits, Extracted, Located
<1> QED BY <1>1, <1>2

LEMMA StagingNextInv == ASSUME StagingInv, G!StagingNext PROVE StagingInv'
  BY StagingResolveKeeps, StagingBeforeKeeps, StagingCreateDirKeeps, StagingExtractKeeps, StagingVerifyKeeps
     DEF G!StagingNext

LEMMA StagingStutters == ASSUME StagingInv, UNCHANGED stagingAll PROVE StagingInv'
  BY DEF stagingAll, StagingInv, StagingTyped, SelFits, Located, Counted, Verified, G!ForBundle, G!FindBundleDir,
         G!VerifyExecutable, G!Asset

LEMMA StagingInductive == ASSUME StagingInv, [Next]_vars PROVE StagingInv'
<1>1. CASE Only("staging") /\ G!StagingNext
  BY <1>1, StagingNextInv
<1>2. CASE UNCHANGED stagingAll
  BY <1>2, StagingStutters
<1> QED BY <1>1, <1>2 DEF Next, Only, vars

\* What makes a payload whole follows.
LEMMA WholeFollows == ASSUME StagingInv PROVE PayloadWhole
<1>1. /\ stager = "failed" => "dir" \notin temp /\ \A x \in tree : x.at.to = "beyond"
      /\ \A x \in tree : x.at.to # "home" => x.at.hops > 1
  BY DEF StagingInv, Extracted, Located, Fair
<1>2. ASSUME stager = "verified" PROVE Counted /\ Verified /\ sel = G!AssetName(release.id, release.hint) /\ ~release.hint.pre
  BY <1>2 DEF StagingInv, Extracted, SelFits
<1>3. ASSUME stager = "verified"
      PROVE  /\ Cardinality({x.name : x \in tree}) = Cardinality(tree) /\ Cardinality(tree) <= MaxEntries
             /\ Expanded!Sum(tree) <= MaxExpanded
  <2>1. Cardinality(tree) \in Nat
    BY <1>2, <1>3, FS_CardinalityType DEF Counted
  <2>2. rules.entries \in Nat /\ rules.entries <= MaxEntries /\ rules.expanded <= MaxExpanded
    BY StagingAssumption DEF StagingInv, StagingTyped, Rules
  <2> QED BY <1>2, <1>3, <2>1, <2>2, StagingAssumption DEF Counted
<1>4. ASSUME stager = "verified", G!ForBundle PROVE Cardinality({x.name.root : x \in tree}) = 1
  <2>1. {x \in tree : G!IsBundle(x.name)} = tree
    BY <1>2, <1>4 DEF Counted
  <2>2. G!FindBundleDir = {x.name.root : x \in tree}
    BY <2>1 DEF G!FindBundleDir
  <2> QED BY <1>2, <1>4, <2>2 DEF Verified
<1>5. ASSUME stager = "verified", NEW b \in payload
      PROVE  /\ release.id.goarch \in b.machines /\ b.os = release.id.goos
             /\ b.headless => release.id.flavor = "headless"
  BY <1>2, <1>5 DEF Verified, G!VerifyExecutable, G!CheckHeaderMachine
<1> QED BY <1>1, <1>2, <1>3, <1>4, <1>5, TreeBytes, CardinalityThere DEF PayloadWhole, G!PayloadWhole

\* A payload that passed its verification is one release for one installation: the
\* asset the manifest lists for the announced stable version, within the limits of
\* an archive in members and in bytes, every name once and in one bundle or none,
\* with an executable that runs here; no member lies outside the bundle, or is left
\* behind by an apply that failed, unless it was written through a link that an earlier
\* link led astray (updates/stage.go), for any limits, builds and versions.
THEOREM PayloadsWhole == Spec => []PayloadWhole
<1>1. StagingInv /\ [Next]_vars => StagingInv'
  BY StagingInductive
<1>2. Init => StagingInv
  BY StagingInitInv
<1>3. StagingInv => PayloadWhole
  BY WholeFollows
<1> QED BY <1>1, <1>2, <1>3, SpecSteps, PTL

---------------------------------------------------------------------------
(* The subtitle cache.                                                     *)

Cached == [name : Subtitle, content : {"whole", "part", "old"}]

\* A listing of the directory names no file twice.
Listing(dir) ==
    /\ dir \in Seq(Cached)
    /\ \A i, j \in 1..Len(dir) : dir[i].name = dir[j].name => i = j

InDir(dir) == {dir[i] : i \in 1..Len(dir)}

LEMMA ListingEntries ==
    ASSUME NEW dir, Listing(dir)
    PROVE  /\ InDir(dir) \subseteq Cached
           /\ \A x, y \in InDir(dir) : x.name = y.name => x = y
           /\ \A f : f \in C!Files(dir) <=> \E x \in InDir(dir) : x.name = f
  BY DEF Listing, InDir, C!Files

LEMMA ListingFinite == ASSUME NEW dir, Listing(dir) PROVE IsFiniteSet(InDir(dir))
<1>1. Len(dir) \in Nat
  BY DEF Listing
<1>2. [i \in 1..Len(dir) |-> dir[i]] \in Surjection(1..Len(dir), InDir(dir))
  BY DEF InDir, Surjection
<1>3. IsFiniteSet(1..Len(dir))
  BY <1>1, FS_Interval
<1> QED BY <1>2, <1>3, FS_Surjection

\* The files before the one at i, those after it, and both.
Before(p, dir, i) == p \in Seq(Cached) /\ Len(p) = i - 1 /\ \A k \in 1..i - 1 : p[k] = dir[k]
After(q, dir, n, i) == q \in Seq(Cached) /\ Len(q) = n - i /\ \A k \in 1..n - i : q[k] = dir[i + k]
Less(r, dir, n, i) ==
    /\ r \in Seq(Cached) /\ Len(r) = n - 1
    /\ \A k \in 1..n - 1 : r[k] = IF k < i THEN dir[k] ELSE dir[k + 1]

\* One file less: what is left, by its index.
LEMMA ListingLess ==
    ASSUME NEW dir, Listing(dir), NEW n \in Nat, n = Len(dir), NEW i \in 1..n, NEW r, Less(r, dir, n, i)
    PROVE  Listing(r) /\ InDir(r) = InDir(dir) \ {dir[i]}
<1>1. n = Len(dir) /\ i \in Nat /\ n \in Nat /\ i \in 1..n
  OBVIOUS
<1>2. Len(r) = n - 1 /\ r \in Seq(Cached)
  BY DEF Less
<1>3. \A k \in 1..n - 1 : r[k] = IF k < i THEN dir[k] ELSE dir[k + 1]
  BY DEF Less
<1>4. ASSUME NEW k \in 1..n - 1
       PROVE  \E a \in 1..n : a # i /\ r[k] = dir[a] /\ a = IF k < i THEN k ELSE k + 1
  BY <1>1, <1>3, <1>4
<1>5. ASSUME NEW a \in 1..n, a # i PROVE \E k \in 1..n - 1 : r[k] = dir[a]
  <2>1. CASE a < i
    BY <1>1, <1>3, <2>1
  <2>2. CASE a > i
    <3>1. PICK k \in 1..n - 1 : k = a - 1 /\ k + 1 = a /\ ~(k < i)
      BY <1>1, <2>2
    <3> QED BY <1>3, <3>1
  <2> QED BY <1>1, <1>5, <2>1, <2>2
<1>6. Listing(r)
  <2> SUFFICES ASSUME NEW k \in 1..n - 1, NEW m \in 1..n - 1, r[k].name = r[m].name PROVE k = m
    BY <1>2 DEF Listing
  <2>1. PICK a \in 1..n : r[k] = dir[a] /\ a = IF k < i THEN k ELSE k + 1
    BY <1>4
  <2>2. PICK b \in 1..n : r[m] = dir[b] /\ b = IF m < i THEN m ELSE m + 1
    BY <1>4
  <2>3. a = b
    BY <1>1, <2>1, <2>2 DEF Listing
  <2> QED BY <1>1, <2>1, <2>2, <2>3
<1>7. \A a \in 1..n : dir[a] = dir[i] => a = i
  BY <1>1, <1>2 DEF Listing
<1>8. InDir(r) = {r[k] : k \in 1..n - 1} /\ InDir(dir) = {dir[a] : a \in 1..n}
  BY <1>1, <1>2 DEF InDir
<1>9. InDir(r) = InDir(dir) \ {dir[i]}
  <2>1. ASSUME NEW x \in InDir(r) PROVE x \in InDir(dir) \ {dir[i]}
    <3>1. PICK k \in 1..n - 1 : x = r[k]
      BY <1>8, <2>1
    <3>2. PICK a \in 1..n : a # i /\ x = dir[a]
      BY <1>4, <3>1
    <3> QED BY <1>7, <1>8, <3>2
  <2>2. ASSUME NEW x \in InDir(dir), x # dir[i] PROVE x \in InDir(r)
    <3>1. PICK a \in 1..n : a # i /\ x = dir[a]
      BY <1>8, <2>2
    <3>2. PICK k \in 1..n - 1 : x = r[k]
      BY <1>5, <3>1
    <3> QED BY <1>8, <3>2
  <2> QED BY <2>1, <2>2
<1> QED BY <1>6, <1>9

LEMMA Shifted ==
    ASSUME NEW n \in Int, NEW i \in Int, NEW k \in 1..n - 1, ~(k < i)
    PROVE  k - (i - 1) \in 1..n - i /\ ~(k <= i - 1) /\ i + (k - (i - 1)) = k + 1
  OBVIOUS

LEMMA ListingJoin ==
    ASSUME NEW dir, NEW n \in Nat, NEW i \in 1..n, NEW p, NEW q,
           Before(p, dir, i), After(q, dir, n, i)
    PROVE  Less(p \o q, dir, n, i)
<1> PICK r : r = p \o q
  OBVIOUS
<1>0. /\ p \in Seq(Cached) /\ Len(p) = i - 1 /\ \A k \in 1..i - 1 : p[k] = dir[k]
      /\ q \in Seq(Cached) /\ Len(q) = n - i /\ \A k \in 1..n - i : q[k] = dir[i + k]
  BY DEF Before, After
<1>1. /\ r \in Seq(Cached) /\ Len(r) = Len(p) + Len(q)
      /\ \A k \in 1..Len(p) + Len(q) : r[k] = IF k <= Len(p) THEN p[k] ELSE q[k - Len(p)]
  BY <1>0, ConcatProperties
<1>2. i \in Nat /\ i \in Int /\ n \in Int /\ Len(p) + Len(q) = n - 1
  BY <1>0
<1>3. \A k \in 1..n - 1 : r[k] = IF k <= i - 1 THEN p[k] ELSE q[k - (i - 1)]
  BY <1>0, <1>1, <1>2
<1>4. ASSUME NEW k \in 1..n - 1, k < i PROVE r[k] = dir[k]
  <2>1. k <= i - 1 /\ k \in 1..i - 1
    BY <1>2, <1>4
  <2>2. r[k] = p[k]
    BY <1>3, <2>1
  <2> QED BY <1>0, <2>1, <2>2
<1>5. ASSUME NEW k \in 1..n - 1, ~(k < i) PROVE r[k] = dir[k + 1]
  <2>1. k - (i - 1) \in 1..n - i /\ ~(k <= i - 1) /\ i + (k - (i - 1)) = k + 1
    BY <1>2, <1>5, Shifted
  <2>2. r[k] = q[k - (i - 1)]
    BY <1>3, <2>1
  <2>3. q[k - (i - 1)] = dir[i + (k - (i - 1))]
    BY <1>0, <2>1
  <2> QED BY <2>1, <2>2, <2>3
<1> QED BY <1>1, <1>2, <1>4, <1>5 DEF Less

LEMMA ListingCut ==
    ASSUME NEW dir, Listing(dir), NEW n \in Nat, n = Len(dir), NEW i \in 1..n,
           NEW r, r = SubSeq(dir, 1, i - 1) \o SubSeq(dir, i + 1, n)
    PROVE  Listing(r) /\ Len(r) = n - 1 /\ InDir(r) = InDir(dir) \ {dir[i]}
<1>2. dir \in Seq(Cached) /\ i \in Nat /\ i \in 1..n /\ \A k \in 1..n : dir[k] \in Cached
  BY DEF Listing
<1>5. Before(SubSeq(dir, 1, i - 1), dir, i)
  <2>1. \A k \in 1..i - 1 : dir[k] \in Cached
    BY <1>2
  <2> QED BY <1>2, <2>1, SubSeqProperties DEF Before
<1>6. After(SubSeq(dir, i + 1, n), dir, n, i)
  <2>1. \A k \in i + 1..n : dir[k] \in Cached
    BY <1>2
  <2> PICK q : q = SubSeq(dir, i + 1, n)
    OBVIOUS
  <2>2. CASE i = n
    BY <1>2, <2>2, SubSeqProperties DEF After
  <2>3. CASE i < n
    <3>1. q \in Seq(Cached) /\ Len(q) = n - i /\ \A k \in 1..n - i : q[k] = dir[i + 1 + k - 1]
      BY <1>2, <2>1, <2>3, SubSeqProperties
    <3>2. \A k \in 1..n - i : i + 1 + k - 1 = i + k
      BY <1>2
    <3> QED BY <3>1, <3>2 DEF After
  <2> QED BY <1>2, <2>2, <2>3
<1>7. Less(r, dir, n, i)
  BY <1>5, <1>6, ListingJoin
<1>8. Listing(r) /\ InDir(r) = InDir(dir) \ {dir[i]}
  BY <1>7, ListingLess
<1> QED BY <1>7, <1>8 DEF Less

LEMMA WithoutEntries ==
    ASSUME Listing(cache), NEW f
    PROVE  /\ Listing(C!Without(f))
           /\ InDir(C!Without(f)) = {x \in InDir(cache) : x.name # f}
           /\ Len(C!Without(f)) = IF f \in C!Files(cache) THEN Len(cache) - 1 ELSE Len(cache)
<1>1. CASE f \notin C!Files(cache)
  <2>1. C!Without(f) = cache
    BY <1>1 DEF C!Without
  <2> QED BY <1>1, <2>1, ListingEntries
<1>2. CASE f \in C!Files(cache)
  <2>1. PICK i \in 1..Len(cache) : cache[i].name = f /\ i = CHOOSE j \in 1..Len(cache) : cache[j].name = f
    BY <1>2 DEF C!Files
  <2>2. C!Without(f) = SubSeq(cache, 1, i - 1) \o SubSeq(cache, i + 1, Len(cache))
    BY <1>2, <2>1 DEF C!Without
  <2>3. /\ Listing(C!Without(f)) /\ Len(C!Without(f)) = Len(cache) - 1
        /\ InDir(C!Without(f)) = InDir(cache) \ {cache[i]}
    <3>1. PICK n \in Nat : n = Len(cache)
      BY DEF Listing
    <3>2. C!Without(f) = SubSeq(cache, 1, i - 1) \o SubSeq(cache, i + 1, n) /\ i \in 1..n
      BY <2>1, <2>2, <3>1
    <3> QED BY <3>1, <3>2, ListingCut
  <2>4. cache[i] \in InDir(cache)
    BY DEF InDir
  <2>5. \A x \in InDir(cache) : x.name # f <=> x # cache[i]
    BY <2>1, <2>4, ListingEntries
  <2> QED BY <1>2, <2>3, <2>5
<1> QED BY <1>1, <1>2

\* A file that is written is the youngest.
LEMMA WrittenEntries ==
    ASSUME Listing(cache), NEW f \in Subtitle, NEW c \in {"whole", "part", "old"}
    PROVE  /\ Listing(C!Written(f, c))
           /\ InDir(C!Written(f, c)) = {x \in InDir(cache) : x.name # f} \cup {[name |-> f, content |-> c]}
<1>1. PICK r : r = C!Without(f)
  OBVIOUS
<1>2. Listing(r) /\ InDir(r) = {x \in InDir(cache) : x.name # f}
  BY <1>1, WithoutEntries
<1>3. PICK x : x = [name |-> f, content |-> c]
  OBVIOUS
<1>3a. x \in Cached /\ x.name = f
  BY <1>3 DEF Cached
<1>4. PICK w : w = Append(r, x) /\ w = C!Written(f, c)
  BY <1>1, <1>3 DEF C!Written
<1>5. r \in Seq(Cached) /\ Len(r) \in Nat
  BY <1>2 DEF Listing
<1>6. w \in Seq(Cached) /\ Len(w) = Len(r) + 1 /\ w[Len(w)] = x /\ \A i \in 1..Len(r) : w[i] = r[i]
  <2>1. x \in Cached /\ r \in Seq(Cached) /\ w = Append(r, x)
    BY <1>3a, <1>4, <1>5
  <2>2. Append(r, x) \in Seq(Cached) /\ Len(Append(r, x)) = Len(r) + 1
    BY <2>1, AppendProperties
  <2>3. (\A i \in 1..Len(r) : Append(r, x)[i] = r[i]) /\ Append(r, x)[Len(r) + 1] = x
    BY <2>1, AppendProperties
  <2> QED BY <2>1, <2>2, <2>3
<1>7. \A i \in 1..Len(r) : r[i].name # f
  BY <1>2 DEF InDir
<1>8. Listing(w)
  BY <1>2, <1>3, <1>5, <1>6, <1>7 DEF Listing
<1>9. InDir(w) = InDir(r) \cup {x}
  BY <1>5, <1>6 DEF InDir
<1> QED BY <1>2, <1>3, <1>4, <1>8, <1>9

StoredBytes(x) == C!Bytes(x)

Stored == INSTANCE Sums WITH Weight <- StoredBytes

LEMMA TotalBytes == ASSUME NEW dir PROVE C!Total(dir) = Stored!Sum(InDir(dir))
  BY DEF C!Total, C!MapThenSumSet, C!MapThenFoldSet, Stored!Sum, Stored!MapThenSumSet, Stored!MapThenFoldSet,
         StoredBytes, InDir

LEMMA BytesType == ASSUME NEW x \in Cached PROVE C!Bytes(x) \in Nat /\ StoredBytes(x) \in Nat
  BY SubtitleAssumption DEF Cached, C!Bytes, StoredBytes

\* A set of files without one of them.
LEMMA BytesLess ==
    ASSUME NEW X \in SUBSET Cached, IsFiniteSet(X)
    PROVE  /\ Stored!Sum(X) \in Nat
           /\ \A x \in X : Stored!Sum(X) = C!Bytes(x) + Stored!Sum(X \ {x}) /\ Stored!Sum(X \ {x}) \in Nat
<1>1. Stored!IsFiniteSet(X)
  BY DEF IsFiniteSet, Stored!IsFiniteSet
<1>2. \A x \in X : StoredBytes(x) \in Nat
  BY BytesType
<1>3. Stored!Sum(X) \in Nat /\ \A x \in X : Stored!Sum(X) = StoredBytes(x) + Stored!Sum(X \ {x})
  BY <1>1, <1>2, Stored!SumSplit
<1>4. ASSUME NEW x \in X PROVE Stored!Sum(X \ {x}) \in Nat
  <2>1. IsFiniteSet(X \ {x})
    BY FS_RemoveElement
  <2>2. Stored!IsFiniteSet(X \ {x})
    BY <2>1 DEF IsFiniteSet, Stored!IsFiniteSet
  <2>3. \A y \in X \ {x} : StoredBytes(y) \in Nat
    BY <1>2
  <2> QED BY <2>2, <2>3, Stored!SumSplit
<1> QED BY <1>3, <1>4 DEF StoredBytes

LEMMA NoStoredBytes == Stored!Sum({}) = 0
  BY Stored!SumEmpty

\* The files of a listing weigh more than those without the ones of a name.
LEMMA BytesWithout ==
    ASSUME NEW X \in SUBSET Cached, IsFiniteSet(X), \A x, y \in X : x.name = y.name => x = y, NEW f
    PROVE  Stored!Sum({x \in X : x.name # f}) <= Stored!Sum(X) /\ Stored!Sum({x \in X : x.name # f}) \in Nat
<1>1. CASE \E y \in X : y.name = f
  <2>1. PICK y \in X : y.name = f
    BY <1>1
  <2>2. {x \in X : x.name # f} = X \ {y}
    BY <2>1
  <2>3. PICK a \in Nat, b \in Nat, c \in Nat : a = Stored!Sum(X) /\ b = C!Bytes(y) /\ c = Stored!Sum(X \ {y}) /\ a = b + c
    BY <2>1, BytesLess, BytesType
  <2>4. c <= a
    BY <2>3
  <2> QED BY <2>2, <2>3, <2>4
<1>2. CASE ~\E y \in X : y.name = f
  <2>1. {x \in X : x.name # f} = X
    BY <1>2
  <2> QED BY <2>1, BytesLess
<1> QED BY <1>1, <1>2

\* The rest of a listing.
LEMMA ListingTail ==
    ASSUME NEW l, Listing(l), l # <<>>
    PROVE  /\ Head(l) \in InDir(l) /\ Listing(Tail(l))
           /\ InDir(Tail(l)) = InDir(l) \ {Head(l)}
<1>1. PICK n \in Nat : n = Len(l)
  BY DEF Listing
<1>2. /\ l \in Seq(Cached) /\ n > 0 /\ Head(l) = l[1]
      /\ Tail(l) \in Seq(Cached) /\ Len(Tail(l)) = n - 1 /\ \A i \in 1..n - 1 : Tail(l)[i] = l[i + 1]
  <2>1. l \in Seq(Cached) /\ n > 0
    BY <1>1, EmptySeq DEF Listing
  <2>2. Head(l) = l[1] /\ Tail(l) \in Seq(Cached) /\ Len(Tail(l)) = n - 1
    BY <1>1, <2>1, HeadTailProperties
  <2>3. \A i \in 1..n - 1 : Tail(l)[i] = l[i + 1]
    BY <1>1, <2>1, HeadTailProperties
  <2> QED BY <2>1, <2>2, <2>3
<1>3. 1 \in 1..n
  BY <1>2
<1>4. Less(Tail(l), l, n, 1)
  BY <1>2 DEF Less
<1>5. Listing(Tail(l)) /\ InDir(Tail(l)) = InDir(l) \ {l[1]}
  BY <1>1, <1>3, <1>4, ListingLess
<1> QED BY <1>1, <1>2, <1>3, <1>5 DEF InDir

PrepPC == {"idle", "stamp", "restamp", "restamping", "fetch", "writing", "list", "prune", "served"}
InWrite == {"writing", "restamping"}
PrepRec == [pc : PrepPC, asset : Subtitle, list : Seq(Cached), total : Nat, disturbed : BOOLEAN]
Stock == InDir(cache)

SubtitleTyped ==
    /\ Listing(cache) /\ prep \in [Preparer -> PrepRec]
    /\ rows \subseteq Subtitle /\ cut \subseteq Subtitle /\ due \in BOOLEAN

\* What a prune has still to look at is no more than what it thinks is there.
Planned(r) == Listing(r.list) /\ Stored!Sum(InDir(r.list)) <= r.total

\* Only a file in WebVTT is old, and one that is cut off has a writer or is known.
Explains(x) ==
    /\ x.content = "old" => x.name \in Web
    /\ x.content = "part" =>
          x.name \in cut \/ \E u \in Preparer : prep[u].pc \in InWrite /\ prep[u].asset = x.name
Explained == \A x \in Stock : Explains(x)

\* What a call that nobody disturbed knows of its file.
Sure(u, r) ==
    r.pc # "idle" /\ ~r.disturbed =>
        /\ ~C!BeingWritten(u, r.asset)
        /\ r.pc \in InWrite => \E x \in Stock : x.name = r.asset
        /\ r.pc \in {"list", "prune", "served"} /\ r.asset \notin cut =>
              \E x \in Stock : x.name = r.asset /\ x.content = "whole"
        /\ r.pc = "stamp" /\ r.asset \notin cut =>
              \E x \in Stock : x.name = r.asset /\ x.content \in {"whole", "old"}

\* The prune of u sees every file but its own, and weighs them all.
Covers(u) ==
    /\ prep[u].pc = "prune" /\ Stored!Sum(Stock) <= prep[u].total
    /\ \A x \in Stock : x \in InDir(prep[u].list) \/ x.name = prep[u].asset

\* Somebody will prune what is there, or has.
Accounted ==
    \/ due
    \/ \E u \in Preparer : prep[u].pc \in {"writing", "restamping", "list"}
    \/ \E u \in Preparer : Covers(u)
    \/ Stored!Sum(Stock) <= Maximum
    \/ \A x, y \in Stock : x = y

SubtitleInv ==
    /\ SubtitleTyped /\ Explained /\ Accounted
    /\ \A u \in Preparer : Planned(prep[u]) /\ Sure(u, prep[u])

LEMMA StockFacts ==
    ASSUME Listing(cache)
    PROVE  /\ Stock \in SUBSET Cached /\ IsFiniteSet(Stock)
           /\ \A x, y \in Stock : x.name = y.name => x = y
           /\ \A f : f \in C!Files(cache) <=> \E x \in Stock : x.name = f
  BY ListingEntries, ListingFinite DEF Stock

\* A step that touches no file, of a call that is not in a write.
LEMMA QuietPrepKeeps ==
    ASSUME SubtitleInv, NEW u \in Preparer, NEW r \in PrepRec, prep' = [prep EXCEPT ![u] = r],
           UNCHANGED <<cache, cut>>, rows' \subseteq Subtitle, due' \in BOOLEAN,
           prep[u].pc \notin InWrite, r.pc \notin InWrite, Planned(r), Sure(u, r), Accounted'
    PROVE  SubtitleInv'
<1>1. prep \in [Preparer -> PrepRec]
  BY DEF SubtitleInv, SubtitleTyped
<1>2. prep'[u] = r /\ \A v \in Preparer \ {u} : prep'[v] = prep[v]
  BY <1>1
<1>3. SubtitleTyped'
  BY <1>1 DEF SubtitleInv, SubtitleTyped, Listing
<1>4. Stock' = Stock
  BY DEF Stock, InDir
<1>5. \A v \in Preparer : /\ prep'[v].pc \in InWrite <=> prep[v].pc \in InWrite
                          /\ prep[v].pc \in InWrite => prep'[v].asset = prep[v].asset
  BY <1>2
<1>6. Explained'
  BY <1>4, <1>5 DEF SubtitleInv, Explained, Explains
<1>7. \A v \in Preparer : \A a : C!BeingWritten(v, a)' <=> C!BeingWritten(v, a)
  BY <1>5 DEF C!BeingWritten, InWrite
<1>8. ASSUME NEW v \in Preparer PROVE Planned(prep[v])' /\ Sure(v, prep[v])'
  <2>1. PICK q : q = prep'[v]
    OBVIOUS
  <2>2. Planned(q) /\ Sure(v, q)
    BY <1>2, <2>1 DEF SubtitleInv
  <2>3. Planned(prep[v])'
    BY <2>1, <2>2 DEF Planned, Listing, InDir
  <2>4. Sure(v, prep[v])'
    BY <1>4, <1>7, <2>1, <2>2 DEF Sure
  <2> QED BY <2>3, <2>4
<1> QED BY <1>3, <1>6, <1>8 DEF SubtitleInv

\* What a step of u on file f makes of the calls.
Told(u, r, f) ==
    /\ prep' \in [Preparer -> PrepRec] /\ prep'[u] = r
    /\ \A v \in Preparer \ {u} :
          /\ prep'[v].pc = prep[v].pc /\ prep'[v].asset = prep[v].asset
          /\ prep'[v].list = prep[v].list /\ prep'[v].total = prep[v].total
          /\ ~prep'[v].disturbed => ~prep[v].disturbed /\ (prep[v].pc # "idle" => prep[v].asset # f)

\* Nothing changes of the other files.
OthersStay(f) ==
    /\ \A x \in Cached : x.name # f => (x \in Stock <=> x \in Stock')
    /\ \A a \in Subtitle : a # f => (a \in cut <=> a \in cut')

LEMMA TouchedPrep ==
    ASSUME prep \in [Preparer -> PrepRec], NEW u \in Preparer, NEW r \in PrepRec, NEW f,
           prep' = C!Touched(u, f, [prep EXCEPT ![u] = r])
    PROVE  Told(u, r, f)
<1>1. PICK p : p = [prep EXCEPT ![u] = r]
  OBVIOUS
<1>2. p \in [Preparer -> PrepRec] /\ p[u] = r /\ \A v \in Preparer \ {u} : p[v] = prep[v]
  BY <1>1
<1>3. prep' = [v \in Preparer |-> [p[v] EXCEPT !.disturbed =
                   p[v].disturbed \/ (v # u /\ p[v].pc # "idle" /\ p[v].asset = f)]]
  BY <1>1 DEF C!Touched
<1>4. ASSUME NEW v \in Preparer
      PROVE  \E d \in BOOLEAN : /\ prep'[v] = [p[v] EXCEPT !.disturbed = d]
                                /\ d = (p[v].disturbed \/ (v # u /\ p[v].pc # "idle" /\ p[v].asset = f))
  BY <1>3
<1>5. ASSUME NEW v \in Preparer
      PROVE  /\ prep'[v] \in PrepRec
             /\ prep'[v].pc = p[v].pc /\ prep'[v].asset = p[v].asset
             /\ prep'[v].list = p[v].list /\ prep'[v].total = p[v].total
             /\ ~prep'[v].disturbed => ~p[v].disturbed /\ ~(v # u /\ p[v].pc # "idle" /\ p[v].asset = f)
  <2>1. PICK q \in PrepRec : q = p[v]
    BY <1>2
  <2>2. PICK d \in BOOLEAN : /\ prep'[v] = [q EXCEPT !.disturbed = d]
                             /\ d = (q.disturbed \/ (v # u /\ q.pc # "idle" /\ q.asset = f))
    BY <1>4, <2>1
  <2> QED BY <2>1, <2>2 DEF PrepRec
<1>6. prep' \in [Preparer -> PrepRec]
  BY <1>3, <1>5
<1>7. prep'[u] = r
  <2>1. PICK d \in BOOLEAN : prep'[u] = [r EXCEPT !.disturbed = d] /\ d = (r.disturbed \/ FALSE)
    BY <1>2, <1>4
  <2>2. r.disturbed \in BOOLEAN
    BY DEF PrepRec
  <2>3. d = r.disturbed
    BY <2>1, <2>2
  <2>4. [r EXCEPT !.disturbed = r.disturbed] = r
    BY DEF PrepRec
  <2> QED BY <2>1, <2>3, <2>4
<1>8. ASSUME NEW v \in Preparer \ {u}
      PROVE  /\ prep'[v].pc = prep[v].pc /\ prep'[v].asset = prep[v].asset
             /\ prep'[v].list = prep[v].list /\ prep'[v].total = prep[v].total
             /\ ~prep'[v].disturbed => ~prep[v].disturbed /\ (prep[v].pc # "idle" => prep[v].asset # f)
  BY <1>2, <1>5
<1> QED BY <1>6, <1>7, <1>8 DEF Told

\* A step on file f leaves the others alone that are not told of it.
LEMMA OthersKeep ==
    ASSUME SubtitleInv, NEW u \in Preparer, NEW r \in PrepRec, NEW f,
           Told(u, r, f), OthersStay(f), r.pc \in InWrite => r.asset = f,
           NEW v \in Preparer \ {u}
    PROVE  Planned(prep[v])' /\ Sure(v, prep[v])'
<1>2. /\ prep'[u] = r /\ prep' \in [Preparer -> PrepRec]
      /\ \A w \in Preparer \ {u} : prep'[w].pc = prep[w].pc /\ prep'[w].asset = prep[w].asset
      /\ prep'[v].list = prep[v].list /\ prep'[v].total = prep[v].total
      /\ ~prep'[v].disturbed => ~prep[v].disturbed /\ (prep[v].pc # "idle" => prep[v].asset # f)
  BY DEF Told
<1>3. Planned(prep[v]) /\ Sure(v, prep[v]) /\ Stock \in SUBSET Cached
  BY StockFacts DEF SubtitleInv, SubtitleTyped
<1>4. Planned(prep[v])'
  BY <1>2, <1>3 DEF Planned, Listing, InDir
<1>5. Sure(v, prep[v])'
  <2> SUFFICES ASSUME prep'[v].pc # "idle", ~prep'[v].disturbed PROVE Sure(v, prep[v])'
    BY DEF Sure
  <2>1. prep[v].pc # "idle" /\ ~prep[v].disturbed /\ prep[v].asset # f /\ prep[v].asset \in Subtitle
    BY <1>2 DEF SubtitleInv, SubtitleTyped, PrepRec
  <2>2. ~C!BeingWritten(v, prep[v].asset)
    BY <1>3, <2>1 DEF Sure
  <2>3. ~C!BeingWritten(v, prep[v].asset)'
    BY <1>2, <2>1, <2>2 DEF C!BeingWritten, InWrite
  <2>4. \A x \in Stock : x.name = prep[v].asset => x \in Stock'
    BY <1>3, <2>1 DEF OthersStay
  <2>5. prep[v].asset \in cut <=> prep[v].asset \in cut'
    BY <2>1 DEF OthersStay
  <2>6. prep'[v].pc = prep[v].pc /\ prep'[v].asset = prep[v].asset
    BY <1>2
  <2>7. /\ prep[v].pc \in InWrite => \E x \in Stock : x.name = prep[v].asset
        /\ prep[v].pc \in {"list", "prune", "served"} /\ prep[v].asset \notin cut =>
              \E x \in Stock : x.name = prep[v].asset /\ x.content = "whole"
        /\ prep[v].pc = "stamp" /\ prep[v].asset \notin cut =>
              \E x \in Stock : x.name = prep[v].asset /\ x.content \in {"whole", "old"}
    BY <1>3, <2>1 DEF Sure
  <2> HIDE <1>2, <1>3
  <2> QED BY <2>3, <2>4, <2>5, <2>6, <2>7 DEF Sure
<1> QED BY <1>4, <1>5

\* A call that neither writes nor prunes owes nothing to the cache.
LEMMA AccountedStays ==
    ASSUME SubtitleInv, NEW u \in Preparer, NEW r \in PrepRec, prep' = [prep EXCEPT ![u] = r],
           UNCHANGED <<cache, due>>, prep[u].pc \notin {"writing", "restamping", "list", "prune"}
    PROVE  Accounted'
<1>1. /\ prep \in [Preparer -> PrepRec] /\ Accounted
  BY DEF SubtitleInv, SubtitleTyped
<1>2. \A v \in Preparer \ {u} : prep'[v] = prep[v]
  BY <1>1
<1>3. Stock' = Stock
  BY DEF Stock, InDir
<1>4. ASSUME NEW v \in Preparer, Covers(v) PROVE Covers(v)'
  <2>1. v # u /\ prep'[v] = prep[v]
    BY <1>2, <1>4 DEF Covers
  <2>2. Covers(v)' <=> /\ prep'[v].pc = "prune" /\ Stored!Sum(Stock) <= prep'[v].total
                       /\ \A x \in Stock : x \in InDir(prep'[v].list) \/ x.name = prep'[v].asset
    BY <1>3 DEF Covers, InDir
  <2> QED BY <1>4, <2>1, <2>2 DEF Covers
<1>5. ASSUME NEW v \in Preparer, prep[v].pc \in {"writing", "restamping", "list"}
      PROVE  prep'[v].pc \in {"writing", "restamping", "list"}
  BY <1>2, <1>5
<1> QED BY <1>1, <1>3, <1>4, <1>5 DEF Accounted

LEMMA EmptyListing == <<>> \in Seq(Cached) /\ Listing(<<>>) /\ InDir(<<>>) = {}
<1>1. <<>> \in Seq(Cached) /\ Len(<<>>) = 0
  BY EmptySeq
<1> QED BY <1>1 DEF Listing, InDir

LEMMA NoPrepFits ==
    /\ C!NoPrep \in PrepRec /\ C!NoPrep.pc = "idle" /\ ~C!NoPrep.disturbed
    /\ Planned(C!NoPrep) /\ \A u \in Preparer : Sure(u, C!NoPrep)
<1>1. PICK a \in Subtitle : a = CHOOSE b \in Subtitle : TRUE
  BY SubtitleAssumption
<1>2. C!NoPrep = [pc |-> "idle", asset |-> a, list |-> <<>>, total |-> 0, disturbed |-> FALSE]
  BY <1>1 DEF C!NoPrep
<1>4. Listing(<<>>) /\ InDir(<<>>) = {}
  BY EmptyListing
<1>5. C!NoPrep \in PrepRec
  BY <1>2, EmptyListing DEF PrepRec, PrepPC
<1>6. /\ C!NoPrep.pc = "idle" /\ ~C!NoPrep.disturbed
      /\ C!NoPrep.list = <<>> /\ C!NoPrep.total = 0
  BY <1>2
<1>7. Stored!Sum(InDir(C!NoPrep.list)) = 0 /\ Listing(C!NoPrep.list)
  BY <1>4, <1>6, NoStoredBytes
<1>8. Planned(C!NoPrep)
  BY <1>6, <1>7 DEF Planned
<1>9. \A u \in Preparer : Sure(u, C!NoPrep)
  BY <1>6 DEF Sure
<1> QED BY <1>5, <1>6, <1>8, <1>9

LEMMA LookUpKeeps == ASSUME SubtitleInv, NEW u \in Preparer, C!LookUp(u) PROVE SubtitleInv'
<1>1. PICK n \in PrepRec : n = C!NoPrep
  BY NoPrepFits
<1>2. PICK a \in Subtitle :
          prep' = [prep EXCEPT ![u] =
              [n EXCEPT !.pc = IF a \in rows /\ a \in C!Files(cache)
                               THEN IF a \in Web THEN "stamp" ELSE "served"
                               ELSE "fetch",
                        !.asset = a, !.disturbed = C!BeingWritten(u, a)]]
  BY <1>1 DEF C!LookUp
<1>3. PICK pc \in {"stamp", "served", "fetch"} : pc = IF a \in rows /\ a \in C!Files(cache)
                               THEN IF a \in Web THEN "stamp" ELSE "served"
                               ELSE "fetch"
  OBVIOUS
<1>4. PICK d \in BOOLEAN : d = C!BeingWritten(u, a)
  BY DEF C!BeingWritten
<1>5. PICK r : r = [n EXCEPT !.pc = pc, !.asset = a, !.disturbed = d]
  OBVIOUS
<1>6. prep' = [prep EXCEPT ![u] = r]
  BY <1>2, <1>3, <1>4, <1>5
<1>7. /\ r \in PrepRec /\ r.pc = pc /\ r.asset = a /\ r.disturbed = d
      /\ r.list = n.list /\ r.total = n.total
  BY <1>5 DEF PrepRec, PrepPC
<1>8. Planned(r)
  BY <1>1, <1>7, NoPrepFits DEF Planned
<1>9. prep[u].pc = "idle" /\ UNCHANGED <<cache, rows, due, cut>>
  BY DEF C!LookUp
<1>10. ASSUME a \in rows, a \in C!Files(cache), ~d
       PROVE  \E x \in Stock : /\ x.name = a
                               /\ a \notin cut => x.content \in {"whole", "old"}
                               /\ a \notin cut /\ a \notin Web => x.content = "whole"
  <2>1. PICK x \in Stock : x.name = a /\ x.content \in {"whole", "part", "old"}
    BY <1>10, StockFacts DEF SubtitleInv, SubtitleTyped, Cached
  <2>2. x.content = "old" => a \in Web
    BY <2>1 DEF SubtitleInv, Explained, Explains
  <2>3. ~\E v \in Preparer : prep[v].pc \in InWrite /\ prep[v].asset = a
    BY <1>4, <1>9, <1>10 DEF C!BeingWritten, InWrite
  <2>4. x.content = "part" => a \in cut
    BY <2>1, <2>3 DEF SubtitleInv, Explained, Explains
  <2> QED BY <2>1, <2>2, <2>4
<1>11. Sure(u, r)
  <2> SUFFICES ASSUME ~d PROVE Sure(u, r)
    BY <1>7 DEF Sure
  <2>1. ~C!BeingWritten(u, a)
    BY <1>4
  <2>2. CASE pc = "fetch"
    BY <1>7, <2>1, <2>2 DEF Sure, InWrite
  <2>3. CASE pc # "fetch"
    <3>1. pc \in {"stamp", "served"} /\ (pc = "served" => a \notin Web)
      BY <1>3, <2>3
    <3>2. PICK x \in Stock : /\ x.name = a
                             /\ a \notin cut => x.content \in {"whole", "old"}
                             /\ a \notin cut /\ a \notin Web => x.content = "whole"
      BY <1>3, <1>10, <2>3
    <3> QED BY <1>7, <2>1, <3>1, <3>2 DEF Sure, InWrite
  <2> QED BY <2>2, <2>3
<1>12. Accounted'
  BY <1>6, <1>7, <1>9, AccountedStays
<1>13. /\ rows' \subseteq Subtitle /\ due' \in BOOLEAN /\ prep[u].pc \notin InWrite /\ r.pc \notin InWrite
       /\ UNCHANGED <<cache, cut>>
  BY <1>7, <1>9 DEF SubtitleInv, SubtitleTyped, InWrite
<1> QED BY <1>6, <1>7, <1>8, <1>11, <1>12, <1>13, QuietPrepKeeps

\* The call moves on without a file.
LEMMA CallGoesKeeps ==
    ASSUME SubtitleInv, NEW u \in Preparer, NEW pc \in PrepPC, C!Goes(u, pc),
           UNCHANGED <<cache, rows, due, cut>>, prep[u].pc \notin {"writing", "restamping", "list", "prune"},
           pc \notin InWrite, \A r \in PrepRec : r.asset = prep[u].asset /\ r.disturbed = prep[u].disturbed
                                                 /\ r.pc = pc => Sure(u, r)
    PROVE  SubtitleInv'
<1>1. PICK q \in PrepRec : q = prep[u]
  BY DEF SubtitleInv, SubtitleTyped
<1>2. PICK r : r = [q EXCEPT !.pc = pc]
  OBVIOUS
<1>3. prep' = [prep EXCEPT ![u] = r]
  BY <1>1, <1>2 DEF C!Goes
<1>4. /\ r \in PrepRec /\ r.pc = pc /\ r.asset = q.asset /\ r.disturbed = q.disturbed
      /\ r.list = q.list /\ r.total = q.total
  BY <1>2 DEF PrepRec
<1>5. Sure(u, r)
  BY <1>1, <1>4
<1>6. Planned(q)
  BY <1>1 DEF SubtitleInv
<1>7. Planned(r)
  BY <1>4, <1>6 DEF Planned
<1>8. Accounted'
  BY <1>3, <1>4, AccountedStays
<1>9. rows' \subseteq Subtitle /\ due' \in BOOLEAN /\ prep[u].pc \notin InWrite /\ r.pc \notin InWrite
  BY <1>4 DEF SubtitleInv, SubtitleTyped, InWrite
<1> QED BY <1>3, <1>4, <1>5, <1>7, <1>8, <1>9, QuietPrepKeeps

LEMMA ReadStampKeeps == ASSUME SubtitleInv, NEW u \in Preparer, C!ReadStamp(u) PROVE SubtitleInv'
<1>1. PICK q \in PrepRec : q = prep[u]
  BY DEF SubtitleInv, SubtitleTyped
<1>2. q.pc = "stamp" /\ UNCHANGED <<cache, rows, due, cut>> /\ Sure(u, q)
  BY <1>1 DEF C!ReadStamp, SubtitleInv
<1>3. CASE C!Content(q.asset) = {"old"}
  <2>1. C!Goes(u, "restamp")
    BY <1>1, <1>3 DEF C!ReadStamp
  <2>2. \A r \in PrepRec : r.asset = q.asset /\ r.disturbed = q.disturbed /\ r.pc = "restamp" => Sure(u, r)
    BY <1>2 DEF Sure, InWrite
  <2> QED BY <1>1, <1>2, <2>1, <2>2, CallGoesKeeps DEF PrepPC, InWrite
<1>4. CASE C!Content(q.asset) # {"old"}
  <2>1. C!Goes(u, "served")
    BY <1>1, <1>4 DEF C!ReadStamp
  <2>2. ASSUME NEW x \in Stock, x.name = q.asset PROVE x.content # "old"
    <3>1. PICK i \in 1..Len(cache) : x = cache[i]
      BY <2>2 DEF Stock, InDir
    <3>2. \A j \in 1..Len(cache) : cache[j].name = q.asset => cache[j] = x
      BY <2>2, <3>1 DEF SubtitleInv, SubtitleTyped, Listing
    <3>3. C!Content(q.asset) = {x.content}
      BY <2>2, <3>1, <3>2 DEF C!Content
    <3> QED BY <1>4, <3>3
  <2>3. \A r \in PrepRec : r.asset = q.asset /\ r.disturbed = q.disturbed /\ r.pc = "served" => Sure(u, r)
    BY <1>2, <2>2 DEF Sure, InWrite
  <2> QED BY <1>1, <1>2, <2>1, <2>3, CallGoesKeeps DEF PrepPC, InWrite
<1> QED BY <1>3, <1>4

\* A call that ends without a prune.
LEMMA LeaveKeeps == ASSUME SubtitleInv, NEW u \in Preparer, C!FetchFails(u) \/ C!Return(u) PROVE SubtitleInv'
<1>1. PICK n \in PrepRec : n = C!NoPrep
  BY NoPrepFits
<1>2. prep' = [prep EXCEPT ![u] = n] /\ UNCHANGED <<cache, rows, due, cut>> /\ prep[u].pc \in {"fetch", "served"}
  BY <1>1 DEF C!FetchFails, C!Return, C!Ends
<1>3. Planned(n) /\ Sure(u, n) /\ n.pc \notin InWrite
  BY <1>1, NoPrepFits DEF InWrite
<1>4. Accounted'
  BY <1>2, AccountedStays
<1>5. rows' \subseteq Subtitle /\ due' \in BOOLEAN /\ prep[u].pc \notin InWrite
  BY <1>2 DEF SubtitleInv, SubtitleTyped, InWrite
<1> QED BY <1>2, <1>3, <1>4, <1>5, QuietPrepKeeps

LEMMA WriteEffect ==
    ASSUME Listing(cache), NEW f \in Subtitle, NEW c \in {"whole", "part", "old"}, cache' = C!Written(f, c)
    PROVE  Listing(cache') /\ Stock' = {x \in Stock : x.name # f} \cup {[name |-> f, content |-> c]}
  BY WrittenEntries DEF Stock, InDir

\* A call starts to write its file.
LEMMA BeginKeeps ==
    ASSUME SubtitleInv, NEW u \in Preparer, NEW f, f = prep[u].asset,
           NEW from \in {"restamp", "fetch"}, NEW to \in InWrite, C!BeginFile(u, f, from, to)
    PROVE  SubtitleInv'
<1>1. PICK q \in PrepRec : q = prep[u]
  BY DEF SubtitleInv, SubtitleTyped
<1>2. PICK r : r = [q EXCEPT !.pc = to]
  OBVIOUS
<1>3. /\ r \in PrepRec /\ r.pc = to /\ r.asset = f /\ r.disturbed = q.disturbed
      /\ r.list = q.list /\ r.total = q.total /\ f \in Subtitle
  BY <1>1, <1>2 DEF PrepRec, PrepPC, InWrite
<1>4. q.pc = from /\ UNCHANGED <<rows, due, cut>> /\ cache' = C!Written(f, "part")
  BY <1>1 DEF C!BeginFile
<1>5. prep' = C!Touched(u, f, [prep EXCEPT ![u] = r])
  BY <1>1, <1>2 DEF C!BeginFile
<1>6. Told(u, r, f)
  BY <1>3, <1>5, TouchedPrep DEF SubtitleInv, SubtitleTyped
<1>7. PICK x \in Cached : x.name = f /\ x.content = "part" /\ x = [name |-> f, content |-> "part"]
  BY <1>3 DEF Cached
<1>8. Listing(cache') /\ Stock' = {y \in Stock : y.name # f} \cup {x}
  BY <1>3, <1>4, <1>7, WrittenEntries DEF SubtitleInv, SubtitleTyped, Stock, InDir
<1>9. SubtitleTyped'
  BY <1>4, <1>6, <1>8 DEF SubtitleInv, SubtitleTyped, Told, Listing
<1>10. OthersStay(f)
  BY <1>4, <1>7, <1>8 DEF OthersStay
<1>11. /\ prep'[u].pc = to /\ prep'[u].asset = f
       /\ \A v \in Preparer \ {u} : prep'[v].pc = prep[v].pc /\ prep'[v].asset = prep[v].asset
  BY <1>3, <1>6 DEF Told
<1>12. Explained'
  <2> SUFFICES ASSUME NEW y \in Stock' PROVE Explains(y)'
    BY DEF Explained
  <2>1. CASE y = x
    BY <1>7, <1>11, <2>1 DEF Explains
  <2>2. CASE y \in Stock
    <3>1. \A v \in Preparer : prep[v].pc \in InWrite => v # u
      BY <1>1, <1>4 DEF InWrite
    <3> QED BY <1>4, <1>11, <2>2, <3>1 DEF SubtitleInv, Explained, Explains
  <2> QED BY <1>8, <2>1, <2>2
<1>13. Accounted'
  BY <1>11 DEF Accounted, InWrite
<1>14. \A v \in Preparer \ {u} : Planned(prep[v])' /\ Sure(v, prep[v])'
  BY <1>3, <1>6, <1>10, OthersKeep
<1>15. Planned(prep[u])'
  <2>1. prep'[u] = r
    BY <1>6 DEF Told
  <2>2. Planned(q)
    BY <1>1 DEF SubtitleInv
  <2> QED BY <1>3, <2>1, <2>2 DEF Planned, Listing, InDir
<1>16. Sure(u, prep[u])'
  <2>1. prep'[u] = r
    BY <1>6 DEF Told
  <2>2. ~q.disturbed => ~C!BeingWritten(u, f)
    BY <1>1, <1>4 DEF SubtitleInv, Sure
  <2>3. ~C!BeingWritten(u, f) => ~C!BeingWritten(u, f)'
    BY <1>11 DEF C!BeingWritten
  <2>4. x \in Stock'
    BY <1>8
  <2> QED BY <1>3, <1>7, <2>1, <2>2, <2>3, <2>4 DEF Sure, InWrite
<1> QED BY <1>9, <1>12, <1>13, <1>14, <1>15, <1>16 DEF SubtitleInv

LEMMA PlannedSame == ASSUME NEW q, NEW r, r.list = q.list, r.total = q.total, Planned(q) PROVE Planned(r)
  BY DEF Planned

LEMMA PlannedNext == ASSUME NEW u, NEW r, prep'[u] = r, Planned(r) PROVE Planned(prep[u])'
  BY DEF Planned, Listing, InDir

\* The write ends.
LEMMA FinishKeeps ==
    ASSUME SubtitleInv, NEW u \in Preparer, NEW f, f = prep[u].asset, prep[u].pc \in InWrite,
           NEW to \in {"list", "served"}, to = "served" => due',
           cache' = IF f \notin C!Files(cache) THEN cache
                    ELSE C!Written(f, IF C!BeingWritten(u, f) THEN "part" ELSE "whole"),
           cut' = cut \ {f}, prep' = C!Touched(u, f, [prep EXCEPT ![u].pc = to]),
           due' \in BOOLEAN, UNCHANGED rows
    PROVE  SubtitleInv'
<1>1. PICK q \in PrepRec : q = prep[u]
  BY DEF SubtitleInv, SubtitleTyped
<1>2. PICK r : r = [q EXCEPT !.pc = to]
  OBVIOUS
<1>3. /\ r \in PrepRec /\ r.pc = to /\ r.asset = f /\ r.disturbed = q.disturbed
      /\ r.list = q.list /\ r.total = q.total /\ f \in Subtitle
  BY <1>1, <1>2 DEF PrepRec, PrepPC
<1>4. q.pc \in InWrite /\ q.pc # "idle" /\ Sure(u, q) /\ Planned(q) /\ Listing(cache)
  BY <1>1 DEF SubtitleInv, SubtitleTyped, InWrite
<1>5. prep' = C!Touched(u, f, [prep EXCEPT ![u] = r])
  BY <1>1, <1>2
<1>6. Told(u, r, f)
  BY <1>3, <1>5, TouchedPrep DEF SubtitleInv, SubtitleTyped
<1>7. /\ prep'[u] = r /\ prep' \in [Preparer -> PrepRec]
      /\ \A v \in Preparer \ {u} : prep'[v].pc = prep[v].pc /\ prep'[v].asset = prep[v].asset
  BY <1>6 DEF Told
<1>8. PICK c \in {"whole", "part"} : c = IF C!BeingWritten(u, f) THEN "part" ELSE "whole"
  OBVIOUS
<1>9. /\ Listing(cache')
      /\ \A y \in Cached : y.name # f => (y \in Stock <=> y \in Stock')
      /\ \A y \in Stock' : y.name = f => y.content = c
      /\ f \in C!Files(cache) => \E y \in Stock' : y.name = f /\ y.content = c
      /\ Stock' \in SUBSET Cached
  <2>1. CASE f \in C!Files(cache)
    <3>1. PICK x \in Cached : x.name = f /\ x.content = c /\ x = [name |-> f, content |-> c]
      BY <1>3, <1>8 DEF Cached
    <3>2. cache' = C!Written(f, c) /\ c \in {"whole", "part", "old"}
      BY <1>8, <2>1
    <3>3. Listing(cache') /\ Stock' = {y \in Stock : y.name # f} \cup {x}
      BY <1>3, <1>4, <3>1, <3>2, WriteEffect
    <3>4. Stock \in SUBSET Cached
      BY <1>4, StockFacts
    <3> QED BY <3>1, <3>3, <3>4
  <2>2. CASE f \notin C!Files(cache)
    <3>1. cache' = cache /\ Stock' = Stock
      BY <2>2 DEF Stock, InDir
    <3>2. Listing(cache')
      BY <1>4, <3>1
    <3> QED BY <1>4, <2>2, <3>1, <3>2, StockFacts
  <2> QED BY <2>1, <2>2
<1>10. SubtitleTyped'
  BY <1>7, <1>9 DEF SubtitleInv, SubtitleTyped, Listing
<1>11. OthersStay(f)
  BY <1>9 DEF OthersStay
<1>12. Explained'
  <2> SUFFICES ASSUME NEW y \in Stock' PROVE Explains(y)'
    BY DEF Explained
  <2>1. CASE y.name = f
    <3>1. y.content = c
      BY <1>9, <2>1
    <3>2. ASSUME c = "part" PROVE \E v \in Preparer : prep'[v].pc \in InWrite /\ prep'[v].asset = f
      <4>1. PICK v \in Preparer \ {u} : prep[v].pc \in InWrite /\ prep[v].asset = f
        BY <1>8, <3>2 DEF C!BeingWritten, InWrite
      <4> QED BY <1>7, <4>1
    <3> QED BY <1>7, <1>8, <2>1, <3>1, <3>2 DEF Explains
  <2>2. CASE y.name # f
    <3>1. y \in Stock
      BY <1>9, <2>2
    <3>2. ASSUME NEW v \in Preparer, prep[v].pc \in InWrite, prep[v].asset = y.name
          PROVE  prep'[v].pc \in InWrite /\ prep'[v].asset = y.name
      BY <1>7, <2>2, <3>2
    <3> QED BY <2>2, <3>1, <3>2 DEF SubtitleInv, Explained, Explains
  <2> QED BY <2>1, <2>2
<1>13. Accounted'
  BY <1>3, <1>7 DEF Accounted
<1>14. \A v \in Preparer \ {u} : Planned(prep[v])' /\ Sure(v, prep[v])'
  BY <1>3, <1>6, <1>11, OthersKeep DEF InWrite
<1>15. Planned(prep[u])'
  <2>1. prep'[u] = r
    BY <1>7
  <2>2. Planned(r)
    BY <1>3, <1>4, PlannedSame
  <2> QED BY <2>1, <2>2, PlannedNext
<1>16. Sure(u, prep[u])'
  <2> SUFFICES ASSUME ~q.disturbed PROVE Sure(u, prep[u])'
    BY <1>3, <1>7 DEF Sure
  <2>1. ~C!BeingWritten(u, f) /\ \E x \in Stock : x.name = f
    BY <1>1, <1>4 DEF Sure
  <2>2. ~C!BeingWritten(u, f)'
    BY <1>7, <2>1 DEF C!BeingWritten
  <2>3. \E y \in Stock' : y.name = f /\ y.content = "whole"
    BY <1>4, <1>8, <1>9, <2>1, StockFacts
  <2> QED BY <1>3, <1>7, <2>2, <2>3 DEF Sure, InWrite
<1> QED BY <1>10, <1>12, <1>13, <1>14, <1>15, <1>16 DEF SubtitleInv

\* The write fails, and what it left stays.
LEMMA WriteFailKeeps ==
    ASSUME SubtitleInv, NEW u \in Preparer, NEW f, f = prep[u].asset, prep[u].pc \in InWrite,
           NEW r \in PrepRec, prep' = [prep EXCEPT ![u] = r], Planned(r),
           r.pc = "idle" \/ (r.pc = "served" /\ r.asset = f /\ r.disturbed = prep[u].disturbed),
           cut' = cut \cup {f}, due', due' \in BOOLEAN, UNCHANGED <<cache, rows>>
    PROVE  SubtitleInv'
<1>1. prep \in [Preparer -> PrepRec] /\ f \in Subtitle
  BY DEF SubtitleInv, SubtitleTyped, PrepRec
<1>2. prep' \in [Preparer -> PrepRec] /\ prep'[u] = r /\ \A v \in Preparer \ {u} : prep'[v] = prep[v]
  BY <1>1
<1>3. SubtitleTyped'
  BY <1>1, <1>2 DEF SubtitleInv, SubtitleTyped, Listing
<1>4. Stock' = Stock
  BY DEF Stock, InDir
<1>5. Explained'
  <2> SUFFICES ASSUME NEW y \in Stock' PROVE Explains(y)'
    BY DEF Explained
  <2>1. Explains(y)
    BY <1>4 DEF SubtitleInv, Explained
  <2>2. ASSUME NEW v \in Preparer, prep[v].pc \in InWrite, prep[v].asset = y.name, y.name \notin cut'
        PROVE  prep'[v].pc \in InWrite /\ prep'[v].asset = y.name
    BY <1>2, <2>2
  <2>3. y.name \in cut => y.name \in cut'
    OBVIOUS
  <2> QED BY <2>1, <2>2, <2>3 DEF Explains
<1>6. Accounted'
  BY DEF Accounted
<1>7. ASSUME NEW v \in Preparer \ {u} PROVE Planned(prep[v])' /\ Sure(v, prep[v])'
  <2>1. PICK q : q = prep'[v] /\ q = prep[v]
    BY <1>2
  <2>2. Planned(q) /\ Sure(v, q)
    BY <2>1 DEF SubtitleInv
  <2>3. Planned(prep[v])'
    BY <2>1, <2>2 DEF Planned, Listing, InDir
  <2>4. ~C!BeingWritten(v, q.asset) => ~C!BeingWritten(v, q.asset)'
    BY <1>2 DEF C!BeingWritten
  <2>5. q.asset \notin cut' => q.asset \notin cut
    OBVIOUS
  <2>6. Sure(v, prep[v])'
    BY <1>4, <2>1, <2>2, <2>4, <2>5 DEF Sure
  <2> QED BY <2>3, <2>6
<1>8. Planned(prep[u])'
  BY <1>2 DEF Planned, Listing, InDir
<1>9. Sure(u, prep[u])'
  <2>1. r.pc \notin InWrite /\ r.pc # "stamp" /\ (r.pc # "idle" => r.asset \in cut')
    BY DEF InWrite
  <2>2. CASE r.pc = "idle"
    BY <1>2, <2>2 DEF Sure
  <2>3. CASE r.pc = "served" /\ r.asset = f /\ r.disturbed = prep[u].disturbed
    <3>1. ~r.disturbed => ~C!BeingWritten(u, f)
      BY <2>3 DEF SubtitleInv, Sure, InWrite
    <3>2. ~C!BeingWritten(u, f) => ~C!BeingWritten(u, f)'
      BY <1>2 DEF C!BeingWritten
    <3> QED BY <1>2, <2>1, <2>3, <3>1, <3>2 DEF Sure
  <2> QED BY <2>2, <2>3
<1> QED BY <1>3, <1>5, <1>6, <1>7, <1>8, <1>9 DEF SubtitleInv

LEMMA WriteKeeps == ASSUME SubtitleInv, NEW u \in Preparer, C!WriteAsset(u) \/ C!Restamp(u) PROVE SubtitleInv'
<1>1. PICK f : f = prep[u].asset
  OBVIOUS
<1>2. PICK q \in PrepRec : q = prep[u] /\ q.disturbed = prep[u].disturbed
  BY DEF SubtitleInv, SubtitleTyped
<1>3. CASE C!BeginFile(u, f, "fetch", "writing") \/ C!BeginFile(u, f, "restamp", "restamping")
  BY <1>1, <1>3, BeginKeeps DEF InWrite
<1>4. CASE prep[u].pc = "writing" /\ C!FinishFile(u, f, "list", C!Ends(u))
  <2>1. prep[u].pc \in InWrite
    BY <1>4 DEF InWrite
  <2>2. CASE /\ cache' = IF f \notin C!Files(cache) THEN cache
                         ELSE C!Written(f, IF C!BeingWritten(u, f) THEN "part" ELSE "whole")
             /\ cut' = cut \ {f} /\ prep' = C!Touched(u, f, [prep EXCEPT ![u].pc = "list"])
             /\ due' = (due \/ prep[u].pc = "restamping") /\ UNCHANGED rows
    <3>1. due' \in BOOLEAN
      BY <2>2
    <3> QED BY <1>1, <2>1, <2>2, <3>1, FinishKeeps
  <2>3. CASE cut' = cut \cup {f} /\ due' = TRUE /\ C!Ends(u) /\ UNCHANGED <<cache, rows>>
    <3>1. PICK r \in PrepRec : r = C!NoPrep /\ r.pc = "idle" /\ Planned(r)
      BY NoPrepFits
    <3>2. prep' = [prep EXCEPT ![u] = r]
      BY <2>3, <3>1 DEF C!Ends
    <3> QED BY <1>1, <2>1, <2>3, <3>1, <3>2, WriteFailKeeps
  <2> QED BY <1>4, <2>2, <2>3 DEF C!FinishFile
<1>5. CASE prep[u].pc = "restamping" /\ C!FinishFile(u, f, "served", C!Goes(u, "served"))
  <2>1. prep[u].pc \in InWrite
    BY <1>5 DEF InWrite
  <2>2. CASE /\ cache' = IF f \notin C!Files(cache) THEN cache
                         ELSE C!Written(f, IF C!BeingWritten(u, f) THEN "part" ELSE "whole")
             /\ cut' = cut \ {f} /\ prep' = C!Touched(u, f, [prep EXCEPT ![u].pc = "served"])
             /\ due' = (due \/ prep[u].pc = "restamping") /\ UNCHANGED rows
    <3>1. due' \in BOOLEAN /\ due'
      BY <1>5, <2>2
    <3> QED BY <1>1, <2>1, <2>2, <3>1, FinishKeeps
  <2>3. CASE cut' = cut \cup {f} /\ due' = TRUE /\ C!Goes(u, "served") /\ UNCHANGED <<cache, rows>>
    <3>1. PICK r : r = [q EXCEPT !.pc = "served"]
      OBVIOUS
    <3>2. prep' = [prep EXCEPT ![u] = r]
      BY <1>2, <2>3, <3>1 DEF C!Goes
    <3>3. /\ r \in PrepRec /\ r.pc = "served" /\ r.asset = f /\ r.disturbed = q.disturbed
          /\ r.list = q.list /\ r.total = q.total
      BY <1>1, <1>2, <3>1 DEF PrepRec, PrepPC
    <3>4. Planned(q)
      BY <1>2 DEF SubtitleInv
    <3>5. Planned(r)
      BY <3>3, <3>4, PlannedSame
    <3> QED BY <1>1, <1>2, <2>1, <2>3, <3>2, <3>3, <3>5, WriteFailKeeps
  <2> QED BY <1>5, <2>2, <2>3 DEF C!FinishFile
<1> QED BY <1>1, <1>3, <1>4, <1>5 DEF C!WriteAsset, C!Restamp

\* The listing of a prune has every file and weighs them.
LEMMA DirListKeeps == ASSUME SubtitleInv, NEW u \in Preparer, C!ListFiles(u) PROVE SubtitleInv'
<1>1. PICK q \in PrepRec : q = prep[u]
  BY DEF SubtitleInv, SubtitleTyped
<1>2. q.pc = "list" /\ due' = FALSE /\ UNCHANGED <<cache, rows, cut>> /\ Sure(u, q) /\ Listing(cache)
  BY <1>1 DEF C!ListFiles, SubtitleInv, SubtitleTyped
<1>3. PICK n \in Nat : n = C!Total(cache) /\ n = Stored!Sum(Stock)
  BY <1>2, TotalBytes, StockFacts, BytesLess DEF Stock
<1>4. PICK dir : dir = cache
  OBVIOUS
<1>5. dir \in Seq(Cached) /\ Listing(dir) /\ InDir(dir) = Stock
  BY <1>2, <1>4 DEF Listing, Stock
<1>6. PICK r : r = [q EXCEPT !.pc = "prune", !.list = dir, !.total = n]
  OBVIOUS
<1>7. prep' = [prep EXCEPT ![u] = r]
  BY <1>1, <1>3, <1>4, <1>6 DEF C!ListFiles
<1>8. /\ r \in PrepRec /\ r.pc = "prune" /\ r.list = dir /\ r.total = n
      /\ r.asset = q.asset /\ r.disturbed = q.disturbed
  BY <1>5, <1>6 DEF PrepRec, PrepPC
<1>9. Planned(r)
  BY <1>3, <1>5, <1>8 DEF Planned
<1>10. Sure(u, r)
  BY <1>2, <1>8 DEF Sure, InWrite
<1>11. prep'[u] = r /\ Stock' = Stock
  BY <1>2, <1>7 DEF SubtitleInv, SubtitleTyped, Stock, InDir
<1>12. Covers(u)'
  <2>1. \A x \in Stock : x \in InDir(r.list)
    BY <1>5, <1>8
  <2>2. Stored!Sum(Stock) <= r.total
    BY <1>3, <1>8
  <2> QED BY <1>8, <1>11, <2>1, <2>2 DEF Covers, InDir
<1>13. Accounted'
  BY <1>12 DEF Accounted
<1>14. rows' \subseteq Subtitle /\ due' \in BOOLEAN /\ prep[u].pc \notin InWrite /\ r.pc \notin InWrite
  BY <1>1, <1>2, <1>8 DEF SubtitleInv, SubtitleTyped, InWrite
<1> QED BY <1>2, <1>7, <1>8, <1>9, <1>10, <1>13, <1>14, QuietPrepKeeps

\* The file is not removed: it is the kept one, or is gone.
LEMMA PassOverKeeps ==
    ASSUME SubtitleInv, NEW u \in Preparer, prep[u].pc = "prune", prep[u].list # <<>>,
           NEW x, x = Head(prep[u].list), x.name = prep[u].asset \/ x.name \notin C!Files(cache),
           prep' = [prep EXCEPT ![u].list = Tail(@)], UNCHANGED <<cache, rows, due, cut>>
    PROVE  SubtitleInv'
<1>1. PICK q \in PrepRec : q = prep[u]
  BY DEF SubtitleInv, SubtitleTyped
<1>2. Planned(q) /\ Sure(u, q) /\ q.pc = "prune" /\ x = Head(q.list) /\ q.list # <<>>
  BY <1>1 DEF SubtitleInv
<1>3. PICK l : l = Tail(q.list)
  OBVIOUS
<1>4. x \in InDir(q.list) /\ Listing(l) /\ InDir(l) = InDir(q.list) \ {x}
  BY <1>2, <1>3, ListingTail DEF Planned
<1>5. PICK r : r = [q EXCEPT !.list = l]
  OBVIOUS
<1>6. prep' = [prep EXCEPT ![u] = r]
  BY <1>1, <1>3, <1>5
<1>7. /\ r \in PrepRec /\ r.pc = "prune" /\ r.list = l /\ r.total = q.total
      /\ r.asset = q.asset /\ r.disturbed = q.disturbed
  BY <1>2, <1>4, <1>5 DEF PrepRec, Listing
<1>8. Planned(r)
  <2>1. InDir(q.list) \in SUBSET Cached /\ IsFiniteSet(InDir(q.list))
    BY <1>2, ListingEntries, ListingFinite DEF Planned
  <2>2. /\ Stored!Sum(InDir(q.list)) = C!Bytes(x) + Stored!Sum(InDir(l))
        /\ Stored!Sum(InDir(l)) \in Nat /\ C!Bytes(x) \in Nat
    BY <1>4, <2>1, BytesLess, BytesType
  <2>3. PICK a \in Nat, b \in Nat : a = Stored!Sum(InDir(l)) /\ b = C!Bytes(x)
    BY <2>2
  <2>4. b + a <= q.total /\ q.total \in Nat
    BY <1>2, <2>2, <2>3 DEF Planned, PrepRec
  <2>5. a <= r.total
    BY <1>7, <2>3, <2>4
  <2> QED BY <1>4, <1>7, <2>3, <2>5 DEF Planned
<1>9. Sure(u, r)
  BY <1>2, <1>7 DEF Sure, InWrite
<1>10. Stock' = Stock /\ prep'[u] = r /\ \A v \in Preparer \ {u} : prep'[v] = prep[v]
  BY <1>6 DEF SubtitleInv, SubtitleTyped, Stock, InDir
<1>11. ASSUME NEW v \in Preparer, Covers(v) PROVE Covers(v)'
  <2>1. Covers(v)' <=> /\ prep'[v].pc = "prune" /\ Stored!Sum(Stock) <= prep'[v].total
                       /\ \A y \in Stock : y \in InDir(prep'[v].list) \/ y.name = prep'[v].asset
    BY <1>10 DEF Covers, InDir
  <2>2. CASE v # u
    BY <1>10, <1>11, <2>1, <2>2 DEF Covers
  <2>3. CASE v = u
    <3>1. Stored!Sum(Stock) <= q.total /\ \A y \in Stock : y \in InDir(q.list) \/ y.name = q.asset
      BY <1>1, <1>11, <2>3 DEF Covers
    <3>2. x \in Stock => x.name = q.asset
      BY <1>1, StockFacts DEF SubtitleInv, SubtitleTyped
    <3> QED BY <1>4, <1>7, <1>10, <2>1, <2>3, <3>1, <3>2
  <2> QED BY <2>2, <2>3
<1>12. Accounted'
  <2>1. \A v \in Preparer : prep'[v].pc = prep[v].pc
    BY <1>1, <1>2, <1>7, <1>10
  <2> QED BY <1>10, <1>11, <2>1 DEF SubtitleInv, Accounted
<1>13. rows' \subseteq Subtitle /\ due' \in BOOLEAN /\ prep[u].pc \notin InWrite /\ r.pc \notin InWrite
  BY <1>7 DEF SubtitleInv, SubtitleTyped, InWrite
<1> QED BY <1>6, <1>7, <1>8, <1>9, <1>12, <1>13, QuietPrepKeeps

LEMMA SureNext == ASSUME NEW u, NEW r, prep'[u] = r, Sure(u, r)' PROVE Sure(u, prep[u])'
  BY DEF Sure

LEMMA WithoutEffect ==
    ASSUME Listing(cache), NEW f, cache' = C!Without(f)
    PROVE  Listing(cache') /\ Stock' = {x \in Stock : x.name # f}
  BY WithoutEntries DEF Stock, InDir

\* The oldest file of the listing goes.
LEMMA RemoveKeeps ==
    ASSUME SubtitleInv, NEW u \in Preparer, NEW q \in PrepRec, q = prep[u], q.pc = "prune",
           NEW x \in InDir(q.list), x.name # q.asset, x.name \in C!Files(cache),
           NEW l, InDir(l) = InDir(q.list) \ {x},
           NEW b \in Nat, b = C!Bytes(x), NEW t \in Nat, q.total = t + b,
           NEW r \in PrepRec, r.pc = "prune", r.list = l, r.total = t, r.asset = q.asset,
           r.disturbed = q.disturbed, Planned(r), Told(u, r, x.name),
           Listing(cache'), Stock' = {y \in Stock : y.name # x.name}, UNCHANGED <<rows, due, cut>>
    PROVE  SubtitleInv'
<1>1. Planned(q) /\ Sure(u, q)
  BY DEF SubtitleInv
<1>10. /\ prep'[u] = r /\ prep' \in [Preparer -> PrepRec]
       /\ \A v \in Preparer \ {u} : /\ prep'[v].pc = prep[v].pc /\ prep'[v].asset = prep[v].asset
                                    /\ prep'[v].list = prep[v].list /\ prep'[v].total = prep[v].total
  BY DEF Told
<1>11. Listing(cache) /\ Stock \in SUBSET Cached /\ IsFiniteSet(Stock)
       /\ \A y, z \in Stock : y.name = z.name => y = z
  BY StockFacts DEF SubtitleInv, SubtitleTyped
<1>12. Stock' = {y \in Stock : y.name # x.name}
  OBVIOUS
<1>13. SubtitleTyped'
  BY <1>10 DEF SubtitleInv, SubtitleTyped, Listing
<1>14. OthersStay(x.name)
  BY <1>12 DEF OthersStay
<1>15. \A v \in Preparer \ {u} : Planned(prep[v])' /\ Sure(v, prep[v])'
  BY <1>14, OthersKeep DEF InWrite
<1>16. Planned(prep[u])'
  BY <1>10, PlannedNext
<1>17. \A v \in Preparer : prep'[v].pc = prep[v].pc /\ prep'[v].asset = prep[v].asset
  BY <1>10
<1>18. Sure(u, prep[u])'
  <2>1. ~C!BeingWritten(u, q.asset) => ~C!BeingWritten(u, q.asset)'
    BY <1>17 DEF C!BeingWritten
  <2>2. \A y \in Stock : y.name = q.asset => y \in Stock'
    BY <1>12
  <2>3. r.pc \notin InWrite /\ r.pc # "stamp" /\ r.pc # "idle"
    BY DEF InWrite
  <2>4. ~q.disturbed => /\ ~C!BeingWritten(u, q.asset)
                        /\ q.asset \notin cut => \E y \in Stock : y.name = q.asset /\ y.content = "whole"
    BY <1>1 DEF Sure
  <2>5. cut' = cut
    OBVIOUS
  <2>6. Sure(u, r)'
    BY <2>1, <2>2, <2>3, <2>4, <2>5 DEF Sure
  <2> QED BY <1>10, <2>6, SureNext
<1>19. Explained'
  <2> SUFFICES ASSUME NEW y \in Stock' PROVE Explains(y)'
    BY DEF Explained
  <2>1. Explains(y)
    BY <1>12 DEF SubtitleInv, Explained
  <2> QED BY <1>17, <2>1 DEF Explains
<1>20. PICK n \in Nat, m \in Nat : n = Stored!Sum(Stock) /\ m = Stored!Sum(Stock') /\ m <= n
  <2>1. Stored!Sum(Stock) \in Nat
    BY <1>11, BytesLess
  <2>2. /\ Stored!Sum({y \in Stock : y.name # x.name}) <= Stored!Sum(Stock)
        /\ Stored!Sum({y \in Stock : y.name # x.name}) \in Nat
    BY <1>11, BytesWithout
  <2> QED BY <1>12, <2>1, <2>2
<1>21. ASSUME NEW v \in Preparer, Covers(v) PROVE Covers(v)'
  <2>1. Covers(v)' <=> /\ prep'[v].pc = "prune" /\ m <= prep'[v].total
                       /\ \A y \in Stock' : y \in InDir(prep'[v].list) \/ y.name = prep'[v].asset
    BY <1>20 DEF Covers, InDir
  <2>2. n <= prep[v].total /\ prep[v].pc = "prune" /\ prep[v].total \in Nat
        /\ \A y \in Stock : y \in InDir(prep[v].list) \/ y.name = prep[v].asset
    BY <1>20, <1>21 DEF Covers, SubtitleInv, SubtitleTyped, PrepRec
  <2>3. CASE v # u
    <3>1. m <= prep[v].total
      BY <1>20, <2>2
    <3>2. prep'[v].pc = prep[v].pc /\ prep'[v].list = prep[v].list /\ prep'[v].total = prep[v].total
          /\ prep'[v].asset = prep[v].asset
      BY <1>10, <2>3
    <3>3. \A y \in Stock' : y \in Stock
      BY <1>12
    <3> QED BY <2>1, <2>2, <3>1, <3>2, <3>3
  <2>4. CASE v = u
    <3>1. n <= q.total /\ \A y \in Stock : y \in InDir(q.list) \/ y.name = q.asset
      BY <2>2, <2>4
    <3>2. PICK y \in Stock : y.name = x.name
      BY <1>11, StockFacts
    <3>3. y = x
      <4>1. y \in InDir(q.list)
        BY <3>1, <3>2
      <4> QED BY <1>1, <3>2, <4>1, ListingEntries DEF Planned
    <3>4. Stock' = Stock \ {x}
      BY <1>11, <1>12, <3>2, <3>3
    <3>5. n = b + m
      BY <1>11, <1>20, <3>2, <3>3, <3>4, BytesLess
    <3>6. m <= t
      BY <3>1, <3>5
    <3>7. \A z \in Stock' : z \in InDir(l) \/ z.name = q.asset
      BY <3>1, <3>4
    <3> QED BY <1>10, <2>1, <2>4, <3>6, <3>7
  <2> QED BY <2>3, <2>4
<1>22. Accounted'
  <2>1. Accounted /\ due' = due
    BY DEF SubtitleInv
  <2>2. n <= Maximum => m <= Maximum
    BY <1>20, SubtitleAssumption
  <2>3. (\A y, z \in Stock : y = z) => \A y, z \in Stock' : y = z
    BY <1>12
  <2>4. \A v \in Preparer : prep[v].pc \in {"writing", "restamping", "list"}
                                => prep'[v].pc \in {"writing", "restamping", "list"}
    BY <1>17
  <2>5. Stored!Sum(Stock) <= Maximum => Stored!Sum(Stock') <= Maximum
    BY <1>20, <2>2
  <2> QED BY <1>21, <2>1, <2>3, <2>4, <2>5 DEF Accounted
<1> QED BY <1>13, <1>15, <1>16, <1>18, <1>19, <1>22 DEF SubtitleInv

LEMMA PruneOneKeeps == ASSUME SubtitleInv, NEW u \in Preparer, C!PruneOne(u) PROVE SubtitleInv'
<1>1. PICK x : x = Head(prep[u].list)
  OBVIOUS
<1>2. PICK q \in PrepRec : q = prep[u]
  BY DEF SubtitleInv, SubtitleTyped
<1>3. q.pc = "prune" /\ q.list # <<>> /\ UNCHANGED <<rows, due, cut>> /\ x = Head(q.list) /\ Planned(q)
  BY <1>1, <1>2 DEF C!PruneOne, SubtitleInv
<1>4. CASE x.name # q.asset /\ x.name \in C!Files(cache)
  <2>1. /\ cache' = C!Without(x.name)
        /\ prep' = C!Touched(u, x.name, [[prep EXCEPT ![u].list = Tail(@)] EXCEPT ![u].total = @ - C!Bytes(x)])
    BY <1>1, <1>2, <1>4 DEF C!PruneOne
  <2>2. PICK l : l = Tail(q.list)
    OBVIOUS
  <2>3. x \in InDir(q.list) /\ Listing(l) /\ InDir(l) = InDir(q.list) \ {x} /\ l \in Seq(Cached)
    BY <1>3, <2>2, ListingTail DEF Planned, Listing
  <2>4. PICK b \in Nat, a \in Nat, s \in Nat :
            b = C!Bytes(x) /\ a = Stored!Sum(InDir(l)) /\ s = Stored!Sum(InDir(q.list)) /\ s = b + a
    <3>1. InDir(q.list) \in SUBSET Cached /\ IsFiniteSet(InDir(q.list))
      BY <1>3, ListingEntries, ListingFinite DEF Planned
    <3> QED BY <2>3, <3>1, BytesLess, BytesType
  <2>5. PICK t \in Nat : t = q.total - b /\ a <= t /\ q.total = t + b
    <3>1. s <= q.total /\ q.total \in Nat
      BY <1>3, <2>4 DEF Planned, PrepRec
    <3>2. q.total - b \in Nat /\ a <= q.total - b /\ q.total = (q.total - b) + b
      BY <2>4, <3>1
    <3> QED BY <3>2
  <2>6. PICK r : r = [q EXCEPT !.list = l, !.total = t]
    OBVIOUS
  <2>7. /\ r \in PrepRec /\ r.pc = "prune" /\ r.list = l /\ r.total = t
        /\ r.asset = q.asset /\ r.disturbed = q.disturbed
    BY <1>3, <2>3, <2>6 DEF PrepRec
  <2>8. prep' = C!Touched(u, x.name, [prep EXCEPT ![u] = r])
    <3>1. PICK p : p = [prep EXCEPT ![u] = [q EXCEPT !.list = l]]
      OBVIOUS
    <3>2. p = [prep EXCEPT ![u].list = Tail(@)]
      BY <1>2, <2>2, <3>1
    <3>3. p[u] = [q EXCEPT !.list = l] /\ p[u].total = q.total
      BY <1>2, <3>1 DEF SubtitleInv, SubtitleTyped, PrepRec
    <3>4. [p EXCEPT ![u].total = @ - C!Bytes(x)] = [p EXCEPT ![u] = [p[u] EXCEPT !.total = t]]
      BY <2>4, <2>5, <3>3
    <3>5. [p[u] EXCEPT !.total = t] = r
      BY <2>6, <3>3 DEF PrepRec
    <3>6. [p EXCEPT ![u] = r] = [prep EXCEPT ![u] = r]
      BY <3>1
    <3> QED BY <2>1, <3>2, <3>4, <3>5, <3>6
  <2>9. Told(u, r, x.name)
    BY <2>7, <2>8, TouchedPrep DEF SubtitleInv, SubtitleTyped
  <2>10. Planned(r)
    BY <2>3, <2>4, <2>5, <2>7 DEF Planned
  <2>11. Listing(cache') /\ Stock' = {y \in Stock : y.name # x.name}
    BY <2>1, WithoutEffect DEF SubtitleInv, SubtitleTyped
  <2> HIDE <2>1, <2>2, <2>6, <2>8
  <2> QED BY <1>2, <1>3, <1>4, <2>3, <2>4, <2>5, <2>7, <2>9, <2>10, <2>11, RemoveKeeps
<1>5. CASE ~(x.name # q.asset /\ x.name \in C!Files(cache))
  <2>1. prep' = [prep EXCEPT ![u].list = Tail(@)] /\ UNCHANGED cache
    BY <1>1, <1>2, <1>5 DEF C!PruneOne
  <2> QED BY <1>1, <1>2, <1>3, <1>5, <2>1, PassOverKeeps
<1> QED BY <1>4, <1>5

\* The prune is over: nothing but the kept file is left of the listing, or the
\* files that are there fit.
LEMMA SaveAssetKeeps == ASSUME SubtitleInv, NEW u \in Preparer, C!SaveAsset(u) PROVE SubtitleInv'
<1>1. PICK q \in PrepRec : q = prep[u]
  BY DEF SubtitleInv, SubtitleTyped
<1>2. q.pc = "prune" /\ UNCHANGED <<cache, due, cut>> /\ Planned(q) /\ Sure(u, q) /\ (q.list = <<>> \/ q.total <= Maximum)
  BY <1>1, SubtitleAssumption DEF C!SaveAsset, C!Over, SubtitleInv, PrepRec
<1>3. PICK n \in PrepRec : n = C!NoPrep /\ Planned(n) /\ Sure(u, n) /\ n.pc = "idle"
  BY NoPrepFits
<1>4. PICK e \in Seq(Cached) : e = <<>> /\ Listing(e) /\ InDir(e) = {}
  BY EmptyListing
<1>5. PICK r \in PrepRec : /\ prep' = [prep EXCEPT ![u] = r] /\ Planned(r) /\ Sure(u, r)
                           /\ r.pc \in {"idle", "served"}
  <2>1. CASE C!Ends(u)
    BY <1>3, <2>1 DEF C!Ends
  <2>2. CASE prep' = [prep EXCEPT ![u].pc = "served", ![u].list = <<>>, ![u].total = 0]
    <3>1. PICK r : r = [q EXCEPT !.pc = "served", !.list = e, !.total = 0]
      OBVIOUS
    <3>2. prep' = [prep EXCEPT ![u] = r]
      BY <1>1, <1>4, <2>2, <3>1 DEF SubtitleInv, SubtitleTyped
    <3>3. /\ r \in PrepRec /\ r.pc = "served" /\ r.list = e /\ r.total = 0
          /\ r.asset = q.asset /\ r.disturbed = q.disturbed
      BY <1>4, <3>1 DEF PrepRec, PrepPC
    <3>4. Planned(r)
      <4>1. Stored!Sum(InDir(r.list)) = 0 /\ Listing(r.list)
        BY <1>4, <3>3, NoStoredBytes
      <4> QED BY <3>3, <4>1 DEF Planned
    <3>5. Sure(u, r)
      BY <1>2, <3>3 DEF Sure, InWrite
    <3> QED BY <3>2, <3>3, <3>4, <3>5
  <2> QED BY <2>1, <2>2 DEF C!SaveAsset
<1>6. rows' \subseteq Subtitle
  BY <1>1 DEF C!SaveAsset, C!Ends, SubtitleInv, SubtitleTyped, PrepRec
<1>7. Stock' = Stock /\ prep'[u] = r /\ \A v \in Preparer \ {u} : prep'[v] = prep[v]
  BY <1>2, <1>5 DEF SubtitleInv, SubtitleTyped, Stock, InDir
<1>8. ASSUME NEW v \in Preparer, v # u, Covers(v) PROVE Covers(v)'
  <2>1. Covers(v)' <=> /\ prep'[v].pc = "prune" /\ Stored!Sum(Stock) <= prep'[v].total
                       /\ \A y \in Stock : y \in InDir(prep'[v].list) \/ y.name = prep'[v].asset
    BY <1>7 DEF Covers, InDir
  <2> QED BY <1>7, <1>8, <2>1 DEF Covers
<1>9. ASSUME Covers(u) PROVE Stored!Sum(Stock) <= Maximum \/ \A x, y \in Stock : x = y
  <2>1. Stored!Sum(Stock) <= q.total /\ \A y \in Stock : y \in InDir(q.list) \/ y.name = q.asset
    BY <1>1, <1>9 DEF Covers
  <2>2. CASE q.list = <<>>
    <3>1. \A y \in Stock : y.name = q.asset
      BY <1>4, <2>1, <2>2
    <3> QED BY <3>1, StockFacts DEF SubtitleInv, SubtitleTyped
  <2>3. CASE q.total <= Maximum
    <3>1. PICK s \in Nat : s = Stored!Sum(Stock)
      BY StockFacts, BytesLess DEF SubtitleInv, SubtitleTyped
    <3> QED BY <2>1, <2>3, <3>1, SubtitleAssumption DEF PrepRec
  <2> QED BY <1>2, <2>2, <2>3
<1>10. Accounted'
  <2>1. Accounted /\ due' = due
    BY <1>2 DEF SubtitleInv
  <2>2. \A v \in Preparer : prep[v].pc \in {"writing", "restamping", "list"} =>
                                prep'[v].pc \in {"writing", "restamping", "list"}
    BY <1>1, <1>2, <1>7
  <2> QED BY <1>7, <1>8, <1>9, <2>1, <2>2 DEF Accounted
<1>11. due' \in BOOLEAN /\ prep[u].pc \notin InWrite /\ r.pc \notin InWrite
  BY <1>1, <1>2, <1>5 DEF SubtitleInv, SubtitleTyped, InWrite
<1> QED BY <1>2, <1>5, <1>6, <1>10, <1>11, QuietPrepKeeps

\* The process ends.
LEMMA DieKeeps == ASSUME SubtitleInv, C!Die PROVE SubtitleInv'
<1>1. PICK n \in PrepRec : n = C!NoPrep /\ n.pc = "idle" /\ Planned(n)
  BY NoPrepFits
<1>2. prep' = [u \in Preparer |-> n] /\ UNCHANGED <<cache, rows>>
      /\ due' = (due \/ \E u \in Preparer : prep[u].pc # "idle")
  BY <1>1 DEF C!Die
<1>3. /\ \A u \in Preparer : prep[u].pc \in InWrite => prep[u].asset \in cut'
      /\ cut \subseteq cut' /\ cut' \subseteq Subtitle
  <2>1. cut' = cut \cup {prep[u].asset : u \in {v \in Preparer : prep[v].pc \in {"writing", "restamping"}}}
    BY DEF C!Die
  <2>2. \A u \in Preparer : prep[u].asset \in Subtitle
    BY DEF SubtitleInv, SubtitleTyped, PrepRec
  <2> QED BY <2>1, <2>2 DEF InWrite, SubtitleInv, SubtitleTyped
<1>4. SubtitleTyped'
  BY <1>2, <1>3 DEF SubtitleInv, SubtitleTyped, Listing
<1>5. Stock' = Stock /\ \A u \in Preparer : prep'[u] = n
  BY <1>2 DEF Stock, InDir
<1>6. Explained'
  <2> SUFFICES ASSUME NEW y \in Stock' PROVE Explains(y)'
    BY DEF Explained
  <2>1. Explains(y)
    BY <1>5 DEF SubtitleInv, Explained
  <2> QED BY <1>3, <2>1 DEF Explains
<1>7. Accounted'
  <2>1. CASE \E u \in Preparer : prep[u].pc # "idle"
    BY <1>2, <2>1 DEF Accounted
  <2>2. CASE \A u \in Preparer : prep[u].pc = "idle"
    <3>1. due \/ Stored!Sum(Stock) <= Maximum \/ \A x, y \in Stock : x = y
      BY <2>2 DEF SubtitleInv, Accounted, Covers
    <3> QED BY <1>2, <1>5, <3>1 DEF Accounted
  <2> QED BY <2>1, <2>2
<1>8. ASSUME NEW u \in Preparer PROVE Planned(prep[u])' /\ Sure(u, prep[u])'
  <2>1. Planned(prep[u])'
    BY <1>1, <1>5, PlannedNext
  <2>2. Sure(u, prep[u])'
    BY <1>1, <1>5 DEF Sure
  <2> QED BY <2>1, <2>2
<1> QED BY <1>4, <1>6, <1>7, <1>8 DEF SubtitleInv

\* Files of an earlier version, each once.
LEMMA OldListing ==
    ASSUME NEW old \in SUBSET Web, cache \in [1..C!Cardinality(old) -> [name : old, content : {"old"}]],
           C!Files(cache) = old
    PROVE  Listing(cache) /\ \A x \in Stock : x.content = "old" /\ x.name \in Web
<1>1. IsFiniteSet(old)
  BY SubtitleAssumption, FS_Subset
<1>2. PICK n \in Nat : n = Cardinality(old) /\ n = C!Cardinality(old)
  BY <1>1, FS_CardinalityType DEF C!Cardinality, Cardinality
<1>3. cache \in [1..n -> [name : old, content : {"old"}]] /\ Len(cache) = n
  BY <1>2
<1>4. \A i \in 1..n : cache[i] \in Cached /\ cache[i].name \in old /\ cache[i].content = "old"
  BY <1>3, SubtitleAssumption DEF Cached
<1>5. PICK g : g = [i \in 1..n |-> cache[i].name]
  OBVIOUS
<1>6. g \in Surjection(1..n, old)
  <2>1. g \in [1..n -> old]
    BY <1>4, <1>5
  <2>2. \A f \in old : \E i \in 1..n : g[i] = f
    BY <1>3, <1>5 DEF C!Files
  <2> QED BY <2>1, <2>2 DEF Surjection
<1>7. g \in Injection(1..n, old)
  <2>1. IsFiniteSet(1..n) /\ Cardinality(1..n) = n
    BY FS_Interval
  <2> QED BY <1>2, <1>6, <2>1, FS_Surjection
<1>8. \A i, j \in 1..n : cache[i].name = cache[j].name => i = j
  <2>1. \A i \in 1..n : g[i] = cache[i].name
    BY <1>5
  <2>2. \A i, j \in 1..n : g[i] = g[j] => i = j
    BY <1>7 DEF Injection, IsInjective
  <2> QED BY <2>1, <2>2
<1>9. cache \in Seq(Cached)
  <2>1. cache \in [1..n -> Cached]
    BY <1>3, <1>4
  <2> HIDE <1>3
  <2> QED BY <1>2, <2>1
<1> QED BY <1>3, <1>4, <1>8, <1>9 DEF Listing, Stock, InDir

LEMMA SubtitlesInitially == ASSUME C!SubtitleInit PROVE SubtitleInv
<1>1. PICK old \in SUBSET Web :
          /\ rows = old /\ C!Files(cache) = old
          /\ cache \in [1..C!Cardinality(old) -> [name : old, content : {"old"}]]
          /\ due = (C!Total(cache) > Maximum)
  BY DEF C!SubtitleInit
<1>2. Listing(cache) /\ \A x \in Stock : x.content = "old" /\ x.name \in Web
  BY <1>1, OldListing
<1>3. prep = [u \in Preparer |-> C!NoPrep] /\ cut = {}
  BY DEF C!SubtitleInit
<1>4. SubtitleTyped
  BY <1>1, <1>2, <1>3, NoPrepFits, SubtitleAssumption DEF SubtitleTyped
<1>5. Explained
  BY <1>2 DEF Explained, Explains
<1>6. Accounted
  <2>1. PICK s \in Nat : s = Stored!Sum(Stock) /\ s = C!Total(cache)
    BY <1>2, StockFacts, BytesLess, TotalBytes DEF Stock
  <2>2. due \/ s <= Maximum
    <3>1. due = (s > Maximum)
      BY <1>1, <2>1
    <3>2. s <= Maximum \/ s > Maximum
      BY <2>1, SubtitleAssumption
    <3> QED BY <3>1, <3>2
  <2> QED BY <2>1, <2>2 DEF Accounted
<1>7. \A u \in Preparer : Planned(prep[u]) /\ Sure(u, prep[u])
  BY <1>3, NoPrepFits
<1> QED BY <1>4, <1>5, <1>6, <1>7 DEF SubtitleInv

LEMMA SubtitlesStay == ASSUME SubtitleInv, C!SubtitleNext PROVE SubtitleInv'
<1>1. CASE C!Die
  BY <1>1, DieKeeps
<1>2. ASSUME NEW u \in Preparer, C!LookUp(u) \/ C!ReadStamp(u) \/ C!FetchFails(u) \/ C!Return(u)
      PROVE  SubtitleInv'
  BY <1>2, LookUpKeeps, ReadStampKeeps, LeaveKeeps
<1>3. ASSUME NEW u \in Preparer, C!Restamp(u) \/ C!WriteAsset(u) PROVE SubtitleInv'
  BY <1>3, WriteKeeps
<1>4. ASSUME NEW u \in Preparer, C!ListFiles(u) \/ C!PruneOne(u) \/ C!SaveAsset(u) PROVE SubtitleInv'
  BY <1>4, DirListKeeps, PruneOneKeeps, SaveAssetKeeps
<1> QED BY <1>1, <1>2, <1>3, <1>4 DEF C!SubtitleNext

LEMMA SubtitlesAtRest == ASSUME SubtitleInv, UNCHANGED subtitlesAll PROVE SubtitleInv'
<1>1. UNCHANGED <<cache, rows, prep, due, cut>>
  BY DEF subtitlesAll
<1>2. Stock' = Stock
  BY <1>1 DEF Stock, InDir
<1>3. SubtitleTyped' /\ Explained'
  BY <1>1, <1>2 DEF SubtitleInv, SubtitleTyped, Listing, Explained, Explains
<1>4. Accounted'
  BY <1>1, <1>2 DEF SubtitleInv, Accounted, Covers, InDir
<1>5. ASSUME NEW u \in Preparer PROVE Planned(prep[u])' /\ Sure(u, prep[u])'
  <2>1. Planned(prep[u]) /\ Sure(u, prep[u]) /\ prep'[u] = prep[u]
    BY <1>1 DEF SubtitleInv
  <2>2. Planned(prep[u])'
    BY <2>1, PlannedNext
  <2>3. Sure(u, prep[u])'
    BY <1>1, <1>2, <2>1 DEF Sure, C!BeingWritten
  <2> QED BY <2>2, <2>3
<1> QED BY <1>3, <1>4, <1>5 DEF SubtitleInv

LEMMA SubtitleInductive == Init /\ [][Next]_vars => []SubtitleInv
<1>1. Init => SubtitleInv
  BY SubtitlesInitially DEF Init
<1>2. ASSUME SubtitleInv, [Next]_vars PROVE SubtitleInv'
  <2>1. CASE C!SubtitleNext
    BY <1>2, <2>1, SubtitlesStay
  <2>2. CASE UNCHANGED subtitlesAll
    BY <1>2, <2>2, SubtitlesAtRest
  <2> QED BY <1>2, <2>1, <2>2 DEF Next, Only, vars
<1> QED BY <1>1, <1>2, PTL

\* What is kept follows.
LEMMA KeptFollows == ASSUME SubtitleInv PROVE SubtitlesKept
<1>1. /\ Listing(cache) /\ Stock \in SUBSET Cached
      /\ \A x, y \in Stock : x.name = y.name => x = y
  BY StockFacts DEF SubtitleInv, SubtitleTyped
<1>2. ASSUME \A u \in Preparer : prep[u].pc = "idle", ~due
      PROVE  C!Total(cache) <= Maximum \/ Len(cache) = 1
  <2>1. Stored!Sum(Stock) <= Maximum \/ \A x, y \in Stock : x = y
    BY <1>2 DEF SubtitleInv, Accounted, Covers
  <2>2. C!Total(cache) = Stored!Sum(Stock)
    BY TotalBytes DEF Stock
  <2>3. CASE \A x, y \in Stock : x = y
    <3>1. PICK n \in Nat : n = Len(cache)
      BY <1>1 DEF Listing
    <3>2. \A i, j \in 1..n : i = j
      <4>1. \A i \in 1..n : cache[i] \in Stock
        BY <3>1 DEF Stock, InDir
      <4>2. \A i, j \in 1..n : cache[i].name = cache[j].name => i = j
        BY <1>1, <3>1 DEF Listing
      <4>3. ASSUME NEW i \in 1..n, NEW j \in 1..n PROVE i = j
        <5>1. cache[i] = cache[j]
          BY <2>3, <4>1
        <5> QED BY <4>2, <5>1
      <4> QED BY <4>3
    <3>3. n = 0 \/ n = 1
      <4>1. CASE n > 1
        <5>1. 1 \in 1..n /\ 2 \in 1..n
          BY <4>1
        <5> QED BY <3>2, <5>1
      <4> QED BY <4>1
    <3>4. CASE n = 0
      <4>1. Stock = {}
        BY <3>1, <3>4 DEF Stock, InDir
      <4> QED BY <2>2, <4>1, NoStoredBytes, SubtitleAssumption
    <3> QED BY <3>1, <3>3, <3>4
  <2> QED BY <2>1, <2>2, <2>3
<1>3. ASSUME NEW u \in Preparer, prep[u].pc = "served", ~prep[u].disturbed, prep[u].asset \notin cut
      PROVE  C!Content(prep[u].asset) = {"whole"}
  <2>1. PICK x \in Stock : x.name = prep[u].asset /\ x.content = "whole"
    BY <1>3 DEF SubtitleInv, Sure
  <2>2. PICK i \in 1..Len(cache) : cache[i] = x
    BY DEF Stock, InDir
  <2>3. \A j \in 1..Len(cache) : cache[j].name = prep[u].asset => j = i
    BY <1>1, <2>1, <2>2 DEF Listing
  <2> QED BY <2>1, <2>2, <2>3 DEF C!Content
<1> QED BY <1>2, <1>3 DEF SubtitlesKept, C!CacheBounded, C!ServedWhole

\* The cache of prepared subtitles is within its limit whenever no call runs, but for
\* one file that exceeds it alone, and what a call returns that nobody disturbed is
\* whole (application/subtitles.go), for any files and sizes, any limit and any
\* number of calls that prune each other's files.
THEOREM SubtitlesAreKept == Spec => []SubtitlesKept
<1>1. SubtitleInv => SubtitlesKept
  BY KeptFollows
<1> QED BY <1>1, SubtitleInductive, SpecSteps, PTL
---------------------------------------------------------------------------
(* The types of every component.                                           *)

\* The feed, the hub and the manager keep their invariants here as in their own modules.
LEMMA FeedSteps == [Next]_vars => [FeedNext]_feedVars
  BY DEF Next, Only, vars

LEMMA PortalSteps == [Next]_vars => [PortalNext]_portalVars
  BY DEF Next, Only, vars

LEMMA ManagerSteps == [Next]_vars => [ManagerNext]_managerVars
  BY DEF Next, Only, vars

LEMMA FeedTyping == Init /\ [][Next]_vars => []FeedTypeOK
<1>1. Init => BoundsInv
  BY BoundsInitially DEF Init
<1>2. BoundsInv /\ [Next]_vars => BoundsInv'
  BY FeedSteps, BoundsKept
<1> QED BY <1>1, <1>2, FeedTypes, PTL

LEMMA PortalTyping == Init /\ [][Next]_vars => []PortalTypeOK
<1>1. Init => PortalInv
  BY PortalInitially DEF Init
<1>2. PortalInv /\ [Next]_vars => PortalInv'
  BY PortalSteps, PortalKept
<1> QED BY <1>1, <1>2, PortalTypes, PTL

LEMMA ManagerTyping == Init /\ [][Next]_vars => []ManagerTypeOK
<1>1. Init => ManagerInv
  BY ManagerInitially DEF Init
<1>2. ManagerInv /\ [Next]_vars => ManagerInv'
  BY ManagerSteps, ManagerKept
<1> QED BY <1>1, <1>2, ManagerTypes, PTL

LEMMA EngineTypes == EngineInv /\ MarksInv => N!EngineTypeOK
  BY DEF EngineInv, MarksInv, EngineTyped, N!EngineTypeOK, Library, Maps, Kept, Request

LEMMA RangeTypes == RangeInv => R!RangeTypeOK
  BY DEF RangeInv, R!RangeTypeOK, Answer

\* A selection is one asset or none.
LEMMA StagingTypes == ASSUME StagingInv PROVE G!StagingTypeOK
<1>1. sel = {} \/ \E n : sel = {n}
  BY AssetOnce DEF StagingInv, SelFits
<1>2. Cardinality(sel) <= 1
  <2>1. CASE sel = {}
    <3>1. Cardinality({}) = 0
      BY FS_EmptySet
    <3> QED BY <2>1, <3>1
  <2>2. ASSUME NEW n, sel = {n} PROVE Cardinality(sel) <= 1
    <3>1. Cardinality({n}) = 1
      BY FS_Singleton
    <3> QED BY <2>2, <3>1
  <2> QED BY <1>1, <2>1, <2>2
<1> QED BY <1>2, CardinalityThere DEF StagingInv, StagingTyped, Rules, TreeMember, StagerPC, G!StagingTypeOK

\* The mutex of the qBittorrent engine belongs to a call or to nobody.
LockTyped == lock \in User \cup {Q!Nobody}

\* Whatever a request comes to, the mutex stays with whom it was or is given back.
LEMMA LockMoves ==
    ASSUME NEW u \in User,
           \/ Q!BeginAdd(u) \/ Q!Post(u) \/ Q!Confirm(u) \/ Q!Remove(u) \/ Q!SetPaused(u)
           \/ Q!BeginPrepare(u) \/ Q!Prepare(u)
    PROVE  lock' \in {lock, u, Q!Nobody}
<1>1. Q!Ends(u) => lock' \in {lock, Q!Nobody}
  BY DEF Q!Ends
<1>2. Q!Fails(u) => lock' \in {lock, Q!Nobody}
  BY <1>1 DEF Q!Fails
<1>3. Q!BeginAdd(u) \/ Q!BeginPrepare(u) => lock' \in {lock, u}
  BY DEF Q!BeginAdd, Q!BeginPrepare
<1>4. Q!Post(u) \/ Q!Confirm(u) \/ Q!Remove(u) \/ Q!SetPaused(u) => lock' \in {lock, Q!Nobody}
  BY <1>1, <1>2 DEF Q!Post, Q!Command, Q!Confirm, Q!Remove, Q!Gone, Q!SetPaused
<1>5. Q!ListFiles(u) \/ Q!ReadFlags(u) \/ Q!Verify(u) \/ Q!Return(u) => lock' \in {lock, Q!Nobody}
  BY <1>1, <1>2 DEF Q!ListFiles, Q!ReadFlags, Q!Verify, Q!Return
<1>6. Q!Deselect(u) \/ Q!Toggle(u) => lock' \in {lock, Q!Nobody}
  BY <1>1, <1>2 DEF Q!Deselect, Q!Toggle, Q!Command
<1>7. Q!Select(u) => lock' \in {lock, Q!Nobody}
  BY <1>1, <1>2 DEF Q!Select, Q!Command
<1> QED BY <1>3, <1>4, <1>5, <1>6, <1>7 DEF Q!Prepare

LEMMA LockKept == ASSUME LockTyped, [Next]_vars PROVE LockTyped'
<1>1. CASE UNCHANGED qbittorrentAll
  BY <1>1 DEF LockTyped, qbittorrentAll
<1>2. ASSUME NEW u \in User, lock' \in {lock, u, Q!Nobody} PROVE LockTyped'
  BY <1>2 DEF LockTyped
<1>3. CASE Q!Restart \/ Q!Vanish
  BY <1>3 DEF Q!Restart, Q!Vanish, Q!Gone, LockTyped
<1> QED BY <1>1, <1>2, <1>3, QBSteps, LockMoves DEF Q!QBNext

LEMMA QBTypes == ASSUME QBTyped, LockTyped PROVE Q!QBTypeOK
  BY DEF QBTyped, LockTyped, Torrent, Work, Preparing, Q!QBTypeOK

\* A listing has as many names as files.
LEMMA NamesCount == ASSUME NEW dir, Listing(dir) PROVE C!Cardinality(C!Files(dir)) = Len(dir)
<1> DEFINE named == [i \in 1..Len(dir) |-> dir[i].name]
<1>1. Len(dir) \in Nat
  BY DEF Listing
<1>2. C!Files(dir) = {dir[i].name : i \in 1..Len(dir)}
  BY DEF C!Files
<1>3. named \in Bijection(1..Len(dir), C!Files(dir))
  BY <1>2 DEF Listing, Bijection, Injection, Surjection, IsInjective
<1>4. ExistsBijection(1..Len(dir), C!Files(dir))
  BY <1>3 DEF ExistsBijection
<1>5. Cardinality(C!Files(dir)) = Len(dir)
  BY <1>1, <1>4, FS_CountingElements
<1> QED BY <1>5 DEF C!Cardinality, Cardinality

LEMMA SubtitleTypes == ASSUME SubtitleInv PROVE C!SubtitleTypeOK
<1>1. Listing(cache)
  BY DEF SubtitleInv, SubtitleTyped
<1>2. C!Files(cache) \subseteq Subtitle
  BY <1>1, ListingEntries DEF Cached
<1>3. \A u \in Preparer : prep[u] \in PrepRec
  BY DEF SubtitleInv, SubtitleTyped
<1> QED BY <1>1, <1>2, <1>3, NamesCount DEF SubtitleInv, SubtitleTyped, PrepRec, PrepPC, C!SubtitleTypeOK

\* Every component keeps its types, for every value of the constants: the positions of
\* its calls are those of its code, its records have their fields, and its counters stay
\* within their bounds.
THEOREM PartsTyped == Spec => []TypeOK
<1> DEFINE Others == /\ part = "feed" => FeedTypeOK
                     /\ part = "portal" => PortalTypeOK
                     /\ part = "manager" => ManagerTypeOK
                     /\ part = "engine" => N!EngineTypeOK
                     /\ part = "range" => R!RangeTypeOK
                     /\ part = "staging" => G!StagingTypeOK
                     /\ part = "qbittorrent" => Q!QBTypeOK
                     /\ part = "subtitles" => C!SubtitleTypeOK
<1>1. Init => LockTyped /\ StagingInv
  BY StagingInitInv DEF Init, Q!QBInit, LockTyped
<1>2. LockTyped /\ [Next]_vars => LockTyped'
  BY LockKept
<1>3. StagingInv /\ [Next]_vars => StagingInv'
  BY StagingInductive
<1>4. QBInv /\ LockTyped => Q!QBTypeOK
  BY QBTypes DEF QBInv
<1>5. StagingInv => G!StagingTypeOK
  BY StagingTypes
<1>6. SubtitleInv => C!SubtitleTypeOK
  BY SubtitleTypes
<1>7. /\ FeedTypeOK /\ PortalTypeOK /\ ManagerTypeOK /\ N!EngineTypeOK /\ R!RangeTypeOK /\ G!StagingTypeOK
      /\ Q!QBTypeOK /\ C!SubtitleTypeOK
      => Others
  OBVIOUS
<1>8. Others /\ (part = "desktop" => D!DesktopTypeOK) /\ (part = "settings" => S!SettingsTypeOK) => TypeOK
  BY DEF TypeOK
<1> HIDE DEF Others
<1> QED BY <1>1, <1>2, <1>3, <1>4, <1>5, <1>6, <1>7, <1>8, FeedTyping, PortalTyping, ManagerTyping,
           EngineTypes, EngineInductive, RangeTypes, RangeInductive, QBInductive, SubtitleInductive,
           DesktopTypes, SettingsTypes, SpecSteps, PTL
=============================================================================
