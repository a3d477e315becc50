---------------------------- MODULE SettingsStore ----------------------------
(***************************************************************************)
(* The settings stores: the file they share, the layers each builds from   *)
(* it when it is loaded (what the file says, what the environment          *)
(* overrides, what is effective), the clients that read the redacted       *)
(* settings and send the whole document back, and the saves the server     *)
(* makes of its own.  The desktop process has two stores on one file, the  *)
(* window's and that of the server it supervises, and a headless server    *)
(* takes no lock: a store never reads again what another one wrote.        *)
(*                                                                         *)
(* Three keys stand for the fields: a required secret, a path and a plain  *)
(* field.  The environment is fixed while a store lives and may differ at  *)
(* the next load.  Left out: the other bounds validate checks, and the     *)
(* terminal dialogue of the prompts.                                       *)
(***************************************************************************)
EXTENDS Naturals

CONSTANTS
    Store,     \* config.Store objects that share the file
    Client,    \* settings pages
    Environment,  \* bound: the sets of keys the environment of a process may set
    MaxSaves   \* bound on the saves of a behaviour

VARIABLES
    file,     \* the settings file: a document, or NoFile
    tmp,      \* the one temporary file next to it, or NoFile
    env,      \* per store: the keys the environment of its process sets
    stores,   \* per store: the layers, which required keys the file gave, a save under way
    view,     \* per client: the document it was served
    saves,    \* bound: the saves so far
    current   \* history: the stores loaded, or saved, since another one saved

settingsVars == <<file, tmp, env, stores, view, saves, current>>

Key == {"secret", "path", "plain"}
Value == {"blank", "default", "rel", "abs", "mine", "env", "bad"}
Doc == [Key -> Value]
NoFile == [k \in Key |-> "none"]
Defaults == [secret |-> "blank", path |-> "rel", plain |-> "default"]

\* applyEnvironment: a managed key takes the environment's value.
Overlay(doc, managed) == [k \in Key |-> IF k \in managed THEN "env" ELSE doc[k]]

\* anchorNativePaths: a relative path that is not managed is pinned to the directory.
Anchor(doc) == [doc EXCEPT !.path = IF @ = "rel" THEN "abs" ELSE @]

\* restoreManagedFields: what the environment manages keeps the file's value.
Restore(doc, base, managed) == [k \in Key |-> IF k \in managed THEN base[k] ELSE doc[k]]

\* mergeSecrets: a blank secret keeps the one in effect.
Merge(next, old) == [next EXCEPT !.secret = IF @ = "blank" THEN old.secret ELSE @]

Valid(doc) == \A k \in Key : doc[k] # "bad"

\* The layers LoadAt builds.
Base(f) == IF f = NoFile THEN Defaults ELSE f
Loaded(f, managed) ==
    [base |-> Base(f), value |-> Anchor(Overlay(Base(f), managed)),
     provided |-> f # NoFile, pc |-> "ready", next |-> Base(f)]

\* MissingRequired, for the secret: blank, or given by neither file nor environment.
Missing(s, managed) == s.value.secret = "blank" \/ ~(s.provided \/ "secret" \in managed)

SettingsInit ==
    /\ file \in {NoFile, Defaults, [Defaults EXCEPT !.secret = "mine"]}
    /\ env \in [Store -> Environment]
    /\ tmp = NoFile
    /\ stores = [s \in Store |-> Loaded(file, env[s])]
    /\ view = [c \in Client |-> Defaults]
    /\ saves = 0 /\ current = Store

\* LoadAt: the next process, after one that ended at any point and with its own
\* environment; or a start of the supervised server, or a move of the directory.
Load(s) ==
    /\ saves > 0
    /\ \E managed \in Environment :
          /\ env' = [env EXCEPT ![s] = managed]
          /\ stores' = [stores EXCEPT ![s] = Loaded(file, managed)]
    /\ current' = current \cup {s}
    /\ UNCHANGED <<file, tmp, view, saves>>

\* GET settings: the effective values, secrets blanked.
Redacted(doc) == [doc EXCEPT !.secret = "blank"]
GetSettings(c, s) ==
    /\ view' = [view EXCEPT ![c] = Redacted(stores[s].value)]
    /\ UNCHANGED <<file, tmp, env, stores, saves, current>>

\* Mutant of Persisted: the environment's value is merged in after the restore.
PersistedManaged(s, doc) == Merge(Restore(doc, stores[s].base, env[s]), stores[s].value)

\* Save, first half: merge, restore, overlay and validate, then the temporary
\* file.  A document that does not validate is refused and changes nothing.
Persisted(s, doc) == Restore(Merge(doc, stores[s].value), stores[s].base, env[s])

BeginSave(s, doc) ==
    /\ stores[s].pc = "ready"
    /\ saves < MaxSaves
    /\ Valid(Overlay(Persisted(s, doc), env[s]))
    /\ tmp' = Persisted(s, doc)
    /\ stores' = [stores EXCEPT ![s].pc = "written", ![s].next = Persisted(s, doc)]
    /\ saves' = saves + 1
    /\ UNCHANGED <<file, env, view, current>>

\* PUT settings by a client: the document it was served with one field edited.
PutSettings(c, s) ==
    \E edit \in {view[c]} \cup {[view[c] EXCEPT ![k] = v] :
                                   k \in {"secret", "plain"}, v \in {"mine", "bad"}} :
        BeginSave(s, edit)

\* PromptRequired: the effective document with an answer that passed the check.
CheckAnswer(answer) == answer # "blank"
PromptRequired(s) ==
    /\ Missing(stores[s], env[s])
    /\ \E answer \in {"blank", "mine"} :
          CheckAnswer(answer) /\ BeginSave(s, [stores[s].value EXCEPT !.secret = answer])

\* ResolveMediaTools: the effective document with a tool it discovered.
ResolveMediaTools(s) ==
    "plain" \notin env[s] /\ BeginSave(s, [stores[s].value EXCEPT !.plain = "mine"])

\* Mutant of Effective: what was persisted is in effect.
EffectiveOfFile(doc, managed) == doc

\* Save, second half: the rename, then the layers in memory.  The mutex is the
\* store's own, so what is renamed may be the document of another store, whose
\* rename then finds nothing and fails.
Effective(doc, managed) == Overlay(doc, managed)
Writes(s) == stores[s].pc = "written" /\ tmp # NoFile

FinishSave(s) ==
    /\ Writes(s)
    /\ file' = tmp /\ tmp' = NoFile
    /\ stores' = [stores EXCEPT ![s] =
          [base |-> @.next, value |-> Effective(@.next, env[s]),
           provided |-> @.provided \/ @.next.secret # "blank", pc |-> "ready", next |-> @.next]]
    /\ current' = IF tmp = stores[s].next THEN {s} ELSE {}
    /\ UNCHANGED <<env, view, saves>>

FailSave(s) ==
    /\ stores[s].pc = "written" /\ tmp = NoFile
    /\ stores' = [stores EXCEPT ![s].pc = "ready", ![s].next = stores[s].base]
    /\ UNCHANGED <<file, tmp, env, view, saves, current>>

SettingsNext ==
    \/ \E s \in Store : Load(s) \/ PromptRequired(s) \/ ResolveMediaTools(s) \/ FinishSave(s) \/ FailSave(s)
    \/ \E c \in Client, s \in Store : GetSettings(c, s) \/ PutSettings(c, s)

SettingsSpec == SettingsInit /\ [][SettingsNext]_settingsVars

---------------------------------------------------------------------------
SettingsTypeOK ==
    /\ file \in Doc \cup {NoFile} /\ tmp \in Doc \cup {NoFile}
    /\ env \in [Store -> SUBSET Key]
    /\ stores \in [Store -> [base : Doc, value : Doc, provided : BOOLEAN,
                             pc : {"ready", "written"}, next : Doc]]
    /\ view \in [Client -> Doc]
    /\ saves \in 0..MaxSaves /\ current \subseteq Store

\* A store that was loaded, or saved, since any other saved writes back what its
\* environment manages as the file had it, whatever the document it was given showed
\* in its place, and never replaces a secret by the blank a page sends back for it;
\* unless another store wrote the temporary file before it was renamed.
SaveKeeps ==
    [][\A s \in current :
          Writes(s) /\ tmp = stores[s].next /\ file' # file /\ stores'[s] # stores[s] =>
              /\ \A k \in env[s] : Base(file')[k] = Base(file)[k]
              /\ Base(file).secret # "blank" => Base(file').secret # "blank"]_settingsVars

\* A process that started now, with the environment of a store since which no other
\* saved, would run with the settings in effect there and ask for the same keys.  A
\* relative path is anchored at load only.
ReloadSame ==
    \A s \in current : stores[s].pc = "ready" =>
        LET loaded == Loaded(file, env[s]) IN
        /\ \A k \in Key : stores[s].value[k] # "rel" => stores[s].value[k] = loaded.value[k]
        /\ Missing(stores[s], env[s]) <=> Missing(loaded, env[s])
=============================================================================
