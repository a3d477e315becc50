---------------------------- MODULE ReleaseStaging ----------------------------
(***************************************************************************)
(* From an announced version to a verified payload: Resolve matches the    *)
(* announcement against the repository's release and its checksum          *)
(* manifest, StageArchive streams the asset to disk, Extract unpacks it    *)
(* member by member under the archive rules and verifies the executable.   *)
(*                                                                         *)
(* Versions are numbers with a flag for a prerelease.  A location is       *)
(* "here" (the exact path of the fixed repository over HTTPS) or not.      *)
(* Bytes are known by their digest: the digest of a release's asset is the *)
(* asset's name and tag.  The content of an archive is drawn when it is    *)
(* read.  Left out: the wording of the errors, all of which end the apply. *)
(***************************************************************************)
EXTENDS Naturals, FiniteSetsExt

CONSTANTS
    Identity,     \* running builds: [goos, goarch, flavor, valid]
    Version,      \* announced and published versions
    MaxExpanded, MaxEntries  \* Limits, in bytes and members

VARIABLES
    release,   \* the identity served, the announcement, the release it was matched with
    sel,       \* the Selection: none, or the asset with its version
    temp,      \* what the apply keeps in the installation directory
    rules,     \* archiveRules: entries, seen, expanded, bundleName
    tree,      \* the members on disk under the extraction root
    stager,    \* where the apply is
    payload    \* none, or the verified executable

stagingVars == <<release, sel, temp, rules, tree, stager, payload>>

---------------------------------------------------------------------------
(* The release.                                                            *)

\* The matrix: the asset an identity installs, none when the build is manual-only.
HasAsset(i) ==
    \/ i.goos = "linux" /\ i.flavor = "headless"
    \/ i.goos = "darwin" /\ i.flavor = "bundle"
    \/ i.flavor = "gui" /\ i.goarch # "arm"

AssetName(i, v) ==
    {n \in {[os |-> i.goos, arch |-> IF i.flavor = "bundle" THEN "universal" ELSE i.goarch,
            headless |-> i.flavor = "headless" /\ i.goarch # "arm", v |-> v,
            format |-> IF i.goos = "windows" \/ i.flavor = "bundle" THEN "zip" ELSE "tar"]} : HasAsset(i)}

\* exactAsset: published once, absent, or published several times.
Published == {"once", "absent", "twice"}
Place == {"here", "elsewhere"}

\* LatestRelease: its tag and flags, and how it publishes the asset and the manifest;
\* a release that cannot be fetched counts as a draft.
Release == [tag : Version, draft : BOOLEAN, prerelease : BOOLEAN, page : Place,
            asset : Published, assetAt : Place, manifest : Published, manifestAt : Place]

\* SHA256SUMS for one asset: its line is right, missing, twice there, or the
\* manifest holds a line that does not parse; one that cannot be fetched counts
\* as malformed.
Manifest == {"listed", "missing", "duplicate", "malformed"}

\* Every check of Resolve before the manifest is fetched.
Matches(hint, r) ==
    /\ ~r.draft /\ ~r.prerelease
    /\ r.tag = hint /\ ~hint.pre
    /\ r.page = "here"

ManifestDigest(m, name) == IF m = "listed" THEN {name} ELSE {}

Chosen(i, r, m) ==
    {n \in AssetName(i, r.tag) :
        /\ r.asset = "once" /\ r.assetAt = "here"
        /\ r.manifest = "once" /\ r.manifestAt = "here"
        /\ ManifestDigest(m, n) # {}}

NoRules == [entries |-> 0, seen |-> {}, expanded |-> 0, bundle |-> "none"]

StagingInit ==
    /\ stager = "idle" /\ temp = {} /\ tree = {} /\ rules = NoRules
    /\ release \in [id : Identity, hint : Version]
    /\ sel = {} /\ payload = {}

\* Resolve: the release is the one the hint names and everything about it is
\* in the repository, or there is no selection.
Resolve ==
    /\ stager = "idle"
    /\ \E r \in Release, m \in Manifest :
          /\ sel' = IF release.id.valid /\ Matches(release.hint, r) THEN Chosen(release.id, r, m) ELSE {}
          /\ stager' = IF sel' = {} THEN "failed" ELSE "resolved"
    /\ UNCHANGED <<release, temp, rules, tree, payload>>

Asset == CHOOSE n \in sel : TRUE

---------------------------------------------------------------------------
(* Staging and extraction.                                                 *)

\* StageArchive: a unique partial file, streamed under the compressed bound.
CreatePart ==
    /\ stager = "resolved"
    /\ \/ stager' = "streaming" /\ temp' = temp \cup {"part"}
       \/ stager' = "failed" /\ UNCHANGED temp
    /\ UNCHANGED <<release, sel, rules, tree, payload>>

\* The digest of what landed on disk decides; every failure removes the file.
FinishPart ==
    /\ stager = "streaming"
    /\ \E digest \in {sel, {}}, broken \in BOOLEAN :
          IF digest = sel /\ ~broken THEN stager' = "staged" /\ UNCHANGED temp
          ELSE stager' = "failed" /\ temp' = temp \ {"part"}
    /\ UNCHANGED <<release, sel, rules, tree, payload>>

CreateDir ==
    /\ stager = "staged"
    /\ \/ stager' = "extracting" /\ temp' = temp \cup {"dir"} /\ rules' = NoRules
       \/ stager' = "failed" /\ UNCHANGED <<temp, rules>>
    /\ UNCHANGED <<release, sel, tree, payload>>

\* Where a member lies: in the bundle (or the directory, without a bundle), in the
\* directory beside the bundle, or beyond the directory; and how many links were
\* followed to get there, more than two counted as two.
Way == [to : {"home", "dir", "beyond"}, hops : 0..2]
Straight == [to |-> "home", hops |-> 0]

\* extractInto failed: the directory goes with everything in it, the archive stays.
Discard ==
    /\ stager' = "failed" /\ temp' = temp \ {"dir"}
    /\ tree' = {x \in tree : x.at.to = "beyond"}
    /\ UNCHANGED <<release, sel, rules, payload>>

\* A member: its root element, its name under it, its kind, the size its header
\* declares and the bytes it delivers, and where the path of a link leads by its text.
Names == {[root |-> "A.app", leaf |-> "plist"], [root |-> "A.app", leaf |-> "exe"],
          [root |-> "A.app", leaf |-> "readme"], [root |-> "B.app", leaf |-> "exe"], [root |-> "plain", leaf |-> "exe"],
          [root |-> "plain", leaf |-> "readme"], [root |-> ".", leaf |-> "."],
          [root |-> "illegal", leaf |-> "name"]}
Member == [name : Names, kind : {"file", "dir", "link", "odd"}, size : 0..MaxExpanded,
           given : 0..MaxExpanded, target : {"inside", "outside"}]

IsBundle(n) == n.root \in {"A.app", "B.app"}
ForBundle == release.id.flavor = "bundle"

\* markBundle: everything inside one .app for a bundle, none of it otherwise.
MarkBundle(n) ==
    IF ForBundle THEN IsBundle(n) /\ rules.bundle \in {"none", n.root} ELSE ~IsBundle(n)

\* memberPath: counts the entry, then rejects it by its name or as a duplicate.
MemberPath(n) ==
    /\ rules.entries + 1 <= MaxEntries
    /\ n.root # "illegal"
    /\ n.root # "." => n \notin rules.seen /\ MarkBundle(n)

\* Mutant of AccountSize: each member is bounded, not their sum.
AccountOneSize(m) == m.size <= MaxExpanded

AccountSize(m) == rules.expanded + m.size <= MaxExpanded

\* By the text of the name and of the target alone.
CheckLinkTarget(m) == ForBundle /\ IsBundle(m.name) /\ m.target = "inside"

\* writeFileVerified: the limit reader cuts a longer member off at its declared
\* size, before the end where a zip entry's checksum would be compared.
WriteFileVerified(m) == m.given >= m.size

Accepts(m) ==
    /\ MemberPath(m.name)
    /\ IF m.name.root = "." THEN Asset.format = "tar"   \* zip would make the directory ""
       ELSE CASE m.kind = "file" -> AccountSize(m) /\ WriteFileVerified(m)
              [] m.kind = "dir" -> TRUE
              [] m.kind = "link" -> CheckLinkTarget(m)
              [] OTHER -> FALSE

\* The links unpacked so far, which a later name or target may pass through.
Ways == {Straight} \cup {x.lead : x \in {y \in tree : y.kind = "link"}}

\* Where a link in a directory reached one way really leads, its target going another:
\* where its text says, unless an earlier link is on the way.
Leads(m, at, on) ==
    IF m.kind # "link" THEN {Straight}
    ELSE IF at.hops + on.hops > 0 THEN {[to |-> p, hops |-> 2] : p \in {"home", "dir", "beyond"}}
    ELSE {[to |-> IF m.target = "inside" THEN "home" ELSE "beyond", hops |-> 1]}

\* A member is written through the links its name passes.
ExtractMember ==
    /\ stager = "extracting"
    /\ \E m \in Member :
          \/ /\ Accepts(m)
             /\ rules' = [entries |-> rules.entries + 1,
                          seen |-> IF m.name.root = "." THEN rules.seen ELSE rules.seen \cup {m.name},
                          expanded |-> rules.expanded + (IF m.kind = "file" /\ m.name.root # "." THEN m.size ELSE 0),
                          bundle |-> IF IsBundle(m.name) THEN m.name.root ELSE rules.bundle]
             /\ \E at \in Ways, on \in Ways : \E lead \in Leads(m, at, on) :
                   tree' = IF m.name.root = "." THEN tree
                           ELSE tree \cup {[name |-> m.name, kind |-> m.kind, at |-> at, lead |-> lead,
                                            size |-> IF m.kind = "file" THEN m.size ELSE 0]}
             /\ UNCHANGED <<release, sel, temp, stager, payload>>
          \/ ~Accepts(m) /\ Discard

\* The archive ends cleanly, or it is cut or cannot be read.
EndOfArchive ==
    /\ stager = "extracting"
    /\ \/ stager' = "verifying" /\ UNCHANGED <<release, sel, temp, rules, tree, payload>>
       \/ Discard

---------------------------------------------------------------------------
(* The payload.                                                            *)

\* What an executable's headers and build information say.
Binary == [os : {"linux", "windows", "darwin"}, machines : (SUBSET {"amd64", "arm64", "arm"}) \ {{}},
           arch : {"amd64", "arm64", "arm"}, goarm7 : BOOLEAN, headless : BOOLEAN, versions : {{}} \cup {{v} : v \in Version}]

\* A universal binary has several slices and exists for the bundle only.
CheckHeaderMachine(b, i) == i.goarch \in b.machines /\ (Cardinality(b.machines) > 1 => i.flavor = "bundle")
UniversalBundle(b, i) == i.flavor = "bundle" /\ Cardinality(b.machines) > 1

VerifyExecutable(b, i) ==
    /\ b.os = i.goos
    /\ CheckHeaderMachine(b, i)
    /\ b.arch = i.goarch \/ UniversalBundle(b, i)
    /\ i.goos = "linux" /\ i.goarch = "arm" => b.goarm7
    /\ b.headless => i.flavor = "headless"
    /\ b.versions \subseteq {Asset.v}   \* -trimpath builds record none

\* The regular file the payload runs, in the one .app directory or at the root.
FindBundleDir == {n.name.root : n \in {x \in tree : IsBundle(x.name)}}
Executables == {x \in tree : x.kind = "file" /\ x.name.leaf = "exe"}

\* Info.plist: the identifier, and both versions those of the release.
VerifyBundle(plist) ==
    /\ Cardinality(FindBundleDir) = 1
    /\ \E x \in tree : x.name.leaf = "plist" /\ x.kind = "file"
    /\ plist = Asset.v

\* Some payload never passes, whatever the build.
VerifyPayload ==
    /\ stager = "verifying"
    /\ \/ \E b \in Binary, plist \in Version, signed \in BOOLEAN :
             /\ ForBundle => VerifyBundle(plist) /\ signed
             /\ Executables # {}
             /\ VerifyExecutable(b, release.id)
             /\ stager' = "verified" /\ payload' = {b} /\ UNCHANGED <<release, sel, temp, rules, tree>>
       \/ Discard

StagingNext ==
    \/ Resolve \/ CreatePart \/ FinishPart \/ CreateDir
    \/ ExtractMember \/ EndOfArchive \/ VerifyPayload

StagingSpec == StagingInit /\ [][StagingNext]_stagingVars

---------------------------------------------------------------------------
StagingTypeOK ==
    /\ release \in [id : Identity, hint : Version] /\ temp \subseteq {"part", "dir"}
    /\ rules \in [entries : 0..MaxEntries, seen : SUBSET Names, expanded : 0..MaxExpanded,
                  bundle : {"none", "A.app", "B.app"}]
    /\ tree \subseteq [name : Names, kind : {"file", "dir", "link"}, size : 0..MaxExpanded,
                       at : Way, lead : Way]
    /\ payload \subseteq Binary /\ Cardinality(sel) <= 1
    /\ stager \in {"idle", "resolved", "streaming", "staged", "extracting", "verifying", "verified", "failed"}

\* A verified payload is one release for one installation: the announced stable
\* version and the digest the manifest lists for its asset, at most MaxEntries
\* members within MaxExpanded bytes in all, every name once, inside one bundle or
\* none, and an executable that runs here.  A member lies outside its bundle, and is
\* left behind by an apply that fails, only if it was written through a link that an
\* earlier link led astray.
PayloadWhole ==
    /\ stager = "verified" =>
          LET i == release.id IN
          /\ sel = AssetName(i, release.hint) /\ ~release.hint.pre
          /\ Cardinality({x.name : x \in tree}) = Cardinality(tree) /\ Cardinality(tree) <= MaxEntries
          /\ MapThenSumSet(LAMBDA x : x.size, tree) <= MaxExpanded
          /\ Cardinality({x.name.root : x \in tree}) = 1 \/ ~ForBundle
          /\ \A b \in payload : i.goarch \in b.machines /\ b.os = i.goos
                               /\ (b.headless => i.flavor = "headless")
    /\ stager = "failed" => "dir" \notin temp /\ \A x \in tree : x.at.to = "beyond"
    /\ \A x \in tree : x.at.to # "home" => x.at.hops > 1
=============================================================================
