------------------------------ MODULE ConfigLoader ------------------------------
(***************************************************************************)
(* The loaders of .shared-auth.toml: the plain one of config.rs and the    *)
(* two of central_config.rs over it, the hardened walk of                  *)
(* config_discovery.rs with the name config.rs gives it (upward), and the  *)
(* one of the authority runtime (shared_auth_config.rs).  Each looks at a  *)
(* path, decides, and opens the path again later; the model takes one step *)
(* per look, and between two of them anybody may rename, rewrite or link   *)
(* the files (Rename, Rewrite, SetGit).                                    *)
(*                                                                         *)
(* Directories are numbered upwards from the canonical start, 1.  A file   *)
(* is an inode; an inode number is not used again during a load.  A link   *)
(* leads to an inode, or to none (0).                                      *)
(***************************************************************************)
EXTENDS ConfigPolicy, FiniteSets

CONSTANTS
  Depth,         \* directories from the start to the root of the file system
  MaxAncestors,  \* MAX_DISCOVERY_ANCESTORS
  Documents,     \* what a configuration file may say
  Layouts,       \* the file systems a load may start in
  Written,       \* bound: what others write to a file during a load
  MaxEdits       \* bound: changes to the file system during a load

Dirs  == 1 .. Depth
Names == {"canonical", "legacy"}  \* .shared-auth.toml, .auth-shared.toml
Other(n) == IF n = "canonical" THEN "legacy" ELSE "canonical"

Api == {"plain", "central", "central_revision", "hardened", "upward", "authority"}
Walking == {"hardened", "upward"}
Call == [api : Api \ {"central_revision"}] \cup [api : {"central_revision"}, revision : Sha]

Kind    == {"none", "file", "link", "directory"}
Node    == [kind : Kind, inode : Nat]
Content == [doc : Documents, big : BOOLEAN]  \* big: over MAX_DISCOVERY_CONFIG_BYTES

(* denied: the places that cannot be inspected (any failure but NotFound). *)
Layout ==
  [entry : [Dirs \X Names -> Node], git : [Dirs -> {"none", "file", "directory"}],
   content : Seq(Content), denied : SUBSET (Dirs \X (Names \cup {".git"}))]

(* The names lead to inodes there are.                                     *)
SoundLayout(l) ==
  /\ l \in Layout
  /\ \A p \in Dirs \X Names :
       /\ l.entry[p].inode \in 0 .. Len(l.content)
       /\ l.entry[p].kind = "file" <=> (l.entry[p].inode # 0 /\ l.entry[p].kind # "link")

ASSUME LoaderAssumption ==
  /\ Depth \in Nat \ {0} /\ MaxAncestors \in Nat \ {0} /\ MaxEdits \in Nat
  /\ Written \subseteq Content
  /\ \A l \in Layouts : SoundLayout(l)

ASSUME DocumentAssumption ==
  \A doc \in Documents \cup {Central} : doc.parses => WellFormed(doc)

VARIABLES
  disk,      \* the file system, a Layout
  edits,     \* bound: changes made so far
  call,      \* the loader that was called, and the revision it was given
  pc,        \* the next step of the load
  dir,       \* the directory the walk is in
  seen,      \* what the walk saw at each name of it
  name,      \* the name it selected
  restat,    \* read_selected: what the second look saw
  handle,    \* what File::open opened
  input,     \* what was read from the handle
  result,    \* what the load returned
  served,    \* what the surface then shows and uses
  regular,   \* history: <<place, inode>> seen as a regular file during the load
  absent     \* history: places where there was nothing at some time of the load

vars == <<disk, edits, call, pc, dir, seen, name, restat, handle, input, result, served,
          regular, absent>>
world == <<disk, edits, regular, absent>>

RegularIn(l) == {<<p, l.entry[p].inode>> : p \in {q \in Dirs \X Names : l.entry[q].kind = "file"}}
AbsentIn(l)  == {p \in Dirs \X Names : l.entry[p].kind = "none"}
                  \cup {p \in Dirs \X {".git"} : l.git[p[1]] = "none"}

Stat    == [kind : Kind, inode : Nat, big : BOOLEAN]  \* what the code keeps of fs::Metadata
Nothing == [kind |-> "none", inode |-> 0, big |-> FALSE]
Pending == [kind |-> "pending"]

Init ==
  /\ disk \in Layouts /\ edits = 0
  /\ call \in Call
  /\ pc = "begin" /\ dir = 1 /\ seen = [n \in Names |-> Nothing]
  /\ name = "canonical" /\ restat = Nothing /\ handle = Nothing
  /\ input = <<>> /\ result = Pending /\ served = {}
  /\ regular = RegularIn(disk) /\ absent = AbsentIn(disk)

-----------------------------------------------------------------------------
(* symlink_metadata, which describes a link, and metadata, which follows   *)
(* it.                                                                     *)
SymlinkMetadata(d, n) ==
  LET node == disk.entry[<<d, n>>] IN
  [kind |-> node.kind, inode |-> node.inode,
   big |-> node.kind = "file" /\ disk.content[node.inode].big]

Metadata(d, n) ==
  LET node == disk.entry[<<d, n>>] IN
  IF node.kind # "link" THEN SymlinkMetadata(d, n)
  ELSE IF node.inode = 0 THEN Nothing
  ELSE [kind |-> "file", inode |-> node.inode, big |-> disk.content[node.inode].big]

Denied(d, n) == <<d, n>> \in disk.denied

(* Mutant: the walk, too, asks is_file.                                    *)
LookForFiles(d, n) ==
  IF Metadata(d, n).kind = "file" /\ ~Denied(d, n) THEN Metadata(d, n) ELSE Nothing

(* What a look at a name tells each loader, Nothing for "not there":       *)
(* symlink_metadata of the walk (metadata_if_present), try_exists of the   *)
(* authority's, is_file of the plain loader and of those over it.          *)
Look(d, n) ==
  CASE call.api \in Walking     -> SymlinkMetadata(d, n)
    [] call.api = "authority"   -> Metadata(d, n)
    [] OTHER -> IF Metadata(d, n).kind = "file" /\ ~Denied(d, n) THEN Metadata(d, n)
                ELSE Nothing

(* A look that fails ends the walk, and the load of the authority; is_file *)
(* says "no" instead.                                                      *)
LookFails(d, n) == Denied(d, n) /\ call.api \in Walking \cup {"authority"}

(* discovery_error_into_config_error, for the walk under its config.rs name. *)
Reported(e) ==
  IF call.api # "upward" THEN e
  ELSE IF e = "Missing" THEN "MissingProjectConfig"
  ELSE IF e \in {"Metadata", "UnsafeConfigLeaf"} THEN "Io"
  ELSE e

Return(r) ==
  /\ pc' = "returned" /\ result' = r
  /\ UNCHANGED <<world, call, dir, seen, name, restat, handle, input, served>>

Refuse(e) == Return([kind |-> "error", error |-> Reported(e)])

(* The errors of a policy, which the walk passes on as they are.           *)
RefusePolicy(e) == Return([kind |-> "invalid", error |-> e])

-----------------------------------------------------------------------------
(* The loaders with central defaults resolve the central policy, and admit *)
(* the revision, before they look at a file.                               *)
CentralError ==
  LET central == IF call.api = "central" THEN CentralPolicy ELSE CentralPolicyFor(call.revision)
  IN  IF call.api \notin {"central", "central_revision"} \/ central.ok THEN "none"
      ELSE central.error

(* The hardened walk refuses a start it cannot make canonical.             *)
Begin ==
  /\ pc = "begin"
  /\ \/ CentralError # "none" /\ RefusePolicy(CentralError)
     \/ call.api \in Walking /\ Refuse("Metadata")
     \/ /\ CentralError = "none" /\ pc' = "canonical"
        /\ UNCHANGED <<world, call, dir, seen, name, restat, handle, input, result, served>>

LookError == IF call.api = "authority" THEN "Io" ELSE "Metadata"

LookAtCanonical ==
  /\ pc = "canonical"
  /\ \/ LookFails(dir, "canonical") /\ Refuse(LookError)
     \/ /\ ~LookFails(dir, "canonical")
        /\ seen' = [seen EXCEPT !["canonical"] = Look(dir, "canonical")]
        /\ pc' = "legacy"
        /\ UNCHANGED <<world, call, dir, name, restat, handle, input, result, served>>

(* validate_leaf, of the metadata discovery has taken.                     *)
UnsafeLeaf(stat) == stat.kind # "file" \/ stat.big

(* Both names there is an error.  Of one, the walk checks what it saw; of  *)
(* none, it goes on to the boundary, and the other loaders end.            *)
Select(found) ==
  LET there == {n \in Names : found[n].kind # "none"} IN
  \/ there = Names /\ Refuse("AmbiguousConfigFiles")
  \/ \E n \in Names :
       /\ there = {n}
       /\ IF call.api \in Walking /\ UnsafeLeaf(found[n])
            THEN Refuse("UnsafeConfigLeaf")
          ELSE /\ name' = n /\ seen' = found
               /\ pc' = IF call.api \in Walking THEN "restat" ELSE "open"
               /\ UNCHANGED <<world, call, dir, restat, handle, input, result, served>>
  \/ /\ there = {} /\ call.api \in Walking
     /\ seen' = found /\ pc' = "boundary"
     /\ UNCHANGED <<world, call, dir, name, restat, handle, input, result, served>>
  \/ there = {} /\ call.api = "authority" /\ Return([kind |-> "absent"])
  \/ there = {} /\ call.api \notin Walking \cup {"authority"} /\ Refuse("MissingProjectConfig")

LookAtLegacy ==
  /\ pc = "legacy"
  /\ \/ LookFails(dir, "legacy") /\ Refuse(LookError)
     \/ ~LookFails(dir, "legacy") /\ Select([seen EXCEPT !["legacy"] = Look(dir, "legacy")])

-----------------------------------------------------------------------------
(* Mutant: only the root of a repository is a boundary.                    *)
BoundaryAtRoots(d) == disk.git[d] = "directory"

(* has_git_boundary: a worktree's .git file is one, too.                   *)
Boundary(d) == disk.git[d] # "none"

(* Mutant: one directory more.                                             *)
EndOfWalkOneLater(d) == d = Depth \/ d > MaxAncestors

(* start.ancestors().take(MAX_DISCOVERY_ANCESTORS).                        *)
EndOfWalk(d) == d = Depth \/ d >= MaxAncestors

(* Only NotFound means "no boundary here".                                 *)
LookAtBoundary ==
  /\ pc = "boundary"
  /\ \/ Denied(dir, ".git") /\ Refuse("Metadata")
     \/ /\ ~Denied(dir, ".git") /\ (Boundary(dir) \/ EndOfWalk(dir))
        /\ Refuse("Missing")
     \/ /\ ~Denied(dir, ".git") /\ ~Boundary(dir) /\ ~EndOfWalk(dir)
        /\ dir' = dir + 1 /\ pc' = "canonical"
        /\ UNCHANGED <<world, call, seen, name, restat, handle, input, result, served>>

(* read_selected looks again, opens the path, which follows a link, and    *)
(* asks the handle what it is.                                             *)
Restat ==
  /\ pc = "restat"
  /\ LET stat == SymlinkMetadata(dir, name) IN
     \/ (Denied(dir, name) \/ stat.kind = "none") /\ Refuse("Io")
     \/ /\ ~Denied(dir, name) /\ stat.kind # "none"
        /\ restat' = stat /\ pc' = "open"
        /\ UNCHANGED <<world, call, dir, seen, name, handle, input, result, served>>

Open ==
  /\ pc = "open"
  /\ LET file == Metadata(dir, name) IN
     \/ (Denied(dir, name) \/ file.kind = "none") /\ Refuse("Io")
     \/ /\ ~Denied(dir, name) /\ file.kind # "none"
        /\ handle' = [kind |-> file.kind, inode |-> file.inode]
        /\ pc' = IF call.api \in Walking THEN "check" ELSE "read"
        /\ UNCHANGED <<world, call, dir, seen, name, restat, input, result, served>>

(* Mutant: the handle is not compared with what was looked at.             *)
UnsafeHandleButForIdentity ==
  \/ restat.kind = "link"
  \/ handle.kind # "file"
  \/ handle.kind = "file" /\ disk.content[handle.inode].big

UnsafeHandle ==
  \/ restat.kind = "link"
  \/ handle.inode # restat.inode  \* not the same file
  \/ handle.kind # "file"
  \/ handle.kind = "file" /\ disk.content[handle.inode].big

CheckHandle ==
  /\ pc = "check"
  /\ \/ UnsafeHandle /\ Refuse("UnsafeConfigLeaf")
     \/ /\ ~UnsafeHandle /\ pc' = "read"
        /\ UNCHANGED <<world, call, dir, seen, name, restat, handle, input, result, served>>

(* A directory opens, but cannot be read.  The walk reads one byte more    *)
(* than it takes.                                                          *)
Read ==
  /\ pc = "read"
  /\ \/ handle.kind = "directory" /\ Refuse("Io")
     \/ /\ handle.kind = "file" /\ call.api \in Walking /\ disk.content[handle.inode].big
        /\ Refuse("UnsafeConfigLeaf")
     \/ /\ handle.kind = "file"
        /\ ~(call.api \in Walking /\ disk.content[handle.inode].big)
        /\ input' = <<disk.content[handle.inode]>> /\ pc' = "parse"
        /\ UNCHANGED <<world, call, dir, seen, name, restat, handle, result, served>>

(* What the project's document resolves to over the defaults of the call:  *)
(* the central policy's, or, in the model, the compiled ones, where the    *)
(* caller brings its own.  The authority keeps the file as it is.          *)
Resolved(doc) ==
  LET parsed == IF call.api = "authority" THEN AuthorityParse(doc) ELSE ParseToml(doc) IN
  IF ~parsed.ok \/ call.api = "authority" THEN parsed
  ELSE Resolve(doc, IF call.api \in {"central", "central_revision"} THEN CentralPolicy.value.set
                    ELSE CompiledDefaults)

NotAdmitted(resolved) ==
  IF call.api = "central_revision" THEN RevisionError(resolved.compatibility, call.revision)
  ELSE "none"

Parse ==
  /\ pc = "parse"
  /\ LET resolved == Resolved(input[1].doc) IN
     \/ ~resolved.ok /\ RefusePolicy(resolved.error)
     \/ /\ resolved.ok /\ NotAdmitted(resolved.value) # "none"
        /\ RefusePolicy(NotAdmitted(resolved.value))
     \/ /\ resolved.ok /\ NotAdmitted(resolved.value) = "none"
        /\ Return([kind |-> "loaded", path |-> <<dir, name>>, policy |-> resolved.value])

(* The surface of a client asks require_consumer_action of what it has     *)
(* loaded.                                                                 *)
Serve ==
  /\ pc = "returned" /\ result.kind = "loaded" /\ call.api # "authority"
  /\ served' = {a \in ConsumerAction : ConsumerActionDenied(result.policy.set, a) = "none"}
  /\ pc' = "served"
  /\ UNCHANGED <<world, call, dir, seen, name, restat, handle, input, result>>

-----------------------------------------------------------------------------
(* While a load runs, others change what it can reach.  The model ends     *)
(* with the load.                                                          *)
Running == pc \notin {"returned", "served"}
Reach   == {d \in Dirs : d <= MaxAncestors}

Change(after) ==
  /\ Running /\ edits < MaxEdits
  /\ disk' = after /\ edits' = edits + 1
  /\ regular' = regular \cup RegularIn(after) /\ absent' = absent \cup AbsentIn(after)
  /\ UNCHANGED <<call, pc, dir, seen, name, restat, handle, input, result, served>>

(* A name is removed, or now names a new file, a link, or a directory.     *)
Rename ==
  \E p \in Reach \X Names :
    \/ \E node \in [kind : {"none", "directory"}, inode : {0}]
                     \cup [kind : {"link"}, inode : 0 .. Len(disk.content)] :
         Change([disk EXCEPT !.entry[p] = node])
    \/ \E c \in Written :
         Change([disk EXCEPT !.entry[p] = [kind |-> "file", inode |-> Len(disk.content) + 1],
                             !.content = Append(disk.content, c)])

(* A file is written in place.                                             *)
Rewrite ==
  \E i \in DOMAIN disk.content, c \in Written : Change([disk EXCEPT !.content[i] = c])

SetGit ==
  \E d \in Reach, g \in {"none", "file", "directory"} : Change([disk EXCEPT !.git[d] = g])

Load == \/ Begin \/ LookAtCanonical \/ LookAtLegacy \/ LookAtBoundary
        \/ Restat \/ Open \/ CheckHandle \/ Read \/ Parse \/ Serve

Next == Load \/ Rename \/ Rewrite \/ SetGit

Spec == Init /\ [][Next]_vars

-----------------------------------------------------------------------------
Loaded == result.kind = "loaded"
Members(values) == {values[i] : i \in DOMAIN values}

TypeOK ==
  /\ disk \in Layout /\ edits \in 0 .. MaxEdits
  /\ call \in Call
  /\ pc \in {"begin", "canonical", "legacy", "boundary", "restat", "open", "check", "read",
             "parse", "returned", "served"}
  /\ dir \in Dirs /\ dir <= MaxAncestors
  /\ seen \in [Names -> Stat] /\ name \in Names
  /\ restat \in Stat /\ handle.kind \in Kind /\ handle.inode \in 0 .. Len(disk.content)
  /\ input = <<>> \/ input[1] \in Content
  /\ result.kind \in {"pending", "absent", "error", "invalid", "loaded"}
  /\ served \subseteq ConsumerAction
  /\ regular \subseteq (Dirs \X Names) \X Nat
  /\ absent \subseteq Dirs \X (Names \cup {".git"})

(* Whatever is swapped under it, the hardened loader reads a file that was *)
(* itself, not through a link, a regular file at the path it reports while *)
(* the load ran, and within the size (validate_leaf, read_selected).       *)
ReadsAValidatedFile ==
  Loaded /\ call.api \in Walking =>
    <<result.path, handle.inode>> \in regular /\ ~input[1].big

(* The walk takes the nearest configuration and does not cross the first   *)
(* Git boundary: of every directory it passed by, each name and the .git   *)
(* were absent at some time of the load, and of the one it took, the other *)
(* name.  It reports none only from the boundary or the end of the walk    *)
(* (discover_project_config_hardened).                                     *)
NearestConfigGoverns ==
  call.api \in Walking =>
    /\ Loaded => <<dir, Other(name)>> \in absent
    /\ \A d \in 1 .. dir - 1 : {<<d, "canonical">>, <<d, "legacy">>, <<d, ".git">>} \subseteq absent
    /\ result \in {[kind |-> "error", error |-> e] : e \in {"Missing", "MissingProjectConfig"}} =>
         /\ {<<dir, "canonical">>, <<dir, "legacy">>} \subseteq absent
         /\ edits = 0 => disk.git[dir] # "none" \/ dir = Depth \/ dir = MaxAncestors

(* What each loader may select in a file system that keeps still.          *)
Holds(d, n) == Metadata(d, n).kind = "file" /\ ~Denied(d, n)
Choice(api) ==
  CASE api \in Walking ->
         {p \in Dirs \X Names :
            /\ disk.entry[p].kind = "file"
            /\ \A d \in 1 .. p[1], n \in Names : <<d, n>> = p \/ disk.entry[<<d, n>>].kind = "none"
            /\ \A d \in 1 .. p[1] - 1 : disk.git[d] = "none"}
    [] api = "authority" ->
         {p \in {1} \X Names :
            Metadata(1, p[2]).kind # "none" /\ Metadata(1, Other(p[2])).kind = "none"}
    [] OTHER ->
         {p \in {1} \X Names : Holds(1, p[2]) /\ ~Holds(1, Other(p[2]))}

(* The loaders look in different ways, but where the files keep still no   *)
(* two of them take different files: what one loads, each of the others    *)
(* takes, too, or refuses; and the two parsers admit the same documents    *)
(* and revisions.                                                          *)
LoadersAgree ==
  Loaded /\ edits = 0 =>
    /\ result.path \in Choice(call.api)
    /\ \A api \in Api : Choice(api) \subseteq {result.path}
    /\ ParseToml(input[1].doc).ok /\ AuthorityParse(input[1].doc).ok
    /\ \A r \in Sha : CompatibilityAllows(input[1].doc.compatibility, r)
                        <=> RevisionError(input[1].doc.compatibility, r) = "none"

(* The value of a setting: the project's, else the central policy's where  *)
(* the loader asks for it, else the compiled one.                          *)
Declared(s) ==
  IF s \in DOMAIN input[1].doc.set THEN input[1].doc.set[s]
  ELSE IF call.api \in {"central", "central_revision"} /\ s \in DOMAIN Central.set
    THEN Central.set[s]
  ELSE CompiledDefaults[s]

Within(c, r) ==
  \/ c.kind = "exact" /\ c.commit = r
  \/ c.kind = "range" /\ {<<c.base, r>>, <<r, c.head>>} \subseteq Ancestor

(* A surface shows the pages, and takes the factors, of the nearest layer  *)
(* that lists them, and of no two layers together; a third factor only     *)
(* where it is switched on.  Through central_revision it serves nothing    *)
(* unless the project and the central policy both admit the revision.      *)
ServesDeclaredPolicy ==
  pc = "served" =>
    /\ served =
         {[kind |-> "RenderPage", page |-> v] : v \in Members(Declared("pages.show"))}
           \cup {[kind |-> "UseTwoFactor", method |-> v] :
                   v \in Members(Declared("two_factor.methods"))}
           \cup {[kind |-> "UseThreeFactor", method |-> v] :
                   v \in {m \in Members(Declared("three_factor.methods")) :
                            Declared("three_factor.enabled")}}
    /\ call.api = "central_revision" =>
         /\ call.revision \in Revisions
         /\ Within(Central.compatibility, call.revision)
         /\ Within(input[1].doc.compatibility, call.revision)

=============================================================================
