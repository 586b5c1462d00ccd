--------------------------- MODULE ConfigLoaderProofs ---------------------------
(***************************************************************************)
(* Theorems about ConfigLoader: for any file system, any number of changes *)
(* to it during the load, any policy and any depth, the hardened walk      *)
(* reads only a file that was regular at the path it reports, and passes   *)
(* by only what was absent; in a file system that keeps still the loaders  *)
(* agree; and what is served is the declared policy.                       *)
(***************************************************************************)
EXTENDS ConfigLoader, TLAPS

HistoryInv == RegularIn(disk) \subseteq regular /\ AbsentIn(disk) \subseteq absent

PhaseInv == Running <=> result = Pending

BothAbsent(d) == <<d, "canonical">> \in absent /\ <<d, "legacy">> \in absent

Missing == result \in {[kind |-> "error", error |-> e] : e \in {"Missing", "MissingProjectConfig"}}

(* What the walk knows of the directories it passed, and of the one it is in. *)
WalkInv ==
  /\ \A d \in 1 .. dir - 1 : BothAbsent(d) /\ <<d, ".git">> \in absent
  /\ pc = "legacy" /\ seen["canonical"].kind = "none" => <<dir, "canonical">> \in absent
  /\ pc = "boundary" => BothAbsent(dir)
  /\ pc \in {"restat", "open", "check", "read", "parse"} \/ Loaded
       => <<dir, Other(name)>> \in absent
  /\ Missing => /\ BothAbsent(dir)
                /\ edits = 0 => disk.git[dir] # "none" \/ dir = Depth \/ dir = MaxAncestors

(* What it knows of the file: the second look saw what is in the history,  *)
(* and the handle is that file.                                            *)
FileInv ==
  /\ pc \in {"open", "check", "read", "parse"} \/ Loaded =>
       /\ (restat.kind = "file" => <<<<dir, name>>, restat.inode>> \in regular)
       /\ restat.kind \in {"file", "link"} \/ restat.inode = 0
  /\ pc \in {"read", "parse"} \/ Loaded =>
       handle.kind = "file" /\ handle.inode = restat.inode /\ restat.kind = "file"
  /\ pc = "parse" \/ Loaded => ~input[1].big
  /\ Loaded => result.path = <<dir, name>>

IInv ==
  /\ TypeOK /\ SoundLayout(disk) /\ HistoryInv /\ PhaseInv
  /\ handle.kind = "file" => handle.inode # 0
  /\ call.api \in Walking => WalkInv /\ FileInv

-----------------------------------------------------------------------------
(* What a look at a path tells.                                            *)
LEMMA LookTypes ==
  ASSUME SoundLayout(disk), NEW d \in Dirs, NEW n \in Names
  PROVE  /\ SymlinkMetadata(d, n) \in Stat /\ Metadata(d, n) \in Stat
         /\ Metadata(d, n).inode \in 0 .. Len(disk.content)
         /\ Metadata(d, n).kind = "file" => Metadata(d, n).inode # 0
         /\ SymlinkMetadata(d, n).kind \in {"file", "link"} \/ SymlinkMetadata(d, n).inode = 0
<1> DEFINE node == disk.entry[<<d, n>>]
<1>1. /\ <<d, n>> \in Dirs \X Names /\ node \in Node
      /\ node.inode \in 0 .. Len(disk.content)
      /\ node.kind = "file" <=> (node.inode # 0 /\ node.kind # "link")
      /\ disk.content \in Seq(Content)
  BY DEF SoundLayout, Layout
<1>2. ASSUME NEW i \in 1 .. Len(disk.content) PROVE disk.content[i].big \in BOOLEAN
  <2>1. disk.content[i] \in Content
    BY <1>1
  <2> QED
    BY <2>1 DEF Content
<1>3. (node.kind = "file" /\ disk.content[node.inode].big) \in BOOLEAN
  BY <1>1, <1>2
<1>4. node.kind \in Kind /\ node.inode \in Nat
  BY <1>1 DEF Node
<1>5. SymlinkMetadata(d, n) \in Stat
  BY <1>3, <1>4 DEF SymlinkMetadata, Stat
<1>6. SymlinkMetadata(d, n).kind = node.kind /\ SymlinkMetadata(d, n).inode = node.inode
  BY DEF SymlinkMetadata
<1>7. SymlinkMetadata(d, n).kind \in {"file", "link"} \/ SymlinkMetadata(d, n).inode = 0
  BY <1>1, <1>4, <1>6 DEF Kind
<1>8. CASE node.kind # "link"
  BY <1>1, <1>5, <1>6, <1>7, <1>8 DEF Metadata
<1>9. CASE node.kind = "link" /\ node.inode = 0
  BY <1>1, <1>5, <1>7, <1>9 DEF Metadata, Nothing, Stat, Kind
<1>10. CASE node.kind = "link" /\ node.inode # 0
  <2>1. Metadata(d, n) = [kind |-> "file", inode |-> node.inode,
                          big |-> disk.content[node.inode].big]
    BY <1>10 DEF Metadata
  <2>2. disk.content[node.inode].big \in BOOLEAN
    BY <1>1, <1>2, <1>10
  <2> QED
    BY <1>1, <1>4, <1>5, <1>7, <1>10, <2>1, <2>2 DEF Stat, Kind
<1> QED
  BY <1>8, <1>9, <1>10

(* What the walk sees is what there is.                                    *)
LEMMA LookSees ==
  ASSUME SoundLayout(disk), HistoryInv, NEW d \in Dirs, NEW n \in Names
  PROVE  /\ SymlinkMetadata(d, n).kind = "file"
              => <<<<d, n>>, SymlinkMetadata(d, n).inode>> \in regular
         /\ SymlinkMetadata(d, n).kind = "none" => <<d, n>> \in absent
<1>1. <<d, n>> \in Dirs \X Names
  OBVIOUS
<1>2. CASE disk.entry[<<d, n>>].kind = "file"
  BY <1>1, <1>2 DEF SymlinkMetadata, HistoryInv, RegularIn
<1>3. CASE disk.entry[<<d, n>>].kind = "none"
  BY <1>1, <1>3 DEF SymlinkMetadata, HistoryInv, AbsentIn
<1> QED
  BY <1>2, <1>3 DEF SymlinkMetadata

(* A load that returns, with a policy only from the step that parses, and  *)
(* without a file only from what the walk knows.                           *)
LEMMA ReturnStep ==
  ASSUME IInv, Running, NEW r, Return(r),
         r.kind \in {"absent", "error", "invalid", "loaded"},
         r.kind = "loaded" => pc = "parse" /\ r.path = <<dir, name>>,
         call.api \in Walking /\ r \in {[kind |-> "error", error |-> e] :
                                         e \in {"Missing", "MissingProjectConfig"}}
           => /\ BothAbsent(dir)
              /\ edits = 0 => disk.git[dir] # "none" \/ dir = Depth \/ dir = MaxAncestors
  PROVE  IInv'
<1> USE DEF IInv, Return, world
<1>1. TypeOK' /\ SoundLayout(disk)'
  BY DEF TypeOK, SoundLayout
<1>2. HistoryInv' /\ PhaseInv'
  BY DEF HistoryInv, PhaseInv, Running, Pending, RegularIn, AbsentIn
<1>3. ASSUME call.api \in Walking PROVE WalkInv'
  BY <1>3 DEF WalkInv, BothAbsent, Missing, Loaded
<1>4. ASSUME call.api \in Walking PROVE FileInv'
  BY <1>4 DEF FileInv, Loaded
<1> QED
  BY <1>1, <1>2, <1>3, <1>4

(* A refusal that is not for want of a file.                               *)
LEMMA RefuseStep ==
  ASSUME IInv, Running, NEW e, Refuse(e),
         call.api \in Walking => e \in {"Io", "Metadata", "UnsafeConfigLeaf",
                                        "AmbiguousConfigFiles"}
  PROVE  IInv'
<1> DEFINE r == [kind |-> "error", error |-> Reported(e)]
<1>1. Return(r) /\ r.kind = "error"
  BY DEF Refuse
<1>2. call.api \in Walking => Reported(e) \notin {"Missing", "MissingProjectConfig"}
  BY DEF Reported
<1>3. call.api \in Walking => r \notin {[kind |-> "error", error |-> x] :
                                          x \in {"Missing", "MissingProjectConfig"}}
  BY <1>2
<1> QED
  BY <1>1, <1>3, ReturnStep

(* A step of a running load that decides nothing yet keeps what is not     *)
(* about where it is.                                                      *)
LEMMA ProceedStep ==
  ASSUME IInv, Running, Running', UNCHANGED <<world, call, result, served>>,
         dir' \in Dirs, dir' <= MaxAncestors,
         pc' \in {"canonical", "legacy", "boundary", "restat", "open", "check", "read", "parse"},
         seen' \in [Names -> Stat], name' \in Names, restat' \in Stat,
         handle'.kind \in Kind, handle'.inode \in 0 .. Len(disk.content),
         handle'.kind = "file" => handle'.inode # 0,
         input' = <<>> \/ input'[1] \in Content,
         call.api \in Walking => WalkInv' /\ FileInv'
  PROVE  IInv'
<1> USE DEF IInv, world
<1>1. TypeOK'
  BY DEF TypeOK
<1>2. SoundLayout(disk)' /\ HistoryInv' /\ PhaseInv'
  BY DEF SoundLayout, HistoryInv, PhaseInv, Running, RegularIn, AbsentIn
<1> QED
  BY <1>1, <1>2

-----------------------------------------------------------------------------
LEMMA BeginStep ==
  ASSUME IInv, Begin
  PROVE  IInv'
<1>1. Running
  BY DEF Begin, Running
<1>2. CASE CentralError # "none" /\ RefusePolicy(CentralError)
  <2> DEFINE r == [kind |-> "invalid", error |-> CentralError]
  <2>1. Return(r) /\ r.kind = "invalid"
    BY <1>2 DEF RefusePolicy
  <2>2. r \notin {[kind |-> "error", error |-> e] : e \in {"Missing", "MissingProjectConfig"}}
    BY <2>1
  <2> QED
    BY <1>1, <2>1, <2>2, ReturnStep
<1>3. CASE call.api \in Walking /\ Refuse("Metadata")
  BY <1>1, <1>3, RefuseStep
<1>4. CASE /\ CentralError = "none" /\ pc' = "canonical"
           /\ UNCHANGED <<world, call, dir, seen, name, restat, handle, input, result, served>>
  <2>1. Running'
    BY <1>4 DEF Running
  <2>2. ASSUME call.api \in Walking PROVE WalkInv' /\ FileInv'
    BY <1>1, <1>4, <2>2 DEF IInv, WalkInv, FileInv, BothAbsent, Missing, Loaded, world, PhaseInv,
                            Pending, Running
  <2> QED
    BY <1>1, <1>4, <2>1, <2>2, ProceedStep DEF IInv, TypeOK, world
<1> QED
  BY <1>2, <1>3, <1>4 DEF Begin

LEMMA CanonicalStep ==
  ASSUME IInv, LookAtCanonical
  PROVE  IInv'
<1>1. Running /\ pc = "canonical" /\ dir \in Dirs
  BY DEF LookAtCanonical, Running, IInv, TypeOK
<1>2. CASE LookFails(dir, "canonical") /\ Refuse(LookError)
  BY <1>1, <1>2, RefuseStep DEF LookError, Walking
<1>3. CASE /\ seen' = [seen EXCEPT !["canonical"] = Look(dir, "canonical")]
           /\ pc' = "legacy"
           /\ UNCHANGED <<world, call, dir, name, restat, handle, input, result, served>>
  <2> DEFINE look == Look(dir, "canonical")
  <2>1. look \in Stat
    BY <1>1, LookTypes DEF Look, Nothing, Stat, Kind, Names, IInv
  <2>2. seen \in [Names -> Stat] /\ "canonical" \in Names
    BY DEF IInv, TypeOK, Names
  <2>3. seen' \in [Names -> Stat] /\ seen'["canonical"] = look
    BY <1>3, <2>1, <2>2
  <2>4. ASSUME call.api \in Walking, look.kind = "none"
        PROVE  <<dir, "canonical">> \in absent
    <3>1. look = SymlinkMetadata(dir, "canonical")
      BY <2>4 DEF Look, Walking
    <3> QED
      BY <1>1, <2>2, <2>4, <3>1, LookSees DEF IInv
  <2>5. result = Pending
    BY <1>1 DEF IInv, PhaseInv
  <2>6. ASSUME call.api \in Walking PROVE WalkInv' /\ FileInv'
    <3>1. WalkInv'
      BY <1>1, <1>3, <2>3, <2>4, <2>5, <2>6
         DEF IInv, WalkInv, BothAbsent, Missing, Loaded, Pending, world
    <3>2. FileInv'
      BY <1>3, <2>5 DEF FileInv, Loaded, Pending
    <3> QED
      BY <3>1, <3>2
  <2> QED
    BY <1>1, <1>3, <2>3, <2>6, ProceedStep DEF IInv, TypeOK, world, Running
<1> QED
  BY <1>2, <1>3 DEF LookAtCanonical

(* Selecting from what is now known of both names.                         *)
LEMMA SelectStep ==
  ASSUME IInv, pc = "legacy", NEW found \in [Names -> Stat], Select(found),
         call.api \in Walking =>
           \A n \in Names : found[n].kind = "none" => <<dir, n>> \in absent
  PROVE  IInv'
<1> DEFINE there == {n \in Names : found[n].kind # "none"}
<1>1. Running /\ dir \in Dirs /\ result = Pending
  BY DEF Running, IInv, TypeOK, PhaseInv
<1>2. CASE there = Names /\ Refuse("AmbiguousConfigFiles")
  BY <1>1, <1>2, RefuseStep
<1>3. ASSUME NEW n \in Names, there = {n}, Refuse("UnsafeConfigLeaf")
      PROVE  IInv'
  BY <1>1, <1>3, RefuseStep
<1>4. ASSUME NEW n \in Names, there = {n}, name' = n, seen' = found,
             pc' = IF call.api \in Walking THEN "restat" ELSE "open",
             UNCHANGED <<world, call, dir, restat, handle, input, result, served>>
      PROVE  IInv'
  <2>1. ASSUME call.api \in Walking PROVE <<dir, Other(n)>> \in absent
    BY <1>4, <2>1 DEF Other, Names
  <2>2. ASSUME call.api \in Walking PROVE WalkInv' /\ FileInv'
    <3>1. pc' = "restat"
      BY <1>4, <2>2
    <3>2. WalkInv'
      BY <1>1, <1>4, <2>1, <2>2, <3>1
         DEF IInv, WalkInv, BothAbsent, Missing, Loaded, Pending, world
    <3>3. FileInv'
      BY <1>1, <1>4, <3>1 DEF FileInv, Loaded, Pending
    <3> QED
      BY <3>2, <3>3
  <2> QED
    BY <1>1, <1>4, <2>2, ProceedStep DEF IInv, TypeOK, world, Running
<1>5. CASE /\ there = {} /\ call.api \in Walking
           /\ seen' = found /\ pc' = "boundary"
           /\ UNCHANGED <<world, call, dir, name, restat, handle, input, result, served>>
  <2>1. BothAbsent(dir)
    BY <1>5 DEF BothAbsent, Names
  <2>2. WalkInv' /\ FileInv'
    BY <1>1, <1>5, <2>1
       DEF IInv, WalkInv, FileInv, BothAbsent, Missing, Loaded, Pending, world
  <2> QED
    BY <1>1, <1>5, <2>2, ProceedStep DEF IInv, TypeOK, world, Running
<1>6. CASE there = {} /\ call.api = "authority" /\ Return([kind |-> "absent"])
  BY <1>1, <1>6, ReturnStep DEF Walking
<1>7. CASE there = {} /\ call.api \notin Walking \cup {"authority"}
             /\ Refuse("MissingProjectConfig")
  BY <1>1, <1>7, RefuseStep
<1> QED
  BY <1>2, <1>3, <1>4, <1>5, <1>6, <1>7 DEF Select

LEMMA LegacyStep ==
  ASSUME IInv, LookAtLegacy
  PROVE  IInv'
<1>1. Running /\ pc = "legacy" /\ dir \in Dirs
  BY DEF LookAtLegacy, Running, IInv, TypeOK
<1>2. CASE LookFails(dir, "legacy") /\ Refuse(LookError)
  BY <1>1, <1>2, RefuseStep DEF LookError, Walking
<1>3. CASE Select([seen EXCEPT !["legacy"] = Look(dir, "legacy")])
  <2> DEFINE found == [seen EXCEPT !["legacy"] = Look(dir, "legacy")]
  <2>1. Look(dir, "legacy") \in Stat
    BY <1>1, LookTypes DEF Look, Nothing, Stat, Kind, Names, IInv
  <2>2. seen \in [Names -> Stat]
    BY DEF IInv, TypeOK
  <2>3. /\ found \in [Names -> Stat] /\ found["canonical"] = seen["canonical"]
        /\ found["legacy"] = Look(dir, "legacy")
    BY <2>1, <2>2 DEF Names
  <2>4. ASSUME call.api \in Walking, found["canonical"].kind = "none"
        PROVE  <<dir, "canonical">> \in absent
    BY <1>1, <2>3, <2>4 DEF IInv, WalkInv
  <2>5. ASSUME call.api \in Walking, found["legacy"].kind = "none"
        PROVE  <<dir, "legacy">> \in absent
    <3>1. "legacy" \in Names /\ found["legacy"] = SymlinkMetadata(dir, "legacy")
      BY <2>3, <2>5 DEF Look, Names, Walking
    <3> QED
      BY <1>1, <2>5, <3>1, LookSees DEF IInv
  <2> QED
    BY <1>1, <1>3, <2>3, <2>4, <2>5, SelectStep DEF Names
<1> QED
  BY <1>2, <1>3 DEF LookAtLegacy

LEMMA BoundaryStep ==
  ASSUME IInv, LookAtBoundary
  PROVE  IInv'
<1>1. /\ Running /\ pc = "boundary" /\ dir \in Dirs /\ result = Pending
      /\ dir <= MaxAncestors /\ Depth \in Nat /\ MaxAncestors \in Nat
  BY LoaderAssumption DEF LookAtBoundary, Running, IInv, TypeOK, PhaseInv
<1>2. CASE Refuse("Metadata")
  BY <1>1, <1>2, RefuseStep
<1>3. CASE (Boundary(dir) \/ EndOfWalk(dir)) /\ Refuse("Missing")
  <2> DEFINE r == [kind |-> "error", error |-> Reported("Missing")]
  <2>1. Return(r) /\ r.kind = "error"
    BY <1>3 DEF Refuse
  <2>2. call.api \in Walking => BothAbsent(dir)
    BY <1>1 DEF IInv, WalkInv
  <2>3. disk.git[dir] # "none" \/ dir = Depth \/ dir = MaxAncestors
    BY <1>1, <1>3 DEF Boundary, EndOfWalk, Dirs
  <2> QED
    BY <1>1, <2>1, <2>2, <2>3, ReturnStep
<1>4. CASE /\ ~Boundary(dir) /\ ~EndOfWalk(dir)
           /\ dir' = dir + 1 /\ pc' = "canonical"
           /\ UNCHANGED <<world, call, seen, name, restat, handle, input, result, served>>
  <2>1. dir' \in Dirs /\ dir' <= MaxAncestors
    BY <1>1, <1>4 DEF EndOfWalk, Dirs
  <2>2. <<dir, ".git">> \in absent
    <3>1. <<dir, ".git">> \in Dirs \X {".git"} /\ disk.git[dir] = "none"
      BY <1>1, <1>4 DEF Boundary
    <3> QED
      BY <3>1 DEF IInv, HistoryInv, AbsentIn
  <2>3. ASSUME call.api \in Walking PROVE WalkInv' /\ FileInv'
    <3>1. ASSUME NEW d \in 1 .. dir' - 1
          PROVE  BothAbsent(d) /\ <<d, ".git">> \in absent
      <4>1. d = dir \/ d \in 1 .. dir - 1
        BY <1>1, <1>4, <3>1 DEF Dirs
      <4> QED
        BY <1>1, <2>2, <2>3, <4>1 DEF IInv, WalkInv
    <3> QED
      BY <1>1, <1>4, <3>1 DEF WalkInv, FileInv, BothAbsent, Missing, Loaded, Pending, world
  <2> QED
    BY <1>1, <1>4, <2>1, <2>3, ProceedStep DEF IInv, TypeOK, world, Running
<1> QED
  BY <1>2, <1>3, <1>4 DEF LookAtBoundary

LEMMA RestatStep ==
  ASSUME IInv, Restat
  PROVE  IInv'
<1> DEFINE stat == SymlinkMetadata(dir, name)
<1>1. /\ Running /\ pc = "restat" /\ dir \in Dirs /\ name \in Names /\ result = Pending
  BY DEF Restat, Running, IInv, TypeOK, PhaseInv
<1>2. CASE Refuse("Io")
  BY <1>1, <1>2, RefuseStep
<1>3. CASE /\ stat.kind # "none" /\ restat' = stat /\ pc' = "open"
           /\ UNCHANGED <<world, call, dir, seen, name, handle, input, result, served>>
  <2>1. /\ stat \in Stat
        /\ stat.kind \in {"file", "link"} \/ stat.inode = 0
        /\ stat.kind = "file" => <<<<dir, name>>, stat.inode>> \in regular
    BY <1>1, LookTypes, LookSees DEF IInv
  <2>2. ASSUME call.api \in Walking PROVE WalkInv' /\ FileInv'
    BY <1>1, <1>3, <2>1, <2>2
       DEF IInv, WalkInv, FileInv, BothAbsent, Missing, Loaded, Pending, world
  <2> QED
    BY <1>1, <1>3, <2>1, <2>2, ProceedStep DEF IInv, TypeOK, world, Running
<1> QED
  BY <1>2, <1>3 DEF Restat

LEMMA OpenStep ==
  ASSUME IInv, Open
  PROVE  IInv'
<1> DEFINE file == Metadata(dir, name)
<1>1. /\ Running /\ pc = "open" /\ dir \in Dirs /\ name \in Names /\ result = Pending
  BY DEF Open, Running, IInv, TypeOK, PhaseInv
<1>2. CASE Refuse("Io")
  BY <1>1, <1>2, RefuseStep
<1>3. CASE /\ handle' = [kind |-> file.kind, inode |-> file.inode]
           /\ pc' = IF call.api \in Walking THEN "check" ELSE "read"
           /\ UNCHANGED <<world, call, dir, seen, name, restat, input, result, served>>
  <2>1. /\ file.kind \in Kind /\ file.inode \in 0 .. Len(disk.content)
        /\ file.kind = "file" => file.inode # 0
    BY <1>1, LookTypes DEF IInv, Stat
  <2>2. handle'.kind = file.kind /\ handle'.inode = file.inode
    BY <1>3
  <2>3. ASSUME call.api \in Walking PROVE WalkInv' /\ FileInv'
    <3>1. pc' = "check"
      BY <1>3, <2>3
    <3> QED
      BY <1>1, <1>3, <2>3, <3>1
         DEF IInv, WalkInv, FileInv, BothAbsent, Missing, Loaded, Pending, world
  <2> QED
    BY <1>1, <1>3, <2>1, <2>2, <2>3, ProceedStep DEF IInv, TypeOK, world, Running
<1> QED
  BY <1>2, <1>3 DEF Open

LEMMA CheckStep ==
  ASSUME IInv, CheckHandle
  PROVE  IInv'
<1>1. Running /\ pc = "check" /\ result = Pending
  BY DEF CheckHandle, Running, IInv, TypeOK, PhaseInv
<1>2. CASE Refuse("UnsafeConfigLeaf")
  BY <1>1, <1>2, RefuseStep
<1>3. CASE /\ ~UnsafeHandle /\ pc' = "read"
           /\ UNCHANGED <<world, call, dir, seen, name, restat, handle, input, result, served>>
  <2>1. ASSUME call.api \in Walking PROVE WalkInv' /\ FileInv'
    <3>1. handle.kind = "file" /\ handle.inode = restat.inode /\ restat.kind = "file"
      BY <1>1, <1>3, <2>1 DEF UnsafeHandle, IInv, FileInv
    <3> QED
      BY <1>1, <1>3, <2>1, <3>1
         DEF IInv, WalkInv, FileInv, BothAbsent, Missing, Loaded, Pending, world
  <2> QED
    BY <1>1, <1>3, <2>1, ProceedStep DEF IInv, TypeOK, world, Running
<1> QED
  BY <1>2, <1>3 DEF CheckHandle

LEMMA ReadStep ==
  ASSUME IInv, Read
  PROVE  IInv'
<1>1. Running /\ pc = "read" /\ result = Pending
  BY DEF Read, Running, IInv, TypeOK, PhaseInv
<1>2. CASE Refuse("Io") \/ Refuse("UnsafeConfigLeaf")
  BY <1>1, <1>2, RefuseStep
<1>3. CASE /\ handle.kind = "file"
           /\ ~(call.api \in Walking /\ disk.content[handle.inode].big)
           /\ input' = <<disk.content[handle.inode]>> /\ pc' = "parse"
           /\ UNCHANGED <<world, call, dir, seen, name, restat, handle, result, served>>
  <2>1. disk.content \in Seq(Content) /\ handle.inode \in 1 .. Len(disk.content)
    BY <1>3 DEF IInv, TypeOK, SoundLayout, Layout
  <2>2. disk.content[handle.inode] \in Content
    BY <2>1
  <2>3. input'[1] = disk.content[handle.inode]
    BY <1>3
  <2>4. ASSUME call.api \in Walking PROVE WalkInv' /\ FileInv'
    <3>1. ~(input'[1].big)
      BY <1>3, <2>3, <2>4
    <3> QED
      BY <1>1, <1>3, <2>4, <3>1
         DEF IInv, WalkInv, FileInv, BothAbsent, Missing, Loaded, Pending, world
  <2> QED
    BY <1>1, <1>3, <2>2, <2>3, <2>4, ProceedStep DEF IInv, TypeOK, world, Running
<1> QED
  BY <1>2, <1>3 DEF Read

LEMMA ParseStep ==
  ASSUME IInv, Parse
  PROVE  IInv'
<1>1. Running /\ pc = "parse"
  BY DEF Parse, Running
<1>2. ASSUME NEW e, RefusePolicy(e)
      PROVE  IInv'
  <2> DEFINE r == [kind |-> "invalid", error |-> e]
  <2>1. Return(r) /\ r.kind = "invalid"
    BY <1>2 DEF RefusePolicy
  <2>2. r \notin {[kind |-> "error", error |-> x] : x \in {"Missing", "MissingProjectConfig"}}
    BY <2>1
  <2> QED
    BY <1>1, <2>1, <2>2, ReturnStep
<1>3. ASSUME NEW policy, Return([kind |-> "loaded", path |-> <<dir, name>>, policy |-> policy])
      PROVE  IInv'
  <2> DEFINE r == [kind |-> "loaded", path |-> <<dir, name>>, policy |-> policy]
  <2>1. r.kind = "loaded" /\ r.path = <<dir, name>>
    OBVIOUS
  <2>2. r \notin {[kind |-> "error", error |-> x] : x \in {"Missing", "MissingProjectConfig"}}
    BY <2>1
  <2> QED
    BY <1>1, <1>3, <2>1, <2>2, ReturnStep
<1> QED
  BY <1>2, <1>3 DEF Parse

LEMMA ServeStep ==
  ASSUME IInv, Serve
  PROVE  IInv'
<1> USE DEF Serve, world
<1>1. served' \subseteq ConsumerAction
  OBVIOUS
<1>2. TypeOK' /\ SoundLayout(disk)'
  BY <1>1 DEF IInv, TypeOK, SoundLayout
<1>3. HistoryInv' /\ PhaseInv'
  BY DEF IInv, HistoryInv, PhaseInv, Running, RegularIn, AbsentIn
<1>4. ASSUME call.api \in Walking PROVE WalkInv' /\ FileInv'
  BY <1>4 DEF IInv, WalkInv, FileInv, BothAbsent, Missing, Loaded
<1> QED
  BY <1>2, <1>3, <1>4 DEF IInv

-----------------------------------------------------------------------------
(* A change of the file system by others, to a sound one with no fewer     *)
(* inodes.                                                                 *)
LEMMA ChangeStep ==
  ASSUME IInv, NEW after, Change(after), SoundLayout(after),
         Len(after.content) >= Len(disk.content)
  PROVE  IInv'
<1> USE DEF Change
<1>1. RegularIn(after) \subseteq (Dirs \X Names) \X Nat
  BY DEF RegularIn, SoundLayout, Layout, Node
<1>2. AbsentIn(after) \subseteq Dirs \X (Names \cup {".git"})
  BY DEF AbsentIn
<1>3. handle.inode \in 0 .. Len(disk.content) => handle.inode \in 0 .. Len(after.content)
  BY DEF IInv, SoundLayout, Layout
<1>4. after \in Layout /\ edits' \in 0 .. MaxEdits
  BY LoaderAssumption DEF SoundLayout, IInv, TypeOK
<1>5. TypeOK'
  BY <1>1, <1>2, <1>3, <1>4 DEF IInv, TypeOK
<1>6. SoundLayout(disk)'
  BY DEF SoundLayout
<1>7. HistoryInv'
  BY DEF IInv, HistoryInv, RegularIn, AbsentIn
<1>8. PhaseInv'
  BY DEF IInv, PhaseInv, Running
<1>9. ASSUME call.api \in Walking PROVE WalkInv' /\ FileInv'
  <2>1. result = Pending
    BY DEF IInv, PhaseInv
  <2> QED
    BY <1>9, <2>1 DEF IInv, WalkInv, FileInv, BothAbsent, Missing, Loaded, Pending
<1> QED
  BY <1>5, <1>6, <1>7, <1>8, <1>9 DEF IInv

LEMMA RenameStep ==
  ASSUME IInv, Rename
  PROVE  IInv'
<1>1. SoundLayout(disk) /\ disk \in Layout /\ disk.content \in Seq(Content)
  BY DEF IInv, SoundLayout, Layout
<1>2. ASSUME NEW p \in Reach \X Names,
             NEW node \in [kind : {"none", "directory"}, inode : {0}]
                            \cup [kind : {"link"}, inode : 0 .. Len(disk.content)],
             Change([disk EXCEPT !.entry[p] = node])
      PROVE  IInv'
  <2> DEFINE after == [disk EXCEPT !.entry[p] = node]
  <2>1. /\ node \in Node /\ node.inode \in 0 .. Len(disk.content)
        /\ node.kind = "file" <=> (node.inode # 0 /\ node.kind # "link")
    BY <1>1 DEF Node, Kind
  <2>2. p \in Dirs \X Names
    BY DEF Reach
  <2>3. /\ after \in Layout /\ after.content = disk.content
        /\ after.entry = [disk.entry EXCEPT ![p] = node]
    BY <1>1, <2>1, <2>2 DEF Layout
  <2>4. SoundLayout(after)
    BY <1>1, <2>1, <2>2, <2>3 DEF SoundLayout, Layout
  <2>5. Len(after.content) >= Len(disk.content)
    <3>1. Len(disk.content) \in Nat
      BY <1>1
    <3> QED
      BY <2>3, <3>1
  <2>6. Change(after)
    BY <1>2
  <2> HIDE DEF after
  <2> QED
    BY <2>4, <2>5, <2>6, ChangeStep
<1>3. ASSUME NEW p \in Reach \X Names, NEW c \in Written,
             Change([disk EXCEPT !.entry[p] = [kind |-> "file", inode |-> Len(disk.content) + 1],
                                 !.content = Append(disk.content, c)])
      PROVE  IInv'
  <2> DEFINE node  == [kind |-> "file", inode |-> Len(disk.content) + 1]
             after == [disk EXCEPT !.entry[p] = node, !.content = Append(disk.content, c)]
  <2>1. node \in Node
    BY <1>1 DEF Node, Kind
  <2>2. p \in Dirs \X Names /\ c \in Content
    BY LoaderAssumption DEF Reach
  <2>3. /\ Append(disk.content, c) \in Seq(Content)
        /\ Len(Append(disk.content, c)) = Len(disk.content) + 1
        /\ Len(disk.content) \in Nat
    BY <1>1, <2>2
  <2>4. /\ after \in Layout /\ after.content = Append(disk.content, c)
        /\ after.entry = [disk.entry EXCEPT ![p] = node]
    BY <1>1, <2>1, <2>2, <2>3 DEF Layout
  <2>5. ASSUME NEW q \in Dirs \X Names
        PROVE  /\ after.entry[q].inode \in 0 .. Len(after.content)
               /\ after.entry[q].kind = "file"
                    <=> (after.entry[q].inode # 0 /\ after.entry[q].kind # "link")
    <3>1. CASE q = p
      <4>1. after.entry[q] = node
        BY <1>1, <2>4, <3>1 DEF Layout
      <4> QED
        BY <2>3, <2>4, <4>1
    <3>2. CASE q # p
      <4>1. after.entry[q] = disk.entry[q]
        BY <1>1, <2>4, <3>2 DEF Layout
      <4> QED
        BY <1>1, <2>3, <2>4, <4>1 DEF SoundLayout
    <3> QED
      BY <3>1, <3>2
  <2>6. SoundLayout(after)
    BY <2>4, <2>5 DEF SoundLayout
  <2>7. Len(after.content) >= Len(disk.content)
    BY <2>3, <2>4
  <2>8. Change(after)
    BY <1>3
  <2> HIDE DEF after
  <2> QED
    BY <2>6, <2>7, <2>8, ChangeStep
<1> QED
  BY <1>2, <1>3 DEF Rename

LEMMA RewriteStep ==
  ASSUME IInv, Rewrite
  PROVE  IInv'
<1>1. SoundLayout(disk) /\ disk \in Layout /\ disk.content \in Seq(Content)
  BY DEF IInv, SoundLayout, Layout
<1>2. PICK i \in DOMAIN disk.content, c \in Written : Change([disk EXCEPT !.content[i] = c])
  BY DEF Rewrite
<1> DEFINE after == [disk EXCEPT !.content[i] = c]
<1>3. c \in Content
  BY LoaderAssumption
<1>4. /\ [disk.content EXCEPT ![i] = c] \in Seq(Content)
      /\ Len([disk.content EXCEPT ![i] = c]) = Len(disk.content)
      /\ Len(disk.content) \in Nat
  BY <1>1, <1>3
<1>5. /\ after \in Layout /\ after.entry = disk.entry
      /\ after.content = [disk.content EXCEPT ![i] = c]
  BY <1>1, <1>4 DEF Layout
<1>6. SoundLayout(after)
  BY <1>1, <1>4, <1>5 DEF SoundLayout
<1>7. Len(after.content) >= Len(disk.content)
  BY <1>4, <1>5
<1> HIDE DEF after
<1>8. Change(after)
  BY <1>2 DEF after
<1> QED
  BY <1>6, <1>7, <1>8, ChangeStep

LEMMA GitStep ==
  ASSUME IInv, SetGit
  PROVE  IInv'
<1>1. SoundLayout(disk) /\ disk \in Layout /\ disk.content \in Seq(Content)
  BY DEF IInv, SoundLayout, Layout
<1>2. PICK d \in Reach, g \in {"none", "file", "directory"} :
        Change([disk EXCEPT !.git[d] = g])
  BY DEF SetGit
<1> DEFINE after == [disk EXCEPT !.git[d] = g]
<1>3. after \in Layout /\ after.entry = disk.entry /\ after.content = disk.content
  BY <1>1 DEF Layout, Reach
<1>4. SoundLayout(after)
  BY <1>1, <1>3 DEF SoundLayout
<1>5. Len(after.content) >= Len(disk.content)
  <2>1. Len(disk.content) \in Nat
    BY <1>1
  <2> QED
    BY <1>3, <2>1
<1>6. Change(after)
  BY <1>2
<1> HIDE DEF after
<1> QED
  BY <1>4, <1>5, <1>6, ChangeStep

-----------------------------------------------------------------------------
LEMMA InitIInv == Init => IInv
<1> SUFFICES ASSUME Init PROVE IInv
  OBVIOUS
<1>1. SoundLayout(disk) /\ disk \in Layout /\ Len(disk.content) \in Nat
  <2>1. SoundLayout(disk)
    BY LoaderAssumption DEF Init
  <2>2. disk \in Layout
    BY <2>1 DEF SoundLayout
  <2>3. disk.content \in Seq(Content)
    BY <2>2 DEF Layout
  <2>4. Len(disk.content) \in Nat
    BY <2>3
  <2> QED
    BY <2>1, <2>2, <2>4
<1>2. RegularIn(disk) \subseteq (Dirs \X Names) \X Nat
  BY <1>1 DEF RegularIn, Layout, Node
<1>3. AbsentIn(disk) \subseteq Dirs \X (Names \cup {".git"})
  BY DEF AbsentIn
<1>4. Nothing \in Stat
  BY DEF Nothing, Stat, Kind
<1>5. 1 \in Dirs /\ 1 <= MaxAncestors /\ 0 \in 0 .. MaxEdits
  BY LoaderAssumption DEF Dirs
<1>6. TypeOK
  BY <1>1, <1>2, <1>3, <1>4, <1>5 DEF Init, TypeOK, Nothing, Kind, Names, Pending
<1>7. HistoryInv /\ PhaseInv /\ (handle.kind = "file" => handle.inode # 0)
  BY DEF Init, HistoryInv, PhaseInv, Running, Nothing
<1>8. WalkInv
  BY DEF Init, WalkInv, Missing, Loaded, Pending
<1>9. FileInv
  BY DEF Init, FileInv, Loaded, Pending
<1> QED
  BY <1>1, <1>6, <1>7, <1>8, <1>9 DEF IInv

LEMMA NextIInv == IInv /\ [Next]_vars => IInv'
<1> SUFFICES ASSUME IInv, [Next]_vars PROVE IInv'
  OBVIOUS
<1>1. CASE Load
  BY <1>1, BeginStep, CanonicalStep, LegacyStep, BoundaryStep, RestatStep, OpenStep, CheckStep,
     ReadStep, ParseStep, ServeStep DEF Load
<1>2. CASE Rename \/ Rewrite \/ SetGit
  BY <1>2, RenameStep, RewriteStep, GitStep
<1>3. CASE UNCHANGED vars
  <2> USE <1>3 DEF vars
  <2>1. TypeOK' /\ SoundLayout(disk)' /\ HistoryInv' /\ PhaseInv'
    BY DEF IInv, TypeOK, SoundLayout, HistoryInv, PhaseInv, Running, RegularIn, AbsentIn
  <2>2. ASSUME call.api \in Walking PROVE WalkInv' /\ FileInv'
    BY <2>2 DEF IInv, WalkInv, FileInv, BothAbsent, Missing, Loaded
  <2> QED
    BY <2>1, <2>2 DEF IInv
<1> QED
  BY <1>1, <1>2, <1>3 DEF Next

LEMMA Invariance == Spec => []IInv
BY InitIInv, NextIInv, PTL DEF Spec

(* The loaders keep their types, for any file system, depth and policy.    *)
THEOREM TypeCorrect == Spec => []TypeOK
<1>1. IInv => TypeOK
  BY DEF IInv
<1> QED
  BY <1>1, Invariance, PTL

(* Whatever is renamed, linked or rewritten while it runs, and however     *)
(* often, the hardened loader reads a file that was a regular file at the  *)
(* path it reports (read_selected).                                        *)
THEOREM ReadCorrect == Spec => []ReadsAValidatedFile
<1>1. IInv => ReadsAValidatedFile
  <2> SUFFICES ASSUME IInv, Loaded, call.api \in Walking
               PROVE  <<result.path, handle.inode>> \in regular /\ ~input[1].big
    BY DEF ReadsAValidatedFile
  <2> QED
    BY DEF IInv, FileInv
<1> QED
  BY <1>1, Invariance, PTL

(* The hardened walk passes by only what was absent, and reports that      *)
(* there is no configuration only from the boundary or the end of the walk *)
(* (discover_project_config_hardened).                                     *)
THEOREM NearestCorrect == Spec => []NearestConfigGoverns
<1>1. IInv => NearestConfigGoverns
  <2> SUFFICES ASSUME IInv, call.api \in Walking
               PROVE  NearestConfigGoverns
    BY DEF NearestConfigGoverns
  <2>1. WalkInv
    BY DEF IInv
  <2> QED
    BY <2>1 DEF WalkInv, NearestConfigGoverns, BothAbsent, Missing
<1> QED
  BY <1>1, Invariance, PTL

-----------------------------------------------------------------------------
(* While nobody changes the file system, the history says what is there.   *)
StillInv == edits = 0 => regular = RegularIn(disk) /\ absent = AbsentIn(disk)

(* What the loaders that do not walk take the selected name for.           *)
Selected(n) ==
  IF call.api = "authority"
    THEN Metadata(1, n).kind # "none" /\ Metadata(1, Other(n)).kind = "none"
  ELSE Holds(1, n) /\ ~Holds(1, Other(n))

FirstInv ==
  call.api \notin Walking =>
    /\ dir = 1 /\ pc \notin {"boundary", "restat", "check"}
    /\ Loaded => result.path = <<1, name>>
    /\ pc = "parse" \/ Loaded => handle.kind = "file"
    /\ edits = 0 =>
         /\ pc = "legacy" => seen["canonical"] = Look(1, "canonical")
         /\ pc \in {"open", "read", "parse"} \/ Loaded => Selected(name)
         /\ pc \in {"read", "parse"} \/ Loaded => handle.kind = Metadata(1, name).kind

(* What is known of the policy before it is served.                        *)
PolicyInv ==
  /\ pc \notin {"begin", "returned", "served"} \/ Loaded => CentralError = "none"
  /\ pc = "parse" \/ Loaded => input[1] \in Content
  /\ Loaded =>
       /\ Resolved(input[1].doc).ok /\ result.policy = Resolved(input[1].doc).value
       /\ NotAdmitted(result.policy) = "none"
  /\ pc = "served" =>
       /\ Loaded /\ call.api # "authority"
       /\ served = {a \in ConsumerAction : ConsumerActionDenied(result.policy.set, a) = "none"}

AgreeInv == StillInv /\ FirstInv /\ PolicyInv

(* A load leaves the file system and its call alone; the others count      *)
(* their changes.                                                          *)
LEMMA LoadKeepsWorld == Load => UNCHANGED <<disk, edits, regular, absent, call>>
BY DEF Load, Begin, LookAtCanonical, LookAtLegacy, Select, LookAtBoundary, Restat, Open,
       CheckHandle, Read, Parse, Serve, Return, Refuse, RefusePolicy, world

LEMMA OthersChange == Rename \/ Rewrite \/ SetGit => \E after : Change(after)
BY DEF Rename, Rewrite, SetGit

LEMMA StillStep ==
  ASSUME IInv, StillInv, Next
  PROVE  StillInv'
<1>1. CASE Load
  BY <1>1, LoadKeepsWorld DEF StillInv, RegularIn, AbsentIn
<1>2. CASE \E after : Change(after)
  BY <1>2 DEF Change, IInv, TypeOK, StillInv
<1> QED
  BY <1>1, <1>2, OthersChange DEF Next

(* What a look tells changes only with the file system.                    *)
LEMMA SameLooks ==
  ASSUME UNCHANGED <<disk, call>>
  PROVE  /\ \A d, n : Metadata(d, n)' = Metadata(d, n) /\ Look(d, n)' = Look(d, n)
         /\ \A n : Selected(n)' <=> Selected(n)
         /\ CentralError' = CentralError
<1>1. \A d, n : Metadata(d, n)' = Metadata(d, n)
  BY DEF Metadata, SymlinkMetadata
<1>2. \A d, n : Look(d, n)' = Look(d, n)
  BY <1>1 DEF Look, SymlinkMetadata, Denied
<1>3. \A n : Selected(n)' <=> Selected(n)
  BY <1>1 DEF Selected, Holds, Denied
<1> QED
  BY <1>1, <1>2, <1>3 DEF CentralError

LEMMA ReturnKeeps ==
  ASSUME FirstInv, NEW r, Return(r), r.kind # "loaded"
  PROVE  FirstInv' /\ PolicyInv'
BY DEF Return, FirstInv, PolicyInv, Loaded

LEMMA RefuseKeeps ==
  ASSUME FirstInv, NEW e, Refuse(e) \/ RefusePolicy(e)
  PROVE  FirstInv' /\ PolicyInv'
BY ReturnKeeps DEF Refuse, RefusePolicy

(* A step of a load that goes on keeps what is known of its policy.        *)
LEMMA PolicyGoesOn ==
  ASSUME PolicyInv, UNCHANGED <<call, input, result, served>>, ~Loaded,
         pc \in {"begin", "parse"} => pc' = "canonical" /\ CentralError = "none",
         pc \notin {"returned", "served"}, pc' \notin {"parse", "returned", "served"}
  PROVE  PolicyInv'
<1>1. CentralError' = CentralError
  BY DEF CentralError
<1> QED
  BY <1>1 DEF PolicyInv, Loaded

LEMMA BeginKeeps ==
  ASSUME IInv, AgreeInv, Begin
  PROVE  FirstInv' /\ PolicyInv'
<1>1. CASE \E e : Refuse(e) \/ RefusePolicy(e)
  BY <1>1, RefuseKeeps DEF AgreeInv
<1>2. CASE /\ CentralError = "none" /\ pc' = "canonical"
           /\ UNCHANGED <<world, call, dir, seen, name, restat, handle, input, result, served>>
  <2>1. pc = "begin" /\ ~Loaded
    BY DEF Begin, IInv, PhaseInv, Running, Pending, Loaded
  <2>2. FirstInv'
    BY <1>2, <2>1 DEF AgreeInv, FirstInv, Loaded
  <2>3. PolicyInv'
    BY <1>2, <2>1, PolicyGoesOn DEF AgreeInv
  <2> QED
    BY <2>2, <2>3
<1> QED
  BY <1>1, <1>2 DEF Begin

LEMMA CanonicalKeeps ==
  ASSUME IInv, AgreeInv, LookAtCanonical
  PROVE  FirstInv' /\ PolicyInv'
<1>1. CASE Refuse(LookError)
  BY <1>1, RefuseKeeps DEF AgreeInv
<1>2. CASE /\ seen' = [seen EXCEPT !["canonical"] = Look(dir, "canonical")]
           /\ pc' = "legacy"
           /\ UNCHANGED <<world, call, dir, name, restat, handle, input, result, served>>
  <2>1. pc = "canonical" /\ ~Loaded
    BY DEF LookAtCanonical, IInv, PhaseInv, Running, Pending, Loaded
  <2>2. seen'["canonical"] = Look(dir, "canonical")
    BY <1>2 DEF IInv, TypeOK, Names
  <2>3. FirstInv'
    BY <1>2, <2>1, <2>2, SameLooks DEF AgreeInv, FirstInv, Loaded, world
  <2>4. PolicyInv'
    BY <1>2, <2>1, PolicyGoesOn DEF AgreeInv
  <2> QED
    BY <2>3, <2>4
<1> QED
  BY <1>1, <1>2 DEF LookAtCanonical

(* One name is there and the other is not: the one that is selected.       *)
LEMMA LegacyKeeps ==
  ASSUME IInv, AgreeInv, LookAtLegacy
  PROVE  FirstInv' /\ PolicyInv'
<1> DEFINE found == [seen EXCEPT !["legacy"] = Look(dir, "legacy")]
           there == {n \in Names : found[n].kind # "none"}
<1>1. pc = "legacy" /\ ~Loaded /\ seen \in [Names -> Stat]
  BY DEF LookAtLegacy, IInv, TypeOK, PhaseInv, Running, Pending, Loaded
<1>2. CASE (\E e : Refuse(e)) \/ Return([kind |-> "absent"])
  BY <1>2, RefuseKeeps, ReturnKeeps DEF AgreeInv
<1>3. ASSUME NEW n \in Names, there = {n}, name' = n,
             pc' = IF call.api \in Walking THEN "restat" ELSE "open",
             UNCHANGED <<world, call, dir, restat, handle, input, result, served>>
      PROVE  FirstInv' /\ PolicyInv'
  <2>1. ASSUME call.api \notin Walking, edits = 0 PROVE Selected(n)
    <3>1. dir = 1 /\ seen["canonical"] = Look(1, "canonical")
      BY <1>1, <2>1 DEF AgreeInv, FirstInv
    <3>2. \A m \in Names : found[m] = Look(1, m)
      BY <1>1, <3>1 DEF Names
    <3>3. Other(n) \in Names /\ Other(n) # n
      BY DEF Names, Other
    <3>4. Look(1, n).kind # "none" /\ Look(1, Other(n)).kind = "none"
      BY <1>3, <3>2, <3>3
    <3> QED
      BY <2>1, <3>4 DEF Look, Selected, Holds, Nothing
  <2>2. FirstInv'
    BY <1>1, <1>3, <2>1, SameLooks DEF AgreeInv, FirstInv, Loaded, world
  <2>3. PolicyInv'
    BY <1>1, <1>3, PolicyGoesOn DEF AgreeInv
  <2> QED
    BY <2>2, <2>3
<1>4. CASE /\ call.api \in Walking /\ pc' = "boundary"
           /\ UNCHANGED <<world, call, dir, name, restat, handle, input, result, served>>
  <2>1. FirstInv'
    BY <1>4 DEF FirstInv
  <2>2. PolicyInv'
    BY <1>1, <1>4, PolicyGoesOn DEF AgreeInv
  <2> QED
    BY <2>1, <2>2
<1> QED
  BY <1>2, <1>3, <1>4 DEF LookAtLegacy, Select

(* Of the steps the hardened walk takes alone, only the policy matters.    *)
LEMMA WalkKeeps ==
  ASSUME IInv, AgreeInv, LookAtBoundary \/ Restat \/ CheckHandle
  PROVE  FirstInv' /\ PolicyInv'
<1>1. CASE \E e : Refuse(e)
  BY <1>1, RefuseKeeps DEF AgreeInv
<1>2. CASE /\ UNCHANGED <<world, call, input, result, served>>
           /\ pc' \in {"canonical", "open", "read"}
  <2>1. pc \in {"boundary", "restat", "check"} /\ ~Loaded
    BY DEF LookAtBoundary, Restat, CheckHandle, IInv, PhaseInv, Running, Pending, Loaded
  <2>2. FirstInv'
    BY <1>2, <2>1 DEF AgreeInv, FirstInv
  <2>3. PolicyInv'
    BY <1>2, <2>1, PolicyGoesOn DEF AgreeInv
  <2> QED
    BY <2>2, <2>3
<1> QED
  BY <1>1, <1>2 DEF LookAtBoundary, Restat, CheckHandle

LEMMA OpenKeeps ==
  ASSUME IInv, AgreeInv, Open
  PROVE  FirstInv' /\ PolicyInv'
<1>1. CASE Refuse("Io")
  BY <1>1, RefuseKeeps DEF AgreeInv
<1>2. CASE /\ handle' = [kind |-> Metadata(dir, name).kind, inode |-> Metadata(dir, name).inode]
           /\ pc' = IF call.api \in Walking THEN "check" ELSE "read"
           /\ UNCHANGED <<world, call, dir, seen, name, restat, input, result, served>>
  <2>1. pc = "open" /\ ~Loaded
    BY DEF Open, IInv, PhaseInv, Running, Pending, Loaded
  <2>2. handle'.kind = Metadata(dir, name).kind
    BY <1>2
  <2>3. FirstInv'
    BY <1>2, <2>1, <2>2, SameLooks DEF AgreeInv, FirstInv, Loaded, world
  <2>4. PolicyInv'
    BY <1>2, <2>1, PolicyGoesOn DEF AgreeInv
  <2> QED
    BY <2>3, <2>4
<1> QED
  BY <1>1, <1>2 DEF Open

LEMMA ReadKeeps ==
  ASSUME IInv, AgreeInv, Read
  PROVE  FirstInv' /\ PolicyInv'
<1>1. CASE \E e : Refuse(e)
  BY <1>1, RefuseKeeps DEF AgreeInv
<1>2. CASE /\ handle.kind = "file"
           /\ input' = <<disk.content[handle.inode]>> /\ pc' = "parse"
           /\ UNCHANGED <<world, call, dir, seen, name, restat, handle, result, served>>
  <2>1. pc = "read" /\ ~Loaded
    BY DEF Read, IInv, PhaseInv, Running, Pending, Loaded
  <2>2. disk.content \in Seq(Content) /\ handle.inode \in 1 .. Len(disk.content)
    BY <1>2 DEF IInv, TypeOK, SoundLayout, Layout
  <2>3. input'[1] \in Content
    BY <1>2, <2>2
  <2>4. FirstInv'
    BY <1>2, <2>1, SameLooks DEF AgreeInv, FirstInv, Loaded, world
  <2>5. PolicyInv'
    BY <1>2, <2>1, <2>3 DEF AgreeInv, PolicyInv, Loaded, CentralError
  <2> QED
    BY <2>4, <2>5
<1> QED
  BY <1>1, <1>2 DEF Read

LEMMA ParseKeeps ==
  ASSUME IInv, AgreeInv, Parse
  PROVE  FirstInv' /\ PolicyInv'
<1> DEFINE resolved == Resolved(input[1].doc)
           r == [kind |-> "loaded", path |-> <<dir, name>>, policy |-> resolved.value]
<1>1. CASE \E e : RefusePolicy(e)
  BY <1>1, RefuseKeeps DEF AgreeInv
<1>2. CASE resolved.ok /\ NotAdmitted(resolved.value) = "none" /\ Return(r)
  <2>1. /\ pc = "parse" /\ pc' = "returned" /\ result' = r
        /\ UNCHANGED <<world, call, dir, seen, name, restat, handle, input, served>>
    BY <1>2 DEF Parse, Return
  <2>2. result'.path = <<dir, name>> /\ result'.policy = resolved.value
    BY <2>1
  <2>3. FirstInv'
    BY <2>1, <2>2, SameLooks DEF AgreeInv, FirstInv, Loaded, world
  <2>4. resolved' = resolved /\ NotAdmitted(resolved.value)' = NotAdmitted(resolved.value)
    BY <2>1 DEF Resolved, NotAdmitted
  <2>5. PolicyInv'
    BY <1>2, <2>1, <2>2, <2>4 DEF AgreeInv, PolicyInv, CentralError, Resolved, NotAdmitted
  <2> QED
    BY <2>3, <2>5
<1> QED
  BY <1>1, <1>2 DEF Parse

LEMMA ServeKeeps ==
  ASSUME IInv, AgreeInv, Serve
  PROVE  FirstInv' /\ PolicyInv'
<1>1. /\ pc = "returned" /\ pc' = "served" /\ Loaded /\ call.api # "authority"
      /\ UNCHANGED <<world, call, dir, seen, name, restat, handle, input, result>>
      /\ served' = {a \in ConsumerAction : ConsumerActionDenied(result.policy.set, a) = "none"}
  BY DEF Serve, Loaded
<1>2. FirstInv'
  BY <1>1, SameLooks DEF AgreeInv, FirstInv, Loaded, world
<1>3. PolicyInv'
  BY <1>1 DEF AgreeInv, PolicyInv, Loaded, CentralError, Resolved, NotAdmitted
<1> QED
  BY <1>2, <1>3

LEMMA ChangeKeeps ==
  ASSUME IInv, AgreeInv, NEW after, Change(after)
  PROVE  FirstInv' /\ PolicyInv'
<1>1. /\ ~Loaded /\ edits' # 0
      /\ UNCHANGED <<call, pc, dir, seen, name, restat, handle, input, result, served>>
  BY DEF Change, IInv, TypeOK, PhaseInv, Pending, Loaded
<1>2. FirstInv'
  BY <1>1 DEF AgreeInv, FirstInv, Loaded
<1>3. PolicyInv'
  BY <1>1 DEF AgreeInv, PolicyInv, Loaded, CentralError, Change, Running
<1> QED
  BY <1>2, <1>3

LEMMA NextAgreeInv == IInv /\ AgreeInv /\ [Next]_vars => AgreeInv'
<1> SUFFICES ASSUME IInv, AgreeInv, [Next]_vars PROVE AgreeInv'
  OBVIOUS
<1>1. CASE Next
  <2>1. StillInv'
    BY <1>1, StillStep DEF AgreeInv
  <2>2. FirstInv' /\ PolicyInv'
    BY <1>1, BeginKeeps, CanonicalKeeps, LegacyKeeps, WalkKeeps, OpenKeeps, ReadKeeps, ParseKeeps,
       ServeKeeps, ChangeKeeps, OthersChange DEF Next, Load
  <2> QED
    BY <2>1, <2>2 DEF AgreeInv
<1>2. CASE UNCHANGED vars
  <2>1. StillInv'
    BY <1>2 DEF vars, AgreeInv, StillInv, RegularIn, AbsentIn
  <2>2. FirstInv'
    BY <1>2, SameLooks DEF vars, AgreeInv, FirstInv, Loaded
  <2>3. PolicyInv'
    BY <1>2 DEF vars, AgreeInv, PolicyInv, Loaded, CentralError, Resolved, NotAdmitted
  <2> QED
    BY <2>1, <2>2, <2>3 DEF AgreeInv
<1> QED
  BY <1>1, <1>2

LEMMA AgreeInvHolds == Spec => []AgreeInv
<1>1. Init => AgreeInv
  BY DEF Init, AgreeInv, StillInv, FirstInv, PolicyInv, Loaded, Pending
<1> QED
  BY <1>1, NextAgreeInv, Invariance, PTL DEF Spec

-----------------------------------------------------------------------------
(* A list of checks goes well just when each of them does.                 *)
LEMMA FirstErrorOf2 ==
  ASSUME NEW a, NEW b
  PROVE  FirstError(<<a, b>>) = "none" <=> a = "none" /\ b = "none"
<1> DEFINE e == <<a, b>>
           bad == {i \in DOMAIN e : e[i] # "none"}
           i == CHOOSE i \in bad : \A j \in bad : i <= j
<1>1. DOMAIN e = {1, 2} /\ e[1] = a /\ e[2] = b
  OBVIOUS
<1>2. ASSUME bad # {} PROVE i \in bad
  <2>1. 1 \in bad \/ 2 \in bad
    BY <1>1, <1>2
  <2>2. \E k \in bad : \A j \in bad : k <= j
    BY <1>1, <2>1
  <2> QED
    BY <2>2
<1>3. FirstError(e) = IF bad = {} THEN "none" ELSE e[i]
  BY DEF FirstError
<1> QED
  BY <1>1, <1>2, <1>3

LEMMA FirstErrorOf3 ==
  ASSUME NEW a, NEW b, NEW c
  PROVE  FirstError(<<a, b, c>>) = "none" <=> a = "none" /\ b = "none" /\ c = "none"
<1> DEFINE e == <<a, b, c>>
           bad == {i \in DOMAIN e : e[i] # "none"}
           i == CHOOSE i \in bad : \A j \in bad : i <= j
<1>1. DOMAIN e = {1, 2, 3} /\ e[1] = a /\ e[2] = b /\ e[3] = c
  OBVIOUS
<1>2. ASSUME bad # {} PROVE i \in bad
  <2>1. 1 \in bad \/ 2 \in bad \/ 3 \in bad
    BY <1>1, <1>2
  <2>2. \E k \in bad : \A j \in bad : k <= j
    BY <1>1, <2>1
  <2> QED
    BY <2>2
<1>3. FirstError(e) = IF bad = {} THEN "none" ELSE e[i]
  BY DEF FirstError
<1> QED
  BY <1>1, <1>2, <1>3

(* The two parsers, each with errors of its own, admit the same documents. *)
LEMMA ParsersAgree ==
  ASSUME NEW doc
  PROVE  /\ ParseToml(doc).ok <=> AuthorityParse(doc).ok
         /\ ParseToml(doc).ok => /\ doc.parses /\ ParseToml(doc).value = doc
                                 /\ CompatibilityError(doc.compatibility) = "none"
<1> DEFINE c == CompatibilityError(doc.compatibility)
           s == SettingsError(doc.set)
           mine == FirstError(<<IF doc.schema = 1 THEN "none" ELSE "Invalid", c, s>>)
<1>1. OverlayError(doc) = "none" <=> doc.schema = 1 /\ c = "none" /\ s = "none"
  BY FirstErrorOf3 DEF OverlayError
<1>2. mine = "none" <=> doc.schema = 1 /\ c = "none" /\ s = "none"
  BY FirstErrorOf3
<1>3. ParseToml(doc).ok <=> doc.parses /\ OverlayError(doc) = "none"
  BY DEF ParseToml, Fail, Success
<1>4. AuthorityParse(doc).ok <=> doc.parses /\ mine = "none"
  BY DEF AuthorityParse, Fail, Success
<1>5. ParseToml(doc).ok => ParseToml(doc).value = doc
  BY DEF ParseToml, Fail, Success
<1> QED
  BY <1>1, <1>2, <1>3, <1>4, <1>5

(* Of a document that was parsed, both admit the same revisions.           *)
LEMMA RevisionsAgree ==
  ASSUME NEW c, CompatibilityError(c) = "none", NEW r
  PROVE  RevisionError(c, r) = "none" <=> CompatibilityAllows(c, r)
<1>1. RevisionError(c, r) = "none" <=>
        /\ ShaError(r) = "none" /\ CompatibilityError(c) = "none"
        /\ (IF Allows(c, r) THEN "none" ELSE "RevisionNotAdmitted") = "none"
  BY FirstErrorOf3 DEF RevisionError
<1>2. ShaError(r) = "none" <=> r \in Revisions
  BY DEF ShaError
<1> QED
  BY <1>1, <1>2 DEF CompatibilityAllows

(* Metadata follows links only.                                            *)
LEMMA EntryTells ==
  ASSUME NEW d, NEW n
  PROVE  disk.entry[<<d, n>>].kind \in {"none", "file"}
           => Metadata(d, n).kind = disk.entry[<<d, n>>].kind
BY DEF Metadata, SymlinkMetadata

(* What the walk may select, said without CASE.                            *)
LEMMA WalkChoice ==
  ASSUME NEW api, api \in Walking
  PROVE  /\ Choice(api) \subseteq Dirs \X Names
         /\ \A p \in Dirs \X Names :
              p \in Choice(api) <=>
                /\ disk.entry[p].kind = "file"
                /\ \A e \in 1 .. p[1], m \in Names :
                     <<e, m>> = p \/ disk.entry[<<e, m>>].kind = "none"
                /\ \A e \in 1 .. p[1] - 1 : disk.git[e] = "none"
<1> DEFINE Nearest(p) ==
             /\ disk.entry[p].kind = "file"
             /\ \A e \in 1 .. p[1], m \in Names : <<e, m>> = p \/ disk.entry[<<e, m>>].kind = "none"
             /\ \A e \in 1 .. p[1] - 1 : disk.git[e] = "none"
           Walked == {p \in Dirs \X Names : Nearest(p)}
           Read1  == {p \in {1} \X Names : /\ Metadata(1, p[2]).kind # "none"
                                           /\ Metadata(1, Other(p[2])).kind = "none"}
           Plain1 == {p \in {1} \X Names : Holds(1, p[2]) /\ ~Holds(1, Other(p[2]))}
<1>1. Choice(api) = CASE api \in Walking -> Walked [] api = "authority" -> Read1
                      [] OTHER -> Plain1
  BY Zenon DEF Choice
<1> HIDE DEF Walked, Read1, Plain1
<1>2. Choice(api) = Walked
  BY <1>1 DEF Walking
<1> HIDE DEF Nearest
<1>3. Walked \subseteq Dirs \X Names /\ \A p \in Dirs \X Names : p \in Walked <=> Nearest(p)
  BY DEF Walked
<1> QED
  BY <1>2, <1>3 DEF Nearest

(* A loaded file that is alone in its directory, with none below it, is    *)
(* all that any loader may select.                                         *)
LEMMA OnlyChoice ==
  ASSUME NEW d \in Dirs, NEW n \in Names,
         Metadata(d, n).kind = "file",
         \A e \in 1 .. d - 1, m \in Names : disk.entry[<<e, m>>].kind = "none",
         d = 1 => Holds(1, n) \/ Metadata(1, Other(n)).kind = "none",
         NEW api \in Api
  PROVE  Choice(api) \subseteq {<<d, n>>}
<1> SUFFICES ASSUME NEW q \in Choice(api), q # <<d, n>> PROVE FALSE
  OBVIOUS
<1>1. Dirs \subseteq Nat \ {0} /\ 1 \in Dirs
  BY LoaderAssumption DEF Dirs
<1>2. disk.entry[<<d, n>>].kind # "none"
  BY EntryTells
<1>3. \A m \in Names : m # n => Other(m) = n /\ m = Other(n)
  BY DEF Names, Other
<1>4. CASE api \in Walking
  <2>1. q \in Dirs \X Names
    BY <1>4, WalkChoice
  <2>2. q = <<q[1], q[2]>> /\ q[1] \in Dirs /\ q[2] \in Names
    BY <2>1
  <2>5. /\ disk.entry[q].kind = "file"
        /\ \A e \in 1 .. q[1], m \in Names : <<e, m>> = q \/ disk.entry[<<e, m>>].kind = "none"
    BY <1>4, <2>1, WalkChoice
  <2>3. CASE q[1] < d
    <3>1. q[1] \in 1 .. d - 1
      BY <1>1, <2>2, <2>3
    <3> QED
      BY <2>5, <2>2, <3>1
  <2>4. CASE d <= q[1]
    <3>1. d \in 1 .. q[1]
      BY <1>1, <2>2, <2>4
    <3> QED
      BY <1>2, <2>5, <3>1
  <2> QED
    BY <1>1, <2>2, <2>3, <2>4
<1>5. CASE api \notin Walking
  <2>1. PICK m \in Names : /\ q = <<1, m>> /\ Metadata(1, m).kind # "none"
                           /\ api = "authority" => Metadata(1, Other(m)).kind = "none"
                           /\ api # "authority" => Holds(1, m) /\ ~Holds(1, Other(m))
    BY <1>5 DEF Choice, Holds
  <2>2. CASE d # 1
    <3>1. 1 \in 1 .. d - 1
      BY <1>1, <2>2
    <3>2. disk.entry[<<1, m>>].kind = "none"
      BY <3>1
    <3> QED
      BY <2>1, <3>2, EntryTells
  <2>3. CASE d = 1
    BY <1>3, <2>1, <2>3 DEF Holds
  <2> QED
    BY <2>2, <2>3
<1> QED
  BY <1>4, <1>5

(* The file that was loaded, while the file system kept still.             *)
LEMMA LoadedFile ==
  ASSUME IInv, AgreeInv, Loaded, edits = 0
  PROVE  /\ result.path = <<dir, name>> /\ result.path \in Choice(call.api)
         /\ Metadata(dir, name).kind = "file"
         /\ \A e \in 1 .. dir - 1, m \in Names : disk.entry[<<e, m>>].kind = "none"
         /\ dir = 1 => Holds(1, name) \/ Metadata(1, Other(name)).kind = "none"
<1>1. /\ regular = RegularIn(disk) /\ absent = AbsentIn(disk)
      /\ dir \in Dirs /\ name \in Names /\ Other(name) \in Names
      /\ Dirs \subseteq Nat \ {0} /\ 1 \in Dirs
      /\ call.api \in Api
  BY LoaderAssumption DEF AgreeInv, StillInv, IInv, TypeOK, Dirs, Names, Other, Call, Api
<1>2. CASE call.api \in Walking
  <2>1. \A e \in Dirs, m \in Names : <<e, m>> \in absent => disk.entry[<<e, m>>].kind = "none"
    BY <1>1 DEF AbsentIn, Names
  <2>2. \A e \in Dirs : <<e, ".git">> \in absent => disk.git[e] = "none"
    BY <1>1 DEF AbsentIn, Names
  <2>3. disk.entry[<<dir, name>>].kind = "file"
    BY <1>1, <1>2 DEF IInv, FileInv, RegularIn
  <2>4. disk.entry[<<dir, Other(name)>>].kind = "none"
    BY <1>1, <1>2, <2>1 DEF IInv, WalkInv
  <2>5. \A e \in 1 .. dir - 1 : e \in Dirs /\ BothAbsent(e) /\ <<e, ".git">> \in absent
    <3>1. dir \in 1 .. Depth /\ Depth \in Nat
      BY <1>1, LoaderAssumption DEF Dirs
    <3>2. \A e \in 1 .. dir - 1 : e \in 1 .. Depth
      BY <3>1
    <3> QED
      BY <1>2, <3>2 DEF IInv, WalkInv, Dirs
  <2>6. \A e \in 1 .. dir - 1, m \in Names : disk.entry[<<e, m>>].kind = "none"
    BY <2>1, <2>5 DEF BothAbsent, Names
  <2>7. result.path = <<dir, name>>
    BY <1>2 DEF IInv, FileInv
  <2>8. \A e \in 1 .. dir, m \in Names :
          <<e, m>> = <<dir, name>> \/ disk.entry[<<e, m>>].kind = "none"
    <3> SUFFICES ASSUME NEW e \in 1 .. dir, NEW m \in Names, <<e, m>> # <<dir, name>>
                 PROVE  disk.entry[<<e, m>>].kind = "none"
      OBVIOUS
    <3>1. CASE e = dir
      <4>1. m = Other(name)
        BY <1>1, <3>1 DEF Names, Other
      <4> QED
        BY <2>4, <3>1, <4>1
    <3>2. CASE e # dir
      BY <1>1, <2>6, <3>2
    <3> QED
      BY <3>1, <3>2
  <2>9. <<dir, name>> \in Choice(call.api)
    <3> DEFINE p == <<dir, name>>
    <3>1. p \in Dirs \X Names /\ p[1] = dir /\ disk.entry[p].kind = "file"
      BY <1>1, <2>3
    <3>2. \A e \in 1 .. p[1], m \in Names : <<e, m>> = p \/ disk.entry[<<e, m>>].kind = "none"
      BY <2>8, <3>1
    <3>3. \A e \in 1 .. p[1] - 1 : disk.git[e] = "none"
      BY <2>2, <2>5, <3>1
    <3> HIDE DEF p
    <3>4. p \in Choice(call.api)
      BY <1>2, <3>1, <3>2, <3>3, WalkChoice
    <3> QED
      BY <3>4 DEF p
  <2> QED
    BY <2>3, <2>4, <2>6, <2>7, <2>9, EntryTells
<1>3. CASE call.api \notin Walking
  <2>1. /\ dir = 1 /\ result.path = <<1, name>> /\ Selected(name)
        /\ Metadata(1, name).kind = "file"
    BY <1>3 DEF AgreeInv, FirstInv
  <2>2. <<1, name>> \in Choice(call.api)
    BY <1>1, <1>3, <2>1 DEF Choice, Selected
  <2> QED
    BY <2>1, <2>2 DEF Selected
<1> QED
  BY <1>2, <1>3

(* Where the files keep still, no two of the loaders take different files, *)
(* and their parsers admit the same documents and revisions                *)
(* (find_project_config of config.rs, discover_project_config_hardened,    *)
(* discover of shared_auth_config.rs): for any file system and policy.     *)
THEOREM LoadersAgreeCorrect == Spec => []LoadersAgree
<1>1. IInv /\ AgreeInv => LoadersAgree
  <2> SUFFICES ASSUME IInv, AgreeInv, Loaded, edits = 0
               PROVE  /\ result.path \in Choice(call.api)
                      /\ \A api \in Api : Choice(api) \subseteq {result.path}
                      /\ ParseToml(input[1].doc).ok /\ AuthorityParse(input[1].doc).ok
                      /\ \A r \in Sha : CompatibilityAllows(input[1].doc.compatibility, r)
                           <=> RevisionError(input[1].doc.compatibility, r) = "none"
    BY DEF LoadersAgree
  <2>1. dir \in Dirs /\ name \in Names
    BY DEF IInv, TypeOK
  <2>2. ParseToml(input[1].doc).ok /\ AuthorityParse(input[1].doc).ok
    BY ParsersAgree DEF AgreeInv, PolicyInv, Resolved
  <2>3. CompatibilityError(input[1].doc.compatibility) = "none"
    BY <2>2, ParsersAgree
  <2> QED
    BY <2>1, <2>2, <2>3, LoadedFile, OnlyChoice, RevisionsAgree
<1> QED
  BY <1>1, Invariance, AgreeInvHolds, PTL

-----------------------------------------------------------------------------
LEMMA SettingNames ==
  Setting = {"two_factor.required", "two_factor.methods", "three_factor.enabled",
             "three_factor.methods", "pages.show", "theme", "brand_name", "accent_color"}
BY DEF Setting, Settings

LEMMA DefaultTypes ==
  /\ CompiledDefaults["pages.show"] \in Seq(AuthPage)
  /\ CompiledDefaults["two_factor.methods"] \in Seq(FactorMethod)
  /\ CompiledDefaults["three_factor.methods"] \in Seq(FactorMethod)
  /\ CompiledDefaults["three_factor.enabled"] \in BOOLEAN
<1>1. CompiledDefaults["pages.show"] = <<"sign-in", "challenge", "recovery", "error", "signed-out">>
  BY SettingNames DEF CompiledDefaults
<1>2. CompiledDefaults["two_factor.methods"] = <<"totp", "passkey", "security-key", "backup-code">>
  BY SettingNames DEF CompiledDefaults
<1>3. CompiledDefaults["three_factor.methods"] = <<"totp", "passkey", "security-key">>
  BY SettingNames DEF CompiledDefaults
<1>4. CompiledDefaults["three_factor.enabled"] = FALSE
  BY SettingNames DEF CompiledDefaults
<1>5. <<"sign-in", "challenge", "recovery", "error", "signed-out">> \in Seq(AuthPage)
  BY DEF AuthPage
<1>6. /\ <<"totp", "passkey", "security-key", "backup-code">> \in Seq(FactorMethod)
      /\ <<"totp", "passkey", "security-key">> \in Seq(FactorMethod)
  BY DEF FactorMethod
<1> QED
  BY Zenon, <1>1, <1>2, <1>3, <1>4, <1>5, <1>6

(* What resolves, resolves to its own settings over the defaults.          *)
LEMMA ResolveGives ==
  ASSUME NEW doc, NEW defaults, Resolve(doc, defaults).ok
  PROVE  /\ Resolve(doc, defaults).value.compatibility = doc.compatibility
         /\ \A s \in Setting :
              Resolve(doc, defaults).value.set[s]
                = IF s \in DOMAIN doc.set THEN doc.set[s] ELSE defaults[s]
<1> DEFINE set == [s \in Setting |-> IF s \in DOMAIN doc.set THEN doc.set[s] ELSE defaults[s]]
           error == FirstError(<<OverlayError(doc), SettingsError(set)>>)
<1>1. Resolve(doc, defaults) = IF error # "none" THEN Fail(error)
                               ELSE Success([compatibility |-> doc.compatibility, set |-> set])
  BY DEF Resolve
<1> HIDE DEF set, error
<1>2. Resolve(doc, defaults).value = [compatibility |-> doc.compatibility, set |-> set]
  BY <1>1 DEF Fail, Success
<1>3. Resolve(doc, defaults).value.compatibility = doc.compatibility
      /\ Resolve(doc, defaults).value.set = set
  BY <1>2
<1> QED
  BY <1>3 DEF set

(* A central policy that resolves is the checked-in document over the      *)
(* compiled defaults.                                                      *)
LEMMA CentralGives ==
  ASSUME CentralPolicy.ok
  PROVE  /\ Central.parses /\ CentralPolicy.value.compatibility = Central.compatibility
         /\ \A s \in Setting :
              CentralPolicy.value.set[s]
                = IF s \in DOMAIN Central.set THEN Central.set[s] ELSE CompiledDefaults[s]
<1>1. ParseToml(Central).ok
  BY DEF CentralPolicy
<1>2. Central.parses /\ ParseToml(Central).value = Central
  BY <1>1, ParsersAgree
<1>3. CentralPolicy = Resolve(Central, CompiledDefaults)
  BY <1>1, <1>2 DEF CentralPolicy
<1> QED
  BY <1>2, <1>3, ResolveGives

(* A policy that is refused is refused for a reason.                       *)
LEMMA RefusalsNamed ==
  /\ ~CentralPolicy.ok => CentralPolicy.error # "none"
  /\ \A r : ~CentralPolicyFor(r).ok => CentralPolicyFor(r).error # "none"
<1>1. \A doc : ~ParseToml(doc).ok => ParseToml(doc).error # "none"
  BY DEF ParseToml, Fail, Success
<1>2. ASSUME NEW doc, NEW defaults, ~Resolve(doc, defaults).ok
      PROVE  Resolve(doc, defaults).error # "none"
  <2> DEFINE set == [s \in Setting |-> IF s \in DOMAIN doc.set THEN doc.set[s] ELSE defaults[s]]
             error == FirstError(<<OverlayError(doc), SettingsError(set)>>)
  <2>1. Resolve(doc, defaults) = IF error # "none" THEN Fail(error)
                                 ELSE Success([compatibility |-> doc.compatibility, set |-> set])
    BY DEF Resolve
  <2> HIDE DEF set, error
  <2> QED
    BY <1>2, <2>1 DEF Fail, Success
<1>3. ~CentralPolicy.ok => CentralPolicy.error # "none"
  BY <1>1, <1>2 DEF CentralPolicy
<1> QED
  BY <1>3 DEF CentralPolicyFor, Fail

(* What the loader asked of the central policy before it looked at a file. *)
LEMMA CentralAsked ==
  ASSUME CentralError = "none", call.api \in {"central", "central_revision"}
  PROVE  /\ CentralPolicy.ok
         /\ call.api = "central_revision"
              => RevisionError(Central.compatibility, call.revision) = "none"
<1>1. CASE call.api = "central"
  BY <1>1, RefusalsNamed DEF CentralError
<1>2. CASE call.api = "central_revision"
  <2>1. CentralPolicyFor(call.revision).ok
    BY <1>2, RefusalsNamed DEF CentralError
  <2>2. CentralPolicy.ok
    BY <2>1 DEF CentralPolicyFor
  <2>3. RevisionError(CentralPolicy.value.compatibility, call.revision) = "none"
    BY <2>1, <2>2 DEF CentralPolicyFor, Fail
  <2> QED
    BY <2>2, <2>3, CentralGives
<1> QED
  BY <1>1, <1>2

LEMMA AdmittedWithin ==
  ASSUME NEW c \in Compatibility, NEW r, RevisionError(c, r) = "none"
  PROVE  r \in Revisions /\ Within(c, r)
<1>1. /\ ShaError(r) = "none" /\ CompatibilityError(c) = "none"
      /\ (IF Allows(c, r) THEN "none" ELSE "RevisionNotAdmitted") = "none"
  BY FirstErrorOf3 DEF RevisionError
<1>2. r \in Revisions /\ Allows(c, r)
  BY <1>1 DEF ShaError
<1>3. c.kind \in {"exact", "range"}
  BY DEF Compatibility
<1> QED
  BY <1>2, <1>3 DEF Allows, Within

(* The settings of a loaded policy are the declared ones.                  *)
LEMMA PolicyIsDeclared ==
  ASSUME IInv, AgreeInv, Loaded, call.api # "authority"
  PROVE  /\ \A s \in Setting : result.policy.set[s] = Declared(s)
         /\ WellFormed(input[1].doc)
         /\ result.policy.compatibility = input[1].doc.compatibility
         /\ call.api \in {"central", "central_revision"} => WellFormed(Central)
<1> DEFINE doc == input[1].doc
           central == call.api \in {"central", "central_revision"}
           defaults == IF central THEN CentralPolicy.value.set ELSE CompiledDefaults
<1>1. /\ input[1] \in Content /\ CentralError = "none"
      /\ Resolved(doc).ok /\ result.policy = Resolved(doc).value
  BY DEF AgreeInv, PolicyInv
<1>2. ParseToml(doc).ok /\ Resolved(doc) = Resolve(doc, defaults)
  BY <1>1, ParsersAgree DEF Resolved
<1>3. doc \in Documents /\ doc.parses
  BY <1>1, <1>2, ParsersAgree DEF Content
<1>4. WellFormed(doc)
  BY <1>3, DocumentAssumption
<1>5. /\ result.policy.compatibility = doc.compatibility
      /\ \A s \in Setting :
           result.policy.set[s] = IF s \in DOMAIN doc.set THEN doc.set[s] ELSE defaults[s]
  BY <1>1, <1>2, ResolveGives
<1>6. central => /\ WellFormed(Central)
                 /\ \A s \in Setting :
                      CentralPolicy.value.set[s]
                        = IF s \in DOMAIN Central.set THEN Central.set[s] ELSE CompiledDefaults[s]
  BY <1>1, CentralAsked, CentralGives, DocumentAssumption
<1> QED
  BY <1>4, <1>5, <1>6 DEF Declared

LEMMA DeclaredTypes ==
  ASSUME WellFormed(input[1].doc),
         call.api \in {"central", "central_revision"} => WellFormed(Central)
  PROVE  /\ Declared("pages.show") \in Seq(AuthPage)
         /\ Declared("two_factor.methods") \in Seq(FactorMethod)
         /\ Declared("three_factor.methods") \in Seq(FactorMethod)
         /\ Declared("three_factor.enabled") \in BOOLEAN
BY DefaultTypes DEF Declared, WellFormed

(* The lists are asked for members, the third factor also for its switch.  *)
LEMMA ActionsOf ==
  ASSUME NEW set, set["pages.show"] \in Seq(AuthPage),
         set["two_factor.methods"] \in Seq(FactorMethod),
         set["three_factor.methods"] \in Seq(FactorMethod),
         set["three_factor.enabled"] \in BOOLEAN
  PROVE  {a \in ConsumerAction : ConsumerActionDenied(set, a) = "none"} =
           {[kind |-> "RenderPage", page |-> v] : v \in Members(set["pages.show"])}
             \cup {[kind |-> "UseTwoFactor", method |-> v] :
                     v \in Members(set["two_factor.methods"])}
             \cup {[kind |-> "UseThreeFactor", method |-> v] :
                     v \in {m \in Members(set["three_factor.methods"]) :
                              set["three_factor.enabled"]}}
<1> DEFINE Allowed == {a \in ConsumerAction : ConsumerActionDenied(set, a) = "none"}
           Pages  == {[kind |-> "RenderPage", page |-> v] : v \in Members(set["pages.show"])}
           Second == {[kind |-> "UseTwoFactor", method |-> v] :
                        v \in Members(set["two_factor.methods"])}
           Third  == {[kind |-> "UseThreeFactor", method |-> v] :
                        v \in {m \in Members(set["three_factor.methods"]) :
                                 set["three_factor.enabled"]}}
<1>1. \A values, v : Listed(values, v) <=> v \in Members(values)
  BY DEF Listed, Members
<1>2. /\ Members(set["pages.show"]) \subseteq AuthPage
      /\ Members(set["two_factor.methods"]) \subseteq FactorMethod
      /\ Members(set["three_factor.methods"]) \subseteq FactorMethod
  BY DEF Members
<1>3. ASSUME NEW v \in AuthPage
      PROVE  [kind |-> "RenderPage", page |-> v] \in Allowed <=> v \in Members(set["pages.show"])
  BY <1>1 DEF ConsumerAction, ConsumerActionDenied
<1>4. ASSUME NEW v \in FactorMethod
      PROVE  [kind |-> "UseTwoFactor", method |-> v] \in Allowed
               <=> v \in Members(set["two_factor.methods"])
  BY <1>1 DEF ConsumerAction, ConsumerActionDenied
<1>5. ASSUME NEW v \in FactorMethod
      PROVE  [kind |-> "UseThreeFactor", method |-> v] \in Allowed
               <=> v \in Members(set["three_factor.methods"]) /\ set["three_factor.enabled"]
  BY <1>1 DEF ConsumerAction, ConsumerActionDenied
<1>6. ASSUME NEW a \in Allowed PROVE a \in Pages \cup Second \cup Third
  <2>1. CASE a \in [kind : {"RenderPage"}, page : AuthPage]
    <3>1. a = [kind |-> "RenderPage", page |-> a.page] /\ a.page \in AuthPage
      BY <2>1
    <3> QED
      BY <1>3, <3>1
  <2>2. CASE a \in [kind : {"UseTwoFactor"}, method : FactorMethod]
    <3>1. a = [kind |-> "UseTwoFactor", method |-> a.method] /\ a.method \in FactorMethod
      BY <2>2
    <3> QED
      BY <1>4, <3>1
  <2>3. CASE a \in [kind : {"UseThreeFactor"}, method : FactorMethod]
    <3>1. a = [kind |-> "UseThreeFactor", method |-> a.method] /\ a.method \in FactorMethod
      BY <2>3
    <3> QED
      BY <1>5, <3>1
  <2>4. a \in ConsumerAction
    OBVIOUS
  <2>5. \/ a \in [kind : {"RenderPage"}, page : AuthPage]
        \/ a \in [kind : {"UseTwoFactor"}, method : FactorMethod]
        \/ a \in [kind : {"UseThreeFactor"}, method : FactorMethod]
    BY <2>4 DEF ConsumerAction
  <2> QED
    BY <2>1, <2>2, <2>3, <2>5
<1>7. Pages \cup Second \cup Third \subseteq Allowed
  BY <1>2, <1>3, <1>4, <1>5
<1> QED
  BY <1>6, <1>7

(* A surface shows the pages and takes the factors of the nearest layer    *)
(* that lists them, and through central_revision only for a revision both  *)
(* policies admit (resolve, require_consumer_action,                       *)
(* resolve_project_config_for_revision): for any documents serde accepts.  *)
THEOREM ServedCorrect == Spec => []ServesDeclaredPolicy
<1>1. IInv /\ AgreeInv => ServesDeclaredPolicy
  <2> SUFFICES ASSUME IInv, AgreeInv, pc = "served" PROVE ServesDeclaredPolicy
    BY DEF ServesDeclaredPolicy
  <2> DEFINE set == result.policy.set
  <2>1. /\ Loaded /\ call.api # "authority"
        /\ served = {a \in ConsumerAction : ConsumerActionDenied(set, a) = "none"}
        /\ CentralError = "none" /\ NotAdmitted(result.policy) = "none"
    BY DEF AgreeInv, PolicyInv
  <2>2. /\ \A s \in Setting : set[s] = Declared(s)
        /\ WellFormed(input[1].doc)
        /\ result.policy.compatibility = input[1].doc.compatibility
        /\ call.api \in {"central", "central_revision"} => WellFormed(Central)
    BY <2>1, PolicyIsDeclared
  <2>3. /\ set["pages.show"] = Declared("pages.show")
        /\ set["two_factor.methods"] = Declared("two_factor.methods")
        /\ set["three_factor.methods"] = Declared("three_factor.methods")
        /\ set["three_factor.enabled"] = Declared("three_factor.enabled")
    BY <2>2, SettingNames
  <2>4. /\ Declared("pages.show") \in Seq(AuthPage)
        /\ Declared("two_factor.methods") \in Seq(FactorMethod)
        /\ Declared("three_factor.methods") \in Seq(FactorMethod)
        /\ Declared("three_factor.enabled") \in BOOLEAN
    BY <2>2, DeclaredTypes
  <2> HIDE DEF set
  <2>5. served =
         {[kind |-> "RenderPage", page |-> v] : v \in Members(Declared("pages.show"))}
           \cup {[kind |-> "UseTwoFactor", method |-> v] :
                   v \in Members(Declared("two_factor.methods"))}
           \cup {[kind |-> "UseThreeFactor", method |-> v] :
                   v \in {m \in Members(Declared("three_factor.methods")) :
                            Declared("three_factor.enabled")}}
    BY <2>1, <2>3, <2>4, ActionsOf
  <2>6. ASSUME call.api = "central_revision"
        PROVE  /\ call.revision \in Revisions
               /\ Within(Central.compatibility, call.revision)
               /\ Within(input[1].doc.compatibility, call.revision)
    <3>1. RevisionError(Central.compatibility, call.revision) = "none"
      BY <2>1, <2>6, CentralAsked
    <3>2. RevisionError(input[1].doc.compatibility, call.revision) = "none"
      BY <2>1, <2>2, <2>6 DEF NotAdmitted
    <3>3. Central.compatibility \in Compatibility /\ input[1].doc.compatibility \in Compatibility
      BY <2>2, <2>6 DEF WellFormed
    <3> QED
      BY <3>1, <3>2, <3>3, AdmittedWithin
  <2> QED
    BY <2>5, <2>6 DEF ServesDeclaredPolicy
<1> QED
  BY <1>1, Invariance, AgreeInvHolds, PTL
=============================================================================
