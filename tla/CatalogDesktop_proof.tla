------------------------- MODULE CatalogDesktop_proof -------------------------
(***************************************************************************)
(* What the catalog directory keeps true for any catalog, any number of    *)
(* commands and any interleaving of them with the desktop, the provider    *)
(* and the user: a downloaded file has the bytes of the checked manifest,  *)
(* and an accepted strict solve read no others.                            *)
(*                                                                         *)
(* The first needs that a download about to be linked was hashed, and that *)
(* only the lock holder touches a partial file (LinkHashed).  The second   *)
(* needs that a file of the first snapshot that changed can never again    *)
(* have the identity and the hash it had (Stale): the identity a writer    *)
(* gives is the number of edits, and a change of a file that verifies is   *)
(* an edit.                                                                *)
(***************************************************************************)
EXTENDS CatalogDesktop, SequenceTheorems, TLAPS

HolderSteps ==
  {"none", "existing", "verify", "copy", "open", "length", "body", "hash", "link", "clean",
   "rehash", "receipt"}

FilesOK ==
  /\ partial \in [Artifacts -> Seq(1..MaxVersion)]
  /\ invalid \in [Artifacts -> SUBSET Seq(1..MaxVersion)]

AtRecords ==
  [step : HolderSteps, artifact : Nat, sel : SUBSET Artifacts, append : BOOLEAN,
   version : 0..MaxVersion]

AtOK ==
  /\ at \in AtRecords
  /\ lock # Free => at.artifact \in Artifacts
  /\ at.step \in {"length", "body"} => at.version # 0

(* The partial file about to be published is the one that was hashed.      *)
LinkHashed ==
  at.step = "link" => at.artifact \in Artifacts /\ partial[at.artifact] = Manifest(at.artifact)

Dated == \A a \in Artifacts : dest[a].id <= edits

SolveOK ==
  /\ solve \in [step : {"idle", "solving", "accepted", "rejected"},
                snap : (SUBSET SUBSET Artifacts) \X (SUBSET (Artifacts \X Nat)),
                read : SUBSET Artifacts, bad : BOOLEAN]
  /\ solve.step = "idle" => ~solve.bad

(* File a is as it was when its identity i verified, or never will be.     *)
Fresh(a, i) == dest[a].id = i /\ HashOk(a)
Stale(a, i) == i < edits /\ (dest[a].bytes = "absent" \/ dest[a].id > i)

SnapshotAges ==
  solve.step = "solving" =>
    \A a \in Artifacts : \A i \in Nat :
      <<a, i>> \in solve.snap[2] => i <= edits /\ (Fresh(a, i) \/ Stale(a, i))

BadReadIsStale ==
  solve.step = "solving" /\ solve.bad =>
    \E a \in solve.read : \A i \in Nat : <<a, i>> \in solve.snap[2] => Stale(a, i)

CatalogInv ==
  /\ TypeOK
  /\ FilesOK
  /\ AtOK
  /\ LinkHashed
  /\ Dated
  /\ SolveOK
  /\ SnapshotAges
  /\ BadReadIsStale
  /\ DownloadedIsManifest
  /\ BoundSolveUsedManifestBytes

-----------------------------------------------------------------------------
LEMMA SizesOK ==
  /\ Len(Sizes) \in Nat \ {0} /\ Artifacts = 1..Len(Sizes) /\ 1 \in Artifacts
  /\ \A a \in Artifacts : Sizes[a] \in Nat \ {0}
<1>1. Sizes \in Seq(Nat \ {0}) /\ Len(Sizes) > 0
  BY CatalogAssumption
<1>2. Len(Sizes) \in Nat /\ Sizes \in [1..Len(Sizes) -> Nat \ {0}] /\ DOMAIN Sizes = 1..Len(Sizes)
  BY <1>1, LenProperties
<1> QED BY <1>1, <1>2 DEF Artifacts

LEMMA FreeIsNoProcess == Free \notin Procs
BY CatalogAssumption DEF Free, Procs

(* What the readers and the user leave behind is about files and solves    *)
(* only: the other parts of the invariant follow when those stand still.   *)
LEMMA FilesStand ==
  ASSUME CatalogInv, UNCHANGED <<dest, edits, solve>>
  PROVE  /\ Dated' /\ SolveOK' /\ SnapshotAges' /\ BadReadIsStale'
         /\ DownloadedIsManifest' /\ BoundSolveUsedManifestBytes'
BY DEF CatalogInv, Dated, SolveOK, SnapshotAges, BadReadIsStale, Fresh, Stale, HashOk,
       DownloadedIsManifest, BoundSolveUsedManifestBytes

-----------------------------------------------------------------------------
(* The commands: who holds the lock and where it stands.                   *)
Commands ==
  \E p \in Procs :
    \/ Start(p) \/ Kill(p)
    \/ AcquireBundled(p) \/ (\E sel \in SUBSET Artifacts : AcquireNow(p, sel))
    \/ Existing(p) \/ Resume(p) \/ Verify(p) \/ WriteConfig(p) \/ WriteReceipt(p)
    \/ \E tagged, honoured \in BOOLEAN : Respond(p, tagged, honoured)

LEMMA IdleOK == Idle \in AtRecords /\ Idle.step = "none" /\ Idle.version = 0
<1>1. 0 \in 0..MaxVersion
  BY CatalogAssumption
<1> QED BY <1>1 DEF Idle, AtRecords, HolderSteps

LEMMA FirstStep ==
  ASSUME NEW s \in HolderSteps, NEW sel \in SUBSET Artifacts,
         NEW new, new = [step |-> s, artifact |-> 1, sel |-> sel, append |-> FALSE, version |-> 0]
  PROVE  new \in AtRecords /\ new.step = s /\ new.artifact = 1
<1>1. 0 \in 0..MaxVersion
  BY CatalogAssumption
<1> QED BY <1>1 DEF AtRecords

LEMMA HolderStarts ==
  ASSUME NEW p \in Procs, lock' = p, NEW s \in HolderSteps \ {"length", "body"},
         NEW sel \in SUBSET Artifacts,
         at' = [Idle EXCEPT !.step = s, !.artifact = 1, !.sel = sel]
  PROVE  AtOK' /\ at'.step = s
<1>1. at' = [step |-> s, artifact |-> 1, sel |-> sel, append |-> FALSE, version |-> 0]
  BY DEF Idle
<1>2. at' \in AtRecords /\ at'.step = s /\ at'.artifact = 1
  BY <1>1, FirstStep
<1> QED BY <1>2, SizesOK DEF AtOK

LEMMA HolderReleases ==
  ASSUME phase \in [Procs -> {"idle", "begin", "hold"} \cup Ended],
         NEW p \in Procs, NEW end \in Ended, Release(p, end)
  PROVE  /\ AtOK' /\ lock' \in Procs \cup {Free} /\ at'.step = "none"
         /\ phase' \in [Procs -> {"idle", "begin", "hold"} \cup Ended]
<1>1. lock' = Free /\ at' = Idle /\ phase' = [phase EXCEPT ![p] = end]
  BY DEF Release
<1>2. AtOK' /\ at'.step = "none"
  BY <1>1, IdleOK DEF AtOK
<1> QED BY <1>1, <1>2

LEMMA HolderGoesOn ==
  ASSUME AtOK, NEW s \in HolderSteps, NEW p \in Procs, lock = p,
         at.version # 0 \/ s \notin {"length", "body"}, Step(s)
  PROVE  AtOK' /\ UNCHANGED <<lock, phase>> /\ at'.step = s /\ at'.artifact = at.artifact
BY DEF AtOK, Step, AtRecords

LEMMA HolderAdvances ==
  ASSUME AtOK, NEW p \in Procs, lock = p, Advance(at.artifact)
  PROVE  /\ at' \in AtRecords /\ at'.artifact \in Artifacts
         /\ at'.step \in {"existing", "rehash"}
<1>1. at \in AtRecords /\ at.artifact \in 1..Len(Sizes) /\ Len(Sizes) \in Nat
  BY SizesOK, FreeIsNoProcess DEF AtOK
<1>2. CASE at.artifact < Len(Sizes)
  <2>1. at' = [at EXCEPT !.artifact = at.artifact + 1, !.step = "existing"]
    BY <1>2 DEF Advance
  <2>2. at.artifact + 1 \in 1..Len(Sizes) /\ at.artifact + 1 \in Nat
    BY <1>1, <1>2
  <2> QED BY <1>1, <2>1, <2>2, SizesOK DEF AtRecords, HolderSteps
<1>3. CASE ~(at.artifact < Len(Sizes))
  BY <1>1, <1>3, SizesOK DEF Advance, AtRecords, HolderSteps
<1> QED BY <1>2, <1>3

LEMMA CommandsInv ==
  ASSUME CatalogInv, Commands PROVE CatalogInv'
<1>1. UNCHANGED <<provider, bundle, dest, partial, invalid, edits, solve>>
  BY DEF Commands, Start, Kill, AcquireBundled, AcquireNow, Existing, Resume, Verify, WriteConfig,
         WriteReceipt, Respond, directory
<1>2. PICK p \in Procs :
    \/ Start(p) \/ Kill(p)
    \/ AcquireBundled(p) \/ (\E sel \in SUBSET Artifacts : AcquireNow(p, sel))
    \/ Existing(p) \/ Resume(p) \/ Verify(p) \/ WriteConfig(p) \/ WriteReceipt(p)
    \/ \E tagged, honoured \in BOOLEAN : Respond(p, tagged, honoured)
  BY DEF Commands
<1> DEFINE Typed == /\ AtOK' /\ lock' \in Procs \cup {Free}
                    /\ phase' \in [Procs -> {"idle", "begin", "hold"} \cup Ended]
                    /\ at' = at \/ at'.step # "link"
<1>a. /\ AtOK /\ at \in AtRecords /\ lock \in Procs \cup {Free}
      /\ phase \in [Procs -> {"idle", "begin", "hold"} \cup Ended]
  BY DEF CatalogInv, TypeOK, AtOK
<1>b. "failed" \in Ended /\ "ok" \in Ended
  BY DEF Ended
<1>3. Typed
  <2>1. CASE Start(p)
    BY <1>a, <2>1 DEF Start, AtOK
  <2>2. CASE Kill(p)
    BY <1>a, <1>b, <2>2, HolderReleases DEF Kill, Fail, AtOK
  <2>3. CASE AcquireBundled(p)
    <3>1. CASE UNCHANGED <<lock, at>> /\ (\E end \in Ended : phase' = [phase EXCEPT ![p] = end])
      BY <1>a, <3>1 DEF AtOK, Ended
    <3>2. CASE lock' = p /\ at' = [Idle EXCEPT !.step = "copy", !.artifact = 1, !.sel = Artifacts]
                 /\ phase' = [phase EXCEPT ![p] = "hold"]
      <4>1. AtOK' /\ at'.step = "copy"
        BY <3>2, HolderStarts DEF HolderSteps
      <4> QED BY <1>a, <3>2, <4>1
    <3> QED BY <1>b, <2>3, <3>1, <3>2 DEF AcquireBundled
  <2>4. ASSUME NEW sel \in SUBSET Artifacts, AcquireNow(p, sel)
        PROVE  Typed
    <3>1. CASE UNCHANGED <<lock, at>> /\ (\E end \in Ended : phase' = [phase EXCEPT ![p] = end])
      BY <1>a, <3>1 DEF AtOK, Ended
    <3>2. ASSUME NEW s \in {"existing", "verify"}, lock' = p, phase' = [phase EXCEPT ![p] = "hold"],
                 at' = [Idle EXCEPT !.step = s, !.artifact = 1, !.sel = sel]
          PROVE  Typed
      <4>1. AtOK' /\ at'.step = s
        BY <3>2, HolderStarts DEF HolderSteps
      <4> QED BY <1>a, <3>2, <4>1
    <3> QED BY <1>b, <2>4, <3>1, <3>2 DEF AcquireNow
  <2>5. CASE Existing(p)
    <3>1. lock = p /\ ((Advance(at.artifact) /\ UNCHANGED <<lock, phase>>) \/ Release(p, "failed"))
      BY <2>5 DEF Existing, Holds, Fail
    <3> QED BY <1>a, <1>b, <3>1, HolderReleases, HolderAdvances DEF AtOK
  <2>6. CASE Resume(p)
    <3>1. lock = p /\ at.artifact \in Artifacts
      BY <1>a, <2>6, FreeIsNoProcess DEF Resume, Holds, AtOK
    <3>2. CASE at'.step = "open"
      BY <1>a, <2>6, <3>1, <3>2 DEF Resume, AtOK, AtRecords, HolderSteps, Step
    <3>3. CASE Step("hash")
      BY <1>a, <3>1, <3>3, HolderGoesOn DEF HolderSteps
    <3> QED BY <2>6, <3>2, <3>3, <1>a DEF Resume, AtRecords
  <2>7. CASE Verify(p)
    <3>1. lock = p /\ (Step("rehash") \/ Release(p, "failed"))
      BY <2>7 DEF Verify, Holds, Fail
    <3> QED BY <1>a, <1>b, <3>1, HolderReleases, HolderGoesOn DEF HolderSteps
  <2>8. CASE WriteConfig(p)
    <3>1. lock = p /\ (Step("receipt") \/ Release(p, "failed"))
      BY <2>8 DEF WriteConfig, Holds, Fail
    <3> QED BY <1>a, <1>b, <3>1, HolderReleases, HolderGoesOn DEF HolderSteps
  <2>9. CASE WriteReceipt(p)
    BY <1>a, <1>b, <2>9, HolderReleases DEF WriteReceipt
  <2>10. ASSUME NEW tagged \in BOOLEAN, NEW honoured \in BOOLEAN, Respond(p, tagged, honoured)
         PROVE  Typed
    <3>1. lock = p /\ at.artifact \in Artifacts /\ provider \in 0..MaxVersion /\ provider # 0
      BY <1>a, <2>10, FreeIsNoProcess, CatalogAssumption DEF Respond, Holds, AtOK, CatalogInv, TypeOK
    <3> DEFINE Ranged == [at EXCEPT !.step = "length", !.version = provider]
               Whole  == [at EXCEPT !.step = "length", !.append = FALSE, !.version = provider]
    <3>2. Release(p, "failed") \/ (UNCHANGED <<lock, phase>> /\ (at' = Ranged \/ at' = Whole))
      BY <2>10 DEF Respond, Fail
    <3>3. \A new \in {Ranged, Whole} :
            /\ new \in AtRecords /\ new.step = "length" /\ new.artifact = at.artifact
            /\ new.version = provider
      BY <1>a, <3>1 DEF AtRecords, HolderSteps
    <3> HIDE DEF Ranged, Whole
    <3>4. CASE Release(p, "failed")
      BY <1>a, <1>b, <3>4, HolderReleases
    <3>5. CASE ~Release(p, "failed")
      BY <1>a, <3>1, <3>2, <3>3, <3>5 DEF AtOK
    <3> QED BY <3>4, <3>5
  <2> QED BY <1>2, <2>1, <2>2, <2>3, <2>4, <2>5, <2>6, <2>7, <2>8, <2>9, <2>10
<1> DEFINE Kept == /\ resume' \in [Artifacts -> NoTag..Missing] /\ receipts' \subseteq SUBSET Artifacts
                   /\ config' \in {"absent", "ours", "foreign"}
<1>c. /\ resume \in [Artifacts -> NoTag..Missing] /\ receipts \subseteq SUBSET Artifacts
      /\ config \in {"absent", "ours", "foreign"} /\ provider \in NoTag..Missing
      /\ at.sel \subseteq Artifacts /\ NoTag \in NoTag..Missing
  BY <1>a, CatalogAssumption DEF CatalogInv, TypeOK, AtRecords, NoTag, Missing
<1>4. Kept
  <2>1. CASE Resume(p)
    BY <1>c, <2>1 DEF Resume
  <2>2. ASSUME NEW tagged \in BOOLEAN, NEW honoured \in BOOLEAN, Respond(p, tagged, honoured)
        PROVE  Kept
    <3>1. resume' = resume \/ \E tag \in NoTag..Missing : resume' = [resume EXCEPT ![at.artifact] = tag]
      BY <1>c, <2>2 DEF Respond
    <3>2. UNCHANGED <<receipts, config>>
      BY <2>2 DEF Respond
    <3> QED BY <1>c, <3>1, <3>2
  <2>3. CASE WriteReceipt(p)
    BY <1>c, <2>3 DEF WriteReceipt
  <2>4. CASE WriteConfig(p)
    BY <1>c, <2>4 DEF WriteConfig
  <2>5. CASE Start(p) \/ Kill(p) \/ AcquireBundled(p) \/ Existing(p) \/ Verify(p)
    BY <1>c, <2>5 DEF Start, Kill, AcquireBundled, Existing, Verify, directory
  <2>6. ASSUME NEW sel \in SUBSET Artifacts, AcquireNow(p, sel)
        PROVE  Kept
    BY <1>c, <2>6 DEF AcquireNow, directory
  <2> QED BY <1>2, <2>1, <2>2, <2>3, <2>4, <2>5, <2>6
<1>5. TypeOK' /\ FilesOK'
  BY <1>1, <1>3, <1>4 DEF CatalogInv, TypeOK, FilesOK
<1>6. LinkHashed'
  BY <1>1, <1>3 DEF CatalogInv, LinkHashed, Manifest
<1> QED BY <1>1, <1>3, <1>5, <1>6, FilesStand DEF CatalogInv

-----------------------------------------------------------------------------
(* The bytes of a download.                                                *)
Downloads ==
  \E p \in Procs : OpenPartial(p) \/ Body(p) \/ Hash(p) \/ Clean(p)

LEMMA DownloadsInv ==
  ASSUME CatalogInv, Downloads PROVE CatalogInv'
<1>1. UNCHANGED <<provider, bundle, dest, config, receipts, edits, solve>>
  BY DEF Downloads, OpenPartial, Body, Hash, Clean
<1>2. PICK p \in Procs : OpenPartial(p) \/ Body(p) \/ Hash(p) \/ Clean(p)
  BY DEF Downloads
<1>3. /\ AtOK /\ at \in AtRecords /\ lock \in Procs \cup {Free}
      /\ phase \in [Procs -> {"idle", "begin", "hold"} \cup Ended]
      /\ "failed" \in Ended
  BY DEF CatalogInv, TypeOK, AtOK, Ended
<1>4. /\ lock = p /\ at.artifact \in Artifacts /\ Artifacts = 1..Len(Sizes) /\ Len(Sizes) \in Nat
      /\ Sizes[at.artifact] \in Nat \ {0}
  BY <1>2, <1>3, FreeIsNoProcess, SizesOK DEF OpenPartial, Body, Hash, Clean, Holds, AtOK
<1>5. /\ AtOK' /\ lock' \in Procs \cup {Free}
      /\ phase' \in [Procs -> {"idle", "begin", "hold"} \cup Ended]
      /\ at'.step = "link" =>
           at'.artifact = at.artifact /\ partial[at.artifact] = Manifest(at.artifact) /\ partial' = partial
  <2>1. CASE OpenPartial(p)
    <3>1. Release(p, "failed") \/ (Step("body") /\ at.version # 0)
      BY <1>3, <2>1 DEF OpenPartial, Fail, Holds, AtOK
    <3>2. CASE Release(p, "failed")
      BY <1>3, <3>2, HolderReleases
    <3>3. CASE Step("body") /\ at.version # 0
      <4>1. AtOK' /\ UNCHANGED <<lock, phase>> /\ at'.step = "body"
        BY <1>3, <1>4, <3>3, HolderGoesOn DEF HolderSteps
      <4> QED BY <1>3, <4>1
    <3> QED BY <3>1, <3>2, <3>3
  <2>2. CASE Body(p)
    <3>1. Release(p, "failed") \/ Step("hash") \/ (UNCHANGED <<at, lock, phase>> /\ at.step = "body")
      BY <2>2 DEF Body, Fail, Holds
    <3>2. CASE Release(p, "failed")
      BY <1>3, <3>2, HolderReleases
    <3>3. CASE Step("hash")
      <4>1. AtOK' /\ UNCHANGED <<lock, phase>> /\ at'.step = "hash"
        BY <1>3, <1>4, <3>3, HolderGoesOn DEF HolderSteps
      <4> QED BY <1>3, <4>1
    <3>4. CASE UNCHANGED <<at, lock, phase>> /\ at.step = "body"
      BY <1>3, <3>4 DEF AtOK
    <3> QED BY <3>1, <3>2, <3>3, <3>4
  <2>3. CASE Hash(p)
    <3>1. \/ Release(p, "failed")
          \/ Step("link") /\ partial[at.artifact] = Manifest(at.artifact) /\ partial' = partial
      BY <2>3 DEF Hash, Fail
    <3>2. CASE Release(p, "failed")
      BY <1>3, <3>2, HolderReleases
    <3>3. CASE Step("link") /\ partial[at.artifact] = Manifest(at.artifact) /\ partial' = partial
      <4>1. AtOK' /\ UNCHANGED <<lock, phase>> /\ at'.artifact = at.artifact
        BY <1>3, <1>4, <3>3, HolderGoesOn DEF HolderSteps
      <4> QED BY <1>3, <3>3, <4>1
    <3> QED BY <3>1, <3>2, <3>3
  <2>4. CASE Clean(p)
    <3>1. Advance(at.artifact) /\ UNCHANGED <<lock, phase>>
      BY <2>4 DEF Clean
    <3>2. at' \in AtRecords /\ at'.artifact \in Artifacts /\ at'.step \in {"existing", "rehash"}
      BY <1>3, <1>4, <3>1, HolderAdvances
    <3> QED BY <1>3, <3>1, <3>2 DEF AtOK
  <2> QED BY <1>2, <2>1, <2>2, <2>3, <2>4
<1>6. /\ partial' \in [Artifacts -> Seq(1..MaxVersion)]
      /\ \A a \in Artifacts : Len(partial'[a]) <= Sizes[a]
  <2>1. /\ partial \in [Artifacts -> Seq(1..MaxVersion)]
        /\ \A a \in Artifacts : Len(partial[a]) <= Sizes[a] /\ Sizes[a] \in Nat \ {0}
    BY SizesOK DEF CatalogInv, FilesOK, TypeOK
  <2>2. CASE partial' = partial
    BY <2>1, <2>2
  <2>3. CASE partial' = [partial EXCEPT ![at.artifact] = <<>>]
    <3>1. <<>> \in Seq(1..MaxVersion) /\ Len(<<>>) = 0
      BY EmptySeq
    <3> QED BY <1>4, <2>1, <2>3, <3>1
  <2>4. CASE Body(p) /\ partial' # partial
    <3>1. /\ partial' = [partial EXCEPT ![at.artifact] = Append(@, at.version)]
          /\ Len(partial[at.artifact]) < Sizes[at.artifact] /\ at.step = "body"
      BY <2>4 DEF Body, Holds
    <3>2. at.version \in 1..MaxVersion
      <4>1. at.version \in 0..MaxVersion /\ at.version # 0 /\ MaxVersion \in Nat
        BY <1>3, <3>1, CatalogAssumption DEF AtOK, AtRecords
      <4> QED BY <4>1
    <3>3. partial[at.artifact] \in Seq(1..MaxVersion) /\ Len(partial[at.artifact]) \in Nat
      BY <1>4, <2>1, LenProperties
    <3>4. /\ Append(partial[at.artifact], at.version) \in Seq(1..MaxVersion)
          /\ Len(Append(partial[at.artifact], at.version)) = Len(partial[at.artifact]) + 1
      BY <3>2, <3>3, AppendProperties
    <3> QED BY <1>4, <2>1, <3>1, <3>3, <3>4
  <2> QED BY <1>2, <2>2, <2>3, <2>4 DEF OpenPartial, Body, Hash, Clean
<1>7. /\ invalid' \in [Artifacts -> SUBSET Seq(1..MaxVersion)]
      /\ resume' \in [Artifacts -> NoTag..Missing]
  <2>1. /\ invalid \in [Artifacts -> SUBSET Seq(1..MaxVersion)] /\ resume \in [Artifacts -> NoTag..Missing]
        /\ partial[at.artifact] \in Seq(1..MaxVersion)
    BY <1>4 DEF CatalogInv, FilesOK, TypeOK
  <2>2. Missing \in NoTag..Missing
    BY CatalogAssumption DEF NoTag, Missing
  <2>3. /\ invalid' = invalid \/ invalid' = [invalid EXCEPT ![at.artifact] = @ \cup {partial[at.artifact]}]
        /\ resume' = resume \/ resume' = [resume EXCEPT ![at.artifact] = Missing]
    <3>1. CASE OpenPartial(p) \/ Body(p) \/ Clean(p)
      BY <3>1 DEF OpenPartial, Body, Clean
    <3>2. CASE Hash(p)
      BY <3>2 DEF Hash
    <3> QED BY <1>2, <3>1, <3>2
  <2>4. resume' \in [Artifacts -> NoTag..Missing]
    BY <2>1, <2>2, <2>3
  <2>5. ASSUME NEW more \in SUBSET Seq(1..MaxVersion),
               invalid' = [invalid EXCEPT ![at.artifact] = @ \cup more]
        PROVE  invalid' \in [Artifacts -> SUBSET Seq(1..MaxVersion)]
    BY <1>4, <2>1, <2>5
  <2>6. {partial[at.artifact]} \in SUBSET Seq(1..MaxVersion)
    BY <2>1
  <2> QED BY <2>1, <2>3, <2>4, <2>5, <2>6
<1>8. TypeOK' /\ FilesOK'
  BY <1>1, <1>5, <1>6, <1>7 DEF CatalogInv, TypeOK, FilesOK
<1>9. LinkHashed'
  BY <1>4, <1>5 DEF LinkHashed, Manifest
<1> QED BY <1>1, <1>5, <1>8, <1>9, FilesStand DEF CatalogInv

-----------------------------------------------------------------------------
(* The published files.  A writer publishes where no file is; only an edit *)
(* changes one.                                                            *)
FileKinds ==
  [bytes : {"absent", "manifest", "other"}, by : {"nobody", "download", "bundle", "user"},
   id : 0..MaxEdits]

(* File a becomes new, in a step after which there are that many edits.    *)
Becomes(a, new) ==
  /\ dest' = [dest EXCEPT ![a] = new]
  /\ new \in FileKinds /\ new.id <= edits' /\ edits' \in 0..MaxEdits /\ edits <= edits'
  /\ new.by = "download" => new.bytes = "manifest"
  /\ \/ dest[a].bytes = "absent" /\ edits' = edits /\ new.id = edits
     \/ edits' = edits + 1 /\ (new.bytes = "absent" \/ new.id = edits + 1)

LEMMA BecomesInv ==
  ASSUME CatalogInv, NEW a \in Artifacts, NEW new, Becomes(a, new), solve' = solve
  PROVE  /\ dest' \in [Artifacts -> FileKinds] /\ Dated' /\ SolveOK' /\ SnapshotAges'
         /\ BadReadIsStale' /\ DownloadedIsManifest' /\ BoundSolveUsedManifestBytes'
<1>1. dest \in [Artifacts -> FileKinds] /\ edits \in 0..MaxEdits /\ MaxEdits \in Nat
  BY CatalogAssumption DEF CatalogInv, TypeOK, FileKinds
<1>2. \A b \in Artifacts : dest[b].id \in Nat /\ dest[b].id <= edits
  BY <1>1 DEF CatalogInv, Dated, FileKinds
<1>3. edits \in Nat /\ edits' \in Nat /\ new.id \in Nat
  BY <1>1 DEF Becomes, FileKinds
<1>4. dest' \in [Artifacts -> FileKinds]
  BY <1>1 DEF Becomes
<1>5. \A b \in Artifacts : dest'[b] = IF b = a THEN new ELSE dest[b]
  BY <1>1 DEF Becomes
<1>6. Dated'
  BY <1>2, <1>3, <1>5 DEF Dated, Becomes
<1>7. DownloadedIsManifest'
  BY <1>5 DEF DownloadedIsManifest, CatalogInv, Becomes
<1>8. \A b \in Artifacts : \A i \in Nat : Stale(b, i) => Stale(b, i)'
  BY <1>2, <1>3, <1>5 DEF Stale, Becomes
<1>9. \A b \in Artifacts : \A i \in Nat :
        i <= edits /\ Fresh(b, i) => i <= edits' /\ (Fresh(b, i)' \/ Stale(b, i)')
  BY <1>2, <1>3, <1>5 DEF Fresh, Stale, HashOk, Becomes
<1>10. SnapshotAges'
  <2>1. \A b \in Artifacts : \A i \in Nat : i <= edits => i <= edits'
    BY <1>3 DEF Becomes
  <2> QED BY <1>8, <1>9, <2>1 DEF CatalogInv, SnapshotAges
<1>11. SolveOK' /\ BoundSolveUsedManifestBytes'
  BY DEF CatalogInv, SolveOK, BoundSolveUsedManifestBytes
<1>12. BadReadIsStale'
  <2>1. solve.read \subseteq Artifacts
    BY DEF CatalogInv, SolveOK
  <2> QED BY <1>8, <2>1 DEF CatalogInv, BadReadIsStale
<1> QED BY <1>4, <1>6, <1>7, <1>10, <1>11, <1>12

LEMMA LinkInv ==
  ASSUME CatalogInv, NEW p \in Procs, Link(p) PROVE CatalogInv'
<1>1. /\ AtOK /\ lock \in Procs \cup {Free} /\ lock = p /\ at.step = "link"
      /\ phase \in [Procs -> {"idle", "begin", "hold"} \cup Ended] /\ "failed" \in Ended
      /\ at.artifact \in Artifacts /\ partial[at.artifact] = Manifest(at.artifact)
  BY DEF CatalogInv, TypeOK, Ended, Link, Holds, LinkHashed
<1>2. UNCHANGED <<provider, bundle, partial, resume, invalid, config, receipts, edits, solve>>
  BY DEF Link
<1>3. CASE Release(p, "failed") /\ UNCHANGED dest
  <2>1. /\ AtOK' /\ lock' \in Procs \cup {Free} /\ at'.step = "none"
        /\ phase' \in [Procs -> {"idle", "begin", "hold"} \cup Ended]
    BY <1>1, <1>3, HolderReleases
  <2>2. TypeOK' /\ FilesOK' /\ LinkHashed'
    BY <1>2, <1>3, <2>1 DEF CatalogInv, TypeOK, FilesOK, LinkHashed
  <2> QED BY <1>2, <1>3, <2>1, <2>2, FilesStand DEF CatalogInv
<1>4. CASE Step("clean") /\ ~Published(at.artifact)
           /\ dest' = [dest EXCEPT ![at.artifact] = File("manifest", "download")]
  <2>1. AtOK' /\ UNCHANGED <<lock, phase>> /\ at'.step = "clean"
    BY <1>1, <1>4, HolderGoesOn DEF HolderSteps
  <2>2. edits \in 0..MaxEdits /\ MaxEdits \in Nat
    BY CatalogAssumption DEF CatalogInv, TypeOK
  <2>3. Becomes(at.artifact, File("manifest", "download"))
    BY <1>2, <1>4, <2>2 DEF Becomes, File, FileKinds, Published
  <2>4. dest' \in [Artifacts -> FileKinds]
    BY <1>1, <1>2, <2>3, BecomesInv
  <2>5. TypeOK' /\ FilesOK' /\ LinkHashed'
    BY <1>1, <1>2, <2>1, <2>4 DEF CatalogInv, TypeOK, FilesOK, LinkHashed, FileKinds
  <2> QED BY <1>1, <1>2, <2>1, <2>3, <2>5, BecomesInv DEF CatalogInv
<1> QED BY <1>1, <1>3, <1>4 DEF Link, Fail

LEMMA CopyInv ==
  ASSUME CatalogInv, NEW p \in Procs, Copy(p) PROVE CatalogInv'
<1>1. /\ AtOK /\ at \in AtRecords /\ lock = p /\ lock # Free /\ at.artifact \in Artifacts
  BY FreeIsNoProcess DEF CatalogInv, Copy, Holds, AtOK
<1>2. UNCHANGED <<provider, bundle, partial, resume, invalid, config, receipts, lock, phase, edits, solve>>
  BY DEF Copy
<1>3. AtOK' /\ at'.step \in {"copy", "verify"}
  <2>1. Artifacts = 1..Len(Sizes) /\ Len(Sizes) \in Nat /\ at.artifact \in Nat
    BY <1>1, SizesOK
  <2>2. CASE at.artifact < Len(Sizes) /\ at' = [at EXCEPT !.artifact = at.artifact + 1]
    <3>1. at.artifact + 1 \in Artifacts /\ at.artifact + 1 \in Nat /\ at.step = "copy"
      BY <1>1, <2>1, <2>2 DEF Copy, Holds
    <3> QED BY <1>1, <1>2, <2>2, <3>1 DEF AtOK, AtRecords
  <2>3. CASE at' = [at EXCEPT !.step = "verify"]
    BY <1>1, <1>2, <2>3 DEF AtOK, AtRecords, HolderSteps
  <2> QED BY <2>2, <2>3 DEF Copy
<1>4. CASE dest' = dest
  <2>1. TypeOK' /\ FilesOK' /\ LinkHashed'
    BY <1>2, <1>3, <1>4 DEF CatalogInv, TypeOK, FilesOK, LinkHashed
  <2> QED BY <1>2, <1>3, <1>4, <2>1, FilesStand DEF CatalogInv
<1>5. CASE ~Published(at.artifact) /\ dest' = [dest EXCEPT ![at.artifact] = File(bundle, "bundle")]
  <2>1. edits \in 0..MaxEdits /\ MaxEdits \in Nat /\ bundle \in {"manifest", "other"}
    BY CatalogAssumption DEF CatalogInv, TypeOK
  <2>2. Becomes(at.artifact, File(bundle, "bundle"))
    BY <1>2, <1>5, <2>1 DEF Becomes, File, FileKinds, Published
  <2>3. dest' \in [Artifacts -> FileKinds]
    BY <1>1, <1>2, <2>2, BecomesInv
  <2>4. TypeOK' /\ FilesOK' /\ LinkHashed'
    BY <1>1, <1>2, <1>3, <2>3 DEF CatalogInv, TypeOK, FilesOK, LinkHashed, FileKinds
  <2> QED BY <1>1, <1>2, <1>3, <2>2, <2>4, BecomesInv DEF CatalogInv
<1> QED BY <1>4, <1>5 DEF Copy

LEMMA UserEditsInv ==
  ASSUME CatalogInv, NEW a \in Artifacts, NEW kind \in {"absent", "manifest", "other"},
         UserEdits(a, kind)
  PROVE  CatalogInv'
<1>1. UNCHANGED <<provider, bundle, partial, resume, invalid, config, receipts, lock, phase, at, solve>>
  BY DEF UserEdits
<1>2. edits \in Nat /\ MaxEdits \in Nat /\ edits < MaxEdits /\ edits' = edits + 1
  BY CatalogAssumption DEF CatalogInv, TypeOK, UserEdits
<1>3. PICK new :
        /\ new = IF kind = "absent" THEN Absent ELSE [bytes |-> kind, by |-> "user", id |-> edits + 1]
        /\ dest' = [dest EXCEPT ![a] = new]
  BY DEF UserEdits
<1>4. Becomes(a, new)
  <2>1. CASE kind = "absent"
    BY <1>2, <1>3, <2>1 DEF Becomes, Absent, FileKinds
  <2>2. CASE kind # "absent"
    BY <1>2, <1>3, <2>2 DEF Becomes, FileKinds
  <2> QED BY <2>1, <2>2
<1>5. /\ dest' \in [Artifacts -> FileKinds] /\ Dated' /\ SolveOK' /\ SnapshotAges'
      /\ BadReadIsStale' /\ DownloadedIsManifest' /\ BoundSolveUsedManifestBytes'
  BY <1>1, <1>4, BecomesInv
<1>6. edits' \in 0..MaxEdits
  BY <1>2
<1>7. TypeOK' /\ FilesOK' /\ AtOK' /\ LinkHashed'
  BY <1>1, <1>5, <1>6 DEF CatalogInv, TypeOK, FilesOK, AtOK, LinkHashed, FileKinds, Manifest
<1> QED BY <1>5, <1>7 DEF CatalogInv

-----------------------------------------------------------------------------
(* The strict solve.                                                       *)
LEMMA TakeSnapshotInv ==
  ASSUME CatalogInv, TakeSnapshot PROVE CatalogInv'
<1>1. /\ UNCHANGED <<provider, bundle, directory, lock, phase, at, edits>> /\ solve.step = "idle"
      /\ solve' = [solve EXCEPT !.step = "solving", !.snap = <<Verified, Snapshot>>]
  BY DEF TakeSnapshot
<1>2. /\ receipts \subseteq SUBSET Artifacts
      /\ \A a \in Artifacts : dest[a].id \in Nat /\ dest[a].id <= edits
  BY CatalogAssumption DEF CatalogInv, TypeOK, Dated
<1>3. Verified \in SUBSET SUBSET Artifacts /\ Snapshot \in SUBSET (Artifacts \X Nat)
  BY <1>2 DEF Verified, Snapshot
<1>4. SolveOK' /\ solve'.step = "solving" /\ ~solve'.bad /\ solve'.snap = <<Verified, Snapshot>>
  BY <1>1, <1>3 DEF CatalogInv, SolveOK
<1>5. ASSUME NEW a \in Artifacts, NEW i \in Nat, <<a, i>> \in Snapshot
      PROVE  i <= edits /\ Fresh(a, i)
  BY <1>2, <1>5 DEF Snapshot, Verified, Fresh
<1>6. SnapshotAges'
  BY <1>1, <1>4, <1>5 DEF SnapshotAges, Fresh, Stale, HashOk, directory
<1>7. TypeOK' /\ FilesOK' /\ AtOK' /\ LinkHashed' /\ Dated' /\ DownloadedIsManifest'
  BY <1>1 DEF CatalogInv, TypeOK, FilesOK, AtOK, LinkHashed, Dated, DownloadedIsManifest, directory,
              Manifest
<1> QED BY <1>4, <1>6, <1>7 DEF CatalogInv, BadReadIsStale, BoundSolveUsedManifestBytes

(* An index that does not verify is not as it was in the snapshot.         *)
LEMMA ReadIndexInv ==
  ASSUME CatalogInv, NEW a \in Artifacts, ReadIndex(a) PROVE CatalogInv'
<1>1. /\ UNCHANGED <<provider, bundle, directory, lock, phase, at, edits>> /\ solve.step = "solving"
      /\ solve' = [solve EXCEPT !.read = @ \cup {a}, !.bad = @ \/ ~HashOk(a)]
  BY DEF ReadIndex
<1>2. SolveOK /\ SnapshotAges /\ BadReadIsStale
  BY DEF CatalogInv
<1>3. /\ SolveOK' /\ solve'.step = "solving" /\ solve'.snap = solve.snap
      /\ solve'.read = solve.read \cup {a} /\ (solve'.bad => solve.bad \/ ~HashOk(a))
  BY <1>1, <1>2 DEF SolveOK
<1>4. /\ TypeOK' /\ FilesOK' /\ AtOK' /\ LinkHashed' /\ Dated' /\ DownloadedIsManifest'
      /\ \A b \in Artifacts : \A i \in Nat : (Fresh(b, i) <=> Fresh(b, i)') /\ (Stale(b, i) <=> Stale(b, i)')
  BY <1>1 DEF CatalogInv, TypeOK, FilesOK, AtOK, LinkHashed, Dated, DownloadedIsManifest, directory,
              Manifest, Fresh, Stale, HashOk
<1>5. SnapshotAges'
  BY <1>1, <1>2, <1>3, <1>4 DEF SnapshotAges
<1>6. BadReadIsStale'
  <2>1. CASE solve.bad
    BY <1>1, <1>2, <1>3, <1>4, <2>1 DEF BadReadIsStale, SolveOK
  <2>2. CASE ~HashOk(a)
    <3>1. \A i \in Nat : <<a, i>> \in solve.snap[2] => Stale(a, i)
      BY <1>1, <1>2, <2>2 DEF SnapshotAges, Fresh
    <3> QED BY <1>3, <1>4, <3>1 DEF BadReadIsStale
  <2> QED BY <1>3, <2>1, <2>2 DEF BadReadIsStale
<1> QED BY <1>3, <1>4, <1>5, <1>6 DEF CatalogInv, BoundSolveUsedManifestBytes

(* The second snapshot equals the first and covers every index read, so    *)
(* each is fresh: none that was read bad can be among them.                *)
LEMMA CheckSnapshotInv ==
  ASSUME CatalogInv, CheckSnapshot PROVE CatalogInv'
<1>1. /\ UNCHANGED <<provider, bundle, directory, lock, phase, at, edits>> /\ solve.step = "solving"
      /\ solve' = [solve EXCEPT !.step = IF Accept THEN "accepted" ELSE "rejected"]
  BY DEF CheckSnapshot
<1>2. SolveOK /\ BadReadIsStale /\ receipts \subseteq SUBSET Artifacts
  BY DEF CatalogInv, TypeOK
<1>3. SolveOK' /\ solve'.step \in {"accepted", "rejected"} /\ solve'.bad = solve.bad
  BY <1>1, <1>2 DEF SolveOK
<1>4. Accept => ~solve.bad
  <2> SUFFICES ASSUME Accept, solve.bad PROVE FALSE
    OBVIOUS
  <2>1. PICK a \in solve.read : \A i \in Nat : <<a, i>> \in solve.snap[2] => Stale(a, i)
    BY <1>1, <1>2 DEF BadReadIsStale
  <2>2. PICK r \in Verified : solve.read \subseteq r
    BY DEF Accept
  <2>3. a \in r /\ a \in Artifacts /\ HashOk(a)
    BY <1>2, <2>2 DEF Verified, SolveOK
  <2>4. <<a, dest[a].id>> \in Snapshot
    BY <2>2, <2>3 DEF Snapshot
  <2>5. Snapshot = solve.snap[2]
    BY DEF Accept
  <2>6. dest[a].id \in Nat
    BY <2>3, CatalogAssumption DEF CatalogInv, TypeOK
  <2>7. Stale(a, dest[a].id)
    BY <2>1, <2>4, <2>5, <2>6
  <2> QED BY <2>3, <2>6, <2>7 DEF Stale, HashOk
<1>5. BoundSolveUsedManifestBytes'
  BY <1>1, <1>2, <1>3, <1>4 DEF BoundSolveUsedManifestBytes, SolveOK
<1>6. TypeOK' /\ FilesOK' /\ AtOK' /\ LinkHashed' /\ Dated' /\ DownloadedIsManifest'
  BY <1>1 DEF CatalogInv, TypeOK, FilesOK, AtOK, LinkHashed, Dated, DownloadedIsManifest, directory,
              Manifest
<1> QED BY <1>3, <1>5, <1>6 DEF CatalogInv, SnapshotAges, BadReadIsStale

LEMMA WorldInv ==
  ASSUME CatalogInv, World PROVE CatalogInv'
<1>1. CASE ProviderReplaces
  <2>1. UNCHANGED <<bundle, directory, lock, phase, at, edits, solve>> /\ provider' \in 1..MaxVersion
    BY <1>1, CatalogAssumption DEF ProviderReplaces, CatalogInv, TypeOK
  <2>2. TypeOK' /\ FilesOK' /\ AtOK' /\ LinkHashed'
    BY <2>1 DEF CatalogInv, TypeOK, FilesOK, AtOK, LinkHashed, directory, Manifest
  <2> QED BY <2>1, <2>2, FilesStand DEF CatalogInv, directory
<1>2. ASSUME NEW kind \in {"absent", "foreign"}, UserConfig(kind)
      PROVE  CatalogInv'
  <2>1. /\ UNCHANGED <<provider, bundle, dest, partial, resume, invalid, receipts, lock, phase, at, solve>>
        /\ edits \in Nat /\ edits' \in 0..MaxEdits /\ edits' = edits + 1 /\ config' = kind
    BY <1>2, CatalogAssumption DEF UserConfig, CatalogInv, TypeOK
  <2>2. TypeOK' /\ FilesOK' /\ AtOK' /\ LinkHashed'
    BY <2>1 DEF CatalogInv, TypeOK, FilesOK, AtOK, LinkHashed, Manifest
  <2>3. \A a \in Artifacts : dest[a].id \in Nat
    BY CatalogAssumption DEF CatalogInv, TypeOK
  <2>4. Dated'
    BY <2>1, <2>3 DEF CatalogInv, Dated
  <2>5. \A a \in Artifacts : \A i \in Nat :
          /\ Fresh(a, i) => Fresh(a, i)'
          /\ Stale(a, i) => Stale(a, i)'
          /\ i <= edits => i <= edits'
    BY <2>1 DEF Fresh, Stale, HashOk
  <2>6. SolveOK' /\ DownloadedIsManifest' /\ BoundSolveUsedManifestBytes'
    BY <2>1 DEF CatalogInv, SolveOK, DownloadedIsManifest, BoundSolveUsedManifestBytes
  <2>7. SnapshotAges'
    BY <2>1, <2>5 DEF CatalogInv, SnapshotAges
  <2>8. BadReadIsStale'
    BY <2>1, <2>5 DEF CatalogInv, BadReadIsStale, SolveOK
  <2> QED BY <2>2, <2>4, <2>6, <2>7, <2>8 DEF CatalogInv
<1> QED BY <1>1, <1>2, UserEditsInv, TakeSnapshotInv, ReadIndexInv, CheckSnapshotInv DEF World

-----------------------------------------------------------------------------
(* The desktop starts commands, kills them and quits.                      *)
Shutdown ==
  /\ UNCHANGED <<provider, bundle, directory, edits, solve>>
  /\ phase' \in [Procs -> {"idle", "begin", "hold"} \cup Ended]
  /\ (lock' = Free /\ at' = Idle) \/ UNCHANGED <<lock, at>>

LEMMA ShutdownInv ==
  ASSUME CatalogInv, Shutdown PROVE CatalogInv'
<1>1. AtOK' /\ LinkHashed' /\ lock' \in Procs \cup {Free}
  BY IdleOK DEF CatalogInv, TypeOK, Shutdown, AtOK, LinkHashed, directory, Manifest
<1>2. TypeOK' /\ FilesOK'
  BY <1>1 DEF CatalogInv, TypeOK, FilesOK, Shutdown, directory
<1> QED BY <1>1, <1>2, FilesStand DEF CatalogInv, Shutdown, directory

LEMMA StutterInv ==
  ASSUME CatalogInv, UNCHANGED vars PROVE CatalogInv'
<1>1. TypeOK' /\ FilesOK' /\ AtOK' /\ LinkHashed'
  BY DEF CatalogInv, TypeOK, FilesOK, AtOK, LinkHashed, vars, directory, Manifest
<1> QED BY <1>1, FilesStand DEF CatalogInv, vars, directory

LEMMA DesktopProcesses == \A j \in Jobs : j \in Procs /\ VerifierOf(j) \in Procs
BY DesktopAssumption DEF Jobs, VerifierOf, Procs

CatalogStep ==
  \/ UNCHANGED vars \/ Commands \/ Downloads \/ World \/ Shutdown
  \/ \E p \in Procs : Link(p) \/ Copy(p)

LEMMA CatalogStepInv ==
  ASSUME CatalogInv, CatalogStep PROVE CatalogInv'
BY StutterInv, CommandsInv, DownloadsInv, WorldInv, ShutdownInv, LinkInv, CopyInv DEF CatalogStep

-----------------------------------------------------------------------------
(* Every message between the host and the view names a job: what the       *)
(* desktop starts and kills are commands of the catalog.                   *)
MessagesOK ==
  /\ events \in Seq(Jobs \X {"complete", "error"})
  /\ answers \subseteq Jobs \X BOOLEAN
  /\ cancel[1] \in {"sent", "done", "refused"} => cancel[2] \in Jobs
  /\ jobId \in Jobs \cup {NoJob}
  /\ pending \in Jobs \cup {NoJob}
  /\ finishing \in Jobs \cup {NoJob}

LEMMA MessagesInit == ASSUME DInit PROVE MessagesOK
<1>1. <<>> \in Seq(Jobs \X {"complete", "error"})
  BY EmptySeq
<1> QED BY <1>1 DEF DInit, MessagesOK

LEMMA MessagesInv == ASSUME MessagesOK, [DNext]_dvars PROVE MessagesOK'
<1>1. CASE UNCHANGED <<wire, view>>
  BY <1>1 DEF MessagesOK, wire, view
<1>2. ASSUME NEW j \in Jobs, HostStart(j) \/ HostRegister(j)
      PROVE  MessagesOK'
  <2>1. answers' = answers \/ \E b \in BOOLEAN : answers' = answers \cup {<<j, b>>}
    BY <1>2 DEF HostStart, HostRegister
  <2>2. UNCHANGED <<events, cancel, view>>
    BY <1>2 DEF HostStart, HostRegister
  <2> QED BY <2>1, <2>2 DEF MessagesOK, view
<1>3. ASSUME NEW j \in Jobs, MonitorEmits(j)
      PROVE  MessagesOK'
  <2>1. UNCHANGED <<answers, cancel, view>>
    BY <1>3 DEF MonitorEmits
  <2> DEFINE e == <<j, IF phase[j] = "ok" /\ schema THEN "complete" ELSE "error">>
  <2>2. events' = Append(events, e) /\ e \in Jobs \X {"complete", "error"}
    BY <1>3 DEF MonitorEmits
  <2> HIDE DEF e
  <2>3. events' \in Seq(Jobs \X {"complete", "error"})
    BY <2>2, AppendProperties DEF MessagesOK
  <2> QED BY <2>1, <2>3 DEF MessagesOK, view
<1>4. CASE HostCancel
  BY <1>4 DEF HostCancel, MessagesOK, view
<1>5. CASE Quit
  <2>1. <<>> \in Seq(Jobs \X {"complete", "error"})
    BY EmptySeq
  <2>2. /\ events' = <<>> /\ answers' = {} /\ cancel' = <<"idle", NoJob>>
        /\ jobId' = NoJob /\ pending' = NoJob /\ finishing' = NoJob
    BY <1>5 DEF Quit
  <2> QED BY <2>1, <2>2 DEF MessagesOK
<1>6. CASE ReceiveAnswer
  <2>1. PICK answer \in answers :
          /\ answers' = answers \ {answer}
          /\ jobId' \in {answer[1], jobId} /\ pending' \in {NoJob, pending}
          /\ finishing' \in {finishing, pending}
    BY <1>6 DEF ReceiveAnswer, Finish
  <2>2. answer[1] \in Jobs /\ UNCHANGED <<events, cancel>>
    BY <1>6, <2>1 DEF MessagesOK, ReceiveAnswer
  <2> QED BY <2>1, <2>2 DEF MessagesOK
<1>7. CASE ReceiveEvent
  <2>1. /\ Head(events)[1] \in Jobs /\ events' \in Seq(Jobs \X {"complete", "error"})
    <3>1. events \in Seq(Jobs \X {"complete", "error"}) /\ events # <<>> /\ events' = Tail(events)
      BY <1>7 DEF MessagesOK, ReceiveEvent
    <3>2. Head(events) \in Jobs \X {"complete", "error"} /\ Tail(events) \in Seq(Jobs \X {"complete", "error"})
      BY <3>1, HeadTailProperties
    <3> QED BY <3>1, <3>2
  <2>2. /\ pending' \in {pending, Head(events)[1]} /\ finishing' \in {finishing, Head(events)[1]}
        /\ UNCHANGED <<answers, cancel, jobId>>
    BY <1>7 DEF ReceiveEvent, Finish
  <2> QED BY <2>1, <2>2 DEF MessagesOK
<1>8. CASE VerifyAnswers
  BY <1>8 DEF VerifyAnswers, MessagesOK, wire
<1>9. CASE CancelAnswers
  BY <1>9 DEF CancelAnswers, MessagesOK
<1>10. CASE ClickCancel
  BY <1>10 DEF ClickCancel, MessagesOK
<1>11. CASE ClickStart
  BY <1>11 DEF ClickStart, MessagesOK, wire
<1>12. CASE Recheck
  BY <1>12 DEF Recheck, MessagesOK, wire
<1>13. CASE CallVerify \/ Exit \/ Outside \/ (\E p \in Procs : Engine(p))
          \/ (\E j \in Jobs : MonitorReaps(j)) \/ UNCHANGED dvars
  BY <1>1, <1>13 DEF CallVerify, Exit, Outside, Engine, MonitorReaps, dvars
<1> QED BY <1>2, <1>3, <1>4, <1>5, <1>6, <1>7, <1>8, <1>9, <1>10, <1>11, <1>12, <1>13
        DEF DNext, HostStep, ViewStep

LEMMA QuitShutsDown == ASSUME TypeOK, Quit PROVE Shutdown
<1>1. phase' \in [Procs -> {"idle", "begin", "hold"} \cup Ended]
  BY DEF TypeOK, Quit, Ended
<1> QED BY <1>1 DEF Quit, Shutdown

LEMMA DesktopMovesCatalog ==
  ASSUME TypeOK, MessagesOK, [DNext]_dvars PROVE CatalogStep
<1>1. ASSUME NEW p \in Procs, Engine(p) PROVE CatalogStep
  <2>1. CASE AcquireBundled(p)
    BY <2>1 DEF CatalogStep, Commands
  <2>2. ASSUME NEW sel \in Selections(p), AcquireNow(p, sel) PROVE CatalogStep
    <3>1. sel \in SUBSET Artifacts
      BY DEF Selections
    <3> QED BY <2>2, <3>1 DEF CatalogStep, Commands
  <2>3. CASE Writer(p)
    BY <2>3 DEF Writer, CatalogStep, Commands, Downloads
  <2> QED BY <1>1, <2>1, <2>2, <2>3 DEF Engine, Acquire
<1>2. ASSUME NEW j \in Jobs, HostStep(j) PROVE CatalogStep
  <2>1. UNCHANGED vars \/ Start(j) \/ Kill(j)
    BY <1>2 DEF HostStep, HostStart, HostRegister, MonitorReaps, MonitorEmits
  <2> QED BY <2>1, DesktopProcesses DEF CatalogStep, Commands
<1>3. CASE HostCancel
  <2>1. UNCHANGED vars \/ Kill(cancel[2])
    BY <1>3 DEF HostCancel
  <2>2. cancel[2] \in Procs
    BY <1>3, DesktopProcesses DEF HostCancel, MessagesOK
  <2> QED BY <2>1, <2>2 DEF CatalogStep, Commands
<1>4. CASE ViewStep
  <2>1. UNCHANGED vars \/ (finishing # NoJob /\ Start(VerifierOf(finishing)))
    BY <1>4 DEF ViewStep, ReceiveAnswer, ReceiveEvent, CallVerify, VerifyAnswers, CancelAnswers
  <2>2. finishing # NoJob => VerifierOf(finishing) \in Procs
    BY DesktopProcesses DEF MessagesOK
  <2> QED BY <2>1, <2>2 DEF CatalogStep, Commands
<1>5. CASE Quit
  BY <1>5, QuitShutsDown DEF CatalogStep
<1>6. CASE Exit \/ ClickStart \/ ClickCancel \/ Recheck \/ UNCHANGED dvars
  BY <1>6 DEF Exit, ClickStart, ClickCancel, Recheck, dvars, CatalogStep
<1>7. CASE Outside
  BY <1>7 DEF Outside, CatalogStep, Commands
<1> QED BY <1>1, <1>2, <1>3, <1>4, <1>5, <1>6, <1>7 DEF DNext

-----------------------------------------------------------------------------
LEMMA CatalogInit == ASSUME DInit PROVE CatalogInv
<1>1. Init /\ lock = Free /\ at = Idle /\ edits = 0 /\ solve = NoSolve
  BY DEF DInit, Init
<1>2. PICK have \in SUBSET Artifacts :
        dest = [a \in Artifacts |-> IF a \in have THEN Downloaded ELSE Absent]
  BY <1>1 DEF Init
<1>3. 0 \in 0..MaxEdits /\ 1 \in 1..MaxVersion /\ Missing \in NoTag..Missing
  BY CatalogAssumption DEF NoTag, Missing
<1>4. Absent \in FileKinds /\ Downloaded \in FileKinds
  BY <1>3 DEF Absent, Downloaded, FileKinds
<1>5. dest \in [Artifacts -> FileKinds] /\ Dated /\ DownloadedIsManifest
  BY <1>1, <1>2, <1>4 DEF Dated, DownloadedIsManifest, Absent, Downloaded
<1>6. <<>> \in Seq(1..MaxVersion) /\ Len(<<>>) = 0
  BY EmptySeq
<1>7. /\ partial \in [Artifacts -> Seq(1..MaxVersion)] /\ invalid \in [Artifacts -> SUBSET Seq(1..MaxVersion)]
      /\ \A a \in Artifacts : Len(partial[a]) <= Sizes[a]
  BY <1>1, <1>6, SizesOK DEF Init
<1>8. resume \in [Artifacts -> NoTag..Missing]
  BY <1>1, <1>3 DEF Init
<1>9. TypeOK
  BY <1>1, <1>3, <1>5, <1>7, <1>8 DEF Init, TypeOK, FileKinds
<1>10. SolveOK /\ BoundSolveUsedManifestBytes /\ SnapshotAges /\ BadReadIsStale
  BY <1>1 DEF NoSolve, SolveOK, BoundSolveUsedManifestBytes, SnapshotAges, BadReadIsStale
<1>11. AtOK /\ LinkHashed
  BY <1>1, IdleOK DEF AtOK, LinkHashed
<1> QED BY <1>5, <1>7, <1>9, <1>10, <1>11 DEF CatalogInv, FilesOK

(* The directory, its writers and the readers stay consistent, whatever    *)
(* the desktop, the commands, the provider and the user do.                *)
THEOREM CatalogInvariant == DSpec => [](CatalogInv /\ MessagesOK)
<1>1. DInit => CatalogInv /\ MessagesOK
  BY CatalogInit, MessagesInit
<1>2. CatalogInv /\ MessagesOK /\ [DNext]_dvars => (CatalogInv /\ MessagesOK)'
  <2> SUFFICES ASSUME CatalogInv, MessagesOK, [DNext]_dvars PROVE (CatalogInv /\ MessagesOK)'
    OBVIOUS
  <2>1. TypeOK
    BY DEF CatalogInv
  <2>2. CatalogStep
    BY <2>1, DesktopMovesCatalog
  <2> QED BY <2>2, CatalogStepInv, MessagesInv
<1> QED BY <1>1, <1>2, PTL DEF DSpec

THEOREM CatalogTypeCorrect == DSpec => []TypeOK
<1>1. CatalogInv => TypeOK
  BY DEF CatalogInv
<1> QED BY <1>1, CatalogInvariant, PTL

(* A file the installer downloaded has the bytes the checked manifest      *)
(* names, for any catalog and any number of interrupted attempts.          *)
THEOREM DownloadsAreManifest == DSpec => []DownloadedIsManifest
<1>1. CatalogInv => DownloadedIsManifest
  BY DEF CatalogInv
<1> QED BY <1>1, CatalogInvariant, PTL

(* An accepted strict solve read only manifest bytes, whatever was put in  *)
(* the place of an index, and put back, while solve-field ran.             *)
THEOREM SolvesAreBound == DSpec => []BoundSolveUsedManifestBytes
<1>1. CatalogInv => BoundSolveUsedManifestBytes
  BY DEF CatalogInv
<1> QED BY <1>1, CatalogInvariant, PTL
=============================================================================
