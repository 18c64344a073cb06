---------------------------- MODULE CatalogInstall ----------------------------
(***************************************************************************)
(* The managed catalog directory (solvers/catalogs.py): engine processes   *)
(* that write it, one at a time under the writer lock, and a strict solve  *)
(* that reads it without the lock.                                         *)
(*                                                                         *)
(* "install" downloads the selected artifacts, resuming partial files;     *)
(* "bundled" publishes the index set a self-contained build ships;         *)
(* "verify" is catalog verify --configure.  Each ends by writing           *)
(* astrometry.cfg and an installed-set receipt.  Around them: the provider *)
(* replaces its object, the user edits files, processes are killed.        *)
(*                                                                         *)
(* The bytes of a file are a sequence of chunks, each the provider version *)
(* it came from; version 1 is the one the checked manifest hashes.         *)
(***************************************************************************)
EXTENDS Naturals, Sequences, FiniteSets

CONSTANTS
  Sizes,       \* Sizes[a]: chunks of artifact a; the artifacts are 1..Len(Sizes)
  Installers,  \* processes that run catalog install
  Bundlers,    \* processes that run install_bundled_catalog
  Verifiers,   \* processes that run catalog verify --configure
  MaxVersion,  \* bound: versions the provider serves
  MaxEdits     \* bound: edits the user makes in the directory

ASSUME CatalogAssumption ==
  /\ Sizes \in Seq(Nat \ {0}) /\ Len(Sizes) > 0
  /\ MaxVersion \in Nat \ {0} /\ MaxEdits \in Nat
  /\ Installers \cup Bundlers \cup Verifiers \subseteq Nat \ {0}

Artifacts == DOMAIN Sizes
Procs     == Installers \cup Bundlers \cup Verifiers
Free      == 0   \* the lock nobody holds
NoTag     == 0   \* a resume state without a strong entity tag
Missing   == MaxVersion + 1   \* no resume state

VARIABLES
  provider,  \* the version the provider serves
  bundle,    \* "manifest" or "other": the bytes the build ships
  dest,      \* dest[a]: the published file: its bytes, who made it, its stat identity
  partial,   \* partial[a]: the bytes of the .partial file
  resume,    \* resume[a]: the entity tag in the resume state
  invalid,   \* invalid[a]: the forensic copies of downloads with a bad hash
  config,    \* astrometry.cfg: absent, ours or foreign
  receipts,  \* the sets of artifacts with an installed-set receipt
  lock,      \* the process in _catalog_lock, or Free
  phase,     \* phase[p]: where process p stands
  at,        \* what the lock holder is doing: step, artifact, selection, offset, response
  edits,     \* edits the user has made
  solve      \* a strict solve: its step, its snapshot and what it has read

directory == <<dest, partial, resume, invalid, config, receipts>>
vars == <<provider, bundle, directory, lock, phase, at, edits, solve>>

Absent   == [bytes |-> "absent", by |-> "nobody", id |-> 0]
Downloaded == [bytes |-> "manifest", by |-> "download", id |-> 0]
Idle     == [step |-> "none", artifact |-> 0, sel |-> {}, append |-> FALSE, version |-> 0]
NoSolve  == [step |-> "idle", snap |-> <<{}, {}>>, read |-> {}, bad |-> FALSE]
Ended    == {"ok", "failed"}

TypeOK ==
  /\ provider \in 1..MaxVersion
  /\ bundle \in {"manifest", "other"}
  /\ dest \in [Artifacts -> [bytes : {"absent", "manifest", "other"},
                             by : {"nobody", "download", "bundle", "user"}, id : 0..MaxEdits]]
  /\ \A a \in Artifacts :
       partial[a] \in Seq(1..MaxVersion) /\ Len(partial[a]) <= Sizes[a]
  /\ resume \in [Artifacts -> NoTag..Missing]
  /\ \A a \in Artifacts : invalid[a] \subseteq Seq(1..MaxVersion)
  /\ config \in {"absent", "ours", "foreign"}
  /\ receipts \subseteq SUBSET Artifacts
  /\ lock \in Procs \cup {Free}
  /\ phase \in [Procs -> {"idle", "begin", "hold"} \cup Ended]
  /\ edits \in 0..MaxEdits

Init ==
  /\ provider = 1 /\ bundle \in {"manifest", "other"}
  /\ \E have \in SUBSET Artifacts :  \* an earlier command was interrupted after these
       dest = [a \in Artifacts |-> IF a \in have THEN Downloaded ELSE Absent]
  /\ partial = [a \in Artifacts |-> <<>>]
  /\ resume = [a \in Artifacts |-> Missing]
  /\ invalid = [a \in Artifacts |-> {}]
  /\ config = "absent" /\ receipts = {}
  /\ lock = Free /\ phase = [p \in Procs |-> "idle"] /\ at = Idle
  /\ edits = 0 /\ solve = NoSolve

-----------------------------------------------------------------------------
(* _hash_regular_file: the size and the SHA-256 of a file. *)

Manifest(a)     == [i \in 1..Sizes[a] |-> 1]
HashOk(a)       == dest[a].bytes = "manifest"
Published(a)    == dest[a].bytes # "absent"
File(kind, who) == [bytes |-> kind, by |-> who, id |-> edits]

(* The lock holder ends: its finally clause releases the lock. *)
Release(p, end) ==
  /\ lock' = Free /\ at' = Idle /\ phase' = [phase EXCEPT ![p] = end]

Fail(p) == Release(p, "failed")

Holds(p, step) == lock = p /\ at.step = step
Step(s)        == at' = [at EXCEPT !.step = s] /\ UNCHANGED <<lock, phase>>

-----------------------------------------------------------------------------
(* Taking the lock. *)

Start(p) ==
  /\ phase[p] = "idle"
  /\ phase' = [phase EXCEPT ![p] = "begin"]
  /\ UNCHANGED <<provider, bundle, directory, lock, at, edits, solve>>

(* install_catalog and verify_catalog do not wait: CATALOG_INSTALL_BUSY. *)
AcquireNow(p, sel) ==
  /\ p \in Installers \cup Verifiers /\ phase[p] = "begin"
  /\ \/ /\ lock # Free /\ phase' = [phase EXCEPT ![p] = "failed"]
        /\ UNCHANGED <<lock, at>>
     \/ /\ lock = Free /\ lock' = p /\ phase' = [phase EXCEPT ![p] = "hold"]
        /\ at' = [Idle EXCEPT !.step = IF p \in Installers THEN "existing" ELSE "verify",
                              !.artifact = 1, !.sel = sel]
  /\ UNCHANGED <<provider, bundle, directory, edits, solve>>

(* install_bundled_catalog: nothing to do once a configuration is present, *)
(* looked at before the lock and again under it; the wait has a deadline.  *)
AcquireBundled(p) ==
  /\ p \in Bundlers /\ phase[p] = "begin"
  /\ \/ config # "absent" /\ phase' = [phase EXCEPT ![p] = "ok"] /\ UNCHANGED <<lock, at>>
     \/ lock # Free /\ phase' = [phase EXCEPT ![p] = "failed"] /\ UNCHANGED <<lock, at>>
     \/ /\ lock = Free /\ config = "absent"
        /\ lock' = p /\ phase' = [phase EXCEPT ![p] = "hold"]
        /\ at' = [Idle EXCEPT !.step = "copy", !.artifact = 1, !.sel = Artifacts]
  /\ UNCHANGED <<provider, bundle, directory, edits, solve>>

-----------------------------------------------------------------------------
(* _download_artifact, for the artifact the holder is at. *)

Advance(a) ==
  IF a < Len(Sizes) THEN at' = [at EXCEPT !.artifact = a + 1, !.step = "existing"]
                    ELSE at' = [at EXCEPT !.step = "rehash"]

(* A published file is checked against the manifest and left alone.        *)
Existing(p) ==
  LET a == at.artifact IN
  /\ Holds(p, "existing")
  /\ \/ a \notin at.sel /\ Advance(a) /\ UNCHANGED <<lock, phase>>
     \/ a \in at.sel /\ Published(a) /\ HashOk(a) /\ Advance(a) /\ UNCHANGED <<lock, phase>>
     \/ a \in at.sel /\ Published(a) /\ ~HashOk(a) /\ Fail(p)
  /\ UNCHANGED <<provider, bundle, directory, edits, solve>>

(* Otherwise the resume state is created or read.  A partial file without  *)
(* a strong tag restarts at 0; a complete one goes straight to the hash.   *)
Resume(p) ==
  LET a == at.artifact
      tag == IF resume[a] = Missing THEN NoTag ELSE resume[a]
      size == Len(partial[a])
  IN
  /\ Holds(p, "existing") /\ a \in at.sel /\ ~Published(a)
  /\ resume' = [resume EXCEPT ![a] = tag]
  /\ IF size = Sizes[a] THEN Step("hash")
     ELSE /\ at' = [at EXCEPT !.step = "open", !.append = size > 0 /\ tag # NoTag]
          /\ UNCHANGED <<lock, phase>>
  /\ UNCHANGED <<provider, bundle, dest, partial, invalid, config, receipts, edits, solve>>

(* transport.open and the checks of the answer.  The provider answers a    *)
(* range only for the object whose tag it was asked for (If-Range); it may *)
(* ignore the range, or send no strong tag.                                *)
Respond(p, tagged, honoured) ==
  LET a == at.artifact
      ranged == honoured /\ at.append /\ resume[a] = provider
  IN
  /\ Holds(p, "open")
  /\ \/ Fail(p) /\ UNCHANGED resume
     \/ /\ ranged /\ ~tagged /\ Fail(p) /\ UNCHANGED resume
     \/ /\ ranged /\ tagged
        /\ at' = [at EXCEPT !.step = "length", !.version = provider]
        /\ UNCHANGED <<resume, lock, phase>>
     \/ /\ ~ranged
        /\ resume' = [resume EXCEPT ![a] = IF tagged THEN provider ELSE NoTag]
        /\ at' = [at EXCEPT !.step = "length", !.append = FALSE, !.version = provider]
        /\ UNCHANGED <<lock, phase>>
  /\ UNCHANGED <<provider, bundle, dest, partial, invalid, config, receipts, edits, solve>>

(* Content-Length is compared before the partial file is opened. *)
OpenPartial(p) ==
  LET a == at.artifact IN
  /\ Holds(p, "length")
  /\ \/ Fail(p) /\ UNCHANGED partial
     \/ /\ partial' = IF at.append THEN partial ELSE [partial EXCEPT ![a] = <<>>]
        /\ Step("body")
  /\ UNCHANGED <<provider, bundle, dest, resume, invalid, config, receipts, edits, solve>>

(* The stream gives a chunk, ends early, or exceeds the size. *)
Body(p) ==
  LET a == at.artifact IN
  /\ Holds(p, "body")
  /\ \/ Fail(p) /\ UNCHANGED partial
     \/ /\ Len(partial[a]) < Sizes[a]
        /\ partial' = [partial EXCEPT ![a] = Append(@, at.version)]
        /\ UNCHANGED <<at, lock, phase>>
     \/ Len(partial[a]) = Sizes[a] /\ Step("hash") /\ UNCHANGED partial
  /\ UNCHANGED <<provider, bundle, dest, resume, invalid, config, receipts, edits, solve>>

(* Mutant: a complete download is trusted by its size. *)
HashBySize(p) ==
  /\ Holds(p, "hash") /\ Step("link")
  /\ UNCHANGED <<provider, bundle, directory, edits, solve>>

(* A bad hash moves the partial aside and forgets the resume state, unless *)
(* a forensic copy with that digest exists: then everything stays.         *)
Hash(p) ==
  LET a == at.artifact
      bytes == partial[a]
  IN
  /\ Holds(p, "hash")
  /\ \/ bytes = Manifest(a) /\ Step("link") /\ UNCHANGED <<partial, resume, invalid>>
     \/ /\ bytes # Manifest(a) /\ Fail(p)
        /\ IF bytes \in invalid[a]
           THEN UNCHANGED <<partial, resume, invalid>>
           ELSE /\ invalid' = [invalid EXCEPT ![a] = @ \cup {bytes}]
                /\ partial' = [partial EXCEPT ![a] = <<>>]
                /\ resume' = [resume EXCEPT ![a] = Missing]
  /\ UNCHANGED <<provider, bundle, dest, config, receipts, edits, solve>>

(* os.link publishes create-only. *)
Link(p) ==
  LET a == at.artifact IN
  /\ Holds(p, "link")
  /\ \/ Published(a) /\ Fail(p) /\ UNCHANGED dest
     \/ /\ ~Published(a)
        /\ dest' = [dest EXCEPT ![a] =
                      File(IF partial[a] = Manifest(a) THEN "manifest" ELSE "other", "download")]
        /\ Step("clean")
  /\ UNCHANGED <<provider, bundle, partial, resume, invalid, config, receipts, edits, solve>>

Clean(p) ==
  LET a == at.artifact IN
  /\ Holds(p, "clean")
  /\ partial' = [partial EXCEPT ![a] = <<>>]
  /\ resume' = [resume EXCEPT ![a] = Missing]
  /\ Advance(a)
  /\ UNCHANGED <<provider, bundle, dest, invalid, config, receipts, lock, phase, edits, solve>>

-----------------------------------------------------------------------------
(* The other two writers, and the receipt they all end with. *)

(* _publish_copy, for every artifact that is missing. *)
Copy(p) ==
  LET a == at.artifact IN
  /\ Holds(p, "copy")
  /\ dest' = IF Published(a) THEN dest ELSE [dest EXCEPT ![a] = File(bundle, "bundle")]
  /\ IF a < Len(Sizes) THEN at' = [at EXCEPT !.artifact = a + 1] ELSE at' = [at EXCEPT !.step = "verify"]
  /\ UNCHANGED <<provider, bundle, partial, resume, invalid, config, receipts, lock, phase,
                 edits, solve>>

(* _verify_artifacts; a selection that does not verify writes nothing. *)
Verify(p) ==
  /\ Holds(p, "verify")
  /\ IF \A a \in at.sel : HashOk(a) THEN Step("rehash") ELSE Fail(p)
  /\ UNCHANGED <<provider, bundle, directory, edits, solve>>

(* write_installed_set_receipt: every artifact is hashed again, then the   *)
(* configuration is written ...                                            *)
WriteConfig(p) ==
  /\ Holds(p, "rehash")
  /\ \/ (\E a \in at.sel : ~HashOk(a)) /\ Fail(p) /\ UNCHANGED config
     \/ (\A a \in at.sel : HashOk(a)) /\ config = "foreign" /\ Fail(p) /\ UNCHANGED config
     \/ /\ \A a \in at.sel : HashOk(a)
        /\ config # "foreign" /\ config' = "ours" /\ Step("receipt")
  /\ UNCHANGED <<provider, bundle, dest, partial, resume, invalid, receipts, edits, solve>>

(* ... and then the receipt. *)
WriteReceipt(p) ==
  /\ Holds(p, "receipt")
  /\ receipts' = receipts \cup {at.sel}
  /\ Release(p, "ok")
  /\ UNCHANGED <<provider, bundle, dest, partial, resume, invalid, config, edits, solve>>

(* A killed process drops its flock and leaves every file as it is. *)
Kill(p) ==
  /\ phase[p] \in {"begin", "hold"}
  /\ IF lock = p THEN Fail(p)
     ELSE phase' = [phase EXCEPT ![p] = "failed"] /\ UNCHANGED <<lock, at>>
  /\ UNCHANGED <<provider, bundle, directory, edits, solve>>

-----------------------------------------------------------------------------
(* A strict solve with a managed configuration (astrometry_net.py). *)

(* _verified_receipts. *)
Verified == {r \in receipts : config = "ours" /\ \A a \in r : HashOk(a)}
Snapshot == UNION {{<<a, dest[a].id>> : a \in r} : r \in Verified}
Covered  == UNION Verified

TakeSnapshot ==
  /\ solve.step = "idle" /\ Verified # {}
  /\ solve' = [solve EXCEPT !.step = "solving", !.snap = <<Verified, Snapshot>>]
  /\ UNCHANGED <<provider, bundle, directory, lock, phase, at, edits>>

(* solve-field opens one more of the indexes the configuration reaches. *)
ReadIndex(a) ==
  /\ solve.step = "solving" /\ a \notin solve.read /\ Published(a)
  /\ solve' = [solve EXCEPT !.read = @ \cup {a}, !.bad = @ \/ ~HashOk(a)]
  /\ UNCHANGED <<provider, bundle, directory, lock, phase, at, edits>>

(* The indexes used must be covered by a receipt of the snapshot, the most *)
(* specific one unambiguously, and the snapshot must not have changed.     *)
Smallest(sets) == {r \in sets : \A q \in sets : Cardinality(r) <= Cardinality(q)}

(* Mutant: the second snapshot compares receipts and hashes, not files. *)
AcceptSameBytes ==
  LET covering == {r \in Verified : solve.read \subseteq r} IN
  /\ solve.read # {} /\ covering # {}
  /\ Cardinality(Smallest(covering)) = 1
  /\ Smallest(covering) \subseteq solve.snap[1]
  /\ Verified = solve.snap[1]

Accept ==
  LET covering == {r \in Verified : solve.read \subseteq r} IN
  /\ solve.read # {} /\ covering # {}
  /\ Cardinality(Smallest(covering)) = 1
  /\ Smallest(covering) \subseteq solve.snap[1]
  /\ <<Verified, Snapshot>> = solve.snap

CheckSnapshot ==
  /\ solve.step = "solving"
  /\ solve' = [solve EXCEPT !.step = IF Accept THEN "accepted" ELSE "rejected"]
  /\ UNCHANGED <<provider, bundle, directory, lock, phase, at, edits>>

-----------------------------------------------------------------------------
(* The world around. *)

ProviderReplaces ==
  /\ provider < MaxVersion /\ provider' = provider + 1
  /\ UNCHANGED <<bundle, directory, lock, phase, at, edits, solve>>

(* The user removes a file, or puts one there: a file edited is a file of  *)
(* another stat identity, even when its bytes are the same.                *)
UserEdits(a, kind) ==
  /\ edits < MaxEdits /\ edits' = edits + 1
  /\ dest' = [dest EXCEPT ![a] = IF kind = "absent" THEN Absent
                                 ELSE [bytes |-> kind, by |-> "user", id |-> edits + 1]]
  /\ UNCHANGED <<provider, bundle, partial, resume, invalid, config, receipts, lock, phase, at,
                 solve>>

UserConfig(kind) ==
  /\ edits < MaxEdits /\ edits' = edits + 1
  /\ config' = kind
  /\ UNCHANGED <<provider, bundle, dest, partial, resume, invalid, receipts, lock, phase, at,
                 solve>>

Writer(p) ==
  \/ \E tagged, honoured \in BOOLEAN : Respond(p, tagged, honoured)
  \/ Existing(p) \/ Resume(p) \/ OpenPartial(p) \/ Body(p) \/ Hash(p) \/ Link(p)
  \/ Clean(p) \/ Copy(p) \/ Verify(p) \/ WriteConfig(p) \/ WriteReceipt(p)

World ==
  \/ ProviderReplaces
  \/ \E a \in Artifacts, kind \in {"absent", "manifest", "other"} : UserEdits(a, kind)
  \/ \E kind \in {"absent", "foreign"} : UserConfig(kind)
  \/ TakeSnapshot \/ CheckSnapshot \/ \E a \in Artifacts : ReadIndex(a)

-----------------------------------------------------------------------------
(* A file the installer downloaded has the bytes the checked manifest      *)
(* names, whatever the provider served in between and wherever earlier     *)
(* attempts were interrupted (catalogs.py, _download_artifact).            *)
DownloadedIsManifest ==
  \A a \in Artifacts : dest[a].by = "download" => dest[a].bytes = "manifest"

(* A strict solve that is accepted read only manifest bytes: an index that *)
(* was replaced while solve-field ran, even one put back before the second *)
(* snapshot, makes the solve fail (verify_installed_set_snapshot).         *)
BoundSolveUsedManifestBytes == solve.step = "accepted" => ~solve.bad
=============================================================================
