------------------------------ MODULE MCCatalog ------------------------------
(***************************************************************************)
(* A catalog of two artifacts.  Every behaviour has a quota: the desktop   *)
(* is used, or install commands are repeated while the provider replaces   *)
(* its object, or the user edits files while a solve reads them.           *)
(***************************************************************************)
EXTENDS CatalogDesktop

VARIABLE quota

TwoArtifacts == <<2, 1>>

Quotas ==
  {[name |-> "desktop", edits |-> 0, versions |-> 1, commands |-> Bundlers, have |-> {2}],
   [name |-> "resume", edits |-> 0, versions |-> MaxVersion, commands |-> Installers, have |-> {2}],
   [name |-> "solve", edits |-> MaxEdits, versions |-> 1, commands |-> {6}, have |-> {2}]}

Within ==
  /\ started' > 0 => quota.name = "desktop"
  /\ edits' <= quota.edits /\ provider' <= quota.versions
  /\ solve'.step # "idle" => quota.name = "solve"
  /\ \A p \in Procs \ DesktopProcs : phase'[p] # "idle" =>
       p \in quota.commands /\ \A q \in Installers \ DesktopProcs : q < p => phase'[q] # "idle"

MCVars == <<dvars, quota>>

MCInit ==
  /\ DInit /\ quota \in Quotas
  /\ quota.name # "desktop" => schema
  /\ quota.have = {a \in Artifacts : Published(a)}

MCNext == DNext /\ Within /\ UNCHANGED quota

MCSpec == MCInit /\ [][MCNext]_MCVars /\ DFairness
=============================================================================
