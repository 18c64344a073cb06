\* Two installations from the desktop beside a bundled one.
CONSTANTS
  Sizes <- TwoArtifacts
  Installers = {1, 2, 6, 7}
  Verifiers = {3, 4}
  Bundlers = {5}
  MaxJobs = 2
  MaxVersion = 2
  MaxEdits = 2
SPECIFICATION MCSpec
INVARIANTS DownloadedIsManifest 
PROPERTY InstallSettles
CHECK_DEADLOCK FALSE
