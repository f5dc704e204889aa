SPECIFICATION Spec
CONSTANTS
  Names = {1, 2}
  Feeds = {f1}
  t1 = t1
  t2 = t2
  Threads = {t1, t2}
  None = None
  PageSize = 1
  MaxFolders = 2
  MaxFaults = 1
SYMMETRY ThreadSymmetry
INVARIANTS TypeOK SelectionVisible FolderListAgrees PanelAgrees
PROPERTIES MenuMeansWhatItShows
