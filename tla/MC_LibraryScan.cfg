SPECIFICATION FairSpec
CONSTANTS
  m = m
  cache = cache
  m2 = m2
  chunk = chunk
  film = film
  l1 = l1
  l2 = l2
  Libs = {l1, l2}
  Dirs = {m, cache, m2}
  Files = {chunk, film}
  Above <- Tree
  DirOf <- FileDirs
  StartsWith <- TextPrefixes
  Internal = {cache}
  Requested <- OnePathEach
  QueueCap = 2
  ResultsCap = 1
  MaxEvents = 2
  MaxCopies = 1
  NoDir = NoDir
  NoLib = NoLib
INVARIANTS
  LibraryInv
  FiledWhereItBelongs
PROPERTIES
  AcceptedScanFinds
  NewDirIsHandled
