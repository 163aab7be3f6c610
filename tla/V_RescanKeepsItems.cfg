SPECIFICATION Spec
CONSTANTS
  m = m
  cache = cache
  m2 = m2
  chunk = chunk
  film = film
  l1 = l1
  l2 = l2
  Libs = {l1, l2}
  Dirs = {m, cache, m2}
  Files = {chunk, film}
  Above <- Tree
  DirOf <- FileDirs
  StartsWith <- TextPrefixes
  Internal = {cache}
  Requested <- OnePathEach
  QueueCap = 2
  ResultsCap = 1
  MaxEvents = 1
  MaxCopies = 2
  NoDir = NoDir
  NoLib = NoLib
PROPERTY RescanKeepsItems
