\* Two servers mirror four turns of two sessions, one of them unattributed, with a cap
\* of two and a sweep at every second write; two configure settings and the denylist,
\* three times; two append four events of one or two bytes to files of two, of which
\* one segment is kept, while a reader goes through them twice; two agents write, delete
\* and read blobs of three keys with a cap of two and a sweep at every write, and ask
\* with references to one or two, while any access may find the store locked; two calls
\* index two files three times between them, with one of two models each, while one of
\* them is edited.
CONSTANTS
  s1 = s1  s2 = s2  mine = mine  nobodys = nobodys  w1 = w1  w2 = w2  council = council
  tracing = tracing  on = on  fable = fable  glm = glm  p1 = p1  p2 = p2  stats = stats
  a1 = a1  a2 = a2  b1 = b1  b2 = b2  b3 = b3  i1 = i1  i2 = i2  f1 = f1  f2 = f2
  text1 = text1  text2 = text2  nomic = nomic  minilm = minilm
  Servers = {s1, s2}
  Keys = {mine, nobodys}
  Unknown = {nobodys}
  Cap = 2
  SweepEvery = 2
  MaxTurns = 4
  Writers = {w1, w2}
  Settings = {council, tracing}
  Values = {on}
  Tokens = {fable, glm}
  EnvDenied = {glm}
  Unset = Unset
  NoWriter = NoWriter
  MaxSaves = 3
  Appenders = {p1, p2}
  Readers = {stats}
  Sizes = {1, 2}
  MaxBytes = 2
  Retain = 1
  All = All
  NoAppender = NoAppender
  MaxEvents = 4
  MaxReads = 2
  Agents = {a1, a2}
  BlobKeys = {b1, b2, b3}
  RefLists <- OneOrTwo
  CtxCap = 2
  CtxSweep = 1
  MaxWrites = 3
  MaxCalls = 4
  Indexers = {i1, i2}
  Paths <- TwoFiles
  Texts = {text1, text2}
  Gone = Gone
  EmbedModels = {nomic, minilm}
  MaxEdits = 1
  MaxIndexings = 3
CHECK_DEADLOCK FALSE
SPECIFICATION StoresSpec
INVARIANTS DerivedAgrees TrailInOrder NeverAskedBlind
PROPERTIES OnlyNamedSettings
