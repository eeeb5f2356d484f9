\* Two writers that only write: the mirror is given what one of them is filling.
CONSTANTS
  Thread = {t1, t2}
  Item = {a, b, c}
  NoItem = NoItem
  Size = 3
  w1 = w1
  w2 = w2
  reader = reader
  mirror_reader = mirror_reader
  s1 = s1
  s2 = s2
  s3 = s3
  m1 = m1
  m2 = m2
  Writer <- MCWriter
  Reader <- NoReader
  ReadsFrom <- NoReadsFrom
  Copy <- MCCopy
  RepoOf <- MCRepoOf
  NoCopy = NoCopy
  ReadWrite <- NoWriter
  MaxVersion = 3
  ListSize = 4
  NULL = NULL
  Parts = {"repository"}
SPECIFICATION DataSpec
INVARIANT MirrorIsWhole
CHECK_DEADLOCK FALSE
