\* The module FIFO, and versioned data with two writers and two readers.
CONSTANTS
  Thread = {t1, t2}
  Item = {a, b, c}
  NoItem = NoItem
  Size = 3
  w1 = w1
  w2 = w2
  reader = reader
  mirror_reader = mirror_reader
  s1 = s1
  s2 = s2
  s3 = s3
  m1 = m1
  m2 = m2
  Writer <- MCWriter
  Reader <- MCReader
  ReadsFrom <- MCReadsFrom
  Copy <- MCCopy
  RepoOf <- MCRepoOf
  NoCopy = NoCopy
  ReadWrite <- MCReadWrite
  MaxVersion = 3
  ListSize = 4
  NULL = NULL
  Parts = {"ring", "list", "repository"}
SYMMETRY Symmetry
SPECIFICATION DataSpec
INVARIANTS RingAgrees UsedIsHeld
PROPERTIES ImplementsDeque ImplementsList ImplementsRegister
