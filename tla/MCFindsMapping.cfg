SPECIFICATION Spec
CONSTANTS
  Page = 2
  Base = 2
  Top = 8
  Prots = {rw, none}
  HeapProt = rw
  NoProt = none
  Heap = {2}
  Addrs = {1, 2, 4, 5}
  Sizes = {0, 2, 5}
INVARIANT FindsMapping
