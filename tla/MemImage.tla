------------------------------ MODULE MemImage ------------------------------
(***************************************************************************)
(* The picture of memory that imgtrace keeps (cmd/imgtrace/mem_image.go):  *)
(* blocks of memory in which something is not zero, found by bisection and *)
(* by remembering the last, added and dropped as the guest stores; and how *)
(* they are laid out in the picture.  When one is recorded is left out.    *)
(***************************************************************************)
EXTENDS Naturals, SequencesExt, FiniteSetsExt

CONSTANTS
  BlockWidth,  \* a power of two; blocks are squares in the picture
  Blocks,      \* bound: blocks of memory
  Marks,       \* bound: values of a byte
  Starts, Sizes  \* bound: where the bytes told of begin, and how many they are

VARIABLES
  maps,      \* memImage.maps
  lastMap,   \* memImage.lastMap
  shadow,    \* history: memory as far as the hook on stores, or -binimg, told of it
  crashed    \* bytes went over the end of a block: index out of range
imageVars == <<maps, lastMap, shadow, crashed>>

BlockSize == BlockWidth * BlockWidth
Space == 0..(Blocks * BlockSize - 1)
Has(r, x) == r.addr <= x /\ x < r.addr + BlockSize
Start(x) == (x \div BlockSize) * BlockSize
ByteCount(r) == Quantify(DOMAIN r.data, LAMBDA i : r.data[i] # 0)

\* memImage.find: the index of the region with the address, 0 if there is none.
Bisect(s, x) ==
  LET half[lo \in Nat, hi \in Nat] ==
        IF hi - lo <= 1 THEN lo
        ELSE LET pivot == lo + (hi - lo) \div 2 IN
             IF x < s[pivot].addr THEN half[lo, pivot] ELSE half[pivot, hi]
  IN half[1, Len(s) + 1]
FindAny(s, last, x) ==   \* mutant: the last region is taken to be the one
  IF s = <<>> THEN 0 ELSE IF last \in DOMAIN s THEN last
  ELSE LET i == Bisect(s, x) IN IF Has(s[i], x) THEN i ELSE 0
Find(s, last, x) ==
  IF s = <<>> THEN 0
  ELSE IF last \in DOMAIN s /\ Has(s[last], x) THEN last
  ELSE LET i == Bisect(s, x) IN IF Has(s[i], x) THEN i ELSE 0

ByAddr(r, q) == r.addr < q.addr
Added(s, x) ==
  SortSeq(Append(s, [addr |-> Start(x), data |-> [i \in 0..(BlockSize - 1) |-> 0]]), ByAddr)

\* traceMem, for no more bytes than a block has: the picture and the last region.
Traced(s, last, x, data) ==
  LET had == Find(s, last, x)
      all == IF had = 0 THEN Added(s, x) ELSE s
      i == Find(all, last, x)
      r == [all[i] EXCEPT !.data = [k \in 0..(BlockSize - 1) |->
              IF all[i].addr + k \in x..(x + Len(data) - 1) THEN data[all[i].addr + k - x + 1] ELSE @[k]]] IN
  IF ByteCount(r) = 0 THEN [maps |-> RemoveAt(all, i), last |-> i]
  ELSE [maps |-> [all EXCEPT ![i] = r], last |-> i]

\* More bytes are cut at the ends of blocks: a first piece, and whole blocks.
Pieces(x, data) ==
  LET first == Start(x + BlockSize - 1) - x
      whole == {i \in first..(Len(data) - 1) : (i - first) % BlockSize = 0} IN
  IF Len(data) <= BlockSize THEN <<[addr |-> x, data |-> data]>>
  ELSE (IF first > 0 THEN <<[addr |-> x, data |-> SubSeq(data, 1, first)]>> ELSE <<>>)
       \o [k \in 1..Cardinality(whole) |->
             LET i == first + (k - 1) * BlockSize IN
             [addr |-> x + i, data |-> SubSeq(data, i + 1, i + BlockSize)]]

\* Neither a piece nor the last of them goes over the end of a block.
Fits(x, data) ==
  IF Len(data) <= BlockSize THEN Start(x) = Start(x + Len(data) - 1)
  ELSE (x + Len(data)) % BlockSize = 0

-----------------------------------------------------------------------------
(* The picture: which byte of which region is at a point, or Black.        *)

Black == <<0, 0>>
Height(n) == Min({h \in 0..n : h * h >= n})
Width(n) == IF n = 0 THEN 0 ELSE (n + Height(n) - 1) \div Height(n)
Points(n) == (0..(Width(n) * BlockWidth - 1)) \X (0..(Height(n) * BlockWidth - 1))

AtLinear(n, x, y) ==
  LET pix == x + y * BlockWidth * Width(n) IN
  IF pix \div BlockSize >= n THEN Black ELSE <<pix \div BlockSize + 1, pix % BlockSize>>

\* Columns are held against the height and rows against the width.
AtBlock(n, x, y) ==
  LET col == x \div BlockWidth row == y \div BlockWidth pos == row * Width(n) + col IN
  IF col >= Height(n) \/ row >= Width(n) \/ pos >= n THEN Black
  ELSE <<pos + 1, (x % BlockWidth) + (y % BlockWidth) * BlockWidth>>

\* A point of a block is turned at each level; what one level sets stays set.
Levels == LET half[s \in Nat] == IF s = 0 THEN <<>> ELSE <<s>> \o half[s \div 2] IN half[BlockWidth \div 2]
Turned(p, s) ==
  LET rotx == p.rotx \/ (p.x \div s) % 2 = 1
      roty == p.roty \/ (p.y \div s) % 2 = 1
      far(c) == IF rotx THEN BlockWidth - 1 - c ELSE c IN
  IF roty THEN [p EXCEPT !.rotx = rotx, !.roty = roty]
  ELSE [x |-> far(p.y), y |-> far(p.x), rotx |-> rotx, roty |-> roty]
AtHilbert(n, x, y) ==
  LET h == FoldLeft(Turned, [x |-> x % BlockWidth, y |-> y % BlockWidth, rotx |-> FALSE, roty |-> FALSE], Levels) IN
  AtBlock(n, x - (x % BlockWidth) + h.x, y - (y % BlockWidth) + h.y)

-----------------------------------------------------------------------------
(* The hook on the guest's stores, which are as wide as a register; and,   *)
(* with -binimg, what the mappings hold before the guest runs.  What the   *)
(* loader or a kernel writes later is told to nobody.                      *)

TraceMem(x, data) ==
  /\ ~crashed
  /\ \/ /\ Fits(x, data)
        /\ LET done == FoldLeft(LAMBDA st, p : Traced(st.maps, st.last, p.addr, p.data),
                                [maps |-> maps, last |-> lastMap], Pieces(x, data)) IN
           maps' = done.maps /\ lastMap' = done.last
        /\ shadow' = [y \in Space |-> IF y \in x..(x + Len(data) - 1) THEN data[y - x + 1] ELSE shadow[y]]
        /\ UNCHANGED crashed
     \/ ~Fits(x, data) /\ crashed' = TRUE /\ UNCHANGED <<maps, lastMap, shadow>>

ImageInit ==
  /\ maps = <<>> /\ lastMap = 1 /\ shadow = [x \in Space |-> 0] /\ crashed = FALSE

ImageNext ==
  \E x \in Starts, n \in Sizes : \E data \in [1..n -> Marks] :
    x + n - 1 \in Space /\ TraceMem(x, data)

-----------------------------------------------------------------------------
\* The picture shows what was told of memory, every byte that is not zero and no block of
\* nothing but zeros, however blocks come and go, whichever was found last and however the
\* bytes were cut at the ends of blocks; and each byte of a block is at one point of it,
\* in the rows that are drawn (mem_image.go:75-135, 187-265).  With blocks as wide as 2
\* that is so of the Hilbert curve too.
Once(n, at(_, _, _), i) ==
  \A o \in 0..(BlockSize - 1) : Cardinality({p \in Points(n) : at(n, p[1], p[2]) = <<i, o>>}) = 1
ImageShowsMemory ==
  ~crashed =>
    /\ \A x \in Space :
         LET on == {i \in DOMAIN maps : Has(maps[i], x)} IN
         IF shadow[x] = 0 THEN \A i \in on : maps[i].data[x - maps[i].addr] = 0
         ELSE \E i \in on : on = {i} /\ maps[i].data[x - maps[i].addr] = shadow[x]
    /\ \A i \in DOMAIN maps :
         LET n == Len(maps) IN
         /\ ByteCount(maps[i]) > 0 /\ Once(n, AtLinear, i)
         /\ i <= Width(n) * Width(n) => Once(n, AtBlock, i) /\ (BlockWidth = 2 => Once(n, AtHilbert, i))
=============================================================================
