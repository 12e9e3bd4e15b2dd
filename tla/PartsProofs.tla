----------------------------- MODULE PartsProofs -----------------------------
(***************************************************************************)
(* The parts beside the run loop, the memory and the trace, each for any   *)
(* values of its constants.  What the kernels keep beside the host and in  *)
(* the guest: the table of paths and the listings of directories, the      *)
(* handles of DOS, the bytes that calls move and the stack that a program  *)
(* starts with.  The dispatch of calls: hooks are told of each call before *)
(* it and after it.  The runner of CGC: no guest sleeps on bytes that are  *)
(* its own to read.  The gdb stub: breakpoints stop the guest and steps    *)
(* are of one instruction, whatever the packets and interrupts.  And the   *)
(* symbols: an address has the name of one that contains it, whoever reads *)
(* the file.                                                               *)
(***************************************************************************)
EXTENDS PosixFiles, Dos, Transfer, StartStack, Syscalls, Cgc, GdbStub, Symbols,
        SequenceTheorems, WellFoundedInduction, TLAPS

LEMMA LeastIsIn ==
  ASSUME NEW S, S \subseteq Nat, S # {}
  PROVE  Min(S) \in S
<1>1. PICK x \in S : \A y \in S : ~ (<<y, x>> \in OpToRel(<, Nat))
  BY NatLessThanWellFounded, WFMin, Zenon
<1>2. \A y \in S : ~ (y < x)
  BY <1>1, Zenon DEF OpToRel
<1>3. \A y \in S : x <= y
  BY <1>2
<1> QED
  BY <1>3 DEF Min

\* The lowest free descriptor is not open.
LEMMA LowestIsFree ==
  ASSUME Free # {}
  PROVE  Lowest \in Free /\ Lowest \notin DOMAIN host
<1>1. Free \subseteq Nat
  BY HostCounts DEF Free
<1>2. Lowest \in Free
  BY <1>1, LeastIsIn DEF Lowest
<1> QED
  BY <1>2 DEF Free

-----------------------------------------------------------------------------
(* A new descriptor that the table does not hear of takes a number that is *)
(* not open, so no path is kept under it, or one that is astray: this is   *)
(* why the host must give free numbers.  The table's entries are records,  *)
(* or getdents, which changes two fields, might change the path.           *)

Entry(f) == f = [path |-> f.path, dirents |-> f.dirents, offset |-> f.offset]
FilesInv ==
  /\ FilesFollowHost
  /\ files = [fd \in DOMAIN files |-> files[fd]]
  /\ \A fd \in DOMAIN files : Entry(files[fd])

LEMMA OpenKeeps ==
  ASSUME FilesInv, NEW path, OpenAt(path)
  PROVE  FilesInv'
<1>1. /\ host' = With(host, Lowest, path)
      /\ files' = With(files, Lowest, [path |-> path, dirents |-> <<>>, offset |-> 0])
      /\ astray' = astray \ {Lowest}
  BY DEF OpenAt
<1> DEFINE n == Lowest
<1> HIDE DEF n
<1>2. /\ host' = [y \in DOMAIN host \cup {n} |-> IF y = n THEN path ELSE host[y]]
      /\ files' = [y \in DOMAIN files \cup {n} |->
                     IF y = n THEN [path |-> path, dirents |-> <<>>, offset |-> 0] ELSE files[y]]
      /\ astray' = astray \ {n}
  BY <1>1 DEF With, n
<1>3. FilesFollowHost'
  BY <1>2 DEF FilesInv, FilesFollowHost
<1>4. \A fd \in DOMAIN files' : Entry(files'[fd])
  BY <1>2 DEF FilesInv, Entry
<1> QED
  BY <1>2, <1>3, <1>4 DEF FilesInv

LEMMA CloseKeeps ==
  ASSUME FilesInv, NEW fd, Close(fd)
  PROVE  FilesInv'
<1>1. /\ files' = [y \in DOMAIN files \ {fd} |-> files[y]]
      /\ host' = [y \in DOMAIN host \ {fd} |-> host[y]]
      /\ astray' = astray \ {fd}
  BY DEF Close, Without
<1> QED
  BY <1>1 DEF FilesInv, FilesFollowHost, Entry

\* Descriptors that are added while the table stays as it is.
LEMMA AddingKeeps ==
  ASSUME FilesInv, UNCHANGED files, astray \subseteq astray',
         NEW news, host' = [y \in DOMAIN host \cup news |-> host'[y]],
         \A y \in DOMAIN host \ news : host'[y] = host[y],
         \A y \in news : y \in DOMAIN host => y \notin DOMAIN files \/ y \in astray'
  PROVE  FilesInv'
BY DEF FilesInv, FilesFollowHost, Entry

LEMMA GetdentsKeeps ==
  ASSUME FilesInv, NEW fd, NEW count, Getdents(fd, count)
  PROVE  FilesInv'
<1>1. PICK d, o : files' = [files EXCEPT ![fd] = [[@ EXCEPT !.dirents = d] EXCEPT !.offset = o]]
  BY DEF Getdents
<1>2. UNCHANGED <<host, astray>> /\ fd \in DOMAIN files
  BY DEF Getdents
<1>3. DOMAIN files' = DOMAIN files
  BY <1>1, <1>2 DEF FilesInv
<1>4. \A y \in DOMAIN files : y # fd => files'[y] = files[y]
  BY <1>1, <1>2 DEF FilesInv
<1>5. Entry(files'[fd]) /\ files'[fd].path = files[fd].path
  <2>1. files'[fd] = [[files[fd] EXCEPT !.dirents = d] EXCEPT !.offset = o]
    BY <1>1, <1>2 DEF FilesInv
  <2>2. files[fd] = [path |-> files[fd].path, dirents |-> files[fd].dirents, offset |-> files[fd].offset]
    BY <1>2 DEF FilesInv, Entry
  <2>3. files'[fd] = [path |-> files[fd].path, dirents |-> d, offset |-> o]
    BY <2>1, <2>2
  <2> QED
    BY <2>3 DEF Entry
<1>6. files' = [y \in DOMAIN files' |-> files'[y]]
  BY <1>1, <1>2 DEF FilesInv
<1> QED
  BY <1>2, <1>3, <1>4, <1>5, <1>6 DEF FilesInv, FilesFollowHost

-----------------------------------------------------------------------------
\* The inductive invariant holds (kernel/posix/io.go, mman.go, socket.go).
THEOREM FilesInvariant == FilesSpec => []FilesInv
<1>1. FilesInit => FilesInv
  BY DEF FilesInit, FilesInv, FilesFollowHost, Entry
<1>2. FilesInv /\ [FilesNext]_fileVars => FilesInv'
  <2> SUFFICES ASSUME FilesInv, [FilesNext]_fileVars
               PROVE  FilesInv'
    OBVIOUS
  <2>1. CASE UNCHANGED <<host, files, astray>>
    BY <2>1 DEF FilesInv, FilesFollowHost, Entry
  <2>2. ASSUME NEW path, OpenAt(path)
        PROVE  FilesInv'
    BY <2>2, OpenKeeps
  <2>3. ASSUME NEW fd, Close(fd)
        PROVE  FilesInv'
    BY <2>3, CloseKeeps
  <2>4. ASSUME NEW path, host' = With(host, Lowest, path), Free # {}, UNCHANGED <<files, astray>>
        PROVE  FilesInv'
    <3>1. Lowest \notin DOMAIN host
      BY <2>4, LowestIsFree
    <3> DEFINE n == Lowest
    <3> HIDE DEF n
    <3>2. host' = [y \in DOMAIN host \cup {n} |-> IF y = n THEN path ELSE host[y]]
      BY <2>4 DEF With, n
    <3>3. n \notin DOMAIN host
      BY <3>1 DEF n
    <3>4. /\ host' = [y \in DOMAIN host \cup {n} |-> host'[y]]
          /\ \A y \in DOMAIN host \ {n} : host'[y] = host[y]
      BY <3>2
    <3>5. \A y \in {n} : y \in DOMAIN host => y \notin DOMAIN files \/ y \in astray'
      BY <3>3
    <3>6. UNCHANGED files /\ astray \subseteq astray'
      BY <2>4
    <3> QED
      BY <3>4, <3>5, <3>6, AddingKeeps, Zenon
  <2>5. CASE Pipe
    <3>1. PICK b \in Free : host' = With(With(host, Lowest, Unnamed), b, Unnamed)
      BY <2>5 DEF Pipe
    <3>2. Lowest \notin DOMAIN host /\ b \notin DOMAIN host
      BY <3>1, LowestIsFree DEF Free
    <3> DEFINE n == Lowest
    <3> HIDE DEF n
    <3>3. DOMAIN host' = DOMAIN host \cup {n, b} /\ host' = [y \in DOMAIN host' |-> host'[y]]
      BY <3>1 DEF With, n
    <3>4. \A y \in DOMAIN host : host'[y] = host[y]
      BY <3>1, <3>2 DEF With, n
    <3>5. n \notin DOMAIN host /\ b \notin DOMAIN host
      BY <3>2 DEF n
    <3>6. UNCHANGED <<files, astray>>
      BY <2>5 DEF Pipe
    <3>7. host' = [y \in DOMAIN host \cup {n, b} |-> host'[y]]
      BY <3>3
    <3>8. /\ \A y \in DOMAIN host \ {n, b} : host'[y] = host[y]
          /\ \A y \in {n, b} : y \in DOMAIN host => y \notin DOMAIN files \/ y \in astray'
          /\ astray \subseteq astray' /\ UNCHANGED files
      BY <3>4, <3>5, <3>6
    <3> QED
      BY <3>7, <3>8, AddingKeeps, Zenon
  <2>6. ASSUME NEW old, NEW new, Dup2(old, new)
        PROVE  FilesInv'
    <3>1. /\ host' = [y \in DOMAIN host \cup {new} |-> IF y = new THEN host[old] ELSE host[y]]
          /\ astray' = IF new \in DOMAIN files THEN astray \cup {new} ELSE astray
          /\ UNCHANGED files
      BY <2>6 DEF Dup2, With
    <3>2. host' = [y \in DOMAIN host \cup {new} |-> host'[y]]
      BY <3>1
    <3>3. /\ \A y \in DOMAIN host \ {new} : host'[y] = host[y]
          /\ \A y \in {new} : y \in DOMAIN host => y \notin DOMAIN files \/ y \in astray'
          /\ astray \subseteq astray' /\ UNCHANGED files
      BY <3>1
    <3> QED
      BY <3>2, <3>3, AddingKeeps, Zenon
  <2>7. ASSUME NEW fd, Collect(fd)
        PROVE  FilesInv'
    <3>1. /\ host' = [y \in DOMAIN host \ {fd} |-> host[y]]
          /\ astray' = IF fd \in DOMAIN files THEN astray \cup {fd} ELSE astray
          /\ UNCHANGED files
      BY <2>7 DEF Collect, Without
    <3> QED
      BY <3>1 DEF FilesInv, FilesFollowHost, Entry
  <2>8. ASSUME NEW fd, NEW count, Getdents(fd, count)
        PROVE  FilesInv'
    BY <2>8, GetdentsKeeps
  <2>9. ASSUME NEW fd, Dup(fd) \/ Mmap(fd)
        PROVE  \/ UNCHANGED <<host, files, astray>>
               \/ /\ Free # {} /\ UNCHANGED <<files, astray>>
                  /\ \E path : host' = With(host, Lowest, path)
    BY <2>9 DEF Dup, Mmap
  <2>10. Socket => (\E path : host' = With(host, Lowest, path)) /\ Free # {} /\ UNCHANGED <<files, astray>>
    BY DEF Socket
  <2>11. ASSUME NEW p, NEW name, NEW fd
         PROVE  /\ Open(p) => OpenAt(p)
                /\ OpenRelative(name) => \E path : OpenAt(path)
                /\ Openat(fd, name) => \E path : OpenAt(path)
                /\ Chdir(p) => UNCHANGED <<host, files, astray>>
    BY DEF Open, OpenRelative, Openat, Chdir
  <2>12. ASSUME NEW fd, NEW to, Sendfile(fd, to)
         PROVE  UNCHANGED <<host, files, astray>>
    BY <2>12 DEF Sendfile
  <2>13. CASE FilesNext
    BY <2>1, <2>2, <2>3, <2>4, <2>5, <2>6, <2>7, <2>8, <2>9, <2>10, <2>11, <2>12, <2>13 DEF FilesNext
  <2> QED
    BY <2>1, <2>13 DEF fileVars
<1> QED
  BY <1>1, <1>2, PTL DEF FilesSpec

\* The table's paths are those of the host's descriptors (posix.PosixKernel.Files).
THEOREM TableFollowsHost == FilesSpec => []FilesFollowHost
<1>1. FilesInv => FilesFollowHost
  BY DEF FilesInv
<1> QED
  BY <1>1, FilesInvariant, PTL

-----------------------------------------------------------------------------
(* getdents.  room has a value for every number of entries, which an       *)
(* argument by the least number without one shows; so what fits is the     *)
(* greatest number whose room is there, and is not 0 if an entry is left   *)
(* and every entry fits.                                                   *)

LEMMA GreatestIsIn ==
  ASSUME NEW b \in Nat, NEW S, S \subseteq 0..b, S # {}
  PROVE  Max(S) \in S /\ \A n \in S : n <= Max(S)
<1> DEFINE T == {b - n : n \in S}
<1>1. T \subseteq Nat /\ T # {}
  <2>1. \A n \in S : b - n \in Nat
    OBVIOUS
  <2> QED
    BY <2>1
<1>2. PICK d \in T : ~ \E e \in T : <<e, d>> \in OpToRel(<, Nat)
  BY <1>1, NatLessThanWellFounded, WFMin, Zenon
<1>3. \A e \in T : ~ (e < d)
  BY <1>1, <1>2, Zenon DEF OpToRel
<1>4. PICK m \in S : d = b - m
  BY <1>2
<1>5. ASSUME NEW n \in S
      PROVE  m >= n
  <2>1. b - n \in T /\ n \in Nat /\ m \in Nat
    OBVIOUS
  <2>2. ~ (b - n < b - m)
    <3> HIDE DEF T
    <3> QED
      BY <1>3, <1>4, <2>1
  <2> QED
    BY <2>1, <2>2
<1> DEFINE top == Max(S)
<1>6. top \in S /\ \A n \in S : top >= n
  BY <1>5, Zenon DEF Max
<1> HIDE DEF top
<1>7. \A n \in S : n \in Nat
  OBVIOUS
<1>8. top \in S /\ \A n \in S : n <= top
  BY <1>6, <1>7
<1> QED
  BY <1>8, Zenon DEF top

\* A function for the room of the first i entries, for i up to n.
Rooms(left, n, f) ==
  /\ DOMAIN f = 0..n
  /\ \A i \in 0..n : f[i] = IF i = 0 THEN 0 ELSE f[i - 1] + Size[left[i]]

LEMMA RoomsExist ==
  ASSUME NEW left, Len(left) \in Nat
  PROVE  \E f : Rooms(left, Len(left), f)
<1> DEFINE Wrong == {n \in 0..Len(left) : ~ \E f : Rooms(left, n, f)}
<1>1. ASSUME Wrong # {}
      PROVE  FALSE
  <2>1. Wrong \subseteq Nat
    OBVIOUS
  <2>2. PICK n \in Wrong : \A m \in Wrong : ~ (m < n)
    <3>1. PICK n \in Wrong : ~ \E m \in Wrong : <<m, n>> \in OpToRel(<, Nat)
      BY <1>1, <2>1, NatLessThanWellFounded, WFMin, Zenon
    <3> QED
      BY <2>1, <3>1, Zenon DEF OpToRel
  <2>3. n \in 0..Len(left) /\ ~ \E f : Rooms(left, n, f)
    BY <2>2
  <2>4. Rooms(left, 0, [i \in 0..0 |-> 0])
    BY DEF Rooms
  <2>5. n # 0
    BY <2>3, <2>4
  <2>6. n - 1 \in 0..Len(left) /\ n - 1 < n
    BY <2>3, <2>5
  <2>7. n - 1 \notin Wrong
    <3> HIDE DEF Wrong
    <3> QED
      BY <2>2, <2>6
  <2>8. PICK f : Rooms(left, n - 1, f)
    BY <2>6, <2>7
  <2> DEFINE g == [i \in 0..n |-> IF i = n THEN f[n - 1] + Size[left[n]] ELSE f[i]]
  <2>9. Rooms(left, n, g)
    <3>1. DOMAIN g = 0..n
      OBVIOUS
    <3>2. ASSUME NEW i \in 0..n
          PROVE  g[i] = IF i = 0 THEN 0 ELSE g[i - 1] + Size[left[i]]
      <4>1. CASE i = n
        BY <2>3, <2>5, <4>1
      <4>2. CASE i # n
        <5>1. i \in 0..(n - 1) /\ (i # 0 => i - 1 \in 0..n /\ i - 1 # n)
          BY <2>3, <4>2
        <5>2. f[i] = IF i = 0 THEN 0 ELSE f[i - 1] + Size[left[i]]
          BY <2>8, <5>1 DEF Rooms
        <5> QED
          BY <4>2, <5>1, <5>2
      <4> QED
        BY <4>1, <4>2
    <3> HIDE DEF g
    <3> QED
      BY <3>1, <3>2 DEF Rooms
  <2> QED
    BY <2>3, <2>9
<1>2. Len(left) \in 0..Len(left)
  OBVIOUS
<1> QED
  BY <1>1, <1>2

LEMMA FittingFits ==
  ASSUME NEW left \in Seq(DOMAIN Size), NEW count \in Nat
  PROVE  /\ Fitting(left, count) \in 0..Len(left)
         /\ Fitting(left, count) = 0 /\ (\A n \in DOMAIN Size : Size[n] <= count) => Len(left) = 0
<1> DEFINE step(f, n) == IF n = 0 THEN 0 ELSE f[n - 1] + Size[left[n]]
           room == CHOOSE f : f = [n \in 0..Len(left) |-> step(f, n)]
           fits == {n \in 0..Len(left) : room[n] <= count}
<1>1. \E f : f = [n \in 0..Len(left) |-> step(f, n)]
  <2>1. PICK f : Rooms(left, Len(left), f)
    BY RoomsExist
  <2> DEFINE h == [i \in 0..Len(left) |-> f[i]]
  <2>2. \A i \in 0..Len(left) : h[i] = f[i] /\ (i # 0 => h[i - 1] = f[i - 1])
    OBVIOUS
  <2>3. \A i \in 0..Len(left) : f[i] = step(h, i)
    <3> HIDE DEF h
    <3> QED
      BY <2>1, <2>2 DEF Rooms
  <2>4. h = [i \in 0..Len(left) |-> step(h, i)]
    <3> HIDE DEF step
    <3>1. [i \in 0..Len(left) |-> f[i]] = [i \in 0..Len(left) |-> step(h, i)]
      <4> HIDE DEF h
      <4> QED
        BY <2>3
    <3> QED
      BY <3>1, Zenon
  <2> QED
    BY <2>4, Zenon
<1>2. room = [n \in 0..Len(left) |-> step(room, n)]
  BY <1>1, Zenon
<1>3. Fitting(left, count) = Max(fits)
  BY Zenon DEF Fitting
<1> HIDE DEF room
<1>4. \A n \in 0..Len(left) : room[n] = step(room, n)
  BY <1>2
<1>5. Len(left) \in Nat /\ room[0] = 0 /\ (Len(left) # 0 => room[1] = 0 + Size[left[1]])
  <2>1. Len(left) \in Nat /\ 0 \in 0..Len(left) /\ (Len(left) # 0 => 1 \in 0..Len(left))
    OBVIOUS
  <2> QED
    BY <1>4, <2>1
<1>6. 0 \in fits
  BY <1>5
<1>7. Max(fits) \in fits /\ \A n \in fits : n <= Max(fits)
  BY <1>5, <1>6, GreatestIsIn
<1>8. ASSUME Len(left) # 0, \A n \in DOMAIN Size : Size[n] <= count
      PROVE  1 \in fits
  <2>1. left[1] \in DOMAIN Size
    BY <1>5, <1>8
  <2> QED
    BY <1>5, <1>8, <2>1, DirsHaveSizes
<1> HIDE DEF fits
<1>9. Fitting(left, count) = 0 => ~(1 \in fits)
  BY <1>3, <1>7
<1>10. Fitting(left, count) \in 0..Len(left)
  BY <1>3, <1>7 DEF fits
<1> QED
  BY <1>8, <1>9, <1>10

LEMMA ListingsAreNames ==
  ASSUME NEW path \in DOMAIN Dirs
  PROVE  Listing(path) \in Seq(DOMAIN Size)
BY DirsHaveSizes DEF Listing

-----------------------------------------------------------------------------
(* What was given is as much of the directory as the offset says.          *)

Listed(f, gave, done) ==
  /\ f.dirents \in Seq(DOMAIN Size) /\ f.offset \in 0..Len(f.dirents)
  /\ gave = SubSeq(f.dirents, 1, f.offset)
  /\ done => f.dirents # <<>> /\ f.offset = Len(f.dirents)
ListInv ==
  /\ given = [fd \in 0..MaxFd |-> given[fd]] /\ DOMAIN files \subseteq 0..MaxFd
  /\ \A fd \in DOMAIN files : Listed(files[fd], given[fd], fd \in ended)

\* A part of a sequence and the start of what is behind it are a longer part.
LEMMA PartsJoin ==
  ASSUME NEW S, NEW s \in Seq(S), NEW m \in 0..Len(s), NEW left, left = SubSeq(s, m + 1, Len(s)),
         NEW n \in 0..Len(left)
  PROVE  SubSeq(s, 1, m) \o SubSeq(left, 1, n) = SubSeq(s, 1, m + n) /\ m + n \in 0..Len(s)
<1>1. Len(s) \in Nat /\ m \in Nat /\ left \in Seq(S) /\ Len(left) = Len(s) - m /\ n \in Nat /\ m + n <= Len(s)
  OBVIOUS
<1>2. \A i \in 1..n : left[i] = s[m + i]
  BY <1>1
<1> DEFINE a == SubSeq(s, 1, m)
           b == SubSeq(left, 1, n)
           c == SubSeq(s, 1, m + n)
<1>3. a \in Seq(S) /\ Len(a) = m /\ \A i \in 1..m : a[i] = s[i]
  BY <1>1
<1>4. b \in Seq(S) /\ Len(b) = n /\ \A i \in 1..n : b[i] = left[i]
  BY <1>1
<1>5. c \in Seq(S) /\ Len(c) = m + n /\ \A i \in 1..(m + n) : c[i] = s[i]
  BY <1>1
<1> HIDE DEF a, b, c
<1>6. a \o b \in Seq(S) /\ Len(a \o b) = m + n
      /\ \A i \in 1..(m + n) : (a \o b)[i] = IF i <= m THEN a[i] ELSE b[i - m]
  <2>1. /\ a \o b \in Seq(S) /\ Len(a \o b) = Len(a) + Len(b)
        /\ \A i \in 1..(Len(a) + Len(b)) : (a \o b)[i] = IF i <= Len(a) THEN a[i] ELSE b[i - Len(a)]
    BY <1>3, <1>4, ConcatProperties
  <2>2. Len(a) = m /\ Len(b) = n
    BY <1>3, <1>4
  <2> QED
    BY <2>1, <2>2
<1>7. ASSUME NEW i \in 1..(m + n)
      PROVE  (a \o b)[i] = c[i]
  <2>1. CASE i <= m
    <3>1. (a \o b)[i] = a[i]
      BY <1>6, <2>1
    <3>2. i \in 1..m
      BY <1>1, <2>1
    <3>3. a[i] = s[i] /\ c[i] = s[i]
      BY <1>3, <1>5, <3>2
    <3> QED
      BY <3>1, <3>3
  <2>2. CASE ~(i <= m)
    <3>1. i - m \in 1..n /\ m + (i - m) = i
      BY <1>1, <2>2
    <3> QED
      BY <1>2, <1>4, <1>5, <1>6, <2>2, <3>1
  <2> QED
    BY <2>1, <2>2
<1>8. a \o b = c
  BY <1>5, <1>6, <1>7, SeqEqual
<1> QED
  BY <1>1, <1>8 DEF a, b, c

LEMMA GetdentsLists ==
  ASSUME FilesInv, ListInv, NEW fd, NEW count \in Counts, Getdents(fd, count)
  PROVE  ListInv'
<1> DEFINE f == files[fd]
           dents == IF f.dirents = <<>> THEN Listing(f.path) ELSE f.dirents
           left == SubSeq(dents, f.offset + 1, Len(dents))
           n == Fitting(left, count)
<1>1. fd \in DOMAIN files /\ f.path \in DOMAIN Dirs /\ fd \in 0..MaxFd
  BY DEF Getdents, ListInv
<1>2. Listed(f, given[fd], fd \in ended)
  BY <1>1 DEF ListInv
<1>3. dents \in Seq(DOMAIN Size) /\ f.offset \in 0..Len(dents) /\ given[fd] = SubSeq(dents, 1, f.offset)
  <2>1. CASE f.dirents = <<>>
    <3>1. f.offset = 0 /\ given[fd] = <<>>
      BY <1>2, <2>1 DEF Listed
    <3>2. Listing(f.path) \in Seq(DOMAIN Size)
      BY <1>1, ListingsAreNames
    <3>3. \A s \in Seq(DOMAIN Size) : 0 \in 0..Len(s) /\ SubSeq(s, 1, 0) = <<>>
      OBVIOUS
    <3> QED
      BY <2>1, <3>1, <3>2, <3>3
  <2>2. CASE f.dirents # <<>>
    BY <1>2, <2>2 DEF Listed
  <2> QED
    BY <2>1, <2>2
<1>4. (f.dirents # <<>> => dents = f.dirents) /\ dents # <<>>
  <2>1. \A t \in Seq(DOMAIN Size) : <<"..", ".">> \o t # <<>>
    OBVIOUS
  <2> QED
    BY <1>1, <2>1, DirsHaveSizes DEF Listing
<1>5. /\ files' = [files EXCEPT ![fd].dirents = dents, ![fd].offset = @ + n]
      /\ given' = [given EXCEPT ![fd] = @ \o SubSeq(left, 1, n)]
      /\ ended' = IF n = 0 /\ \A k \in DOMAIN Size : Size[k] <= count THEN ended \cup {fd} ELSE ended
  BY DEF Getdents, Taken
<1> HIDE DEF dents
<1>6. left \in Seq(DOMAIN Size) /\ Len(left) = Len(dents) - f.offset
  BY <1>3
<1>7. n \in 0..Len(left) /\ (n = 0 /\ (\A k \in DOMAIN Size : Size[k] <= count) => Len(left) = 0)
  BY <1>6, FittingFits, HostCounts
<1>8. SubSeq(dents, 1, f.offset) \o SubSeq(left, 1, n) = SubSeq(dents, 1, f.offset + n)
      /\ f.offset + n \in 0..Len(dents)
  BY <1>3, <1>7, PartsJoin
<1> HIDE DEF left, n
<1>9. files[fd] = [path |-> f.path, dirents |-> f.dirents, offset |-> f.offset]
      /\ files = [y \in DOMAIN files |-> files[y]]
  BY <1>1 DEF FilesInv, Entry
<1>10. /\ DOMAIN files' = DOMAIN files
       /\ files'[fd].dirents = dents /\ files'[fd].offset = f.offset + n
       /\ \A y \in DOMAIN files : y # fd => files'[y] = files[y]
  BY <1>1, <1>5, <1>9
<1>11. /\ given' = [y \in 0..MaxFd |-> given'[y]]
       /\ given'[fd] = SubSeq(dents, 1, f.offset + n)
       /\ \A y \in 0..MaxFd : y # fd => given'[y] = given[y]
  BY <1>1, <1>3, <1>5, <1>8 DEF ListInv
<1>12. fd \in ended' => f.offset + n = Len(dents)
  <2>1. CASE fd \in ended
    <3>1. f.dirents # <<>> /\ f.offset = Len(f.dirents)
      BY <1>2, <2>1 DEF Listed
    <3> QED
      BY <1>3, <1>4, <1>6, <1>7, <3>1
  <2>2. CASE fd \notin ended
    BY <1>3, <1>5, <1>6, <1>7, <2>2
  <2> QED
    BY <2>1, <2>2
<1>13. Listed(files'[fd], given'[fd], fd \in ended')
  BY <1>3, <1>4, <1>8, <1>10, <1>11, <1>12 DEF Listed
<1>14. \A y \in DOMAIN files : y # fd => y \in 0..MaxFd /\ (y \in ended' <=> y \in ended)
  BY <1>5 DEF ListInv
<1>15. \A y \in DOMAIN files' : Listed(files'[y], given'[y], y \in ended')
  <2> SUFFICES ASSUME NEW y \in DOMAIN files', y # fd
               PROVE  Listed(files'[y], given'[y], y \in ended')
    BY <1>13
  <2> QED
    BY <1>10, <1>11, <1>14 DEF ListInv, Listed
<1> QED
  BY <1>1, <1>10, <1>11, <1>15 DEF ListInv

\* A descriptor that is opened has been given nothing of its directory.
LEMMA OpenLists ==
  ASSUME FilesInv, ListInv, NEW path, OpenAt(path)
  PROVE  ListInv'
<1> DEFINE n == Lowest
<1>1. n \in 0..MaxFd
  BY LowestIsFree DEF OpenAt, Free
<1>2. /\ files' = With(files, n, [path |-> path, dirents |-> <<>>, offset |-> 0])
      /\ given' = [given EXCEPT ![n] = <<>>]
      /\ ended' = ended \ {n}
  BY DEF OpenAt
<1> HIDE DEF n
<1>3. /\ DOMAIN files' = DOMAIN files \cup {n}
      /\ files'[n] = [path |-> path, dirents |-> <<>>, offset |-> 0]
      /\ \A y \in DOMAIN files : y # n => files'[y] = files[y]
  BY <1>2 DEF With
<1>4. /\ given' = [y \in 0..MaxFd |-> given'[y]] /\ given'[n] = <<>>
      /\ \A y \in 0..MaxFd : y # n => given'[y] = given[y]
  BY <1>1, <1>2 DEF ListInv
<1>5. Listed(files'[n], given'[n], n \in ended')
  <2>1. <<>> \in Seq(DOMAIN Size) /\ Len(<<>>) = 0 /\ 0 \in 0..0 /\ SubSeq(<<>>, 1, 0) = <<>>
    OBVIOUS
  <2>2. files'[n].dirents = <<>> /\ files'[n].offset = 0
    BY <1>3
  <2>3. n \notin ended'
    BY <1>2
  <2> QED
    BY <1>4, <2>1, <2>2, <2>3, Zenon DEF Listed
<1>6. ASSUME NEW y \in DOMAIN files', y # n
      PROVE  Listed(files'[y], given'[y], y \in ended')
  <2>1. y \in DOMAIN files /\ y \in 0..MaxFd /\ (y \in ended' <=> y \in ended)
    BY <1>2, <1>3, <1>6 DEF ListInv
  <2> QED
    BY <1>3, <1>4, <1>6, <2>1 DEF ListInv, Listed
<1>7. \A y \in DOMAIN files' : Listed(files'[y], given'[y], y \in ended')
  BY <1>5, <1>6
<1> QED
  BY <1>1, <1>3, <1>4, <1>7 DEF ListInv

LEMMA OthersList ==
  ASSUME ListInv,
         UNCHANGED <<files, given, ended>> \/ \E fd : Close(fd)
  PROVE  ListInv'
<1>1. CASE UNCHANGED <<files, given, ended>>
  BY <1>1 DEF ListInv, Listed
<1>2. ASSUME NEW fd, Close(fd)
      PROVE  ListInv'
  <2>1. files' = [y \in DOMAIN files \ {fd} |-> files[y]] /\ UNCHANGED <<given, ended>>
    BY <1>2 DEF Close, Without
  <2>2. DOMAIN files' \subseteq DOMAIN files /\ \A y \in DOMAIN files' : files'[y] = files[y]
    BY <2>1
  <2> QED
    BY <2>1, <2>2 DEF ListInv, Listed
<1> QED
  BY <1>1, <1>2

LEMMA ListStep ==
  ASSUME FilesInv, ListInv, [FilesNext]_fileVars
  PROVE  ListInv'
<1>1. ASSUME NEW path, NEW name, NEW fd, NEW to
      PROVE  /\ Open(path) => OpenAt(path)
             /\ OpenRelative(name) => \E p : OpenAt(p)
             /\ Openat(fd, name) => \E p : OpenAt(p)
             /\ Chdir(path) \/ Socket \/ Pipe \/ Dup(fd) \/ Mmap(fd) \/ Collect(fd) \/ Dup2(fd, to)
                \/ Sendfile(fd, to) => UNCHANGED <<files, given, ended>>
  BY DEF Open, OpenRelative, Openat, Chdir, Socket, Pipe, Dup, Mmap, Collect, Dup2, Sendfile
<1>2. FilesNext => \/ UNCHANGED <<files, given, ended>>
                   \/ \E p : OpenAt(p)
                   \/ \E fd : Close(fd)
                   \/ \E fd : \E count \in Counts : Getdents(fd, count)
  BY <1>1, Zenon DEF FilesNext
<1>3. UNCHANGED fileVars => UNCHANGED <<files, given, ended>>
  BY DEF fileVars
<1> QED
  BY <1>2, <1>3, OpenLists, OthersList, GetdentsLists, Zenon

\* A directory read to its end has given each entry once, whatever the sizes of the
\* guest's buffers and whatever else is opened and closed meanwhile (kernel/linux/io.go).
THEOREM EntriesAreListedOnce == FilesSpec => []ListedOnce
<1>1. FilesInit => ListInv
  <2>1. FilesInit => given = [fd \in 0..MaxFd |-> given[fd]] /\ DOMAIN files = {}
    BY DEF FilesInit
  <2> QED
    BY <2>1 DEF ListInv
<1>2. FilesInv /\ ListInv /\ [FilesNext]_fileVars => ListInv'
  BY ListStep
<1>3. ListInv => ListedOnce
  <2> SUFFICES ASSUME ListInv, NEW fd \in DOMAIN files
               PROVE  /\ IsPrefix(given[fd], files[fd].dirents)
                      /\ fd \in ended => given[fd] = files[fd].dirents
    BY DEF ListedOnce
  <2> DEFINE s == files[fd].dirents
             m == files[fd].offset
  <2>1. s \in Seq(DOMAIN Size) /\ m \in 0..Len(s) /\ given[fd] = SubSeq(s, 1, m)
        /\ (fd \in ended => m = Len(s))
    BY DEF ListInv, Listed
  <2> HIDE DEF s, m
  <2>2. Len(SubSeq(s, 1, m)) = m /\ SubSeq(SubSeq(s, 1, m), 1, m) = SubSeq(s, 1, m) /\ SubSeq(s, 1, Len(s)) = s
    BY <2>1
  <2>3. m <= Len(s)
    BY <2>1
  <2> QED
    BY <2>1, <2>2, <2>3 DEF IsPrefix, s
<1> QED
  BY <1>1, <1>2, <1>3, FilesInvariant, PTL DEF FilesSpec

-----------------------------------------------------------------------------
(* A handle's descriptor was given by the host, or is one of the first     *)
(* three: without that, closing a handle that is not open, which closes    *)
(* descriptor 0xFFFF, might close another's.                               *)

DosInv ==
  /\ HandlesAreOpen
  /\ \A h \in DOMAIN fds : fds[h] \in HostFds \cup 0..2

\* The inductive invariant holds (dos.go:62-138, 221-318).
THEOREM DosInvariant == DosSpec => []DosInv
<1>1. DosInit => DosInv
  BY DEF DosInit, DosInv, HandlesAreOpen
<1>2. DosInv /\ [DosNext]_dosVars => DosInv'
  <2> SUFFICES ASSUME DosInv, [DosNext]_dosVars
               PROVE  DosInv'
    OBVIOUS
  <2>1. CASE UNCHANGED <<fds, open>>
    BY <2>1 DEF DosInv, HandlesAreOpen
  <2>2. CASE OpenFile
    <3> DEFINE fd == Min(HostFds \ open)
               h0 == Min(Unused)
    <3>1. fd \in HostFds /\ fd \notin open
      BY HostHasNoBad, <2>2, LeastIsIn DEF OpenFile
    <3>2. open' = open \cup {fd}
      BY <2>2 DEF OpenFile
    <3>3. CASE Unused = {}
      BY <2>2, <3>1, <3>2, <3>3 DEF OpenFile, DosInv, HandlesAreOpen
    <3>4. CASE Unused # {}
      <4>1. fds' = [h \in DOMAIN fds \cup {h0} |-> IF h = h0 THEN fd ELSE fds[h]]
        BY <2>2, <3>4 DEF OpenFile
      <4> HIDE DEF fd, h0
      <4> QED
        BY <3>1, <3>2, <4>1 DEF DosInv, HandlesAreOpen
    <3> QED
      BY <3>3, <3>4
  <2>3. ASSUME NEW h, CloseHandle(h)
        PROVE  DosInv'
    <3>1. fds' = [k \in DOMAIN fds \ {h} |-> fds[k]] /\ open' = open \ {RealFd(h)}
      BY <2>3 DEF CloseHandle, Freed
    <3>2. CASE h \in DOMAIN fds
      BY <3>1, <3>2 DEF RealFd, DosInv, HandlesAreOpen
    <3>3. CASE h \notin DOMAIN fds
      BY HostHasNoBad, <3>1, <3>3 DEF RealFd, DosInv, HandlesAreOpen, Bad
    <3> QED
      BY <3>2, <3>3
  <2>4. DosNext => UNCHANGED <<fds, open>> \/ OpenFile \/ \E h : CloseHandle(h)
    <3>1. ASSUME NEW intno, NEW nr, NEW h, NEW n, DosInterrupt(intno, nr, h, n)
          PROVE  UNCHANGED <<fds, open>> \/ OpenFile \/ CloseHandle(h)
      <4>1. (UNCHANGED <<fds, open>> \/ OpenFile \/ CloseHandle(h)) \/ Terminate \/ Prints(36) \/ Prints(7)
            \/ OpenFails \/ Read(h, n) \/ Write(h, n) \/ \E fails \in BOOLEAN : Unlink(fails)
        BY <3>1, Zenon DEF DosInterrupt
      <4>2. ASSUME Terminate \/ Prints(36) \/ Prints(7)
            PROVE  UNCHANGED <<fds, open>>
        BY <4>2 DEF Terminate, Prints
      <4>3. ASSUME OpenFails \/ Read(h, n) \/ Write(h, n)
            PROVE  UNCHANGED <<fds, open>>
        BY <4>3 DEF OpenFails, Read, Write
      <4>4. ASSUME NEW fails \in BOOLEAN, Unlink(fails)
            PROVE  UNCHANGED <<fds, open>>
        BY <4>4 DEF Unlink
      <4> QED
        BY <4>1, <4>2, <4>3, <4>4, Zenon
    <3>2. ASSUME DosNext
          PROVE  \E intno, nr, h, n : DosInterrupt(intno, nr, h, n)
      BY <3>2, Zenon DEF DosNext
    <3> QED
      BY <3>1, <3>2, Zenon
  <2> QED
    BY <2>1, <2>2, <2>3, <2>4 DEF dosVars
<1> QED
  BY <1>1, <1>2, PTL DEF DosSpec

\* Handles stand for open descriptors, no two for the same (DosKernel.getFd, freeFd).
THEOREM HandlesStayOpen == DosSpec => []HandlesAreOpen
<1>1. DosInv => HandlesAreOpen
  BY DEF DosInv
<1> QED
  BY <1>1, DosInvariant, PTL

-----------------------------------------------------------------------------
(* Bytes that calls move.  A call in progress has moved as many as it      *)
(* counts; its pieces lie in its buffers; and the one buffer of a read, or *)
(* those of a write, are as far as the pieces that are left say.           *)

Buf == [addr : Nat, size : Nat]
CallType ==
  [kind : Reads \cup Writes \cup {"none"}, bufs : Seq(Buf), pieces : Seq(Buf), done : Nat,
   result : {"none", "done", "error"}, short : BOOLEAN]
MoveTypeOK ==
  /\ taken \in Nat /\ sent \in Seq(Nat) /\ memory \in [Cells -> Nat]
  /\ before \in [taken : Nat, sent : Seq(Nat), memory : [Cells -> Nat]]
  /\ call \in CallType
  /\ Len(call.bufs) = IF call.kind = "none" THEN 0 ELSE IF call.kind \in Vectored THEN 2 ELSE 1
  /\ call.result # "none" => call.pieces = <<>>
  /\ call.kind = "none" => call.result = "none" /\ call.pieces = <<>>

SpanOf(b) == Span(b.addr, b.size)
Spans == UNION {SpanOf(call.bufs[i]) : i \in DOMAIN call.bufs}
Lies(s) == \A k \in DOMAIN s : SpanOf(s[k]) \subseteq Spans
CountIsRight == call.done = (taken - before.taken) + (Len(sent) - Len(before.sent))
StaysInside == Lies(call.pieces) /\ \A x \in Cells \ Spans : memory[x] = before.memory[x]
ReadSoFar ==
  call.kind \in Reads \ Vectored /\ call.bufs[1].size <= Chunk =>
    \/ call.pieces = call.bufs /\ call.done = 0 /\ taken = before.taken
    \/ /\ call.pieces = <<>>
       /\ \A i \in 1..call.done : memory[call.bufs[1].addr + i - 1] = before.taken + i
SentSoFar ==
  call.kind \in Writes =>
    /\ memory = before.memory
    /\ ~call.short =>
         \/ call.pieces = call.bufs /\ sent = before.sent
         \/ Len(call.bufs) = 2 /\ call.pieces = <<call.bufs[2]>> /\ sent = before.sent \o HeldIn(call.bufs[1])
         \/ call.pieces = <<>> /\ sent = before.sent \o Held
MoveInv ==
  /\ MoveTypeOK
  /\ call.result # "error" /\ call.kind # "none" => CountIsRight /\ StaysInside /\ ReadSoFar /\ SentSoFar

\* A chunk of a read lies in its buffer, and one that is not larger than a chunk is one
\* piece, or none if it is empty.
LEMMA ChunksLie ==
  ASSUME NEW b \in Buf
  PROVE  /\ ChunksOf(b) \in Seq(Buf)
         /\ \A i \in DOMAIN ChunksOf(b) : SpanOf(ChunksOf(b)[i]) \subseteq SpanOf(b)
         /\ b.size <= Chunk => ChunksOf(b) = IF b.size = 0 THEN <<>> ELSE <<b>>
<1> DEFINE k == (b.size + Chunk - 1) \div Chunk
           len(i) == IF i * Chunk > b.size THEN b.size - (i - 1) * Chunk ELSE Chunk
<1>1. b.size \in Nat /\ b.addr \in Nat /\ Chunk \in Nat /\ Chunk > 0
  BY TransferAssumption DEF Buf
<1>2. k \in Nat /\ k * Chunk <= b.size + Chunk - 1
  BY <1>1
<1> HIDE DEF k
<1>3. ASSUME NEW i \in 1..k
      PROVE  len(i) \in Nat /\ len(i) <= b.size
  <2>1. i \in Nat /\ i >= 1 /\ i <= k
    BY <1>2
  <2>2. i * Chunk <= k * Chunk /\ i * Chunk \in Nat /\ (i - 1) * Chunk = i * Chunk - Chunk /\ i * Chunk >= Chunk
    BY <1>1, <1>2, <2>1
  <2> DEFINE e == i * Chunk
  <2> HIDE DEF e
  <2>3. e <= b.size + Chunk - 1 /\ e \in Nat /\ e >= Chunk
        /\ len(i) = IF e > b.size THEN b.size - (e - Chunk) ELSE Chunk
    BY <1>1, <1>2, <2>2 DEF e
  <2> HIDE DEF len
  <2> QED
    BY <1>1, <2>3
<1>4. ChunksOf(b) = [i \in 1..k |-> Buffer(b.addr, len(i))]
  BY DEF ChunksOf, k
<1> HIDE DEF len
<1>5. \A i \in 1..k : Buffer(b.addr, len(i)) \in Buf /\ SpanOf(Buffer(b.addr, len(i))) \subseteq SpanOf(b)
  <2> SUFFICES ASSUME NEW i \in 1..k
               PROVE  Buffer(b.addr, len(i)) \in Buf /\ SpanOf(Buffer(b.addr, len(i))) \subseteq SpanOf(b)
    OBVIOUS
  <2>1. Buffer(b.addr, len(i)) = [addr |-> b.addr, size |-> len(i)]
    BY DEF Buffer
  <2> QED
    BY <1>1, <1>3, <2>1 DEF Buf, SpanOf, Span
<1>6. ChunksOf(b) \in [1..k -> Buf]
  BY <1>4, <1>5
<1>7. ChunksOf(b) \in Seq(Buf)
  BY <1>2, <1>6
<1>8. ASSUME b.size <= Chunk
      PROVE  ChunksOf(b) = IF b.size = 0 THEN <<>> ELSE <<b>>
  <2>1. CASE b.size = 0
    <3>1. k = 0
      BY <1>1, <2>1 DEF k
    <3>2. 1..k = {}
      BY <3>1
    <3> QED
      BY <1>6, <1>7, <2>1, <3>1
  <2>2. CASE b.size # 0
    <3>1. k = 1
      <4>1. k >= 1
        BY <1>1, <2>2 DEF k
      <4>2. k < 2
        BY <1>1, <1>8 DEF k
      <4> QED
        BY <1>2, <4>1, <4>2
    <3>2. len(1) = b.size
      <4>1. 1 * Chunk = Chunk /\ (1 - 1) * Chunk = 0
        BY <1>1
      <4> QED
        BY <1>1, <1>8, <4>1 DEF len
    <3>3. Buffer(b.addr, len(1)) = b
      BY <3>2 DEF Buffer, Buf
    <3>4. 1..k = {1}
      BY <3>1
    <3> QED
      BY <1>4, <2>2, <3>3, <3>4
  <2> QED
    BY <2>1, <2>2
<1> QED
  BY <1>4, <1>5, <1>7, <1>8

LEMMA BeginMoves ==
  ASSUME MoveInv, NEW kind \in Reads \cup Writes, NEW b \in Buffers, NEW c \in Buffers,
         Begin(kind, IF kind \in Vectored THEN <<b, c>> ELSE <<b>>)
  PROVE  MoveInv'
<1> DEFINE bufs == IF kind \in Vectored THEN <<b, c>> ELSE <<b>>
           pieces == PiecesOf(kind, bufs)
<1>1. b \in Buf /\ c \in Buf
  BY TransferAssumption DEF Buf
<1>2. bufs \in Seq(Buf) /\ Len(bufs) = (IF kind \in Vectored THEN 2 ELSE 1) /\ bufs[1] = b /\ DOMAIN bufs = 1..Len(bufs)
  <2>1. CASE kind \in Vectored
    <3>1. bufs = <<b, c>>
      BY <2>1
    <3> HIDE DEF bufs
    <3> QED
      BY <1>1, <2>1, <3>1
  <2>2. CASE kind \notin Vectored
    <3>1. bufs = <<b>>
      BY <2>2
    <3> HIDE DEF bufs
    <3> QED
      BY <1>1, <2>2, <3>1
  <2> QED
    BY <2>1, <2>2
<1>3. pieces = IF kind = "read" THEN ChunksOf(b) ELSE bufs
  BY <1>2 DEF PiecesOf
<1>4. /\ call' = [kind |-> kind, bufs |-> bufs, pieces |-> pieces, done |-> 0,
                  result |-> IF pieces = <<>> THEN "done" ELSE "none", short |-> FALSE]
      /\ before' = [taken |-> taken, sent |-> sent, memory |-> memory]
      /\ UNCHANGED <<taken, sent, memory>>
  BY DEF Begin, Idle
<1> HIDE DEF bufs, pieces
<1>5. pieces \in Seq(Buf)
  BY <1>1, <1>2, <1>3, ChunksLie
<1>6. /\ call'.kind = kind /\ call'.bufs = bufs /\ call'.pieces = pieces /\ call'.done = 0
      /\ call'.short = FALSE /\ (call'.result # "none" => pieces = <<>>)
      /\ before'.taken = taken' /\ before'.sent = sent' /\ before'.memory = memory'
  BY <1>4
<1>7. call' \in CallType /\ before' \in [taken : Nat, sent : Seq(Nat), memory : [Cells -> Nat]]
  BY <1>2, <1>4, <1>5 DEF CallType, MoveInv, MoveTypeOK
<1>8. MoveTypeOK'
  <2>1. kind # "none"
    BY DEF Reads, Writes
  <2> QED
    BY <1>2, <1>4, <1>6, <1>7, <2>1 DEF MoveInv, MoveTypeOK
<1>9. CountIsRight'
  <2>1. taken \in Nat /\ Len(sent) \in Nat
    BY DEF MoveInv, MoveTypeOK
  <2> QED
    BY <1>4, <1>6, <2>1 DEF CountIsRight
<1>10. StaysInside'
  <2>1. \A i \in DOMAIN bufs : SpanOf(bufs[i]) \subseteq Spans'
    BY <1>6 DEF Spans, SpanOf, Span
  <2>2. \A i \in DOMAIN pieces : SpanOf(pieces[i]) \subseteq Spans'
    <3>1. 1 \in DOMAIN bufs
      BY <1>2
    <3> QED
      BY <1>1, <1>2, <1>3, <2>1, <3>1, ChunksLie
  <2> QED
    BY <1>6, <2>2 DEF StaysInside, Lies, SpanOf, Span
<1>11. ReadSoFar'
  <2> SUFFICES ASSUME kind \in Reads \ Vectored, b.size <= Chunk
               PROVE  \/ pieces = bufs
                      \/ pieces = <<>>
    BY <1>2, <1>4, <1>6 DEF ReadSoFar
  <2>1. bufs = <<b>>
    BY DEF bufs
  <2> QED
    BY <1>1, <1>3, <2>1, ChunksLie
<1>12. SentSoFar'
  <2>1. kind \in Writes => kind # "read"
    BY DEF Writes
  <2> QED
    BY <1>3, <1>6, <2>1 DEF SentSoFar
<1> QED
  BY <1>8, <1>9, <1>10, <1>11, <1>12 DEF MoveInv

\* A piece of n bytes is counted.
Rest(n) == IF call.kind = "read" /\ n < Chunk THEN <<>> ELSE Tail(call.pieces)
LEMMA MovedCounts ==
  ASSUME MoveTypeOK, call.pieces # <<>>, NEW n \in Nat, Moved(n)
  PROVE  /\ call' \in CallType /\ Rest(n) \in Seq(Buf) /\ Piece \in Buf
         /\ call'.kind = call.kind /\ call'.bufs = call.bufs /\ call'.pieces = Rest(n)
         /\ call'.done = call.done + n
         /\ ~call'.short => ~call.short /\ ~(n < Piece.size)
         /\ call'.result # "error" /\ (call'.result # "none" => call'.pieces = <<>>)
         /\ \A k \in DOMAIN Rest(n) : k + 1 \in DOMAIN call.pieces /\ Rest(n)[k] = call.pieces[k + 1]
         /\ 1 \in DOMAIN call.pieces /\ call.pieces[1] = Piece
<1>1. call.pieces \in Seq(Buf) /\ call \in CallType
  BY DEF MoveTypeOK, CallType
<1>2. Piece \in Buf /\ Tail(call.pieces) \in Seq(Buf) /\ Len(Tail(call.pieces)) = Len(call.pieces) - 1
      /\ \A k \in 1..Len(Tail(call.pieces)) : Tail(call.pieces)[k] = call.pieces[k + 1]
  BY <1>1, HeadTailProperties DEF Piece
<1>3. Rest(n) \in Seq(Buf)
  BY <1>2 DEF Rest
<1>4. call' = [call EXCEPT !.pieces = Rest(n), !.done = call.done + n, !.short = call.short \/ n < Piece.size,
                           !.result = IF Rest(n) = <<>> THEN "done" ELSE "none"]
  BY DEF Moved, Rest
<1>5. /\ call'.kind = call.kind /\ call'.bufs = call.bufs /\ call'.pieces = Rest(n)
      /\ call'.done = call.done + n
      /\ call'.result = IF Rest(n) = <<>> THEN "done" ELSE "none"
  BY <1>1, <1>4 DEF CallType
<1>6. call'.short = (call.short \/ n < Piece.size)
  BY <1>1, <1>4 DEF CallType
<1>7. call' \in CallType
  <2>1. call = [kind |-> call.kind, bufs |-> call.bufs, pieces |-> call.pieces, done |-> call.done,
                result |-> call.result, short |-> call.short]
    BY <1>1 DEF CallType
  <2>2. call' = [kind |-> call.kind, bufs |-> call.bufs, pieces |-> Rest(n), done |-> call.done + n,
                 result |-> call'.result, short |-> call'.short]
    <3> HIDE DEF Rest
    <3> QED
      BY <1>4, <2>1
  <2>3. call'.short \in BOOLEAN
    BY <1>6
  <2>4. call'.result \in {"none", "done", "error"}
    BY <1>5
  <2>5. call.kind \in Reads \cup Writes \cup {"none"} /\ call.bufs \in Seq(Buf) /\ call.done + n \in Nat
    BY <1>1 DEF CallType
  <2> HIDE DEF Rest
  <2> QED
    BY <1>3, <2>2, <2>3, <2>4, <2>5 DEF CallType
<1>8. \A k \in DOMAIN Rest(n) : k + 1 \in DOMAIN call.pieces /\ Rest(n)[k] = call.pieces[k + 1]
  <2>1. CASE Rest(n) = <<>>
    BY <2>1
  <2>2. CASE Rest(n) = Tail(call.pieces)
    <3>1. Len(call.pieces) \in Nat /\ DOMAIN call.pieces = 1..Len(call.pieces)
          /\ DOMAIN Tail(call.pieces) = 1..(Len(call.pieces) - 1)
      BY <1>1, <1>2
    <3> QED
      BY <1>2, <2>2, <3>1
  <2> QED
    BY <2>1, <2>2 DEF Rest
<1>9. 1 \in DOMAIN call.pieces /\ call.pieces[1] = Piece
  BY <1>1 DEF Piece
<1> QED
  BY <1>2, <1>3, <1>5, <1>6, <1>7, <1>8, <1>9

\* A sequence of one element.
LEMMA SingleSeq ==
  ASSUME NEW S, NEW s \in Seq(S), Len(s) = 1
  PROVE  s = <<s[1]>>
<1>1. <<s[1]>> \in Seq(S) /\ Len(<<s[1]>>) = 1 /\ <<s[1]>>[1] = s[1]
  <2>1. s[1] \in S
    OBVIOUS
  <2> QED
    BY <2>1
<1> QED
  BY <1>1, SeqEqual

\* A call that fails moves no more.
LEMMA ErrorEnds ==
  ASSUME MoveTypeOK, Returns("error")
  PROVE  /\ call' \in CallType /\ call'.kind = call.kind /\ call'.bufs = call.bufs
         /\ call'.result = "error" /\ call'.pieces = <<>>
<1>1. call \in CallType /\ call' = [call EXCEPT !.pieces = <<>>, !.result = "error"]
  BY DEF MoveTypeOK, Returns
<1>2. call' = [kind |-> call.kind, bufs |-> call.bufs, pieces |-> <<>>, done |-> call.done,
               result |-> "error", short |-> call.short]
  BY <1>1 DEF CallType
<1>3. call.kind \in Reads \cup Writes \cup {"none"} /\ call.bufs \in Seq(Buf) /\ call.done \in Nat /\ call.short \in BOOLEAN
  BY <1>1 DEF CallType
<1>4. <<>> \in Seq(Buf)
  OBVIOUS
<1> QED
  BY <1>2, <1>3, <1>4 DEF CallType

LEMMA ReadMoves ==
  ASSUME MoveInv, NEW n \in 0..StreamLen, ReadPiece(n)
  PROVE  MoveInv'
<1> DEFINE width == IF call.kind \in Whole THEN Piece.size ELSE n
           fits == Span(Piece.addr, width) \subseteq Cells
<1>1. /\ call.kind \in Reads /\ call.pieces # <<>> /\ n <= Piece.size /\ taken' = taken + n
      /\ UNCHANGED <<sent, before>>
  BY DEF ReadPiece
<1>2. n \in Nat /\ taken \in Nat /\ memory \in [Cells -> Nat] /\ MoveTypeOK /\ call.kind \notin Writes
      /\ call.kind # "none" /\ before.taken \in Nat /\ Len(sent) \in Nat /\ Len(before.sent) \in Nat
  BY <1>1, TransferAssumption DEF MoveInv, MoveTypeOK, Reads, Writes
<1>3. /\ memory' \in [Cells -> Nat]
      /\ \A x \in Cells \ Span(Piece.addr, width) : memory'[x] = memory[x]
      /\ fits => \A x \in Span(Piece.addr, width) : x - Piece.addr < n => memory'[x] = taken + 1 + x - Piece.addr
  <2>1. CASE ~fits
    BY <1>2, <2>1 DEF ReadPiece
  <2>2. CASE fits
    <3>1. memory' = [x \in Cells |-> IF x \notin Span(Piece.addr, width) THEN memory[x]
                                     ELSE IF x - Piece.addr < n THEN taken + 1 + x - Piece.addr ELSE 0]
      BY <2>2 DEF ReadPiece
    <3>2. Piece \in Buf
      <4>1. call.pieces \in Seq(Buf)
        BY <1>2 DEF MoveTypeOK, CallType
      <4> QED
        BY <1>1, <4>1, HeadTailProperties DEF Piece
    <3>3. \A x \in Span(Piece.addr, width) : x \in Nat /\ x >= Piece.addr
      BY <3>2, <1>2 DEF Span, Buf
    <3>4. Piece.addr \in Nat
      BY <3>2 DEF Buf
    <3>5. \A x \in Cells : x \in Span(Piece.addr, width) => taken + 1 + x - Piece.addr \in Nat
      BY <1>2, <3>3, <3>4
    <3> HIDE DEF width
    <3> QED
      BY <1>2, <2>2, <3>1, <3>5
  <2> QED
    BY <2>1, <2>2
<1>4. CASE Returns("error")
  <2>2. call' \in CallType /\ call'.kind = call.kind /\ call'.bufs = call.bufs /\ call'.result = "error" /\ call'.pieces = <<>>
    BY <1>2, <1>4, ErrorEnds
  <2> QED
    BY <1>1, <1>2, <1>3, <2>2 DEF MoveInv, MoveTypeOK
<1>5. CASE Moved(n) /\ (fits \/ call.kind \in Vectored)
  <2>1. /\ call' \in CallType /\ Rest(n) \in Seq(Buf) /\ Piece \in Buf
        /\ call'.kind = call.kind /\ call'.bufs = call.bufs /\ call'.pieces = Rest(n)
        /\ call'.done = call.done + n
        /\ call'.result # "error" /\ (call'.result # "none" => call'.pieces = <<>>)
        /\ \A k \in DOMAIN Rest(n) : k + 1 \in DOMAIN call.pieces /\ Rest(n)[k] = call.pieces[k + 1]
        /\ 1 \in DOMAIN call.pieces /\ call.pieces[1] = Piece
    BY <1>1, <1>2, <1>5, MovedCounts
  <2>2. call.result # "error"
    <3>1. call.result = "error" => call.pieces = <<>>
      BY DEF MoveInv, MoveTypeOK
    <3> QED
      BY <1>1, <3>1
  <2>3. CountIsRight /\ StaysInside /\ ReadSoFar
    BY <1>2, <2>2 DEF MoveInv
  <2>4. MoveTypeOK'
    BY <1>1, <1>2, <1>3, <2>1 DEF MoveTypeOK
  <2>5. CountIsRight'
    <3>1. call.done = (taken - before.taken) + (Len(sent) - Len(before.sent)) /\ call.done \in Nat
      BY <1>2, <2>3 DEF CountIsRight, MoveTypeOK, CallType
    <3>2. call'.done = call.done + n /\ taken' = taken + n /\ sent' = sent /\ before' = before
      BY <1>1, <2>1
    <3>3. call'.done = (taken' - before.taken) + (Len(sent) - Len(before.sent))
      BY <1>2, <3>1, <3>2
    <3> QED
      BY <3>2, <3>3 DEF CountIsRight
  <2>6. Spans' = Spans
    BY <2>1 DEF Spans, SpanOf, Span
  <2>7. StaysInside'
    <3>1. Span(Piece.addr, width) \subseteq SpanOf(Piece)
      BY <1>1, <1>2, <2>1 DEF SpanOf, Span, Buf
    <3>2. SpanOf(Piece) \subseteq Spans
      BY <2>1, <2>3 DEF StaysInside, Lies
    <3>3. \A x \in Cells \ Spans : memory'[x] = before'.memory[x]
      BY <1>1, <1>3, <2>3, <3>1, <3>2 DEF StaysInside
    <3>4. \A k \in DOMAIN Rest(n) : SpanOf(Rest(n)[k]) \subseteq Spans
      BY <2>1, <2>3 DEF StaysInside, Lies
    <3> QED
      BY <2>1, <2>6, <3>3, <3>4 DEF StaysInside, Lies, SpanOf, Span
  <2>8. ReadSoFar'
    <3> SUFFICES ASSUME call.kind \in Reads \ Vectored, call.bufs[1].size <= Chunk
                 PROVE  /\ Rest(n) = <<>>
                        /\ \A i \in 1..(call.done + n) : memory'[call.bufs[1].addr + i - 1] = before.taken + i
      BY <1>1, <2>1 DEF ReadSoFar
    <3>1. call.pieces = call.bufs /\ call.done = 0 /\ taken = before.taken
      BY <1>1, <2>3 DEF ReadSoFar
    <3>2. Len(call.bufs) = 1 /\ Piece = call.bufs[1]
      BY <1>2, <2>1, <3>1 DEF MoveTypeOK
    <3>3. Tail(call.pieces) = <<>>
      <4>1. call.pieces \in Seq(Buf) /\ Len(call.pieces) = 1
        BY <1>2, <3>1, <3>2 DEF MoveTypeOK, CallType
      <4>2. Tail(call.pieces) \in Seq(Buf) /\ Len(Tail(call.pieces)) = 0
        BY <1>1, <4>1, HeadTailProperties
      <4> QED
        BY <4>2, EmptySeq
    <3>4. fits
      BY <1>5
    <3>5. ASSUME NEW i \in 1..n
          PROVE  memory'[Piece.addr + i - 1] = before.taken + i
      <4>1. Piece.addr \in Nat /\ Piece.size \in Nat /\ i \in Nat
        BY <2>1 DEF Buf
      <4> DEFINE x == Piece.addr + i - 1
      <4>a. width \in Nat /\ n <= width
        BY <1>1, <1>2, <4>1
      <4>b. x \in Nat /\ x >= Piece.addr /\ x <= Piece.addr + n - 1
        BY <1>2, <4>1
      <4>c. x - Piece.addr < n /\ taken + 1 + x - Piece.addr = taken + i
        BY <1>2, <4>1
      <4> HIDE DEF x, width
      <4>2. x \in Span(Piece.addr, width) /\ x - Piece.addr < n /\ taken + 1 + x - Piece.addr = taken + i
        BY <1>2, <4>1, <4>a, <4>b, <4>c DEF Span
      <4> HIDE DEF fits
      <4>3. memory'[x] = taken + 1 + x - Piece.addr
        BY <1>3, <3>4, <4>2
      <4> QED
        BY <3>1, <4>2, <4>3 DEF x
    <3>6. call.done + n = n
      BY <1>2, <3>1
    <3> QED
      BY <3>2, <3>3, <3>5, <3>6 DEF Rest
  <2>9. SentSoFar'
    BY <1>2, <2>1 DEF SentSoFar
  <2> QED
    BY <2>4, <2>5, <2>7, <2>8, <2>9 DEF MoveInv
<1> QED
  BY <1>4, <1>5 DEF ReadPiece

\* Where a string of three parts is cut does not matter.
LEMMA ThreeJoined ==
  ASSUME NEW s \in Seq(Nat), NEW t \in Seq(Nat), NEW u \in Seq(Nat)
  PROVE  (s \o t) \o u = s \o (t \o u)
OBVIOUS

LEMMA WriteMoves ==
  ASSUME MoveInv, NEW n \in 0..StreamLen, WritePiece(n)
  PROVE  MoveInv'
<1> DEFINE part == Holds(memory, Piece, n)
<1>1. /\ call.kind \in Writes /\ call.pieces # <<>> /\ n <= Piece.size
      /\ sent' = sent \o part /\ UNCHANGED <<taken, memory, before>>
      /\ Moved(n)
  BY DEF WritePiece
<1>2. /\ n \in Nat /\ taken \in Nat /\ memory \in [Cells -> Nat] /\ MoveTypeOK /\ call.kind \notin Reads
      /\ call.kind # "none" /\ before.taken \in Nat /\ Len(sent) \in Nat /\ Len(before.sent) \in Nat
      /\ call \in CallType /\ sent \in Seq(Nat) /\ before.sent \in Seq(Nat)
  BY <1>1, TransferAssumption DEF MoveInv, MoveTypeOK, Reads, Writes
<1>3. Piece \in Buf
  <2>1. call.pieces \in Seq(Buf)
    BY <1>2 DEF CallType
  <2> QED
    BY <1>1, <2>1, HeadTailProperties DEF Piece
<1>4. part \in Seq(Nat) /\ Len(part) = n
  <2>2. ASSUME NEW i \in 1..n, Readable(Piece)
        PROVE  memory[Piece.addr + i - 1] \in Nat
    <3>1. Piece.addr + i - 1 \in Span(Piece.addr, Piece.size)
      BY <1>1, <1>2, <1>3 DEF Span, Buf
    <3> QED
      BY <1>2, <2>2, <3>1 DEF Readable
  <2>3. part \in [1..n -> Nat]
    BY <2>2 DEF Holds
  <2> HIDE DEF part
  <2> QED
    BY <1>2, <2>3
<1> HIDE DEF part
<1>5. sent' \in Seq(Nat) /\ Len(sent') = Len(sent) + n
  BY <1>1, <1>2, <1>4, ConcatProperties
<1>7. MoveInv'
  <2>1. /\ call' \in CallType /\ Rest(n) \in Seq(Buf)
        /\ call'.kind = call.kind /\ call'.bufs = call.bufs /\ call'.pieces = Rest(n)
        /\ call'.done = call.done + n
        /\ ~call'.short => ~call.short /\ ~(n < Piece.size)
        /\ call'.result # "error" /\ (call'.result # "none" => call'.pieces = <<>>)
        /\ \A k \in DOMAIN Rest(n) : k + 1 \in DOMAIN call.pieces /\ Rest(n)[k] = call.pieces[k + 1]
        /\ 1 \in DOMAIN call.pieces /\ call.pieces[1] = Piece
    BY <1>1, <1>2, MovedCounts
  <2>2. CountIsRight /\ StaysInside /\ SentSoFar
    <3>1. call.result = "error" => call.pieces = <<>>
      BY <1>2 DEF MoveTypeOK
    <3> QED
      BY <1>1, <1>2, <3>1 DEF MoveInv
  <2>3. MoveTypeOK'
    BY <1>1, <1>2, <1>5, <2>1 DEF MoveTypeOK
  <2>4. CountIsRight'
    <3>1. call.done \in Nat
      BY <1>2 DEF CallType
    <3>2. call.done = (taken - before.taken) + (Len(sent) - Len(before.sent))
      BY <2>2 DEF CountIsRight
    <3>3. call'.done = call.done + n /\ Len(sent') = Len(sent) + n /\ taken' = taken /\ before' = before
      BY <1>1, <1>5, <2>1
    <3>4. taken \in Nat /\ before.taken \in Nat /\ Len(sent) \in Nat /\ Len(before.sent) \in Nat /\ n \in Nat
      BY <1>2
    <3>5. call.done + n = (taken - before.taken) + ((Len(sent) + n) - Len(before.sent))
      <4> DEFINE v == Len(sent)
                 w == Len(before.sent)
                 t == taken
                 u == before.taken
                 d == call.done
      <4>1. d \in Nat /\ t \in Nat /\ u \in Nat /\ v \in Nat /\ w \in Nat /\ d = (t - u) + (v - w)
        BY <3>1, <3>2, <3>4
      <4> HIDE DEF v, w, t, u, d
      <4>2. d + n = (t - u) + ((v + n) - w)
        BY <3>4, <4>1
      <4> QED
        BY <4>2 DEF v, w, t, u, d
    <3> QED
      BY <3>3, <3>5 DEF CountIsRight
  <2>5. Spans' = Spans
    BY <2>1 DEF Spans, SpanOf, Span
  <2>6. StaysInside'
    <3>1. \A k \in DOMAIN Rest(n) : SpanOf(Rest(n)[k]) \subseteq Spans
      BY <2>1, <2>2 DEF StaysInside, Lies
    <3> QED
      BY <1>1, <2>1, <2>2, <2>5, <3>1 DEF StaysInside, Lies, SpanOf, Span
  <2>7. SentSoFar'
    <3> SUFFICES ASSUME ~call'.short
                 PROVE  \/ call'.pieces = call'.bufs /\ sent' = before'.sent
                        \/ Len(call'.bufs) = 2 /\ call'.pieces = <<call'.bufs[2]>> /\ sent' = before'.sent \o HeldIn(call.bufs[1])'
                        \/ call'.pieces = <<>> /\ sent' = before'.sent \o Held'
      BY <1>1, <2>1, <2>2 DEF SentSoFar
    <3>1. n = Piece.size /\ ~call.short /\ memory = before.memory
      <4>1. Piece.size \in Nat /\ n <= Piece.size
        BY <1>1, <1>2, <1>3 DEF Buf
      <4> QED
        <5>1. ~call.short /\ n = Piece.size
          BY <1>2, <2>1, <4>1
        <5>2. memory = before.memory
          BY <1>1, <2>2 DEF SentSoFar
        <5> QED
          BY <5>1, <5>2
    <3>2. part = HeldIn(Piece)
      BY <3>1 DEF part, HeldIn
    <3>3. HeldIn(call.bufs[1])' = HeldIn(call.bufs[1]) /\ Held' = Held
      BY <1>1, <2>1 DEF HeldIn, Held, Holds, Readable, Span
    <3>4. Rest(n) = Tail(call.pieces)
      BY <1>1 DEF Rest, Writes
    <3>5. call.bufs \in Seq(Buf) /\ call.pieces \in Seq(Buf)
          /\ Len(call.bufs) = IF call.kind \in Vectored THEN 2 ELSE 1
      BY <1>2 DEF CallType, MoveTypeOK
    <3>6. \A b \in Buf : HeldIn(b) \in Seq(Nat)
      <4> SUFFICES ASSUME NEW b \in Buf
                   PROVE  HeldIn(b) \in Seq(Nat)
        OBVIOUS
      <4>1. b.size \in Nat /\ b.addr \in Nat /\ before.memory \in [Cells -> Nat]
        BY <1>2 DEF Buf, MoveTypeOK
      <4>2. HeldIn(b) \in [1..b.size -> Nat]
        <5>1. Readable(b) => \A i \in 1..b.size : before.memory[b.addr + i - 1] \in Nat
          BY <4>1 DEF Readable, Span
        <5> QED
          BY <5>1 DEF HeldIn, Holds
      <4> QED
        BY <4>1, <4>2
    <3>7. CASE call.pieces = call.bufs /\ sent = before.sent
      <4>1. Piece = call.bufs[1]
        BY <2>1, <3>7
      <4>2. sent' = before'.sent \o HeldIn(call.bufs[1])
        BY <1>1, <3>2, <3>7, <4>1
      <4>3. Tail(call.pieces) \in Seq(Buf) /\ Len(Tail(call.pieces)) = Len(call.bufs) - 1
            /\ \A k \in 1..Len(Tail(call.pieces)) : Tail(call.pieces)[k] = call.pieces[k + 1]
        BY <1>1, <3>5, <3>7, HeadTailProperties
      <4>4. CASE Len(call.bufs) = 2
        <5>1. Tail(call.pieces)[1] = call.bufs[2]
          BY <3>7, <4>3, <4>4
        <5>2. Tail(call.pieces) = <<call.bufs[2]>>
          <6>1. Tail(call.pieces) \in Seq(Buf) /\ Len(Tail(call.pieces)) = 1
            BY <4>3, <4>4
          <6> QED
            BY <5>1, <6>1, SingleSeq
        <5>3. call'.pieces = <<call'.bufs[2]>> /\ Len(call'.bufs) = 2
          BY <2>1, <3>4, <4>4, <5>2
        <5>4. HeldIn(call.bufs[1])' = HeldIn(call.bufs[1])
          BY <3>3
        <5> QED
          BY <4>2, <5>3, <5>4
      <4>5. CASE Len(call.bufs) = 1
        <5>1. Tail(call.pieces) = <<>>
          <6>1. Tail(call.pieces) \in Seq(Buf) /\ Len(Tail(call.pieces)) = 0
            BY <4>3, <4>5
          <6> QED
            BY <6>1, EmptySeq
        <5>2. Held = HeldIn(call.bufs[1])
          <6>1. HeldIn(call.bufs[1]) \in Seq(Nat)
            BY <3>5, <3>6, <4>5
          <6>2. HeldIn(call.bufs[1]) \o <<>> = HeldIn(call.bufs[1])
            BY <6>1
          <6> QED
            BY <4>5, <6>2 DEF Held
        <5> QED
          BY <1>1, <2>1, <3>3, <3>4, <4>2, <5>1, <5>2
      <4> QED
        BY <3>5, <4>4, <4>5
    <3>8. CASE Len(call.bufs) = 2 /\ call.pieces = <<call.bufs[2]>> /\ sent = before.sent \o HeldIn(call.bufs[1])
      <4>1. Piece = call.bufs[2]
        BY <2>1, <3>8
      <4>2. sent' = (before.sent \o HeldIn(call.bufs[1])) \o HeldIn(call.bufs[2])
        BY <1>1, <3>2, <3>8, <4>1
      <4>3. call.bufs[1] \in Buf /\ call.bufs[2] \in Buf
        BY <3>5, <3>8
      <4>4. HeldIn(call.bufs[1]) \in Seq(Nat) /\ HeldIn(call.bufs[2]) \in Seq(Nat)
        BY <3>6, <4>3
      <4>5. Held = HeldIn(call.bufs[1]) \o HeldIn(call.bufs[2])
        BY <3>8 DEF Held
      <4> DEFINE p == HeldIn(call.bufs[1])
                 q == HeldIn(call.bufs[2])
      <4> HIDE DEF p, q
      <4>6. sent' = before.sent \o (p \o q)
        <5>1. p \in Seq(Nat) /\ q \in Seq(Nat) /\ sent' = (before.sent \o p) \o q
          BY <4>2, <4>4 DEF p, q
        <5>2. before.sent \in Seq(Nat)
          BY <1>2
        <5>3. (before.sent \o p) \o q = before.sent \o (p \o q)
          BY <5>1, <5>2, ThreeJoined
        <5> QED
          BY <5>1, <5>3
      <4>7. Tail(call.pieces) = <<>>
        <5>1. Len(call.pieces) = 1
          BY <3>8
        <5>2. Tail(call.pieces) \in Seq(Buf) /\ Len(Tail(call.pieces)) = 0
          BY <1>1, <3>5, <5>1, HeadTailProperties
        <5> QED
          BY <5>2, EmptySeq
      <4> QED
        BY <1>1, <2>1, <3>3, <3>4, <4>5, <4>6, <4>7 DEF p, q
    <3> QED
      BY <1>1, <2>2, <3>1, <3>7, <3>8 DEF SentSoFar
  <2>8. ReadSoFar'
    BY <1>2, <2>1 DEF ReadSoFar
  <2> QED
    BY <2>3, <2>4, <2>6, <2>7, <2>8 DEF MoveInv
<1> QED
  BY <1>7

\* The invariant of the calls.
THEOREM MoveInvariant == TransferSpec => []MoveInv
<1>1. TransferInit => MoveInv
  <2> SUFFICES ASSUME TransferInit
               PROVE  MoveInv
    OBVIOUS
  <2>1. memory \in [Cells -> Nat] /\ <<>> \in Seq(Nat) /\ <<>> \in Seq(Buf)
    BY DEF TransferInit
  <2>2. call = [kind |-> "none", bufs |-> <<>>, pieces |-> <<>>, done |-> 0, result |-> "none", short |-> FALSE]
    BY DEF TransferInit, Idle
  <2>3. call \in CallType
    BY <2>1, <2>2 DEF CallType
  <2>4. Len(call.bufs) = 0 /\ call.kind = "none" /\ call.result = "none"
    BY <2>2
  <2>5. MoveTypeOK
    <3>1. taken = 0 /\ sent = <<>> /\ before = [taken |-> 0, sent |-> <<>>, memory |-> memory]
      BY DEF TransferInit
    <3>2. before \in [taken : Nat, sent : Seq(Nat), memory : [Cells -> Nat]]
      BY <2>1, <3>1
    <3>3. call.pieces = <<>>
      BY <2>2
    <3> QED
      BY <2>1, <2>3, <2>4, <3>1, <3>2, <3>3 DEF MoveTypeOK
  <2> QED
    BY <2>4, <2>5 DEF MoveInv
<1>2. MoveInv /\ [TransferNext]_transferVars => MoveInv'
  <2> SUFFICES ASSUME MoveInv, [TransferNext]_transferVars
               PROVE  MoveInv'
    OBVIOUS
  <2>1. CASE HostFails
    <3>1. call' \in CallType /\ call'.kind = call.kind /\ call'.bufs = call.bufs /\ call'.result = "error" /\ call'.pieces = <<>>
      BY <2>1, ErrorEnds DEF HostFails, MoveInv
    <3> QED
      BY <2>1, <3>1 DEF HostFails, MoveInv, MoveTypeOK
  <2>2. CASE UNCHANGED transferVars
    <3>1. UNCHANGED <<taken, sent, memory, call, before>>
      BY <2>2 DEF transferVars
    <3>2. Spans' = Spans /\ Held' = Held /\ \A b : HeldIn(b)' = HeldIn(b)
      BY <3>1 DEF Spans, SpanOf, Span, Held, HeldIn, Holds, Readable
    <3>3. MoveTypeOK'
      BY <3>1 DEF MoveInv, MoveTypeOK
    <3>4. CountIsRight' = CountIsRight
      BY <3>1 DEF CountIsRight
    <3>5. StaysInside' = StaysInside
      BY <3>1, <3>2 DEF StaysInside, Lies, SpanOf, Span
    <3>6. ReadSoFar' = ReadSoFar
      BY <3>1 DEF ReadSoFar
    <3>7. SentSoFar' = SentSoFar
      BY <3>1, <3>2 DEF SentSoFar, HeldIn
    <3> QED
      BY <3>1, <3>3, <3>4, <3>5, <3>6, <3>7 DEF MoveInv
  <2>3. ASSUME NEW kind \in Reads \cup Writes, NEW b \in Buffers, NEW c \in Buffers,
               Begin(kind, IF kind \in Vectored THEN <<b, c>> ELSE <<b>>)
        PROVE  MoveInv'
    BY <2>3, BeginMoves
  <2> QED
    BY <2>1, <2>2, <2>3, ReadMoves, WriteMoves DEF TransferNext
<1> QED
  BY <1>1, <1>2, PTL DEF TransferSpec

\* A call that gives a count back has moved as many bytes, in order, and has touched
\* nothing outside of its buffers (io.go:13-47, 142-191).
THEOREM CallsCountWhatMoved == TransferSpec => []CountsWhatMoved
<1>1. MoveInv => CountsWhatMoved
  <2> SUFFICES ASSUME MoveInv, call.result = "done"
               PROVE  LET spans == UNION {Span(call.bufs[i].addr, call.bufs[i].size) : i \in DOMAIN call.bufs}
                          one == call.bufs[1] IN
                      /\ call.kind # "sendto" => Returned = (taken - before.taken) + (Len(sent) - Len(before.sent))
                      /\ \A x \in Cells \ spans : memory[x] = before.memory[x]
                      /\ (call.kind \in Reads /\ Len(call.bufs) = 1 /\ one.size <= Chunk) =>
                           \A i \in 1..call.done : memory[one.addr + i - 1] = before.taken + i
                      /\ (call.kind \in Writes /\ ~call.short) => sent = before.sent \o Held
    BY DEF CountsWhatMoved
  <2>1. MoveTypeOK /\ CountIsRight /\ StaysInside /\ ReadSoFar /\ SentSoFar /\ call.pieces = <<>> /\ call.kind # "none"
    <3>1. MoveTypeOK /\ call.pieces = <<>>
      BY DEF MoveInv, MoveTypeOK
    <3>2. call.kind # "none"
      BY <3>1 DEF MoveTypeOK
    <3> QED
      BY <3>1, <3>2 DEF MoveInv
  <2>2. Spans = UNION {Span(call.bufs[i].addr, call.bufs[i].size) : i \in DOMAIN call.bufs}
    BY DEF Spans, SpanOf
  <2>3. call.kind # "sendto" => Returned = (taken - before.taken) + (Len(sent) - Len(before.sent))
    BY <2>1 DEF Returned, CountIsRight
  <2>4. \A x \in Cells \ Spans : memory[x] = before.memory[x]
    BY <2>1 DEF StaysInside
  <2>5. (call.kind \in Reads /\ Len(call.bufs) = 1 /\ call.bufs[1].size <= Chunk) =>
           \A i \in 1..call.done : memory[call.bufs[1].addr + i - 1] = before.taken + i
    <3> SUFFICES ASSUME call.kind \in Reads, Len(call.bufs) = 1, call.bufs[1].size <= Chunk
                 PROVE  \A i \in 1..call.done : memory[call.bufs[1].addr + i - 1] = before.taken + i
      OBVIOUS
    <3>1. call.kind \notin Vectored
      <4>1. Len(call.bufs) = IF call.kind \in Vectored THEN 2 ELSE 1
        BY <2>1 DEF MoveTypeOK
      <4>2. Len(call.bufs) = 1
        OBVIOUS
      <4>3. 1 # 2
        OBVIOUS
      <4> QED
        BY <4>1, <4>2, <4>3, Zenon
    <3>2. call.pieces # call.bufs
      BY <2>1
    <3> QED
      BY <2>1, <3>1, <3>2 DEF ReadSoFar
  <2>6. (call.kind \in Writes /\ ~call.short) => sent = before.sent \o Held
    <3>1. call.pieces # call.bufs /\ call.pieces # <<call.bufs[2]>>
      <4>1. Len(call.bufs) # 0
        BY <2>1 DEF MoveTypeOK
      <4> QED
        BY <2>1, <4>1
    <3> QED
      BY <2>1, <3>1 DEF SentSoFar
  <2> QED
    BY <2>2, <2>3, <2>4, <2>5, <2>6
<1> QED
  BY <1>1, MoveInvariant, PTL

-----------------------------------------------------------------------------
(* The stack a program finds.  Its pushes go down; what is pushed before   *)
(* the stack pointer is aligned has names of its own; from there on what   *)
(* is left, and how far the stack pointer is from a multiple of 16, are    *)
(* known.                                                                  *)

EarlyNames == {"random", "platform", "exe", "guard", "zero", "name", "env", "arg"}
LateNames == {"align", "auxv", "init", "header"}
Early == [what : EarlyNames, len : Nat]
Things == [what : EarlyNames \cup LateNames, len : Nat]
PushedThings == [what : EarlyNames \cup LateNames, addr : Int, len : Nat]

FromInit == <<Thing("init", InitLen)>> \o Header
FromAuxv == (IF AuxvLen = 0 THEN <<>> ELSE <<Thing("auxv", AuxvLen)>>) \o FromInit
FromAlign == <<Align>> \o FromAuxv
HeaderLen == IF os = "darwin" THEN word ELSE 0

StackTypeOK ==
  /\ os \in {"linux", "darwin", "redox"} /\ word \in {4, 8} /\ phdr \in BOOLEAN
  /\ os # "linux" => ~phdr
  /\ argv \in Seq(Nat) /\ envp \in Seq(Nat) /\ sp \in Int /\ pushed \in Seq(PushedThings)

Descends ==
  /\ \A i, j \in DOMAIN pushed : i < j => pushed[j].addr + pushed[j].len <= pushed[i].addr
  /\ \A i \in DOMAIN pushed : sp <= pushed[i].addr
NamedFrom(names) == \A i \in DOMAIN pushed : pushed[i].what \in names
AuxvAt(a) ==
  AuxvLen > 0 => \E k \in DOMAIN pushed : pushed[k].what = "auxv" /\ pushed[k].addr = a /\ pushed[k].len = AuxvLen
InitAt(a) == AuxvAt(a + InitLen) /\ \E i \in DOMAIN pushed : pushed[i].what = "init" /\ pushed[i].addr = a
Sixteens(a) == \E m \in Int : a = 16 * m

BeforeAlign == sp \in Nat /\ NamedFrom(EarlyNames) /\ \E pre \in Seq(Early) : todo = pre \o FromAlign
BeforeAuxv == AuxvLen > 0 /\ NamedFrom(EarlyNames) /\ todo = FromAuxv /\ Sixteens(sp - InitLen)
BeforeInit ==
  NamedFrom(EarlyNames \cup {"auxv"}) /\ todo = FromInit /\ Sixteens((sp + AuxvLen) - InitLen) /\ AuxvAt(sp)
BeforeHeader == os = "darwin" /\ todo = Header /\ Sixteens(sp + AuxvLen) /\ InitAt(sp)
Ended == todo = <<>> /\ Sixteens(sp + AuxvLen + HeaderLen) /\ InitAt(sp + HeaderLen)
OutOfStack == todo = <<>> /\ NamedFrom(EarlyNames \cup {"auxv"})

StackInv ==
  /\ StackTypeOK /\ Descends
  /\ BeforeAlign \/ BeforeAuxv \/ BeforeInit \/ BeforeHeader \/ Ended \/ OutOfStack

\* The first of two sequences in a row gives the head.
LEMMA HeadOfTwo ==
  ASSUME NEW S, NEW p \in Seq(S), NEW r \in Seq(S), p # <<>>
  PROVE  /\ p \o r \in Seq(S) /\ p \o r # <<>> /\ Head(p \o r) = Head(p) /\ Tail(p \o r) = Tail(p) \o r
         /\ Head(p) \in S /\ Tail(p) \in Seq(S)
<1>1. /\ p \o r \in Seq(S) /\ Len(p \o r) = Len(p) + Len(r)
      /\ \A i \in 1..(Len(p) + Len(r)) : (p \o r)[i] = IF i <= Len(p) THEN p[i] ELSE r[i - Len(p)]
  BY ConcatProperties
<1>2. Len(p) \in Nat /\ Len(p) > 0 /\ Len(r) \in Nat
  BY EmptySeq
<1>3. p \o r # <<>>
  BY <1>1, <1>2
<1>4. /\ Head(p) \in S /\ Tail(p) \in Seq(S) /\ Len(Tail(p)) = Len(p) - 1
      /\ \A i \in 1..Len(Tail(p)) : Tail(p)[i] = p[i + 1]
  BY HeadTailProperties
<1>5. /\ Tail(p \o r) \in Seq(S) /\ Len(Tail(p \o r)) = Len(p \o r) - 1
      /\ \A i \in 1..Len(Tail(p \o r)) : Tail(p \o r)[i] = (p \o r)[i + 1]
  BY <1>1, <1>3, HeadTailProperties
<1>6. /\ Tail(p) \o r \in Seq(S) /\ Len(Tail(p) \o r) = Len(Tail(p)) + Len(r)
      /\ \A i \in 1..(Len(Tail(p)) + Len(r)) :
           (Tail(p) \o r)[i] = IF i <= Len(Tail(p)) THEN Tail(p)[i] ELSE r[i - Len(Tail(p))]
  BY <1>4, ConcatProperties
<1>7. Len(Tail(p \o r)) = Len(Tail(p) \o r)
  BY <1>1, <1>2, <1>4, <1>5, <1>6
<1>8. \A i \in 1..Len(Tail(p \o r)) : Tail(p \o r)[i] = (Tail(p) \o r)[i]
  BY <1>1, <1>2, <1>4, <1>5, <1>6
<1>9. Tail(p \o r) = Tail(p) \o r
  BY <1>5, <1>6, <1>7, <1>8, SeqEqual
<1>10. Head(p \o r) = (p \o r)[1] /\ Head(p) = p[1]
  OBVIOUS
<1> QED
  BY <1>1, <1>2, <1>3, <1>4, <1>9, <1>10

LEMMA HeadOfOne ==
  ASSUME NEW S, NEW a \in S, NEW r \in Seq(S)
  PROVE  /\ <<a>> \o r \in Seq(S) /\ <<a>> \o r # <<>> /\ Head(<<a>> \o r) = a /\ Tail(<<a>> \o r) = r
<1>1. <<a>> \in Seq(S) /\ <<a>> # <<>> /\ Head(<<a>>) = a
  OBVIOUS
<1>2. Tail(<<a>>) = <<>>
  BY <1>1, HeadTailProperties, EmptySeq
<1> QED
  BY <1>1, <1>2, HeadOfTwo, ConcatEmptySeq

\* How long the vectors are.
LEMMA VectorLengths ==
  ASSUME StackTypeOK
  PROVE  /\ InitLen \in Nat /\ InitLen > 0 /\ AuxvLen \in Nat /\ HeaderLen \in Nat /\ HeaderLen <= 8
         /\ (word = 8 \/ ~phdr) => Sixteens(AuxvLen + HeaderLen)
<1>1. word \in {4, 8} /\ Len(argv) \in Nat /\ Len(envp) \in Nat /\ os \in {"linux", "darwin", "redox"}
  BY DEF StackTypeOK
<1>2. InitLen \in Nat /\ InitLen > 0
  <2> DEFINE n == 1 + (Len(argv) + 1) + (Len(envp) + 1)
  <2>1. n \in Nat /\ n > 0
    BY <1>1
  <2>2. InitLen = word * n
    BY DEF InitLen
  <2> HIDE DEF n
  <2>3. word * n = 4 * n \/ word * n = 8 * n
    BY <1>1
  <2> QED
    BY <2>1, <2>2, <2>3
<1>3. HeaderLen \in Nat /\ HeaderLen <= 8
  BY <1>1 DEF HeaderLen
<1>4. CASE os = "linux"
  <2>1. AuxvLen = 2 * word * (IF phdr THEN 15 ELSE 12) /\ HeaderLen = 0
    BY <1>4 DEF AuxvLen, HeaderLen
  <2>2. CASE word = 8
    <3>1. AuxvLen = 240 \/ AuxvLen = 192
      BY <2>1, <2>2
    <3>2. AuxvLen + HeaderLen = 16 * 15 \/ AuxvLen + HeaderLen = 16 * 12
      BY <2>1, <3>1
    <3>3. Sixteens(AuxvLen + HeaderLen)
      BY <3>2 DEF Sixteens
    <3>4. AuxvLen \in Nat
      BY <3>1
    <3> QED
      BY <1>2, <1>3, <3>3, <3>4
  <2>3. CASE word = 4
    <3>1. AuxvLen = IF phdr THEN 120 ELSE 96
      BY <2>1, <2>3
    <3>2. ~phdr => AuxvLen + HeaderLen = 16 * 6
      BY <2>1, <3>1
    <3> QED
      BY <1>2, <1>3, <2>3, <3>1, <3>2 DEF Sixteens
  <2> QED
    BY <1>1, <2>2, <2>3
<1>5. CASE os = "darwin"
  <2>1. AuxvLen = 3 * word /\ HeaderLen = word
    BY <1>5 DEF AuxvLen, HeaderLen
  <2>2. AuxvLen \in Nat /\ (AuxvLen + HeaderLen = 16 * 1 \/ AuxvLen + HeaderLen = 16 * 2)
    BY <1>1, <2>1
  <2> QED
    BY <1>2, <1>3, <2>2 DEF Sixteens
<1>6. CASE os = "redox"
  <2>1. AuxvLen = 0 /\ HeaderLen = 0
    BY <1>6 DEF AuxvLen, HeaderLen
  <2>2. AuxvLen + HeaderLen = 16 * 0
    BY <2>1
  <2> QED
    BY <1>2, <1>3, <2>1, <2>2 DEF Sixteens
<1> QED
  BY <1>1, <1>4, <1>5, <1>6

\* What follows is made of things.
LEMMA WhatFollows ==
  ASSUME StackTypeOK
  PROVE  /\ Header \in Seq(Things) /\ FromInit \in Seq(Things) /\ FromAuxv \in Seq(Things) /\ FromAlign \in Seq(Things)
         /\ FromInit # <<>> /\ Head(FromInit) = Thing("init", InitLen) /\ Tail(FromInit) = Header
         /\ FromAlign # <<>> /\ Head(FromAlign) = Align /\ Tail(FromAlign) = FromAuxv
         /\ AuxvLen = 0 => FromAuxv = FromInit
         /\ AuxvLen # 0 => FromAuxv # <<>> /\ Head(FromAuxv) = Thing("auxv", AuxvLen) /\ Tail(FromAuxv) = FromInit
<1>1. InitLen \in Nat /\ AuxvLen \in Nat /\ word \in Nat
  BY VectorLengths DEF StackTypeOK
<1>2. /\ Thing("init", InitLen) \in Things /\ Thing("auxv", AuxvLen) \in Things
      /\ Thing("header", word) \in Things /\ Align \in Things
  BY <1>1 DEF Thing, Things, LateNames, Align
<1>3. Header \in Seq(Things)
  <2>1. <<>> \in Seq(Things) /\ <<Thing("header", word)>> \in Seq(Things)
    BY <1>2
  <2> QED
    BY <2>1 DEF Header
<1>4. FromInit \in Seq(Things) /\ FromInit # <<>> /\ Head(FromInit) = Thing("init", InitLen) /\ Tail(FromInit) = Header
  BY <1>2, <1>3, HeadOfOne DEF FromInit
<1>5. AuxvLen = 0 => FromAuxv = FromInit
  BY <1>4, ConcatEmptySeq DEF FromAuxv
<1>6. AuxvLen # 0 => /\ FromAuxv \in Seq(Things) /\ FromAuxv # <<>>
                     /\ Head(FromAuxv) = Thing("auxv", AuxvLen) /\ Tail(FromAuxv) = FromInit
  BY <1>2, <1>4, HeadOfOne DEF FromAuxv
<1>7. FromAuxv \in Seq(Things)
  BY <1>4, <1>5, <1>6
<1>8. FromAlign \in Seq(Things) /\ FromAlign # <<>> /\ Head(FromAlign) = Align /\ Tail(FromAlign) = FromAuxv
  BY <1>2, <1>7, HeadOfOne DEF FromAlign
<1> QED
  BY <1>3, <1>4, <1>5, <1>6, <1>7, <1>8

\* A push lands below everything, or ends it all.
LEMMA PushLands ==
  ASSUME StackTypeOK, Descends, Push, Head(todo) \in Things
  PROVE  /\ StackTypeOK' /\ Descends' /\ sp' = sp - Head(todo).len
         /\ UNCHANGED <<os, word, argv, envp, phdr>>
         /\ \/ todo' = <<>> /\ pushed' = pushed
            \/ /\ todo' = Tail(todo) /\ sp' \in Nat
               /\ \A i \in DOMAIN pushed : i \in DOMAIN pushed' /\ pushed'[i] = pushed[i]
               /\ \E j \in DOMAIN pushed' :
                    /\ pushed'[j] = [what |-> Head(todo).what, addr |-> sp', len |-> Head(todo).len]
                    /\ DOMAIN pushed' = DOMAIN pushed \cup {j}
<1> DEFINE n == Len(pushed)
           new == [what |-> Head(todo).what, addr |-> sp', len |-> Head(todo).len]
<1>1. sp' = sp - Head(todo).len /\ UNCHANGED <<os, word, argv, envp, phdr>>
  BY DEF Push
<1>2. sp \in Int /\ Head(todo).len \in Nat /\ sp' \in Int /\ pushed \in Seq(PushedThings) /\ sp' <= sp
  BY <1>1 DEF StackTypeOK, Things
<1>3. n \in Nat /\ DOMAIN pushed = 1..n /\ new \in PushedThings
  <2>1. n \in Nat /\ DOMAIN pushed = 1..n
    BY <1>2
  <2>2. Head(todo).what \in EarlyNames \cup LateNames
    BY DEF Things
  <2>3. new \in PushedThings
    BY <1>2, <2>2 DEF PushedThings
  <2> QED
    BY <2>1, <2>3
<1>4. \A i \in DOMAIN pushed : pushed[i] \in PushedThings /\ pushed[i].addr \in Int /\ pushed[i].len \in Nat
  <2>1. \A x \in PushedThings : x.addr \in Int /\ x.len \in Nat
    BY DEF PushedThings
  <2>2. \A i \in 1..n : pushed[i] \in PushedThings
    BY <1>2
  <2> QED
    BY <1>3, <2>1, <2>2
<1>5. CASE todo' = <<>> /\ pushed' = pushed
  <2>1. \A i \in DOMAIN pushed : sp' <= pushed[i].addr
    BY <1>2, <1>4 DEF Descends
  <2> QED
    BY <1>1, <1>2, <1>5, <2>1 DEF StackTypeOK, Descends
<1>6. CASE todo' = Tail(todo) /\ pushed' = Append(pushed, new) /\ ~(sp' < StackTop - StackSize)
  <2> HIDE DEF new
  <2>1. /\ pushed' \in Seq(PushedThings) /\ DOMAIN pushed' = 1..(n + 1) /\ pushed'[n + 1] = new
        /\ \A i \in 1..n : pushed'[i] = pushed[i]
    BY <1>2, <1>3, <1>6
  <2>2. sp' \in Nat
    BY <1>2, <1>6, StackAssumption
  <2>3. new.addr = sp' /\ new.len = Head(todo).len
    BY DEF new
  <2>4. \A i \in DOMAIN pushed : new.addr + new.len <= pushed'[i].addr /\ sp' <= pushed'[i].addr
    BY <1>1, <1>2, <1>3, <1>4, <2>1, <2>3 DEF Descends
  <2>5. Descends'
    <3>1. ASSUME NEW i \in 1..(n + 1), NEW j \in 1..(n + 1), i < j
          PROVE  pushed'[j].addr + pushed'[j].len <= pushed'[i].addr
      <4>1. i \in 1..n
        BY <1>3, <3>1
      <4>2. CASE j \in 1..n
        BY <1>3, <2>1, <3>1, <4>1, <4>2 DEF Descends
      <4>3. CASE j = n + 1
        BY <1>3, <2>1, <2>4, <4>1, <4>3
      <4> QED
        BY <1>3, <4>2, <4>3
    <3>2. \A i \in 1..(n + 1) : sp' <= pushed'[i].addr
      <4>1. sp' <= pushed'[n + 1].addr
        BY <1>2, <2>1, <2>3
      <4>2. \A i \in 1..(n + 1) : i \in 1..n \/ i = n + 1
        BY <1>3
      <4> QED
        BY <1>3, <2>4, <4>1, <4>2
    <3> QED
      BY <2>1, <3>1, <3>2 DEF Descends
  <2>6. StackTypeOK'
    BY <1>1, <1>2, <2>1 DEF StackTypeOK
  <2>7. n + 1 \in DOMAIN pushed' /\ DOMAIN pushed' = DOMAIN pushed \cup {n + 1}
    BY <1>3, <2>1
  <2>8. \A i \in DOMAIN pushed : i \in DOMAIN pushed' /\ pushed'[i] = pushed[i]
    BY <1>3, <2>1
  <2> QED
    BY <1>1, <1>6, <2>1, <2>2, <2>5, <2>6, <2>7, <2>8 DEF new
<1> QED
  BY <1>5, <1>6 DEF Push

\* A string, or what it is a string of.
LEMMA StringsAreEarly ==
  ASSUME NEW w \in EarlyNames, NEW lengths \in Seq(Nat)
  PROVE  StringThings(w, lengths) \in Seq(Early)
<1>1. \A i \in DOMAIN lengths : Thing(w, lengths[i]) \in Early
  BY DEF Thing, Early
<1>2. DOMAIN lengths = 1..Len(lengths) /\ Len(lengths) \in Nat
  OBVIOUS
<1>3. StringThings(w, lengths) \in [1..Len(lengths) -> Early]
  BY <1>1, <1>2 DEF StringThings
<1> QED
  BY <1>2, <1>3

\* Six in a row; concatenation under a name of its own, for the provers.
Then(s, t) == s \o t
LEMMA ThenAssociates ==
  ASSUME NEW S
  PROVE  \A s, t, u \in Seq(S) : Then(Then(s, t), u) = Then(s, Then(t, u))
BY ConcatAssociative DEF Then

LEMMA Regrouped ==
  ASSUME NEW S, NEW f \in Seq(S), NEW p \in Seq(S), NEW a \in Seq(S), NEW x \in Seq(S), NEW i \in Seq(S), NEW h \in Seq(S)
  PROVE  Then(Then(f, Then(Then(Then(p, a), x), i)), h) = Then(Then(f, p), Then(a, Then(x, Then(i, h))))
<1>1. \A s, t \in Seq(S) : Then(s, t) \in Seq(S)
  BY ConcatProperties DEF Then
<1>2. \A s, t, u \in Seq(S) : Then(Then(s, t), u) = Then(s, Then(t, u))
  BY ThenAssociates
<1>3. /\ Then(i, h) \in Seq(S) /\ Then(x, Then(i, h)) \in Seq(S) /\ Then(a, Then(x, Then(i, h))) \in Seq(S)
      /\ Then(p, a) \in Seq(S) /\ Then(Then(p, a), x) \in Seq(S) /\ Then(Then(Then(p, a), x), i) \in Seq(S)
  BY <1>1
<1>4. Then(Then(f, Then(Then(Then(p, a), x), i)), h) = Then(f, Then(Then(Then(Then(p, a), x), i), h))
  BY <1>2, <1>3
<1>5. Then(Then(Then(Then(p, a), x), i), h) = Then(Then(Then(p, a), x), Then(i, h))
  BY <1>2, <1>3
<1>6. Then(Then(Then(p, a), x), Then(i, h)) = Then(Then(p, a), Then(x, Then(i, h)))
  BY <1>2, <1>3
<1>7. Then(Then(p, a), Then(x, Then(i, h))) = Then(p, Then(a, Then(x, Then(i, h))))
  BY <1>2, <1>3
<1>8. Then(f, Then(p, Then(a, Then(x, Then(i, h))))) = Then(Then(f, p), Then(a, Then(x, Then(i, h))))
  BY <1>2, <1>3
<1> QED
  BY <1>4, <1>5, <1>6, <1>7, <1>8

\* The whole of what is pushed.
LEMMA StackStarts ==
  ASSUME StackInit
  PROVE  StackTypeOK /\ Descends /\ BeforeAlign
<1>1. PICK name \in Lengths : todo = First(name) \o Program \o Header
  BY DEF StackInit
<1>2. name \in Nat
  BY <1>1, StackAssumption
<1>3. \A s : s \in UNION {[1..n -> Lengths] : n \in 0..MaxStrings} => s \in Seq(Nat)
  <2> SUFFICES ASSUME NEW n \in 0..MaxStrings, NEW s \in [1..n -> Lengths]
               PROVE  s \in Seq(Nat)
    OBVIOUS
  <2>1. n \in Nat
    BY StackAssumption
  <2>2. s \in [1..n -> Nat]
    BY StackAssumption
  <2> QED
    BY <2>1, <2>2
<1>4. argv \in Seq(Nat) /\ envp \in Seq(Nat)
  BY <1>3 DEF StackInit
<1>5. pushed = <<>> /\ sp = StackTop /\ sp \in Nat
  BY StackAssumption DEF StackInit
<1>6. StackTypeOK
  <2>1. word \in {4, 8}
    BY StackAssumption DEF StackInit
  <2>2. <<>> \in Seq(PushedThings)
    OBVIOUS
  <2> QED
    BY <1>4, <1>5, <2>1, <2>2 DEF StackInit, StackTypeOK
<1>7. DOMAIN pushed = {}
  BY <1>5
<1>8. Descends /\ NamedFrom(EarlyNames)
  BY <1>7 DEF Descends, NamedFrom
<1> DEFINE zero == <<Thing("zero", word)>>
           named == IF argv = <<>> THEN <<>> ELSE <<Thing("name", argv[1])>>
           env == StringThings("env", envp)
           arg == StringThings("arg", argv)
           aux == IF AuxvLen = 0 THEN <<>> ELSE <<Thing("auxv", AuxvLen)>>
           init == <<Thing("init", InitLen)>>
           align == <<Align>>
           pre == zero \o named \o env \o arg
<1>9. First(name) \in Seq(Early)
  <2>1. /\ Thing("random", Random) \in Early /\ Thing("platform", name) \in Early
        /\ Thing("exe", name) \in Early /\ Thing("guard", name) \in Early
    BY <1>2 DEF Thing, Early, EarlyNames, Random
  <2>2. /\ <<Thing("random", Random), Thing("platform", name)>> \in Seq(Early)
        /\ <<Thing("exe", name), Thing("guard", name)>> \in Seq(Early) /\ <<>> \in Seq(Early)
    BY <2>1
  <2> QED
    BY <1>6, <2>2 DEF First, StackTypeOK
<1>10. zero \in Seq(Early) /\ named \in Seq(Early) /\ env \in Seq(Early) /\ arg \in Seq(Early)
  <2>1. Thing("zero", word) \in Early
    BY <1>6 DEF Thing, Early, EarlyNames, StackTypeOK
  <2>2. argv # <<>> => Thing("name", argv[1]) \in Early
    <3>1. argv # <<>> => argv[1] \in Nat
      BY <1>4
    <3> QED
      BY <3>1 DEF Thing, Early, EarlyNames
  <2>3. "env" \in EarlyNames /\ "arg" \in EarlyNames
    BY DEF EarlyNames
  <2>4. zero \in Seq(Early) /\ named \in Seq(Early)
    BY <2>1, <2>2
  <2> QED
    BY <1>4, <2>3, <2>4, StringsAreEarly
<1>11. Early \subseteq Things
  BY DEF Early, Things
<1>12. aux \in Seq(Things) /\ init \in Seq(Things) /\ align \in Seq(Things) /\ Header \in Seq(Things)
  <2>1. /\ Thing("init", InitLen) \in Things /\ Thing("auxv", AuxvLen) \in Things /\ Align \in Things
    BY <1>6, VectorLengths DEF Thing, Things, LateNames, Align
  <2> QED
    BY <1>6, <2>1, WhatFollows
<1>13. Program = pre \o align \o aux \o init
  BY DEF Program
<1>14. FromAlign = align \o (aux \o (init \o Header))
  BY DEF FromAlign, FromAuxv, FromInit
<1> HIDE DEF zero, named, env, arg, aux, init, align
<1>15. pre \in Seq(Early)
  BY <1>10, ConcatProperties
<1> HIDE DEF pre
<1> DEFINE lead == First(name)
<1>16. lead \in Seq(Early)
  BY <1>9
<1>17. lead \in Seq(Things) /\ pre \in Seq(Things)
  BY <1>11, <1>15, <1>16
<1> HIDE DEF lead
<1>20. Then(Then(lead, Then(Then(Then(pre, align), aux), init)), Header)
       = Then(Then(lead, pre), Then(align, Then(aux, Then(init, Header))))
  BY <1>12, <1>17, Regrouped
<1>21. todo = (lead \o pre) \o FromAlign
  <2>1. todo = Then(Then(lead, Then(Then(Then(pre, align), aux), init)), Header)
    BY <1>1, <1>13, Zenon DEF lead, Then
  <2>2. (lead \o pre) \o FromAlign = Then(Then(lead, pre), Then(align, Then(aux, Then(init, Header))))
    BY <1>14, Zenon DEF Then
  <2> QED
    BY <1>20, <2>1, <2>2, Zenon
<1>22. lead \o pre \in Seq(Early)
  BY <1>15, <1>16, ConcatProperties
<1> QED
  BY <1>5, <1>6, <1>8, <1>21, <1>22 DEF BeforeAlign

\* A push of one of the early things.
LEMMA EarlyPush ==
  ASSUME StackTypeOK, Descends, BeforeAlign, Push
  PROVE  StackInv'
<1>1. PICK pre \in Seq(Early) : todo = pre \o FromAlign
  BY DEF BeforeAlign
<1>2. FromAlign \in Seq(Things) /\ FromAlign # <<>> /\ Head(FromAlign) = Align
  BY WhatFollows
<1>3. Early \subseteq Things
  BY DEF Early, Things
<1>4. pre # <<>>
  <2>1. CASE pre = <<>>
    <3>1. todo = FromAlign
      BY <1>1, <1>2, <2>1, ConcatEmptySeq
    <3> QED
      BY <1>2, <3>1 DEF Push
  <2> QED
    BY <2>1
<1>5. pre \in Seq(Things)
  BY <1>1, <1>3
<1>6. Head(todo) = Head(pre) /\ Tail(todo) = Tail(pre) \o FromAlign /\ Head(pre) \in Early /\ Tail(pre) \in Seq(Early)
  <2>1. Head(todo) = Head(pre) /\ Tail(todo) = Tail(pre) \o FromAlign
    BY <1>1, <1>2, <1>4, <1>5, HeadOfTwo
  <2>2. Head(pre) \in Early /\ Tail(pre) \in Seq(Early)
    BY <1>1, <1>4, HeadTailProperties
  <2> QED
    BY <2>1, <2>2
<1>7. /\ StackTypeOK' /\ Descends' /\ sp' = sp - Head(todo).len
      /\ UNCHANGED <<os, word, argv, envp, phdr>>
      /\ \/ todo' = <<>> /\ pushed' = pushed
         \/ /\ todo' = Tail(todo) /\ sp' \in Nat
            /\ \A i \in DOMAIN pushed : i \in DOMAIN pushed' /\ pushed'[i] = pushed[i]
            /\ \E j \in DOMAIN pushed' :
                 /\ pushed'[j] = [what |-> Head(todo).what, addr |-> sp', len |-> Head(todo).len]
                 /\ DOMAIN pushed' = DOMAIN pushed \cup {j}
  BY <1>3, <1>6, PushLands
<1>8. CASE todo' = <<>> /\ pushed' = pushed
  BY <1>7, <1>8 DEF StackInv, OutOfStack, BeforeAlign, NamedFrom
<1>9. CASE /\ todo' = Tail(todo) /\ sp' \in Nat
           /\ \A i \in DOMAIN pushed : i \in DOMAIN pushed' /\ pushed'[i] = pushed[i]
           /\ \E j \in DOMAIN pushed' :
                /\ pushed'[j] = [what |-> Head(todo).what, addr |-> sp', len |-> Head(todo).len]
                /\ DOMAIN pushed' = DOMAIN pushed \cup {j}
  <2>1. Head(todo).what \in EarlyNames
    BY <1>6 DEF Early
  <2>2. NamedFrom(EarlyNames)'
    <3>1. PICK j \in DOMAIN pushed' :
            /\ pushed'[j] = [what |-> Head(todo).what, addr |-> sp', len |-> Head(todo).len]
            /\ DOMAIN pushed' = DOMAIN pushed \cup {j}
      BY <1>9
    <3>2. pushed'[j].what \in EarlyNames
      BY <2>1, <3>1
    <3>3. \A i \in DOMAIN pushed : pushed'[i].what \in EarlyNames
      BY <1>9 DEF BeforeAlign, NamedFrom
    <3> QED
      BY <3>1, <3>2, <3>3 DEF NamedFrom
  <2>3. FromAlign' = FromAlign
    BY <1>7 DEF FromAlign, FromAuxv, FromInit, Header, AuxvLen, InitLen
  <2>4. todo' = Tail(pre) \o FromAlign'
    BY <1>6, <1>9, <2>3
  <2>5. BeforeAlign'
    BY <1>6, <1>9, <2>2, <2>4 DEF BeforeAlign
  <2> QED
    BY <1>7, <2>5 DEF StackInv
<1> QED
  BY <1>7, <1>8, <1>9

\* The stack pointer is aligned so that what starts with the counts ends on 16.
LEMMA AlignFits ==
  ASSUME StackTypeOK, sp \in Nat
  PROVE  AlignSp(sp) \in Int /\ AlignSp(sp) <= sp /\ Sixteens(AlignSp(sp) - InitLen)
<1> DEFINE off == InitLen % 16
           d == InitLen \div 16
           q == sp \div 16
<1>1. InitLen \in Nat
  BY VectorLengths
<1>2. off \in 0..15 /\ d \in Nat /\ InitLen = 16 * d + off /\ q \in Nat /\ 16 * q <= sp
  BY <1>1
<1>3. AlignSp(sp) = q * 16 - (IF off > 0 THEN 16 - off ELSE 0)
  BY DEF AlignSp
<1> HIDE DEF off, d, q
<1>4. CASE off > 0
  <2>1. AlignSp(sp) = 16 * q - (16 - off)
    BY <1>2, <1>3, <1>4
  <2>2. AlignSp(sp) - InitLen = 16 * (q - 1 - d) /\ q - 1 - d \in Int
    BY <1>1, <1>2, <2>1
  <2>3. AlignSp(sp) \in Int /\ AlignSp(sp) <= sp
    BY <1>2, <2>1
  <2>4. Sixteens(AlignSp(sp) - InitLen)
    BY <2>2 DEF Sixteens
  <2> QED
    BY <2>3, <2>4
<1>5. CASE ~(off > 0)
  <2>1. AlignSp(sp) = 16 * q /\ off = 0
    BY <1>2, <1>3, <1>5
  <2>2. AlignSp(sp) - InitLen = 16 * (q - d) /\ q - d \in Int
    BY <1>1, <1>2, <2>1
  <2>3. AlignSp(sp) \in Int /\ AlignSp(sp) <= sp
    BY <1>2, <2>1
  <2>4. Sixteens(AlignSp(sp) - InitLen)
    BY <2>2 DEF Sixteens
  <2> QED
    BY <2>3, <2>4
<1> QED
  BY <1>4, <1>5

LEMMA StackAligns ==
  ASSUME StackInv, AlignStack
  PROVE  StackInv'
<1>1. StackTypeOK /\ Descends /\ todo # <<>> /\ Head(todo) = Align
      /\ sp' = AlignSp(sp) /\ todo' = Tail(todo) /\ UNCHANGED <<os, word, argv, envp, phdr, pushed>>
  BY DEF StackInv, AlignStack
<1>2. Align.what = "align"
  BY DEF Align, Thing
<1>3. BeforeAlign
  <2>1. ~BeforeAuxv
    BY <1>1, <1>2, WhatFollows DEF BeforeAuxv, Thing
  <2>2. ~BeforeInit
    BY <1>1, <1>2, WhatFollows DEF BeforeInit, Thing
  <2>3. ~BeforeHeader
    BY <1>1, <1>2 DEF BeforeHeader, Header, Thing
  <2> QED
    BY <1>1, <2>1, <2>2, <2>3 DEF StackInv, Ended, OutOfStack
<1>4. PICK pre \in Seq(Early) : todo = pre \o FromAlign
  BY <1>3 DEF BeforeAlign
<1>5. FromAlign \in Seq(Things) /\ Tail(FromAlign) = FromAuxv
  BY <1>1, WhatFollows
<1>6. pre = <<>>
  <2>1. pre \in Seq(Things)
    <3>1. Early \subseteq Things
      BY DEF Early, Things
    <3> QED
      BY <3>1
  <2>2. pre # <<>> => Head(todo) = Head(pre)
    BY <1>4, <1>5, <2>1, HeadOfTwo
  <2>3. pre # <<>> => Head(pre) \in Early
    BY HeadTailProperties
  <2>4. Align \notin Early
    BY <1>2 DEF Early, EarlyNames
  <2> QED
    BY <1>1, <2>2, <2>3, <2>4
<1>7. todo' = FromAuxv
  BY <1>1, <1>4, <1>5, <1>6, ConcatEmptySeq
<1>8. sp \in Nat /\ AlignSp(sp) \in Int /\ AlignSp(sp) <= sp /\ Sixteens(AlignSp(sp) - InitLen)
  BY <1>1, <1>3, AlignFits DEF BeforeAlign
<1>9. StackTypeOK'
  BY <1>1, <1>8 DEF StackTypeOK
<1>10. Descends'
  <2>1. \A i \in DOMAIN pushed : pushed[i].addr \in Int
    <3>1. \A x \in PushedThings : x.addr \in Int
      BY DEF PushedThings
    <3>2. \A i \in DOMAIN pushed : pushed[i] \in PushedThings
      BY <1>1 DEF StackTypeOK
    <3> QED
      BY <3>1, <3>2
  <2>2. \A i \in DOMAIN pushed : sp' <= pushed[i].addr
    BY <1>1, <1>8, <2>1 DEF Descends
  <2> QED
    BY <1>1, <2>2 DEF Descends
<1>11. FromAuxv' = FromAuxv /\ FromInit' = FromInit /\ AuxvLen' = AuxvLen /\ InitLen' = InitLen
  BY <1>1 DEF FromAuxv, FromInit, Header, AuxvLen, InitLen
<1>12. AuxvLen \in Nat /\ (AuxvLen = 0 => FromAuxv = FromInit)
  BY <1>1, VectorLengths, WhatFollows
<1>13. CASE AuxvLen > 0
  <2>1. NamedFrom(EarlyNames)'
    BY <1>1, <1>3 DEF BeforeAlign, NamedFrom
  <2>2. Sixteens(sp - InitLen)'
    BY <1>1, <1>8, <1>11 DEF Sixteens
  <2>3. BeforeAuxv'
    BY <1>7, <1>11, <1>13, <2>1, <2>2 DEF BeforeAuxv
  <2> QED
    BY <1>9, <1>10, <2>3 DEF StackInv
<1>14. CASE AuxvLen = 0
  <2>1. NamedFrom(EarlyNames \cup {"auxv"})'
    BY <1>1, <1>3 DEF BeforeAlign, NamedFrom
  <2>2. (sp' + AuxvLen) - InitLen = AlignSp(sp) - InitLen
    BY <1>1, <1>8, <1>14
  <2>3. Sixteens((sp + AuxvLen) - InitLen)'
    BY <1>8, <1>11, <2>2 DEF Sixteens
  <2>4. AuxvAt(sp)'
    BY <1>11, <1>14 DEF AuxvAt
  <2>5. BeforeInit'
    BY <1>7, <1>11, <1>12, <1>14, <2>1, <2>3, <2>4 DEF BeforeInit
  <2> QED
    BY <1>9, <1>10, <2>5 DEF StackInv
<1> QED
  BY <1>12, <1>13, <1>14

LEMMA StackPushes ==
  ASSUME StackInv, Push
  PROVE  StackInv'
<1>1. StackTypeOK /\ Descends /\ todo # <<>>
  BY DEF StackInv, Push
<1>2. InitLen \in Nat /\ InitLen > 0 /\ AuxvLen \in Nat
  BY <1>1, VectorLengths
<1>3. CASE BeforeAlign
  BY <1>1, <1>3, EarlyPush
<1>4. UNCHANGED <<os, word, argv, envp, phdr>>
  BY DEF Push
<1>5. /\ FromInit' = FromInit /\ Header' = Header /\ AuxvLen' = AuxvLen /\ InitLen' = InitLen /\ HeaderLen' = HeaderLen
  BY <1>4 DEF FromInit, Header, AuxvLen, InitLen, HeaderLen
<1>6. CASE BeforeAuxv
  <2>1. Head(todo) = Thing("auxv", AuxvLen) /\ Tail(todo) = FromInit
    BY <1>1, <1>6, WhatFollows DEF BeforeAuxv
  <2>2. Head(todo).what = "auxv" /\ Head(todo).len = AuxvLen /\ Head(todo) \in Things
    BY <1>2, <2>1 DEF Thing, Things, LateNames
  <2>3. StackTypeOK' /\ Descends' /\ sp' = sp - AuxvLen
    BY <1>1, <2>2, PushLands
  <2>4. CASE todo' = <<>> /\ pushed' = pushed
    <3>1. OutOfStack'
      BY <1>6, <2>4 DEF OutOfStack, BeforeAuxv, NamedFrom
    <3> QED
      BY <2>3, <3>1 DEF StackInv
  <2>5. ASSUME todo' = FromInit, NEW j \in DOMAIN pushed',
               \A i \in DOMAIN pushed : i \in DOMAIN pushed' /\ pushed'[i] = pushed[i],
               pushed'[j] = [what |-> "auxv", addr |-> sp', len |-> AuxvLen],
               DOMAIN pushed' = DOMAIN pushed \cup {j}
        PROVE  StackInv'
    <3>1. NamedFrom(EarlyNames \cup {"auxv"})'
      <4>1. pushed'[j].what = "auxv"
        BY <2>5
      <4>2. \A i \in DOMAIN pushed : pushed'[i].what \in EarlyNames
        BY <1>6, <2>5 DEF BeforeAuxv, NamedFrom
      <4> QED
        BY <2>5, <4>1, <4>2 DEF NamedFrom
    <3>2. pushed'[j].what = "auxv" /\ pushed'[j].addr = sp' /\ pushed'[j].len = AuxvLen'
      BY <1>5, <2>5
    <3>3. AuxvAt(sp)'
      BY <3>2 DEF AuxvAt
    <3>4. (sp' + AuxvLen') - InitLen' = sp - InitLen
      BY <1>1, <1>2, <1>5, <2>3 DEF StackTypeOK
    <3>5. Sixteens((sp + AuxvLen) - InitLen)'
      BY <1>6, <3>4 DEF BeforeAuxv, Sixteens
    <3>6. BeforeInit'
      BY <1>5, <2>5, <3>1, <3>3, <3>5 DEF BeforeInit
    <3> QED
      BY <2>3, <3>6 DEF StackInv
  <2> QED
    BY <1>1, <2>1, <2>2, <2>4, <2>5, PushLands
<1>7. CASE BeforeInit
  <2>1. Head(todo) = Thing("init", InitLen) /\ Tail(todo) = Header
    BY <1>1, <1>7, WhatFollows DEF BeforeInit
  <2>2. Head(todo).what = "init" /\ Head(todo).len = InitLen /\ Head(todo) \in Things
    BY <1>2, <2>1 DEF Thing, Things, LateNames
  <2>3. StackTypeOK' /\ Descends' /\ sp' = sp - InitLen
    BY <1>1, <2>2, PushLands
  <2>4. CASE todo' = <<>> /\ pushed' = pushed
    <3>1. OutOfStack'
      BY <1>7, <2>4 DEF OutOfStack, BeforeInit, NamedFrom
    <3> QED
      BY <2>3, <3>1 DEF StackInv
  <2>5. ASSUME todo' = Header, NEW j \in DOMAIN pushed',
               \A i \in DOMAIN pushed : i \in DOMAIN pushed' /\ pushed'[i] = pushed[i],
               pushed'[j] = [what |-> "init", addr |-> sp', len |-> InitLen],
               DOMAIN pushed' = DOMAIN pushed \cup {j}
        PROVE  StackInv'
    <3>1. sp \in Int /\ sp' \in Int /\ sp' + InitLen = sp
      BY <1>1, <1>2, <2>3 DEF StackTypeOK
    <3>2. AuxvLen > 0 => \E k \in DOMAIN pushed' :
            pushed'[k].what = "auxv" /\ pushed'[k].addr = sp /\ pushed'[k].len = AuxvLen
      <4> SUFFICES ASSUME AuxvLen > 0
                   PROVE  \E k \in DOMAIN pushed' :
                            pushed'[k].what = "auxv" /\ pushed'[k].addr = sp /\ pushed'[k].len = AuxvLen
        OBVIOUS
      <4>1. PICK k \in DOMAIN pushed : pushed[k].what = "auxv" /\ pushed[k].addr = sp /\ pushed[k].len = AuxvLen
        BY <1>7 DEF BeforeInit, AuxvAt
      <4> QED
        BY <2>5, <4>1
    <3>3. InitAt(sp)'
      <4>1. AuxvAt(sp + InitLen)'
        BY <1>5, <3>1, <3>2 DEF AuxvAt
      <4>2. pushed'[j].what = "init" /\ pushed'[j].addr = sp'
        BY <2>5
      <4> QED
        BY <4>1, <4>2 DEF InitAt
    <3>4. sp' + AuxvLen' = (sp + AuxvLen) - InitLen
      BY <1>2, <1>5, <2>3, <3>1
    <3>5. Sixteens(sp + AuxvLen)'
      BY <1>7, <3>4 DEF BeforeInit, Sixteens
    <3>6. CASE os = "darwin"
      BY <1>4, <1>5, <2>3, <2>5, <3>3, <3>5, <3>6 DEF StackInv, BeforeHeader
    <3>7. CASE os # "darwin"
      <4>1. Header = <<>> /\ HeaderLen = 0
        BY <3>7 DEF Header, HeaderLen
      <4>2. sp' + AuxvLen' + HeaderLen' = sp' + AuxvLen' /\ sp' + HeaderLen' = sp'
        <5>1. AuxvLen' \in Nat /\ HeaderLen' = 0 /\ sp' \in Int
          BY <1>2, <1>5, <3>1, <4>1
        <5> DEFINE a == AuxvLen'
                   h == HeaderLen'
                   x == sp'
        <5>2. a \in Nat /\ h = 0 /\ x \in Int
          BY <5>1
        <5> HIDE DEF a, h, x
        <5>3. x + a + h = x + a /\ x + h = x
          BY <5>2
        <5> QED
          BY <5>3 DEF a, h, x
      <4>3. Sixteens(sp + AuxvLen + HeaderLen)' /\ InitAt(sp + HeaderLen)'
        BY <3>3, <3>5, <4>2 DEF Sixteens, InitAt, AuxvAt
      <4>4. Ended'
        BY <2>5, <4>1, <4>3 DEF Ended
      <4> QED
        BY <2>3, <4>4 DEF StackInv
    <3> QED
      BY <3>6, <3>7
  <2> QED
    BY <1>1, <2>1, <2>2, <2>4, <2>5, PushLands
<1>8. CASE BeforeHeader
  <2>1. Header = <<Thing("header", word)>> /\ word \in Nat /\ HeaderLen = word
    BY <1>1, <1>8 DEF Header, BeforeHeader, HeaderLen, StackTypeOK
  <2>2. Thing("header", word) \in Things /\ Thing("header", word).len = word
    BY <2>1 DEF Things, LateNames, Thing
  <2>3. Head(todo) = Thing("header", word) /\ Tail(todo) = <<>>
    <3>1. todo \in Seq(Things) /\ Len(todo) = 1 /\ Head(todo) = Thing("header", word)
      BY <1>8, <2>1, <2>2 DEF BeforeHeader
    <3>2. Tail(todo) \in Seq(Things) /\ Len(Tail(todo)) = 0
      BY <1>1, <3>1, HeadTailProperties
    <3> QED
      BY <3>1, <3>2, EmptySeq
  <2>4. /\ StackTypeOK' /\ Descends' /\ sp' = sp - word /\ todo' = <<>>
        /\ \A i \in DOMAIN pushed : i \in DOMAIN pushed' /\ pushed'[i] = pushed[i]
    BY <1>1, <2>2, <2>3, PushLands
  <2>5. sp \in Int /\ sp' \in Int /\ sp' + HeaderLen' = sp /\ sp' + AuxvLen' + HeaderLen' = sp + AuxvLen
    BY <1>1, <1>2, <1>5, <2>1, <2>4 DEF StackTypeOK
  <2>6. Sixteens(sp + AuxvLen + HeaderLen)'
    BY <1>8, <2>5 DEF BeforeHeader, Sixteens
  <2>7. InitAt(sp + HeaderLen)'
    <3>1. AuxvAt(sp + InitLen) /\ \E i \in DOMAIN pushed : pushed[i].what = "init" /\ pushed[i].addr = sp
      BY <1>8 DEF BeforeHeader, InitAt
    <3>2. \E i \in DOMAIN pushed' : pushed'[i].what = "init" /\ pushed'[i].addr = sp' + HeaderLen'
      BY <2>4, <2>5, <3>1
    <3>3. AuxvLen' > 0 => \E k \in DOMAIN pushed' :
            pushed'[k].what = "auxv" /\ pushed'[k].addr = sp' + HeaderLen' + InitLen' /\ pushed'[k].len = AuxvLen'
      BY <1>5, <2>4, <2>5, <3>1 DEF AuxvAt
    <3> QED
      BY <3>2, <3>3 DEF InitAt, AuxvAt
  <2> QED
    BY <2>4, <2>6, <2>7 DEF StackInv, Ended
<1> QED
  BY <1>1, <1>3, <1>6, <1>7, <1>8 DEF StackInv, Ended, OutOfStack

\* The invariant of the start.
THEOREM StackInvariant == StackSpec => []StackInv
<1>1. StackInit => StackInv
  BY StackStarts DEF StackInv
<1>2. StackInv /\ [StackNext]_stackVars => StackInv'
  <2> SUFFICES ASSUME StackInv, [StackNext]_stackVars
               PROVE  StackInv'
    OBVIOUS
  <2>1. CASE UNCHANGED stackVars
    <3>1. UNCHANGED <<os, word, argv, envp, phdr, todo, sp, pushed>>
      BY <2>1 DEF stackVars
    <3>2. /\ FromInit' = FromInit /\ Header' = Header /\ AuxvLen' = AuxvLen /\ InitLen' = InitLen
          /\ HeaderLen' = HeaderLen /\ FromAuxv' = FromAuxv /\ FromAlign' = FromAlign
      BY <3>1 DEF FromInit, FromAuxv, FromAlign, Header, AuxvLen, InitLen, HeaderLen
    <3>3. StackTypeOK' /\ Descends'
      BY <3>1 DEF StackInv, StackTypeOK, Descends
    <3>4. BeforeAlign' = BeforeAlign /\ BeforeAuxv' = BeforeAuxv /\ OutOfStack' = OutOfStack
      BY <3>1, <3>2 DEF BeforeAlign, BeforeAuxv, OutOfStack, NamedFrom, Sixteens
    <3>5. BeforeInit' = BeforeInit /\ BeforeHeader' = BeforeHeader /\ Ended' = Ended
      BY <3>1, <3>2 DEF BeforeInit, BeforeHeader, Ended, NamedFrom, Sixteens, InitAt, AuxvAt
    <3> QED
      BY <3>3, <3>4, <3>5 DEF StackInv
  <2> QED
    BY <2>1, StackPushes, StackAligns DEF StackNext
<1> QED
  BY <1>1, <1>2, PTL DEF StackSpec

\* The program finds its counts at the stack pointer, its auxv behind them, the stack
\* pointer aligned and nothing pushed over anything (posix/kernel.go:58-111).
THEOREM ProgramStartsAligned == StackSpec => []StartsAligned
<1>1. StackInv => StartsAligned
  <2> SUFFICES ASSUME StackInv, Finished
               PROVE  /\ \E i \in DOMAIN pushed :
                           /\ pushed[i].what = "init" /\ pushed[i].addr = sp + HeaderLen
                           /\ AuxvLen > 0 => \E k \in DOMAIN pushed :
                                pushed[k].what = "auxv" /\ pushed[k].addr = pushed[i].addr + InitLen /\ pushed[k].len = AuxvLen
                      /\ \A i, j \in DOMAIN pushed : i < j => pushed[j].addr + pushed[j].len <= pushed[i].addr
                      /\ (word = 8 \/ ~phdr) => sp % 16 = 0
    BY DEF StartsAligned, HeaderLen
  <2>1. StackTypeOK /\ Descends /\ todo = <<>> /\ pushed # <<>> /\ Last(pushed).what \in {"init", "header"}
    BY DEF StackInv, Finished
  <2>2. Ended
    <3>1. FromAlign # <<>> /\ FromInit # <<>> /\ (AuxvLen > 0 => FromAuxv # <<>>)
      BY <2>1, WhatFollows, VectorLengths
    <3>2. ~BeforeAuxv /\ ~BeforeInit
      BY <2>1, <3>1 DEF BeforeAuxv, BeforeInit
    <3>3. ~BeforeHeader
      <4>1. <<Thing("header", word)>> # <<>>
        OBVIOUS
      <4> QED
        BY <2>1, <4>1 DEF BeforeHeader, Header
    <3>4. ~BeforeAlign
      <4> SUFFICES ASSUME NEW pre \in Seq(Early), todo = pre \o FromAlign
                   PROVE  FALSE
        BY DEF BeforeAlign
      <4>1. pre \in Seq(Things) /\ FromAlign \in Seq(Things)
        <5>1. Early \subseteq Things
          BY DEF Early, Things
        <5> QED
          BY <2>1, <5>1, WhatFollows
      <4>2. CASE pre = <<>>
        BY <2>1, <3>1, <4>1, <4>2, ConcatEmptySeq
      <4>3. CASE pre # <<>>
        BY <2>1, <4>1, <4>3, HeadOfTwo
      <4> QED
        BY <4>2, <4>3
    <3>5. ~OutOfStack
      <4>1. Len(pushed) \in DOMAIN pushed /\ Last(pushed) = pushed[Len(pushed)]
        <5>1. pushed \in Seq(PushedThings)
          BY <2>1 DEF StackTypeOK
        <5>2. Len(pushed) \in Nat \ {0} /\ DOMAIN pushed = 1..Len(pushed)
          BY <2>1, <5>1, EmptySeq
        <5> QED
          BY <5>2 DEF Last
      <4> QED
        BY <2>1, <4>1 DEF OutOfStack, NamedFrom, EarlyNames
    <3> QED
      BY <3>2, <3>3, <3>4, <3>5 DEF StackInv
  <2>3. \E i \in DOMAIN pushed :
          /\ pushed[i].what = "init" /\ pushed[i].addr = sp + HeaderLen
          /\ AuxvLen > 0 => \E k \in DOMAIN pushed :
               pushed[k].what = "auxv" /\ pushed[k].addr = pushed[i].addr + InitLen /\ pushed[k].len = AuxvLen
    BY <2>2 DEF Ended, InitAt, AuxvAt
  <2>4. ASSUME word = 8 \/ ~phdr
        PROVE  sp % 16 = 0
    <3>1. PICK m \in Int : sp + AuxvLen + HeaderLen = 16 * m
      BY <2>2 DEF Ended, Sixteens
    <3>2. PICK k \in Int : AuxvLen + HeaderLen = 16 * k
      BY <2>1, <2>4, VectorLengths DEF Sixteens
    <3>3. sp \in Int /\ AuxvLen \in Nat /\ HeaderLen \in Nat
      BY <2>1, VectorLengths DEF StackTypeOK
    <3>4. sp = 16 * (m - k) /\ m - k \in Int
      BY <3>1, <3>2, <3>3
    <3> DEFINE z == m - k
    <3>5. z \in Int /\ sp = 16 * z
      BY <3>4
    <3> HIDE DEF z
    <3> QED
      BY <3>5
  <2> QED
    BY <2>1, <2>3, <2>4 DEF Descends
<1> QED
  BY <1>1, StackInvariant, PTL

-----------------------------------------------------------------------------
(* The dispatch of calls.                                                  *)

Kernels == DOMAIN Methods
Words == Values \cup {0}
Arguments == Seq(Words)
Params == Seq(STRING)
Told == [what : {"before", "after"}, num : NumbersCalled \cup {0}, args : Arguments]

At == {"guest", "named", "fetched", "before", "called", "after", "panic"}
KnownName == {Names[n] : n \in DOMAIN Names} \cup {""}
CallsType ==
  [at : At, num : NumbersCalled \cup {0}, name : KnownName, kernel : Kernels \cup {""}, in : Params,
   args : Arguments, ret : Words \cup {Max64}, calls : Nat]

CallsTypeOK ==
  /\ kernels \in Seq(Kernels)
  /\ guest \in [args : [1..ArgRegs -> Words], result : Words \cup {Max64}]
  /\ sys \in CallsType
  /\ told \in [SysHooks -> Seq(Told)] /\ due \in [SysHooks -> Seq(Told)]

\* The kernel put first stays at the head of the list, and the calls come after.
FrontIsFirst ==
  /\ front # "" => kernels # <<>> /\ kernels[1] = front
  /\ sys.calls = 0 => sys.at = "guest" /\ sys.kernel = ""
  /\ sys.kernel # "" /\ front # "" /\ Has(front, sys.name) => sys.kernel = front

CallsInv == CallsTypeOK /\ HooksBracketCalls /\ FrontIsFirst

-----------------------------------------------------------------------------
LEMMA LeastIsOne ==
  ASSUME NEW S, S \subseteq Nat \ {0}, 1 \in S
  PROVE  Min(S) = 1
<1>1. \A y \in S : 1 <= y
  OBVIOUS
<1>2. \A x \in S : (\A y \in S : x <= y) => x = 1
  OBVIOUS
<1> QED
  BY <1>1, <1>2 DEF Min

\* The kernel that is asked is one of the list that knows the call, and the first if it does.
LEMMA AskedKernel ==
  ASSUME kernels \in Seq(Kernels), NEW name, Asked(name) # {}
  PROVE  LET k == kernels[Min(Asked(name))] IN
         /\ k \in Kernels /\ Has(k, name)
         /\ kernels # <<>> /\ (Has(kernels[1], name) => k = kernels[1])
<1>1. Asked(name) \subseteq Nat \ {0} /\ Asked(name) \subseteq DOMAIN kernels
  BY DEF Asked
<1>2. Min(Asked(name)) \in Asked(name)
  BY <1>1, LeastIsIn
<1>3. kernels[Min(Asked(name))] \in Kernels /\ Has(kernels[Min(Asked(name))], name)
  BY <1>1, <1>2 DEF Asked
<1>4. kernels # <<>>
  BY <1>1, <1>2
<1>5. ASSUME Has(kernels[1], name) PROVE Min(Asked(name)) = 1
  <2>1. 1 \in Asked(name)
    BY <1>4, <1>5 DEF Asked
  <2> QED
    BY <2>1, <1>1, LeastIsOne
<1> QED
  BY <1>3, <1>4, <1>5

LEMMA ParametersAreNames ==
  ASSUME NEW k \in Kernels, NEW name, Has(k, name)
  PROVE  In(Lookup(k, name)) \in Params
<1>1. Lookup(k, name) \in Public(k)
  BY DEF Has, Lookup
<1>2. Lookup(k, name).params \in Seq(STRING)
  BY Callable, <1>1 DEF Public, Kernels
<1>3. CASE Lookup(k, name).params = <<>>
  BY <1>2, <1>3 DEF In, Params
<1>4. CASE Lookup(k, name).params # <<>>
  BY <1>2, <1>4, HeadTailProperties DEF In, Params
<1> QED
  BY <1>3, <1>4

LEMMA NumbersAreWords ==
  ASSUME NEW m, NEW v \in Number(m)
  PROVE  v \in Words
BY DEF Number, Words

LEMMA NothingIsTyped ==
  <<>> \in Params /\ <<>> \in Arguments /\ 0 \in Words /\ "" \in KnownName /\ <<>> \in Seq(Told)
BY DEF Params, Arguments, Words, KnownName

LEMMA CallsAreCounted ==
  ASSUME sys \in CallsType
  PROVE  sys.calls + 1 \in Nat /\ sys.calls + 1 # 0
<1>1. sys.calls \in Nat
  BY DEF CallsType
<1> QED
  BY <1>1

LEMMA ArgumentsAreFetched ==
  ASSUME NEW a \in [1..ArgRegs -> Words], NEW n \in Nat, n <= ArgRegs, ArgRegs \in Nat
  PROVE  SubSeq(a, 1, n) \in Arguments
<1>1. \A i \in 1..n : a[i] \in Words
  OBVIOUS
<1> QED
  BY <1>1, SubSeqProperties DEF Arguments

-----------------------------------------------------------------------------
LEMMA InitCallsInv == SyscallsInit => CallsInv
<1> SUFFICES ASSUME SyscallsInit PROVE CallsInv
  OBVIOUS
<1>1. CallsTypeOK
  <2>1. sys \in CallsType
    BY NothingIsTyped DEF SyscallsInit, NoCall, CallsType, At
  <2>2. guest \in [args : [1..ArgRegs -> Words], result : Words \cup {Max64}]
    BY NothingIsTyped DEF SyscallsInit
  <2>3. kernels \in Seq(Kernels) /\ told \in [SysHooks -> Seq(Told)] /\ due \in [SysHooks -> Seq(Told)]
    <3>1. kernels = <<>> /\ told = [h \in SysHooks |-> <<>>] /\ due = told
      BY DEF SyscallsInit
    <3>2. kernels \in Seq(Kernels)
      BY <3>1
    <3>3. told \in [SysHooks -> Seq(Told)]
      BY <3>1, NothingIsTyped
    <3> QED
      BY <3>1, <3>2, <3>3
  <2> QED
    BY <2>1, <2>2, <2>3 DEF CallsTypeOK
<1>2. HooksBracketCalls
  <2>1. sys.at = "guest" /\ \A h \in SysHooks : told[h] = due[h]
    BY DEF SyscallsInit, NoCall
  <2> QED
    BY <2>1 DEF HooksBracketCalls
<1>3. FrontIsFirst
  BY DEF SyscallsInit, FrontIsFirst, NoCall
<1> QED
  BY <1>1, <1>2, <1>3 DEF CallsInv

\* A step that tells nobody, of a call that has reached no handler, keeps the lists.
LEMMA NobodyToldKeepsLists ==
  ASSUME HooksBracketCalls, UNCHANGED <<told, due, sysHooks>>,
         {sys.at, sys'.at} \cap {"before", "called"} = {}, sys.at # "panic"
  PROVE  HooksBracketCalls'
BY DEF HooksBracketCalls, Notice

\* Nobody is owed anything between calls, so hooks may come and go then.
LEMMA HooksChangeBetweenCalls ==
  ASSUME HooksBracketCalls, UNCHANGED <<told, due, sys>>, sys.at = "guest"
  PROVE  HooksBracketCalls'
BY DEF HooksBracketCalls, Notice

LEMMA SameKernelKeepsFront ==
  ASSUME FrontIsFirst, UNCHANGED <<kernels, front>>, sys.calls # 0 \/ UNCHANGED sys,
         sys'.calls = sys.calls, sys'.kernel = sys.kernel, sys'.name = sys.name
  PROVE  FrontIsFirst'
BY DEF FrontIsFirst, Has, Public

LEMMA AddKeepsInv ==
  ASSUME CallsInv, NEW k \in Kernels, NEW ahead \in BOOLEAN, Add(k, ahead)
  PROVE  CallsInv'
<1> USE DEF CallsInv
<1>k. kernels \in Seq(Kernels)
  BY DEF CallsTypeOK
<1>0. kernels' \in Seq(Kernels)
  BY <1>k DEF Add, AddKernel
<1>1. CallsTypeOK'
  BY <1>0 DEF CallsTypeOK, Add
<1>2. HooksBracketCalls'
  BY HooksChangeBetweenCalls DEF Add
<1>3. FrontIsFirst'
  <2>1. CASE ahead
    <3>1. kernels' # <<>> /\ kernels'[1] = k /\ front' = k
      BY <2>1, <1>k DEF Add, AddKernel
    <3> QED
      BY <3>1 DEF FrontIsFirst, Add
  <2>2. CASE ~ahead
    <3>1. kernels' # <<>> /\ (kernels # <<>> => kernels'[1] = kernels[1]) /\ front' = front
      BY <2>2, <1>k DEF Add, AddKernel
    <3> QED
      BY <3>1 DEF FrontIsFirst, Add
  <2> QED
    BY <2>1, <2>2
<1> QED
  BY <1>1, <1>2, <1>3

LEMMA HooksKeepInv ==
  ASSUME CallsInv, NEW h \in SysHooks, HookSysAdd(h) \/ HookSysDel(h)
  PROVE  CallsInv'
<1> USE DEF CallsInv
<1>1. CallsTypeOK' /\ FrontIsFirst'
  BY DEF CallsTypeOK, CallsType, At, KnownName, FrontIsFirst, Has, Public, HookSysAdd, HookSysDel
<1>2. HooksBracketCalls'
  BY HooksChangeBetweenCalls DEF HookSysAdd, HookSysDel
<1> QED
  BY <1>1, <1>2

LEMMA TrapKeepsInv ==
  ASSUME CallsInv, Trap
  PROVE  CallsInv'
<1> USE DEF CallsInv
<1>1. PICK n \in NumbersCalled, args \in [1..ArgRegs -> Values] :
        /\ guest' = [guest EXCEPT !.args = args]
        /\ sys' = [NoCall EXCEPT !.at = "named", !.num = n, !.calls = sys.calls + 1,
                                 !.name = IF n \in DOMAIN Names THEN Names[n] ELSE ""]
  BY DEF Trap
<1>2. sys' = [at |-> "named", num |-> n, name |-> IF n \in DOMAIN Names THEN Names[n] ELSE "",
              kernel |-> "", in |-> <<>>, args |-> <<>>, ret |-> 0, calls |-> sys.calls + 1]
  BY <1>1 DEF NoCall
<1>3. CallsTypeOK'
  <2>1. (IF n \in DOMAIN Names THEN Names[n] ELSE "") \in KnownName
    BY DEF KnownName
  <2>2. sys.calls + 1 \in Nat
    BY CallsAreCounted DEF CallsTypeOK
  <2>4. sys' \in CallsType
    BY <1>2, <2>1, <2>2, NothingIsTyped DEF CallsType, At
  <2>3. guest' \in [args : [1..ArgRegs -> Words], result : Words \cup {Max64}]
    BY <1>1 DEF CallsTypeOK, CallsType, At, KnownName, Words
  <2> QED
    BY <2>3, <2>4 DEF CallsTypeOK, Trap
<1>4. HooksBracketCalls'
  BY <1>2, NobodyToldKeepsLists DEF Trap
<1>5. FrontIsFirst'
  <2>1. sys'.calls # 0 /\ sys'.kernel = "" /\ UNCHANGED <<kernels, front>>
    <3>1. sys.calls + 1 # 0
      BY CallsAreCounted DEF CallsTypeOK
    <3> QED
      BY <3>1, <1>2 DEF Trap
  <2> QED
    BY <2>1 DEF FrontIsFirst
<1> QED
  BY <1>3, <1>4, <1>5

LEMMA AnswersKeepInv ==
  ASSUME CallsInv, NotNamed \/ Blocked \/ NoKernel \/ Return
  PROVE  CallsInv'
<1> USE DEF CallsInv
<1> DEFINE v == IF Return THEN sys.ret ELSE 0
<1>1. /\ UNCHANGED <<kernels, sysHooks, told, due, front>>
      /\ sys.at \notin {"guest", "before", "called", "panic"}
      /\ \/ Step("panic") /\ UNCHANGED guest
         \/ Answer(0)
         \/ Answer(sys.ret)
  BY DEF NotNamed, Blocked, NoKernel, Return, Goes
<1>2. CallsTypeOK'
  BY <1>1 DEF CallsTypeOK, CallsType, At, KnownName, Step, Answer, Words
<1>3. HooksBracketCalls'
  BY <1>1, NobodyToldKeepsLists DEF Step, Answer, CallsTypeOK, CallsType, At, KnownName
<1>4. FrontIsFirst'
  BY <1>1, SameKernelKeepsFront DEF Step, Answer, CallsTypeOK, CallsType, At, KnownName, FrontIsFirst
<1> QED
  BY <1>2, <1>3, <1>4

LEMMA FetchKeepsInv ==
  ASSUME CallsInv, Fetch
  PROVE  CallsInv'
<1> USE DEF CallsInv
<1> DEFINE k == kernels[Min(Asked(sys.name))]
           in == In(Lookup(k, sys.name))
<1>1. k \in Kernels /\ Has(k, sys.name) /\ (Has(kernels[1], sys.name) => k = kernels[1])
  BY AskedKernel DEF Fetch, CallsTypeOK, CallsType, At, KnownName
<1>2. in \in Params
  BY <1>1, ParametersAreNames
<1>3. sys.at = "named" /\ UNCHANGED <<kernels, sysHooks, told, due, front>>
  BY DEF Fetch, Goes
<1>4. CASE /\ Len(in) <= ArgRegs /\ UNCHANGED guest
           /\ sys' = [sys EXCEPT !.at = "fetched", !.kernel = k, !.in = in,
                                 !.args = SubSeq(guest.args, 1, Len(in))]
  <2> HIDE DEF k, in
  <2>1. guest.args \in [1..ArgRegs -> Words] /\ ArgRegs \in Nat
    BY Callable DEF CallsTypeOK
  <2>2. SubSeq(guest.args, 1, Len(in)) \in Arguments
    <3>1. Len(in) \in Nat /\ Len(in) <= ArgRegs
      BY <1>2, <1>4 DEF Params
    <3> QED
      BY <3>1, <2>1, ArgumentsAreFetched
  <2>3. CallsTypeOK'
    <3>1. sys' \in CallsType
      BY <2>2, <1>1, <1>2, <1>4 DEF CallsTypeOK, CallsType, At
    <3> QED
      BY <3>1, <1>3, <1>4 DEF CallsTypeOK
  <2>4. HooksBracketCalls'
    BY <1>3, <1>4, NobodyToldKeepsLists DEF CallsTypeOK, CallsType, At, KnownName
  <2>5. FrontIsFirst'
    BY <1>1, <1>3, <1>4 DEF FrontIsFirst, CallsTypeOK, CallsType, At, KnownName, Has, Public
  <2> QED
    BY <2>3, <2>4, <2>5
<1>5. CASE (Step("panic") /\ UNCHANGED guest) \/ Answer(0)
  <2>1. CallsTypeOK'
    BY <1>3, <1>5 DEF CallsTypeOK, CallsType, At, KnownName, Step, Answer, Words
  <2>2. HooksBracketCalls'
    BY <1>3, <1>5, NobodyToldKeepsLists DEF Step, Answer, CallsTypeOK, CallsType, At, KnownName
  <2>3. FrontIsFirst'
    BY <1>3, <1>5, SameKernelKeepsFront DEF Step, Answer, CallsTypeOK, CallsType, At, KnownName, FrontIsFirst
  <2> QED
    BY <2>1, <2>2, <2>3
<1> QED
  BY <1>4, <1>5 DEF Fetch

LEMMA EntriesAreTyped ==
  ASSUME CallsTypeOK, NEW what \in {"before", "after"}
  PROVE  Notice(what) \in Told
BY DEF CallsTypeOK, CallsType, Told, Notice

LEMMA BeforeKeepsInv ==
  ASSUME CallsInv, Before
  PROVE  CallsInv'
<1> USE DEF CallsInv
<1>1. /\ sys.at = "fetched" /\ sys' = [sys EXCEPT !.at = "before"]
      /\ told' = [h \in SysHooks |-> IF h \in Range(sysHooks) THEN Append(told[h], Notice("before")) ELSE told[h]]
      /\ UNCHANGED <<kernels, sysHooks, guest, due, front>>
  BY DEF Before, Step, Tell
<1>2. Notice("before") \in Told
  BY EntriesAreTyped
<1>3. sys'.at = "before" /\ Notice("before")' = Notice("before")
  BY <1>1 DEF CallsTypeOK, CallsType, Notice
<1> HIDE DEF Notice
<1>4. CallsTypeOK'
  <2>1. told' \in [SysHooks -> Seq(Told)]
    BY <1>1, <1>2 DEF CallsTypeOK
  <2> QED
    BY <1>1, <2>1 DEF CallsTypeOK, CallsType, At, KnownName
<1>5. HooksBracketCalls'
  <2>1. \A h \in SysHooks : told[h] = due[h]
    BY <1>1 DEF HooksBracketCalls
  <2> QED
    BY <1>1, <1>3, <2>1 DEF HooksBracketCalls
<1>6. FrontIsFirst'
  BY <1>1, SameKernelKeepsFront DEF CallsTypeOK, CallsType, At, KnownName, FrontIsFirst
<1> QED
  BY <1>4, <1>5, <1>6

LEMMA AfterKeepsInv ==
  ASSUME CallsInv, After
  PROVE  CallsInv'
<1> USE DEF CallsInv
<1>1. /\ sys.at = "called" /\ sys' = [sys EXCEPT !.at = "after"]
      /\ told' = [h \in SysHooks |-> IF h \in Range(sysHooks) THEN Append(told[h], Notice("after")) ELSE told[h]]
      /\ UNCHANGED <<kernels, sysHooks, guest, due, front>>
  BY DEF After, Step, Tell
<1>2. Notice("after") \in Told
  BY EntriesAreTyped
<1>3. sys'.at = "after"
  BY <1>1 DEF CallsTypeOK, CallsType
<1> HIDE DEF Notice
<1>4. CallsTypeOK'
  <2>1. told' \in [SysHooks -> Seq(Told)]
    BY <1>1, <1>2 DEF CallsTypeOK
  <2> QED
    BY <1>1, <2>1 DEF CallsTypeOK, CallsType, At, KnownName
<1>5. HooksBracketCalls'
  <2>1. \A h \in SysHooks : due[h] = IF h \in Range(sysHooks) THEN Append(told[h], Notice("after")) ELSE told[h]
    BY <1>1 DEF HooksBracketCalls
  <2> QED
    BY <1>1, <1>3, <2>1 DEF HooksBracketCalls
<1>6. FrontIsFirst'
  BY <1>1, SameKernelKeepsFront DEF CallsTypeOK, CallsType, At, KnownName, FrontIsFirst
<1> QED
  BY <1>4, <1>5, <1>6

LEMMA HandlersKeepInv ==
  ASSUME CallsInv, Call \/ Socketcall
  PROVE  CallsInv'
<1> USE DEF CallsInv
<1>1. /\ sys.at = "before" /\ Owe /\ UNCHANGED <<kernels, sysHooks, guest, told, front>>
      /\ \/ Step("panic")
         \/ \E v \in Words \cup {Max64} : sys' = [sys EXCEPT !.at = "called", !.ret = v]
  <2>1. CASE Call
    BY <2>1, NumbersAreWords DEF Call
  <2>2. CASE Socketcall
    BY <2>2, NumbersAreWords DEF Socketcall
  <2> QED
    BY <2>1, <2>2
<1>2. Notice("before") \in Told /\ Notice("after") \in Told
  BY EntriesAreTyped
<1>3. sys' \in CallsType /\ sys'.at \in {"called", "panic"} /\ Notice("after")' = Notice("after")
      /\ sys'.calls = sys.calls /\ sys'.kernel = sys.kernel /\ sys'.name = sys.name
  BY <1>1 DEF CallsTypeOK, CallsType, At, KnownName, Step, Notice
<1> HIDE DEF Notice
<1>4. CallsTypeOK'
  <2>1. due' \in [SysHooks -> Seq(Told)]
    <3> DEFINE grown(h) == Append(Append(due[h], Notice("before")), Notice("after"))
    <3>1. \A h \in SysHooks : due[h] \in Seq(Told)
      BY DEF CallsTypeOK
    <3>2. \A s \in Seq(Told) : Append(s, Notice("before")) \in Seq(Told) /\ Append(s, Notice("after")) \in Seq(Told)
      BY <1>2
    <3>3. \A h \in SysHooks : grown(h) \in Seq(Told)
      BY <3>1, <3>2
    <3>4. due' = [h \in SysHooks |-> IF h \in Range(sysHooks) THEN grown(h) ELSE due[h]]
      BY <1>1 DEF Owe
    <3> HIDE DEF grown
    <3> QED
      BY <3>1, <3>3, <3>4
  <2> QED
    BY <1>1, <1>3, <2>1 DEF CallsTypeOK
<1>5. HooksBracketCalls'
  <2> DEFINE hooked(h) == h \in Range(sysHooks)
             begun(h) == Append(due[h], Notice("before"))
             over(s) == Append(s, Notice("after"))
  <2>1. \A h \in SysHooks : told[h] = IF hooked(h) THEN begun(h) ELSE due[h]
    <3>1. ASSUME NEW h \in SysHooks, h \in Range(sysHooks)
          PROVE  told[h] = Append(due[h], Notice("before"))
      BY <1>1, <3>1 DEF HooksBracketCalls
    <3>2. ASSUME NEW h \in SysHooks, h \notin Range(sysHooks)
          PROVE  told[h] = due[h]
      BY <3>2 DEF HooksBracketCalls
    <3> QED
      BY <3>1, <3>2
  <2>a. \A h \in SysHooks : due'[h] = IF hooked(h) THEN over(begun(h)) ELSE due[h]
    BY <1>1 DEF Owe
  <2> HIDE DEF begun, over, hooked
  <2>b. \A h \in SysHooks : due'[h] = IF hooked(h) THEN over(told[h]) ELSE told[h]
    BY <2>1, <2>a
  <2>2. \A h \in SysHooks : due'[h] = IF h \in Range(sysHooks) THEN Append(told[h], Notice("after")) ELSE told[h]
    BY <2>b DEF over, hooked
  <2> QED
    BY <1>1, <1>3, <2>2 DEF HooksBracketCalls
<1>6. FrontIsFirst'
  BY <1>1, <1>3, SameKernelKeepsFront DEF FrontIsFirst
<1> QED
  BY <1>4, <1>5, <1>6

LEMMA NextKeepsCallsInv == CallsInv /\ [SyscallsNext]_syscallVars => CallsInv'
<1> SUFFICES ASSUME CallsInv, [SyscallsNext]_syscallVars PROVE CallsInv'
  OBVIOUS
<1>1. CASE UNCHANGED syscallVars
  BY <1>1 DEF CallsInv, CallsTypeOK, CallsType, At, KnownName, HooksBracketCalls, Notice, FrontIsFirst, syscallVars, Has, Public
<1>2. CASE SyscallsNext
  BY <1>2, AddKeepsInv, HooksKeepInv, TrapKeepsInv, AnswersKeepInv, FetchKeepsInv, BeforeKeepsInv,
     AfterKeepsInv, HandlersKeepInv DEF SyscallsNext, Kernels
<1> QED
  BY <1>1, <1>2

\* The invariant holds in every state: types, what each hook was told, and where the kernel
\* put first stands (usercorn.go:753-800).
THEOREM CallsInvariant == SyscallsSpec => []CallsInv
<1>1. SyscallsInit => CallsInv
  BY InitCallsInv
<1>2. CallsInv /\ [SyscallsNext]_syscallVars => CallsInv'
  BY NextKeepsCallsInv
<1> QED
  BY <1>1, <1>2, PTL DEF SyscallsSpec

\* A hook that is there when a call reaches its handler is told of it before and after,
\* in order, and of nothing else; but of one that panics, before only (usercorn.go:762-800).
THEOREM HooksAreToldInPairs == SyscallsSpec => []HooksBracketCalls
<1>1. CallsInv => HooksBracketCalls
  BY DEF CallsInv
<1> QED
  BY <1>1, CallsInvariant, PTL

\* The kernel put first answers what it knows (usercorn.go:774-775).
THEOREM FirstKernelIsAsked == SyscallsSpec => []FirstKernelAnswers
<1>1. CallsInv => FirstKernelAnswers
  BY DEF CallsInv, FrontIsFirst, FirstKernelAnswers
<1> QED
  BY <1>1, CallsInvariant, PTL

-----------------------------------------------------------------------------
(* The runner of CGC.                                                      *)

Modes == {"loaded", "spawned", "guest", "asleep", "woken", "ended", "none"}

PipesTypeOK ==
  /\ mode \in [Guests -> Modes]
  /\ bytes \in [Pipes -> Nat]
  /\ wish \in [Guests -> [pipe : Pipes, size : Nat]]
  /\ sleepers \in [Pipes -> Seq(Guests)]
  /\ readers \in [Pipes -> SUBSET Guests]

\* Who is in a pipe's queue sleeps, wants that pipe, and is there once: a writer that
\* wakes the head of the queue leaves the others asleep.
Queued ==
  \A p \in Pipes : \A i \in DOMAIN sleepers[p] :
    LET g == sleepers[p][i] IN
    /\ mode[g] = "asleep" /\ wish[g].pipe = p
    /\ \A j \in DOMAIN sleepers[p] : sleepers[p][j] = g => j = i

CgcInv == PipesTypeOK /\ Queued /\ NobodySleepsOnBytes

-----------------------------------------------------------------------------
\* A descriptor that is a pipe's end has two pipes.
LEMMA EndsArePipes ==
  ASSUME NEW g \in Guests, NEW fd \in Fds(g), Virtio(g, fd).kind = "pipe"
  PROVE  Virtio(g, fd).from \in Pipes /\ Virtio(g, fd).into \in Pipes
<1>1. /\ PairA(Pairs).from \in Pipes /\ PairA(Pairs).into \in Pipes
      /\ PairB(Pairs).from \in Pipes /\ PairB(Pairs).into \in Pipes
  BY Sizable DEF PairA, PairB, Pairs, Pipes, End
<1>2. Null.kind = "null" /\ Host.kind = "host" /\ End("neg", 0, 0).kind = "neg"
  BY DEF Null, Host, End
<1>3. CASE g = Pov
  <2>1. fd \in 0..3
    BY <1>3 DEF Fds
  <2>2. Virtio(g, fd) \in {PairB(Pairs), Null, End("neg", 0, 0)}
    BY <1>3, <2>1 DEF Virtio
  <2> QED
    BY <1>1, <1>2, <2>2
<1>4. CASE g # Pov
  <2>1. Virtio(g, fd) = Cbio(fd) /\ fd \in CbFds
    BY <1>4 DEF Virtio, Fds
  <2>2. CASE fd \in {0, 1, 2}
    <3>1. Cbio(fd) \in {PairA(Pairs), Null, Host}
      BY <2>2 DEF Cbio
    <3> QED
      BY <1>1, <1>2, <2>1, <3>1
  <2>3. CASE fd \notin {0, 1, 2}
    <3>1. fd \in Nat /\ fd >= 3 /\ fd <= 2 * CBs + 2
      BY Sizable, <2>1, <2>3 DEF CbFds
    <3>2. CASE fd % 2 = 1
      <4>1. PICK k \in 1..CBs : k = (fd - 1) \div 2
        BY Sizable, <3>1, <3>2
      <4>2. Cbio(fd) = PairA(k)
        BY <2>3, <3>2, <4>1 DEF Cbio
      <4> QED
        BY Sizable, <2>1, <4>2 DEF PairA, End, Pipes, Pairs
    <3>3. CASE fd % 2 # 1
      <4>1. PICK k \in 1..CBs : k = (fd - 2) \div 2
        BY Sizable, <3>1, <3>3
      <4>2. Cbio(fd) = PairB(k)
        BY <2>3, <3>3, <4>1 DEF Cbio
      <4> QED
        BY Sizable, <2>1, <4>2 DEF PairB, End, Pipes, Pairs
    <3> QED
      BY <3>2, <3>3
  <2> QED
    BY <2>2, <2>3
<1> QED
  BY <1>3, <1>4

LEMMA PipeOne == 1 \in Pipes
BY Sizable DEF Pipes, Pairs

\* Guests that neither sleep nor are being woken may come and go.
LEMMA Elsewhere ==
  ASSUME CgcInv, UNCHANGED <<bytes, wish, sleepers, readers>>,
         mode' \in [Guests -> Modes],
         \A g \in Guests : mode[g] \in {"asleep", "woken"} => mode'[g] = mode[g]
  PROVE  CgcInv'
<1>1. PipesTypeOK'
  BY DEF CgcInv, PipesTypeOK
<1>2. \A p \in Pipes : \A i \in DOMAIN sleepers[p] : sleepers[p][i] \in Guests
  BY DEF CgcInv, PipesTypeOK
<1>3. Queued'
  BY <1>2 DEF CgcInv, Queued
<1>4. NobodySleepsOnBytes'
  BY <1>2 DEF CgcInv, NobodySleepsOnBytes
<1> QED
  BY <1>1, <1>3, <1>4 DEF CgcInv

-----------------------------------------------------------------------------
(* BufPipe.Write and Read.                                                 *)

LEMMA WriteKeeps ==
  ASSUME CgcInv, NEW p \in Pipes, NEW n \in Nat, PipeWrite(p, n), UNCHANGED wish
  PROVE  CgcInv'
<1> DEFINE s == sleepers[p]
<1>1. bytes' = [bytes EXCEPT ![p] = bytes[p] + n] /\ UNCHANGED readers /\ Signal(p)
  BY DEF PipeWrite
<1>2. s \in Seq(Guests) /\ \A q \in Pipes : sleepers[q] \in Seq(Guests)
  BY DEF CgcInv, PipesTypeOK
<1>3. bytes' \in [Pipes -> Nat] /\ \A q \in Pipes \ {p} : bytes'[q] = bytes[q]
  BY <1>1 DEF CgcInv, PipesTypeOK
<1>4. CASE s = <<>>
  <2>1. UNCHANGED <<mode, sleepers>>
    BY <1>1, <1>4 DEF Signal
  <2>2. PipesTypeOK' /\ Queued'
    BY <1>1, <1>3, <2>1 DEF CgcInv, PipesTypeOK, Queued
  <2>3. NobodySleepsOnBytes'
    BY <1>1, <1>3, <1>4, <2>1 DEF CgcInv, NobodySleepsOnBytes
  <2> QED
    BY <2>2, <2>3 DEF CgcInv
<1>5. CASE s # <<>>
  <2> DEFINE h == Head(s)
  <2>1. /\ mode' = [mode EXCEPT ![h] = "woken"]
        /\ sleepers' = [sleepers EXCEPT ![p] = Tail(s)]
    BY <1>1, <1>5 DEF Signal
  <2>2. h \in Guests /\ h = s[1] /\ 1 \in DOMAIN s /\ Tail(s) \in Seq(Guests)
    BY <1>2, <1>5
  <2>3. \A i \in DOMAIN Tail(s) : i + 1 \in DOMAIN s /\ Tail(s)[i] = s[i + 1] /\ i \in Nat
    BY <1>2, <1>5
  <2>4. mode[h] = "asleep" /\ wish[h].pipe = p /\ \A j \in DOMAIN s : s[j] = h => j = 1
    BY <2>2 DEF CgcInv, Queued
  <2>5. /\ mode' \in [Guests -> Modes] /\ mode'[h] = "woken"
        /\ \A g \in Guests \ {h} : mode'[g] = mode[g]
    BY <2>1, <2>2 DEF CgcInv, PipesTypeOK, Modes
  <2>6. /\ sleepers' \in [Pipes -> Seq(Guests)] /\ sleepers'[p] = Tail(s)
        /\ \A q \in Pipes \ {p} : sleepers'[q] = sleepers[q]
    BY <2>1, <2>2 DEF CgcInv, PipesTypeOK
  <2>7. PipesTypeOK'
    BY <1>1, <1>3, <2>5, <2>6 DEF CgcInv, PipesTypeOK
  <2> HIDE DEF s, h
  <2>8. \A q \in Pipes : \A i \in DOMAIN sleepers'[q] : \E k \in DOMAIN sleepers[q] :
          /\ sleepers'[q][i] = sleepers[q][k] /\ sleepers[q][k] \in Guests \ {h}
          /\ (q = p => k = i + 1) /\ (q # p => k = i)
    <3> SUFFICES ASSUME NEW q \in Pipes, NEW i \in DOMAIN sleepers'[q]
                 PROVE  \E k \in DOMAIN sleepers[q] :
                          /\ sleepers'[q][i] = sleepers[q][k] /\ sleepers[q][k] \in Guests \ {h}
                          /\ (q = p => k = i + 1) /\ (q # p => k = i)
      OBVIOUS
    <3>1. CASE q = p
      <4>1. i + 1 \in DOMAIN s /\ sleepers'[q][i] = s[i + 1] /\ i \in Nat \ {0}
        <5>1. i \in DOMAIN Tail(s) /\ sleepers'[q] = Tail(s)
          BY <2>6, <3>1
        <5>2. Tail(s) \in Seq(Guests)
          BY <2>6
        <5>3. i \in Nat \ {0}
          BY <5>1, <5>2
        <5> QED
          BY <2>3, <5>1, <5>3
      <4>2. s[i + 1] # h
        BY <2>4, <4>1
      <4> QED
        BY <1>2, <3>1, <4>1, <4>2 DEF s
    <3>2. CASE q # p
      <4>1. sleepers'[q][i] = sleepers[q][i] /\ i \in DOMAIN sleepers[q]
        BY <2>6, <3>2
      <4>2. wish[sleepers[q][i]].pipe = q
        BY <4>1 DEF CgcInv, Queued
      <4> QED
        BY <1>2, <2>4, <3>2, <4>1, <4>2
    <3> QED
      BY <3>1, <3>2
  <2>9. Queued'
    <3> SUFFICES ASSUME NEW q \in Pipes, NEW i \in DOMAIN sleepers'[q], NEW g, g = sleepers'[q][i]
                 PROVE  /\ mode'[g] = "asleep" /\ wish'[g].pipe = q
                        /\ \A j \in DOMAIN sleepers'[q] : sleepers'[q][j] = g => j = i
      BY DEF Queued
    <3>1. PICK k \in DOMAIN sleepers[q] :
            /\ g = sleepers[q][k] /\ g \in Guests \ {h} /\ (q = p => k = i + 1) /\ (q # p => k = i)
      BY <2>8
    <3>2. mode'[g] = "asleep" /\ wish'[g].pipe = q
      BY <2>5, <3>1 DEF CgcInv, Queued
    <3>3. ASSUME NEW j \in DOMAIN sleepers'[q], sleepers'[q][j] = g
          PROVE  j = i
      <4>1. PICK l \in DOMAIN sleepers[q] :
              sleepers[q][l] = g /\ (q = p => l = j + 1) /\ (q # p => l = j)
        BY <2>8, <3>3
      <4>2. l = k
        BY <3>1, <4>1 DEF CgcInv, Queued
      <4>3. i \in Nat /\ j \in Nat
        BY <2>6
      <4> QED
        BY <3>1, <4>1, <4>2, <4>3
    <3> QED
      BY <3>2, <3>3
  <2>10. NobodySleepsOnBytes'
    <3> SUFFICES ASSUME NEW q \in Pipes, NEW i \in DOMAIN sleepers'[q], bytes'[q] > 0
                 PROVE  \/ \E g \in Guests : mode'[g] = "woken" /\ wish'[g].pipe = q
                        \/ readers'[q] \ {sleepers'[q][i]} # {}
      BY DEF NobodySleepsOnBytes
    <3>1. CASE q = p
      BY <2>2, <2>4, <2>5, <3>1
    <3>2. CASE q # p
      <4>1. i \in DOMAIN sleepers[q] /\ sleepers'[q][i] = sleepers[q][i] /\ bytes[q] > 0
        BY <1>3, <2>6, <3>2
      <4>2. CASE \E g \in Guests : mode[g] = "woken" /\ wish[g].pipe = q
        BY <2>4, <2>5, <4>2
      <4>3. CASE readers[q] \ {sleepers[q][i]} # {}
        BY <1>1, <4>1, <4>3
      <4> QED
        BY <4>1, <4>2, <4>3 DEF CgcInv, NobodySleepsOnBytes
    <3> QED
      BY <3>1, <3>2
  <2> QED
    BY <2>7, <2>9, <2>10 DEF CgcInv
<1> QED
  BY <1>4, <1>5

LEMMA ReadKeeps ==
  ASSUME CgcInv, NEW g \in Guests, NEW p \in Pipes, NEW n \in Nat, PipeRead(g, p, n),
         mode[g] \in {"guest", "woken"}, mode[g] = "woken" => wish[g].pipe = p
  PROVE  CgcInv'
<1>1. /\ \A q \in Pipes : sleepers[q] \in Seq(Guests)
      /\ \A q \in Pipes : \A i \in DOMAIN sleepers[q] :
           sleepers[q][i] \in Guests \ {g} /\ mode[sleepers[q][i]] = "asleep" /\ wish[sleepers[q][i]].pipe = q
  BY DEF CgcInv, PipesTypeOK, Queued
<1>2. CASE bytes[p] = 0
  <2>1. /\ mode' = [mode EXCEPT ![g] = "asleep"]
        /\ sleepers' = [sleepers EXCEPT ![p] = Append(sleepers[p], g)]
        /\ wish' = [wish EXCEPT ![g] = [pipe |-> p, size |-> n]]
        /\ UNCHANGED <<bytes, readers>>
    BY <1>2 DEF PipeRead
  <2>2. /\ mode' \in [Guests -> Modes] /\ mode'[g] = "asleep"
        /\ \A h \in Guests \ {g} : mode'[h] = mode[h]
    BY <2>1 DEF CgcInv, PipesTypeOK, Modes
  <2>3. /\ wish' \in [Guests -> [pipe : Pipes, size : Nat]] /\ wish'[g].pipe = p
        /\ \A h \in Guests \ {g} : wish'[h] = wish[h]
    BY <2>1 DEF CgcInv, PipesTypeOK
  <2>4. /\ sleepers' \in [Pipes -> Seq(Guests)] /\ sleepers'[p] = Append(sleepers[p], g)
        /\ \A q \in Pipes \ {p} : sleepers'[q] = sleepers[q]
    BY <2>1 DEF CgcInv, PipesTypeOK
  <2>5. PipesTypeOK'
    BY <2>1, <2>2, <2>3, <2>4 DEF CgcInv, PipesTypeOK
  <2>6. \A q \in Pipes : \A i \in DOMAIN sleepers'[q] :
          \/ i \in DOMAIN sleepers[q] /\ sleepers'[q][i] = sleepers[q][i]
          \/ q = p /\ i = Len(sleepers[p]) + 1 /\ sleepers'[q][i] = g
    BY <1>1, <2>4
  <2>7. Queued'
    <3> SUFFICES ASSUME NEW q \in Pipes, NEW i \in DOMAIN sleepers'[q], NEW h, h = sleepers'[q][i]
                 PROVE  /\ mode'[h] = "asleep" /\ wish'[h].pipe = q
                        /\ \A j \in DOMAIN sleepers'[q] : sleepers'[q][j] = h => j = i
      BY DEF Queued
    <3>1. CASE i \in DOMAIN sleepers[q] /\ h = sleepers[q][i]
      BY <1>1, <2>2, <2>3, <2>6, <3>1 DEF CgcInv, Queued
    <3>2. CASE q = p /\ i = Len(sleepers[p]) + 1 /\ h = g
      BY <1>1, <2>2, <2>3, <2>6, <3>2
    <3> QED
      BY <2>6, <3>1, <3>2
  <2>8. NobodySleepsOnBytes'
    <3> SUFFICES ASSUME NEW q \in Pipes, NEW i \in DOMAIN sleepers'[q], bytes'[q] > 0
                 PROVE  \/ \E h \in Guests : mode'[h] = "woken" /\ wish'[h].pipe = q
                        \/ readers'[q] \ {sleepers'[q][i]} # {}
      BY DEF NobodySleepsOnBytes
    <3>1. q # p /\ bytes[q] > 0
      BY <1>2, <2>1
    <3>2. i \in DOMAIN sleepers[q] /\ sleepers'[q][i] = sleepers[q][i]
      BY <2>6, <3>1
    <3>3. CASE \E h \in Guests : mode[h] = "woken" /\ wish[h].pipe = q
      BY <2>2, <2>3, <3>1, <3>3
    <3>4. CASE readers[q] \ {sleepers[q][i]} # {}
      BY <2>1, <3>2, <3>4
    <3> QED
      BY <3>1, <3>2, <3>3, <3>4 DEF CgcInv, NobodySleepsOnBytes
  <2> QED
    BY <2>5, <2>7, <2>8 DEF CgcInv
<1>3. CASE bytes[p] # 0
  <2>1. /\ mode' = [mode EXCEPT ![g] = "guest"]
        /\ bytes' = [bytes EXCEPT ![p] = IF bytes[p] > n THEN bytes[p] - n ELSE 0]
        /\ readers' = [readers EXCEPT ![p] = readers[p] \cup {g}]
        /\ wish' = [wish EXCEPT ![g] = NoWish]
        /\ UNCHANGED sleepers
    BY <1>3 DEF PipeRead
  <2>2. /\ mode' \in [Guests -> Modes]
        /\ \A h \in Guests \ {g} : mode'[h] = mode[h]
    BY <2>1 DEF CgcInv, PipesTypeOK, Modes
  <2>3. /\ wish' \in [Guests -> [pipe : Pipes, size : Nat]]
        /\ \A h \in Guests \ {g} : wish'[h] = wish[h]
    <3>1. NoWish \in [pipe : Pipes, size : Nat]
      BY PipeOne DEF NoWish
    <3> QED
      BY <2>1, <3>1 DEF CgcInv, PipesTypeOK
  <2>4. /\ bytes' \in [Pipes -> Nat]
        /\ \A q \in Pipes \ {p} : bytes'[q] = bytes[q]
    BY <2>1 DEF CgcInv, PipesTypeOK
  <2>5. /\ readers' \in [Pipes -> SUBSET Guests] /\ g \in readers'[p]
        /\ \A q \in Pipes \ {p} : readers'[q] = readers[q]
    BY <2>1 DEF CgcInv, PipesTypeOK
  <2>6. PipesTypeOK'
    BY <2>1, <2>2, <2>3, <2>4, <2>5 DEF CgcInv, PipesTypeOK
  <2>7. Queued'
    BY <1>1, <2>1, <2>2, <2>3 DEF CgcInv, Queued
  <2>8. NobodySleepsOnBytes'
    <3> SUFFICES ASSUME NEW q \in Pipes, NEW i \in DOMAIN sleepers[q], bytes'[q] > 0
                 PROVE  \/ \E h \in Guests : mode'[h] = "woken" /\ wish'[h].pipe = q
                        \/ readers'[q] \ {sleepers[q][i]} # {}
      BY <2>1 DEF NobodySleepsOnBytes
    <3>1. CASE q = p
      BY <1>1, <2>5, <3>1
    <3>2. CASE q # p
      <4>1. bytes[q] > 0 /\ readers'[q] = readers[q]
        BY <2>4, <2>5, <3>2
      <4>2. ASSUME NEW h \in Guests, mode[h] = "woken", wish[h].pipe = q
            PROVE  mode'[h] = "woken" /\ wish'[h].pipe = q
        BY <2>2, <2>3, <3>2, <4>2
      <4> QED
        BY <4>1, <4>2 DEF CgcInv, NobodySleepsOnBytes
    <3> QED
      BY <3>1, <3>2
  <2> QED
    BY <2>6, <2>7, <2>8 DEF CgcInv
<1> QED
  BY <1>2, <1>3

-----------------------------------------------------------------------------
\* The inductive invariant holds (cmd/cgc/cgc.go, cmd/cgc/io.go).
THEOREM CgcInvariant == CgcSpec => []CgcInv
<1>1. CgcStart => CgcInv
  <2> SUFFICES ASSUME CgcStart
               PROVE  CgcInv
    OBVIOUS
  <2>1. /\ mode \in [Guests -> Modes] /\ bytes \in [Pipes -> Nat]
        /\ readers \in [Pipes -> SUBSET Guests]
    BY DEF CgcStart, Modes
  <2>2. wish \in [Guests -> [pipe : Pipes, size : Nat]]
    BY PipeOne DEF CgcStart, NoWish
  <2>3. sleepers \in [Pipes -> Seq(Guests)] /\ \A p \in Pipes : sleepers[p] = <<>>
    BY DEF CgcStart
  <2> QED
    BY <2>1, <2>2, <2>3 DEF CgcInv, PipesTypeOK, Queued, NobodySleepsOnBytes
<1>2. CgcInv /\ [CgcNext]_cgcVars => CgcInv'
  <2> SUFFICES ASSUME CgcInv, [CgcNext]_cgcVars
               PROVE  CgcInv'
    OBVIOUS
  <2> USE Sizable
  <2>1. mode \in [Guests -> Modes]
    BY DEF CgcInv, PipesTypeOK
  <2>2. CASE UNCHANGED <<mode, bytes, wish, sleepers, readers>>
    BY <2>1, <2>2, Elsewhere
  <2>3. ASSUME NEW g \in Guests, Spawn(g) \/ CgcInit(g) \/ Ends(g)
        PROVE  CgcInv'
    <3>1. PICK m \in Modes : mode' = [mode EXCEPT ![g] = m] /\ mode[g] \notin {"asleep", "woken"}
      BY <2>3 DEF Spawn, CgcInit, Ends, Modes
    <3>2. UNCHANGED <<bytes, wish, sleepers, readers>>
      BY <2>3 DEF Spawn, CgcInit, Ends
    <3>3. /\ mode' \in [Guests -> Modes]
          /\ \A h \in Guests : mode[h] \in {"asleep", "woken"} => mode'[h] = mode[h]
      BY <2>1, <3>1
    <3> QED
      BY <3>2, <3>3, Elsewhere
  <2>4. ASSUME NEW g \in Guests, NEW fd \in Fds(g), NEW n \in Nat, Transmit(g, fd, n)
        PROVE  CgcInv'
    <3>1. CASE Virtio(g, fd).kind = "pipe" /\ PipeWrite(Virtio(g, fd).into, n) /\ UNCHANGED wish
      BY <3>1, EndsArePipes, WriteKeeps
    <3>2. CASE \E ws \in Messages : NegWrite(ws)
      BY <2>2, <3>2 DEF NegWrite
    <3> QED
      BY <2>4, <3>1, <3>2 DEF Transmit
  <2>5. ASSUME NEW g \in Guests, NEW fd \in Fds(g), NEW n \in Nat, Receive(g, fd, n)
        PROVE  CgcInv'
    <3>1. CASE Virtio(g, fd).kind = "pipe" /\ PipeRead(g, Virtio(g, fd).from, n)
      <4>1. mode[g] = "guest"
        BY <2>5 DEF Receive, Calls
      <4> QED
        BY <3>1, <4>1, EndsArePipes, ReadKeeps
    <3>2. CASE NegRead(n)
      BY <2>2, <3>2 DEF NegRead
    <3> QED
      BY <2>5, <3>1, <3>2 DEF Receive
  <2>6. ASSUME NEW g \in Guests, Wake(g)
        PROVE  CgcInv'
    <3>1. mode[g] = "woken" /\ PipeRead(g, wish[g].pipe, wish[g].size)
      BY <2>6 DEF Wake
    <3>2. wish[g].pipe \in Pipes /\ wish[g].size \in Nat
      BY DEF CgcInv, PipesTypeOK
    <3> QED
      BY <3>1, <3>2, ReadKeeps
  <2>7. ASSUME NEW g \in Guests, RunAgain(g)
        PROVE  CgcInv'
    BY <2>2, <2>7 DEF RunAgain
  <2>8. CASE Share \/ Judge \/ Kill
    BY <2>2, <2>8 DEF Share, Judge, Kill
  <2>9. CASE CgcNext
    <3>1. ASSUME NEW g \in Guests, NEW fd \in Fds(g) \cap Used, NEW n \in Sizes,
                 Transmit(g, fd, n) \/ Receive(g, fd, n)
          PROVE  CgcInv'
      BY <2>4, <2>5, <3>1
    <3> QED
      BY <2>3, <2>6, <2>7, <2>8, <2>9, <3>1 DEF CgcNext, GoesOn
  <2> QED
    BY <2>2, <2>9 DEF cgcVars
<1> QED
  BY <1>1, <1>2, PTL DEF CgcSpec

\* Nobody sleeps on a pipe's bytes unless another reader has or had the wakeup
\* (BufPipe.Read and Write).
THEOREM NoReaderIsForgotten == CgcSpec => []NobodySleepsOnBytes
<1>1. CgcInv => NobodySleepsOnBytes
  BY DEF CgcInv
<1> QED
  BY <1>1, CgcInvariant, PTL

-----------------------------------------------------------------------------
(* The gdb stub.                                                           *)

Answerable == {"ask", "Z", "z", "c", "s", "D"}
Wire ==
  {p \in [cmd : Answerable \cup {"tell", "break", "ack", "none"}, addr : Code \cup {0}] :
     p.cmd \in {"Z", "z"} => p.addr \in Code}
HookSet == {BreakHook(a) : a \in Code} \cup {StepHook}
Resumed == stub \in {"continuing", "stepping"}

StubTypeOK ==
  /\ asked \in Wire /\ input \in Seq(Wire) /\ believed \subseteq Code /\ table \subseteq Code
  /\ hooks \in Seq(HookSet) /\ pc \in Code /\ from \in Code /\ first \in BOOLEAN /\ connected \in BOOLEAN
  /\ gate \in {"main", "stub"} /\ main \in {"waiting", "running", "ended"} /\ ran \in 0..2

\* The command loop has the mutex from one packet to the next, while the guest runs too:
\* no interrupt is taken then, and the guest is never asked to stop.
MutexInv ==
  /\ loop = "stub" <=> stub \notin {"locking", "gone"}
  /\ loop = "poll" <=> poll \in {"peek", "gone"}
  /\ gate = "main" => Resumed
  /\ main = "running" => gate = "main"
  /\ ~stopping

\* What is to be answered is on the wire once, and is what gdb waits for.
Waits(p) == p.cmd \in Answerable
Once(s) == \A i, j \in DOMAIN s : Waits(s[i]) /\ Waits(s[j]) => i = j
NoneWaits(s) == \A i \in DOMAIN s : ~Waits(s[i])
WireInv ==
  /\ Once(input)
  /\ \A i \in DOMAIN input : Waits(input[i]) /\ connected => asked = input[i]
  /\ ~connected => asked = Nothing
  /\ stub = "handle" => input # <<>>
  /\ Resumed => NoneWaits(input) /\ (connected => asked.cmd \in Resumes)

\* A breakpoint that is set has its hook, unless it has been removed once.
HookedAt(h) == \E i \in DOMAIN hooks : hooks[i] = h
BreakInv ==
  /\ believed \ dropped \subseteq table
  /\ main # "ended" => \A a \in table \ dropped : HookedAt(BreakHook(a))

\* Until a step has done its instruction its hook has not been called.
StepInv ==
  stub = "stepping" =>
    /\ main # "ended" => HookedAt(StepHook)
    /\ gate = "main" => (ran = 0 /\ first /\ pc = from) \/ (ran = 1 /\ ~first)
    /\ gate = "stub" => \/ ran = 1
                        \/ ran = 0 /\ main = "ended"
                        \/ ran = 0 /\ \E i \in DOMAIN hooks : hooks[i].cb = "break" /\ Within(hooks[i], from)

DebugInv == StubTypeOK /\ MutexInv /\ WireInv /\ BreakInv /\ StepInv

-----------------------------------------------------------------------------
(* Sequences.                                                              *)

LEMMA RestOf ==
  ASSUME NEW s \in Seq(Wire), s # <<>>
  PROVE  /\ Head(s) = s[1] /\ 1 \in DOMAIN s
         /\ Tail(s) \in Seq(Wire)
         /\ \A i \in DOMAIN Tail(s) : i + 1 \in DOMAIN s /\ i + 1 # 1 /\ Tail(s)[i] = s[i + 1]
OBVIOUS

LEMMA OneMore ==
  ASSUME NEW s \in Seq(Wire), NEW p \in Wire
  PROVE  /\ Append(s, p) \in Seq(Wire)
         /\ \A i \in DOMAIN Append(s, p) :
              (i \in DOMAIN s /\ Append(s, p)[i] = s[i]) \/ (i = Len(s) + 1 /\ Append(s, p)[i] = p)
OBVIOUS

LEMMA MarksAreOnWire ==
  /\ Break \in Wire /\ Ack \in Wire /\ Nothing \in Wire
  /\ ~Waits(Break) /\ ~Waits(Ack) /\ ~Waits(Nothing)
BY DEF Wire, Break, Ack, Nothing, Packet, Waits, Answerable

\* Taking the first packet leaves the others, and none to be answered if it was the one.
LEMMA RestKeepsOnce ==
  ASSUME NEW s \in Seq(Wire), s # <<>>, Once(s)
  PROVE  /\ Once(Tail(s))
         /\ \A i \in DOMAIN Tail(s) : \E j \in DOMAIN s : Tail(s)[i] = s[j]
         /\ Waits(Head(s)) => NoneWaits(Tail(s))
         /\ NoneWaits(s) => NoneWaits(Tail(s))
<1>1. /\ Head(s) = s[1] /\ 1 \in DOMAIN s /\ DOMAIN Tail(s) \subseteq Nat
      /\ \A i \in DOMAIN Tail(s) : i + 1 \in DOMAIN s /\ i + 1 # 1 /\ Tail(s)[i] = s[i + 1]
  BY RestOf
<1>2. Once(Tail(s))
  BY <1>1 DEF Once
<1>3. \A i \in DOMAIN Tail(s) : \E j \in DOMAIN s : Tail(s)[i] = s[j]
  BY <1>1
<1>4. Waits(Head(s)) => NoneWaits(Tail(s))
  BY <1>1 DEF Once, NoneWaits
<1>5. NoneWaits(s) => NoneWaits(Tail(s))
  BY <1>3 DEF NoneWaits
<1> QED
  BY <1>2, <1>3, <1>4, <1>5

LEMMA MarkKeepsOnce ==
  ASSUME NEW s \in Seq(Wire), NEW p \in Wire, ~Waits(p), Once(s)
  PROVE  /\ Once(Append(s, p))
         /\ \A i \in DOMAIN Append(s, p) : Waits(Append(s, p)[i]) => \E j \in DOMAIN s : Append(s, p)[i] = s[j]
         /\ NoneWaits(s) => NoneWaits(Append(s, p))
<1>1. \A i \in DOMAIN Append(s, p) :
        (i \in DOMAIN s /\ Append(s, p)[i] = s[i]) \/ (i = Len(s) + 1 /\ Append(s, p)[i] = p)
  BY OneMore
<1> HIDE DEF Waits
<1> QED
  BY <1>1 DEF Once, NoneWaits

\* Taking out one place moves those behind it up.
From1(k, j) == IF j < k THEN j ELSE j + 1
LEMMA RemovedOne ==
  ASSUME NEW s \in Seq(HookSet), NEW k \in DOMAIN s
  PROVE  /\ RemoveAt(s, k) \in Seq(HookSet) /\ DOMAIN RemoveAt(s, k) = 1..(Len(s) - 1)
         /\ \A j \in 1..(Len(s) - 1) : RemoveAt(s, k)[j] = s[From1(k, j)]
<1>1. DOMAIN s = 1..Len(s) /\ Len(s) \in Nat /\ k \in 1..Len(s)
  OBVIOUS
<1>2. \A j \in 1..(Len(s) - 1) : From1(k, j) \in DOMAIN s \ {k}
  BY <1>1 DEF From1
<1>3. \A j \in 1..(Len(s) - 1) : RemoveAt(s, k)[j] = s[From1(k, j)]
  <2> TAKE j \in 1..(Len(s) - 1)
  <2> DEFINE earlier == SubSeq(s, 1, k - 1)
             after == SubSeq(s, k + 1, Len(s))
  <2>1. earlier \in Seq(HookSet) /\ Len(earlier) = k - 1 /\ (j < k => earlier[j] = s[j])
    BY <1>1
  <2>2. /\ after \in Seq(HookSet) /\ Len(after) = Len(s) - k
        /\ ~(j < k) => after[j - (k - 1)] = s[j + 1]
    <3>1. /\ after \in Seq(HookSet) /\ Len(after) = Len(s) - k
          /\ \A m \in 1..(Len(s) - k) : after[m] = s[k + m]
      BY <1>1
    <3> HIDE DEF after
    <3>2. ~(j < k) => j - (k - 1) \in 1..(Len(s) - k) /\ k + (j - (k - 1)) = j + 1
      BY <1>1
    <3> QED
      BY <3>1, <3>2
  <2>3. RemoveAt(s, k) = earlier \o after
    BY DEF RemoveAt
  <2> HIDE DEF earlier, after
  <2>4. (earlier \o after)[j] = IF j < k THEN earlier[j] ELSE after[j - (k - 1)]
    BY <1>1, <2>1, <2>2
  <2> QED
    BY <2>1, <2>2, <2>3, <2>4 DEF From1
<1>4. RemoveAt(s, k) \in [1..(Len(s) - 1) -> HookSet]
  <2>1. \A j \in 1..(Len(s) - 1) : s[From1(k, j)] \in HookSet
    BY <1>2
  <2>2. SubSeq(s, 1, k - 1) \in Seq(HookSet) /\ Len(SubSeq(s, 1, k - 1)) = k - 1
    BY <1>1
  <2>3. SubSeq(s, k + 1, Len(s)) \in Seq(HookSet) /\ Len(SubSeq(s, k + 1, Len(s))) = Len(s) - k
    BY <1>1
  <2>4. \A t, u \in Seq(HookSet) : t \o u \in Seq(HookSet) /\ Len(t \o u) = Len(t) + Len(u)
    OBVIOUS
  <2>5. RemoveAt(s, k) \in Seq(HookSet) /\ Len(RemoveAt(s, k)) = (k - 1) + (Len(s) - k)
    BY <2>2, <2>3, <2>4 DEF RemoveAt
  <2>6. Len(RemoveAt(s, k)) = Len(s) - 1
    BY <1>1, <2>5
  <2> QED
    BY <2>5, <2>6
<1>5. Len(s) - 1 \in Nat
  BY <1>1
<1> QED
  BY <1>3, <1>4, <1>5

\* Adding a hook keeps the others, and removing one all that differ from it.
LEMMA HookAdded ==
  ASSUME hooks \in Seq(HookSet), NEW h \in HookSet, hooks' = HookAdd(hooks, h)
  PROVE  hooks' \in Seq(HookSet) /\ HookedAt(h)' /\ \A g : HookedAt(g) => HookedAt(g)'
<1>1. h.type = "code"
  BY DEF HookSet, BreakHook, StepHook, Hook
<1>2. hooks' = Append(hooks, h)
  BY <1>1 DEF HookAdd
<1>3. /\ Len(hooks) \in Nat /\ DOMAIN hooks' = 1..(Len(hooks) + 1) /\ DOMAIN hooks = 1..Len(hooks)
      /\ hooks'[Len(hooks) + 1] = h /\ \A i \in DOMAIN hooks : hooks'[i] = hooks[i]
      /\ hooks' \in Seq(HookSet)
  BY <1>2
<1> QED
  BY <1>3 DEF HookedAt

LEMMA HookDeleted ==
  ASSUME hooks \in Seq(HookSet), NEW h, hooks' = HookDel(hooks, h)
  PROVE  hooks' \in Seq(HookSet) /\ \A g : g # h /\ HookedAt(g) => HookedAt(g)'
<1> DEFINE same == {i \in DOMAIN hooks : hooks[i] = h}
<1>1. CASE same = {}
  <2>1. hooks' = hooks
    BY <1>1 DEF HookDel
  <2> QED
    BY <2>1 DEF HookedAt
<1>2. CASE same # {}
  <2>1. PICK k \in same : hooks' = RemoveAt(hooks, k)
    BY <1>2 DEF HookDel
  <2>2. Len(hooks) \in Nat /\ DOMAIN hooks = 1..Len(hooks) /\ k \in 1..Len(hooks) /\ hooks[k] = h
    BY <2>1
  <2>3. /\ hooks' \in Seq(HookSet) /\ DOMAIN hooks' = 1..(Len(hooks) - 1)
        /\ \A j \in 1..(Len(hooks) - 1) : hooks'[j] = hooks[IF j < k THEN j ELSE j + 1]
    BY <2>1, <2>2, RemovedOne DEF From1
  <2>4. ASSUME NEW g, g # h, NEW i \in DOMAIN hooks, hooks[i] = g
        PROVE  \E j \in DOMAIN hooks' : hooks'[j] = g
    <3>1. i # k
      BY <2>2, <2>4
    <3>2. CASE i < k
      <4>1. i \in 1..(Len(hooks) - 1) /\ hooks'[i] = hooks[i]
        BY <2>2, <2>3, <3>2
      <4> QED
        BY <4>1, <2>3, <2>4
    <3>3. CASE i > k
      <4>1. i - 1 \in 1..(Len(hooks) - 1) /\ hooks'[i - 1] = hooks[i]
        BY <2>2, <2>3, <3>3
      <4> QED
        BY <4>1, <2>3, <2>4
    <3> QED
      BY <2>2, <3>1, <3>2, <3>3
  <2> QED
    BY <2>3, <2>4 DEF HookedAt
<1> QED
  BY <1>1, <1>2

LEMMA HooksOfCode ==
  /\ StepHook \in HookSet /\ \A a \in Code : BreakHook(a) \in HookSet /\ BreakHook(a) # StepHook
  /\ \A h \in HookSet : h.type = "code" /\ h.cb \in {"break", "step"} /\ (h.cb = "step" <=> h = StepHook)
  /\ \A a : Within(StepHook, a)
  /\ \A a \in Code : Within(BreakHook(a), a) /\ BreakHook(a).cb = "break"
<1>1. StepHook \in HookSet /\ \A a \in Code : BreakHook(a) \in HookSet
  BY DEF HookSet
<1>2. \A a : BreakHook(a).cb = "break" /\ BreakHook(a).type = "code"
  BY DEF BreakHook, Hook
<1>3. StepHook.cb = "step" /\ StepHook.type = "code"
  BY DEF StepHook, Hook
<1>4. \A a : BreakHook(a) # StepHook
  BY <1>2, <1>3
<1>5. \A a : Within(StepHook, a)
  BY DEF StepHook, Hook, Within
<1>6. \A a \in Code : Within(BreakHook(a), a)
  <2>1. ASSUME NEW a \in Code PROVE Within(BreakHook(a), a)
    <3>1. a \in Nat
      BY GdbAssumption
    <3> QED
      BY <3>1 DEF BreakHook, Hook, Within
  <2> QED
    BY <2>1
<1> QED
  BY <1>1, <1>2, <1>3, <1>4, <1>5, <1>6 DEF HookSet
-----------------------------------------------------------------------------
(* Types and the mutex.                                                    *)

LEMMA PacketsAreOnWire ==
  ASSUME NEW c \in Answerable \cup {"tell"}, NEW a \in Code \cup {0}, c \in {"Z", "z"} => a \in Code
  PROVE  Packet(c, a) \in Wire
BY DEF Wire, Packet

LEMMA AnsweredKeepsTypes ==
  ASSUME StubTypeOK, NEW rest \in Seq(Wire), Answered(rest), asked.cmd \in {"Z"} => asked.addr \in Code
  PROVE  asked' \in Wire /\ input' \in Seq(Wire) /\ believed' \subseteq Code /\ connected' \in BOOLEAN
<1>1. input' \in Seq(Wire)
  BY OneMore, MarksAreOnWire DEF Answered
<1>2. asked' \in Wire /\ connected' \in BOOLEAN
  BY MarksAreOnWire DEF Answered, StubTypeOK
<1>3. believed' \subseteq Code
  BY DEF Answered, StubTypeOK
<1> QED
  BY <1>1, <1>2, <1>3

LEMMA MutexStep == DebugInv /\ [Next]_vars => MutexInv'
<1> SUFFICES ASSUME DebugInv, [Next]_vars PROVE MutexInv'
  OBVIOUS
<1> USE DEF MutexInv, Resumed, StubGoto, Handled, gdbVars, stubVars, mainVars
<1>t. MutexInv /\ gate \in {"main", "stub"} /\ main \in {"waiting", "running", "ended"}
  BY DEF DebugInv, StubTypeOK
<1>1. CASE SendPacket \/ SendBreak \/ GiveUp
  BY <1>t, <1>1 DEF SendPacket, SendBreak, GiveUp
<1>2. CASE StubUnlock \/ StubPeek \/ StubRead
  BY <1>t, <1>2 DEF StubUnlock, StubPeek, StubRead
<1>3. CASE HandleAsk \/ HandleTell \/ HandleZ \/ Handlez
  BY <1>t, <1>3 DEF HandleAsk, HandleTell, HandleZ, Handlez
<1>4. CASE HandleResume \/ Report \/ HandleDetach
  BY <1>t, <1>4 DEF HandleResume, Report, HandleDetach
<1>5. CASE StubLock
  BY <1>t, <1>5 DEF StubLock
<1>8. CASE PollLock
  BY <1>t, <1>8 DEF PollLock
<1>9. CASE PollPeek
  <2>1. poll = "peek" /\ stub \in {"locking", "gone"} /\ main # "running"
    BY <1>t, <1>9 DEF PollPeek
  <2>2. ~stopping' /\ UNCHANGED <<stub, gate, main>>
    <3>1. UNCHANGED <<stub, gate, main>> /\ (stopping' = (main = "running") \/ UNCHANGED stopping)
      BY <1>9, Zenon DEF PollPeek
    <3>2. (main = "running") = FALSE
      BY <2>1
    <3>3. CASE stopping' = (main = "running")
      <4>1. stopping' = FALSE
        BY <3>2, <3>3
      <4> QED
        BY <3>1, <4>1
    <3>4. CASE UNCHANGED stopping
      BY <1>t, <3>1, <3>4
    <3> QED
      BY <3>1, <3>3, <3>4
  <2>3. (poll' = "lock" /\ loop' = "none") \/ (poll' = "gone" /\ loop' = loop)
    BY <1>9 DEF PollPeek
  <2> QED
    BY <1>t, <2>1, <2>2, <2>3
<1>6. CASE GateStart \/ Execute \/ GuestStops \/ GuestExits
  BY <1>t, <1>6 DEF GateStart, Execute, GuestStops, GuestExits
<1>7. CASE UNCHANGED vars
  BY <1>t, <1>7 DEF vars
<1> QED
  BY <1>1, <1>2, <1>3, <1>4, <1>5, <1>6, <1>7, <1>8, <1>9 DEF Next, Stub

-----------------------------------------------------------------------------
(* The wire.                                                               *)

\* While a packet is handled it is the first on the wire, and what gdb waits for if it is
\* to be answered and the connection stands.
LEMMA HandledIsAsked ==
  ASSUME DebugInv, stub = "handle"
  PROVE  /\ input # <<>> /\ Head(input) \in Wire /\ Tail(input) \in Seq(Wire)
         /\ Waits(Head(input)) => asked \in {Head(input), Nothing} /\ NoneWaits(Tail(input))
         /\ ~connected => asked = Nothing
<1>1. input \in Seq(Wire) /\ input # <<>> /\ Once(input)
  BY DEF DebugInv, StubTypeOK, WireInv
<1>2. Head(input) = input[1] /\ 1 \in DOMAIN input /\ Tail(input) \in Seq(Wire) /\ Head(input) \in Wire
  BY <1>1, RestOf
<1>3. Waits(Head(input)) => NoneWaits(Tail(input))
  BY <1>1, RestKeepsOnce
<1>4. connected /\ Waits(Head(input)) => asked = Head(input)
  BY <1>2 DEF DebugInv, WireInv
<1>5. ~connected => asked = Nothing
  BY DEF DebugInv, WireInv
<1> QED
  BY <1>1, <1>2, <1>3, <1>4, <1>5

LEMMA NoneWaitsKeepsWire ==
  ASSUME NoneWaits(input)', (~connected => asked = Nothing)', stub' # "handle",
         (Resumed /\ connected)' => asked'.cmd \in Resumes
  PROVE  WireInv'
BY DEF WireInv, NoneWaits, Once, Waits

LEMMA AnsweredKeepsWire ==
  ASSUME NEW rest \in Seq(Wire), NoneWaits(rest), Answered(rest), stub' = "lock"
  PROVE  WireInv'
<1>1. NoneWaits(rest) => Once(rest)
  BY DEF NoneWaits, Once
<1>2. NoneWaits(input')
  BY <1>1, MarkKeepsOnce, MarksAreOnWire DEF Answered
<1>3. NoneWaits(input)'
  BY <1>2 DEF NoneWaits, Waits
<1> QED
  BY <1>3, NoneWaitsKeepsWire DEF Answered, Resumed

LEMMA SameKeepsWire ==
  ASSUME DebugInv, UNCHANGED <<asked, connected, input>>, Resumed' => Resumed,
         stub' = "handle" => input # <<>>
  PROVE  WireInv'
BY DEF DebugInv, WireInv, Once, NoneWaits, Waits

LEMMA RestKeepsWire ==
  ASSUME DebugInv, UNCHANGED <<asked, connected>>, input # <<>>, input' = Tail(input),
         ~Resumed', stub' # "handle"
  PROVE  WireInv'
<1>1. input \in Seq(Wire) /\ Once(input)
  BY DEF DebugInv, StubTypeOK, WireInv
<1>2. Once(input') /\ \A i \in DOMAIN input' : \E j \in DOMAIN input : input'[i] = input[j]
  BY <1>1, RestKeepsOnce
<1> QED
  BY <1>2 DEF DebugInv, WireInv, Once, Waits

LEMMA WireStep == DebugInv /\ [Next]_vars => WireInv'
<1> SUFFICES ASSUME DebugInv, [Next]_vars PROVE WireInv'
  OBVIOUS
<1> USE DEF StubGoto, Handled, gdbVars, stubVars, mainVars
<1>t. input \in Seq(Wire) /\ asked \in Wire /\ WireInv /\ MutexInv
  BY DEF DebugInv, StubTypeOK
<1>1. CASE SendPacket
  <2>1. connected /\ asked = Nothing /\ asked' \in Wire /\ input' = Append(input, asked')
        /\ UNCHANGED <<connected, stub>>
    BY <1>1, PacketsAreOnWire DEF SendPacket, Answerable, StubTypeOK, DebugInv
  <2>2. NoneWaits(input)
    BY <1>t, <2>1, MarksAreOnWire DEF WireInv, NoneWaits
  <2>3. ~Resumed
    BY <1>t, <2>1 DEF WireInv, Nothing, Packet, Resumes
  <2>4. \A i \in DOMAIN input' : (i \in DOMAIN input /\ input'[i] = input[i]) \/ (i = Len(input) + 1 /\ input'[i] = asked')
    BY <1>t, <2>1, OneMore
  <2>5. \A i \in DOMAIN input' : Waits(input'[i]) => i = Len(input) + 1 /\ input'[i] = asked'
    BY <2>2, <2>4 DEF NoneWaits
  <2>6. input' # <<>>
    BY <1>t, <2>1
  <2> QED
    BY <2>1, <2>3, <2>5, <2>6 DEF WireInv, Once, Waits, Resumed
<1>2. CASE SendBreak
  <2>1. input' = Append(input, Break) /\ UNCHANGED <<asked, connected, stub>> /\ input' # <<>>
    BY <1>t, <1>2 DEF SendBreak
  <2>2. /\ Once(input') /\ (NoneWaits(input) => NoneWaits(input'))
        /\ \A i \in DOMAIN input' : Waits(input'[i]) => \E j \in DOMAIN input : input'[i] = input[j]
    BY <1>t, <2>1, MarkKeepsOnce, MarksAreOnWire DEF WireInv
  <2> QED
    BY <1>t, <2>1, <2>2 DEF WireInv, Once, NoneWaits, Waits, Resumed
<1>3. CASE GiveUp
  <2>1. asked' = Nothing /\ UNCHANGED <<input, stub>> /\ connected /\ (connected' => asked.cmd = "tell")
    BY <1>3 DEF GiveUp
  <2>2. asked.cmd = "tell" => NoneWaits(input) /\ ~Resumed
    BY <1>t, <2>1 DEF WireInv, NoneWaits, Waits, Answerable, Resumes
  <2>3. CASE connected'
    BY <1>t, <2>1, <2>2, <2>3 DEF WireInv, Once, NoneWaits, Waits, Resumed
  <2>4. CASE ~connected'
    BY <1>t, <2>1, <2>4 DEF WireInv, Once, NoneWaits, Waits, Resumed
  <2> QED
    BY <2>3, <2>4
<1>4. CASE StubUnlock \/ StubRead \/ StubLock \/ PollLock
  <2>1. /\ UNCHANGED <<asked, connected, input>>
        /\ stub' \in {"locking", "peek", "handle", "gone"} \/ UNCHANGED stub
        /\ stub' = "handle" => input # <<>> \/ UNCHANGED stub
    BY <1>4 DEF StubUnlock, StubRead, StubLock, PollLock
  <2>2. stub' = "handle" => input # <<>>
    BY <1>t, <2>1 DEF WireInv
  <2> QED
    BY <2>1, <2>2, SameKeepsWire DEF Resumed
<1>5. CASE GateStart \/ Execute \/ GuestStops \/ GuestExits \/ UNCHANGED vars
  <2>1. UNCHANGED <<asked, connected, input, stub>>
    BY <1>5 DEF GateStart, Execute, GuestStops, GuestExits, vars
  <2> QED
    BY <1>t, <2>1, SameKeepsWire DEF Resumed, WireInv
<1>6. CASE StubPeek
  <2>1. UNCHANGED <<asked, connected>> /\ stub' \in {"lock", "read", "gone"}
        /\ (input' = input \/ (input # <<>> /\ input' = Tail(input)))
    BY <1>6 DEF StubPeek
  <2> QED
    BY <2>1, SameKeepsWire, RestKeepsWire DEF Resumed
<1>7. CASE PollPeek
  <2>1. UNCHANGED <<asked, connected, stub>> /\ poll = "peek"
        /\ (input' = input \/ (input # <<>> /\ input' = Tail(input)))
    BY <1>7 DEF PollPeek
  <2>2. stub \in {"locking", "gone"}
    BY <1>t, <2>1 DEF MutexInv
  <2> QED
    BY <2>1, <2>2, SameKeepsWire, RestKeepsWire DEF Resumed
<1>8. CASE HandleTell
  BY <1>8, HandledIsAsked, RestKeepsWire DEF HandleTell, Resumed
<1>9. CASE HandleAsk \/ HandleZ \/ Handlez
  <2>1. stub = "handle" /\ Waits(Head(input)) /\ Answered(Tail(input)) /\ stub' = "lock"
    BY <1>9 DEF HandleAsk, HandleZ, Handlez, Waits, Answerable
  <2> QED
    BY <2>1, HandledIsAsked, AnsweredKeepsWire
<1>10. CASE Report
  <2>1. Resumed /\ Answered(input) /\ stub' = "lock"
    BY <1>10 DEF Report, Resumed
  <2> QED
    BY <1>t, <2>1, AnsweredKeepsWire DEF WireInv
<1>11. CASE HandleResume \/ HandleDetach
  <2>1. /\ stub = "handle" /\ Waits(Head(input)) /\ input' = Tail(input) /\ stub' # "handle"
        /\ \/ UNCHANGED <<asked, connected>> /\ Head(input).cmd \in Resumes
           \/ ~connected' /\ asked' = Nothing
    BY <1>11 DEF HandleResume, HandleDetach, Waits, Answerable, Resumes
  <2>2. NoneWaits(Tail(input)) /\ asked \in {Head(input), Nothing} /\ (~connected => asked = Nothing)
        /\ (connected => asked = Head(input))
    <3>1. input # <<>> /\ 1 \in DOMAIN input /\ Head(input) = input[1]
      BY <1>t, <2>1, HandledIsAsked, RestOf
    <3> QED
      BY <1>t, <2>1, <3>1, HandledIsAsked DEF WireInv
  <2>3. NoneWaits(input)'
    BY <2>1, <2>2 DEF NoneWaits, Waits
  <2> QED
    BY <2>1, <2>2, <2>3, NoneWaitsKeepsWire
<1> QED
  BY <1>1, <1>2, <1>3, <1>4, <1>5, <1>6, <1>7, <1>8, <1>9, <1>10, <1>11 DEF Next, Stub

-----------------------------------------------------------------------------
(* Breakpoints.                                                            *)

\* What gdb believes changes by what it asked for, which is what is handled.
LEMMA BelievesWhatWasHandled ==
  ASSUME DebugInv, NEW p, p = Head(input), stub = "handle", Waits(p), NEW rest, Answered(rest)
  PROVE  /\ believed' \subseteq believed \cup (IF p.cmd = "Z" THEN {p.addr} ELSE {})
         /\ p.cmd = "z" /\ asked # Nothing => believed' = believed \ {p.addr}
<1>1. asked \in {p, Nothing}
  BY HandledIsAsked
<1>2. Nothing.cmd = "none"
  BY DEF Nothing, Packet
<1> QED
  BY <1>1, <1>2 DEF Answered

LEMMA BreakStep == DebugInv /\ [Next]_vars => BreakInv'
<1> SUFFICES ASSUME DebugInv, [Next]_vars PROVE BreakInv'
  OBVIOUS
<1>t. BreakInv /\ hooks \in Seq(HookSet)
  BY DEF DebugInv, StubTypeOK
<1>1. ASSUME UNCHANGED <<believed, dropped, table, hooks>>, UNCHANGED main \/ (main # "ended" /\ main' # "ended")
      PROVE  BreakInv'
  BY <1>t, <1>1 DEF BreakInv, HookedAt
<1> USE DEF gdbVars, stubVars, mainVars
<1>2. CASE SendPacket \/ SendBreak \/ GiveUp \/ UNCHANGED vars
  BY <1>1, <1>2 DEF SendPacket, SendBreak, GiveUp, vars
<1>3. CASE StubUnlock \/ StubLock \/ StubPeek \/ StubRead \/ HandleTell \/ HandleDetach
  BY <1>1, <1>3 DEF StubUnlock, StubLock, StubPeek, StubRead, HandleTell, HandleDetach
<1>4. CASE PollLock \/ PollPeek \/ GateStart \/ Execute \/ GuestStops
  BY <1>1, <1>4 DEF PollLock, PollPeek, GateStart, Execute, GuestStops
<1>5. CASE GuestExits
  BY <1>t, <1>5 DEF GuestExits, BreakInv
<1>6. CASE HandleAsk
  <2>1. believed' \subseteq believed /\ UNCHANGED <<dropped, table, hooks, main>>
    BY <1>6, BelievesWhatWasHandled DEF HandleAsk, Handled, Waits, Answerable
  <2> QED
    BY <1>t, <2>1 DEF BreakInv, HookedAt
<1>7. CASE HandleZ
  <2> PICK a : a = Head(input).addr
    OBVIOUS
  <2>1. believed' \subseteq believed \cup {a} /\ table' = table \cup {a} /\ UNCHANGED <<dropped, main>>
    BY <1>7, BelievesWhatWasHandled DEF HandleZ, Handled, Waits, Answerable
  <2>2. CASE a \in table
    <3>1. hooks' = hooks
      BY <1>7, <2>2 DEF HandleZ
    <3> QED
      BY <1>t, <2>1, <2>2, <3>1 DEF BreakInv, HookedAt
  <2>3. CASE a \notin table
    <3>1. hooks' = HookAdd(hooks, BreakHook(a))
      BY <1>7, <2>3 DEF HandleZ
    <3>2. a \in Code
      BY <1>7, HandledIsAsked DEF HandleZ, Handled, Wire
    <3>3. HookedAt(BreakHook(a))' /\ \A g : HookedAt(g) => HookedAt(g)'
      <4>1. BreakHook(a) \in HookSet
        BY <3>2, HooksOfCode
      <4> QED
        BY <1>t, <3>1, <4>1, HookAdded
    <3>4. \A b \in table' \ dropped' : b = a \/ b \in table \ dropped
      BY <2>1
    <3> QED
      BY <1>t, <2>1, <3>3, <3>4 DEF BreakInv
  <2> QED
    BY <2>2, <2>3
<1>8. CASE Handlez
  <2> PICK a : a = Head(input).addr
    OBVIOUS
  <2>1. believed' \subseteq believed /\ dropped' = dropped \cup {a} /\ UNCHANGED <<table, main>>
    BY <1>8, BelievesWhatWasHandled DEF Handlez, Handled, Waits, Answerable
  <2>2. hooks' = hooks \/ hooks' = HookDel(hooks, BreakHook(a))
    BY <1>8 DEF Handlez
  <2>3. \A g : g # BreakHook(a) /\ HookedAt(g) => HookedAt(g)'
    BY <1>t, <2>2, HookDeleted DEF HookedAt
  <2>4. \A b : BreakHook(b) = BreakHook(a) => b = a
    BY DEF BreakHook, Hook
  <2> QED
    BY <1>t, <2>1, <2>3, <2>4 DEF BreakInv
<1>9. CASE HandleResume
  <2>1. UNCHANGED <<believed, dropped, table, main>> /\ (hooks' = hooks \/ hooks' = HookAdd(hooks, StepHook))
    BY <1>9 DEF HandleResume
  <2>2. \A g : HookedAt(g) => HookedAt(g)'
    BY <1>t, <2>1, HookAdded, HooksOfCode DEF HookedAt
  <2> QED
    BY <1>t, <2>1, <2>2 DEF BreakInv
<1>10. CASE Report
  <2>1. UNCHANGED <<dropped, table, main>> /\ (hooks' = hooks \/ hooks' = HookDel(hooks, StepHook))
    BY <1>10 DEF Report
  <2>2. asked.cmd \notin {"Z", "z"}
    BY <1>10 DEF Report, DebugInv, WireInv, Resumed, Resumes, Nothing, Packet
  <2>3. believed' = believed
    BY <1>10, <2>2 DEF Report, Answered
  <2>4. \A g : g # StepHook /\ HookedAt(g) => HookedAt(g)'
    BY <1>t, <2>1, HookDeleted DEF HookedAt
  <2>5. \A a \in table : BreakHook(a) # StepHook
    BY HooksOfCode DEF DebugInv, StubTypeOK
  <2> QED
    BY <1>t, <2>1, <2>3, <2>4, <2>5 DEF BreakInv
<1> QED
  BY <1>2, <1>3, <1>4, <1>5, <1>6, <1>7, <1>8, <1>9, <1>10 DEF Next, Stub

-----------------------------------------------------------------------------
(* Steps.                                                                  *)

LEMMA StepStep == DebugInv /\ [Next]_vars => StepInv'
<1> SUFFICES ASSUME DebugInv, [Next]_vars, stub' = "stepping" PROVE StepInv'
  BY DEF StepInv
<1>t. StepInv /\ MutexInv /\ hooks \in Seq(HookSet) /\ ran \in 0..2
  BY DEF DebugInv, StubTypeOK
<1>1. ASSUME UNCHANGED <<stub, hooks, gate, main, ran, first, pc, from>>
      PROVE  StepInv'
  BY <1>t, <1>1 DEF StepInv, HookedAt
<1> USE DEF gdbVars, stubVars, mainVars, StubGoto
<1>2. CASE SendPacket \/ SendBreak \/ GiveUp \/ UNCHANGED vars
  BY <1>1, <1>2 DEF SendPacket, SendBreak, GiveUp, vars
<1>3. CASE PollLock \/ PollPeek
  BY <1>1, <1>3 DEF PollLock, PollPeek
<1>4. CASE StubUnlock \/ StubLock \/ StubPeek \/ StubRead \/ HandleTell \/ HandleDetach
  BY <1>4 DEF StubUnlock, StubLock, StubPeek, StubRead, HandleTell, HandleDetach
<1>5. CASE HandleAsk \/ HandleZ \/ Handlez \/ Report
  BY <1>5 DEF HandleAsk, HandleZ, Handlez, Report
<1>6. CASE HandleResume
  <2>1. /\ first' /\ gate' = "main" /\ from' = pc /\ pc' = pc /\ ran' = 0
        /\ hooks' = HookAdd(hooks, StepHook)
    <3>1. Head(input).cmd = "s"
      BY <1>6 DEF HandleResume, Resumes
    <3> QED
      BY <1>6, <3>1 DEF HandleResume
  <2>2. HookedAt(StepHook)'
    BY <1>t, <2>1, HookAdded, HooksOfCode
  <2> QED
    BY <2>1, <2>2 DEF StepInv
<1>7. CASE GateStart
  BY <1>t, <1>7 DEF GateStart, StepInv, HookedAt
<1> DEFINE byBreak == \E i \in DOMAIN hooks : hooks[i].cb = "break" /\ Within(hooks[i], from)
<1>8. ASSUME main = "running", Called, stub = "stepping"
      PROVE  /\ HookedAt(StepHook) /\ gate = "main" /\ ~first' /\ ~stopping
             /\ \/ ran = 0 /\ pc = from /\ (Stops => byBreak)
                \/ ran = 1 /\ Stops
  <2>1. PICK i \in DOMAIN hooks : hooks[i] = StepHook
    BY <1>t, <1>8 DEF StepInv, HookedAt
  <2>2. i \in OnCode(hooks, pc) /\ hooks[i].cb = "step"
    BY <2>1, HooksOfCode DEF OnCode
  <2>3. ~first'
    BY <1>8, <2>1, <2>2 DEF Called
  <2>4. gate = "main" /\ ~stopping
    BY <1>t, <1>8 DEF MutexInv
  <2>5. CASE ran = 0 /\ first /\ pc = from
    BY <1>t, <2>3, <2>4, <2>5, <2>1 DEF Stops, OnCode, HookedAt
  <2>6. CASE ran = 1 /\ ~first
    BY <2>1, <2>2, <2>3, <2>4, <2>6 DEF Stops, HookedAt
  <2> QED
    BY <1>t, <1>8, <2>4, <2>5, <2>6 DEF StepInv
<1>9. CASE Execute
  BY <1>t, <1>8, <1>9 DEF Execute, StepInv, HookedAt
<1>10. CASE GuestStops
  BY <1>8, <1>10 DEF GuestStops, StepInv, HookedAt
<1>11. CASE GuestExits
  BY <1>8, <1>11 DEF GuestExits, StepInv
<1> QED
  BY <1>2, <1>3, <1>4, <1>5, <1>6, <1>7, <1>9, <1>10, <1>11 DEF Next, Stub

-----------------------------------------------------------------------------
(* The theorems.                                                           *)

LEMMA TypeStep == DebugInv /\ [Next]_vars => StubTypeOK'
<1> SUFFICES ASSUME DebugInv, [Next]_vars PROVE StubTypeOK'
  OBVIOUS
<1>t. StubTypeOK
  BY DEF DebugInv
<1> USE DEF gdbVars, stubVars, mainVars, StubGoto, Handled
<1>1. CASE SendPacket
  <2>1. asked' \in Wire
    BY <1>t, <1>1, PacketsAreOnWire DEF SendPacket, StubTypeOK, Answerable
  <2> QED
    BY <1>t, <1>1, <2>1, OneMore DEF SendPacket, StubTypeOK
<1>2. CASE SendBreak
  BY <1>t, <1>2, OneMore, MarksAreOnWire DEF SendBreak, StubTypeOK
<1>3. CASE GiveUp
  BY <1>t, <1>3, MarksAreOnWire DEF GiveUp, StubTypeOK
<1>4. CASE StubUnlock \/ StubLock \/ StubRead \/ PollLock \/ UNCHANGED vars
  BY <1>t, <1>4 DEF StubUnlock, StubLock, StubRead, PollLock, vars, StubTypeOK
<1>5. CASE StubPeek \/ PollPeek
  <2>1. input' = input \/ (input # <<>> /\ input' = Tail(input))
    BY <1>5 DEF StubPeek, PollPeek
  <2>2. input' \in Seq(Wire)
    BY <1>t, <2>1, RestOf DEF StubTypeOK
  <2> QED
    BY <1>t, <1>5, <2>2 DEF StubPeek, PollPeek, StubTypeOK
<1>6. CASE HandleAsk \/ HandleZ \/ Handlez
  <2>1. stub = "handle" /\ Answered(Tail(input)) /\ Tail(input) \in Seq(Wire) /\ Head(input) \in Wire
    BY <1>6, HandledIsAsked DEF HandleAsk, HandleZ, Handlez
  <2>2. asked' \in Wire /\ input' \in Seq(Wire) /\ believed' \subseteq Code /\ connected' \in BOOLEAN
    BY <1>t, <2>1, AnsweredKeepsTypes DEF StubTypeOK, Wire
  <2>3. table' \subseteq Code /\ hooks' \in Seq(HookSet)
    BY <1>t, <1>6, <2>1, HookAdded, HookDeleted, HooksOfCode DEF HandleAsk, HandleZ, Handlez, StubTypeOK, Wire
  <2> QED
    BY <1>t, <1>6, <2>2, <2>3 DEF HandleAsk, HandleZ, Handlez, StubTypeOK
<1>7. CASE HandleTell \/ HandleDetach
  BY <1>t, <1>7, HandledIsAsked, MarksAreOnWire DEF HandleTell, HandleDetach, StubTypeOK
<1>8. CASE HandleResume
  <2>1. hooks' \in Seq(HookSet) /\ input' \in Seq(Wire) /\ first' \in BOOLEAN
    BY <1>t, <1>8, HandledIsAsked, HookAdded, HooksOfCode DEF HandleResume, StubTypeOK
  <2> QED
    BY <1>t, <1>8, <2>1 DEF HandleResume, StubTypeOK
<1>9. CASE Report
  <2>1. hooks' \in Seq(HookSet)
    BY <1>t, <1>9, HookDeleted DEF Report, StubTypeOK
  <2>2. asked' \in Wire /\ input' \in Seq(Wire) /\ believed' \subseteq Code /\ connected' \in BOOLEAN
    BY <1>t, <1>9, AnsweredKeepsTypes DEF Report, StubTypeOK, Wire
  <2> QED
    BY <1>t, <1>9, <2>1, <2>2 DEF Report, StubTypeOK
<1>10. CASE GateStart \/ Execute \/ GuestStops \/ GuestExits
  <2>1. first' \in BOOLEAN
    BY <1>t, <1>10 DEF GateStart, Execute, GuestStops, GuestExits, Called, StubTypeOK
  <2>2. ran' \in 0..2
    BY <1>t, <1>10 DEF GateStart, Execute, GuestStops, GuestExits, StubTypeOK
  <2>3. UNCHANGED <<asked, believed, connected, input, table, from>> /\ (UNCHANGED hooks \/ hooks' = <<>>)
    BY <1>10 DEF GateStart, Execute, GuestStops, GuestExits
  <2>4. pc' \in Code /\ gate' \in {"main", "stub"} /\ main' \in {"waiting", "running", "ended"}
    BY <1>t, <1>10 DEF GateStart, Execute, GuestStops, GuestExits, StubTypeOK
  <2>5. hooks' \in Seq(HookSet)
    <3>1. <<>> \in Seq(HookSet)
      OBVIOUS
    <3> QED
      BY <1>t, <2>3, <3>1 DEF StubTypeOK
  <2> QED
    BY <1>t, <2>1, <2>2, <2>3, <2>4, <2>5 DEF StubTypeOK
<1> QED
  BY <1>1, <1>2, <1>3, <1>4, <1>5, <1>6, <1>7, <1>8, <1>9, <1>10 DEF Next, Stub

LEMMA InitDebugInv == Init => DebugInv
<1> SUFFICES ASSUME Init PROVE DebugInv
  OBVIOUS
<1>1. StubTypeOK
  <2>1. /\ asked \in Wire /\ believed \subseteq Code /\ table \subseteq Code /\ pc \in Code /\ from \in Code
        /\ gate \in {"main", "stub"} /\ main \in {"waiting", "running", "ended"} /\ ran \in 0..2
    BY MarksAreOnWire DEF Init
  <2>4. first \in BOOLEAN /\ connected \in BOOLEAN
    BY Zenon DEF Init
  <2>2. input = <<>> /\ hooks = <<>>
    BY DEF Init
  <2>3. input \in Seq(Wire) /\ hooks \in Seq(HookSet)
    BY <2>2
  <2> QED
    BY <2>1, <2>3, <2>4 DEF StubTypeOK
<1>2. MutexInv /\ BreakInv /\ StepInv
  BY DEF Init, MutexInv, Resumed, BreakInv, StepInv
<1>3. WireInv
  BY DEF Init, WireInv, Once, Resumed
<1> QED
  BY <1>1, <1>2, <1>3 DEF DebugInv

\* The inductive invariant of the debugger, the stub and the guest: the stub has its mutex
\* while the guest runs, a packet to be answered is on the wire once, breakpoints have
\* their hooks, and a step's hook has been called when its instruction is done
\* (gdbstub.go:271-312, 373-437).
THEOREM DebugInvariant == Spec => []DebugInv
<1>1. DebugInv /\ [Next]_vars => DebugInv'
  BY TypeStep, MutexStep, WireStep, BreakStep, StepStep DEF DebugInv
<1> QED
  BY <1>1, InitDebugInv, PTL DEF Spec

\* The guest does no instruction at a breakpoint that has been set and never removed
\* (gdbstub.go:271-285).
THEOREM BreakpointsStop == Spec => StopsAtBreakpoints
<1>1. DebugInv /\ [Next]_vars => [Execute => pc \notin believed \ dropped]_vars
  <2> SUFFICES ASSUME DebugInv, Execute, pc \in believed \ dropped PROVE FALSE
    OBVIOUS
  <2>1. pc \in table \ dropped /\ main = "running" /\ pc \in Code
    BY DEF DebugInv, StubTypeOK, BreakInv, Execute
  <2>2. PICK i \in DOMAIN hooks : hooks[i] = BreakHook(pc)
    BY <2>1 DEF DebugInv, BreakInv, HookedAt
  <2>3. i \in OnCode(hooks, pc) /\ hooks[i].cb = "break"
    BY <2>1, <2>2, HooksOfCode DEF OnCode
  <2> QED
    BY <2>3 DEF Execute, Stops
<1> QED
  BY <1>1, DebugInvariant, PTL DEF Spec, StopsAtBreakpoints

\* A step is one instruction, or none where the guest exits or stands at a breakpoint
\* (gdbstub.go:300-312).
THEOREM StepsAreOne == Spec => []StepsOne
<1>1. DebugInv => StepsOne
  BY DEF DebugInv, StepInv, StepsOne, Range
<1> QED
  BY <1>1, DebugInvariant, PTL

-----------------------------------------------------------------------------
(* Symbols.  What a goroutine has of a file's symbols is an order of them  *)
(* that the sort may have left, whoever read the file, so that it is about *)
(* one bisection.                                                          *)

Named == [name : STRING \cup {NoName}, start : Nat, end : Nat]
Orders == CacheSym(SymbolsOf(symtab))
SymbolInv ==
  /\ symtab \in Tables /\ place \in Places /\ symFiles \subseteq Orders
  /\ asker = [c \in Askers |-> asker[c]]
  /\ \A c \in Askers :
       LET a == asker[c] IN
       /\ a = [at |-> a.at, addr |-> a.addr, syms |-> a.syms, got |-> a.got]
       /\ a.at \in {"idle", "look", "read", "keep", "search", "answered"} /\ a.addr \in Nat
       /\ a.at \in {"idle", "look", "read"} => a.syms = <<>>
       /\ a.at \in {"keep", "search"} => a.syms \in Orders
       /\ a.at = "answered" /\ a.syms # <<>> => a.syms \in Orders /\ a.got = Symbolicate(a.syms, a.addr)

\* A file's symbols have names and begin and end somewhere.
LEMMA TablesHaveSymbols ==
  ASSUME NEW t \in Tables
  PROVE  SymbolsOf(t) \in Seq(Named)
<1> DEFINE n == Len(t.syms)
<1>1. t.fat \in Nat /\ t.syms \in Seq([name : STRING, value : Nat, size : Nat, sect : Nat])
  BY SymbolsAssumption
<1>2. n \in Nat /\ DOMAIN t.syms = 1..n
      /\ \A i \in 1..n : t.syms[i].name \in STRING /\ t.syms[i].value \in Nat /\ t.syms[i].size \in Nat
  <2>1. n \in Nat /\ DOMAIN t.syms = 1..n
    BY <1>1
  <2> DEFINE Raw == [name : STRING, value : Nat, size : Nat, sect : Nat]
             s == t.syms
  <2>2. \A i \in 1..n : t.syms[i] \in Raw
    <3>1. s \in Seq(Raw) /\ n = Len(s)
      BY <1>1
    <3> HIDE DEF s, Raw, n
    <3>2. \A i \in 1..n : s[i] \in Raw
      BY <3>1
    <3> QED
      BY <3>2 DEF s
  <2> HIDE DEF n
  <2> QED
    BY <2>1, <2>2
<1> HIDE DEF n
<1>3. ElfSymbols(t.syms) \in [1..n -> Named]
  <2>1. \A i \in 1..n : Symbol(t.syms[i].name, t.syms[i].value, t.syms[i].value + t.syms[i].size) \in Named
    BY <1>2 DEF Symbol, Named
  <2> QED
    BY <1>2, <2>1 DEF ElfSymbols
<1>4. MachSymbols(t.syms, t.fat) \in [1..n -> Named]
  <2> DEFINE kept(i) == t.syms[i].sect # 0 /\ t.syms[i].name # NoName
             start(i) == IF kept(i) THEN t.syms[i].value + t.fat ELSE 0
             ends(i) == IF i < Len(t.syms) /\ kept(i + 1) THEN start(i + 1) ELSE 0
             name(i) == IF kept(i) THEN t.syms[i].name ELSE NoName
             sym(i) == Symbol(name(i), start(i), ends(i))
  <2>1. ASSUME NEW i \in 1..n
        PROVE  start(i) \in Nat
    <3>1. t.fat \in Nat /\ t.syms[i].value \in Nat
      BY <1>1, <1>2
    <3>2. t.syms[i].value + t.fat \in Nat
      BY ONLY <3>1
    <3> HIDE DEF kept
    <3>3. CASE kept(i)
      BY <3>2, <3>3
    <3>4. CASE ~kept(i)
      BY <3>4
    <3> QED
      BY <3>3, <3>4
  <2>2. ASSUME NEW i \in 1..n
        PROVE  ends(i) \in Nat
    <3>1. i < Len(t.syms) => i + 1 \in 1..n
      BY <1>2 DEF n
    <3> HIDE DEF start, kept
    <3> QED
      BY <2>1, <3>1
  <2>3. \A i \in 1..n : sym(i) \in Named
    <3> SUFFICES ASSUME NEW i \in 1..n
                 PROVE  sym(i) \in Named
      OBVIOUS
    <3> HIDE DEF kept, start, ends
    <3>1. name(i) \in STRING \cup {NoName}
      BY <1>2
    <3> HIDE DEF name
    <3> QED
      BY <2>1, <2>2, <3>1 DEF Symbol, Named
  <2>4. MachSymbols(t.syms, t.fat) = [i \in 1..n |-> sym(i)]
    BY <1>2, Zenon DEF MachSymbols
  <2> HIDE DEF sym
  <2> QED
    BY <2>3, <2>4
<1>5. SymbolsOf(t) \in [1..n -> Named]
  BY <1>3, <1>4 DEF SymbolsOf
<1> QED
  BY <1>2, <1>5

\* An order has the symbols of the table, each once, none before one it should follow.
LEMMA OrderIs ==
  ASSUME NEW syms \in Seq(Named), NEW z \in CacheSym(syms)
  PROVE  /\ z \in Seq(Named) /\ Len(z) = Len(syms)
         /\ \A i, j \in 1..Len(z) : i < j => ~Precedes(z[j], z[i])
         /\ \E p \in [1..Len(z) -> DOMAIN syms] :
              /\ \A i \in 1..Len(z) : z[i] = syms[p[i]]
              /\ \A i, j \in 1..Len(z) : i # j => p[i] # p[j]
              /\ \A k \in DOMAIN syms : \E i \in 1..Len(z) : p[i] = k
<1> DEFINE n == Len(syms)
<1>1. n \in Nat /\ DOMAIN syms = 1..n /\ \A i \in 1..n : syms[i] \in Named
  OBVIOUS
<1>2. PICK p \in Bijection(DOMAIN syms, DOMAIN syms) : z = [i \in DOMAIN syms |-> syms[p[i]]]
  BY DEF CacheSym
<1>3. \A i, j \in DOMAIN syms : i < j => ~Precedes(z[j], z[i])
  BY DEF CacheSym
<1>4. /\ p \in [1..n -> 1..n]
      /\ \A i, j \in 1..n : i # j => p[i] # p[j]
      /\ \A k \in 1..n : \E i \in 1..n : p[i] = k
  BY <1>1, <1>2 DEF Bijection, Injection, Surjection, IsInjective
<1>5. z = [i \in 1..n |-> syms[p[i]]]
  BY <1>1, <1>2
<1> HIDE DEF n
<1>6. z \in [1..n -> Named]
  BY <1>1, <1>4, <1>5
<1>7. z \in Seq(Named) /\ Len(z) = n
  BY <1>1, <1>6
<1>8. Len(z) = Len(syms)
  BY <1>7 DEF n
<1>9. \A i \in 1..n : z[i] = syms[p[i]]
  BY <1>5
<1>10. \A i, j \in 1..Len(z) : i < j => ~Precedes(z[j], z[i])
  BY <1>1, <1>3, <1>7
<1>11. /\ p \in [1..Len(z) -> DOMAIN syms]
       /\ \A i \in 1..Len(z) : z[i] = syms[p[i]]
       /\ \A i, j \in 1..Len(z) : i # j => p[i] # p[j]
       /\ \A k \in DOMAIN syms : \E i \in 1..Len(z) : p[i] = k
  <2>1. DOMAIN syms = 1..n
    BY <1>1 DEF n
  <2> QED
    BY <1>4, <1>7, <1>9, <2>1
<1> QED
  BY <1>7, <1>8, <1>10, <1>11

-----------------------------------------------------------------------------
(* Bisection, as a function on windows.                                    *)

HalvingOf(s, x, f, l, r) ==
  IF l > r THEN NoSymbol
  ELSE IF x >= s[(l + r) \div 2].end THEN f[<<(l + r) \div 2 + 1, r>>]
  ELSE IF x < s[(l + r) \div 2].start THEN f[<<l, (l + r) \div 2 - 1>>]
  ELSE s[(l + r) \div 2]
Windows(s) == (1..(Len(s) + 1)) \X (0..Len(s))
Halving(s, x, f) == [w \in Windows(s) |-> HalvingOf(s, x, f, w[1], w[2])]
IsSearch(s, x, f) == f = Halving(s, x, f)

LEMMA LeastOf ==
  ASSUME NEW S, S \subseteq Nat, S # {}
  PROVE  \E m \in S : \A n \in S : m <= n
<1>1. PICK m \in S : \A n \in S : ~ (<<n, m>> \in OpToRel(<, Nat))
  BY NatLessThanWellFounded, WFMin, Zenon
<1>2. \A n \in S : ~ (n < m)
  BY <1>1, Zenon DEF OpToRel
<1> QED
  BY <1>2

LEMMA MidIs ==
  ASSUME NEW n \in Nat, NEW l \in 1..(n + 1), NEW r \in 0..n, l <= r
  PROVE  /\ (l + r) \div 2 \in 1..n /\ l <= (l + r) \div 2 /\ (l + r) \div 2 <= r
         /\ (l + r) \div 2 - 1 \in 0..n /\ (l + r) \div 2 + 1 \in 1..(n + 1)
         /\ (l + r) \div 2 = r => l = r
  OBVIOUS

\* There is a function that bisects windows of up to any size.
Bisects(s, x, n, f) ==
  \A a \in 1..(Len(s) + 1), b \in 0..Len(s) : b - a < n => f[<<a, b>>] = HalvingOf(s, x, f, a, b)

LEMMA BisectsMore ==
  ASSUME NEW s, Len(s) \in Nat, NEW x, NEW n \in Nat, NEW f, Bisects(s, x, n, f)
  PROVE  Bisects(s, x, n + 1, Halving(s, x, f))
<1> DEFINE g == Halving(s, x, f)
<1>1. ASSUME NEW a \in 1..(Len(s) + 1), NEW b \in 0..Len(s)
      PROVE  g[<<a, b>>] = HalvingOf(s, x, f, a, b)
  BY DEF Halving, Windows
<1> HIDE DEF g
<1>2. ASSUME NEW a \in 1..(Len(s) + 1), NEW b \in 0..Len(s), b - a < n
      PROVE  g[<<a, b>>] = f[<<a, b>>]
  BY <1>1, <1>2 DEF Bisects
<1>3. ASSUME NEW a \in 1..(Len(s) + 1), NEW b \in 0..Len(s), b - a < n + 1
      PROVE  g[<<a, b>>] = HalvingOf(s, x, g, a, b)
  <2>1. CASE a > b
    BY <1>1, <2>1 DEF HalvingOf
  <2>2. CASE ~(a > b)
    <3> DEFINE mid == (a + b) \div 2
    <3>1. /\ mid \in 1..Len(s) /\ a <= mid /\ mid <= b
          /\ mid - 1 \in 0..Len(s) /\ mid + 1 \in 1..(Len(s) + 1)
      BY <2>2, MidIs
    <3>2. mid - 1 - a < n /\ b - (mid + 1) < n
      BY <1>3, <3>1
    <3>3. g[<<a, mid - 1>>] = f[<<a, mid - 1>>] /\ g[<<mid + 1, b>>] = f[<<mid + 1, b>>]
      BY <1>2, <3>1, <3>2
    <3> QED
      BY <1>1, <3>3 DEF HalvingOf
  <2> QED
    BY <2>1, <2>2
<1> QED
  BY <1>3 DEF Bisects, g

LEMMA SearchExists ==
  ASSUME NEW s, Len(s) \in Nat, NEW x
  PROVE  \E f : IsSearch(s, x, f)
<1> DEFINE Wrong == {n \in Nat : ~ \E f : Bisects(s, x, n, f)}
<1>1. ASSUME Wrong # {}
      PROVE  FALSE
  <2>1. Wrong \subseteq Nat
    OBVIOUS
  <2>2. PICK n \in Wrong : \A m \in Wrong : n <= m
    BY <1>1, <2>1, LeastOf
  <2>3. n \in Nat /\ ~ \E f : Bisects(s, x, n, f)
    BY <2>2
  <2>4. CASE n = 0
    <3> DEFINE f == [w \in Windows(s) |-> NoSymbol]
    <3>1. ASSUME NEW a \in 1..(Len(s) + 1), NEW b \in 0..Len(s), b - a < 0
          PROVE  f[<<a, b>>] = HalvingOf(s, x, f, a, b)
      <4>1. a > b
        BY <3>1
      <4>2. f[<<a, b>>] = NoSymbol
        BY DEF Windows
      <4> QED
        BY <4>1, <4>2 DEF HalvingOf
    <3>2. Bisects(s, x, 0, f)
      BY <3>1 DEF Bisects
    <3> QED
      BY <2>3, <2>4, <3>2
  <2>5. CASE n # 0
    <3>1. n - 1 \in Nat /\ n - 1 \notin Wrong
      <4>1. n - 1 \in Nat /\ ~(n <= n - 1)
        BY <2>3, <2>5
      <4> HIDE DEF Wrong
      <4> QED
        BY <2>2, <4>1
    <3>2. PICK f : Bisects(s, x, n - 1, f)
      BY <3>1
    <3>3. Bisects(s, x, (n - 1) + 1, Halving(s, x, f))
      BY <3>1, <3>2, BisectsMore
    <3>4. (n - 1) + 1 = n
      BY <2>3
    <3> QED
      BY <2>3, <3>3, <3>4
  <2> QED
    BY <2>4, <2>5
<1>2. Len(s) + 1 \in Nat /\ Len(s) + 1 \notin Wrong
  BY <1>1
<1>3. PICK f : Bisects(s, x, Len(s) + 1, f)
  BY <1>2
<1> DEFINE g == Halving(s, x, f)
<1>4. \A a \in 1..(Len(s) + 1), b \in 0..Len(s) : b - a < Len(s) + 1
  OBVIOUS
<1>5. \A a \in 1..(Len(s) + 1), b \in 0..Len(s) : f[<<a, b>>] = HalvingOf(s, x, f, a, b)
  BY <1>3, <1>4 DEF Bisects
<1>6. \A w \in Windows(s) : g[w] = f[w]
  <2> SUFFICES ASSUME NEW a \in 1..(Len(s) + 1), NEW b \in 0..Len(s)
               PROVE  g[<<a, b>>] = f[<<a, b>>]
    BY DEF Windows
  <2>1. g[<<a, b>>] = HalvingOf(s, x, f, a, b)
    BY DEF Halving, Windows
  <2> QED
    BY <1>5, <2>1
<1>7. ASSUME NEW w \in Windows(s)
      PROVE  HalvingOf(s, x, f, w[1], w[2]) = HalvingOf(s, x, g, w[1], w[2])
  <2>1. w[1] \in 1..(Len(s) + 1) /\ w[2] \in 0..Len(s)
    BY DEF Windows
  <2>2. CASE w[1] > w[2]
    BY <2>2 DEF HalvingOf
  <2>3. CASE ~(w[1] > w[2])
    <3> DEFINE mid == (w[1] + w[2]) \div 2
    <3>1. mid - 1 \in 0..Len(s) /\ mid + 1 \in 1..(Len(s) + 1)
      BY <2>1, <2>3, MidIs
    <3>2. <<w[1], mid - 1>> \in Windows(s) /\ <<mid + 1, w[2]>> \in Windows(s)
      BY <2>1, <3>1 DEF Windows
    <3>3. g[<<w[1], mid - 1>>] = f[<<w[1], mid - 1>>] /\ g[<<mid + 1, w[2]>>] = f[<<mid + 1, w[2]>>]
      BY <1>6, <3>2
    <3> HIDE DEF g
    <3> QED
      BY <3>3 DEF HalvingOf
  <2> QED
    BY <2>2, <2>3
<1>8. g = [w \in Windows(s) |-> HalvingOf(s, x, f, w[1], w[2])]
  BY Zenon DEF Halving
<1>9. [w \in Windows(s) |-> HalvingOf(s, x, f, w[1], w[2])] = [w \in Windows(s) |-> HalvingOf(s, x, g, w[1], w[2])]
  <2> HIDE DEF g
  <2> QED
    BY <1>7
<1>10. Halving(s, x, g) = [w \in Windows(s) |-> HalvingOf(s, x, g, w[1], w[2])]
  <2> HIDE DEF g
  <2> QED
    BY Zenon DEF Halving
<1>11. g = Halving(s, x, g)
  <2> HIDE DEF g
  <2> QED
    BY <1>8, <1>9, <1>10
<1> QED
  BY <1>11, Zenon DEF IsSearch

LEMMA BisectedIs ==
  ASSUME NEW s, Len(s) \in Nat, NEW x
  PROVE  \E g : IsSearch(s, x, g) /\ Bisected(s, x) = g[<<1, Len(s)>>]
<1> DEFINE g == CHOOSE f : f = Halving(s, x, f)
<1>1. \E f : f = Halving(s, x, f)
  BY SearchExists, Zenon DEF IsSearch
<1>2. g = Halving(s, x, g)
  BY <1>1, Zenon
<1>3. Bisected(s, x) = g[<<1, Len(s)>>]
  BY Zenon DEF Bisected, Halving, HalvingOf, Windows
<1> QED
  BY <1>2, <1>3, Zenon DEF IsSearch

\* In order, and with none but the last inside another, what ends before an address has
\* nothing that covers the address before it, and what begins behind it nothing behind it.
InOrder(s) == \A i, j \in 1..Len(s) : i < j => ~Precedes(s[j], s[i])
NoneInside(s) == \A i, j, k \in 1..Len(s) : s[i].start < s[j].start /\ s[j].end < s[i].end => k = j \/ Precedes(s[k], s[j])

LEMMA OneBisection ==
  ASSUME NEW s \in Seq(Named), NEW x \in Int, NEW f, IsSearch(s, x, f),
         InOrder(s),
         NEW l \in 1..(Len(s) + 1), NEW r \in 0..Len(s)
  PROVE  /\ f[<<l, r>>] = NoSymbol \/ \E k \in 1..Len(s) : f[<<l, r>>] = s[k] /\ Covers(s[k], x)
         /\ NoneInside(s) /\ (\E k \in l..r : Covers(s[k], x)) => Covers(f[<<l, r>>], x)
<1> DEFINE Good(a, b) ==
             /\ f[<<a, b>>] = NoSymbol \/ \E k \in 1..Len(s) : f[<<a, b>>] = s[k] /\ Covers(s[k], x)
             /\ NoneInside(s) /\ (\E k \in a..b : Covers(s[k], x)) => Covers(f[<<a, b>>], x)
           Wrong == {n \in Nat : \E a \in 1..(Len(s) + 1), b \in 0..Len(s) : a <= b /\ n = b - a /\ ~Good(a, b)}
<1>1. /\ Len(s) \in Nat
      /\ \A i \in 1..Len(s) : s[i].start \in Nat /\ s[i].end \in Nat
  <2>1. \A i \in 1..Len(s) : s[i] \in Named
    OBVIOUS
  <2> QED
    BY <2>1 DEF Named
<1>2. ASSUME NEW a \in 1..(Len(s) + 1), NEW b \in 0..Len(s)
      PROVE  f[<<a, b>>] = HalvingOf(s, x, f, a, b)
  <2>1. f = [w \in Windows(s) |-> HalvingOf(s, x, f, w[1], w[2])]
    BY Zenon DEF IsSearch, Halving
  <2>2. <<a, b>> \in Windows(s)
    BY DEF Windows
  <2> QED
    BY <2>1, <2>2
<1>3. ASSUME NEW a \in 1..(Len(s) + 1), NEW b \in 0..Len(s), a > b
      PROVE  Good(a, b)
  <2>1. f[<<a, b>>] = NoSymbol
    BY <1>2, <1>3 DEF HalvingOf
  <2>2. a..b = {}
    BY <1>3
  <2> QED
    BY <2>1, <2>2
<1>4. ASSUME Wrong # {}
      PROVE  FALSE
  <2>1. PICK n \in Wrong : \A m \in Wrong : n <= m
    <3>1. Wrong \subseteq Nat
      OBVIOUS
    <3> HIDE DEF Wrong
    <3> QED
      BY <1>4, <3>1, LeastOf
  <2>2. PICK a \in 1..(Len(s) + 1), b \in 0..Len(s) : a <= b /\ n = b - a /\ ~Good(a, b)
    BY <2>1
  <2> DEFINE mid == (a + b) \div 2
  <2>3. /\ mid \in 1..Len(s) /\ a <= mid /\ mid <= b
        /\ mid - 1 \in 0..Len(s) /\ mid + 1 \in 1..(Len(s) + 1)
        /\ mid = b => a = b
    BY <1>1, <2>2, MidIs
  <2>4. ASSUME NEW c \in 1..(Len(s) + 1), NEW d \in 0..Len(s), d - c < n
        PROVE  Good(c, d)
    <3> HIDE DEF Good
    <3>1. CASE c > d
      BY <1>3, <3>1
    <3>2. CASE c <= d
      <4>1. d - c \in Nat /\ n \in Nat
        BY <3>2, <2>1
      <4>2. d - c \notin Wrong
        <5> HIDE DEF Wrong
        <5> QED
          BY <4>1, <2>1, <2>4
      <4>3. c <= d /\ d - c = d - c /\ ~Good(c, d) => d - c \in Wrong
        BY <4>1
      <4> QED
        BY <4>2, <4>3, <3>2
    <3> QED
      BY <3>1, <3>2
  <2>5. Good(a, mid - 1) /\ Good(mid + 1, b)
    <3> HIDE DEF Good
    <3> QED
      BY <2>2, <2>3, <2>4
  <2>6. f[<<a, b>>] = IF x >= s[mid].end THEN f[<<mid + 1, b>>]
                      ELSE IF x < s[mid].start THEN f[<<a, mid - 1>>]
                      ELSE s[mid]
    BY <1>2, <2>2 DEF HalvingOf
  <2> HIDE DEF mid, Wrong, Good
  <2>7. CASE x >= s[mid].end
    <3>1. f[<<a, b>>] = f[<<mid + 1, b>>]
      BY <2>6, <2>7
    <3>2. ASSUME NoneInside(s), NEW k \in a..b, Covers(s[k], x)
          PROVE  k \in (mid + 1)..b
      <4>1. k \in 1..Len(s) /\ s[k].start <= x /\ x < s[k].end /\ mid \in 1..Len(s)
        BY <2>2, <2>3, <3>2 DEF Covers
      <4>2. s[mid].end < s[k].end
        <5>1. s[mid].end \in Nat /\ s[k].end \in Nat
          BY <1>1, <4>1
        <5> QED
          BY <2>7, <4>1, <5>1
      <4>3. ASSUME k < mid
            PROVE  FALSE
        <5>1. ~Precedes(s[mid], s[k])
          BY <4>1, <4>3 DEF InOrder
        <5>2. s[k].start < s[mid].start
          BY <1>1, <4>1, <4>2, <5>1 DEF Precedes
        <5>3. mid < b
          BY <2>2, <2>3, <4>3
        <5>4. mid + 1 \in 1..Len(s) /\ mid < mid + 1
          BY <1>1, <2>3, <5>3
        <5>5. ~Precedes(s[mid + 1], s[mid])
          BY <4>1, <5>4 DEF InOrder
        <5>6. mid + 1 # mid
          BY <5>4
        <5>7. NoneInside(s)
          BY <3>2
        <5> QED
          BY <4>1, <4>2, <5>2, <5>4, <5>5, <5>6, <5>7 DEF NoneInside
      <4>4. k # mid
        BY <1>1, <4>1, <4>2
      <4> QED
        BY <2>3, <4>1, <4>3, <4>4
    <3> QED
      BY <2>2, <2>5, <3>1, <3>2 DEF Good
  <2>8. CASE ~(x >= s[mid].end) /\ x < s[mid].start
    <3>1. f[<<a, b>>] = f[<<a, mid - 1>>]
      BY <2>6, <2>8
    <3>2. ASSUME NEW k \in a..b, Covers(s[k], x)
          PROVE  k \in a..(mid - 1)
      <4>1. k \in 1..Len(s) /\ s[k].start <= x /\ mid \in 1..Len(s)
        BY <2>2, <2>3, <3>2 DEF Covers
      <4>2. s[k].start < s[mid].start
        BY <1>1, <2>8, <4>1
      <4>3. ~(mid < k)
        BY <4>1, <4>2 DEF InOrder, Precedes
      <4>4. k # mid
        BY <1>1, <4>1, <4>2
      <4> QED
        BY <2>3, <4>1, <4>3, <4>4
    <3> QED
      BY <2>2, <2>5, <3>1, <3>2 DEF Good
  <2>9. CASE ~(x >= s[mid].end) /\ ~(x < s[mid].start)
    <3>1. f[<<a, b>>] = s[mid]
      BY <2>6, <2>9
    <3>2. Covers(s[mid], x)
      BY <1>1, <2>3, <2>9 DEF Covers
    <3> QED
      BY <2>2, <2>3, <3>1, <3>2 DEF Good
  <2> QED
    BY <2>7, <2>8, <2>9
<1>5. CASE l > r
  BY <1>3, <1>5
<1>6. CASE l <= r
  <2>1. r - l \in Nat
    BY <1>6
  <2>2. ~Good(l, r) => r - l \in Wrong
    <3> HIDE DEF Good
    <3> QED
      BY <1>6, <2>1
  <2> QED
    BY <1>4, <2>2
<1>7. l > r \/ l <= r
  OBVIOUS
<1> QED
  BY <1>5, <1>6, <1>7

\* Bisection finds something that covers the address, or nothing; and something if
\* there is any, unless there is one inside another.
LEMMA BisectionNames ==
  ASSUME NEW syms \in Seq(Named), NEW z \in CacheSym(syms), NEW x \in Int
  PROVE  /\ Bisected(z, x) = NoSymbol
            \/ \E k \in DOMAIN syms : Bisected(z, x) = syms[k] /\ Covers(syms[k], x)
         /\ ~OneInAnother(syms) /\ (\E k \in DOMAIN syms : Covers(syms[k], x)) => Covers(Bisected(z, x), x)
<1>1. z \in Seq(Named) /\ Len(z) = Len(syms) /\ Len(z) \in Nat /\ InOrder(z)
  BY OrderIs DEF InOrder
<1>2. PICK p \in [1..Len(z) -> DOMAIN syms] :
        /\ \A i \in 1..Len(z) : z[i] = syms[p[i]]
        /\ \A i, j \in 1..Len(z) : i # j => p[i] # p[j]
        /\ \A k \in DOMAIN syms : \E i \in 1..Len(z) : p[i] = k
  BY OrderIs
<1>3. ~OneInAnother(syms) => NoneInside(z)
  <2> SUFFICES ASSUME NEW i \in 1..Len(z), NEW j \in 1..Len(z), NEW k \in 1..Len(z),
                      z[i].start < z[j].start, z[j].end < z[i].end, k # j, ~Precedes(z[k], z[j])
               PROVE  OneInAnother(syms)
    BY DEF NoneInside
  <2>1. p[i] \in DOMAIN syms /\ p[j] \in DOMAIN syms /\ p[k] \in DOMAIN syms
    BY <1>2
  <2>2. z[i] = syms[p[i]] /\ z[j] = syms[p[j]] /\ z[k] = syms[p[k]] /\ p[k] # p[j]
    BY <1>2
  <2> QED
    BY <2>1, <2>2 DEF OneInAnother
<1>4. PICK g : IsSearch(z, x, g) /\ Bisected(z, x) = g[<<1, Len(z)>>]
  BY <1>1, BisectedIs
<1>5. 1 \in 1..(Len(z) + 1) /\ Len(z) \in 0..Len(z)
  BY <1>1
<1>7. /\ g[<<1, Len(z)>>] = NoSymbol \/ \E k \in 1..Len(z) : g[<<1, Len(z)>>] = z[k] /\ Covers(z[k], x)
      /\ NoneInside(z) /\ (\E k \in 1..Len(z) : Covers(z[k], x)) => Covers(g[<<1, Len(z)>>], x)
  <2>1. z \in Seq(Named) /\ InOrder(z) /\ IsSearch(z, x, g)
    BY <1>1, <1>4
  <2> QED
    BY <2>1, <1>5, OneBisection
<1>8. Bisected(z, x) = NoSymbol \/ \E k \in DOMAIN syms : Bisected(z, x) = syms[k] /\ Covers(syms[k], x)
  <2>1. \A k \in 1..Len(z) : p[k] \in DOMAIN syms /\ z[k] = syms[p[k]]
    BY <1>2
  <2> QED
    BY <1>4, <1>7, <2>1
<1>9. (\E k \in DOMAIN syms : Covers(syms[k], x)) => \E k \in 1..Len(z) : Covers(z[k], x)
  BY <1>2
<1> QED
  BY <1>3, <1>4, <1>7, <1>8, <1>9

\* An address is looked up where the file is mapped, and as it is.
LEMMA LookUpNames ==
  ASSUME NEW syms \in Seq(Named), NEW z \in CacheSym(syms), NEW addr \in Nat, place \in Places
  PROVE  /\ \/ Symbolicate(z, addr) = NoSymbol
            \/ Covers(Symbolicate(z, addr), InFile(addr))
            \/ Covers(Symbolicate(z, addr), addr)
         /\ /\ ~OneInAnother(syms)
            /\ \E i \in DOMAIN syms : Covers(syms[i], InFile(addr))
            /\ \A i \in DOMAIN syms : Covers(syms[i], InFile(addr)) => syms[i].name # NoName
            => Covers(Symbolicate(z, addr), InFile(addr))
<1>1. InFile(addr) \in Int /\ addr \in Int
  BY SymbolsAssumption DEF InFile
<1>2. /\ Bisected(z, InFile(addr)) = NoSymbol
         \/ \E k \in DOMAIN syms : Bisected(z, InFile(addr)) = syms[k] /\ Covers(syms[k], InFile(addr))
      /\ ~OneInAnother(syms) /\ (\E k \in DOMAIN syms : Covers(syms[k], InFile(addr)))
           => Covers(Bisected(z, InFile(addr)), InFile(addr))
  BY <1>1, BisectionNames
<1>3. Bisected(z, addr) = NoSymbol
      \/ \E k \in DOMAIN syms : Bisected(z, addr) = syms[k] /\ Covers(syms[k], addr)
  BY <1>1, BisectionNames
<1>4. Symbolicate(z, addr) =
        IF Bisected(z, InFile(addr)).name # NoName THEN Bisected(z, InFile(addr)) ELSE Bisected(z, addr)
  BY DEF Symbolicate
<1>5. NoSymbol.name = NoName /\ ~Covers(NoSymbol, InFile(addr))
  BY <1>1 DEF NoSymbol, Symbol, Covers
<1> DEFINE here == Bisected(z, InFile(addr))
           there == Bisected(z, addr)
<1> HIDE DEF here, there
<1> QED
  BY <1>2, <1>3, <1>4, <1>5

\* The invariant of the look-ups.
THEOREM SymbolInvariant == SymbolsSpec => []SymbolInv
<1>1. SymbolsInit => SymbolInv
  <2> SUFFICES ASSUME SymbolsInit
               PROVE  SymbolInv
    OBVIOUS
  <2>1. asker = [c \in Askers |-> NotAsking] /\ symFiles = {} /\ symtab \in Tables /\ place \in Places
    BY DEF SymbolsInit
  <2>2. \A c \in Askers : asker[c] = [at |-> "idle", addr |-> 0, syms |-> <<>>, got |-> NoSymbol]
    BY <2>1 DEF NotAsking, Asking
  <2>3. asker = [c \in Askers |-> asker[c]]
    BY <2>1
  <2> QED
    BY <2>1, <2>2, <2>3 DEF SymbolInv
<1>2. SymbolInv /\ [SymbolsNext]_symbolVars => SymbolInv'
  <2> SUFFICES ASSUME SymbolInv, [SymbolsNext]_symbolVars
               PROVE  SymbolInv'
    OBVIOUS
  <2>1. CASE UNCHANGED symbolVars
    <3>1. UNCHANGED <<symtab, place, symFiles, asker>>
      BY <2>1 DEF symbolVars
    <3>2. Orders' = Orders /\ \A s, x : Symbolicate(s, x)' = Symbolicate(s, x)
      BY <3>1 DEF Orders, Symbolicate, InFile
    <3> QED
      BY <3>1, <3>2 DEF SymbolInv
  <2>2. ASSUME NEW c \in Askers,
               (\E addr \in Addrs : Ask(c, addr)) \/ LookInFiles(c) \/ ReadFile(c) \/ Keep(c) \/ Search(c) \/ Take(c)
        PROVE  SymbolInv'
    <3> DEFINE a == asker[c]
    <3> DEFINE Fine(b) ==
          /\ b = [at |-> b.at, addr |-> b.addr, syms |-> b.syms, got |-> b.got]
          /\ b.at \in {"idle", "look", "read", "keep", "search", "answered"} /\ b.addr \in Nat
          /\ b.at \in {"idle", "look", "read"} => b.syms = <<>>
          /\ b.at \in {"keep", "search"} => b.syms \in Orders
          /\ b.at = "answered" /\ b.syms # <<>> => b.syms \in Orders /\ b.got = Symbolicate(b.syms, b.addr)
    <3>1. UNCHANGED <<symtab, place>>
      BY <2>2 DEF Ask, LookInFiles, ReadFile, Keep, Search, Take
    <3>2. Orders' = Orders /\ \A s, x : Symbolicate(s, x)' = Symbolicate(s, x)
      BY <3>1 DEF Orders, Symbolicate, InFile
    <3>3. Fine(a) /\ a.addr \in Nat /\ asker = [d \in Askers |-> asker[d]] /\ \A d \in Askers : Fine(asker[d])
      BY DEF SymbolInv
    <3>4. ASSUME NEW b, Fine(b), asker' = [asker EXCEPT ![c] = b], symFiles' \subseteq Orders
          PROVE  SymbolInv'
      <4>1. asker' = [d \in Askers |-> asker'[d]] /\ asker'[c] = b
        BY <3>3, <3>4
      <4>2. \A d \in Askers : d # c => asker'[d] = asker[d]
        BY <3>3, <3>4
      <4>3. \A d \in Askers : Fine(asker'[d])
        <5> HIDE DEF Fine
        <5> QED
          BY <3>3, <3>4, <4>1, <4>2
      <4> QED
        BY <3>1, <3>2, <3>4, <4>1, <4>3 DEF SymbolInv
    <3>5. symFiles \subseteq Orders
      BY DEF SymbolInv
    <3>6. ASSUME NEW addr \in Addrs, Ask(c, addr)
          PROVE  SymbolInv'
      <4> DEFINE at == IF addr \in place.addr..(place.addr + place.size - 1) THEN "look" ELSE "answered"
                 b == Asking(at, addr, <<>>, NoSymbol)
      <4>1. b = [at |-> at, addr |-> addr, syms |-> <<>>, got |-> NoSymbol] /\ at \in {"look", "answered"}
        <5>1. at \in {"look", "answered"}
          OBVIOUS
        <5> HIDE DEF at
        <5> QED
          BY <5>1 DEF Asking
      <4>2. addr \in Nat
        BY SymbolsAssumption
      <4>3. b = [at |-> b.at, addr |-> b.addr, syms |-> b.syms, got |-> b.got] /\ b.addr = addr /\ b.syms = <<>>
            /\ b.at \in {"look", "answered"}
        BY <4>1
      <4>4. asker' = [asker EXCEPT ![c] = b] /\ symFiles' = symFiles
        BY <3>6 DEF Ask
      <4> HIDE DEF b, at
      <4>5. Fine(b)
        BY <4>2, <4>3
      <4> HIDE DEF Fine
      <4> QED
        BY <3>4, <3>5, <4>4, <4>5
    <3> DEFINE Put(at, syms, got) == Asking(at, a.addr, syms, got)
    <3>7. ASSUME NEW at \in {"idle", "look", "read", "keep", "search", "answered"},
                 asker' = [asker EXCEPT ![c].at = at]
          PROVE  asker' = [asker EXCEPT ![c] = Put(at, a.syms, a.got)]
      <4>1. [a EXCEPT !.at = at] = Put(at, a.syms, a.got)
        BY <3>3 DEF Asking
      <4> QED
        BY <3>7, <4>1
    <3>8. CASE LookInFiles(c)
      <4>1. a.at = "look" /\ symFiles' = symFiles /\ a.syms = <<>>
        BY <3>3, <3>8 DEF LookInFiles
      <4>2. CASE asker' = [asker EXCEPT ![c].at = "read"]
        <5>1. Fine(Put("read", a.syms, a.got))
          BY <3>3, <4>1 DEF Asking
        <5>2. asker' = [asker EXCEPT ![c] = Put("read", a.syms, a.got)]
          BY <3>7, <4>2
        <5> HIDE DEF Fine, Put
        <5> QED
          BY <3>4, <3>5, <4>1, <5>1, <5>2
      <4>3. ASSUME NEW syms \in symFiles, asker' = [asker EXCEPT ![c] = Asking("search", @.addr, syms, @.got)]
            PROVE  SymbolInv'
        <5>1. Fine(Put("search", syms, a.got))
          BY <3>3, <3>5, <4>1 DEF Asking
        <5>2. asker' = [asker EXCEPT ![c] = Put("search", syms, a.got)]
          BY <4>3
        <5> HIDE DEF Fine, Put
        <5> QED
          BY <3>4, <3>5, <4>1, <5>1, <5>2
      <4> QED
        BY <3>8, <4>2, <4>3 DEF LookInFiles, To
    <3>9. CASE ReadFile(c)
      <4>1. a.at = "read" /\ symFiles' = symFiles /\ a.syms = <<>>
        BY <3>3, <3>9 DEF ReadFile
      <4>2. CASE asker' = [asker EXCEPT ![c].at = "answered"]
        <5>1. Fine(Put("answered", a.syms, a.got))
          BY <3>3, <4>1 DEF Asking
        <5>2. asker' = [asker EXCEPT ![c] = Put("answered", a.syms, a.got)]
          BY <3>7, <4>2
        <5> HIDE DEF Fine, Put
        <5> QED
          BY <3>4, <3>5, <4>1, <5>1, <5>2
      <4>3. ASSUME NEW syms \in Orders, asker' = [asker EXCEPT ![c] = Asking("keep", @.addr, syms, @.got)]
            PROVE  SymbolInv'
        <5>1. Fine(Put("keep", syms, a.got))
          BY <3>3, <4>1 DEF Asking
        <5>2. asker' = [asker EXCEPT ![c] = Put("keep", syms, a.got)]
          BY <4>3
        <5> HIDE DEF Fine, Put
        <5> QED
          BY <3>4, <3>5, <4>1, <5>1, <5>2
      <4> QED
        BY <3>9, <4>2, <4>3 DEF ReadFile, To, Orders
    <3>10. CASE Keep(c)
      <4>1. a.at = "keep" /\ a.syms \in Orders /\ symFiles' = {a.syms} /\ asker' = [asker EXCEPT ![c].at = "search"]
        BY <3>3, <3>10 DEF Keep, To
      <4>2. Fine(Put("search", a.syms, a.got))
        BY <3>3, <4>1 DEF Asking
      <4>3. asker' = [asker EXCEPT ![c] = Put("search", a.syms, a.got)]
        BY <3>7, <4>1
      <4>4. symFiles' \subseteq Orders
        BY <4>1
      <4> HIDE DEF Fine, Put
      <4> QED
        BY <3>4, <4>2, <4>3, <4>4
    <3>11. CASE Search(c)
      <4>1. /\ a.at = "search" /\ a.syms \in Orders /\ symFiles' = symFiles
            /\ asker' = [asker EXCEPT ![c] = Put("answered", a.syms, Symbolicate(a.syms, a.addr))]
        BY <3>3, <3>11 DEF Search
      <4>2. Fine(Put("answered", a.syms, Symbolicate(a.syms, a.addr)))
        BY <3>3, <4>1 DEF Asking
      <4> HIDE DEF Fine, Put
      <4> QED
        BY <3>4, <3>5, <4>1, <4>2
    <3>12. CASE Take(c)
      <4>1. asker' = [asker EXCEPT ![c] = NotAsking] /\ symFiles' = symFiles
        BY <3>12 DEF Take
      <4>2. Fine(NotAsking)
        BY DEF NotAsking, Asking
      <4> HIDE DEF Fine
      <4> QED
        BY <3>4, <3>5, <4>1, <4>2
    <3> QED
      BY <2>2, <3>6, <3>8, <3>9, <3>10, <3>11, <3>12
  <2> QED
    BY <2>1, <2>2 DEF SymbolsNext
<1> QED
  BY <1>1, <1>2, PTL DEF SymbolsSpec

\* Who has a file's symbols gets one that contains the address, however the file orders
\* them and whoever read it first (debug.go:31-59, file.go:52-58, 170-186).
THEOREM SymbolsAreFound == SymbolsSpec => []FindsSymbols
<1>1. SymbolInv => FindsSymbols
  <2> SUFFICES ASSUME SymbolInv, NEW c \in Askers, asker[c].at = "answered", asker[c].syms # <<>>
               PROVE  LET syms == SymbolsOf(symtab)
                          addr == asker[c].addr
                          covering == {i \in DOMAIN syms : Covers(syms[i], InFile(addr))} IN
                      /\ asker[c].got = NoSymbol \/ Covers(asker[c].got, InFile(addr)) \/ Covers(asker[c].got, addr)
                      /\ (~OneInAnother(syms) /\ covering # {} /\ \A i \in covering : syms[i].name # NoName) =>
                           Covers(asker[c].got, InFile(addr))
    BY DEF FindsSymbols
  <2> DEFINE syms == SymbolsOf(symtab)
             addr == asker[c].addr
             z == asker[c].syms
  <2>1. symtab \in Tables /\ place \in Places /\ addr \in Nat /\ z \in CacheSym(syms) /\ asker[c].got = Symbolicate(z, addr)
    BY DEF SymbolInv, Orders
  <2>2. syms \in Seq(Named)
    BY <2>1, TablesHaveSymbols
  <2> HIDE DEF syms, addr, z
  <2>3. /\ \/ Symbolicate(z, addr) = NoSymbol
           \/ Covers(Symbolicate(z, addr), InFile(addr))
           \/ Covers(Symbolicate(z, addr), addr)
        /\ /\ ~OneInAnother(syms)
           /\ \E i \in DOMAIN syms : Covers(syms[i], InFile(addr))
           /\ \A i \in DOMAIN syms : Covers(syms[i], InFile(addr)) => syms[i].name # NoName
           => Covers(Symbolicate(z, addr), InFile(addr))
    BY <2>1, <2>2, LookUpNames
  <2>4. asker[c].got = NoSymbol \/ Covers(asker[c].got, InFile(addr)) \/ Covers(asker[c].got, addr)
    BY <2>1, <2>3
  <2> DEFINE covering == {i \in DOMAIN syms : Covers(syms[i], InFile(addr))}
  <2>5. (~OneInAnother(syms) /\ covering # {} /\ \A i \in covering : syms[i].name # NoName) =>
           Covers(asker[c].got, InFile(addr))
    BY <2>1, <2>3
  <2> QED
    BY <2>4, <2>5 DEF syms, addr
<1> QED
  BY <1>1, SymbolInvariant, PTL
==============================================================================
