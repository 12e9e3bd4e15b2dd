----------------------------- MODULE PosixFiles -----------------------------
(***************************************************************************)
(* The POSIX kernel's files: guest descriptors are the host's own, and     *)
(* beside them the kernel keeps a table of the paths that open was given,  *)
(* for openat, mmap and getdents (kernel/posix, kernel/linux/io.go).       *)
(*                                                                         *)
(* A path is the sequence of its names from the root.  What is read and    *)
(* written, modes and the prefix put before paths are left out.            *)
(***************************************************************************)
EXTENDS Naturals, SequencesExt

CONSTANTS
  Dirs,      \* directories, each with the sequence of its entries' names
  Size,      \* the size of each entry when it is written
  MaxFd,     \* descriptors the host gives a process, counted from 0
  Counts,    \* sizes of getdents' buffers
  MaxFileCalls   \* bound: calls made

\* The host counts its descriptors; every name that a directory lists has a size.
ASSUME HostCounts == MaxFd \in Nat /\ Counts \subseteq Nat
ASSUME DirsHaveSizes ==
  /\ {".", ".."} \subseteq DOMAIN Size /\ \A name \in DOMAIN Size : Size[name] \in Nat
  /\ \A d \in DOMAIN Dirs : Dirs[d] \in Seq(DOMAIN Size)

VARIABLES
  host,      \* the host's open descriptors, each with its path
  files,     \* PosixKernel.Files
  cwd,       \* the working directory
  owned,     \* descriptors in an os.File that nothing refers to any more
  given,     \* history: the entries each descriptor's getdents has given
  ended,     \* history: descriptors whose getdents has returned 0
  astray,    \* history: entries whose descriptor was changed past the table
  calls
fileVars == <<host, files, cwd, owned, given, ended, astray, calls>>

Unnamed == <<"|">>   \* the path of a pipe, a socket or an event descriptor
Paths == DOMAIN Dirs \cup {Append(d, n) : d \in DOMAIN Dirs, n \in {"a", "b"}}

OneCall == calls < MaxFileCalls /\ calls' = calls + 1
Without(f, x) == [y \in DOMAIN f \ {x} |-> f[y]]
With(f, x, v) == [y \in DOMAIN f \cup {x} |-> IF y = x THEN v ELSE f[y]]

Free == (0..MaxFd) \ DOMAIN host
Lowest == Min(Free)

-----------------------------------------------------------------------------

\* The host may refuse, for want of descriptors or otherwise: nothing changes then.
OpenAt(path) ==
  /\ Free # {}
  /\ path \in Paths
  /\ host' = With(host, Lowest, path)
  /\ files' = With(files, Lowest, [path |-> path, dirents |-> <<>>, offset |-> 0])
  /\ given' = [given EXCEPT ![Lowest] = <<>>]
  /\ ended' = ended \ {Lowest}
  /\ astray' = astray \ {Lowest}
  /\ UNCHANGED <<cwd, owned>>

Open(path) == OneCall /\ OpenAt(path)
OpenRelative(name) == OneCall /\ OpenAt(Append(cwd, name))

\* Openat, with a name below a directory's descriptor.
Openat(dirfd, name) ==
  /\ OneCall
  /\ dirfd \in DOMAIN files
  /\ OpenAt(Append(files[dirfd].path, name))

CloseKeeping(fd) ==   \* mutant: the table keeps its entry
  /\ OneCall
  /\ fd # 2 /\ fd \in DOMAIN host
  /\ host' = Without(host, fd)
  /\ astray' = astray \ {fd}
  /\ UNCHANGED <<files, cwd, owned, given, ended>>

\* Descriptor 2 is kept open.
Close(fd) ==
  /\ OneCall
  /\ fd # 2 /\ fd \in DOMAIN host
  /\ files' = Without(files, fd)
  /\ host' = Without(host, fd)
  /\ astray' = astray \ {fd}
  /\ UNCHANGED <<cwd, owned, given, ended>>

\* Dup, Socket, Eventfd: one descriptor the table does not hear of.
Dup(fd) ==
  /\ OneCall
  /\ fd \in DOMAIN host /\ Free # {}
  /\ host' = With(host, Lowest, host[fd])
  /\ UNCHANGED <<files, cwd, owned, given, ended, astray>>
Socket ==
  /\ OneCall
  /\ Free # {}
  /\ host' = With(host, Lowest, Unnamed)
  /\ UNCHANGED <<files, cwd, owned, given, ended, astray>>

\* Pipe, Pipe2 and Socketpair: two, which stay open when the guest's memory cannot
\* be told of them.
Pipe ==
  /\ OneCall
  /\ \E b \in Free :
       /\ b > Lowest /\ Lowest..b \cap Free = {Lowest, b}
       /\ host' = With(With(host, Lowest, Unnamed), b, Unnamed)
  /\ UNCHANGED <<files, cwd, owned, given, ended, astray>>

\* Dup2, Dup3.
Dup2(old, new) ==
  /\ OneCall
  /\ old \in DOMAIN host
  /\ host' = With(host, new, host[old])
  /\ astray' = IF new \in DOMAIN files THEN astray \cup {new} ELSE astray
  /\ UNCHANGED <<files, cwd, owned, given, ended>>

Chdir(d) ==
  /\ OneCall
  /\ d \in DOMAIN Dirs
  /\ cwd' = d
  /\ UNCHANGED <<host, files, owned, given, ended, astray>>

\* Mmap duplicates the descriptor, and closes the duplicate only if it knows a path.
Mmap(fd) ==
  /\ OneCall
  /\ fd > 0 /\ fd \in DOMAIN host /\ Free # {}
  /\ host' = IF fd \in DOMAIN files THEN host ELSE With(host, Lowest, host[fd])
  /\ UNCHANGED <<files, cwd, owned, given, ended, astray>>

\* Sendfile wraps both descriptors; Go closes what was wrapped when it collects it,
\* whatever the descriptor is by then.
Sendfile(out, in) ==
  /\ OneCall
  /\ owned' = owned \cup {out, in}
  /\ UNCHANGED <<host, files, cwd, given, ended, astray>>

Collect(fd) ==
  /\ fd \in owned
  /\ owned' = owned \ {fd}
  /\ host' = Without(host, fd)
  /\ astray' = IF fd \in DOMAIN files THEN astray \cup {fd} ELSE astray
  /\ UNCHANGED <<files, cwd, given, ended, calls>>

-----------------------------------------------------------------------------
(* getdents: the directory is read once, at the first call.                *)

Listing(path) == <<"..", ".">> \o Dirs[path]

\* How many of the entries fit: room is what the first of them take.
Fitting(left, count) ==
  LET room[n \in 0..Len(left)] == IF n = 0 THEN 0 ELSE room[n - 1] + Size[left[n]] IN
  Max({n \in 0..Len(left) : room[n] <= count})

TakenSkipping(left, count) ==   \* mutant: the entry that does not fit is passed over
  LET n == Fitting(left, count) IN IF n < Len(left) THEN n + 1 ELSE n
Taken(left, count) == Fitting(left, count)

Getdents(fd, count) ==
  LET f == files[fd]
      dents == IF f.dirents = <<>> THEN Listing(f.path) ELSE f.dirents
      left == SubSeq(dents, f.offset + 1, Len(dents)) IN
  /\ OneCall
  /\ fd \in DOMAIN files /\ f.path \in DOMAIN Dirs
  /\ files' = [files EXCEPT ![fd].dirents = dents, ![fd].offset = @ + Taken(left, count)]
  /\ given' = [given EXCEPT ![fd] = @ \o SubSeq(left, 1, Fitting(left, count))]
  /\ ended' = IF Fitting(left, count) = 0 /\ \A n \in DOMAIN Size : Size[n] <= count
              THEN ended \cup {fd} ELSE ended
  /\ UNCHANGED <<host, cwd, owned, astray>>

-----------------------------------------------------------------------------

FilesInit ==
  /\ host = [fd \in 0..2 |-> Unnamed]
  /\ files = [fd \in {} |-> [path |-> <<>>, dirents |-> <<>>, offset |-> 0]]
  /\ cwd \in DOMAIN Dirs
  /\ owned = {}
  /\ given = [fd \in 0..MaxFd |-> <<>>]
  /\ ended = {}
  /\ astray = {}
  /\ calls = 0

FilesNext ==
  \/ \E p \in Paths : Open(p) \/ Chdir(p)
  \/ \E name \in {"a", "b"} :
       OpenRelative(name) \/ \E fd \in 0..MaxFd : Openat(fd, name)
  \/ Socket \/ Pipe
  \/ \E fd \in 0..MaxFd :
       \/ Close(fd) \/ Dup(fd) \/ Mmap(fd) \/ Collect(fd)
       \/ \E count \in Counts : Getdents(fd, count)
       \/ \E to \in 0..MaxFd : Dup2(fd, to) \/ Sendfile(fd, to)

FilesSpec == FilesInit /\ [][FilesNext]_fileVars

-----------------------------------------------------------------------------
\* A path in the table is that of the host's descriptor of that number, but for
\* numbers that dup2 redirected or the collector closed (posix.PosixKernel.Files).
FilesFollowHost ==
  \A fd \in DOMAIN files \ astray : fd \in DOMAIN host /\ host[fd] = files[fd].path

\* A directory read to its end, with buffers an entry fits in, has given each of its
\* entries once, however they fell on the calls (linux getdents).
ListedOnce ==
  \A fd \in DOMAIN files :
    /\ IsPrefix(given[fd], files[fd].dirents)
    /\ fd \in ended => given[fd] = files[fd].dirents
=============================================================================
