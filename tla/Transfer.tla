------------------------------ MODULE Transfer ------------------------------
(***************************************************************************)
(* Bytes between the guest's memory and the host: read and write of the    *)
(* POSIX kernel and their kin (kernel/posix/io.go, iovec.go, socket.go),   *)
(* and of the CGC kernel (arch/x86/cgc.go).                                *)
(*                                                                         *)
(* A call moves pieces: the buffers of an iovec, or the chunks that read   *)
(* is cut in, which all go to the same address.  The bytes of the host's   *)
(* stream are its numbers from 1 on.                                       *)
(***************************************************************************)
EXTENDS Naturals, SequencesExt

CONSTANTS
  Chunk,     \* 65536 in the program
  Cells,     \* addresses of the guest that are mapped
  Buffers,   \* addresses and sizes of buffers
  StreamLen, \* bytes the host has
  MaxTransfers   \* bound: calls

ASSUME TransferAssumption ==
  /\ Chunk \in Nat \ {0} /\ StreamLen \in Nat
  /\ Cells \subseteq Nat /\ Buffers \subseteq [addr : Nat, size : Nat]

VARIABLES
  taken,     \* how many bytes were read of the host's stream
  sent,      \* what was written to the host
  memory,    \* the guest's
  call,      \* the call that is made
  before,    \* history: taken, sent and memory when it began
  made       \* calls so far
transferVars == <<taken, sent, memory, call, before, made>>

Buffer(a, n) == [addr |-> a, size |-> n]
Span(a, n) == a..(a + n - 1)
Readable(b) == Span(b.addr, b.size) \subseteq Cells
Idle == [kind |-> "none", bufs |-> <<>>, pieces |-> <<>>, done |-> 0, result |-> "none", short |-> FALSE]

Reads == {"read", "readv", "pread", "recvfrom", "receive"}
Writes == {"write", "writev", "pwrite", "sendto", "transmit"}
Vectored == {"readv", "writev"}
\* These give the guest their whole buffer, whatever came.
Whole == {"pread", "recvfrom"}

\* Read's loop; the last chunk is what is left.
ChunksOf(b) ==
  [i \in 1..((b.size + Chunk - 1) \div Chunk) |->
     Buffer(b.addr, IF i * Chunk > b.size THEN b.size - (i - 1) * Chunk ELSE Chunk)]
PiecesOf(kind, bufs) == IF kind = "read" THEN ChunksOf(bufs[1]) ELSE bufs

-----------------------------------------------------------------------------

Begin(kind, bufs) ==
  /\ call.pieces = <<>> /\ made < MaxTransfers
  /\ call' = [Idle EXCEPT !.kind = kind, !.bufs = bufs, !.pieces = PiecesOf(kind, bufs),
                          !.result = IF PiecesOf(kind, bufs) = <<>> THEN "done" ELSE "none"]
  /\ before' = [taken |-> taken, sent |-> sent, memory |-> memory]
  /\ made' = made + 1
  /\ UNCHANGED <<taken, sent, memory>>

Piece == Head(call.pieces)
Returns(what) == call' = [call EXCEPT !.pieces = <<>>, !.result = what]

\* The host refuses, after whatever was moved already; or a write that has one buffer
\* cannot read it.
HostFails ==
  /\ call.pieces # <<>> /\ Returns("error")
  /\ UNCHANGED <<taken, sent, memory, before, made>>

\* Only read stops at a piece that was not filled; the end of the stream is a piece
\* of no bytes.
MovedOnce(n) ==   \* mutant: the count is that of the last piece
  LET rest == IF call.kind = "read" /\ n < Chunk THEN <<>> ELSE Tail(call.pieces) IN
  call' = [call EXCEPT !.pieces = rest, !.done = n, !.short = @ \/ n < Piece.size,
                       !.result = IF rest = <<>> THEN "done" ELSE "none"]
Moved(n) ==
  LET rest == IF call.kind = "read" /\ n < Chunk THEN <<>> ELSE Tail(call.pieces) IN
  call' = [call EXCEPT !.pieces = rest, !.done = @ + n, !.short = @ \/ n < Piece.size,
                       !.result = IF rest = <<>> THEN "done" ELSE "none"]

\* Memory is written as a whole or not at all.
ReadPiece(n) ==
  LET width == IF call.kind \in Whole THEN Piece.size ELSE n
      fits == Span(Piece.addr, width) \subseteq Cells IN
  /\ call.kind \in Reads /\ call.pieces # <<>>
  /\ n <= Piece.size /\ taken + n <= StreamLen
  /\ n = 0 => Piece.size = 0 \/ taken = StreamLen
  /\ taken' = taken + n
  /\ memory' = IF ~fits THEN memory
               ELSE [x \in Cells |-> IF x \notin Span(Piece.addr, width) THEN memory[x]
                                     ELSE IF x - Piece.addr < n THEN taken + 1 + x - Piece.addr ELSE 0]
  /\ IF fits \/ call.kind \in Vectored THEN Moved(n) ELSE Returns("error")
  /\ UNCHANGED <<sent, before, made>>

\* What a buffer holds: writev does not look at the error of one that cannot be read in
\* full, and has as many zeros.
Holds(mem, b, n) == [i \in 1..n |-> IF Readable(b) THEN mem[b.addr + i - 1] ELSE 0]
WritePiece(n) ==
  /\ call.kind \in Writes /\ call.pieces # <<>>
  /\ Readable(Piece) \/ call.kind \in Vectored
  /\ n <= Piece.size /\ (n = 0 => Piece.size = 0)
  /\ sent' = sent \o Holds(memory, Piece, n)
  /\ Moved(n)
  /\ UNCHANGED <<taken, memory, before, made>>

TransferInit ==
  /\ taken = 0 /\ sent = <<>> /\ memory = [x \in Cells |-> 0] /\ call = Idle /\ made = 0
  /\ before = [taken |-> 0, sent |-> <<>>, memory |-> memory]

TransferNext ==
  \/ \E kind \in Reads \cup Writes, b, c \in Buffers :
       Begin(kind, IF kind \in Vectored THEN <<b, c>> ELSE <<b>>)
  \/ HostFails
  \/ \E n \in 0..StreamLen : ReadPiece(n) \/ WritePiece(n)

TransferSpec == TransferInit /\ [][TransferNext]_transferVars

-----------------------------------------------------------------------------
\* What the call gives back: sendto says 0 of whatever it sent.
Returned == IF call.kind = "sendto" THEN 0 ELSE call.done

\* What a buffer held, and those of a call, when it began.
HeldIn(b) == Holds(before.memory, b, b.size)
Held == HeldIn(call.bufs[1]) \o (IF Len(call.bufs) = 2 THEN HeldIn(call.bufs[2]) ELSE <<>>)

\* A call that returns a count has moved as many bytes; what one piece took is in its
\* place, in order, and what was given is what its buffers held, when no piece of it was
\* moved in part (zeros, for a buffer of writev that cannot be read); nothing outside of
\* the buffers changes (io.go:13-47, 142-191).
CountsWhatMoved ==
  call.result = "done" =>
    LET spans == UNION {Span(call.bufs[i].addr, call.bufs[i].size) : i \in DOMAIN call.bufs}
        first == call.bufs[1] IN
    /\ call.kind # "sendto" => Returned = (taken - before.taken) + (Len(sent) - Len(before.sent))
    /\ \A x \in Cells \ spans : memory[x] = before.memory[x]
    /\ (call.kind \in Reads /\ Len(call.bufs) = 1 /\ first.size <= Chunk) =>
         \A i \in 1..call.done : memory[first.addr + i - 1] = before.taken + i
    /\ (call.kind \in Writes /\ ~call.short) => sent = before.sent \o Held
=============================================================================
