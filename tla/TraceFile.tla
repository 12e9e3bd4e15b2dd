----------------------------- MODULE TraceFile -----------------------------
(***************************************************************************)
(* The trace file: how operations are written (models/trace/ops.go), and   *)
(* a file of them, written by an emulator that may be killed in the middle *)
(* and read afterwards (tracefile.go).                                     *)
(*                                                                         *)
(* An operation is its code, its numbers, its texts, its arguments and the *)
(* operations in it.  A byte has Byte values, 256 in the program; the code *)
(* of an operation, a byte too, is kept whole.  The compression is left    *)
(* out: what is cut off the file is cut off what it holds.                 *)
(***************************************************************************)
EXTENDS Naturals, SequencesExt

CONSTANTS
  Byte,      \* how many values a byte has
  Header,    \* the header's architecture, system and byte order
  Writable,  \* bound: the frames and keyframes written
  MaxFrames  \* bound: how many

VARIABLES
  written,  \* what the writer was given
  bytes,    \* the file
  phase,    \* "writing", "open", "reading", "read" to its end or "unreadable"
  unread,   \* what the reader has not read yet
  got       \* what it has
vars == <<written, bytes, phase, unread, got>>

Op(code, nums, texts, args, ops) ==
  [code |-> code, nums |-> nums, texts |-> texts, args |-> args, ops |-> ops]

-----------------------------------------------------------------------------
(* Layouts: the widths in bytes of an operation's numbers, of the lengths  *)
(* of its texts and of the counts of its arguments and operations, written *)
(* in this order before the arguments, the texts and the operations.       *)

Layout(nums, texts, args, ops) == [nums |-> nums, texts |-> texts, args |-> args, ops |-> ops]
Frames == {1, 2}
Map == 9
Syscall == 12

NopLayout == Layout(<<>>, <<>>, <<>>, <<>>)
FrameLayout == Layout(<<8>>, <<>>, <<>>, <<4>>)
KeyframeLayout == Layout(<<8>>, <<>>, <<>>, <<4>>)
JmpLayout == Layout(<<8, 4>>, <<>>, <<>>, <<>>)
StepLayout == Layout(<<1>>, <<>>, <<>>, <<>>)
RegLayout == Layout(<<2, 8>>, <<>>, <<>>, <<>>)
SpRegLayout == Layout(<<2>>, <<2>>, <<>>, <<>>)
MemReadLayout == Layout(<<8, 4>>, <<>>, <<>>, <<>>)
MemWriteLayout == Layout(<<8>>, <<4>>, <<>>, <<>>)
MemMapLayout == Layout(<<8, 8, 1, 8, 8>>, <<2, 2>>, <<>>, <<>>)
MemUnmapLayout == Layout(<<8, 8>>, <<>>, <<>>, <<>>)
MemProtLayout == Layout(<<8, 8, 1>>, <<>>, <<>>, <<>>)
SyscallLayout == Layout(<<4, 8>>, <<>>, <<1>>, <<2>>)
Layouts ==
  <<NopLayout, FrameLayout, KeyframeLayout, JmpLayout, StepLayout, RegLayout, SpRegLayout, MemReadLayout,
    MemWriteLayout, MemMapLayout, MemUnmapLayout, MemProtLayout, SyscallLayout, NopLayout>>  \* OP_EXIT
LayoutOf(code) == Layouts[code + 1]

Sum(s) == FoldLeft(LAMBDA a, b : a + b, 0, s)

\* Little endian, cut to the width.
Digits(n, width) == [i \in 1..width |-> (n \div Byte ^ (i - 1)) % Byte]
Number(s) == Sum([i \in DOMAIN s |-> s[i] * Byte ^ (i - 1)])

RECURSIVE Sizeof(_), Pack(_)
Sizeof(op) ==
  LET l == LayoutOf(op.code) IN
  1 + Sum(l.nums) + Sum(l.texts) + Sum(l.args) + Sum(l.ops) + 8 * Len(op.args)
    + Sum([i \in DOMAIN op.texts |-> Len(op.texts[i])]) + Sum([i \in DOMAIN op.ops |-> Sizeof(op.ops[i])])

Pack(op) ==
  LET l == LayoutOf(op.code) IN
  <<op.code>>
  \o FlattenSeq([i \in DOMAIN l.nums |-> Digits(op.nums[i], l.nums[i])])
  \o FlattenSeq([i \in DOMAIN l.texts |-> Digits(Len(op.texts[i]), l.texts[i])])
  \o FlattenSeq([i \in DOMAIN l.args |-> Digits(Len(op.args), l.args[i])])
  \o FlattenSeq([i \in DOMAIN l.ops |-> Digits(Len(op.ops), l.ops[i])])
  \o FlattenSeq([i \in DOMAIN op.args |-> Digits(op.args[i], 8)])
  \o FlattenSeq(op.texts)
  \o FlattenSeq([i \in DOMAIN op.ops |-> Pack(op.ops[i])])

\* The counts and lengths that their fields can hold.
RECURSIVE Fits(_)
Fits(op) ==
  LET l == LayoutOf(op.code) IN
  /\ \A i \in DOMAIN l.args : Len(op.args) < Byte ^ l.args[i]
  /\ \A i \in DOMAIN l.ops : Len(op.ops) < Byte ^ l.ops[i]
  /\ \A i \in DOMAIN l.texts : Len(op.texts[i]) < Byte ^ l.texts[i]
  /\ op.code = Map => Len(op.texts[1]) + Len(op.texts[2]) < Byte ^ 2
  /\ \A i \in DOMAIN op.ops : Fits(op.ops[i])

-----------------------------------------------------------------------------
(* Reading.  A result is what was read and the rest, or Failed.            *)

Failed == [ok |-> FALSE]
Ok(val, rest) == [ok |-> TRUE, val |-> val, rest |-> rest]

\* io.ReadFull of a number of bytes.
ReadFull(s, n) == IF Len(s) < n THEN Failed ELSE Ok(SubSeq(s, 1, n), SubSeq(s, n + 1, Len(s)))

\* Fields of the given widths.
Fields(s, widths) ==
  LET r == ReadFull(s, Sum(widths))
      start(i) == Sum(SubSeq(widths, 1, i - 1)) IN
  IF ~r.ok THEN Failed
  ELSE Ok([i \in DOMAIN widths |-> SubSeq(r.val, start(i) + 1, start(i) + widths[i])], r.rest)
Numbers(fields) == [i \in DOMAIN fields |-> Number(fields[i])]

\* unpackOps: count operations, none of them a frame.  When it fails it gives what it has,
\* with nil for the others, and the file is used up.
RECURSIVE Unpack(_, _), UnpackOps(_, _)
Nil == Op(Len(Layouts), <<>>, <<>>, <<>>, <<>>)
Short(count) == [ok |-> FALSE, val |-> [i \in 1..count |-> Nil], rest |-> <<>>]
UnpackOpsShort(s, count) ==   \* mutant: a list that ends early is taken as it is
  IF count = 0 \/ s = <<>> THEN Ok(<<>>, s)
  ELSE LET first == Unpack(s, TRUE) IN
       IF first.ok THEN [UnpackOps(first.rest, count - 1) EXCEPT !.val = <<first.val>> \o @] ELSE Short(count)
UnpackOps(s, count) ==
  IF count = 0 THEN Ok(<<>>, s)
  ELSE LET first == Unpack(s, TRUE) IN
       IF first.ok THEN [UnpackOps(first.rest, count - 1) EXCEPT !.val = <<first.val>> \o @] ELSE Short(count)

\* The buffer for a mapping's texts has the sum of their lengths, in 16 bits: a slice
\* of it that goes over its end is a panic.
Texts(s, code, lens) == IF code = Map /\ Sum(lens) >= Byte ^ 2 THEN Failed ELSE Fields(s, lens)

\* A system call's err is another one than its operations': that of the latter is lost.
Unpack(s, nested) ==
  IF s = <<>> \/ Head(s) >= Len(Layouts) \/ (nested /\ Head(s) \in Frames) THEN Failed
  ELSE LET l == LayoutOf(Head(s))
           head == Fields(Tail(s), l.nums \o l.texts \o l.args \o l.ops)
           n == Numbers(head.val)
           counts(w, i) == SubSeq(n, i + 1, i + Len(w))
           lens == counts(l.texts, Len(l.nums))
           args == Fields(head.rest, IF l.args = <<>> THEN <<>> ELSE [i \in 1..n[Len(l.nums) + 1] |-> 8])
           texts == Texts(args.rest, Head(s), lens)
           ops == UnpackOps(texts.rest, IF l.ops = <<>> THEN 0 ELSE Last(n)) IN
       IF head.ok /\ args.ok /\ texts.ok /\ (ops.ok \/ Head(s) = Syscall)
       THEN Ok(Op(Head(s), counts(l.nums, 0), texts.val, Numbers(args.val), ops.val), ops.rest)
       ELSE Failed

-----------------------------------------------------------------------------
(* The header: names are padded with zeros and trimmed of them; both byte  *)
(* orders are the machine's.                                               *)

Magic == <<"U", "C", "I", "R">>
Padded(s, n) == [i \in 1..n |-> IF i <= Len(s) THEN s[i] ELSE 0]
Trimmed(s) == SubSeq(s, 1, Max({0} \cup {i \in DOMAIN s : s[i] # 0}))

PackHeader(h) == Magic \o Digits(1, 4) \o Padded(h.arch, 32) \o Padded(h.os, 32) \o <<h.order, h.order>>
UnpackHeader(s) ==
  LET r == Fields(s, <<4, 4, 32, 32, 1, 1>>) IN
  IF ~r.ok \/ r.val[1] # Magic THEN Failed
  ELSE Ok([arch |-> Trimmed(r.val[3]), os |-> Trimmed(r.val[4]), order |-> r.val[5][1]], r.rest)

-----------------------------------------------------------------------------
(* The file.                                                               *)

Init ==
  /\ written = <<>> /\ bytes = PackHeader(Header) /\ unread = <<>> /\ got = <<>>
  /\ phase = "writing"

\* TraceWriter.Pack: the buffer has the size that Sizeof says.
Write ==
  /\ phase = "writing" /\ Len(written) < MaxFrames
  /\ \E op \in Writable :
       /\ written' = Append(written, op)
       /\ bytes' = bytes \o SubSeq(Pack(op), 1, Sizeof(op))
  /\ UNCHANGED <<unread, got, phase>>

\* The emulator ends, or is killed with a part of the file written.
Crash ==
  /\ phase = "writing" /\ phase' = "open"
  /\ \E n \in 0..Len(bytes) : unread' = SubSeq(bytes, 1, n)
  /\ UNCHANGED <<written, bytes, got>>

\* NewReader.
Open ==
  /\ phase = "open"
  /\ LET r == UnpackHeader(unread) IN
     /\ phase' = IF r.ok /\ r.val = Header THEN "reading" ELSE "unreadable"
     /\ unread' = IF r.ok THEN r.rest ELSE unread
  /\ UNCHANGED <<written, bytes, got>>

\* TraceReader.Next, until it fails.
Read ==
  /\ phase = "reading"
  /\ LET r == Unpack(unread, FALSE) IN
     /\ phase' = IF r.ok THEN "reading" ELSE "read"
     /\ got' = IF r.ok THEN Append(got, r.val) ELSE got
     /\ unread' = IF r.ok THEN r.rest ELSE unread
  /\ UNCHANGED <<written, bytes>>

Next == Write \/ Crash \/ Open \/ Read

\* A frame that ends in a system call, as it is read when the file was cut within the
\* call's own operations.
CutInCall(f, whole) ==
  /\ whole.ops # <<>> /\ Last(whole.ops).code = Syscall
  /\ \E k \in 0..(Len(Last(whole.ops).ops) - 1) :
       f = [whole EXCEPT !.ops[Len(whole.ops)].ops = [i \in DOMAIN @ |-> IF i <= k THEN @[i] ELSE Nil]]

\* A file that was cut off anywhere gives back the frames that are in it as a whole,
\* as they were written, and no other but a last one that was cut within the operations
\* of the system call at its end, when counts and lengths fit their fields
\* (ops.go:31-96, 357-407, tracefile.go:75-136).
ReadsWholeFrames ==
  (\A i \in DOMAIN written : Fits(written[i])) =>
    /\ Len(got) <= Len(written)
    /\ \A i \in DOMAIN got :
         got[i] = written[i] \/ (i = Len(got) /\ unread = <<>> /\ CutInCall(got[i], written[i]))
    /\ phase = "unreadable" => Len(unread) < Len(PackHeader(Header))
    /\ phase = "read" /\ Len(got) < Len(written) => Len(unread) < Sizeof(written[Len(got) + 1])
=============================================================================
