------------------------------ MODULE MCParts ------------------------------
(***************************************************************************)
(* The parts that are specified each in a module of its own, one of them   *)
(* in each behaviour: part says which.  The modules whose invariants are   *)
(* proved are extended, and of those that are not this behaviour's part    *)
(* the variables stay as they start; the others are instances, with their  *)
(* bounds, whose variables then keep one value.                            *)
(***************************************************************************)
EXTENDS GdbStub, Cgc, PosixFiles, Dos, Transfer, Syscalls, Symbols, StartStack

VARIABLES
  part,
  written, fileBytes, filePhase, unread, got,
  memOps, at, selfjmp, cells,
  phase, exe, interp, conf, doing, seg, bias, bases, image, brk, start,
  maps, lastMap, shadow, crashed

ofFile == <<written, fileBytes, filePhase, unread, got>>
ofFilter == <<memOps, at, selfjmp, cells>>
ofLoader == <<phase, exe, interp, conf, doing, seg, bias, bases, image, brk, start>>
ofPicture == <<maps, lastMap, shadow, crashed>>

-----------------------------------------------------------------------------
(* TraceFile: a frame of a jump and a system call, with an exit behind it  *)
(* or not, one of every other operation, and a keyframe; a byte has four   *)
(* values.                                                                 *)

O(c, n) == [code |-> c, nums |-> n, texts |-> <<>>, args |-> <<>>, ops |-> <<>>]
OText(c, n, texts) == [O(c, n) EXCEPT !.texts = texts]
SysOp ==
  [O(12, <<5, 70>>) EXCEPT !.args = <<7, 300>>,
     !.ops = <<O(10, <<65, 4>>), OText(9, <<65, 4, 3, 0, 0>>, <<<<1, 2>>, <<3>>>>), OText(8, <<65>>, <<<<1, 2>>>>)>>]
OpLists ==
  {<<O(3, <<18, 2>>), SysOp, O(13, <<>>)>>, <<O(3, <<18, 2>>), SysOp>>,
   <<O(0, <<>>), O(4, <<2>>), OText(6, <<3>>, <<<<1, 1, 0>>>>), O(7, <<66, 4>>), O(11, <<65, 4, 1>>)>>}
FramesToWrite ==
  {[O(1, <<6>>) EXCEPT !.ops = ops] : ops \in OpLists} \cup {[O(2, <<0>>) EXCEPT !.ops = <<O(5, <<1, 9>>)>>]}

File == INSTANCE TraceFile WITH
  bytes <- fileBytes, phase <- filePhase, Byte <- 4, MaxFrames <- 2, Writable <- FramesToWrite,
  Header <- [arch |-> <<3, 1>>, os |-> <<2>>, order |-> 0]

Filter == INSTANCE MemBatch WITH Cells <- 1..3, Bytes <- {1, 2}, Widths <- {1, 2}, MaxAccesses <- 3

(* Loading: two segments that share a page or not, with bytes of zero      *)
(* behind them or not; Mach-O files with and without what they need; files *)
(* too large for the space, or for their interpreter beside them.          *)
Part(t, off, addr, filesz, memsz, prot) ==
  [tag |-> t, off |-> off, addr |-> addr, filesz |-> filesz, memsz |-> memsz, prot |-> prot]
Elf(i, t, parts) == [id |-> i, magic |-> "elf", arch |-> "a", type |-> t, parts |-> parts, entry |-> 1, phoff |-> 1]
Elfs ==
  {Elf(1, t, <<Part("load", 0, 0, n1, n1 + z1, 5),
               Part("load", n1, n1 + z1 + gap, n2, n2 + z2, 6)>> \o tail) :
     t \in {"exec", "dyn", "core"}, n1 \in {2, 4}, z1 \in {0, 1}, gap \in {0, 3}, n2 \in {1, 5}, z2 \in {0, 2},
     tail \in {<<>>, <<Part("interp", 0, 0, 0, 0, 0)>>}}
MachOs ==
  {[Elf(1, t, <<Part("pagezero", 0, 0, 0, 4, 0), Part(x, 0, 4, 3, 4, 5), Part(c, 0, 2, 0, 0, 0),
                Part(d, 0, 0, 0, 0, 0)>>) EXCEPT !.magic = "macho", !.entry = 0] :
     t \in {"exec", "dylib"}, x \in {"text", "load"}, c \in {"thread", "main", "uuid"}, d \in {"uuid", "dylinker"}}
OtherFiles ==
  {[Elf(1, "exec", <<Part("load", 0, 1, 3, 3, 0)>>) EXCEPT !.magic = m] : m \in {"cgc", "none"}}
  \cup {[id |-> 1, magic |-> "com", arch |-> "a", size |-> n, entry |-> 0, phoff |-> 0] : n \in {0, 3, 30}}
  \cup {Elf(1, "exec", <<Part("load", 0, 46, 3, 4, 5)>>), Elf(1, "dyn", <<Part("load", 0, 0, 3, 60, 5)>>),
        Elf(1, "exec", <<Part("load", 0, 0, 4, 41, 5), Part("interp", 0, 0, 0, 0, 0)>>)}

Loader == INSTANCE Loading WITH
  PageSize <- 4, Base <- 4, PieBase <- 8, BrkRoom <- 8, ComBase <- 3, ComTop <- 16, Top <- 48,
  Programs <- Elfs \cup MachOs \cup OtherFiles, ForceBases <- {0, 12},
  Interps <- {[id |-> 0, magic |-> "none"]}
             \cup {[Elf(2, "dyn", <<Part("load", 0, 0, 3, 5, 5)>>) EXCEPT !.arch = a] : a \in {"a", "b"}}

Picture == INSTANCE MemImage WITH
  BlockWidth <- 2, Blocks <- 3, Marks <- {0, 1}, Starts <- {1, 3, 4, 8}, Sizes <- {1, 2, 5}

(* Cgc: two binaries, on the pipes to the POV and to one another.          *)
PovMessages == {<<1, 5, 6>>, <<2>>, <<9>>}

(* PosixFiles: a directory in another, three descriptors besides 0, 1, 2.  *)
TwoDirs == [d \in {<<"d">>, <<"d", "b">>} |-> IF d = <<"d">> THEN <<"a", "b">> ELSE <<>>]
EntrySize == [n \in {".", "..", "a", "b"} |-> IF n = "a" THEN 2 ELSE 1]

(* Dos: five handles, and a host that gives seven descriptors.             *)
SevenFds == 0..6

(* Transfer: four addresses; buffers in them, over their end, and empty.   *)
FourCells == 1..4
SomeBuffers ==
  {[addr |-> 1, size |-> 3], [addr |-> 2, size |-> 2], [addr |-> 4, size |-> 2], [addr |-> 3, size |-> 0]}

(* Symbols: three, in any order, that adjoin, overlap or leave gaps, one   *)
(* of them with a name or without.                                         *)
Sym(n, v, z, s) == [name |-> n, value |-> v, size |-> z, sect |-> s]
SomeTables ==
  {[kind |-> "elf", fat |-> 0, syms |-> <<Sym("a", v1, z1, 1), Sym(n, v2, z2, 1), Sym("c", v3, 1, 1)>>] :
     n \in {"b", NoName}, v1 \in {0, 4}, v2 \in {2, 4}, v3 \in {1, 6}, z1 \in {0, 2, 5}, z2 \in {1, 2}}
  \cup {[kind |-> "macho", fat |-> f, syms |-> <<Sym("a", v1, 0, 1), Sym("b", v2, 0, s), Sym("c", v3, 0, 1)>>] :
     v1 \in {0, 4}, v2 \in {2, 4}, v3 \in {1, 6}, s \in {0, 1}, f \in {0, 1}}
TwoPlaces == {[addr |-> 2, size |-> 6, off |-> o] : o \in {0, 1}}

(* Syscalls: the system's kernel, and one that also knows read.            *)
Method(n, k, params, num) == [name |-> n, kind |-> k, params |-> params, number |-> num]
ReadCall == Method("read", "plain", <<"fd", "buf">>, TRUE)
TwoKernels ==
  [k \in {"os", "hook"} |->
     IF k = "hook" THEN {ReadCall}
     ELSE {ReadCall, Method("open", "plain", <<"string">>, TRUE), Method("select", "plain", <<"obufs", "int">>, TRUE),
           Method("socketcall", "plain", <<"int", "buf">>, TRUE), Method("exit", "literal", <<"int">>, FALSE),
           Method("clone", "plain", <<"int", "int", "int">>, TRUE), Method("helper", "private", <<>>, TRUE)}]
CallNames == <<"read", "open", "select", "socketcall", "exit", "clone", "helper">>
CallNumbers == 1..8
NestedNames == <<"read", "helper">>

-----------------------------------------------------------------------------
(* Each part's start, and where the variables of the others stay.          *)

StartGdb ==
  IF part = "gdb" THEN Init
  ELSE /\ asked = Nothing /\ believed = {} /\ packets = 0 /\ breaks = 0 /\ connected = FALSE /\ input = <<>>
       /\ stub = "gone" /\ poll = "gone" /\ loop = "none" /\ table = {} /\ first = FALSE
       /\ gate = "main" /\ main = "ended" /\ pc = 0 /\ hooks = <<>> /\ stopping = FALSE
       /\ dropped = {} /\ from = 0 /\ ran = 0
StartFile ==
  IF part = "file" THEN File!Init
  ELSE written = 0 /\ fileBytes = 0 /\ filePhase = 0 /\ unread = 0 /\ got = 0
StartRunner == (IF part = "runner" THEN TRUE ELSE withPov = FALSE) /\ CgcStart
StartPosix == (IF part = "posix" THEN TRUE ELSE cwd = <<"d">>) /\ FilesInit
StartCalls == (IF part = "calls" THEN TRUE ELSE config = [stub |-> FALSE, block |-> FALSE]) /\ SyscallsInit
StartNames ==
  /\ IF part = "names" THEN TRUE
     ELSE symtab = (CHOOSE t \in Tables : TRUE) /\ place = (CHOOSE p \in Places : TRUE)
  /\ SymbolsInit
StartPushes ==
  /\ IF part = "stack" THEN TRUE
     ELSE os = "redox" /\ word = 4 /\ phdr = FALSE /\ argv = <<>> /\ envp = <<>>
  /\ StackInit
StartFilter ==
  IF part = "filter" THEN Filter!BatchInit
  ELSE memOps = 0 /\ at = 0 /\ selfjmp = 0 /\ cells = 0
StartLoader ==
  IF part = "loader" THEN Loader!LoadInit
  ELSE /\ phase = 0 /\ exe = 0 /\ interp = 0 /\ conf = 0 /\ doing = 0 /\ seg = 0
       /\ bias = 0 /\ bases = 0 /\ image = 0 /\ brk = 0 /\ start = 0
StartPicture ==
  IF part = "picture" THEN Picture!ImageInit
  ELSE maps = 0 /\ lastMap = 0 /\ shadow = 0 /\ crashed = 0

Parts == {"gdb", "file", "runner", "posix", "dos", "filter", "loader", "picture", "names", "stack", "bytes", "calls"}
PartsInit ==
  /\ part \in Parts
  /\ StartGdb /\ StartFile /\ StartFilter /\ StartLoader /\ StartPicture
  /\ StartRunner /\ StartPosix /\ DosInit /\ TransferInit /\ StartCalls /\ StartNames /\ StartPushes

\* Only the part p changes.
Only(p) ==
  /\ part = p /\ UNCHANGED part
  /\ IF p = "gdb" THEN TRUE ELSE UNCHANGED vars
  /\ IF p = "file" THEN TRUE ELSE UNCHANGED ofFile
  /\ IF p = "runner" THEN TRUE ELSE UNCHANGED cgcVars
  /\ IF p = "posix" THEN TRUE ELSE UNCHANGED fileVars
  /\ IF p = "dos" THEN TRUE ELSE UNCHANGED dosVars
  /\ IF p = "filter" THEN TRUE ELSE UNCHANGED ofFilter
  /\ IF p = "loader" THEN TRUE ELSE UNCHANGED ofLoader
  /\ IF p = "picture" THEN TRUE ELSE UNCHANGED ofPicture
  /\ IF p = "names" THEN TRUE ELSE UNCHANGED symbolVars
  /\ IF p = "stack" THEN TRUE ELSE UNCHANGED stackVars
  /\ IF p = "bytes" THEN TRUE ELSE UNCHANGED transferVars
  /\ IF p = "calls" THEN TRUE ELSE UNCHANGED syscallVars

PartsNext ==
  \/ Only("gdb") /\ Next
  \/ Only("file") /\ File!Next
  \/ Only("runner") /\ CgcNext
  \/ Only("posix") /\ FilesNext
  \/ Only("dos") /\ DosNext
  \/ Only("filter") /\ Filter!BatchNext
  \/ Only("loader") /\ Loader!LoadNext
  \/ Only("picture") /\ Picture!ImageNext
  \/ Only("names") /\ SymbolsNext
  \/ Only("stack") /\ StackNext
  \/ Only("bytes") /\ TransferNext
  \/ Only("calls") /\ SyscallsNext

partsVars ==
  <<part, vars, ofFile, cgcVars, fileVars, dosVars, ofFilter, ofLoader,
    ofPicture, symbolVars, stackVars, transferVars, syscallVars>>
PartsSpec == PartsInit /\ [][PartsNext]_partsVars /\ Fairness

-----------------------------------------------------------------------------
(* What an instance says of its part, on the behaviours that are its.      *)

\* A trace file cut off anywhere gives back its whole frames (tracefile.go).
ReadsWholeFrames == part = "file" => File!ReadsWholeFrames
\* Joined accesses to memory tell what the single ones did (filter_membatch.go).
BatchRetells == part = "filter" => Filter!BatchRetells
\* A loaded program is in memory as its headers say (usercorn.go:600-733).
LoadsPrograms == part = "loader" => Loader!LoadsPrograms
\* The picture has what was told of memory, each byte at a point (mem_image.go).
ImageShowsMemory == part = "picture" => Picture!ImageShowsMemory
=============================================================================
