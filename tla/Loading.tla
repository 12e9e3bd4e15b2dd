------------------------------ MODULE Loading ------------------------------
(***************************************************************************)
(* How a program comes into memory (NewUsercorn and mapBinary of           *)
(* usercorn.go, the loaders of loader/): a place is found for the file,    *)
(* its segments are mapped, all of them, and then written; its interpreter *)
(* follows in the same way.  A script does not lead to its shell: the      *)
(* error that NewUsercorn compares with UnknownMagic is a wrapped one.     *)
(*                                                                         *)
(* A file is what its headers say: parts (program headers of ELF, load     *)
(* commands of Mach-O), each with a tag.  A byte of memory is 0 or names a *)
(* file and an offset in it.  A file has segments, and each a size.        *)
(***************************************************************************)
EXTENDS Integers, SequencesExt

CONSTANTS
  PageSize,
  Base, PieBase, BrkRoom,   \* 0x100000, 0x1000000 and 8 MB in the program
  ComBase, ComTop,          \* 0x100 and 0x10000
  Top,                      \* the end of the address space
  Programs, Interps,        \* files; an interpreter that does not open is NoFile
  ForceBases                \* config.ForceBase and ForceInterpBase

VARIABLES
  phase,     \* where NewUsercorn and mapBinary are
  exe, interp, conf,
  doing,     \* which of the two is being mapped
  seg,       \* the segment that is next
  bias, bases,
  image,     \* memory: a protection and a byte for each mapped address
  brk, start
loadVars == <<phase, exe, interp, conf, doing, seg, bias, bases, image, brk, start>>

Part(t, off, addr, filesz, memsz, prot) ==
  [tag |-> t, off |-> off, addr |-> addr, filesz |-> filesz, memsz |-> memsz, prot |-> prot]
NoFile == [id |-> 0, magic |-> "none"]

-----------------------------------------------------------------------------
(* The loaders.                                                            *)

\* The constructors: the machine is known, and a Mach-O file has an entry point.  What
\* the runner's own binaries have for a magic is hidden from the ELF loader.
MachCommands(f) == SelectSeq(f.parts, LAMBDA p : p.tag \in {"thread", "main"})
HasText(f) == \E i \in DOMAIN f.parts : f.parts[i].tag = "text"
ElfLoads(f) == f.magic = "elf" /\ f.arch # "unknown"
CgcLoads(f) == f.magic = "cgc" /\ ElfLoads([f EXCEPT !.magic = "elf"])
MachOLoads(f) ==
  /\ f.magic = "macho" /\ f.arch # "unknown"
  /\ MachCommands(f) # <<>>
  /\ MachCommands(f)[1].tag = "main" => HasText(f)
Loads(f) == ElfLoads(f) \/ MachOLoads(f) \/ CgcLoads(f)
ComLoads(f) == f.size > 0

ElfType(f) == IF f.type \in {"exec", "dyn"} THEN f.type ELSE "unknown"
MachOType(f) == IF f.type \in {"dylib", "dylinker"} THEN "dyn" ELSE "exec"
Type(f) == IF f.magic = "macho" THEN MachOType(f) ELSE ElfType(f)

\* "text" is the segment of Mach-O that its entry point counts from, "pagezero" one that
\* is left out.
ElfSegments(f) == SelectSeq(f.parts, LAMBDA p : p.tag = "load")
MachOSegments(f) == SelectSeq(f.parts, LAMBDA p : p.tag \in {"load", "text"})
ComSegment(f) == Part("load", 0, ComBase, f.size, f.size, 7)
Segments(f) ==
  CASE f.magic = "macho" -> MachOSegments(f) [] f.magic = "com" -> <<ComSegment(f)>> [] OTHER -> ElfSegments(f)

ElfInterp(f) == \E i \in DOMAIN f.parts : f.parts[i].tag = "interp"
MachOInterp(f) == \E i \in DOMAIN f.parts : f.parts[i].tag = "dylinker"
HasInterp(f) ==
  CASE f.magic = "macho" -> MachOInterp(f) [] f.magic = "com" -> FALSE [] OTHER -> ElfInterp(f)

\* findEntry: the first command that tells.
Entry(f) ==
  IF f.magic # "macho" THEN f.entry
  ELSE LET cmd == MachCommands(f)[1]
           text == SelectSeq(f.parts, LAMBDA p : p.tag = "text") IN
       IF cmd.tag = "main" THEN cmd.addr + text[1].addr ELSE cmd.addr

\* What setupElfAuxv says of the program headers: moved with the first segment that
\* contains their offset, and not with the file.
AuxvPhdr(f) ==
  LET in == SelectSeq(Segments(f), LAMBDA s : s.off <= f.phoff /\ f.phoff < s.off + s.memsz) IN
  f.phoff + (IF in = <<>> THEN 0 ELSE in[1].addr)

-----------------------------------------------------------------------------
(* Memory.                                                                 *)

Down(a) == (a \div PageSize) * PageSize
Up(a) == Down(a + PageSize - 1)
Tag(f, off) == f.id * 100 + off
PagesOf(addr, size) == Down(addr)..(Up(addr + size) - 1)

\* MemReserve: the first place that is free.
Free(from, size) ==
  {a \in Down(IF from = 0 THEN Base ELSE from)..(Top - 1) :
     a % PageSize = 0 /\ PagesOf(a, size) \cap DOMAIN image = {}}

Mapped(m, addr, s) ==
  LET prot == IF s.prot = 0 THEN 7 ELSE s.prot IN
  [x \in DOMAIN m \cup PagesOf(addr, s.memsz) |->
     IF x \in PagesOf(addr, s.memsz) THEN [prot |-> prot, byte |-> 0] ELSE m[x]]
Written(m, addr, f, s) ==
  [x \in DOMAIN m |-> IF x \in addr..(addr + s.filesz - 1)
                      THEN [m[x] EXCEPT !.byte = Tag(f, s.off + x - addr)] ELSE m[x]]

-----------------------------------------------------------------------------
(* mapBinary.                                                              *)

File == IF doing = "exe" THEN exe ELSE interp
Low(f) == Min({Segments(f)[i].addr : i \in DOMAIN Segments(f)})
HighInFile(f) ==   \* mutant: the room is that of the file's data
  Max({Segments(f)[i].addr + Segments(f)[i].filesz : i \in DOMAIN Segments(f)})
High(f) == Max({Segments(f)[i].addr + Segments(f)[i].memsz : i \in DOMAIN Segments(f)})

At(p) == phase = p
Fail == phase' = "failed"
         /\ UNCHANGED <<exe, interp, conf, doing, seg, bias, bases, image, brk, start>>

\* The bias that is asked for: an interpreter leaves room for the break.
Wanted ==
  IF doing = "exe" THEN conf.base
  ELSE IF conf.ibase <= brk + BrkRoom THEN brk + BrkRoom ELSE conf.ibase

Refuse == At("bounds") /\ Type(File) = "unknown" /\ Fail

FindPlace ==
  /\ At("bounds") /\ Type(File) # "unknown"
  /\ LET low == Low(File)
         from == IF Wanted > 0 THEN Wanted ELSE IF low = 0 THEN PieBase ELSE low
         free == Free(from, High(File) - low) IN
     IF Type(File) = "exec" THEN bias' = Wanted /\ phase' = "map"
     ELSE IF free # {} THEN bias' = Min(free) - low /\ phase' = "map"
     ELSE phase' = "failed" /\ UNCHANGED bias
  /\ seg' = 1
  /\ UNCHANGED <<exe, interp, conf, doing, bases, image, brk, start>>

Current == Segments(File)[seg]
More == seg <= Len(Segments(File))

\* The CPU refuses what is not in its address space or not mapped.
Seg == bias + Current.addr
Does(fits, m) ==
  /\ More
  /\ IF fits THEN image' = m /\ seg' = seg + 1 /\ UNCHANGED phase
     ELSE phase' = "failed" /\ UNCHANGED <<image, seg>>
  /\ UNCHANGED <<exe, interp, conf, doing, bias, bases, brk, start>>

MapSegment ==
  /\ At("map")
  /\ Does(PagesOf(Seg, Current.memsz) \subseteq 0..(Top - 1), Mapped(image, Seg, Current))

AllMapped ==
  /\ At("map") /\ ~More /\ phase' = "write" /\ seg' = 1
  /\ UNCHANGED <<exe, interp, conf, doing, bias, bases, image, brk, start>>

WriteSegment ==
  /\ At("write")
  /\ Does(Seg..(Seg + Current.filesz - 1) \subseteq DOMAIN image, Written(image, Seg, File, Current))

\* The program is in memory: its interpreter is opened.
Interpreted == doing = "exe" /\ HasInterp(exe) /\ ~conf.skip
NoInterpreter ==
  /\ At("write") /\ ~More /\ Interpreted /\ ~Loads(interp) /\ Fail
LoadInterp ==
  /\ At("write") /\ ~More /\ Interpreted /\ Loads(interp)
  /\ doing' = "interp" /\ phase' = "bounds" /\ brk' = High(exe)
  /\ bases' = [bases EXCEPT !.exe = bias] /\ start' = bias + Entry(exe)
  /\ UNCHANGED <<exe, interp, conf, seg, bias, image>>

\* mapBinary returns: the interpreter must be of the program's architecture.
Returned ==
  /\ At("write") /\ ~More /\ ~Interpreted
  /\ IF doing = "interp" /\ interp.arch # exe.arch THEN phase' = "failed" ELSE phase' = "brk"
  /\ bases' = [bases EXCEPT ![doing] = bias] /\ start' = bias + Entry(File)
  /\ UNCHANGED <<exe, interp, conf, doing, seg, bias, image, brk>>

-----------------------------------------------------------------------------
(* NewUsercorn.                                                            *)

\* Of an unknown magic, "#!" among them, nothing is made.
Open ==
  /\ At("open") /\ exe.magic # "com"
  /\ phase' = IF Loads(exe) THEN "bounds" ELSE "failed"
  /\ UNCHANGED <<exe, interp, conf, doing, seg, bias, bases, image, brk, start>>

\* The break is on the page behind the last segment that can be written.
FindBrk ==
  /\ At("brk")
  /\ LET ends == {bases.exe + Segments(exe)[i].addr + Segments(exe)[i].memsz :
                    i \in {j \in DOMAIN Segments(exe) : Segments(exe)[j].prot \in {2, 3, 6, 7}}} IN
     brk' = IF ends = {} \/ Max(ends) <= 0 THEN 0 ELSE Down(Max(ends) + PageSize)
  /\ phase' = "loaded"
  /\ UNCHANGED <<exe, interp, conf, doing, seg, bias, bases, image, start>>

\* The com command, for files of DOS: all that 16 bits reach is mapped, and the file,
\* which may not be empty, is written where its one segment begins.
OpenCom ==
  /\ At("open") /\ exe.magic = "com"
  /\ IF ~ComLoads(exe) \/ ComBase + exe.size > ComTop THEN phase' = "failed" /\ UNCHANGED <<image, start>>
     ELSE LET mapped == Mapped(image, 0, Part("all", 0, 0, 0, ComTop, 7)) IN
          /\ image' = Written(mapped, ComBase, exe, ComSegment(exe))
          /\ start' = ComBase /\ phase' = "loaded"
  /\ UNCHANGED <<exe, interp, conf, doing, seg, bias, bases, brk>>

LoadInit ==
  /\ phase = "open"
  /\ exe \in Programs /\ interp \in Interps
  /\ conf \in [base : ForceBases, ibase : ForceBases, skip : BOOLEAN]
  /\ ~HasInterp(exe) => conf.ibase = 0 /\ ~conf.skip /\ interp = NoFile
  /\ doing = "exe" /\ seg = 1 /\ bias = 0 /\ bases = [exe |-> 0, interp |-> 0]
  /\ image = << >> /\ brk = 0 /\ start = 0

LoadNext ==
  Open \/ OpenCom \/ Refuse \/ FindPlace \/ MapSegment \/ AllMapped \/ WriteSegment
  \/ NoInterpreter \/ LoadInterp \/ Returned \/ FindBrk

-----------------------------------------------------------------------------
\* A loaded file is in memory as its headers say: each page with the protection of the
\* last segment on it, each byte from the file or zero, although segments share pages
\* and mapping one clears what was there (usercorn.go:667-711).
AsTheFileSays(f, b) ==
  LET s == Segments(f)
      on(x) == {i \in DOMAIN s : x \in PagesOf(b + s[i].addr, s[i].memsz)}
      from(x) == {i \in DOMAIN s : x \in (b + s[i].addr)..(b + s[i].addr + s[i].filesz - 1)} IN
  \A x \in UNION {PagesOf(b + s[i].addr, s[i].memsz) : i \in DOMAIN s} :
    /\ x \in DOMAIN image
    /\ image[x].prot = (IF s[Max(on(x))].prot = 0 THEN 7 ELSE s[Max(on(x))].prot)
    /\ image[x].byte = (IF from(x) = {} THEN 0
                        ELSE Tag(f, s[Max(from(x))].off + x - b - s[Max(from(x))].addr))

\* A program that is not moved keeps room for its break, below its interpreter, and is
\* told where its headers are, if they are in a segment from the start of the file.
LoadsPrograms ==
  phase = "loaded" =>
    /\ AsTheFileSays(exe, bases.exe)
    /\ doing = "interp" => AsTheFileSays(interp, bases.interp)
    /\ bases.exe = 0 /\ exe.magic # "com" =>
         /\ (Up(High(exe))..(Down(High(exe) + BrkRoom) - 1)) \cap DOMAIN image = {}
         /\ exe.magic = "elf" /\ Segments(exe)[1].off = 0 /\ exe.phoff < Segments(exe)[1].filesz
            => image[AuxvPhdr(exe)].byte = Tag(exe, exe.phoff)
=============================================================================
