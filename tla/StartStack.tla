----------------------------- MODULE StartStack -----------------------------
(***************************************************************************)
(* The stack that a program finds on Linux, Darwin or Redox (kernel.go in  *)
(* kernel/linux, darwin, redox and posix, elf_auxv.go): Run calls the      *)
(* system's Init, and one thing is pushed under the other.                 *)
(* Strings are their lengths, with the zero at the end.                    *)
(***************************************************************************)
EXTENDS Naturals, SequencesExt

CONSTANTS
  WordSizes,             \* of the architectures, in bytes
  Lengths, MaxStrings,   \* of arguments and environment
  StackTop, StackSize

ASSUME StackAssumption ==
  /\ WordSizes \subseteq {4, 8} /\ Lengths \subseteq Nat /\ MaxStrings \in Nat
  /\ StackTop \in Nat /\ StackSize \in Nat /\ StackSize <= StackTop

VARIABLES
  os,
  word,          \* the size of a word
  argv, envp,    \* lengths of the strings
  phdr,          \* the file tells of program headers
  todo,          \* what is still to be pushed
  sp,
  pushed         \* what was: its name, its address and its length
stackVars == <<os, word, argv, envp, phdr, todo, sp, pushed>>

Thing(w, n) == [what |-> w, len |-> n]
Random == 16

\* Linux's auxv has 12 entries of two words, 3 more if there are program headers;
\* Darwin's is the addresses of two strings and a 0.
AuxvLen == CASE os = "linux" -> 2 * word * (IF phdr THEN 15 ELSE 12)
             [] os = "darwin" -> 3 * word
             [] os = "redox" -> 0
\* argc, and argv and envp each with the 0 at their end.
InitLen == word * (1 + (Len(argv) + 1) + (Len(envp) + 1))

StringThings(w, lengths) == [i \in DOMAIN lengths |-> Thing(w, lengths[i])]
Align == Thing("align", 0)

\* In the order of the calls of PushBytes.  First is what setupElfAuxv pushes, or
\* Darwin's strings; Darwin ends with the address of the Mach header.
First(name) ==
  CASE os = "linux" -> <<Thing("random", Random), Thing("platform", name)>>
    [] os = "darwin" -> <<Thing("exe", name), Thing("guard", name)>>
    [] os = "redox" -> <<>>
Program ==
  <<Thing("zero", word)>>
  \o (IF argv = <<>> THEN <<>> ELSE <<Thing("name", argv[1])>>)
  \o StringThings("env", envp) \o StringThings("arg", argv) \o <<Align>>
  \o (IF AuxvLen = 0 THEN <<>> ELSE <<Thing("auxv", AuxvLen)>>) \o <<Thing("init", InitLen)>>
Header == IF os = "darwin" THEN <<Thing("header", word)>> ELSE <<>>

\* MapStack leaves the stack pointer at the end of the stack.
StackInit ==
  /\ os \in {"linux", "darwin", "redox"} /\ word \in WordSizes /\ phdr \in BOOLEAN
  /\ os # "linux" => ~phdr
  /\ argv \in UNION {[1..n -> Lengths] : n \in 0..MaxStrings}
  /\ envp \in UNION {[1..n -> Lengths] : n \in 0..MaxStrings}
  /\ \E name \in Lengths : todo = First(name) \o Program \o Header
  /\ sp = StackTop /\ pushed = <<>>

\* PushBytes: the stack pointer moves even if there is no memory for the bytes.
Push ==
  /\ todo # <<>> /\ Head(todo) # Align
  /\ sp' = sp - Head(todo).len
  /\ IF sp' < StackTop - StackSize
     THEN todo' = <<>> /\ UNCHANGED pushed
     ELSE /\ todo' = Tail(todo)
          /\ pushed' = Append(pushed, [what |-> Head(todo).what, addr |-> sp', len |-> Head(todo).len])
  /\ UNCHANGED <<os, word, argv, envp, phdr>>

\* Down to 16, and by as much as the last thing needs to end on 16: what comes between,
\* the auxv, is taken to be a multiple of 16.
AlignSpOnly(a) == (a \div 16) * 16   \* mutant: what follows is forgotten
AlignSp(a) == LET off == InitLen % 16 IN (a \div 16) * 16 - (IF off > 0 THEN 16 - off ELSE 0)
AlignStack ==
  /\ todo # <<>> /\ Head(todo) = Align
  /\ sp' = AlignSp(sp) /\ todo' = Tail(todo)
  /\ UNCHANGED <<os, word, argv, envp, phdr, pushed>>

StackNext == Push \/ AlignStack
StackSpec == StackInit /\ [][StackNext]_stackVars

-----------------------------------------------------------------------------
Finished == todo = <<>> /\ pushed # <<>> /\ Last(pushed).what \in {"init", "header"}

\* The program starts with its argument count at the stack pointer, on Darwin under its
\* header's address, the auxv right behind the environment's pointers, the stack pointer
\* a multiple of 16 as its ABI wants it, and nothing of what was pushed, in fifteen pushes
\* of odd lengths, over anything else (posix/kernel.go:58-111).  With 32-bit words the 15
\* entries of an auxv with program headers are not a multiple of 16 and nothing makes up
\* for it: such a program starts 8 off, which the last conjunct leaves out.
StartsAligned ==
  Finished =>
    /\ \E i \in DOMAIN pushed :
         /\ pushed[i].what = "init" /\ pushed[i].addr = sp + (IF os = "darwin" THEN word ELSE 0)
         /\ AuxvLen > 0 => \E k \in DOMAIN pushed :
              pushed[k].what = "auxv" /\ pushed[k].addr = pushed[i].addr + InitLen /\ pushed[k].len = AuxvLen
    /\ \A i, j \in DOMAIN pushed : i < j => pushed[j].addr + pushed[j].len <= pushed[i].addr
    /\ (word = 8 \/ ~phdr) => sp % 16 = 0
=============================================================================
