------------------------------ MODULE Symbols ------------------------------
(***************************************************************************)
(* What an address is called (models/debug/debug.go and file.go, the       *)
(* symbols of loader/elf.go and macho.go): Main, which traces, and a       *)
(* prompt look addresses up; each file is read when it is first needed and *)
(* kept, with its symbols in order for bisection.  The map of files is read *)
(* and written under a lock, each in a step; reading the file is outside.  *)
(*                                                                         *)
(* A file's symbols are records.  Nothing fills its lists of source lines, *)
(* so that looking one up, by the same bisection, never finds any.         *)
(***************************************************************************)
EXTENDS Integers, SequencesExt, FiniteSetsExt

CONSTANTS
  Askers,     \* goroutines that look symbols up
  Addrs,      \* addresses
  Tables,     \* symbol tables as they are in a file
  Places,     \* where the file is mapped: an address, a size and an offset in it
  MaxAsks     \* bound: look-ups of each

ASSUME SymbolsAssumption ==
  /\ Addrs \subseteq Nat /\ Places \subseteq [addr : Nat, size : Nat, off : Nat]
  /\ \A t \in Tables :
       t.fat \in Nat /\ t.syms \in Seq([name : STRING, value : Nat, size : Nat, sect : Nat])

VARIABLES
  symtab,     \* the file's symbol table
  place,
  symFiles,   \* Debug.files: the symbols that are kept of the file, if any
  asker,      \* where each goroutine is: the address, the symbols it has, and the answer
  asks
symbolVars == <<symtab, place, symFiles, asker, asks>>

NoName == "none"
Symbol(n, s, e) == [name |-> n, start |-> s, end |-> e]
NoSymbol == Symbol(NoName, 0, 0)

-----------------------------------------------------------------------------
(* The symbols of a file.                                                  *)

\* Mach-O: a symbol ends where the next of the table begins.  One without a section
\* is left empty, and still gets an end.  The offset of the file in a fat one is added.
MachSymbols(t, fat) ==
  LET kept(i) == t[i].sect # 0 /\ t[i].name # NoName
      start(i) == IF kept(i) THEN t[i].value + fat ELSE 0
      ends(i) == IF i < Len(t) /\ kept(i + 1) THEN start(i + 1) ELSE 0 IN
  [i \in DOMAIN t |-> Symbol(IF kept(i) THEN t[i].name ELSE NoName, start(i), ends(i))]
ElfSymbols(t) == [i \in DOMAIN t |-> Symbol(t[i].name, t[i].value, t[i].value + t[i].size)]
SymbolsOf(t) == IF t.kind = "elf" THEN ElfSymbols(t.syms) ELSE MachSymbols(t.syms, t.fat)

\* CacheSym: in the order of bisection.  The sort is not stable: symbols of the same
\* range come in any order.
Precedes(a, b) == a.start < b.start \/ (a.start = b.start /\ a.end < b.end)
CacheSymNot(syms) == {syms}   \* mutant: the order of the table
CacheSym(syms) ==
  {z \in {[i \in DOMAIN syms |-> syms[p[i]]] : p \in Bijection(DOMAIN syms, DOMAIN syms)} :
     \A i, j \in DOMAIN syms : i < j => ~Precedes(z[j], z[i])}

\* DebugFile.Symbolicate: bisection among ranges.
Bisected(syms, addr) ==
  LET search[w \in (1..(Len(syms) + 1)) \X (0..Len(syms))] ==   \* from w[1] to w[2]
        LET mid == (w[1] + w[2]) \div 2 IN
        IF w[1] > w[2] THEN NoSymbol
        ELSE IF addr >= syms[mid].end THEN search[<<mid + 1, w[2]>>]
        ELSE IF addr < syms[mid].start THEN search[<<w[1], mid - 1>>]
        ELSE syms[mid]
  IN search[<<1, Len(syms)>>]

\* Debug.Symbolicate: the address in the file first, then as it is.
InFile(addr) == addr - place.addr + place.off
Symbolicate(syms, addr) ==
  LET moved == Bisected(syms, InFile(addr)) IN
  IF moved.name # NoName THEN moved ELSE Bisected(syms, addr)

-----------------------------------------------------------------------------
(* Debug.Symbolicate and getFile, step by step.                            *)

Asking(at, addr, syms, got) == [at |-> at, addr |-> addr, syms |-> syms, got |-> got]
NotAsking == Asking("idle", 0, <<>>, NoSymbol)
To(c, at) == asker' = [asker EXCEPT ![c].at = at]

\* An address that is in no mapping of a file has no name.
Ask(c, addr) ==
  /\ asker[c].at = "idle" /\ asks[c] < MaxAsks
  /\ asks' = [asks EXCEPT ![c] = @ + 1]
  /\ asker' = [asker EXCEPT ![c] =
       Asking(IF addr \in place.addr..(place.addr + place.size - 1) THEN "look" ELSE "answered",
              addr, <<>>, NoSymbol)]
  /\ UNCHANGED <<symtab, place, symFiles>>

LookInFiles(c) ==
  /\ asker[c].at = "look"
  /\ IF symFiles = {} THEN To(c, "read")
     ELSE \E syms \in symFiles : asker' = [asker EXCEPT ![c] = Asking("search", @.addr, syms, @.got)]
  /\ UNCHANGED <<symtab, place, symFiles, asks>>

\* The file may be gone.
ReadFile(c) ==
  /\ asker[c].at = "read"
  /\ \/ To(c, "answered")
     \/ \E syms \in CacheSym(SymbolsOf(symtab)) :
          asker' = [asker EXCEPT ![c] = Asking("keep", @.addr, syms, @.got)]
  /\ UNCHANGED <<symtab, place, symFiles, asks>>

Keep(c) ==
  /\ asker[c].at = "keep" /\ To(c, "search") /\ symFiles' = {asker[c].syms}
  /\ UNCHANGED <<symtab, place, asks>>

Search(c) ==
  /\ asker[c].at = "search"
  /\ asker' = [asker EXCEPT ![c] = Asking("answered", @.addr, @.syms, Symbolicate(@.syms, @.addr))]
  /\ UNCHANGED <<symtab, place, symFiles, asks>>

Take(c) ==
  /\ asker[c].at = "answered" /\ asker' = [asker EXCEPT ![c] = NotAsking]
  /\ UNCHANGED <<symtab, place, symFiles, asks>>

SymbolsInit ==
  /\ symtab \in Tables /\ place \in Places /\ symFiles = {}
  /\ asker = [c \in Askers |-> NotAsking] /\ asks = [c \in Askers |-> 0]
SymbolsNext ==
  \E c \in Askers :
    (\E addr \in Addrs : Ask(c, addr)) \/ LookInFiles(c) \/ ReadFile(c) \/ Keep(c) \/ Search(c) \/ Take(c)
SymbolsSpec == SymbolsInit /\ [][SymbolsNext]_symbolVars

-----------------------------------------------------------------------------
\* Who has the file's symbols gets one that contains the address, however the file
\* orders them and whoever read it first, unless one that does has no name, or there is a
\* symbol inside another that is not the last in order: bisection goes past what contains
\* that one (debug.go:31-59, file.go:52-58, 170-186).
Covers(s, addr) == s.start <= addr /\ addr < s.end
OneInAnother(syms) ==
  \E i, j, k \in DOMAIN syms :
    /\ syms[i].start < syms[j].start /\ syms[j].end < syms[i].end
    /\ k # j /\ ~Precedes(syms[k], syms[j])
FindsSymbols ==
  \A c \in Askers : asker[c].at = "answered" /\ asker[c].syms # <<>> =>
    LET syms == SymbolsOf(symtab)
        addr == asker[c].addr
        covering == {i \in DOMAIN syms : Covers(syms[i], InFile(addr))} IN
    /\ asker[c].got = NoSymbol \/ Covers(asker[c].got, InFile(addr)) \/ Covers(asker[c].got, addr)
    /\ (~OneInAnother(syms) /\ covering # {} /\ \A i \in covering : syms[i].name # NoName) =>
         Covers(asker[c].got, InFile(addr))
=============================================================================
