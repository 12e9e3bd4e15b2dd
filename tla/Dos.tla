-------------------------------- MODULE Dos --------------------------------
(***************************************************************************)
(* The DOS kernel (arch/x86_16/dos.go): interrupts, a table of handles on  *)
(* the host's descriptors, and the registers calls answer in.              *)
(*                                                                         *)
(* Kept of the host is which descriptors are open.  A host call may fail.  *)
(***************************************************************************)
EXTENDS Naturals, SequencesExt

CONSTANTS
  NumFds,   \* handles there are, 256 in the program
  HostFds,  \* descriptors the host gives
  Others    \* those the emulator itself has open

Bad == 65535

\* The host counts its descriptors from 0 and does not come to the number that tells
\* of an error.
ASSUME HostHasNoBad == HostFds \subseteq Nat /\ Bad \notin HostFds

VARIABLES
  fds,      \* DosKernel.fds: the host's descriptor of each open handle
  open,     \* the host's open descriptors
  ax,       \* the result in AX
  carry,    \* the carry flag
  dosEnd    \* the guest has exited
dosVars == <<fds, open, ax, carry, dosEnd>>

Unused == (0..(NumFds - 1)) \ DOMAIN fds

Result(value, c) == ax' = value /\ carry' = c

\* freeFd: the descriptor of a handle, which is open no more, or 0xFFFF.
RealFd(h) == IF h \in DOMAIN fds THEN fds[h] ELSE Bad
FreedKeeping(h) == fds   \* mutant: the handle stays in the table
Freed(h) == [k \in DOMAIN fds \ {h} |-> fds[k]]

-----------------------------------------------------------------------------
(* Calls.                                                                  *)

\* openFile, of CreateOrTruncate and Open.  When the handles have run out, the host
\* keeps open what it has just opened.
OpenFails ==
  /\ Result(Bad, TRUE)
  /\ UNCHANGED <<fds, open, dosEnd>>
OpenFile ==
  /\ HostFds \ open # {}
  /\ LET fd == Min(HostFds \ open) IN
       /\ open' = open \cup {fd}
       /\ IF Unused = {} THEN fds' = fds /\ Result(Bad, TRUE)
          ELSE /\ fds' = [h \in DOMAIN fds \cup {Min(Unused)} |->
                            IF h = Min(Unused) THEN fd ELSE fds[h]]
               /\ Result(Min(Unused), FALSE)
  /\ UNCHANGED dosEnd

\* The carry and AX that tell of an error are written over.
CloseHandle(h) ==
  /\ fds' = Freed(h)
  /\ open' = open \ {RealFd(h)}
  /\ Result(0, FALSE)
  /\ UNCHANGED dosEnd

\* The handle is taken for a descriptor of the host.
Read(h, n) ==
  /\ Result(IF h \in open THEN n ELSE Bad, FALSE)
  /\ UNCHANGED <<fds, open, dosEnd>>

\* A handle that is not open writes to descriptor 0.
Write(h, n) ==
  LET to == IF h \in DOMAIN fds THEN fds[h] ELSE 0 IN
  /\ Result(IF to \in open THEN n ELSE Bad, FALSE)
  /\ UNCHANGED <<fds, open, dosEnd>>

Unlink(fails) ==
  /\ IF fails THEN Result(Bad, TRUE) ELSE Result(0, FALSE)
  /\ UNCHANGED <<fds, open, dosEnd>>

\* CharIn and CharOut go to Go's standard files and change no register, Display and
\* GetDosVersion set AX, or its lower half.
Prints(value) ==
  /\ ax' = value
  /\ UNCHANGED <<fds, open, carry, dosEnd>>

Terminate == dosEnd' = TRUE /\ UNCHANGED <<fds, open, ax, carry>>

-----------------------------------------------------------------------------
(* DosInterrupt and DosSyscall: the number in AH says which.  Any other    *)
(* interrupt or number is a panic.                                         *)

Interrupts == {32, 33}
DosInterrupt(intno, ah, h, n) ==
  /\ ~dosEnd
  /\ IF intno = 32 THEN Terminate
     ELSE \/ ah \in {0, 76} /\ Terminate
          \/ ah = 9 /\ Prints(36)
          \/ ah = 48 /\ Prints(7)
          \/ ah \in {60, 61} /\ (OpenFails \/ OpenFile)
          \/ ah = 62 /\ CloseHandle(h)
          \/ ah = 63 /\ Read(h, n)
          \/ ah = 64 /\ Write(h, n)
          \/ ah = 65 /\ \E fails \in BOOLEAN : Unlink(fails)

DosInit ==
  /\ fds = [h \in 0..2 |-> h]
  /\ open = 0..2 \cup Others
  /\ ax = 0 /\ carry = FALSE
  /\ dosEnd = FALSE

DosNext ==
  \E intno \in Interrupts, ah \in {0, 9, 48, 60, 61, 62, 63, 64, 65, 76} :
    \E h \in 0..NumFds, n \in {0, 1} : DosInterrupt(intno, ah, h, n)

DosSpec == DosInit /\ [][DosNext]_dosVars

-----------------------------------------------------------------------------
\* A handle stands for an open descriptor of the host and no two for the same one,
\* in whatever order files are opened and closed and however many there are
\* (DosKernel.getFd, freeFd).
HandlesAreOpen ==
  /\ \A h \in DOMAIN fds : fds[h] \in open
  /\ \A h, k \in DOMAIN fds : fds[h] = fds[k] => h = k
=============================================================================
