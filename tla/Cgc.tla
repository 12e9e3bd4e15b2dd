-------------------------------- MODULE Cgc --------------------------------
(***************************************************************************)
(* The runner of cyber grand challenge binaries (cmd/cgc): several guests, *)
(* each run by a goroutine of its own, that talk over pipes in memory,     *)
(* with or without a proof of vulnerability (POV) that talks to them and   *)
(* negotiates with the runner.                                             *)
(*                                                                         *)
(* A guest is abstracted to its calls of transmit and receive and its end. *)
(* Bytes are left out of the pipes but for their number; what the POV      *)
(* negotiates is in words.  Go's scheduler is taken to let a goroutine     *)
(* begin within the runner's pause of 10 ms after starting it.             *)
(***************************************************************************)
EXTENDS Naturals, SequencesExt

CONSTANTS
  CBs,       \* how many challenge binaries there are
  Used,      \* bound: the descriptors the guests use
  Sizes,     \* sizes of what guests transmit and receive
  Messages,  \* sequences of words the POV sends the negotiator
  MaxBytes,  \* bound: bytes in a pipe
  MaxMessages  \* bound: how many

\* There are binaries, and sizes are numbers of bytes.
ASSUME Sizable == CBs \in Nat \ {0} /\ Sizes \subseteq Nat

CS == 1..CBs
Pov == 0
Guests == CS \cup {Pov}

VARIABLES
  withPov,  \* there is a POV
  runner,   \* the runner: "load", "start", "wait", "judged" or "killed"
  mode,     \* each guest: "loaded", "spawned", "guest", "asleep", "woken", "ended", or
            \* "none"
  wish,     \* what a guest that reads a pipe wants of it
  stopped,  \* guests whose emulator has been told to stop
  bytes,    \* the number of bytes in each pipe
  sleepers, \* who waits on each pipe's condition, in order
  secret,   \* each guest's secret page, 0 while it is not mapped
  neg,      \* the negotiator
  readers   \* history: who has read each pipe
cgcVars == <<withPov, runner, mode, wish, stopped, bytes, sleepers, secret, neg, readers>>

-----------------------------------------------------------------------------
(* Descriptors.  A pair of pipes has two ends; what is written at one is   *)
(* read at the other.                                                      *)

Pairs == CBs + 1
Pipes == 1..(2 * Pairs)
End(kind, from, into) == [kind |-> kind, from |-> from, into |-> into]
PairA(k) == End("pipe", 2 * k - 1, 2 * k)
PairB(k) == End("pipe", 2 * k, 2 * k - 1)
Null == End("null", 0, 0)
Host == End("host", 0, 0)

\* Shared by all the challenge binaries.
Cbio(fd) ==
  CASE fd \in {0, 1} -> IF withPov THEN PairA(Pairs) ELSE Host
    [] fd = 2 -> IF withPov THEN Null ELSE Host
    [] OTHER -> IF fd % 2 = 1 THEN PairA((fd - 1) \div 2) ELSE PairB((fd - 2) \div 2)
CbFds == 0..(IF CBs > 1 THEN 2 * CBs + 2 ELSE 2)

Virtio(g, fd) ==
  IF g # Pov THEN Cbio(fd)
  ELSE CASE fd \in {0, 1} -> PairB(Pairs) [] fd = 2 -> Null [] fd = 3 -> End("neg", 0, 0)
Fds(g) == IF g = Pov THEN 0..3 ELSE CbFds

-----------------------------------------------------------------------------
(* BufPipe: each call holds the pipe's lock, which a reader gives up while *)
(* it sleeps.  A write wakes the reader that has slept longest.            *)

SignalNobody(p) == UNCHANGED <<mode, sleepers>>   \* mutant: nobody is woken
Signal(p) ==
  IF sleepers[p] = <<>> THEN UNCHANGED <<mode, sleepers>>
  ELSE /\ mode' = [mode EXCEPT ![Head(sleepers[p])] = "woken"]
       /\ sleepers' = [sleepers EXCEPT ![p] = Tail(@)]

PipeWrite(p, n) ==
  /\ bytes[p] + n <= MaxBytes
  /\ bytes' = [bytes EXCEPT ![p] = @ + n]
  /\ Signal(p)
  /\ UNCHANGED readers

NoWish == [pipe |-> 1, size |-> 0]

\* The rest of a read, from the test of the buffer on.
PipeRead(g, p, n) ==
  IF bytes[p] = 0
  THEN /\ mode' = [mode EXCEPT ![g] = "asleep"]
       /\ sleepers' = [sleepers EXCEPT ![p] = Append(@, g)]
       /\ wish' = [wish EXCEPT ![g] = [pipe |-> p, size |-> n]]
       /\ UNCHANGED <<bytes, readers>>
  ELSE /\ mode' = [mode EXCEPT ![g] = "guest"]
       /\ bytes' = [bytes EXCEPT ![p] = IF @ > n THEN @ - n ELSE 0]
       /\ readers' = [readers EXCEPT ![p] = @ \cup {g}]
       /\ wish' = [wish EXCEPT ![g] = NoWish]
       /\ UNCHANGED sleepers

-----------------------------------------------------------------------------
(* Negotiate: the type asked for, the words not yet used, the words to be  *)
(* read, and whether all is settled.  Type 1 sends values for a program    *)
(* counter and a register, type 2 where the secret page is.                *)

NegInit == [type |-> 0, in |-> <<>>, out |-> 0, ready |-> FALSE, count |-> 0]

NegType(n) ==
  IF n.type # 0 \/ n.in = <<>> THEN n
  ELSE LET t == Head(n.in)
           m == [n EXCEPT !.type = t, !.in = Tail(n.in)] IN
       CASE t = 2 -> [m EXCEPT !.ready = TRUE, !.out = @ + 3]
         [] t = 1 -> m
         [] OTHER -> [m EXCEPT !.ready = TRUE]
NegMasks(n) ==
  IF n.type # 1 \/ n.ready \/ Len(n.in) < 3 THEN n
  ELSE LET m == [n EXCEPT !.in = SubSeq(@, 4, Len(@)), !.ready = TRUE] IN
       IF n.in[3] <= 7 THEN [m EXCEPT !.out = @ + 2]
       ELSE [m EXCEPT !.type = 0]

\* A write after a type 2 is settled is the secret, right or wrong: everyone stops.
NegWrite(ws) ==
  LET n == NegMasks(NegType([neg EXCEPT !.in = @ \o ws, !.count = @ + 1])) IN
  /\ neg.count < MaxMessages
  /\ neg' = IF neg.ready THEN [neg EXCEPT !.count = @ + 1] ELSE n
  /\ stopped' = IF neg.ready /\ neg.type = 2
                THEN stopped \cup {g \in Guests : mode[g] \in {"guest", "asleep", "woken"}}
                ELSE stopped
  /\ UNCHANGED <<mode, wish, bytes, sleepers, readers>>

NegRead(n) ==
  /\ neg' = [neg EXCEPT !.out = IF @ > n THEN @ - n ELSE 0]
  /\ UNCHANGED <<mode, wish, stopped, bytes, sleepers, readers>>

-----------------------------------------------------------------------------
(* CgcHook, the kernel asked first.                                        *)

Calls(g) == mode[g] = "guest" /\ g \notin stopped /\ UNCHANGED <<withPov, runner, secret>>

\* What a call returns is left out: that it failed, that the memory could not be
\* read or written, or how many bytes it took; the null end takes and gives none.
Transmit(g, fd, n) ==
  LET rw == Virtio(g, fd) IN
  /\ Calls(g)
  /\ \/ rw.kind = "pipe" /\ PipeWrite(rw.into, n) /\ UNCHANGED <<wish, stopped, neg>>
     \/ rw.kind = "neg" /\ \E ws \in Messages : NegWrite(ws)

Receive(g, fd, n) ==
  LET rw == Virtio(g, fd) IN
  /\ Calls(g)
  /\ \/ rw.kind = "pipe" /\ PipeRead(g, rw.from, n) /\ UNCHANGED <<stopped, neg>>
     \/ rw.kind = "neg" /\ NegRead(n)

Wake(g) ==
  /\ mode[g] = "woken"
  /\ PipeRead(g, wish[g].pipe, wish[g].size)
  /\ UNCHANGED <<withPov, runner, stopped, secret, neg>>

\* Stop makes the emulator return, and Run's loop starts it again: nothing has set
\* an exit status.
RunAgain(g) ==
  /\ mode[g] = "guest" /\ g \in stopped
  /\ stopped' = stopped \ {g}
  /\ UNCHANGED <<withPov, runner, mode, wish, bytes, sleepers, secret, neg, readers>>

-----------------------------------------------------------------------------
(* The runner.                                                             *)

\* "give everyone in a CS the same secret page": pages that are not mapped yet can
\* be neither read nor written.
Share ==
  /\ runner = "load"
  /\ runner' = "start"
  /\ secret' = [g \in Guests |->
       IF g \in CS \ {1} /\ secret[1] # 0 /\ secret[g] # 0 THEN secret[1] ELSE secret[g]]
  /\ UNCHANGED <<withPov, mode, wish, stopped, bytes, sleepers, neg, readers>>

\* One goroutine after the other, the POV's last.
Spawn(g) ==
  /\ runner = "start"
  /\ mode[g] = "loaded"
  /\ \A h \in CS : mode[h] = "loaded" => g # Pov /\ h >= g
  /\ mode' = [mode EXCEPT ![g] = "spawned"]
  /\ runner' = IF \A h \in Guests \ {g} : mode[h] # "loaded" THEN "wait" ELSE runner
  /\ UNCHANGED <<withPov, wish, stopped, bytes, sleepers, secret, neg, readers>>

\* Run calls CgcInit, which maps the page and fills it with random bytes.
CgcInit(g) ==
  /\ mode[g] = "spawned"
  /\ mode' = [mode EXCEPT ![g] = "guest"]
  /\ secret' = [secret EXCEPT ![g] = g + 1]
  /\ UNCHANGED <<withPov, runner, wish, stopped, bytes, sleepers, neg, readers>>

\* Run returns, the guest having exited or failed.  A challenge binary's goroutine
\* then stops all the others.
Ends(g) ==
  /\ mode[g] = "guest" /\ g \notin stopped
  /\ mode' = [mode EXCEPT ![g] = "ended"]
  /\ stopped' = IF g = Pov THEN stopped
                ELSE stopped \cup {h \in Guests \ {g} : mode[h] \in {"guest", "asleep", "woken"}}
  /\ UNCHANGED <<withPov, runner, wish, bytes, sleepers, secret, neg, readers>>

Judge ==
  /\ runner = "wait"
  /\ \A g \in Guests : mode[g] \in {"ended", "none"}
  /\ runner' = "judged"
  /\ UNCHANGED <<withPov, mode, wish, stopped, bytes, sleepers, secret, neg, readers>>

\* The timeout ends the program.
Kill ==
  /\ runner \in {"start", "wait"}
  /\ runner' = "killed"
  /\ UNCHANGED <<withPov, mode, wish, stopped, bytes, sleepers, secret, neg, readers>>

CgcStart ==
  /\ runner = "load"
  /\ withPov \in BOOLEAN
  /\ mode = [g \in Guests |-> IF g = Pov /\ ~withPov THEN "none" ELSE "loaded"]
  /\ wish = [g \in Guests |-> NoWish]
  /\ stopped = {}
  /\ bytes = [p \in Pipes |-> 0]
  /\ sleepers = [p \in Pipes |-> <<>>]
  /\ secret = [g \in Guests |-> 0]
  /\ neg = NegInit
  /\ readers = [p \in Pipes |-> {}]

GoesOn(g) == Wake(g) \/ RunAgain(g) \/ CgcInit(g)
CgcNext ==
  \/ Share \/ Judge \/ Kill
  \/ /\ runner \in {"start", "wait"}
     /\ \E g \in Guests :
          \/ Spawn(g) \/ GoesOn(g) \/ Ends(g)
          \/ \E fd \in Fds(g) \cap Used, n \in Sizes : Transmit(g, fd, n) \/ Receive(g, fd, n)

CgcSpec == CgcStart /\ [][CgcNext]_cgcVars

-----------------------------------------------------------------------------
\* A guest sleeps on a pipe that has bytes in it only when another reader of the
\* pipe has the wakeup or had it: with one reader for each pipe nobody sleeps on
\* (BufPipe.Read and Write, io.go).
NobodySleepsOnBytes ==
  \A p \in Pipes : \A i \in DOMAIN sleepers[p] :
    bytes[p] > 0 =>
      \/ \E g \in Guests : mode[g] = "woken" /\ wish[g].pipe = p
      \/ readers[p] \ {sleepers[p][i]} # {}
=============================================================================
