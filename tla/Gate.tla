-------------------------------- MODULE Gate --------------------------------
(***************************************************************************)
(* models/gate.go: the rendezvous between the goroutine that runs the      *)
(* emulator (Main, in Usercorn.Run) and the goroutines of the debugger     *)
(* front ends (the gdb stub, the Lua prompt, the terminal UI).             *)
(*                                                                         *)
(* Each goroutine has a program counter; one step is one operation on the  *)
(* gate's mutex, its WaitGroup, or one of the channels of its two waiters. *)
(* A channel is unbuffered, so a send and its receive are one joint step.  *)
(* It is named by the goroutine that made it and the point at which that   *)
(* goroutine receives from it: <<c, "onStop">> is awaited at pc "onStop".  *)
(***************************************************************************)
EXTENDS Naturals, Sequences, FiniteSets

CONSTANTS
  Clients,   \* goroutines of the debugger front ends
  Main,      \* the goroutine in Usercorn.Run
  NoOne      \* the value of "holder" while Gate.Mutex is free

ASSUME GateAssumption ==
  /\ IsFiniteSet(Clients)
  /\ Main \notin Clients
  /\ NoOne \notin Clients \cup {Main}

VARIABLES
  holder,    \* who holds Gate.Mutex
  wg,        \* the counter of Gate.wg
  startCb,   \* Gate.start.cb, the channels UnlockStart waits on
  stopCb,    \* Gate.stop.cb, the channels the three Stop forms wait on
  sent,      \* how many channels of its waiter Notify has served so far
  mpc,       \* where Main is in Start, between Start and Stop, or in Stop
  cpc        \* where each client is

gateVars == <<holder, wg, startCb, stopCb, sent, mpc, cpc>>

\* The points at which a client receives from a channel, and those at which it
\* holds the mutex.
Awaiting == {"onStart", "onStop", "onStopLock", "onBlock"}
Holding == {"inside", "added", "ready", "readyStop", "readyStart", "locked"}

ClientPcs ==
  Awaiting \cup Holding \cup {"outside", "gotStart", "counted", "relock"}
MainPcs ==
  {"idle", "startNotify", "startWait", "running", "stopNotify", "stopUnlock", "stopWait"}
MainHolding == {"startNotify", "startWait", "running", "stopNotify", "stopUnlock"}

Channel == Clients \X Awaiting

GateTypeOK ==
  /\ holder \in Clients \cup {Main, NoOne}
  /\ wg \in Nat
  /\ startCb \in Seq(Channel)
  /\ stopCb \in Seq(Channel)
  /\ sent \in Nat
  /\ mpc \in MainPcs
  /\ cpc \in [Clients -> ClientPcs]

GateInit ==
  /\ holder = NoOne
  /\ wg = 0
  /\ startCb = <<>>
  /\ stopCb = <<>>
  /\ sent = 0
  /\ mpc = "idle"
  /\ cpc = [c \in Clients |-> "outside"]

-----------------------------------------------------------------------------
(* The mutex and the waiters.                                              *)

Goto(c, from, to) == cpc[c] = from /\ cpc' = [cpc EXCEPT ![c] = to]
MainGoto(from, to) == mpc = from /\ mpc' = to

Acquire(t) == holder = NoOne /\ holder' = t
Release(t) == holder = t /\ holder' = NoOne

\* waiter.Add: it takes the waiter's own mutex, which Notify holds throughout.
AddTo(cb, busy, c, at) == mpc # busy /\ cb' = Append(cb, <<c, at>>)
AddStart(c, at) == AddTo(startCb, "startNotify", c, at) /\ UNCHANGED stopCb
AddStop(c, at) == AddTo(stopCb, "stopNotify", c, at) /\ UNCHANGED startCb

\* Where a client goes on receiving.
Received(at) ==
  CASE at = "onStart" -> "gotStart"
    [] at \in {"onStop", "onStopLock"} -> "relock"
    [] at = "onBlock" -> "outside"

\* waiter.Notify: one send, which meets the receiver at its channel ...
Send(cb) ==
  /\ sent < Len(cb)
  /\ LET ch == cb[sent + 1] IN Goto(ch[1], ch[2], Received(ch[2]))
  /\ sent' = sent + 1
  /\ UNCHANGED <<holder, wg, startCb, stopCb, mpc>>

\* ... and, after the last one, Truncate.
AllSentKeeping(cb) == sent = Len(cb) /\ sent' = 0 /\ cb' = cb   \* mutant
AllSent(cb) == sent = Len(cb) /\ sent' = 0 /\ cb' = <<>>

-----------------------------------------------------------------------------
(* Main.  Gate.Start: Lock, start.Notify, wg.Wait with the mutex held.     *)

StartLock ==
  /\ MainGoto("idle", "startNotify")
  /\ Acquire(Main)
  /\ UNCHANGED <<wg, startCb, stopCb, sent, cpc>>

StartSend == mpc = "startNotify" /\ Send(startCb)

StartNotified ==
  /\ MainGoto("startNotify", "startWait")
  /\ AllSent(startCb)
  /\ UNCHANGED <<holder, wg, stopCb, cpc>>

StartReturn ==
  /\ MainGoto("startWait", "running")
  /\ wg = 0
  /\ UNCHANGED <<holder, wg, startCb, stopCb, sent, cpc>>

(* Gate.Stop: stop.Notify, Unlock, wg.Wait.                                *)

StopCall ==
  /\ MainGoto("running", "stopNotify")
  /\ UNCHANGED <<holder, wg, startCb, stopCb, sent, cpc>>

StopSend == mpc = "stopNotify" /\ Send(stopCb)

StopNotified ==
  /\ MainGoto("stopNotify", "stopUnlock")
  /\ AllSent(stopCb)
  /\ UNCHANGED <<holder, wg, startCb, cpc>>

StopUnlock ==
  /\ MainGoto("stopUnlock", "stopWait")
  /\ Release(Main)
  /\ UNCHANGED <<wg, startCb, stopCb, sent, cpc>>

StopReturnUnwaited ==   \* mutant: no wg.Wait
  /\ MainGoto("stopWait", "idle")
  /\ UNCHANGED <<holder, wg, startCb, stopCb, sent, cpc>>

StopReturn ==
  /\ MainGoto("stopWait", "idle")
  /\ wg = 0
  /\ UNCHANGED <<holder, wg, startCb, stopCb, sent, cpc>>

MainStart == StartLock \/ StartSend \/ StartNotified \/ StartReturn
MainStop == StopSend \/ StopNotified \/ StopUnlock \/ StopReturn

-----------------------------------------------------------------------------
(* Clients.  The embedded sync.Mutex, used directly.                       *)

ClientLock(c) ==
  /\ Goto(c, "outside", "inside")
  /\ Acquire(c)
  /\ UNCHANGED <<wg, startCb, stopCb, sent, mpc>>

ClientUnlock(c) ==
  /\ Goto(c, "inside", "outside")
  /\ Release(c)
  /\ UNCHANGED <<wg, startCb, stopCb, sent, mpc>>

(* UnlockStopRelock: two channels, both on the stop waiter, so that the    *)
(* sender of the first cannot go on before the client has counted itself.  *)

RelockAddFirstStart(c) ==   \* mutant: the channel named "start" on the start waiter
  /\ Goto(c, "inside", "added")
  /\ AddStart(c, "onStart")
  /\ UNCHANGED <<holder, wg, sent, mpc>>

RelockAddFirst(c) ==
  /\ Goto(c, "inside", "added")
  /\ AddStop(c, "onStart")
  /\ UNCHANGED <<holder, wg, sent, mpc>>

RelockAddNoSecond(c) ==   \* mutant: one channel only
  /\ Goto(c, "added", "ready")
  /\ UNCHANGED <<holder, wg, startCb, stopCb, sent, mpc>>

RelockAddSecond(c) ==
  /\ Goto(c, "added", "ready")
  /\ AddStop(c, "onStop")
  /\ UNCHANGED <<holder, wg, sent, mpc>>

RelockUnlock(c) ==
  /\ Goto(c, "ready", "onStart")
  /\ Release(c)
  /\ UNCHANGED <<wg, startCb, stopCb, sent, mpc>>

RelockCountNot(c) ==   \* mutant: no wg.Add
  /\ Goto(c, "gotStart", "onStop")
  /\ UNCHANGED <<holder, wg, startCb, stopCb, sent, mpc>>

RelockCount(c) ==
  /\ Goto(c, "gotStart", "onStop")
  /\ wg' = wg + 1
  /\ UNCHANGED <<holder, startCb, stopCb, sent, mpc>>

(* The Lock and wg.Done that end UnlockStopRelock and StopLock.            *)

Relock(c) ==
  /\ Goto(c, "relock", "locked")
  /\ Acquire(c)
  /\ UNCHANGED <<wg, startCb, stopCb, sent, mpc>>

RelockDone(c) ==
  /\ Goto(c, "locked", "inside")
  /\ wg' = wg - 1
  /\ UNCHANGED <<holder, startCb, stopCb, sent, mpc>>

(* StopLock, called without the mutex.                                     *)

StopLockCount(c) ==
  /\ Goto(c, "outside", "counted")
  /\ wg' = wg + 1
  /\ UNCHANGED <<holder, startCb, stopCb, sent, mpc>>

StopLockAdd(c) ==
  /\ Goto(c, "counted", "onStopLock")
  /\ AddStop(c, "onStopLock")
  /\ UNCHANGED <<holder, wg, sent, mpc>>

(* UnlockStop and UnlockStart: wait for Main's next Stop or Start outside. *)

UnlockStopAdd(c) ==
  /\ Goto(c, "inside", "readyStop")
  /\ AddStop(c, "onBlock")
  /\ UNCHANGED <<holder, wg, sent, mpc>>

UnlockStartAdd(c) ==
  /\ Goto(c, "inside", "readyStart")
  /\ AddStart(c, "onBlock")
  /\ UNCHANGED <<holder, wg, sent, mpc>>

UnlockBlock(c) ==
  /\ \E ready \in {"readyStop", "readyStart"} : Goto(c, ready, "onBlock")
  /\ Release(c)
  /\ UNCHANGED <<wg, startCb, stopCb, sent, mpc>>

\* The calls a client makes of its own accord, and the steps that finish them.
Call(c) ==
  ClientLock(c) \/ ClientUnlock(c) \/ RelockAddFirst(c)
    \/ StopLockCount(c) \/ UnlockStopAdd(c) \/ UnlockStartAdd(c)
Proceed(c) ==
  RelockAddSecond(c) \/ RelockUnlock(c) \/ RelockCount(c)
    \/ RelockDone(c) \/ StopLockAdd(c) \/ UnlockBlock(c)

GateNext ==
  \/ MainStart
  \/ StopCall
  \/ MainStop
  \/ \E c \in Clients : Call(c) \/ Proceed(c) \/ Relock(c)

GateSpec == GateInit /\ [][GateNext]_gateVars

(* sync.Mutex hands a lock that is contended for over to its oldest waiter  *)
(* (starvation mode), hence strong fairness where a goroutine acquires it.  *)
(* A goroutine that can go on does, and a run of the emulator ends.  What   *)
(* a client does at its prompt is its user's choice and is under no         *)
(* fairness.                                                                *)
GateFairness ==
  /\ SF_gateVars(StartLock)
  /\ WF_gateVars(MainStart \/ StopCall \/ MainStop)
  /\ \A c \in Clients : WF_gateVars(Proceed(c)) /\ SF_gateVars(Relock(c))

FairGateSpec == GateSpec /\ GateFairness

-----------------------------------------------------------------------------
(* Properties.                                                             *)

\* The mutex is held by exactly the goroutine whose position says so: Main from
\* the Lock in Start to the Unlock in Stop, a client whenever it is handling
\* commands (gate.go:42-82).
HolderInv ==
  /\ holder = Main <=> mpc \in MainHolding
  /\ \A c \in Clients : holder = c <=> cpc[c] \in Holding

\* The WaitGroup counts the clients between wg.Add and wg.Done (gate.go:55-58,
\* 78-81).
Counted == {c \in Clients :
              cpc[c] \in {"onStop", "counted", "onStopLock", "relock", "locked"}}
WgInv == wg = Cardinality(Counted)

\* A client that Stop has woken takes the mutex before Main leaves Stop: no run
\* starts while a client is still on its way back in (gate.go:51, 73-82).
Owed(c) == cpc[c] \in {"relock", "locked"}
NoTurnSkipped ==
  (\E c \in Clients : Owed(c)) => mpc \in {"stopNotify", "stopUnlock", "stopWait"}

\* No wakeup is lost: the channel a client blocks on is still to be served by a
\* coming Notify, once, and behind a client's first channel comes its second
\* (gate.go:26-33, 73-79).
Pending(cb, busy, ch) ==
  Cardinality({i \in DOMAIN cb : cb[i] = ch /\ (mpc = busy => i > sent)})
NoLostWakeup ==
  \A c \in Clients :
    /\ cpc[c] \in Awaiting =>
         Pending(startCb, "startNotify", <<c, cpc[c]>>)
           + Pending(stopCb, "stopNotify", <<c, cpc[c]>>) = 1
    /\ cpc[c] = "onStart" => Pending(stopCb, "stopNotify", <<c, "onStop">>) = 1

\* What makes these invariants inductive: between two Notify calls nothing has
\* been sent; the start waiter only has channels of UnlockStart; and behind each
\* client in UnlockStopRelock stand its channels, in the order it made them.
StopSent == IF mpc = "stopNotify" THEN sent ELSE 0
Queued(c, at) == {i \in DOMAIN stopCb : StopSent < i /\ stopCb[i] = <<c, at>>}

QueueInv ==
  /\ mpc \notin {"startNotify", "stopNotify"} => sent = 0
  /\ \A i \in DOMAIN startCb : startCb[i][2] = "onBlock"
  /\ \A c \in Clients :
       /\ cpc[c] = "added" => Queued(c, "onStart") # {}
       /\ cpc[c] \in {"ready", "onStart"} =>
            \E i \in Queued(c, "onStart"), j \in Queued(c, "onStop") : i < j
       /\ cpc[c] \in {"gotStart", "onStop"} =>
            mpc = "stopNotify" /\ Queued(c, "onStop") # {}
       /\ cpc[c] = "onStart" => mpc # "stopUnlock"

GateInv == GateTypeOK /\ HolderInv /\ WgInv /\ NoTurnSkipped /\ QueueInv

\* The client counts itself in the WaitGroup only while Main is held up in the
\* very Notify that woke it, never while Main may be in wg.Wait, which would be
\* a misuse of the WaitGroup and could let Wait return too early (gate.go:73-79).
CountedInNotify ==
  [][\A c \in Clients : RelockCount(c) => mpc = "stopNotify"]_gateVars

\* The gate implements taking turns: a client counts as having asked from its
\* Unlock to Main's, and as due from then until it has relocked.
Asked == {c \in Clients :
            \/ cpc[c] \in {"onStart", "gotStart", "onStop"}
            \/ cpc[c] = "relock" /\ mpc # "stopWait"}
Due == {c \in Clients : cpc[c] = "relock" /\ mpc = "stopWait"}

T == INSTANCE Turns WITH owner <- holder, asked <- Asked, due <- Due
TakesTurns == T!TurnsSpec

\* As long as nobody calls StopLock and no client sits at its prompt forever,
\* every blocking call on the gate returns: a client that resumed the emulator
\* gets the gate back when the run ends (gate.go:61-82).
Blocked(c) == cpc[c] \notin {"inside", "outside"}
CallsReturn ==
  (/\ [](\A c \in Clients : cpc[c] # "counted")
   /\ \A c \in Clients : []<>(cpc[c] # "inside"))
    => \A c \in Clients : Blocked(c) ~> ~Blocked(c)
=============================================================================
