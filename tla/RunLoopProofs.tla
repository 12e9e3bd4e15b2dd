--------------------------- MODULE RunLoopProofs ---------------------------
(***************************************************************************)
(* The gate for any finite set of clients: its inductive invariant, that   *)
(* it implements Turns and that no wakeup is lost.  Then Run and its front *)
(* ends, for any finite set of clients of either kind: the loop is a user  *)
(* of the gate, and its invariants and action properties hold.             *)
(***************************************************************************)
EXTENDS RunLoop, FiniteSetTheorems, SequenceTheorems, TLAPS

-----------------------------------------------------------------------------
(* Counting: what moving one client does to the set the WaitGroup counts.  *)

CountedPcs == {"onStop", "counted", "onStopLock", "relock", "locked"}

\* The counted clients are finitely many, so their number is a natural number,
\* and it is not zero while there is one of them.
LEMMA CountedFinite ==
  /\ IsFiniteSet(Counted)
  /\ Cardinality(Counted) \in Nat
  /\ Cardinality(Counted) = 0 <=> Counted = {}
<1>1. Counted \in SUBSET Clients
  BY DEF Counted
<1>2. IsFiniteSet(Counted)
  BY <1>1, FS_Subset, GateAssumption
<1>3. QED
  BY <1>2, FS_CardinalityType, FS_EmptySet

\* A client that enters, leaves or stays in the counted part of a call changes
\* the number of counted clients by one, minus one or nothing.
LEMMA CountedStep ==
  ASSUME cpc \in [Clients -> ClientPcs], NEW c \in Clients, NEW p,
         cpc' = [cpc EXCEPT ![c] = p]
  PROVE  /\ cpc[c] \notin CountedPcs /\ p \in CountedPcs
              => Cardinality(Counted') = Cardinality(Counted) + 1
         /\ cpc[c] \in CountedPcs /\ p \notin CountedPcs
              => Cardinality(Counted') = Cardinality(Counted) - 1
         /\ (cpc[c] \in CountedPcs <=> p \in CountedPcs)
              => Cardinality(Counted') = Cardinality(Counted)
<1>1. cpc[c] \notin CountedPcs /\ p \in CountedPcs
        => Counted' = Counted \cup {c} /\ c \notin Counted
  BY DEF Counted, CountedPcs
<1>2. cpc[c] \in CountedPcs /\ p \notin CountedPcs
        => Counted' = Counted \ {c} /\ c \in Counted
  BY DEF Counted, CountedPcs
<1>3. (cpc[c] \in CountedPcs <=> p \in CountedPcs) => Counted' = Counted
  BY DEF Counted, CountedPcs
<1>4. QED
  BY <1>1, <1>2, <1>3, CountedFinite, FS_AddElement, FS_RemoveElement

\* One send of Notify moves the owner of the next channel past its receive.
LEMMA SendStep ==
  ASSUME NEW cb \in Seq(Channel), sent \in Nat, Send(cb)
  PROVE  \E c \in Clients, stage \in Awaiting :
           /\ sent + 1 \in DOMAIN cb
           /\ cb[sent + 1] = <<c, stage>>
           /\ cpc[c] = stage
           /\ cpc' = [cpc EXCEPT ![c] = Received(stage)]
           /\ sent' = sent + 1
           /\ UNCHANGED <<holder, wg, startCb, stopCb, mpc>>
<1>1. sent + 1 \in DOMAIN cb /\ cb[sent + 1] \in Channel
  BY DEF Send
<1>2. PICK c \in Clients, stage \in Awaiting : cb[sent + 1] = <<c, stage>>
  BY <1>1 DEF Channel
<1>3. cb[sent + 1][1] = c /\ cb[sent + 1][2] = stage
  BY <1>2
<1>4. cpc[c] = stage /\ cpc' = [cpc EXCEPT ![c] = Received(stage)]
  BY <1>3 DEF Send, Goto
<1>5. QED
  BY <1>1, <1>2, <1>4 DEF Send

LEMMA ReceivedPcs ==
  /\ Received("onStart") = "gotStart"
  /\ Received("onStop") = "relock"
  /\ Received("onStopLock") = "relock"
  /\ Received("onBlock") = "outside"
BY DEF Received

-----------------------------------------------------------------------------
(* The invariant, one part at a time.                                      *)

\* Types and the WaitGroup's counter: they need each other, for wg.Done must not
\* take the counter below zero.
LEMMA TypeStep ==
  ASSUME GateTypeOK, WgInv, [GateNext]_gateVars
  PROVE  GateTypeOK' /\ WgInv'
<1> USE DEF GateTypeOK, WgInv, Goto, MainGoto, Acquire, Release
<1>1. CASE StartLock
  BY <1>1 DEF StartLock, MainPcs, Counted
<1>2. CASE StartSend
  <2>1. PICK c \in Clients, stage \in Awaiting :
          /\ cpc[c] = stage
          /\ cpc' = [cpc EXCEPT ![c] = Received(stage)]
          /\ sent' = sent + 1
          /\ UNCHANGED <<holder, wg, startCb, stopCb, mpc>>
    BY <1>2, SendStep DEF StartSend
  <2>2. Received(stage) \in ClientPcs /\ (stage \in CountedPcs <=> Received(stage) \in CountedPcs)
    BY ReceivedPcs DEF Awaiting, ClientPcs, CountedPcs
  <2>3. Cardinality(Counted') = Cardinality(Counted)
    BY <2>1, <2>2, CountedStep
  <2>4. QED
    BY <2>1, <2>2, <2>3
<1>3. CASE StartNotified
  BY <1>3 DEF StartNotified, AllSent, MainPcs, Counted
<1>4. CASE StartReturn
  BY <1>4 DEF StartReturn, MainPcs, Counted
<1>5. CASE StopCall
  BY <1>5 DEF StopCall, MainPcs, Counted
<1>6. CASE StopSend
  <2>1. PICK c \in Clients, stage \in Awaiting :
          /\ cpc[c] = stage
          /\ cpc' = [cpc EXCEPT ![c] = Received(stage)]
          /\ sent' = sent + 1
          /\ UNCHANGED <<holder, wg, startCb, stopCb, mpc>>
    BY <1>6, SendStep DEF StopSend
  <2>2. Received(stage) \in ClientPcs /\ (stage \in CountedPcs <=> Received(stage) \in CountedPcs)
    BY ReceivedPcs DEF Awaiting, ClientPcs, CountedPcs
  <2>3. Cardinality(Counted') = Cardinality(Counted)
    BY <2>1, <2>2, CountedStep
  <2>4. QED
    BY <2>1, <2>2, <2>3
<1>7. CASE StopNotified
  BY <1>7 DEF StopNotified, AllSent, MainPcs, Counted
<1>8. CASE StopUnlock
  BY <1>8 DEF StopUnlock, MainPcs, Counted
<1>9. CASE StopReturn
  BY <1>9 DEF StopReturn, MainPcs, Counted
<1>10. ASSUME NEW c \in Clients, ClientLock(c) \/ ClientUnlock(c)
       PROVE  GateTypeOK' /\ WgInv'
  BY <1>10, CountedStep DEF ClientLock, ClientUnlock, ClientPcs, Holding, CountedPcs
<1>11. ASSUME NEW c \in Clients,
              RelockAddFirst(c) \/ RelockAddSecond(c) \/ UnlockStopAdd(c) \/ UnlockStartAdd(c)
                \/ StopLockAdd(c)
       PROVE  GateTypeOK' /\ WgInv'
  <2>1. \A stage \in Awaiting : <<c, stage>> \in Channel
    BY DEF Channel
  <2>2. startCb' \in Seq(Channel) /\ stopCb' \in Seq(Channel)
    <3>1. \/ stopCb' = stopCb /\ startCb' = startCb
          \/ \E stage \in Awaiting : stopCb' = Append(stopCb, <<c, stage>>) /\ startCb' = startCb
          \/ \E stage \in Awaiting : startCb' = Append(startCb, <<c, stage>>) /\ stopCb' = stopCb
      BY <1>11
      DEF RelockAddFirst, RelockAddSecond, UnlockStopAdd, UnlockStartAdd, StopLockAdd,
          AddStop, AddStart, AddTo, Awaiting
    <3>2. \A stage \in Awaiting : /\ Append(stopCb, <<c, stage>>) \in Seq(Channel)
                              /\ Append(startCb, <<c, stage>>) \in Seq(Channel)
      BY <2>1, AppendProperties
    <3>3. QED
      BY <3>1, <3>2
  <2>3. PICK p \in ClientPcs :
          /\ cpc' = [cpc EXCEPT ![c] = p]
          /\ cpc[c] \in CountedPcs <=> p \in CountedPcs
          /\ UNCHANGED <<holder, wg, sent, mpc>>
    BY <1>11
    DEF RelockAddFirst, RelockAddSecond, UnlockStopAdd, UnlockStartAdd, StopLockAdd,
        ClientPcs, Holding, Awaiting, CountedPcs
  <2>4. Cardinality(Counted') = Cardinality(Counted)
    BY <2>3, CountedStep
  <2>5. QED
    BY <2>2, <2>3, <2>4
<1>12. ASSUME NEW c \in Clients, RelockUnlock(c) \/ UnlockBlock(c) \/ Relock(c)
       PROVE  GateTypeOK' /\ WgInv'
  BY <1>12, CountedStep
  DEF RelockUnlock, UnlockBlock, Relock, ClientPcs, Holding, Awaiting, CountedPcs
<1>13. ASSUME NEW c \in Clients, RelockCount(c) \/ StopLockCount(c)
       PROVE  GateTypeOK' /\ WgInv'
  BY <1>13, CountedStep, CountedFinite
  DEF RelockCount, StopLockCount, ClientPcs, Awaiting, CountedPcs
<1>14. ASSUME NEW c \in Clients, RelockDone(c)
       PROVE  GateTypeOK' /\ WgInv'
  <2>1. c \in Counted
    BY <1>14 DEF RelockDone, Counted
  <2>2. wg # 0
    BY <2>1, CountedFinite
  <2>3. Cardinality(Counted') = Cardinality(Counted) - 1
    <3>1. cpc' = [cpc EXCEPT ![c] = "inside"]
      BY <1>14 DEF RelockDone
    <3>2. cpc[c] \in CountedPcs /\ "inside" \notin CountedPcs
      BY <1>14 DEF RelockDone, CountedPcs
    <3>3. QED
      BY <3>1, <3>2, CountedStep
  <2>4. wg' \in Nat /\ wg' = Cardinality(Counted')
    BY <1>14, <2>2, <2>3 DEF RelockDone
  <2>5. QED
    BY <1>14, <2>4 DEF RelockDone, ClientPcs, Holding
<1>15. CASE UNCHANGED gateVars
  BY <1>15 DEF gateVars, Counted
<1>16. QED
  BY <1>1, <1>2, <1>3, <1>4, <1>5, <1>6, <1>7, <1>8, <1>9, <1>10, <1>11, <1>12, <1>13,
     <1>14, <1>15
  DEF GateNext, MainStart, MainStop, Call, Proceed

\* Whoever holds the mutex is the one whose position says so.
LEMMA HolderStep ==
  ASSUME GateTypeOK, HolderInv, [GateNext]_gateVars
  PROVE  HolderInv'
<1> USE GateAssumption DEF GateTypeOK, HolderInv, Goto, MainGoto, Acquire, Release, MainHolding
<1>1. CASE StartLock
  BY <1>1 DEF StartLock
<1>2. CASE StartSend \/ StopSend
  <2>1. PICK c \in Clients, stage \in Awaiting :
          /\ cpc[c] = stage
          /\ cpc' = [cpc EXCEPT ![c] = Received(stage)]
          /\ UNCHANGED <<holder, mpc>>
    BY <1>2, SendStep DEF StartSend, StopSend
  <2>2. stage \notin Holding /\ Received(stage) \notin Holding
    BY ReceivedPcs DEF Awaiting, Holding
  <2>3. QED
    BY <2>1, <2>2
<1>3. CASE StartNotified \/ StartReturn \/ StopCall \/ StopNotified \/ StopReturn
  BY <1>3 DEF StartNotified, StartReturn, StopCall, StopNotified, StopReturn
<1>4. CASE StopUnlock
  BY <1>4 DEF StopUnlock
<1>5. ASSUME NEW c \in Clients, ClientLock(c) \/ Relock(c)
      PROVE  HolderInv'
  BY <1>5 DEF ClientLock, Relock, Holding
<1>6. ASSUME NEW c \in Clients, ClientUnlock(c) \/ RelockUnlock(c) \/ UnlockBlock(c)
      PROVE  HolderInv'
  BY <1>6 DEF ClientUnlock, RelockUnlock, UnlockBlock, Holding
<1>7. ASSUME NEW c \in Clients,
             \/ RelockAddFirst(c) \/ RelockAddSecond(c) \/ RelockDone(c)
             \/ UnlockStopAdd(c) \/ UnlockStartAdd(c)
      PROVE  HolderInv'
  BY <1>7
  DEF RelockAddFirst, RelockAddSecond, RelockDone, UnlockStopAdd, UnlockStartAdd, Holding
<1>8. ASSUME NEW c \in Clients, RelockCount(c) \/ StopLockCount(c) \/ StopLockAdd(c)
      PROVE  HolderInv'
  BY <1>8 DEF RelockCount, StopLockCount, StopLockAdd, Holding
<1>9. CASE UNCHANGED gateVars
  BY <1>9 DEF gateVars
<1>10. QED
  BY <1>1, <1>2, <1>3, <1>4, <1>5, <1>6, <1>7, <1>8, <1>9
  DEF GateNext, MainStart, MainStop, Call, Proceed

\* Main leaves Stop only once the WaitGroup is at zero, and a client that has
\* been woken and has not relocked is in it.
LEMMA TurnStep ==
  ASSUME GateTypeOK, WgInv, NoTurnSkipped, QueueInv, [GateNext]_gateVars
  PROVE  NoTurnSkipped'
<1> USE DEF GateTypeOK, NoTurnSkipped, Owed, Goto, MainGoto
<1>1. CASE StartSend
  <2>1. PICK c \in Clients, stage \in Awaiting :
          /\ sent + 1 \in DOMAIN startCb
          /\ startCb[sent + 1] = <<c, stage>>
          /\ cpc' = [cpc EXCEPT ![c] = Received(stage)]
          /\ UNCHANGED mpc
    BY <1>1, SendStep DEF StartSend
  <2>2. stage = "onBlock"
    BY <2>1 DEF QueueInv
  <2>3. QED
    BY <2>1, <2>2, ReceivedPcs
<1>2. CASE StopSend
  <2>1. mpc' = "stopNotify"
    BY <1>2 DEF StopSend, Send
  <2>2. QED
    BY <2>1
<1>3. CASE StartLock \/ StartNotified \/ StartReturn \/ StopCall \/ StopNotified \/ StopUnlock
  BY <1>3 DEF StartLock, StartNotified, StartReturn, StopCall, StopNotified, StopUnlock
<1>4. CASE StopReturn
  <2>1. Counted = {}
    BY <1>4, CountedFinite DEF StopReturn, WgInv
  <2>2. \A c \in Clients : ~Owed(c)
    BY <2>1 DEF Counted
  <2>3. QED
    BY <1>4, <2>2 DEF StopReturn
<1>5. ASSUME NEW c \in Clients, Call(c) \/ Proceed(c) \/ Relock(c)
      PROVE  NoTurnSkipped'
  BY <1>5
  DEF Call, Proceed, Relock, ClientLock, ClientUnlock, RelockAddFirst, RelockAddSecond,
      RelockUnlock, RelockCount, RelockDone, StopLockCount, StopLockAdd, UnlockStopAdd,
      UnlockStartAdd, UnlockBlock
<1>6. CASE UNCHANGED gateVars
  BY <1>6 DEF gateVars
<1>7. QED
  BY <1>1, <1>2, <1>3, <1>4, <1>5, <1>6 DEF GateNext, MainStart, MainStop

-----------------------------------------------------------------------------
(* The queues.  ClientQueue is the part of QueueInv about one client.      *)

ClientQueue(c) ==
  /\ cpc[c] = "added" => Queued(c, "onStart") # {}
  /\ cpc[c] \in {"ready", "onStart"} =>
       \E i \in Queued(c, "onStart"), j \in Queued(c, "onStop") : i < j
  /\ cpc[c] \in {"gotStart", "onStop"} =>
       mpc = "stopNotify" /\ Queued(c, "onStop") # {}
  /\ cpc[c] = "onStart" => mpc # "stopUnlock"

NotifyQueue ==
  /\ mpc \notin {"startNotify", "stopNotify"} => sent = 0
  /\ \A i \in DOMAIN startCb : startCb[i][2] = "onBlock"

LEMMA QueueParts == QueueInv <=> NotifyQueue /\ \A c \in Clients : ClientQueue(c)
BY DEF QueueInv, NotifyQueue, ClientQueue

\* Adding to the stop waiter outside stop.Notify keeps what was queued queued, and
\* puts the new channel behind it.
LEMMA AppendKeeps ==
  ASSUME stopCb \in Seq(Channel), NEW c \in Clients, NEW stage \in Awaiting,
         stopCb' = Append(stopCb, <<c, stage>>), mpc # "stopNotify", UNCHANGED mpc
  PROVE  /\ \A d \in Clients, a \in Awaiting : Queued(d, a) \subseteq Queued(d, a)'
         /\ Len(stopCb) + 1 \in Queued(c, stage)'
         /\ \A i \in DOMAIN stopCb : i < Len(stopCb) + 1
<1>1. <<c, stage>> \in Channel
  BY DEF Channel
<1>2. /\ Len(stopCb') = Len(stopCb) + 1
      /\ \A i \in 1..Len(stopCb) : stopCb'[i] = stopCb[i]
      /\ stopCb'[Len(stopCb) + 1] = <<c, stage>>
      /\ stopCb' \in Seq(Channel)
  BY <1>1, AppendProperties
<1>3. /\ DOMAIN stopCb = 1..Len(stopCb) /\ DOMAIN stopCb' = 1..(Len(stopCb) + 1)
      /\ Len(stopCb) \in Nat
  BY <1>2
<1>4. StopSent = 0 /\ StopSent' = 0
  BY DEF StopSent
<1>5. ASSUME NEW d \in Clients, NEW a \in Awaiting
      PROVE  Queued(d, a) \subseteq Queued(d, a)'
  BY <1>2, <1>3, <1>4 DEF Queued
<1>6. Len(stopCb) + 1 \in Queued(c, stage)'
  BY <1>2, <1>3, <1>4 DEF Queued
<1>7. QED
  BY <1>3, <1>5, <1>6

\* A send of stop.Notify takes only the channel it serves out of the queue.
LEMMA StopSendKeeps ==
  ASSUME stopCb \in Seq(Channel), sent \in Nat, mpc = "stopNotify",
         sent' = sent + 1, UNCHANGED <<mpc, stopCb>>,
         NEW d \in Clients, NEW a \in Awaiting,
         NEW i \in Queued(d, a), stopCb[sent + 1] # <<d, a>> \/ sent + 1 < i
  PROVE  i \in Queued(d, a)'
<1>1. i \in Nat /\ sent < i /\ i # sent + 1
  BY DEF Queued, StopSent
<1>2. QED
  BY <1>1 DEF Queued, StopSent

LEMMA QueueStep ==
  ASSUME GateTypeOK, HolderInv, QueueInv, [GateNext]_gateVars
  PROVE  QueueInv'
<1> USE DEF GateTypeOK, Goto, MainGoto
<1>0. NotifyQueue /\ \A d \in Clients : ClientQueue(d)
  BY QueueParts
<1>1. CASE StartLock \/ StartReturn \/ StopCall \/ StopUnlock \/ StopReturn \/ UNCHANGED gateVars
  <2>1. NotifyQueue'
    BY <1>0, <1>1
    DEF NotifyQueue, StartLock, StartReturn, StopCall, StopUnlock, StopReturn, gateVars
  <2>2. StopSent' = StopSent /\ UNCHANGED <<stopCb, cpc>>
    BY <1>0, <1>1
    DEF NotifyQueue, StopSent, StartLock, StartReturn, StopCall, StopUnlock, StopReturn, gateVars
  <2>3. mpc' = "stopUnlock" => mpc = "stopUnlock"
    BY <1>1 DEF StartLock, StartReturn, StopCall, StopUnlock, StopReturn, gateVars
  <2>4. mpc = "stopNotify" => mpc' = "stopNotify"
    BY <1>1 DEF StartLock, StartReturn, StopCall, StopUnlock, StopReturn, gateVars
  <2>5. ASSUME NEW d \in Clients PROVE ClientQueue(d)'
    BY <1>0, <2>2, <2>3, <2>4 DEF ClientQueue, Queued
  <2>6. QED
    BY <2>1, <2>5 DEF QueueInv, NotifyQueue, ClientQueue
<1>2. CASE StartSend
  <2>1. PICK c \in Clients, stage \in Awaiting :
          /\ sent + 1 \in DOMAIN startCb
          /\ startCb[sent + 1] = <<c, stage>>
          /\ cpc' = [cpc EXCEPT ![c] = Received(stage)]
          /\ UNCHANGED <<startCb, stopCb, mpc>>
    BY <1>2, SendStep DEF StartSend
  <2>2. stage = "onBlock"
    BY <1>0, <2>1 DEF NotifyQueue
  <2>3. mpc = "startNotify"
    BY <1>2 DEF StartSend
  <2>4. NotifyQueue'
    BY <1>0, <2>1, <2>3 DEF NotifyQueue
  <2>5. StopSent' = StopSent
    BY <2>1, <2>3 DEF StopSent
  <2>6. ASSUME NEW d \in Clients PROVE ClientQueue(d)'
    <3>1. cpc'[d] = cpc[d] \/ cpc'[d] = "outside"
      BY <2>1, <2>2, ReceivedPcs
    <3>2. QED
      BY <1>0, <2>1, <2>5, <3>1 DEF ClientQueue, Queued
  <2>7. QED
    BY <2>4, <2>6 DEF QueueInv, NotifyQueue, ClientQueue
<1>3. CASE StartNotified
  <2>1. NotifyQueue'
    BY <1>3 DEF StartNotified, AllSent, NotifyQueue
  <2>2. StopSent' = StopSent /\ UNCHANGED <<stopCb, cpc>>
    BY <1>3 DEF StartNotified, AllSent, StopSent
  <2>3. ASSUME NEW d \in Clients PROVE ClientQueue(d)'
    BY <1>0, <1>3, <2>2 DEF ClientQueue, Queued, StartNotified
  <2>4. QED
    BY <2>1, <2>3 DEF QueueInv, NotifyQueue, ClientQueue
<1>4. CASE StopSend
  <2>1. mpc = "stopNotify"
    BY <1>4 DEF StopSend
  <2>2. PICK c \in Clients, stage \in Awaiting :
          /\ sent + 1 \in DOMAIN stopCb
          /\ stopCb[sent + 1] = <<c, stage>>
          /\ cpc[c] = stage
          /\ cpc' = [cpc EXCEPT ![c] = Received(stage)]
          /\ sent' = sent + 1
          /\ UNCHANGED <<startCb, stopCb, mpc>>
    BY <1>4, SendStep DEF StopSend
  <2>3. NotifyQueue'
    BY <1>0, <2>1, <2>2 DEF NotifyQueue
  <2>4. ASSUME NEW d \in Clients, d # c PROVE ClientQueue(d)'
    <3>1. cpc'[d] = cpc[d]
      BY <2>2, <2>4
    <3>2. \A a \in Awaiting : Queued(d, a) \subseteq Queued(d, a)'
      BY <2>1, <2>2, <2>4, StopSendKeeps
    <3>3. /\ Queued(d, "onStart") \subseteq Queued(d, "onStart")'
          /\ Queued(d, "onStop") \subseteq Queued(d, "onStop")'
      BY <3>2 DEF Awaiting
    <3>4. QED
      BY <1>0, <2>1, <2>2, <3>1, <3>3 DEF ClientQueue
  <2>5. ClientQueue(c)'
    <3>1. CASE stage = "onStart"
      <4>1. cpc'[c] = "gotStart"
        BY <2>2, <3>1, ReceivedPcs
      <4>2. PICK i \in Queued(c, "onStart"), j \in Queued(c, "onStop") : i < j
        BY <1>0, <2>2, <3>1 DEF ClientQueue
      <4>3. stopCb[sent + 1] # <<c, "onStop">>
        BY <2>2, <3>1
      <4>4. j \in Queued(c, "onStop")'
        BY <2>1, <2>2, <4>3, StopSendKeeps DEF Awaiting
      <4>5. QED
        BY <2>1, <2>2, <4>1, <4>4 DEF ClientQueue
    <3>2. CASE stage # "onStart"
      <4>1. cpc'[c] \in {"relock", "outside"}
        BY <2>2, <3>2, ReceivedPcs DEF Awaiting
      <4>2. QED
        BY <4>1 DEF ClientQueue
    <3>3. QED
      BY <3>1, <3>2
  <2>6. QED
    BY <2>3, <2>4, <2>5 DEF QueueInv, NotifyQueue, ClientQueue
<1>5. CASE StopNotified
  <2>1. NotifyQueue'
    BY <1>0, <1>5 DEF StopNotified, AllSent, NotifyQueue
  <2>2. \A i \in DOMAIN stopCb : ~(sent < i)
    BY <1>5 DEF StopNotified, AllSent
  <2>3. ASSUME NEW d \in Clients PROVE ClientQueue(d)'
    <3>1. cpc[d] \notin {"added", "ready", "onStart", "gotStart", "onStop"}
      BY <1>0, <1>5, <2>2 DEF ClientQueue, Queued, StopSent, StopNotified
    <3>2. QED
      BY <1>5, <3>1 DEF ClientQueue, StopNotified
  <2>4. QED
    BY <2>1, <2>3 DEF QueueInv, NotifyQueue, ClientQueue
<1>6. ASSUME NEW c \in Clients,
             RelockAddFirst(c) \/ RelockAddSecond(c) \/ UnlockStopAdd(c) \/ StopLockAdd(c)
      PROVE  QueueInv'
  <2>1. PICK stage \in Awaiting :
          /\ stopCb' = Append(stopCb, <<c, stage>>)
          /\ UNCHANGED <<startCb, sent, mpc>>
          /\ mpc # "stopNotify"
          /\ \A d \in Clients \ {c} : cpc'[d] = cpc[d]
          /\ \/ stage = "onStart" /\ cpc'[c] = "added"
             \/ stage = "onStop" /\ cpc[c] = "added" /\ cpc'[c] = "ready"
             \/ cpc'[c] \in {"readyStop", "onStopLock"}
    BY <1>6
    DEF RelockAddFirst, RelockAddSecond, UnlockStopAdd, StopLockAdd, AddStop, AddTo, Awaiting
  <2>2. /\ \A d \in Clients, a \in Awaiting : Queued(d, a) \subseteq Queued(d, a)'
        /\ Len(stopCb) + 1 \in Queued(c, stage)'
        /\ \A i \in DOMAIN stopCb : i < Len(stopCb) + 1
    BY <2>1, AppendKeeps
  <2>3. NotifyQueue'
    BY <1>0, <2>1 DEF NotifyQueue
  <2>4. ASSUME NEW d \in Clients \ {c} PROVE ClientQueue(d)'
    <3>1. /\ Queued(d, "onStart") \subseteq Queued(d, "onStart")'
          /\ Queued(d, "onStop") \subseteq Queued(d, "onStop")'
      BY <2>2 DEF Awaiting
    <3>2. cpc'[d] = cpc[d]
      BY <2>1
    <3>3. QED
      BY <1>0, <2>1, <3>1, <3>2 DEF ClientQueue
  <2>5. ClientQueue(c)'
    <3>1. CASE stage = "onStart" /\ cpc'[c] = "added"
      BY <2>2, <3>1 DEF ClientQueue
    <3>2. CASE stage = "onStop" /\ cpc[c] = "added" /\ cpc'[c] = "ready"
      <4>1. PICK i \in Queued(c, "onStart") : TRUE
        BY <1>0, <3>2 DEF ClientQueue
      <4>2. i \in Queued(c, "onStart")' /\ i < Len(stopCb) + 1
        BY <2>2, <4>1 DEF Awaiting, Queued
      <4>3. Len(stopCb) + 1 \in Queued(c, "onStop")'
        BY <2>2, <3>2
      <4>4. QED
        BY <3>2, <4>2, <4>3 DEF ClientQueue
    <3>3. CASE cpc'[c] \in {"readyStop", "onStopLock"}
      BY <3>3 DEF ClientQueue
    <3>4. QED
      BY <2>1, <3>1, <3>2, <3>3
  <2>6. QED
    BY <2>3, <2>4, <2>5 DEF QueueInv, NotifyQueue, ClientQueue
<1>7. ASSUME NEW c \in Clients, UnlockStartAdd(c)
      PROVE  QueueInv'
  <2>1. <<c, "onBlock">> \in Channel
    BY DEF Channel, Awaiting
  <2>2. /\ Len(startCb') = Len(startCb) + 1
        /\ \A i \in 1..Len(startCb) : startCb'[i] = startCb[i]
        /\ startCb'[Len(startCb) + 1] = <<c, "onBlock">>
        /\ startCb' \in Seq(Channel)
    BY <1>7, <2>1, AppendProperties DEF UnlockStartAdd, AddStart, AddTo
  <2>3. NotifyQueue'
    BY <1>0, <1>7, <2>2 DEF NotifyQueue, UnlockStartAdd
  <2>4. StopSent' = StopSent /\ UNCHANGED <<stopCb, mpc>>
    BY <1>7 DEF UnlockStartAdd, AddStart, StopSent
  <2>5. ASSUME NEW d \in Clients PROVE ClientQueue(d)'
    BY <1>0, <1>7, <2>4 DEF ClientQueue, Queued, UnlockStartAdd
  <2>6. QED
    BY <2>3, <2>5 DEF QueueInv, NotifyQueue, ClientQueue
<1>8. ASSUME NEW c \in Clients,
             \/ ClientLock(c) \/ ClientUnlock(c) \/ RelockUnlock(c) \/ RelockCount(c)
             \/ RelockDone(c) \/ StopLockCount(c) \/ UnlockBlock(c) \/ Relock(c)
      PROVE  QueueInv'
  <2>1. UNCHANGED <<startCb, stopCb, sent, mpc>>
    BY <1>8
    DEF ClientLock, ClientUnlock, RelockUnlock, RelockCount, RelockDone, StopLockCount,
        UnlockBlock, Relock
  <2>2. NotifyQueue'
    BY <1>0, <2>1 DEF NotifyQueue
  <2>3. StopSent' = StopSent
    BY <2>1 DEF StopSent
  <2>4. ASSUME NEW d \in Clients PROVE ClientQueue(d)'
    <3>1. \/ cpc'[d] = cpc[d]
          \/ cpc'[d] \in {"inside", "outside", "locked", "counted", "onBlock"}
          \/ cpc[d] = "ready" /\ cpc'[d] = "onStart" /\ holder = d
          \/ cpc[d] = "gotStart" /\ cpc'[d] = "onStop"
      BY <1>8
      DEF ClientLock, ClientUnlock, RelockUnlock, RelockCount, RelockDone, StopLockCount,
          UnlockBlock, Relock, Release
    <3>2. holder = d => mpc # "stopUnlock"
      BY GateAssumption DEF HolderInv, MainHolding
    <3>3. QED
      BY <1>0, <2>1, <2>3, <3>1, <3>2 DEF ClientQueue, Queued
  <2>5. QED
    BY <2>2, <2>4 DEF QueueInv, NotifyQueue, ClientQueue
<1>9. QED
  BY <1>1, <1>2, <1>3, <1>4, <1>5, <1>6, <1>7, <1>8
  DEF GateNext, MainStart, MainStop, Call, Proceed

-----------------------------------------------------------------------------
(* The theorems.                                                           *)

LEMMA GateInvInit == GateInit => GateInv
<1> SUFFICES ASSUME GateInit PROVE GateInv
  OBVIOUS
<1>1. GateTypeOK
  BY DEF GateInit, GateTypeOK, MainPcs, ClientPcs
<1>2. HolderInv
  BY GateAssumption DEF GateInit, HolderInv, MainHolding, Holding
<1>3. Counted = {}
  BY DEF GateInit, Counted
<1>4. WgInv
  BY <1>3, FS_EmptySet DEF GateInit, WgInv
<1>5. NoTurnSkipped /\ QueueInv
  BY DEF GateInit, NoTurnSkipped, Owed, QueueInv
<1>6. QED
  BY <1>1, <1>2, <1>4, <1>5 DEF GateInv

LEMMA GateInvStep == GateInv /\ [GateNext]_gateVars => GateInv'
BY TypeStep, HolderStep, TurnStep, QueueStep DEF GateInv

\* The inductive invariant holds for any finite set of clients, whichever of the
\* gate's calls they make and in whatever order.
THEOREM GateInvariant == GateSpec => []GateInv
BY GateInvInit, GateInvStep, PTL DEF GateSpec

\* Main never starts a run over the head of a client that the last Stop has woken
\* (the wg.Wait of gate.go:51 is enough).
THEOREM TurnsAreNotSkipped == GateSpec => []NoTurnSkipped
<1>1. GateInv => NoTurnSkipped
  BY DEF GateInv
<1>2. QED
  BY <1>1, GateInvariant, PTL

\* A client that counts itself in the WaitGroup does so while Main is in stop.Notify,
\* before Main's wg.Wait (gate.go:73-79).
THEOREM CountsInNotify == GateSpec => CountedInNotify
<1>1. GateInv /\ [GateNext]_gateVars
        => [\A c \in Clients : RelockCount(c) => mpc = "stopNotify"]_gateVars
  BY DEF GateInv, QueueInv, RelockCount, Goto
<1>2. QED
  BY <1>1, GateInvariant, PTL DEF GateSpec, CountedInNotify

\* A step of the gate that moves neither the mutex nor what the clients asked for
\* or are due is a stutter of Turns.
LEMMA StutterStep ==
  ASSUME UNCHANGED holder, Asked' = Asked, Due' = Due
  PROVE  [T!TurnsNext]_(T!turns)
BY DEF T!turns

LEMMA TurnsStep ==
  ASSUME GateInv, [GateNext]_gateVars
  PROVE  [T!TurnsNext]_(T!turns)
<1> USE DEF GateInv, GateTypeOK, Goto, MainGoto, Acquire, Release
<1>1. CASE StartLock
  <2>1. Due = {} /\ Due' = {} /\ Asked' = Asked
    BY <1>1 DEF StartLock, Due, Asked
  <2>2. T!MainTakes
    BY <1>1, <2>1 DEF StartLock, T!MainTakes
  <2>3. QED
    BY <2>2 DEF T!TurnsNext
<1>2. CASE StartSend
  <2>1. PICK c \in Clients, stage \in Awaiting :
          /\ sent + 1 \in DOMAIN startCb
          /\ startCb[sent + 1] = <<c, stage>>
          /\ cpc[c] = stage
          /\ cpc' = [cpc EXCEPT ![c] = Received(stage)]
          /\ UNCHANGED <<holder, mpc>>
    BY <1>2, SendStep DEF StartSend
  <2>2. cpc[c] = "onBlock" /\ cpc' = [cpc EXCEPT ![c] = "outside"]
    <3>1. startCb[sent + 1][2] = stage
      BY <2>1
    <3>2. stage = "onBlock"
      BY <2>1, <3>1 DEF QueueInv
    <3>3. QED
      BY <2>1, <3>2, ReceivedPcs
  <2>3. Asked' = Asked /\ Due' = Due
    BY <2>1, <2>2 DEF Asked, Due
  <2>4. QED
    BY <2>1, <2>3, StutterStep
<1>3. CASE StartNotified \/ StartReturn \/ StopCall \/ StopNotified \/ UNCHANGED gateVars
  <2>1. UNCHANGED <<holder, cpc>> /\ (mpc' = "stopWait" <=> mpc = "stopWait")
    BY <1>3 DEF StartNotified, StartReturn, StopCall, StopNotified, gateVars
  <2>2. Asked' = Asked /\ Due' = Due
    BY <2>1 DEF Asked, Due
  <2>3. QED
    BY <2>1, <2>2, StutterStep
<1>4. CASE StopSend
  <2>1. mpc = "stopNotify" /\ holder = Main
    BY <1>4 DEF StopSend, HolderInv, MainHolding
  <2>2. PICK c \in Clients, stage \in Awaiting :
          /\ cpc[c] = stage
          /\ cpc' = [cpc EXCEPT ![c] = Received(stage)]
          /\ UNCHANGED <<holder, mpc>>
    BY <1>4, SendStep DEF StopSend
  <2>3. Due = {} /\ Due' = {}
    BY <2>1, <2>2 DEF Due
  <2>4. CASE stage = "onStopLock"
    <3>1. cpc' = [cpc EXCEPT ![c] = "relock"]
      BY <2>2, <2>4, ReceivedPcs
    <3>2. Asked' = Asked \cup {c}
      BY <2>1, <2>2, <3>1 DEF Asked
    <3>3. T!ClientAsks(c)
      BY <2>1, <2>2, <2>3, <3>2 DEF T!ClientAsks
    <3>4. QED
      BY <3>3 DEF T!TurnsNext
  <2>5. CASE stage # "onStopLock"
    <3>1. \/ cpc[c] \in {"onStart", "onStop"} /\ cpc'[c] \in {"gotStart", "relock"}
          \/ cpc[c] = "onBlock" /\ cpc'[c] = "outside"
      BY <2>2, <2>5, ReceivedPcs DEF Awaiting
    <3>2. \A d \in Clients \ {c} : cpc'[d] = cpc[d]
      BY <2>2
    <3>3. Asked' = Asked
      BY <2>1, <2>2, <3>1, <3>2 DEF Asked
    <3>4. QED
      BY <2>2, <2>3, <3>3, StutterStep
  <2>6. QED
    BY <2>4, <2>5
<1>5. CASE StopUnlock
  <2>1. \A c \in Clients : cpc[c] \notin {"onStart", "gotStart", "onStop"}
    BY <1>5 DEF StopUnlock, QueueInv
  <2>2. Due' = Asked
    BY <1>5, <2>1 DEF StopUnlock, Due, Asked
  <2>3. Asked' = {}
    BY <1>5, <2>1 DEF StopUnlock, Asked
  <2>4. T!MainGives
    BY <1>5, <2>2, <2>3 DEF StopUnlock, T!MainGives
  <2>5. QED
    BY <2>4 DEF T!TurnsNext
<1>6. CASE StopReturn
  <2>1. Counted = {}
    BY <1>6, CountedFinite DEF StopReturn, WgInv
  <2>2. \A c \in Clients : cpc[c] # "relock"
    BY <2>1 DEF Counted
  <2>3. Asked' = Asked /\ Due' = Due
    BY <1>6, <2>2 DEF StopReturn, Asked, Due
  <2>4. QED
    BY <1>6, <2>3, StutterStep DEF StopReturn
<1>7. ASSUME NEW c \in Clients, ClientLock(c) \/ Relock(c)
      PROVE  [T!TurnsNext]_(T!turns)
  <2>1. holder = NoOne /\ holder' = c /\ UNCHANGED mpc
    BY <1>7 DEF ClientLock, Relock
  <2>2. cpc[c] = "relock" => mpc = "stopWait"
    BY <2>1, GateAssumption DEF NoTurnSkipped, Owed, HolderInv, MainHolding
  <2>3. c \notin Asked
    BY <1>7, <2>2 DEF Asked, ClientLock, Relock
  <2>4. Asked' = Asked /\ Due' = Due \ {c}
    BY <1>7, <2>1, <2>2 DEF Asked, Due, ClientLock, Relock
  <2>5. T!ClientTakes(c)
    BY <2>1, <2>3, <2>4 DEF T!ClientTakes
  <2>6. QED
    BY <2>5 DEF T!TurnsNext
<1>8. ASSUME NEW c \in Clients, ClientUnlock(c) \/ RelockUnlock(c) \/ UnlockBlock(c)
      PROVE  [T!TurnsNext]_(T!turns)
  <2>1. holder = c /\ holder' = NoOne /\ UNCHANGED mpc
    BY <1>8 DEF ClientUnlock, RelockUnlock, UnlockBlock
  <2>2. Asked' \in {Asked, Asked \cup {c}} /\ Due' = Due
    BY <1>8, <2>1 DEF Asked, Due, ClientUnlock, RelockUnlock, UnlockBlock
  <2>3. T!ClientGives(c)
    BY <2>1, <2>2 DEF T!ClientGives
  <2>4. QED
    BY <2>3 DEF T!TurnsNext
<1>9. ASSUME NEW c \in Clients,
             \/ RelockAddFirst(c) \/ RelockAddSecond(c) \/ RelockCount(c) \/ RelockDone(c)
             \/ StopLockCount(c) \/ StopLockAdd(c) \/ UnlockStopAdd(c) \/ UnlockStartAdd(c)
      PROVE  [T!TurnsNext]_(T!turns)
  <2>1. UNCHANGED <<holder, mpc>>
    BY <1>9
    DEF RelockAddFirst, RelockAddSecond, RelockCount, RelockDone, StopLockCount, StopLockAdd,
        UnlockStopAdd, UnlockStartAdd
  <2>2. Asked' = Asked /\ Due' = Due
    BY <1>9, <2>1
    DEF Asked, Due, RelockAddFirst, RelockAddSecond, RelockCount, RelockDone, StopLockCount,
        StopLockAdd, UnlockStopAdd, UnlockStartAdd
  <2>3. QED
    BY <2>1, <2>2, StutterStep
<1>10. QED
  BY <1>1, <1>2, <1>3, <1>4, <1>5, <1>6, <1>7, <1>8, <1>9
  DEF GateNext, MainStart, MainStop, Call, Proceed

\* The gate implements taking turns, for any finite set of clients: what Start,
\* Stop and the clients' calls do with mutex, WaitGroup and channels
\* (gate.go:42-82) is a behaviour of Turns.
THEOREM GateImplementsTurns == GateSpec => TakesTurns
<1>1. GateInit => T!TurnsInit
  BY DEF GateInit, T!TurnsInit, Asked, Due
<1>2. GateInv /\ [GateNext]_gateVars => [T!TurnsNext]_(T!turns)
  BY TurnsStep
<1>3. QED
  BY <1>1, <1>2, GateInvariant, PTL DEF GateSpec, TakesTurns, T!TurnsSpec

-----------------------------------------------------------------------------
(* No wakeup is lost: each channel a client has made stands in one place of *)
(* one waiter until it is served, and nowhere when it is not waited for.   *)

Slots(cb, busy, ch) == {i \in DOMAIN cb : cb[i] = ch /\ (mpc = busy => i > sent)}
InStart(ch) == Slots(startCb, "startNotify", ch)
InStop(ch) == Slots(stopCb, "stopNotify", ch)

\* Where a client is between making a channel and being served on it.
Wanting(stage) ==
  CASE stage = "onStart" -> {"added", "ready", "onStart"}
    [] stage = "onStop" -> {"ready", "onStart", "gotStart", "onStop"}
    [] stage = "onStopLock" -> {"onStopLock"}
    [] stage = "onBlock" -> {"readyStop", "readyStart", "onBlock"}

Single(S) == \E i \in S : S = {i}
Standing(A, B) == (A = {} /\ Single(B)) \/ (Single(A) /\ B = {})
ChannelInv ==
  \A c \in Clients, stage \in Awaiting :
    IF cpc[c] \in Wanting(stage) THEN Standing(InStart(<<c, stage>>), InStop(<<c, stage>>))
    ELSE InStart(<<c, stage>>) = {} /\ InStop(<<c, stage>>) = {}

\* A client that moves, without making a channel or being served, between points where it
\* waits for the same channels.
LEMMA MoveKeepsChannels ==
  ASSUME ChannelInv, cpc \in [Clients -> ClientPcs], NEW c \in Clients, NEW p,
         cpc' = [cpc EXCEPT ![c] = p],
         \A stage \in Awaiting : cpc[c] \in Wanting(stage) <=> p \in Wanting(stage),
         UNCHANGED <<startCb, stopCb, sent, mpc>>
  PROVE  ChannelInv'
<1>1. \A ch : InStart(ch)' = InStart(ch) /\ InStop(ch)' = InStop(ch)
  BY DEF InStart, InStop, Slots
<1>2. ASSUME NEW d \in Clients, NEW stage \in Awaiting
      PROVE  (cpc[d] \in Wanting(stage))' <=> cpc[d] \in Wanting(stage)
  BY DEF Wanting
<1> QED
  BY <1>1, <1>2 DEF ChannelInv

\* Main's steps that serve nobody: an empty waiter, or a change of place with nothing sent.
LEMMA MainKeepsChannels ==
  ASSUME ChannelInv, \A ch : InStart(ch)' = InStart(ch) /\ InStop(ch)' = InStop(ch), UNCHANGED cpc
  PROVE  ChannelInv'
BY DEF ChannelInv, Wanting

\* Adding to a waiter that is not being served makes one place, for the channel added.
LEMMA AddedStart ==
  ASSUME GateTypeOK, NEW c \in Clients, NEW stage \in Awaiting, AddStart(c, stage), UNCHANGED <<sent, mpc>>,
         NEW ch
  PROVE  /\ (ch = <<c, stage>> => InStart(ch)' = InStart(ch) \cup {Len(startCb) + 1})
         /\ (ch # <<c, stage>> => InStart(ch)' = InStart(ch))
         /\ InStop(ch)' = InStop(ch)
<1>1. startCb \in Seq(Channel) /\ <<c, stage>> \in Channel /\ startCb' = Append(startCb, <<c, stage>>)
  BY DEF GateTypeOK, Channel, AddStart, AddTo
<1>2. /\ Len(startCb') = Len(startCb) + 1 /\ startCb' \in Seq(Channel)
      /\ \A i \in 1..Len(startCb) : startCb'[i] = startCb[i]
      /\ startCb'[Len(startCb) + 1] = <<c, stage>>
  BY <1>1, AppendProperties
<1>3. DOMAIN startCb = 1..Len(startCb) /\ DOMAIN startCb' = 1..(Len(startCb) + 1) /\ Len(startCb) \in Nat
  BY <1>1, <1>2
<1>4. mpc # "startNotify" /\ mpc' = mpc /\ sent' = sent /\ stopCb' = stopCb
  BY DEF AddStart, AddTo
<1>5. InStart(ch) = {i \in 1..Len(startCb) : startCb[i] = ch}
  BY <1>3, <1>4 DEF InStart, Slots
<1>6. InStart(ch)' = {i \in 1..(Len(startCb) + 1) : startCb'[i] = ch}
  BY <1>3, <1>4 DEF InStart, Slots
<1>7. \A i : i \in 1..(Len(startCb) + 1) <=> i \in 1..Len(startCb) \/ i = Len(startCb) + 1
  BY <1>3
<1>8. ASSUME ch = <<c, stage>> PROVE InStart(ch)' = InStart(ch) \cup {Len(startCb) + 1}
  BY <1>2, <1>5, <1>6, <1>7, <1>8
<1>9. ASSUME ch # <<c, stage>> PROVE InStart(ch)' = InStart(ch)
  <2>1. startCb'[Len(startCb) + 1] # ch
    BY <1>2, <1>9, Zenon
  <2>2. \A i : i \in InStart(ch)' <=> i \in InStart(ch)
    BY <1>2, <1>5, <1>6, <1>7, <2>1
  <2> QED
    BY <2>2, <1>5, <1>6
<1>10. InStop(ch)' = InStop(ch)
  BY <1>4 DEF InStop, Slots
<1> QED
  BY <1>8, <1>9, <1>10

LEMMA AddedStop ==
  ASSUME GateTypeOK, NEW c \in Clients, NEW stage \in Awaiting, AddStop(c, stage), UNCHANGED <<sent, mpc>>,
         NEW ch
  PROVE  /\ (ch = <<c, stage>> => InStop(ch)' = InStop(ch) \cup {Len(stopCb) + 1})
         /\ (ch # <<c, stage>> => InStop(ch)' = InStop(ch))
         /\ InStart(ch)' = InStart(ch)
<1>1. stopCb \in Seq(Channel) /\ <<c, stage>> \in Channel /\ stopCb' = Append(stopCb, <<c, stage>>)
  BY DEF GateTypeOK, Channel, AddStop, AddTo
<1>2. /\ Len(stopCb') = Len(stopCb) + 1 /\ stopCb' \in Seq(Channel)
      /\ \A i \in 1..Len(stopCb) : stopCb'[i] = stopCb[i]
      /\ stopCb'[Len(stopCb) + 1] = <<c, stage>>
  BY <1>1, AppendProperties
<1>3. DOMAIN stopCb = 1..Len(stopCb) /\ DOMAIN stopCb' = 1..(Len(stopCb) + 1) /\ Len(stopCb) \in Nat
  BY <1>1, <1>2
<1>4. mpc # "stopNotify" /\ mpc' = mpc /\ sent' = sent /\ startCb' = startCb
  BY DEF AddStop, AddTo
<1>5. InStop(ch) = {i \in 1..Len(stopCb) : stopCb[i] = ch}
  BY <1>3, <1>4 DEF InStop, Slots
<1>6. InStop(ch)' = {i \in 1..(Len(stopCb) + 1) : stopCb'[i] = ch}
  BY <1>3, <1>4 DEF InStop, Slots
<1>7. \A i : i \in 1..(Len(stopCb) + 1) <=> i \in 1..Len(stopCb) \/ i = Len(stopCb) + 1
  BY <1>3
<1>8. ASSUME ch = <<c, stage>> PROVE InStop(ch)' = InStop(ch) \cup {Len(stopCb) + 1}
  BY <1>2, <1>5, <1>6, <1>7, <1>8
<1>9. ASSUME ch # <<c, stage>> PROVE InStop(ch)' = InStop(ch)
  <2>1. stopCb'[Len(stopCb) + 1] # ch
    BY <1>2, <1>9, Zenon
  <2>2. \A i : i \in InStop(ch)' <=> i \in InStop(ch)
    BY <1>2, <1>5, <1>6, <1>7, <2>1
  <2> QED
    BY <2>2, <1>5, <1>6
<1>10. InStart(ch)' = InStart(ch)
  BY <1>4 DEF InStart, Slots
<1> QED
  BY <1>8, <1>9, <1>10

LEMMA AddKeepsChannels ==
  ASSUME ChannelInv, GateTypeOK, NEW c \in Clients, NEW stage \in Awaiting, NEW p,
         cpc' = [cpc EXCEPT ![c] = p], UNCHANGED <<sent, mpc>>,
         AddStart(c, stage) \/ AddStop(c, stage),
         cpc[c] \notin Wanting(stage) /\ p \in Wanting(stage),
         \A a \in Awaiting : a # stage => (cpc[c] \in Wanting(a) <=> p \in Wanting(a))
  PROVE  ChannelInv'
<1>2. ASSUME NEW d \in Clients, NEW a \in Awaiting, <<d, a>> # <<c, stage>>
      PROVE  InStart(<<d, a>>)' = InStart(<<d, a>>) /\ InStop(<<d, a>>)' = InStop(<<d, a>>)
  <2>1. <<d, a>> # <<c, stage>> /\ UNCHANGED <<sent, mpc>>
    BY <1>2
  <2>2. CASE AddStart(c, stage)
    BY <2>1, <2>2, AddedStart, Zenon
  <2>3. CASE AddStop(c, stage)
    BY <2>1, <2>3, AddedStop, Zenon
  <2> QED
    BY <2>2, <2>3
<1>3. InStart(<<c, stage>>) = {} /\ InStop(<<c, stage>>) = {}
  BY DEF ChannelInv
<1>4. Standing(InStart(<<c, stage>>), InStop(<<c, stage>>))'
  <2>1. CASE AddStart(c, stage)
    <3>1. InStart(<<c, stage>>)' = {Len(startCb) + 1} /\ InStop(<<c, stage>>)' = {}
      BY <1>3, <2>1, AddedStart
    <3> QED
      BY <3>1 DEF Standing, Single
  <2>2. CASE AddStop(c, stage)
    <3>1. InStop(<<c, stage>>)' = {Len(stopCb) + 1} /\ InStart(<<c, stage>>)' = {}
      BY <1>3, <2>2, AddedStop
    <3> QED
      BY <3>1 DEF Standing, Single
  <2> QED
    BY <2>1, <2>2
<1>5. ASSUME NEW d \in Clients, NEW a \in Awaiting
      PROVE  IF cpc'[d] \in Wanting(a) THEN Standing(InStart(<<d, a>>), InStop(<<d, a>>))'
             ELSE InStart(<<d, a>>)' = {} /\ InStop(<<d, a>>)' = {}
  <2>1. CASE d = c /\ a = stage
    BY <2>1, <1>4 DEF GateTypeOK
  <2>2. CASE ~ (d = c /\ a = stage)
    <3>1. cpc'[d] \in Wanting(a) <=> cpc[d] \in Wanting(a)
      BY <2>2 DEF GateTypeOK
    <3>2. InStart(<<d, a>>)' = InStart(<<d, a>>) /\ InStop(<<d, a>>)' = InStop(<<d, a>>)
      BY <2>2, <1>2
    <3>3. Standing(InStart(<<d, a>>), InStop(<<d, a>>))' <=> Standing(InStart(<<d, a>>), InStop(<<d, a>>))
      BY <3>2 DEF Standing, Single
    <3> QED
      BY <3>1, <3>2, <3>3 DEF ChannelInv
  <2> QED
    BY <2>1, <2>2
<1> QED
  BY <1>5 DEF ChannelInv, Wanting

\* A send takes the channel it serves out of the one place where it stood.
LEMMA SendKeepsChannels ==
  ASSUME ChannelInv, GateTypeOK, StartSend \/ StopSend
  PROVE  ChannelInv'
<1> DEFINE cb == IF mpc = "startNotify" THEN startCb ELSE stopCb
<1>1. cb \in Seq(Channel) /\ sent \in Nat /\ Send(cb) /\ mpc \in {"startNotify", "stopNotify"}
  BY DEF StartSend, StopSend, GateTypeOK
<1>2. PICK c \in Clients, stage \in Awaiting :
        /\ sent + 1 \in DOMAIN cb /\ cb[sent + 1] = <<c, stage>> /\ cpc[c] = stage
        /\ cpc' = [cpc EXCEPT ![c] = Received(stage)]
        /\ sent' = sent + 1
        /\ UNCHANGED <<holder, wg, startCb, stopCb, mpc>>
  BY <1>1, SendStep
<1>3. cpc[c] \in Wanting(stage) /\ Received(stage) \notin Wanting(stage)
  BY <1>2, ReceivedPcs DEF Wanting, Awaiting
<1>4. \A a \in Awaiting : a # stage => (cpc[c] \in Wanting(a) <=> Received(stage) \in Wanting(a))
  BY <1>2, ReceivedPcs DEF Wanting, Awaiting
<1>5. Standing(InStart(<<c, stage>>), InStop(<<c, stage>>))
  BY <1>3 DEF ChannelInv
<1>6. InStart(<<c, stage>>)' = {} /\ InStop(<<c, stage>>)' = {}
  <2>1. CASE mpc = "startNotify"
    <3>1. sent + 1 \in InStart(<<c, stage>>)
      BY <1>1, <1>2, <2>1 DEF InStart, Slots
    <3>2. InStart(<<c, stage>>) = {sent + 1} /\ InStop(<<c, stage>>) = {}
      BY <1>5, <3>1 DEF Standing, Single
    <3>3. InStop(<<c, stage>>)' = {}
      BY <1>2, <2>1, <3>2 DEF InStop, Slots
    <3>4. InStart(<<c, stage>>)' \subseteq InStart(<<c, stage>>) \ {sent + 1}
      BY <1>1, <1>2, <2>1 DEF InStart, Slots, GateTypeOK
    <3> QED
      BY <3>2, <3>3, <3>4
  <2>2. CASE mpc = "stopNotify"
    <3>1. sent + 1 \in InStop(<<c, stage>>)
      BY <1>1, <1>2, <2>2 DEF InStop, Slots
    <3>2. InStop(<<c, stage>>) = {sent + 1} /\ InStart(<<c, stage>>) = {}
      BY <1>5, <3>1 DEF Standing, Single
    <3>3. InStart(<<c, stage>>)' = {}
      BY <1>2, <2>2, <3>2 DEF InStart, Slots
    <3>4. InStop(<<c, stage>>)' \subseteq InStop(<<c, stage>>) \ {sent + 1}
      BY <1>1, <1>2, <2>2 DEF InStop, Slots, GateTypeOK
    <3> QED
      BY <3>2, <3>3, <3>4
  <2> QED
    BY <1>1, <2>1, <2>2
<1>7. ASSUME NEW d \in Clients, NEW a \in Awaiting, ~ (d = c /\ a = stage)
      PROVE  InStart(<<d, a>>)' = InStart(<<d, a>>) /\ InStop(<<d, a>>)' = InStop(<<d, a>>)
  <2>1. cb[sent + 1] # <<d, a>>
    BY <1>2, <1>7
  <2>2. CASE mpc = "startNotify"
    BY <1>1, <1>2, <2>1, <2>2 DEF InStart, InStop, Slots, GateTypeOK
  <2>3. CASE mpc = "stopNotify"
    BY <1>1, <1>2, <2>1, <2>3 DEF InStart, InStop, Slots, GateTypeOK
  <2> QED
    BY <1>1, <2>2, <2>3
<1>8. ASSUME NEW d \in Clients, NEW a \in Awaiting
      PROVE  IF cpc'[d] \in Wanting(a) THEN Standing(InStart(<<d, a>>), InStop(<<d, a>>))'
             ELSE InStart(<<d, a>>)' = {} /\ InStop(<<d, a>>)' = {}
  <2>1. CASE d = c /\ a = stage
    BY <2>1, <1>2, <1>3, <1>6 DEF GateTypeOK
  <2>2. CASE ~ (d = c /\ a = stage)
    <3>1. cpc'[d] \in Wanting(a) <=> cpc[d] \in Wanting(a)
      BY <2>2, <1>2, <1>4 DEF GateTypeOK
    <3>2. InStart(<<d, a>>)' = InStart(<<d, a>>) /\ InStop(<<d, a>>)' = InStop(<<d, a>>)
      BY <2>2, <1>7
    <3>3. Standing(InStart(<<d, a>>), InStop(<<d, a>>))' <=> Standing(InStart(<<d, a>>), InStop(<<d, a>>))
      BY <3>2 DEF Standing, Single
    <3> QED
      BY <3>1, <3>2, <3>3 DEF ChannelInv
  <2> QED
    BY <2>1, <2>2
<1> QED
  BY <1>8 DEF ChannelInv, Wanting

LEMMA ClientKeepsChannels ==
  ASSUME ChannelInv, GateTypeOK, NEW c \in Clients, Call(c) \/ Proceed(c) \/ Relock(c)
  PROVE  ChannelInv'
<1> USE DEF Goto, Wanting, Awaiting
<1>t. cpc \in [Clients -> ClientPcs]
  BY DEF GateTypeOK
<1>1. CASE ClientLock(c)
  <2>1. /\ cpc[c] = "outside" /\ cpc' = [cpc EXCEPT ![c] = "inside"]
        /\ UNCHANGED <<startCb, stopCb, sent, mpc>>
    BY <1>1 DEF ClientLock
  <2> QED
    BY <1>t, <2>1, MoveKeepsChannels
<1>2. CASE ClientUnlock(c)
  <2>1. /\ cpc[c] = "inside" /\ cpc' = [cpc EXCEPT ![c] = "outside"]
        /\ UNCHANGED <<startCb, stopCb, sent, mpc>>
    BY <1>2 DEF ClientUnlock
  <2> QED
    BY <1>t, <2>1, MoveKeepsChannels
<1>3. CASE RelockAddFirst(c)
  <2>1. /\ cpc[c] = "inside" /\ cpc' = [cpc EXCEPT ![c] = "added"] /\ AddStop(c, "onStart")
        /\ UNCHANGED <<sent, mpc>>
    BY <1>3 DEF RelockAddFirst, AddStop, AddTo
  <2> QED
    BY <2>1, AddKeepsChannels
<1>4. CASE StopLockCount(c)
  <2>1. /\ cpc[c] = "outside" /\ cpc' = [cpc EXCEPT ![c] = "counted"]
        /\ UNCHANGED <<startCb, stopCb, sent, mpc>>
    BY <1>4 DEF StopLockCount
  <2> QED
    BY <1>t, <2>1, MoveKeepsChannels
<1>5. CASE UnlockStopAdd(c)
  <2>1. /\ cpc[c] = "inside" /\ cpc' = [cpc EXCEPT ![c] = "readyStop"] /\ AddStop(c, "onBlock")
        /\ UNCHANGED <<sent, mpc>>
    BY <1>5 DEF UnlockStopAdd
  <2> QED
    BY <2>1, AddKeepsChannels
<1>6. CASE UnlockStartAdd(c)
  <2>1. /\ cpc[c] = "inside" /\ cpc' = [cpc EXCEPT ![c] = "readyStart"] /\ AddStart(c, "onBlock")
        /\ UNCHANGED <<sent, mpc>>
    BY <1>6 DEF UnlockStartAdd
  <2> QED
    BY <2>1, AddKeepsChannels
<1>7. CASE RelockAddSecond(c)
  <2>1. /\ cpc[c] = "added" /\ cpc' = [cpc EXCEPT ![c] = "ready"] /\ AddStop(c, "onStop")
        /\ UNCHANGED <<sent, mpc>>
    BY <1>7 DEF RelockAddSecond, AddStop
  <2> QED
    BY <2>1, AddKeepsChannels
<1>8. CASE RelockUnlock(c)
  <2>1. /\ cpc[c] = "ready" /\ cpc' = [cpc EXCEPT ![c] = "onStart"]
        /\ UNCHANGED <<startCb, stopCb, sent, mpc>>
    BY <1>8 DEF RelockUnlock
  <2> QED
    BY <1>t, <2>1, MoveKeepsChannels
<1>9. CASE RelockCount(c)
  <2>1. /\ cpc[c] = "gotStart" /\ cpc' = [cpc EXCEPT ![c] = "onStop"]
        /\ UNCHANGED <<startCb, stopCb, sent, mpc>>
    BY <1>9 DEF RelockCount
  <2> QED
    BY <1>t, <2>1, MoveKeepsChannels
<1>10. CASE RelockDone(c)
  <2>1. /\ cpc[c] = "locked" /\ cpc' = [cpc EXCEPT ![c] = "inside"]
        /\ UNCHANGED <<startCb, stopCb, sent, mpc>>
    BY <1>10 DEF RelockDone
  <2> QED
    BY <1>t, <2>1, MoveKeepsChannels
<1>11. CASE StopLockAdd(c)
  <2>1. /\ cpc[c] = "counted" /\ cpc' = [cpc EXCEPT ![c] = "onStopLock"] /\ AddStop(c, "onStopLock")
        /\ UNCHANGED <<sent, mpc>>
    BY <1>11 DEF StopLockAdd
  <2> QED
    BY <2>1, AddKeepsChannels
<1>12. CASE UnlockBlock(c)
  <2>1. /\ cpc[c] \in {"readyStop", "readyStart"} /\ cpc' = [cpc EXCEPT ![c] = "onBlock"]
        /\ UNCHANGED <<startCb, stopCb, sent, mpc>>
    BY <1>12 DEF UnlockBlock
  <2> QED
    BY <1>t, <2>1, MoveKeepsChannels
<1>13. CASE Relock(c)
  <2>1. /\ cpc[c] = "relock" /\ cpc' = [cpc EXCEPT ![c] = "locked"]
        /\ UNCHANGED <<startCb, stopCb, sent, mpc>>
    BY <1>13 DEF Relock
  <2> QED
    BY <1>t, <2>1, MoveKeepsChannels
<1> QED
  BY <1>1, <1>2, <1>3, <1>4, <1>5, <1>6, <1>7, <1>8, <1>9, <1>10, <1>11, <1>12, <1>13
  DEF Call, Proceed

LEMMA ChannelStep == GateInv /\ ChannelInv /\ [GateNext]_gateVars => ChannelInv'
<1> SUFFICES ASSUME GateInv, ChannelInv, [GateNext]_gateVars PROVE ChannelInv'
  OBVIOUS
<1>t. GateTypeOK /\ (mpc \notin {"startNotify", "stopNotify"} => sent = 0)
  BY DEF GateInv, QueueInv
<1>1. CASE StartLock \/ StartReturn \/ StopCall \/ StopUnlock \/ StopReturn
  <2>1. \A ch : InStart(ch)' = InStart(ch) /\ InStop(ch)' = InStop(ch)
    BY <1>t, <1>1 DEF InStart, InStop, Slots, GateTypeOK, StartLock, StartReturn,
       StopCall, StopUnlock, StopReturn, MainGoto
  <2> QED
    BY <1>1, <2>1, MainKeepsChannels DEF StartLock, StartReturn, StopCall, StopUnlock, StopReturn
<1>2. CASE StartNotified
  <2>1. \A ch : InStart(ch) = {} /\ InStart(ch)' = {} /\ InStop(ch)' = InStop(ch)
    BY <1>t, <1>2 DEF InStart, InStop, Slots, GateTypeOK, StartNotified, MainGoto, AllSent
  <2> QED
    BY <1>2, <2>1, MainKeepsChannels DEF StartNotified
<1>3. CASE StopNotified
  <2>1. \A ch : InStop(ch) = {} /\ InStop(ch)' = {} /\ InStart(ch)' = InStart(ch)
    BY <1>t, <1>3 DEF InStart, InStop, Slots, GateTypeOK, StopNotified, MainGoto, AllSent
  <2> QED
    BY <1>3, <2>1, MainKeepsChannels DEF StopNotified
<1>4. CASE StartSend \/ StopSend
  BY <1>t, <1>4, SendKeepsChannels
<1>5. ASSUME NEW c \in Clients, Call(c) \/ Proceed(c) \/ Relock(c) PROVE ChannelInv'
  BY <1>t, <1>5, ClientKeepsChannels
<1>6. CASE UNCHANGED gateVars
  BY <1>6, MainKeepsChannels DEF gateVars, InStart, InStop, Slots
<1> QED
  BY <1>1, <1>2, <1>3, <1>4, <1>5, <1>6 DEF GateNext, MainStart, MainStop

\* The types of the gate's state hold (gate.go:9-23).
THEOREM GateTypeCorrect == GateSpec => []GateTypeOK
<1>1. GateInv => GateTypeOK
  BY DEF GateInv
<1>2. QED
  BY <1>1, GateInvariant, PTL

\* Every blocked client's channel waits, once, for a coming Notify, and the second channel
\* of UnlockStopRelock behind the first (gate.go:26-33, 73-79).
THEOREM WakeupsAreNotLost == GateSpec => []NoLostWakeup
<1>1. GateInit => ChannelInv
  <2> SUFFICES ASSUME GateInit PROVE ChannelInv
    OBVIOUS
  <2>1. \A ch : InStart(ch) = {} /\ InStop(ch) = {}
    BY DEF GateInit, InStart, InStop, Slots
  <2>2. \A c \in Clients, stage \in Awaiting : cpc[c] \notin Wanting(stage)
    BY DEF GateInit, Wanting, Awaiting
  <2> QED
    BY <2>1, <2>2 DEF ChannelInv
<1>2. GateInv /\ ChannelInv => NoLostWakeup
  <2> SUFFICES ASSUME GateInv, ChannelInv, NEW c \in Clients
               PROVE  /\ cpc[c] \in Awaiting =>
                           Pending(startCb, "startNotify", <<c, cpc[c]>>)
                             + Pending(stopCb, "stopNotify", <<c, cpc[c]>>) = 1
                      /\ cpc[c] = "onStart" => Pending(stopCb, "stopNotify", <<c, "onStop">>) = 1
    BY DEF NoLostWakeup
  <2>1. \A ch : /\ Pending(startCb, "startNotify", ch) = Cardinality(InStart(ch))
                /\ Pending(stopCb, "stopNotify", ch) = Cardinality(InStop(ch))
    BY DEF Pending, InStart, InStop, Slots
  <2>2. \A S : (S = {} => Cardinality(S) = 0) /\ (Single(S) => Cardinality(S) = 1)
    BY FS_EmptySet, FS_Singleton DEF Single
  <2>3. ASSUME cpc[c] \in Awaiting
        PROVE  Cardinality(InStart(<<c, cpc[c]>>)) + Cardinality(InStop(<<c, cpc[c]>>)) = 1
    <3>1. cpc[c] \in Wanting(cpc[c])
      BY <2>3 DEF Wanting, Awaiting
    <3>2. Standing(InStart(<<c, cpc[c]>>), InStop(<<c, cpc[c]>>))
      BY <2>3, <3>1 DEF ChannelInv
    <3> QED
      BY <3>2, <2>2 DEF Standing
  <2>4. ASSUME cpc[c] = "onStart" PROVE Cardinality(InStop(<<c, "onStop">>)) = 1
    <3>1. cpc[c] \in Wanting("onStop") /\ "onStop" \in Awaiting
      BY <2>4 DEF Wanting, Awaiting
    <3>2. Standing(InStart(<<c, "onStop">>), InStop(<<c, "onStop">>))
      BY <3>1 DEF ChannelInv
    <3>3. InStart(<<c, "onStop">>) = {}
      BY DEF GateInv, QueueInv, InStart, Slots
    <3> QED
      BY <3>2, <3>3, <2>2 DEF Standing, Single
  <2> QED
    BY <2>1, <2>3, <2>4
<1>3. QED
  BY <1>1, <1>2, ChannelStep, GateInvariant, PTL DEF GateSpec

-----------------------------------------------------------------------------
(* The gate's part of every step is a step of the gate.                    *)

LEMMA GateStep == [Next]_vars => [GateNext]_gateVars
<1> SUFFICES ASSUME [Next]_vars PROVE [GateNext]_gateVars
  OBVIOUS
<1> USE DEF gateVars
<1>1. CASE RunMain
  BY <1>1 DEF RunMain, Setup, ResetExit, WriteEntry, LoopTest, BreakOut, KeepOn, ReadPc,
     StartGuest, TakeTrampolines, RunNoop, RunUnmap, StartCode, CodeEnds, CodeIsStepped,
     RestorePc
<1>2. CASE Guest
  BY <1>2 DEF Guest, GuestStops, GuestEnds, GuestBreaks, GuestRunsShellcode, GuestExits,
     GuestTrampolines
<1>3. CASE InGateStart \/ InGateStop
  BY <1>3 DEF InGateStart, InGateStop, GateNext
<1>4. ASSUME NEW c \in Clients,
             \/ Attach(c) \/ Continue(c) \/ Step(c) \/ Leave(c) \/ InGateCall(c) \/ Reenter(c)
      PROVE  GateNext
  <2>1. Call(c) \/ Proceed(c) \/ Relock(c)
    BY <1>4 DEF Attach, Continue, Step, Leave, InGateCall, Reenter, Call, Proceed
  <2>2. QED
    BY <2>1 DEF GateNext
<1>5. ASSUME NEW c \in Clients, ChoosePc(c) \/ StopCode(c) \/ Exit(c) \/ Disarm(c)
      PROVE  UNCHANGED gateVars
  BY <1>5 DEF ChoosePc, StopCode, Exit, Disarm
<1>6. CASE Finished \/ UNCHANGED vars
  BY <1>6 DEF Finished, vars
<1>7. QED
  BY <1>1, <1>2, <1>3, <1>4, <1>5, <1>6 DEF Next, Command

\* Run and the front ends use the gate only as module Gate says, so everything that
\* is proved of the gate holds of them.
THEOREM RunLoopUsesGate == Spec => GateSpec
<1>1. Init => GateInit
  BY DEF Init
<1>2. QED
  BY <1>1, GateStep, PTL DEF Spec, GateSpec

LEMMA GateInvAlways == Spec => []GateInv
BY RunLoopUsesGate, GateInvariant, PTL

-----------------------------------------------------------------------------
(* The invariant.                                                          *)

\* What the sequence operations on trampolines yield.
LEMMA TrampSequences ==
  ASSUME NEW s \in Seq(Tramps), NEW ts \in Seq(Tramps)
  PROVE  /\ s \o ts \in Seq(Tramps)
         /\ s # <<>> => Tail(s) \in Seq(Tramps)
         /\ ts # <<>> => s \o ts # <<>> /\ (s \o ts)[Len(s \o ts)] = ts[Len(ts)]
         /\ s # <<>> /\ Tail(s) # <<>> => Tail(s)[Len(Tail(s))] = s[Len(s)]
         /\ s # <<>> /\ Tail(s) = <<>> => s[Len(s)] = Head(s)
<1>1. s \o ts \in Seq(Tramps) /\ Len(s \o ts) = Len(s) + Len(ts)
  BY ConcatProperties
<1>2. ts # <<>> => Len(ts) \in Nat /\ Len(ts) > 0 /\ Len(s) \in Nat
  BY EmptySeq, LenProperties
<1>3. ts # <<>> => s \o ts # <<>> /\ (s \o ts)[Len(s \o ts)] = ts[Len(ts)]
  BY <1>1, <1>2, ConcatProperties, EmptySeq
<1>4. s # <<>> => /\ Tail(s) \in Seq(Tramps)
                 /\ Len(Tail(s)) = Len(s) - 1
                 /\ \A i \in 1..Len(Tail(s)) : Tail(s)[i] = s[i + 1]
  BY HeadTailProperties
<1>5. s # <<>> => Len(s) \in Nat /\ Len(s) > 0
  BY EmptySeq, LenProperties
<1>6. s # <<>> /\ Tail(s) # <<>> => Len(Tail(s)) \in 1..Len(Tail(s))
  BY <1>4, EmptySeq, LenProperties
<1>7. s # <<>> /\ Tail(s) = <<>> => Len(s) = 1
  <2>1. Tail(s) = <<>> => Len(Tail(s)) = 0
    BY EmptySeq, Zenon
  <2>2. QED
    BY <2>1, <1>4, <1>5
<1>8. Head(s) = s[1]
  OBVIOUS
<1>9. QED
  BY <1>1, <1>3, <1>4, <1>5, <1>6, <1>7, <1>8

LEMMA LoopTypeStep == LoopTypeOK /\ [Next]_vars => LoopTypeOK'
<1> SUFFICES ASSUME LoopTypeOK, [Next]_vars PROVE LoopTypeOK'
  OBVIOUS
<1> USE DEF LoopTypeOK, RunGoto, Rpcs, Pcs, Tramps
<1>0. todo # <<>> => Tail(todo) \in Seq(Tramps)
  BY TrampSequences
<1>1. CASE Setup
  <2>1. err' \in BOOLEAN
    BY <1>1 DEF Setup
  <2>2. QED
    BY <1>1, <2>1 DEF Setup
<1>2. CASE ResetExit \/ WriteEntry
  BY <1>2 DEF ResetExit, WriteEntry
<1>3. CASE LoopTest
  <2>1. rpc' \in {"done", "starting"}
    BY <1>3 DEF LoopTest
  <2>2. QED
    BY <1>3, <2>1 DEF LoopTest
<1>4. CASE BreakOut \/ KeepOn \/ ReadPc
  BY <1>4 DEF BreakOut, KeepOn, ReadPc
<1>5. CASE StartGuest \/ StartCode
  BY <1>5 DEF StartGuest, StartCode
<1>6. CASE TakeTrampolines \/ RestorePc
  BY <1>6, EmptySeq DEF TakeTrampolines, RestorePc
<1>7. CASE RunNoop
  BY <1>7, <1>0 DEF RunNoop
<1>8. CASE RunUnmap
  BY <1>8, <1>0 DEF RunUnmap
<1>9. CASE CodeEnds
  <2>1. todo' \in Seq(Tramps)
    BY <1>9, <1>0, EmptySeq DEF CodeEnds
  <2>2. err' \in BOOLEAN
    BY <1>9 DEF CodeEnds
  <2>3. QED
    BY <1>9, <2>1, <2>2 DEF CodeEnds
<1>10. ASSUME NEW c \in Clients, CodeIsStepped(c) PROVE LoopTypeOK'
  <2>1. trampolines' \in Seq(Tramps)
    BY <1>10, AppendProperties DEF CodeIsStepped
  <2>2. QED
    BY <1>10, <1>0, <2>1 DEF CodeIsStepped
<1>11. CASE GuestStops \/ GuestEnds \/ GuestExits
  BY <1>11 DEF GuestStops, GuestEnds, GuestExits
<1>12. CASE GuestBreaks \/ GuestRunsShellcode
  <2>1. <<"noop">> \in Seq(Tramps) /\ <<"code", "unmap">> \in Seq(Tramps)
    OBVIOUS
  <2>2. trampolines' \in Seq(Tramps)
    BY <1>12, <2>1, TrampSequences DEF GuestBreaks, GuestRunsShellcode, GuestTrampolines
  <2>3. QED
    BY <1>12, <2>2 DEF GuestBreaks, GuestRunsShellcode, GuestTrampolines
<1>13. CASE InGateStart \/ InGateStop \/ Finished \/ UNCHANGED vars
  BY <1>13 DEF InGateStart, InGateStop, Finished, vars, loopVars
<1>14. ASSUME NEW c \in Clients,
              \/ Attach(c) \/ Continue(c) \/ Leave(c) \/ InGateCall(c) \/ Reenter(c)
       PROVE  LoopTypeOK'
  BY <1>14 DEF Attach, Continue, Leave, InGateCall, Reenter, loopVars
<1>15. ASSUME NEW c \in Clients, ChoosePc(c) \/ Step(c) \/ Disarm(c) PROVE LoopTypeOK'
  BY <1>15 DEF ChoosePc, Step, Disarm
<1>16. ASSUME NEW c \in Clients, Exit(c) PROVE LoopTypeOK'
  <2>1. ended' \in BOOLEAN
    BY <1>16 DEF Exit
  <2>2. QED
    BY <1>16, <2>1 DEF Exit
<1>17. ASSUME NEW c \in Clients, StopCode(c) PROVE LoopTypeOK'
  BY <1>17, <1>0 DEF StopCode
<1>18. QED
  BY <1>1, <1>2, <1>3, <1>4, <1>5, <1>6, <1>7, <1>8, <1>9, <1>10, <1>11, <1>12, <1>13,
     <1>14, <1>15, <1>16, <1>17 DEF Next, RunMain, Guest, Command

\* A step of a client leaves Main where it is in Run and in the gate, except that Stop
\* at a prompt ends the shellcode.
LEMMA ClientLeavesMain ==
  ASSUME NEW c \in Clients,
         Attach(c) \/ Command(c) \/ Disarm(c) \/ Leave(c) \/ InGateCall(c) \/ Reenter(c)
  PROVE  mpc' = mpc /\ (rpc' = rpc \/ (rpc = "code" /\ rpc' = "tramp"))
<1>1. CASE Attach(c) \/ Continue(c) \/ Step(c)
  BY <1>1 DEF Attach, Continue, Step, ClientLock, RelockAddFirst, loopVars
<1>2. CASE ChoosePc(c) \/ StopCode(c) \/ Exit(c) \/ Disarm(c)
  BY <1>2 DEF ChoosePc, StopCode, Exit, Disarm, RunGoto, gateVars
<1>3. CASE Leave(c) \/ InGateCall(c) \/ Reenter(c)
  BY <1>3 DEF Leave, InGateCall, Reenter, ClientUnlock, RelockAddSecond, RelockUnlock,
     RelockCount, RelockDone, Relock, loopVars
<1>4. QED
  BY <1>1, <1>2, <1>3 DEF Command

LEMMA RpcStep == RpcInv /\ [Next]_vars => RpcInv'
<1> SUFFICES ASSUME RpcInv, [Next]_vars PROVE RpcInv'
  OBVIOUS
<1> USE DEF RpcInv, RunGoto, gateVars
<1>1. CASE Setup \/ ResetExit \/ WriteEntry \/ BreakOut \/ KeepOn \/ ReadPc \/ StartGuest
  BY <1>1 DEF Setup, ResetExit, WriteEntry, BreakOut, KeepOn, ReadPc, StartGuest
<1>2. CASE LoopTest
  <2>1. rpc' \in {"done", "starting"}
    BY <1>2 DEF LoopTest
  <2>2. QED
    BY <1>2, <2>1 DEF LoopTest
<1>3. CASE TakeTrampolines \/ RunNoop \/ RunUnmap \/ StartCode \/ CodeEnds \/ RestorePc
  BY <1>3 DEF TakeTrampolines, RunNoop, RunUnmap, StartCode, CodeEnds, RestorePc
<1>4. ASSUME NEW c \in Clients, CodeIsStepped(c) PROVE RpcInv'
  BY <1>4 DEF CodeIsStepped
<1>5. CASE Guest
  BY <1>5 DEF Guest, GuestStops, GuestEnds, GuestExits, GuestBreaks, GuestRunsShellcode,
     GuestTrampolines
<1>6. CASE InGateStart
  <2>1. mpc' \in {"idle", "startNotify", "startWait", "running"} /\ rpc' = rpc
    BY <1>6 DEF InGateStart, MainStart, StartLock, StartSend, StartNotified, StartReturn,
       Send, MainGoto, loopVars
  <2>2. QED
    BY <1>6, <2>1 DEF InGateStart
<1>7. CASE InGateStop
  <2>1. mpc' \in {"stopNotify", "stopUnlock", "stopWait", "idle"} /\ rpc' = rpc
    BY <1>7 DEF InGateStop, StopCall, MainStop, StopSend, StopNotified, StopUnlock,
       StopReturn, Send, MainGoto, loopVars
  <2>2. QED
    BY <1>7, <2>1 DEF InGateStop
<1>8. ASSUME NEW c \in Clients,
             Attach(c) \/ Command(c) \/ Disarm(c) \/ Leave(c) \/ InGateCall(c) \/ Reenter(c)
      PROVE  RpcInv'
  BY <1>8, ClientLeavesMain
<1>9. CASE Finished \/ UNCHANGED vars
  BY <1>9 DEF Finished, vars, loopVars
<1>10. QED
  BY <1>1, <1>2, <1>3, <1>4, <1>5, <1>6, <1>7, <1>8, <1>9 DEF Next, RunMain

\* A client that holds the gate is not there while Run is between its second test of
\* exitStatus and the end of the guest's run.
LEMMA RunsAlone == GateInv /\ RpcInv => GuestRunsAlone
BY GateAssumption DEF GateInv, HolderInv, RpcInv, GuestRunsAlone, MainHolding

LEMMA ExitStep == GateInv /\ RpcInv /\ ExitInv /\ [Next]_vars => ExitInv'
<1> SUFFICES ASSUME GateInv, RpcInv, ExitInv, [Next]_vars PROVE ExitInv'
  OBVIOUS
<1> USE DEF ExitInv, RunGoto
<1>1. CASE Setup \/ ResetExit \/ WriteEntry \/ BreakOut \/ KeepOn \/ ReadPc \/ StartGuest
  BY <1>1 DEF Setup, ResetExit, WriteEntry, BreakOut, KeepOn, ReadPc, StartGuest
<1>2. CASE LoopTest
  <2>1. rpc' \in {"done", "starting"}
    BY <1>2 DEF LoopTest
  <2>2. QED
    BY <1>2, <2>1 DEF LoopTest
<1>3. CASE TakeTrampolines \/ RunNoop \/ RunUnmap \/ StartCode \/ CodeEnds \/ RestorePc
  BY <1>3 DEF TakeTrampolines, RunNoop, RunUnmap, StartCode, CodeEnds, RestorePc
<1>4. ASSUME NEW c \in Clients, CodeIsStepped(c) PROVE ExitInv'
  BY <1>4 DEF CodeIsStepped
<1>5. CASE Guest
  BY <1>5 DEF Guest, GuestStops, GuestEnds, GuestExits, GuestBreaks, GuestRunsShellcode,
     GuestTrampolines
<1>6. CASE InGateStart \/ InGateStop \/ Finished \/ UNCHANGED vars
  BY <1>6 DEF InGateStart, InGateStop, Finished, vars, loopVars
<1>7. ASSUME NEW c \in Clients,
             \/ Attach(c) \/ ChoosePc(c) \/ Continue(c) \/ Step(c) \/ StopCode(c)
             \/ Disarm(c) \/ Leave(c) \/ InGateCall(c) \/ Reenter(c)
      PROVE  ExitInv'
  BY <1>7 DEF Attach, ChoosePc, Continue, Step, StopCode, Disarm, Leave, InGateCall,
     Reenter, loopVars
<1>8. ASSUME NEW c \in Clients, Exit(c) PROVE ExitInv'
  <2>1. rpc \notin {"checked", "ready"}
    BY <1>8, RunsAlone DEF Exit, AtPrompt, GuestRunsAlone, Holding
  <2>2. rpc \in {"boot", "reset"} => ~ended'
    BY <1>8 DEF Exit
  <2>3. QED
    BY <1>8, <2>1, <2>2 DEF Exit
<1>9. QED
  BY <1>1, <1>2, <1>3, <1>4, <1>5, <1>6, <1>7, <1>8 DEF Next, RunMain, Command

LEMMA PcStep == GateInv /\ RpcInv /\ PcInv /\ [Next]_vars => PcInv'
<1> SUFFICES ASSUME GateInv, RpcInv, PcInv, [Next]_vars PROVE PcInv'
  OBVIOUS
<1> USE DEF PcInv, RunGoto
<1>1. CASE Setup \/ ResetExit \/ WriteEntry \/ BreakOut \/ KeepOn \/ ReadPc \/ StartGuest
  BY <1>1 DEF Setup, ResetExit, WriteEntry, BreakOut, KeepOn, ReadPc, StartGuest
<1>2. CASE LoopTest \/ TakeTrampolines
  <2>1. CASE LoopTest
    <3>1. rpc' \in {"done", "starting"}
      BY <2>1 DEF LoopTest
    <3>2. QED
      BY <2>1, <3>1 DEF LoopTest
  <2>2. CASE TakeTrampolines
    <3>1. rpc' \in {"test", "tramp"}
      BY <2>2 DEF TakeTrampolines
    <3>2. QED
      BY <2>2, <3>1 DEF TakeTrampolines
  <2>3. QED
    BY <1>2, <2>1, <2>2
<1>3. CASE RunNoop \/ RunUnmap \/ StartCode \/ CodeEnds \/ RestorePc
  BY <1>3 DEF RunNoop, RunUnmap, StartCode, CodeEnds, RestorePc
<1>4. ASSUME NEW c \in Clients, CodeIsStepped(c) PROVE PcInv'
  BY <1>4 DEF CodeIsStepped
<1>5. CASE Guest
  BY <1>5 DEF Guest, GuestStops, GuestEnds, GuestExits, GuestBreaks, GuestRunsShellcode,
     GuestTrampolines
<1>6. CASE InGateStart \/ InGateStop \/ Finished \/ UNCHANGED vars
  BY <1>6 DEF InGateStart, InGateStop, Finished, vars, loopVars
<1>7. ASSUME NEW c \in Clients,
             \/ Attach(c) \/ ChoosePc(c) \/ Continue(c) \/ Step(c) \/ StopCode(c) \/ Exit(c)
             \/ Disarm(c) \/ Leave(c) \/ InGateCall(c) \/ Reenter(c)
      PROVE  PcInv'
  BY <1>7 DEF Attach, ChoosePc, Continue, Step, StopCode, Exit, Disarm, Leave, InGateCall,
     Reenter, loopVars
<1>8. QED
  BY <1>1, <1>2, <1>3, <1>4, <1>5, <1>6, <1>7 DEF Next, RunMain, Command

LEMMA MappedStep == LoopTypeOK /\ MappedInv /\ [Next]_vars => MappedInv'
<1> SUFFICES ASSUME LoopTypeOK, MappedInv, [Next]_vars PROVE MappedInv'
  OBVIOUS
<1> USE DEF MappedInv, RunGoto
<1>0. /\ todo # <<>> /\ UnmapsLast(todo) /\ Head(todo) # "unmap" => UnmapsLast(Tail(todo))
      /\ \A ts \in Seq(Tramps) : UnmapsLast(ts) => UnmapsLast(trampolines \o ts)
  BY TrampSequences DEF LoopTypeOK, UnmapsLast
<1>1. CASE Setup \/ ResetExit \/ WriteEntry \/ BreakOut \/ KeepOn \/ ReadPc \/ StartGuest
  BY <1>1 DEF Setup, ResetExit, WriteEntry, BreakOut, KeepOn, ReadPc, StartGuest
<1>2. CASE LoopTest
  <2>1. rpc' = "done" \/ (rpc' = "starting" /\ ~err)
    BY <1>2, Zenon DEF LoopTest
  <2>2. QED
    BY <1>2, <2>1 DEF LoopTest
<1>3. CASE TakeTrampolines
  <2>1. trampolines = <<>> => ~UnmapsLast(trampolines)
    BY DEF UnmapsLast
  <2>2. \/ rpc' = "test" /\ todo' = <<>> /\ ~mapped'
        \/ rpc' = "tramp" /\ todo' = trampolines
    BY <1>3, <2>1 DEF TakeTrampolines
  <2>3. QED
    BY <1>3, <2>2 DEF TakeTrampolines
<1>4. CASE RunNoop
  <2>1. UnmapsLast(todo) => UnmapsLast(todo')
    BY <1>4, <1>0 DEF RunNoop
  <2>2. QED
    BY <1>4, <2>1 DEF RunNoop
<1>5. CASE RunUnmap
  BY <1>5 DEF RunUnmap
<1>6. CASE StartCode
  BY <1>6 DEF StartCode
<1>7. CASE CodeEnds \/ \E c \in Clients : CodeIsStepped(c) \/ StopCode(c)
  <2>1. /\ rpc = "code" /\ rpc' = "tramp" /\ mapped' = mapped
        /\ todo' = Tail(todo) \/ (err' = TRUE /\ todo' = <<>>)
    BY <1>7 DEF CodeEnds, CodeIsStepped, StopCode
  <2>2. todo # <<>> /\ Head(todo) = "code"
    BY <2>1 DEF LoopTypeOK
  <2>3. UnmapsLast(todo) => UnmapsLast(todo') \/ (err' = TRUE /\ todo' = <<>>)
    BY <2>1, <2>2, <1>0
  <2>4. QED
    BY <2>1, <2>3
<1>8. CASE RestorePc
  <2>1. ~UnmapsLast(todo)
    BY <1>8 DEF RestorePc, UnmapsLast
  <2>2. QED
    BY <1>8, <2>1 DEF RestorePc
<1>9. CASE GuestStops \/ GuestEnds \/ GuestExits
  BY <1>9 DEF GuestStops, GuestEnds, GuestExits
<1>10. CASE GuestBreaks
  BY <1>10 DEF GuestBreaks, GuestTrampolines
<1>11. CASE GuestRunsShellcode
  <2>1. <<"code", "unmap">> \in Seq(Tramps) /\ UnmapsLast(<<"code", "unmap">>)
    BY DEF Tramps, UnmapsLast
  <2>2. UnmapsLast(trampolines')
    BY <1>11, <2>1, <1>0 DEF GuestRunsShellcode, GuestTrampolines
  <2>3. QED
    BY <1>11, <2>2 DEF GuestRunsShellcode, GuestTrampolines
<1>12. CASE InGateStart \/ InGateStop \/ Finished \/ UNCHANGED vars
  BY <1>12 DEF InGateStart, InGateStop, Finished, vars, loopVars, UnmapsLast
<1>13. ASSUME NEW c \in Clients,
              \/ Attach(c) \/ ChoosePc(c) \/ Continue(c) \/ Step(c) \/ Exit(c)
              \/ Disarm(c) \/ Leave(c) \/ InGateCall(c) \/ Reenter(c)
       PROVE  MappedInv'
  BY <1>13 DEF Attach, ChoosePc, Continue, Step, Exit, Disarm, Leave, InGateCall,
     Reenter, loopVars, UnmapsLast
<1>14. QED
  BY <1>1, <1>2, <1>3, <1>4, <1>5, <1>6, <1>7, <1>8, <1>9, <1>10, <1>11, <1>12, <1>13
     DEF Next, RunMain, Guest, Command

-----------------------------------------------------------------------------
(* The theorems.                                                           *)

LEMMA LoopInvInit == Init => LoopInv
BY EmptySeq DEF Init, GateInit, LoopInv, LoopTypeOK, RpcInv, ExitInv, PcInv, MappedInv, Rpcs,
   Pcs

\* The invariant that carries the others: any number of stubs and prompts.
THEOREM LoopInvariant == Spec => []LoopInv
<1>1. GateInv /\ LoopInv /\ [Next]_vars => LoopInv'
  BY LoopTypeStep, RpcStep, ExitStep, PcStep, MappedStep DEF LoopInv
<1>2. QED
  BY <1>1, LoopInvInit, GateInvAlways, PTL DEF Spec

\* Run's and the front ends' own state has its types (usercorn.go:386-501).
THEOREM LoopTypeCorrect == Spec => []LoopTypeOK
<1>1. LoopInv => LoopTypeOK
  BY DEF LoopInv
<1>2. QED
  BY <1>1, LoopInvariant, PTL

\* No front end acts while the guest runs, nor between Run's last look at exitStatus
\* and pc and its start (usercorn.go:452-457).
THEOREM TheGuestRunsAlone == Spec => []GuestRunsAlone
<1>1. GateInv /\ LoopInv => GuestRunsAlone
  BY RunsAlone DEF LoopInv
<1>2. QED
  BY <1>1, LoopInvariant, GateInvAlways, PTL

\* Before the guest goes on every trampoline of its last stop has run, or Run ends with
\* the error of one (usercorn.go:466-480).
THEOREM NothingIsLeftOver == Spec => []NothingLeftOver
<1>1. LoopInv => NothingLeftOver
  BY DEF LoopInv, MappedInv, NothingLeftOver
<1>2. QED
  BY <1>1, LoopInvariant, PTL

\* Exit by any front end at any time since Run reset exitStatus keeps the guest from
\* running again (usercorn.go:447-453, 802-808).
THEOREM NoGuestRunsAfterExit == Spec => NoGuestAfterExit
<1>1. LoopInv /\ [Next]_vars => [StartGuest => ~ended]_vars
  BY DEF LoopInv, ExitInv, StartGuest, RunGoto
<1>2. QED
  BY <1>1, LoopInvariant, PTL DEF Spec, NoGuestAfterExit

\* The guest goes on where it stopped unless a front end chose where
\* (usercorn.go:465-482).
THEOREM GuestResumes == Spec => ResumesWhereStopped
<1>1. LoopInv /\ [Next]_vars => [StartGuest => want = "chosen" \/ at = want]_vars
  BY DEF LoopInv, PcInv, StartGuest, RunGoto
<1>2. QED
  BY <1>1, LoopInvariant, PTL DEF Spec, ResumesWhereStopped
=============================================================================
