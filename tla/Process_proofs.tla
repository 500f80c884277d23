---------------------------- MODULE Process_proofs ----------------------------
(***************************************************************************)
(* Proofs about a process and its bot.                                     *)
(*                                                                         *)
(* StartUp, for any number of processes and migrations and whatever each   *)
(* binary knows: one set of loops, and no process in front of a database   *)
(* that lacks a migration it knows.  Gateway, which one of the loops runs, *)
(* for every ceiling of the backoff and every capacity of the channel:     *)
(* connections do not overlap.                                             *)
(***************************************************************************)
EXTENDS StartUp, Gateway, TLAPS


\* Whoever is in charge holds the lock.
LockInv == \A p \in Processes : InCharge(p) => holder = p

\* The migrations up to the recorded version, and up to where a process that
\* has read it has got, are in the database.
SchemaInv ==
    /\ 1..version \subseteq applied
    /\ \A p \in Processes :
          /\ pc[p] \in {"migrate", "lock", "build", "serve", "stop"} => 1..at[p] \subseteq applied
          /\ pc[p] \in {"lock", "build", "serve", "stop"} => at[p] >= Knows[p]

IInv == TypeOK /\ LockInv /\ SchemaInv

-------------------------------------------------------------------------------
\* The three parts hold of any database some version of the program left.
LEMMA InitIInv == Init => IInv
<1> SUFFICES ASSUME Init PROVE IInv
  OBVIOUS
<1> USE Binaries
<1>1. TypeOK
  <2>1. version \in 0..Schema /\ applied \subseteq 1..Schema
    BY DEF Init
  <2>2. holder \in Processes \union {Nobody} /\ calm \in BOOLEAN
    BY DEF Init
  <2>3. pc \in [Processes -> Places] /\ at \in [Processes -> 0..Schema]
    BY DEF Init, Places
  <2> QED
    BY <2>1, <2>2, <2>3 DEF TypeOK
<1>2. LockInv
  BY DEF Init, LockInv, InCharge
<1>3. SchemaInv
  BY DEF Init, SchemaInv
<1> QED
  BY <1>1, <1>2, <1>3 DEF IInv

\* A step of a process that stays within the migrations keeps the types.
LEMMA TypeStep ==
    ASSUME TypeOK, NEW p \in Processes, Proceed(p) \/ Mishap(p), UNCHANGED calm
    PROVE  TypeOK'
<1> USE Binaries, NobodyIsNoProcess DEF TypeOK, Places, Goes
<1>1. CASE Launch(p)
  BY <1>1 DEF Launch, database
<1>2. CASE ReadVersion(p)
  BY <1>2 DEF ReadVersion, database
<1>3. CASE Apply(p)
  <2>1. Next1(p) \in 1..Schema
    BY <1>3 DEF Apply, Next1
  <2>2. version' = Next1(p) /\ applied' = applied \union {Next1(p)}
    BY <1>3 DEF Apply
  <2>3. version' \in 0..Schema
    BY <2>1, <2>2
  <2>4. applied' \subseteq 1..Schema
    BY <2>1, <2>2
  <2>5. at' \in [Processes -> 0..Schema]
    BY <2>1, <1>3 DEF Apply
  <2> QED
    BY <2>3, <2>4, <2>5, <1>3 DEF Apply
<1>4. CASE ApplyFails(p) \/ OpenFails(p)
  BY <1>4 DEF ApplyFails, OpenFails, database
<1>5. CASE Migrated(p) \/ Refused(p)
  BY <1>5 DEF Migrated, Refused, database
<1>6. CASE TakeLock(p)
  BY <1>6 DEF TakeLock, database
<1>7. CASE StartLoops(p) \/ Stop(p) \/ CloseStore(p)
  BY <1>7 DEF StartLoops, Stop, CloseStore, database
<1>8. CASE BuildFails(p) \/ Unlock(p) \/ Kill(p)
  BY <1>8 DEF BuildFails, Unlock, Kill, Freed, database
<1> QED
  BY <1>1, <1>2, <1>3, <1>4, <1>5, <1>6, <1>7, <1>8 DEF Proceed, Mishap

\* The lock is only taken when nobody holds it, and only freed by its holder.
LEMMA LockStep ==
    ASSUME TypeOK, LockInv, NEW p \in Processes, Proceed(p) \/ Mishap(p)
    PROVE  LockInv'
<1> SUFFICES ASSUME NEW q \in Processes, InCharge(q)' PROVE holder' = q
  BY DEF LockInv
<1> USE NobodyIsNoProcess DEF TypeOK, Goes, InCharge, LockInv
<1>1. CASE TakeLock(p)
  BY <1>1 DEF TakeLock
<1>2. CASE BuildFails(p) \/ Unlock(p) \/ Kill(p)
  BY <1>2 DEF BuildFails, Unlock, Kill, Freed
<1>3. CASE Launch(p) \/ ReadVersion(p) \/ Migrated(p) \/ Refused(p)
  BY <1>3 DEF Launch, ReadVersion, Migrated, Refused
<1>4. CASE Apply(p) \/ ApplyFails(p) \/ OpenFails(p)
  BY <1>4 DEF Apply, ApplyFails, OpenFails
<1>5. CASE StartLoops(p) \/ Stop(p) \/ CloseStore(p)
  BY <1>5 DEF StartLoops, Stop, CloseStore
<1> QED
  BY <1>1, <1>2, <1>3, <1>4, <1>5 DEF Proceed, Mishap

\* Nothing is ever taken out of the database, and a migration is only added
\* after all those below it.
LEMMA SchemaStep ==
    ASSUME TypeOK, SchemaInv, NEW p \in Processes, Proceed(p) \/ Mishap(p)
    PROVE  SchemaInv'
<1> USE Binaries
<1>1. CASE Apply(p)
  <2>1. 1..Next1(p) \subseteq applied'
    BY <1>1 DEF Apply, Next1, SchemaInv, TypeOK
  <2>2. ASSUME NEW q \in Processes,
               pc'[q] \in {"migrate", "lock", "build", "serve", "stop"}
        PROVE  1..at'[q] \subseteq applied'
    <3>1. CASE q = p
      BY <3>1, <2>1, <1>1 DEF Apply, TypeOK
    <3>2. CASE q # p
      BY <3>2, <2>2, <1>1 DEF Apply, TypeOK, SchemaInv
    <3> QED
      BY <3>1, <3>2
  <2>3. ASSUME NEW q \in Processes, pc'[q] \in {"lock", "build", "serve", "stop"}
        PROVE  at'[q] >= Knows[q]
    <3>1. q # p
      BY <2>3, <1>1 DEF Apply
    <3> QED
      BY <3>1, <2>3, <1>1 DEF Apply, TypeOK, SchemaInv
  <2> QED
    BY <2>1, <2>2, <2>3, <1>1 DEF Apply, SchemaInv
<1>2. CASE ReadVersion(p)
  BY <1>2 DEF ReadVersion, Goes, database, TypeOK, SchemaInv
<1>3. CASE Migrated(p)
  BY <1>3 DEF Migrated, Goes, database, TypeOK, SchemaInv
<1>4. CASE Launch(p) \/ TakeLock(p) \/ Refused(p) \/ StartLoops(p) \/ Unlock(p) \/ CloseStore(p)
  BY <1>4 DEF Launch, TakeLock, Refused, StartLoops, Unlock, CloseStore, Goes, database, TypeOK, SchemaInv
<1>5. CASE ApplyFails(p) \/ OpenFails(p) \/ BuildFails(p) \/ Stop(p) \/ Kill(p)
  BY <1>5 DEF ApplyFails, OpenFails, BuildFails, Stop, Kill, Goes, database, TypeOK, SchemaInv
<1> QED
  BY <1>1, <1>2, <1>3, <1>4, <1>5 DEF Proceed, Mishap

LEMMA NextIInv == IInv /\ [Next]_vars => IInv'
<1> SUFFICES ASSUME IInv, [Next]_vars PROVE IInv'
  OBVIOUS
<1>1. ASSUME NEW p \in Processes, Proceed(p) \/ Mishap(p), UNCHANGED calm PROVE IInv'
  BY <1>1, TypeStep, LockStep, SchemaStep DEF IInv
<1>2. CASE CalmSetsIn \/ UNCHANGED vars
  <2>1. UNCHANGED <<version, applied, holder, pc, at>> /\ calm' \in {TRUE, calm}
    BY <1>2 DEF CalmSetsIn, vars, database
  <2> QED
    BY <2>1 DEF IInv, TypeOK, LockInv, InCharge, SchemaInv
<1> QED
  BY <1>1, <1>2 DEF Next

-------------------------------------------------------------------------------
\* The inductive invariant: the lock is held by whoever is in charge, and no
\* process counts a migration as applied that is not (main.go, store.go).
THEOREM Inductive == Spec => []IInv
<1>1. Init => IInv
  BY InitIInv
<1>2. IInv /\ [Next]_vars => IInv'
  BY NextIInv
<1> QED
  BY <1>1, <1>2, PTL DEF Spec

\* Every variable keeps its type.
THEOREM TypeCorrect == Spec => []TypeOK
<1>1. IInv => TypeOK
  BY DEF IInv
<1> QED
  BY Inductive, <1>1, PTL

\* At most one process has its loops running (lock.go: exactly one instance).
THEOREM OneSetOfLoopsHolds == Spec => []OneSetOfLoops
<1>1. IInv => OneSetOfLoops
  BY DEF IInv, LockInv, OneSetOfLoops
<1> QED
  BY Inductive, <1>1, PTL

\* A process past its migrations has a database with all of them (store.go
\* migrate, which reads the version once and outside of any transaction).
THEOREM ServesItsSchemaHolds == Spec => []ServesItsSchema
<1>1. ASSUME IInv, NEW p \in Processes, pc[p] \in {"lock", "build", "serve", "stop"}
      PROVE  1..Knows[p] \subseteq applied
  BY <1>1, Binaries DEF IInv, SchemaInv, TypeOK
<1>2. IInv => ServesItsSchema
  BY <1>1 DEF ServesItsSchema
<1> QED
  BY Inductive, <1>2, PTL

-------------------------------------------------------------------------------
(***************************************************************************)
(* The bot.                                                                *)
(***************************************************************************)
\* OneConnectionAtATime is inductive as it stands: a connection is let go of
\* in one step, after its writer, and only dialling opens one.
BotInv == BotTypeOK /\ OneConnectionAtATime

LEMMA BotInitially == BotInit => BotInv
<1> SUFFICES ASSUME BotInit PROVE BotInv
  OBVIOUS
<1>1. sender \in [Senders -> {"resting", "sending", "gone"}]
  BY DEF BotInit
<1>2. queue \in 0..Capacity
  BY Bounds DEF BotInit
<1>3. BotTypeOK
  <2>1. backoff \in Nat \ {0}
    BY DEF BotInit
  <2>2. /\ running \in BOOLEAN /\ cancelled \in BOOLEAN /\ acked \in BOOLEAN
        /\ failed \in BOOLEAN /\ resumable \in BOOLEAN
    BY DEF BotInit
  <2>3. /\ main \in {"dial", "hello", "identify", "read", "answer", "pause", "leave",
                     "wait", "returned"}
        /\ line \in {"up", "silent", "cut"} /\ conn \in {"open", "closed"}
        /\ writer \in {"idle", "writing", "gone"}
    BY DEF BotInit
  <2> QED
    BY <1>1, <1>2, <2>1, <2>2, <2>3 DEF BotTypeOK
<1>4. OneConnectionAtATime
  BY DEF BotInit, OneConnectionAtATime, Done
<1> QED
  BY <1>3, <1>4 DEF BotInv

\* A frame that enters the channel leaves it within its capacity.
LEMMA QueueHolds == ASSUME BotTypeOK PROVE Enqueued \in 0..Capacity
  BY Bounds DEF BotTypeOK, Enqueued

-------------------------------------------------------------------------------
\* The steps of Run, and of connectOnce before and after its reader.
LEMMA LoopStep ==
    ASSUME BotInv, LineFails \/ StopBot \/ Connect \/ Onward
    PROVE  BotInv'
<1> USE DEF BotInv, BotTypeOK, OneConnectionAtATime, Done, loop
<1>1. CASE LineFails
  BY <1>1 DEF LineFails
<1>2. CASE StopBot
  BY <1>2 DEF StopBot
<1>3. CASE Dial
  <2>1. queue' \in 0..Capacity
    BY <1>3, Bounds DEF Dial
  <2>2. sender' \in [Senders -> {"resting", "sending", "gone"}]
    BY <1>3 DEF Dial
  <2> QED
    BY <2>1, <2>2, <1>3 DEF Dial
<1>4. CASE DialFails
  BY <1>4 DEF DialFails
<1>5. CASE Hello
  BY <1>5 DEF Hello
<1>6. CASE UnexpectedFirstFrame
  BY <1>6 DEF UnexpectedFirstFrame, Leave
<1>7. CASE ReadFails
  <2>1. failed' \in BOOLEAN /\ main' = "leave"
    BY <1>7 DEF ReadFails, Leave
  <2>2. UNCHANGED <<running, backoff, resumable, line, conn, cancelled, queue, writer, sender, acked>>
    BY <1>7 DEF ReadFails
  <2> QED
    BY <2>1, <2>2
<1>8. CASE Identify
  <2>1. queue' \in 0..Capacity
    BY <1>8, QueueHolds DEF Identify
  <2>2. sender' \in [Senders -> {"resting", "sending", "gone"}]
    BY <1>8 DEF Identify
  <2> QED
    BY <2>1, <2>2, <1>8 DEF Identify
<1>9. CASE Reconnect
  <2>1. backoff' \in Nat \ {0}
    BY <1>9 DEF Reconnect, NextBackoff
  <2> QED
    BY <2>1, <1>9 DEF Reconnect
<1>10. CASE Return
  BY <1>10 DEF Return
<1>11. CASE Leaves
  BY <1>11 DEF Leaves
<1>12. CASE Answer
  <2>1. queue' \in 0..Capacity
    BY <1>12, QueueHolds DEF Answer
  <2> QED
    BY <2>1, <1>12 DEF Answer
<1>13. CASE PauseEnds
  BY <1>13 DEF PauseEnds, Leave
<1> QED
  BY <1>1, <1>2, <1>3, <1>4, <1>5, <1>6, <1>7, <1>8, <1>9, <1>10, <1>11, <1>12, <1>13
  DEF Connect, Onward

\* The reader, by kind of frame.
LEMMA FrameStep == ASSUME BotInv, Frame PROVE BotInv'
<1> USE DEF BotInv, BotTypeOK, OneConnectionAtATime, Done, loop, Reading, Leave
<1>1. CASE HeartbeatACK
  BY <1>1 DEF HeartbeatACK
<1>2. CASE HeartbeatWanted
  BY <1>2 DEF HeartbeatWanted
<1>3. CASE Ready
  BY <1>3 DEF Ready
<1>4. CASE ReconnectWanted
  BY <1>4 DEF ReconnectWanted
<1>5. CASE InvalidSession
  BY <1>5 DEF InvalidSession
<1> QED
  BY <1>1, <1>2, <1>3, <1>4, <1>5 DEF Frame

\* The goroutines beside it, which may outlive the connection; a writer that
\* has gone does not come back.
LEMMA GoroutineStep ==
    ASSUME BotInv, CloseSocket \/ Writes \/ Beats \/ Presents
    PROVE  BotInv'
<1> USE DEF BotInv, BotTypeOK, OneConnectionAtATime, Done, loop, SenderGoes, Senders
<1>1. CASE CloseSocket
  BY <1>1 DEF CloseSocket
<1>2. CASE TakeFrame
  BY <1>2, Bounds DEF TakeFrame
<1>3. CASE FrameWritten
  BY <1>3 DEF FrameWritten
<1>4. CASE WriteFails \/ WriterEnds
  BY <1>4 DEF WriteFails, WriterEnds
<1>5. CASE Heartbeat
  BY <1>5 DEF Heartbeat
<1>6. CASE RefreshPresence
  BY <1>6 DEF RefreshPresence
<1>7. ASSUME NEW s \in Senders, Sends(s) PROVE BotInv'
  <2>1. queue' \in 0..Capacity
    BY <1>7, QueueHolds DEF Sends
  <2> QED
    BY <2>1, <1>7 DEF Sends
<1>8. ASSUME NEW s \in Senders, SenderEnds(s) PROVE BotInv'
  BY <1>8 DEF SenderEnds
<1> QED
  BY <1>1, <1>2, <1>3, <1>4, <1>5, <1>6, <1>7, <1>8 DEF Writes, Beats, Presents

LEMMA BotStep == BotInv /\ [BotNext]_botVars => BotInv'
<1> SUFFICES ASSUME BotInv, [BotNext]_botVars PROVE BotInv'
  OBVIOUS
<1>1. CASE UNCHANGED botVars
  BY <1>1 DEF BotInv, BotTypeOK, OneConnectionAtATime, Done, botVars, loop
<1> QED
  BY <1>1, LoopStep, FrameStep, GoroutineStep DEF BotNext

-------------------------------------------------------------------------------
\* Every variable keeps its type: the channel never holds more than its
\* capacity, and the backoff is never zero (gateway.go Run).
THEOREM BotTypeCorrect == BotSpec => []BotTypeOK
<1>1. BotInit => BotInv
  BY BotInitially
<1>2. BotInv /\ [BotNext]_botVars => BotInv'
  BY BotStep
<1>3. BotInv => BotTypeOK
  BY DEF BotInv
<1> QED
  BY <1>1, <1>2, <1>3, PTL DEF BotSpec

\* Between two connections the socket of the last is closed, its writer has
\* gone and its context is done (gateway.go connectOnce, the deferred calls).
\* Of its heartbeat, presence and closing goroutines nothing is said: they are
\* not waited for.
THEOREM OneConnectionHolds == BotSpec => []OneConnectionAtATime
<1>1. BotInit => BotInv
  BY BotInitially
<1>2. BotInv /\ [BotNext]_botVars => BotInv'
  BY BotStep
<1>3. BotInv => OneConnectionAtATime
  BY DEF BotInv
<1> QED
  BY <1>1, <1>2, <1>3, PTL DEF BotSpec

===============================================================================
