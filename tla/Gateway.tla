------------------------------ MODULE Gateway ------------------------------
(***************************************************************************)
(* The connection that makes the bot appear online                         *)
(* (internal/discord/gateway.go): Run, which connects again and again, and *)
(* the goroutines of connectOnce - the reader, which is the function       *)
(* itself, the writer, the heartbeat, the presence refresh, and the one    *)
(* that closes the socket.  Of a frame only what it makes the program do   *)
(* is kept, and of the session whether there is one to resume.             *)
(*                                                                         *)
(* The bot is one of the loops that a process of StartUp runs; the names   *)
(* of the specification begin with Bot so that the two can be read side by *)
(* side, as their proofs are.                                              *)
(***************************************************************************)
EXTENDS Naturals

CONSTANTS Ceiling,  \* 5 minutes, counted in the first backoff
          Capacity  \* of the channel of frames to be written

ASSUME Bounds == Ceiling \in Nat \ {0} /\ Capacity \in Nat \ {0}

Senders == {"heartbeat", "presence"}

VARIABLES
    running,   \* the service's context is not cancelled
    main,      \* where Run and connectOnce are
    backoff, failed, resumable,
    line,      \* the network: "up", "silent" (frames vanish) or "cut"
    conn,      \* this end of the socket
    cancelled, \* cancel was called
    queue,     \* frames in the channel
    writer, sender, acked

loop == <<backoff, failed, resumable>>
botVars == <<running, main, loop, line, conn, cancelled, queue, writer, sender, acked>>

DoneDetached == cancelled

Done == cancelled \/ ~running \* connCtx.Done()

BotInit ==
    /\ running = TRUE /\ main = "dial"
    /\ backoff = 1 /\ failed = FALSE /\ resumable = FALSE
    /\ line = "cut" /\ conn = "closed" /\ cancelled = TRUE /\ queue = 0
    /\ writer = "gone" /\ sender = [s \in Senders |-> "gone"] /\ acked = FALSE

-------------------------------------------------------------------------------
(***************************************************************************)
(* The network, and the process being told to stop.                        *)
(***************************************************************************)
LineFails ==
    /\ line # "cut"
    /\ line' \in {"silent", "cut"} \ {line}
    /\ UNCHANGED <<running, main, loop, conn, cancelled, queue, writer, sender, acked>>

StopBot ==
    /\ running
    /\ running' = FALSE
    /\ UNCHANGED <<main, loop, line, conn, cancelled, queue, writer, sender, acked>>

-------------------------------------------------------------------------------
(***************************************************************************)
(* Run.                                                                    *)
(***************************************************************************)
NextBackoff ==
    IF ~failed THEN 1 ELSE IF backoff < Ceiling THEN 2 * backoff ELSE backoff

Reconnect ==
    /\ main = "wait" /\ running
    /\ main' = "dial"
    /\ backoff' = NextBackoff
    /\ UNCHANGED <<running, failed, resumable, line, conn, cancelled, queue, writer, sender, acked>>

Return ==
    /\ main = "wait" /\ ~running
    /\ main' = "returned"
    /\ UNCHANGED <<running, loop, line, conn, cancelled, queue, writer, sender, acked>>

-------------------------------------------------------------------------------
(***************************************************************************)
(* connectOnce, up to its last goroutine.  Only the writer of the          *)
(* connection before has been waited for.  Its heartbeat, its presence     *)
(* refresh and the goroutine that closes its socket may still be ending:   *)
(* they have that connection's context, which is done, and its channel,    *)
(* and from Dial on they are not in the model, which follows the newest    *)
(* connection.                                                             *)
(***************************************************************************)
DialFails ==
    /\ main = "dial"
    /\ main' = "wait" /\ failed' = TRUE
    /\ UNCHANGED <<running, backoff, resumable, line, conn, cancelled, queue, writer, sender, acked>>

Dial ==
    /\ main = "dial" /\ running
    /\ main' = "hello"
    /\ line' = "up" /\ conn' = "open" /\ cancelled' = FALSE /\ queue' = 0
    /\ writer' = "idle" /\ sender' = [s \in Senders |-> "gone"]
    /\ UNCHANGED <<running, loop, acked>>

Readable == conn = "open" /\ line = "up"

Hello ==
    /\ main = "hello" /\ Readable
    /\ main' = "identify"
    /\ UNCHANGED <<running, loop, line, conn, cancelled, queue, writer, sender, acked>>

\* A frame enters the channel, or its sender sees the context done.
CanSend  == queue < Capacity \/ Done
Enqueued == IF queue < Capacity THEN queue + 1 ELSE queue

\* RESUME or IDENTIFY, then the heartbeat and the presence refresh start.
Identify ==
    /\ main = "identify" /\ CanSend
    /\ main' = "read" /\ queue' = Enqueued
    /\ acked' = TRUE /\ sender' = [s \in Senders |-> "resting"]
    /\ UNCHANGED <<running, loop, line, conn, cancelled, writer>>

\* From here on the deferred calls run, the wait for the writer first.
Leave(err) == main' = "leave" /\ failed' = err

\* The socket is closed or cut, or nothing comes before the deadline.
ReadFails ==
    /\ main \in {"hello", "read"}
    /\ ~Readable
    /\ Leave(main = "hello" \/ ~Done)
    /\ UNCHANGED <<running, backoff, resumable, line, conn, cancelled, queue, writer, sender, acked>>

\* Or none before the deadline.
UnexpectedFirstFrame ==
    /\ main = "hello" /\ Readable
    /\ Leave(TRUE)
    /\ UNCHANGED <<running, backoff, resumable, line, conn, cancelled, queue, writer, sender, acked>>

LeaveHasty ==
    /\ main = "leave"
    /\ main' = "wait" /\ cancelled' = TRUE /\ conn' = "closed"
    /\ UNCHANGED <<running, loop, line, queue, writer, sender, acked>>

\* writeWG.Wait(), cancel(), conn.Close().
Leaves ==
    /\ main = "leave" /\ writer = "gone"
    /\ main' = "wait" /\ cancelled' = TRUE /\ conn' = "closed"
    /\ UNCHANGED <<running, loop, line, queue, writer, sender, acked>>

-------------------------------------------------------------------------------
(***************************************************************************)
(* The reader, by kind of frame; other events change nothing kept here.    *)
(***************************************************************************)
Reading == main = "read" /\ Readable

HeartbeatACK ==
    /\ Reading
    /\ acked' = TRUE
    /\ UNCHANGED <<running, main, loop, line, conn, cancelled, queue, writer, sender>>

HeartbeatWanted ==
    /\ Reading
    /\ main' = "answer"
    /\ UNCHANGED <<running, loop, line, conn, cancelled, queue, writer, sender, acked>>

Answer ==
    /\ main = "answer" /\ CanSend
    /\ main' = "read" /\ queue' = Enqueued
    /\ UNCHANGED <<running, loop, line, conn, cancelled, writer, sender, acked>>

Ready ==
    /\ Reading
    /\ resumable' = TRUE
    /\ UNCHANGED <<running, main, backoff, failed, line, conn, cancelled, queue, writer, sender, acked>>

ReconnectWanted ==
    /\ Reading
    /\ Leave(TRUE)
    /\ UNCHANGED <<running, backoff, resumable, line, conn, cancelled, queue, writer, sender, acked>>

InvalidSession ==
    /\ Reading
    /\ main' = "pause" /\ resumable' = FALSE
    /\ UNCHANGED <<running, backoff, failed, line, conn, cancelled, queue, writer, sender, acked>>

PauseEnds ==
    /\ main = "pause"
    /\ Leave(TRUE)
    /\ UNCHANGED <<running, backoff, resumable, line, conn, cancelled, queue, writer, sender, acked>>

-------------------------------------------------------------------------------
(***************************************************************************)
(* The other goroutines.                                                   *)
(***************************************************************************)
CloseSocket ==
    /\ conn = "open" /\ Done
    /\ conn' = "closed"
    /\ UNCHANGED <<running, main, loop, line, cancelled, queue, writer, sender, acked>>

TakeFrame ==
    /\ writer = "idle" /\ queue > 0
    /\ writer' = "writing" /\ queue' = queue - 1
    /\ UNCHANGED <<running, main, loop, line, conn, cancelled, sender, acked>>

FrameWritten ==
    /\ writer = "writing" /\ conn = "open" /\ line # "cut"
    /\ writer' = "idle"
    /\ UNCHANGED <<running, main, loop, line, conn, cancelled, queue, sender, acked>>

WriteFails ==
    /\ writer = "writing" /\ (conn = "closed" \/ line = "cut")
    /\ writer' = "gone" /\ cancelled' = TRUE
    /\ UNCHANGED <<running, main, loop, line, conn, queue, sender, acked>>

WriterEnds ==
    /\ writer = "idle" /\ Done
    /\ writer' = "gone"
    /\ UNCHANGED <<running, main, loop, line, conn, cancelled, queue, sender, acked>>

SenderGoes(s, to) == sender' = [sender EXCEPT ![s] = to]

HeartbeatTrusting ==
    /\ sender["heartbeat"] = "resting" /\ ~Done
    /\ SenderGoes("heartbeat", "sending")
    /\ UNCHANGED <<running, main, loop, line, conn, cancelled, queue, writer, acked>>

\* The beat before was not acknowledged: the connection is given up.
Heartbeat ==
    /\ sender["heartbeat"] = "resting" /\ ~Done
    /\ IF acked
       THEN SenderGoes("heartbeat", "sending") /\ acked' = FALSE /\ UNCHANGED cancelled
       ELSE SenderGoes("heartbeat", "gone") /\ cancelled' = TRUE /\ UNCHANGED acked
    /\ UNCHANGED <<running, main, loop, line, conn, queue, writer>>

RefreshPresence ==
    /\ sender["presence"] = "resting" /\ ~Done
    /\ SenderGoes("presence", "sending")
    /\ UNCHANGED <<running, main, loop, line, conn, cancelled, queue, writer, acked>>

Sends(s) ==
    /\ sender[s] = "sending" /\ CanSend
    /\ SenderGoes(s, "resting") /\ queue' = Enqueued
    /\ UNCHANGED <<running, main, loop, line, conn, cancelled, writer, acked>>

SenderEnds(s) ==
    /\ sender[s] = "resting" /\ Done
    /\ SenderGoes(s, "gone")
    /\ UNCHANGED <<running, main, loop, line, conn, cancelled, queue, writer, acked>>

-------------------------------------------------------------------------------
Connect  == Dial \/ DialFails \/ Hello \/ UnexpectedFirstFrame \/ ReadFails \/ Identify
Frame    == HeartbeatACK \/ HeartbeatWanted \/ Ready \/ ReconnectWanted \/ InvalidSession
Onward   == Reconnect \/ Return \/ Leaves \/ Answer \/ PauseEnds
Writes   == TakeFrame \/ FrameWritten \/ WriteFails \/ WriterEnds
Beats    == Heartbeat \/ Sends("heartbeat") \/ SenderEnds("heartbeat")
Presents == RefreshPresence \/ Sends("presence") \/ SenderEnds("presence")

BotNext == LineFails \/ StopBot \/ Connect \/ Frame \/ Onward \/ CloseSocket \/ Writes \/ Beats \/ Presents

\* Every goroutine goes on, a dial and a wait for HELLO have a time limit, a
\* write comes to an end, and a channel serves those that wait for it in turn.
\* Nothing is asked of Discord: not that it ever sends a frame.
BotFairness ==
    /\ WF_botVars(Connect) /\ WF_botVars(Onward) /\ WF_botVars(CloseSocket)
    /\ WF_botVars(Writes) /\ WF_botVars(Beats) /\ WF_botVars(Presents)
    /\ SF_botVars(Sends("heartbeat"))

BotSpec == BotInit /\ [][BotNext]_botVars /\ BotFairness

-------------------------------------------------------------------------------
BotTypeOK ==
    /\ running \in BOOLEAN /\ cancelled \in BOOLEAN /\ acked \in BOOLEAN
    /\ main \in {"dial", "hello", "identify", "read", "answer", "pause", "leave", "wait", "returned"}
    /\ backoff \in Nat \ {0} /\ failed \in BOOLEAN /\ resumable \in BOOLEAN
    /\ line \in {"up", "silent", "cut"} /\ conn \in {"open", "closed"}
    /\ queue \in 0..Capacity
    /\ writer \in {"idle", "writing", "gone"}
    /\ sender \in [Senders -> {"resting", "sending", "gone"}]

(***************************************************************************)
(* Between two connections - while Run waits, dials the next or has        *)
(* returned - the socket of the last is closed, its writer has gone and    *)
(* its context is done, however it was lost and whoever gave it up.  That  *)
(* its other goroutines have gone too is not claimed: nobody waits for     *)
(* them.                                                                   *)
(***************************************************************************)
OneConnectionAtATime ==
    main \in {"dial", "wait", "returned"} => conn = "closed" /\ writer = "gone" /\ Done

(***************************************************************************)
(* A connection that has identified itself and is lost - cut, or open with *)
(* nothing coming through, or given up by the reader - is noticed by the   *)
(* heartbeat or by a write, every goroutine lets go of it, and Run gets to *)
(* the next one, whatever Discord does.                                    *)
(***************************************************************************)
Beating == main \in {"read", "answer", "pause", "leave"} /\ sender["heartbeat"] # "gone"

LostConnectionIsReplaced ==
    Beating /\ (line # "up" \/ main = "leave") ~> main \in {"wait", "returned"}

(***************************************************************************)
(* Told to stop, the gateway ends, from wherever it is and whatever the    *)
(* network does, and takes its socket with it.                             *)
(***************************************************************************)
StopIsHeeded == ~running ~> main = "returned" /\ conn = "closed"

-------------------------------------------------------------------------------
(***************************************************************************)
(* What the comment on Run says: it keeps a connection up until its        *)
(* context is cancelled, reconnecting with backoff.  Not kept: a           *)
(* connection that fails before its HELLO has nobody to end its writer,    *)
(* and connectOnce waits for it for ever.  See the findings.               *)
(***************************************************************************)
FailedConnectionIsReplaced == main = "leave" ~> main # "leave"

===============================================================================
