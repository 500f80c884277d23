---------------------------- MODULE DiscordClient ----------------------------
(***************************************************************************)
(* What a call of the Discord client comes to, for every way Discord can   *)
(* answer its requests: how many copies of a message it leaves with the    *)
(* addressee, and what it tells its caller.                                *)
(*                                                                         *)
(* The encoding of the requests is left out.  An answer to a request is    *)
(* its status, and whether Discord did what it was asked.                  *)
(***************************************************************************)
EXTENDS Naturals

Standing == {"open", "shut", "left"}    \* DMs refused; no longer in the server

\* "cannot send" is error 50007; "wait" is a 429 that asks for at most ten
\* seconds, "limited" any other 429; "no answer" may come after the deed.
Statuses == {"2xx", "cannot send", "wait", "limited", "error", "no answer"}

Replies == {r \in [status : Statuses, done : BOOLEAN] :
              /\ r.status = "2xx" => r.done
              /\ r.done => r.status \in {"2xx", "no answer"}}

\* Discord refuses for good only those it cannot deliver to, and never
\* delivers to them.  It opens a channel to anyone.
MessageReplies(standing) ==
    {r \in Replies : IF standing = "open" THEN r.status # "cannot send" ELSE ~r.done}
ChannelReplies(standing) ==
    {r \in Replies : standing = "open" => r.status # "cannot send"}

Copies(r) == IF r.done THEN 1 ELSE 0

finish(r) ==
    CASE r.status = "2xx"         -> "ok"
      [] r.status = "cannot send" -> "undeliverable"
      [] OTHER                    -> "failed"

RetriesEagerly(r) == r.status \in {"wait", "no answer"}

\* The one status after which the same request is made once more: Discord
\* says it has not done it.
Retries(r) == r.status = "wait"

\* One request, and perhaps a second; the process may stop while it waits.
do(replies) ==
    LET once  == {[copies |-> Copies(r), says |-> finish(r)] : r \in replies}
        twice == {[copies |-> Copies(r) + Copies(q), says |-> finish(q)] :
                     r \in {r \in replies : Retries(r)}, q \in replies}
    IN  once \union twice

\* A channel that was opened and whose id was not understood is a failure.
createDMChannel(standing) ==
    {d.says : d \in do(ChannelReplies(standing))} \union {"failed"}

\* The message is posted once there is a channel for it.
Send(standing) ==
    {[copies |-> 0, says |-> says] : says \in createDMChannel(standing) \ {"ok"}}
    \union do(MessageReplies(standing))

===============================================================================
