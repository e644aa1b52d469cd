----------------------------- MODULE HiredisPoll -----------------------------
(***************************************************************************)
(* hiredis::connection: the event-loop adapter between libhiredis and      *)
(* chxnet (hiredis/connection.hpp), and async_command on top of it         *)
(* (hiredis/impl/connection.ipp).                                          *)
(*                                                                         *)
(* hiredis asks for read and write events through ev.addRead ...           *)
(* ev.cleanup.  The adapter has one-shot polls it can only cancel          *)
(* asynchronously, so for each direction it keeps a signal (is a poll in   *)
(* flight?) and a flag (was it cancelled?).                                *)
(*                                                                         *)
(* External, modelled from how this code calls it: libhiredis, which       *)
(* writes and reads when it is told it may and asks for the next event;    *)
(* the kernel, which completes polls; the Redis server.  A poll that is    *)
(* not cancelled completes without an error and with the event it waits    *)
(* for among its flags: on a TCP socket that failed or was closed POLLIN   *)
(* and POLLOUT are reported too.  (Otherwise the handlers would drop the   *)
(* event and not poll again.)  The request for write events made while the *)
(* constructor still runs is not modelled.                                 *)
(***************************************************************************)
EXTENDS Naturals, Sequences

CONSTANT Commands   \* commands the application issues

VARIABLES
    ac,       \* __M_ac: "connected", "disconnecting" (after an error), "freed"
    polls,    \* for each direction: signal, cancelled and the poll itself,
              \* "none", "armed", "cancelling", "event" or "error" (completed)
    cmd,      \* "new", "queued" in hiredis, "posted" (its nop), "done", "refused"
    obuf,     \* commands hiredis has not written
    wire,     \* commands the server has not answered
    replies,  \* pending callbacks of hiredis, in order
    in,       \* number of answers that can be read
    up        \* is the server there?

vars == <<ac, polls, cmd, obuf, wire, replies, in, up>>
hiredisVars == <<obuf, wire, replies, in>>

Directions == {"read", "write"}
Idle == [signal |-> FALSE, cancelled |-> FALSE, poll |-> "none"]

Init ==
    /\ ac = "connected" /\ up = TRUE
    /\ polls = [d \in Directions |-> Idle]
    /\ cmd = [c \in Commands |-> "new"]
    /\ obuf = <<>> /\ wire = <<>> /\ replies = <<>> /\ in = 0

-----------------------------------------------------------------------------
(* add_read and add_write, del_read and del_write, on the state of their   *)
(* direction. *)
Add(p) == IF p.signal THEN p
          ELSE [signal |-> TRUE, cancelled |-> FALSE, poll |-> "armed"]
Del(p) == IF ~p.signal \/ p.cancelled THEN p
          ELSE [signal |-> TRUE, cancelled |-> TRUE,
                poll |-> IF p.poll = "armed" THEN "cancelling" ELSE p.poll]
Cleanup(ps) == [d \in Directions |-> Del(ps[d])]

(* async_command: the command is queued and write events are asked for.    *)
(* After an error hiredis refuses it; the result is ignored, so the task   *)
(* is never completed. *)
AsyncCommand(c) ==
    /\ cmd[c] = "new" /\ ac # "freed"
    /\ IF ac = "connected"
       THEN /\ cmd' = [cmd EXCEPT ![c] = "queued"]
            /\ obuf' = Append(obuf, c) /\ replies' = Append(replies, c)
            /\ polls' = [polls EXCEPT !["write"] = Add(@)]
       ELSE /\ cmd' = [cmd EXCEPT ![c] = "refused"]
            /\ UNCHANGED <<obuf, replies, polls>>
    /\ UNCHANGED <<ac, wire, in, up>>

(* The callback of a command keeps the reply and posts a nop; when that    *)
(* completes the caller's token is invoked. *)
Posted(k) == [c \in Commands |-> IF \E i \in 1..k : replies[i] = c THEN "posted" ELSE cmd[c]]
Token(c) ==
    /\ cmd[c] = "posted" /\ cmd' = [cmd EXCEPT ![c] = "done"]
    /\ UNCHANGED <<ac, polls, hiredisVars, up>>

-----------------------------------------------------------------------------
(* External: an error ends the connection of hiredis.  With                *)
(* REDIS_OPT_NOAUTOFREE it keeps its callbacks until it is freed. *)
Disconnect(ps) == ac' = "disconnecting" /\ polls' = Cleanup(ps) /\ UNCHANGED <<hiredisVars, cmd>>

(* External: redisAsyncHandleWrite. *)
HandleWrite(ps) ==
    \/ ~up /\ Disconnect(ps)
    \/ \E k \in 0..Len(obuf) :
         /\ k = 0 => obuf = <<>>
         /\ obuf' = SubSeq(obuf, k + 1, Len(obuf))
         /\ wire' = wire \o SubSeq(obuf, 1, k)
         /\ polls' = [d \in Directions |->
                IF d = "write" /\ obuf' = <<>> THEN Del(ps[d]) ELSE Add(ps[d])]
         /\ UNCHANGED <<ac, cmd, replies, in>>

(* External: redisAsyncHandleRead. *)
HandleRead(ps) ==
    \/ ~up /\ in = 0 /\ Disconnect(ps)
    \/ \E k \in 1..in :
         /\ in' = in - k /\ cmd' = Posted(k)
         /\ replies' = SubSeq(replies, k + 1, Len(replies))
         /\ polls' = [ps EXCEPT !["read"] = Add(@)]
         /\ UNCHANGED <<ac, obuf, wire>>

(* The polls when the one of direction d has come to x. *)
Became(d, signal, x) ==
    [polls EXCEPT ![d] = [signal |-> signal, cancelled |-> polls[d].cancelled, poll |-> x]]

(* The completion handler of a poll: it gives up its signal first, and     *)
(* passes the event on unless it was cancelled.  Its reference is weak.    *)
Completed(d) == polls[d].poll \in {"event", "error"}
Cleared(d) == Became(d, FALSE, "none")
PassOn(d, ps, wanted) ==
    /\ Completed(d)
    /\ IF polls[d].poll = "event" /\ ac # "freed" /\ wanted
       THEN IF d = "write" THEN HandleWrite(ps) ELSE HandleRead(ps)
       ELSE polls' = ps /\ UNCHANGED <<ac, cmd, hiredisVars>>
    /\ UNCHANGED up
Handler_KeepsSignal(d) == PassOn(d, Became(d, polls[d].signal, "none"), ~polls[d].cancelled)
Handler_IgnoresCancel(d) == PassOn(d, Cleared(d), TRUE)
Handler(d) == PassOn(d, Cleared(d), ~polls[d].cancelled)

(* ~connection frees the context: it cleans up and runs the callbacks that *)
(* are left with a null reply. *)
Destroy ==
    /\ ac # "freed" /\ ac' = "freed"
    /\ polls' = Cleanup(polls)
    /\ cmd' = Posted(Len(replies)) /\ replies' = <<>>
    /\ UNCHANGED <<obuf, wire, in, up>>

-----------------------------------------------------------------------------
(* External: the kernel completes a poll, with its event or as cancelled;  *)
(* a cancellation may come too late. *)
Ready(d) == d = "write" \/ in > 0 \/ ~up
Poll(d) ==
    /\ \/ polls[d].poll \in {"armed", "cancelling"} /\ Ready(d)
          /\ polls' = Became(d, polls[d].signal, "event")
       \/ polls[d].poll = "cancelling" /\ polls' = Became(d, polls[d].signal, "error")
    /\ UNCHANGED <<ac, cmd, hiredisVars, up>>

(* External: the server answers in order, or goes away. *)
Reply ==
    /\ up /\ wire # <<>> /\ wire' = Tail(wire) /\ in' = in + 1
    /\ UNCHANGED <<ac, polls, cmd, obuf, replies, up>>
Die == up /\ up' = FALSE /\ UNCHANGED <<ac, polls, cmd, hiredisVars>>

Next ==
    \/ \E c \in Commands : AsyncCommand(c) \/ Token(c)
    \/ \E d \in Directions : Handler(d) \/ Poll(d)
    \/ Destroy \/ Reply \/ Die

(* Completions are delivered, and a server that is there answers. *)
Fairness ==
    /\ \A c \in Commands : WF_vars(Token(c))
    /\ \A d \in Directions : WF_vars(Handler(d)) /\ WF_vars(Poll(d))
    /\ WF_vars(Reply)
Spec == Init /\ [][Next]_vars /\ Fairness

-----------------------------------------------------------------------------
(* A signal is set exactly while its poll is in flight or its completion   *)
(* is on the way, and hiredis never waits for an event nobody polls for:   *)
(* while it is connected and has bytes to write, or callbacks for commands *)
(* it has written, the poll of that direction is there and not cancelled.  *)
InterestKept ==
    /\ \A d \in Directions : polls[d].signal <=> polls[d].poll # "none"
    /\ ac = "connected" /\ obuf # <<>> => polls["write"].signal /\ ~polls["write"].cancelled
    /\ ac = "connected" /\ Len(replies) > Len(obuf) => polls["read"].signal /\ ~polls["read"].cancelled

(* Once hiredis cleaned up, no completion that was already on its way      *)
(* reaches it: nothing of its state changes but by freeing it.             *)
QuietAfterCleanup ==
    [][ac # "connected" /\ ac' = ac => UNCHANGED <<obuf, replies>>]_vars

(* A command that hiredis accepted is answered, exactly if the connection  *)
(* stays up or is destroyed: after an error it waits for ~connection.      *)
CommandsEnd ==
    \A c \in Commands : cmd[c] = "queued" ~> cmd[c] = "done" \/ ac = "disconnecting"
=============================================================================
