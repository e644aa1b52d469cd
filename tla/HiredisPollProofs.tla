-------------------------- MODULE HiredisPollProofs --------------------------
(***************************************************************************)
(* Proofs about HiredisPoll for any set of commands: interest is kept, and *)
(* a connection that was cleaned up is left alone.                         *)
(***************************************************************************)
EXTENDS HiredisPoll, TLAPS

PollStates == {"none", "armed", "cancelling", "event", "error"}
Direction == [signal : BOOLEAN, cancelled : BOOLEAN, poll : PollStates]

(* One direction: a signal is set while its poll is in flight or completed,*)
(* and a poll that fails was cancelled. *)
Sane(p) ==
    /\ p.signal <=> p.poll # "none"
    /\ p.poll \in {"cancelling", "error"} => p.cancelled
SanePolls(ps) == ps \in [Directions -> Direction] /\ \A d \in Directions : Sane(ps[d])

TypeOK ==
    /\ ac \in {"connected", "disconnecting", "freed"}
    /\ SanePolls(polls)
    /\ obuf \in Seq(Commands) /\ replies \in Seq(Commands)

(* Polls are cancelled by cleanup and by nothing else: delWrite is called  *)
(* by a handler that gave up its signal. *)
OnlyCleanupCancels ==
    /\ ac = "connected" => \A d \in Directions : ~polls[d].cancelled
    /\ ac # "connected" => \A d \in Directions : polls[d].signal => polls[d].cancelled

(* While hiredis is connected it has asked for what it waits for. *)
Asked ==
    /\ ac = "connected" /\ obuf # <<>> => polls["write"].signal
    /\ ac = "connected" /\ Len(replies) > Len(obuf) => polls["read"].signal

IInv == TypeOK /\ OnlyCleanupCancels /\ Asked

-----------------------------------------------------------------------------
(* What the callbacks of hiredis do to a direction. *)
LEMMA AddLemma ==
    ASSUME NEW p \in Direction, Sane(p)
    PROVE  /\ Add(p) \in Direction /\ Sane(Add(p)) /\ Add(p).signal
           /\ ~p.cancelled => ~Add(p).cancelled
  BY DEF Direction, PollStates, Sane, Add

LEMMA DelLemma ==
    ASSUME NEW p \in Direction, Sane(p)
    PROVE  /\ Del(p) \in Direction /\ Sane(Del(p))
           /\ Del(p).signal => Del(p).cancelled
           /\ ~p.signal => Del(p) = p
  BY DEF Direction, PollStates, Sane, Del

LEMMA CleanupLemma ==
    ASSUME NEW ps, SanePolls(ps)
    PROVE  /\ SanePolls(Cleanup(ps))
           /\ \A d \in Directions : Cleanup(ps)[d].signal => Cleanup(ps)[d].cancelled
  BY DelLemma DEF SanePolls, Cleanup

(* A handler gives up the signal of its own direction. *)
LEMMA ClearedLemma ==
    ASSUME SanePolls(polls), NEW d \in Directions
    PROVE  /\ SanePolls(Cleared(d)) /\ ~Cleared(d)[d].signal
           /\ \A e \in Directions : Cleared(d)[e].cancelled = polls[e].cancelled
           /\ \A e \in Directions \ {d} : Cleared(d)[e] = polls[e]
  BY DEF SanePolls, Cleared, Became, Direction, PollStates, Sane

-----------------------------------------------------------------------------
LEMMA InitHolds == Init => IInv
  BY DEF Init, IInv, TypeOK, SanePolls, OnlyCleanupCancels, Asked, Idle, Directions,
         Direction, PollStates, Sane

(* A command: one more to write, and the write direction is asked for. *)
LEMMA AsyncCommandStep ==
    ASSUME IInv, NEW c \in Commands, AsyncCommand(c)
    PROVE  IInv'
<1>1. CASE ac = "connected"
  <2>1. /\ polls["write"] \in Direction /\ Sane(polls["write"]) /\ ~polls["write"].cancelled
        /\ polls' = [polls EXCEPT !["write"] = Add(polls["write"])]
    BY <1>1 DEF IInv, TypeOK, SanePolls, OnlyCleanupCancels, Directions, AsyncCommand
  <2>2. /\ Add(polls["write"]) \in Direction /\ Sane(Add(polls["write"]))
        /\ Add(polls["write"]).signal /\ ~Add(polls["write"]).cancelled
    BY <2>1, AddLemma
  <2>3. TypeOK'
    <3>1. SanePolls(polls')
      BY <2>1, <2>2 DEF IInv, TypeOK, SanePolls, Directions
    <3>2. /\ obuf' = Append(obuf, c) /\ replies' = Append(replies, c)
          /\ ac' = ac /\ obuf \in Seq(Commands) /\ replies \in Seq(Commands)
      BY <1>1 DEF AsyncCommand, IInv, TypeOK
    <3> QED  BY <1>1, <3>1, <3>2 DEF TypeOK, SanePolls
  <2>4. OnlyCleanupCancels'
    BY <1>1, <2>1, <2>2 DEF IInv, TypeOK, SanePolls, OnlyCleanupCancels, Directions, AsyncCommand
  <2>5. Asked'
    BY <1>1, <2>1, <2>2 DEF IInv, TypeOK, SanePolls, Asked, Directions, AsyncCommand
  <2> QED  BY <2>3, <2>4, <2>5 DEF IInv
<1>2. CASE ac # "connected"
  BY <1>2 DEF IInv, TypeOK, SanePolls, OnlyCleanupCancels, Asked, AsyncCommand
<1> QED  BY <1>1, <1>2

(* An error ends in cleanup, whatever the polls were. *)
LEMMA DisconnectStep ==
    ASSUME IInv, NEW ps, SanePolls(ps), Disconnect(ps)
    PROVE  IInv'
  BY CleanupLemma DEF IInv, TypeOK, OnlyCleanupCancels, Asked, Disconnect, hiredisVars

(* Writing asks for the answers, and to go on if there is more. *)
LEMMA HandleWriteStep ==
    ASSUME IInv, NEW ps, SanePolls(ps), ac = "connected", ~ps["write"].signal,
           \A d \in Directions : ~ps[d].cancelled, HandleWrite(ps)
    PROVE  IInv'
<1>1. CASE Disconnect(ps)
  BY <1>1, DisconnectStep
<1>2. CASE ~Disconnect(ps)
  <2>1. PICK k \in 0..Len(obuf) :
           /\ obuf' = SubSeq(obuf, k + 1, Len(obuf))
           /\ polls' = [d \in Directions |->
                  IF d = "write" /\ obuf' = <<>> THEN Del(ps[d]) ELSE Add(ps[d])]
           /\ UNCHANGED <<ac, cmd, replies, in>>
    BY <1>2 DEF HandleWrite
  <2>2. \A d \in Directions : ps[d] \in Direction /\ Sane(ps[d])
    BY DEF SanePolls
  <2>3. Del(ps["write"]) = ps["write"]
    BY <2>2, DelLemma DEF Directions
  <2>4. \A d \in Directions : /\ polls'[d] \in Direction /\ Sane(polls'[d])
                              /\ ~polls'[d].cancelled
    BY <2>1, <2>2, <2>3, AddLemma
  <2>5. TypeOK'
    BY <2>1, <2>4 DEF IInv, TypeOK, SanePolls
  <2>6. polls'["read"].signal /\ (obuf' # <<>> => polls'["write"].signal)
    BY <2>1, <2>2, AddLemma DEF Directions
  <2> QED  BY <2>1, <2>4, <2>5, <2>6 DEF IInv, OnlyCleanupCancels, Asked
<1> QED  BY <1>1, <1>2

(* Reading asks to go on reading, and leaves the other direction alone.    *)
LEMMA HandleReadStep ==
    ASSUME IInv, NEW ps, SanePolls(ps), ac = "connected", ps["write"] = polls["write"],
           \A d \in Directions : ~ps[d].cancelled, HandleRead(ps)
    PROVE  IInv'
<1>1. CASE Disconnect(ps)
  BY <1>1, DisconnectStep
<1>2. CASE ~Disconnect(ps)
  <2>1. PICK k \in 1..in :
           /\ replies' = SubSeq(replies, k + 1, Len(replies))
           /\ polls' = [ps EXCEPT !["read"] = Add(ps["read"])]
           /\ UNCHANGED <<ac, obuf, wire>>
    BY <1>2 DEF HandleRead
  <2>2. ps["read"] \in Direction /\ Sane(ps["read"]) /\ ~ps["read"].cancelled
    BY DEF SanePolls, Directions
  <2>3. /\ Add(ps["read"]) \in Direction /\ Sane(Add(ps["read"]))
        /\ Add(ps["read"]).signal /\ ~Add(ps["read"]).cancelled
    BY <2>2, AddLemma
  <2>4. TypeOK'
    BY <2>1, <2>3 DEF IInv, TypeOK, SanePolls, Directions
  <2>5. OnlyCleanupCancels' /\ Asked'
    BY <2>1, <2>3 DEF IInv, OnlyCleanupCancels, Asked, SanePolls, Directions
  <2> QED  BY <2>4, <2>5 DEF IInv
<1> QED  BY <1>1, <1>2

(* An event that is not passed on belongs to a connection that was cleaned *)
(* up, so giving up its signal loses nothing. *)
LEMMA HandlerStep ==
    ASSUME IInv, NEW d \in Directions, Handler(d)
    PROVE  IInv'
<1>1. SanePolls(polls) /\ Completed(d)
  BY DEF IInv, TypeOK, Handler, PassOn
<1>2. /\ SanePolls(Cleared(d)) /\ ~Cleared(d)[d].signal
      /\ \A e \in Directions : Cleared(d)[e].cancelled = polls[e].cancelled
      /\ \A e \in Directions \ {d} : Cleared(d)[e] = polls[e]
  BY <1>1, ClearedLemma
<1>3. CASE ac = "connected"
  <2>1. \A e \in Directions : ~polls[e].cancelled
    BY <1>3 DEF IInv, OnlyCleanupCancels
  <2>2. polls[d].poll = "event"
    BY <1>1, <2>1 DEF Completed, SanePolls, Sane
  <2>3. IF d = "write" THEN HandleWrite(Cleared(d)) ELSE HandleRead(Cleared(d))
    BY <1>3, <2>1, <2>2 DEF Handler, PassOn
  <2>4. CASE d = "write"
    BY <1>2, <1>3, <2>1, <2>3, <2>4, HandleWriteStep
  <2>5. CASE d = "read"
    BY <1>2, <1>3, <2>1, <2>3, <2>5, HandleReadStep DEF Directions
  <2> QED  BY <2>4, <2>5 DEF Directions
<1>4. CASE ac # "connected"
  <2>1. polls[d].cancelled
    BY <1>1, <1>4 DEF IInv, OnlyCleanupCancels, Completed, SanePolls, Sane
  <2>2. polls' = Cleared(d) /\ UNCHANGED <<ac, obuf, replies>>
    BY <2>1 DEF Handler, PassOn, hiredisVars
  <2>3. \A e \in Directions : polls'[e].signal => polls'[e].cancelled
    BY <1>2, <1>4, <2>2 DEF IInv, OnlyCleanupCancels
  <2> QED  BY <1>2, <1>4, <2>2, <2>3 DEF IInv, TypeOK, OnlyCleanupCancels, Asked
<1> QED  BY <1>3, <1>4

LEMMA DestroyStep == ASSUME IInv, Destroy PROVE IInv'
  BY CleanupLemma DEF IInv, TypeOK, OnlyCleanupCancels, Asked, Destroy

(* The kernel moves a poll on; its signal and its flag stay. *)
LEMMA PollStep ==
    ASSUME IInv, NEW d \in Directions, Poll(d)
    PROVE  IInv'
<1>1. PICK x \in {"event", "error"} :
         /\ polls' = Became(d, polls[d].signal, x)
         /\ polls[d].poll \in {"armed", "cancelling"}
         /\ x = "error" => polls[d].poll = "cancelling"
         /\ UNCHANGED <<ac, cmd, hiredisVars, up>>
  BY DEF Poll
<1>2. polls[d] \in Direction /\ Sane(polls[d])
  BY DEF IInv, TypeOK, SanePolls
<1>3. /\ polls'[d] \in Direction /\ Sane(polls'[d])
      /\ polls'[d].signal = polls[d].signal /\ polls'[d].cancelled = polls[d].cancelled
  BY <1>1, <1>2 DEF Became, IInv, TypeOK, SanePolls, Direction, PollStates, Sane
<1>4. \A e \in Directions \ {d} : polls'[e] = polls[e]
  BY <1>1 DEF Became, IInv, TypeOK, SanePolls
<1>5. polls' \in [Directions -> Direction]
  BY <1>1, <1>2, <1>3 DEF Became, IInv, TypeOK, SanePolls
<1>6. TypeOK'
  BY <1>1, <1>3, <1>4, <1>5 DEF IInv, TypeOK, SanePolls, hiredisVars
<1>7. OnlyCleanupCancels' /\ Asked'
  BY <1>1, <1>3, <1>4 DEF IInv, OnlyCleanupCancels, Asked, hiredisVars, Directions
<1> QED  BY <1>6, <1>7 DEF IInv

LEMMA StepHolds == IInv /\ [Next]_vars => IInv'
<1> SUFFICES ASSUME IInv, [Next]_vars PROVE IInv'
  OBVIOUS
<1>1. CASE \E c \in Commands : AsyncCommand(c)
  BY <1>1, AsyncCommandStep
<1>2. CASE \E c \in Commands : Token(c)
  BY <1>2 DEF IInv, TypeOK, SanePolls, OnlyCleanupCancels, Asked, Token, hiredisVars
<1>3. CASE \E d \in Directions : Handler(d)
  BY <1>3, HandlerStep
<1>4. CASE \E d \in Directions : Poll(d)
  BY <1>4, PollStep
<1>5. CASE Destroy
  BY <1>5, DestroyStep
<1>6. CASE Reply \/ Die \/ UNCHANGED vars
  BY <1>6 DEF IInv, TypeOK, SanePolls, OnlyCleanupCancels, Asked, Reply, Die, vars, hiredisVars
<1> QED  BY <1>1, <1>2, <1>3, <1>4, <1>5, <1>6 DEF Next

(* The adapter's polls always cover what hiredis waits for: connection.hpp *)
(* cancels a poll only in cleanup, so no re-arm is lost to a cancellation  *)
(* that is still on its way. *)
THEOREM InterestAlwaysKept == Spec => []InterestKept
<1>1. IInv => InterestKept
  BY DEF IInv, TypeOK, SanePolls, Sane, OnlyCleanupCancels, Asked, InterestKept, Directions
<1> QED  BY <1>1, InitHolds, StepHolds, PTL DEF Spec

(* After cleanup no completion reaches hiredis: each poll that is still in *)
(* flight carries its flag, and the handlers in connection.hpp look at it. *)
THEOREM AlwaysQuietAfterCleanup == Spec => QuietAfterCleanup
<1>1. IInv /\ [Next]_vars => [ac # "connected" /\ ac' = ac => UNCHANGED <<obuf, replies>>]_vars
  <2> SUFFICES ASSUME IInv, Next, ac # "connected", ac' = ac
               PROVE  UNCHANGED <<obuf, replies>>
    BY DEF vars
  <2>1. ASSUME NEW d \in Directions, Handler(d)
        PROVE  UNCHANGED <<obuf, replies>>
    <3>1. polls[d].cancelled
      BY <2>1 DEF IInv, TypeOK, SanePolls, Sane, OnlyCleanupCancels, Handler, PassOn, Completed
    <3> QED  BY <2>1, <3>1 DEF Handler, PassOn, hiredisVars
  <2> QED  BY <2>1 DEF Next, AsyncCommand, Token, Poll, Destroy, Reply, Die, hiredisVars
<1> QED  BY <1>1, InitHolds, StepHolds, PTL DEF Spec, QuietAfterCleanup
=============================================================================
