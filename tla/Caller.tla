------------------------------- MODULE Caller -------------------------------
(***************************************************************************)
(* The shared-inbox reply router of sdk/caller.go.                         *)
(*                                                                         *)
(* Goroutines of the model, each with its own program counter:             *)
(*   pc[c]     the goroutine that runs Caller.Call for call c              *)
(*   drain[c]  the goroutine that feeds chunks of c to the user's callback *)
(*   grace[c]  the timers armed by finalizeAfterStreamGrace                *)
(*   inbox     the one goroutine that runs onInbox for EVERY call          *)
(*   failure   the one goroutine that runs onFailure for every call        *)
(*   closer    a goroutine that runs CloseContext                          *)
(*                                                                         *)
(* Locks.  sendMu of a call is held from one step to the next only by      *)
(* enqueue (SendMuHeld), closeMu only by CloseContext (CloseMuHeld).       *)
(* doneOnce of a call is free while verdict[c] = NoVerdict, running while  *)
(* the winner still has to take sendMu, and done once finalized[c].        *)
(* A goroutine that calls finalize stays where it is until doneOnce is     *)
(* done, whoever won it: that is what sync.Once guarantees.                *)
(***************************************************************************)
EXTENDS Naturals, Sequences, FiniteSets

CONSTANTS
  Calls,         \* correlation IDs
  ModesOf,       \* how each call may be made: "unary", or a buffer policy
  ReplyKinds,    \* what replies carry: a bare payload or an envelope
  Deadlines,     \* the calls whose context ends by itself
  Fallible,      \* the calls whose handler may exhaust its retries
  Closing,       \* whether anybody closes the Caller
  NoCancelSignal,\* the calls made with CallerConfig.NoCancelSignal
  BufferSize,    \* capacity of a stream channel
  MaxChunks,     \* bound: chunks published to each call
  MaxTerminals   \* bound: done=true replies published to each call

Policies == {"block", "dropNewest", "dropOldest", "error"}

ASSUME CallerAssumption ==
  /\ Calls \cap {"none", "idle", "stopped"} = {}
  /\ ModesOf \in [Calls -> SUBSET (Policies \cup {"unary"})]
  /\ ReplyKinds \subseteq {"plain", "okEnv", "errEnv"}
  /\ Deadlines \subseteq Calls
  /\ Fallible \subseteq Calls
  /\ NoCancelSignal \subseteq Calls
  /\ Closing \in BOOLEAN
  /\ BufferSize \in Nat \ {0}
  /\ MaxChunks \in [Calls -> Nat]
  /\ MaxTerminals \in [Calls -> Nat]

(* What finalize may be called with; `seq` of a reply is the number of     *)
(* chunks its responder had published before it.                           *)
FailureKinds == {"publishErr", "ctxErr", "handlerFailed", "overflow",
                 "chunkErr", "callerClosed"}
Results   == [kind : ReplyKinds \cup FailureKinds \cup {"none"}, seq : Nat]
Err(k)    == [kind |-> k, seq |-> 0]
NoVerdict == Err("none")

Messages == [call : Calls, kind : ReplyKinds \cup {"chunk"}, seq : Nat]

Outcomes == {"ok", "remoteErr", "decodeErr", "ctxErr", "publishErr",
             "handlerFailed", "overflow", "chunkErr", "callerClosed"}

VARIABLES
  mode,       \* cfg.StreamHandler and cfg.BufferPolicy of each call
  ctx,        \* each call's context
  pc,         \* where each Call goroutine is
  ret,        \* what each Call returned
  pending,    \* Caller.pending: the calls a reply can still find
  verdict,    \* the result doneOnce was won with
  finalized,  \* pendingCall.finalized: stream closed and result in done
  envelope,   \* pendingCall.envelope
  stream,     \* the buffered chunks of each call
  drain,      \* where each drain goroutine is
  handled,    \* history: the chunks each callback was called with
  failed,     \* history: the calls whose callback returned an error
  grace,      \* replies waiting for their stream-grace timer
  inboxAt,    \* where the inbox goroutine is
  inboxMsg,   \* the message it handles
  inboxQ,     \* messages on the inbox topic, not yet received
  failure,    \* the call the onFailure goroutine finalizes, or "idle"
  exhausted,  \* the bus.handler.exhausted event of each call
  chunks,     \* how many chunks were published to each call
  replies,    \* how many done=true replies were published to each call
  notices,    \* calls for which a CancelNotice was published
  closed,     \* Caller.closed
  closeAt,    \* where the CloseContext goroutine is
  closeTodo,  \* the pending calls its Range has not visited
  closeCall   \* the call it finalizes

callVars   == <<mode, ctx, pc, ret>>
onceVars   == <<verdict, finalized>>
streamVars == <<stream, drain, handled, failed>>
inboxVars  == <<inboxAt, inboxMsg>>
busVars    == <<inboxQ, exhausted, chunks, replies, notices>>
closeVars  == <<closed, closeAt, closeTodo, closeCall>>

vars == <<callVars, pending, onceVars, envelope, streamVars, grace, inboxVars,
          busVars, failure, closeVars>>

-----------------------------------------------------------------------------
Streaming(c) == mode[c] \in Policies

(* Mutant: enqueue sends without taking sendMu. *)
SendMuNotTaken(c) == FALSE

(* Whoever runs enqueue holds sendMu of its call between two steps. *)
SendMuHeld(c) == /\ inboxAt \in {"send", "evict", "overflow"}
                 /\ inboxMsg.call = c

CloseMuHeld == closeAt \in {"range", "finalize"}

(* doneOnce was won with the payload of a reply. *)
Replied(c) == verdict[c].kind \in ReplyKinds

(* doneOnce.Do as seen by a caller of finalize that finds it free. *)
WinOnce(c, r) == /\ verdict[c] = NoVerdict
                 /\ verdict' = [verdict EXCEPT ![c] = r]

(* The body of finalize: under sendMu, close the stream; then send the     *)
(* result on done, whose capacity is 1.                                    *)
Finalize(c) ==
  /\ verdict[c] # NoVerdict
  /\ ~finalized[c]
  /\ ~SendMuHeld(c)
  /\ finalized' = [finalized EXCEPT ![c] = TRUE]
  /\ UNCHANGED <<callVars, pending, verdict, envelope, streamVars, grace,
                 inboxVars, busVars, failure, closeVars>>

-----------------------------------------------------------------------------
(* The Call goroutine.                                                     *)

(* Mutant: Call locks closeMu but does not look at closed. *)
AcceptingAlways == ~CloseMuHeld

(* Call takes closeMu and finds the Caller open. *)
Accepting == ~CloseMuHeld /\ ~closed

(* Registration, under closeMu: the call gets its drain goroutine and      *)
(* becomes visible to the inbox.                                           *)
Start(c) ==
  /\ pc[c] = "idle"
  /\ Accepting
  /\ \E m \in ModesOf[c] :
       /\ mode' = [mode EXCEPT ![c] = m]
       /\ drain' = [drain EXCEPT ![c] =
                      IF m \in Policies THEN "recv" ELSE "none"]
  /\ pc' = [pc EXCEPT ![c] = "publish"]
  /\ pending' = pending \cup {c}
  /\ UNCHANGED <<ctx, ret, onceVars, envelope, stream, handled, failed, grace,
                 inboxVars, busVars, failure, closeVars>>

(* A Caller that was closed refuses the call.                              *)
Refuse(c) ==
  /\ pc[c] = "idle"
  /\ ~CloseMuHeld
  /\ closed
  /\ pc' = [pc EXCEPT ![c] = "refused"]
  /\ ret' = [ret EXCEPT ![c] = "callerClosed"]
  /\ UNCHANGED <<mode, ctx, pending, onceVars, envelope, streamVars, grace,
                 inboxVars, busVars, failure, closeVars>>

(* PublishRaw or PublishRawTo returns, with or without an error.           *)
Publish(c) ==
  /\ pc[c] = "publish"
  /\ \E next \in {"wait", "unsent"} : pc' = [pc EXCEPT ![c] = next]
  /\ UNCHANGED <<mode, ctx, ret, pending, onceVars, envelope, streamVars,
                 grace, inboxVars, busVars, failure, closeVars>>

(* Mutant: Call does not wait for drainDone before it returns the reply. *)
SelectDoneUnflushed(c) ==
  /\ pc[c] = "wait"
  /\ finalized[c]
  /\ pc' = [pc EXCEPT ![c] = "return"]
  /\ UNCHANGED <<mode, ctx, ret, pending, onceVars, envelope, streamVars,
                 grace, inboxVars, busVars, failure, closeVars>>

(* The select picks p.done: an error result returns at once, a reply to a  *)
(* streaming call first waits for the drain goroutine.                     *)
SelectDone(c) ==
  /\ pc[c] = "wait"
  /\ finalized[c]
  /\ pc' = [pc EXCEPT ![c] =
              IF Replied(c) /\ Streaming(c) THEN "flush"
                                                        ELSE "return"]
  /\ UNCHANGED <<mode, ctx, ret, pending, onceVars, envelope, streamVars,
                 grace, inboxVars, busVars, failure, closeVars>>

(* The select picks ctx.Done(), even when a result is ready as well.       *)
SelectCtx(c) ==
  /\ pc[c] = "wait"
  /\ ctx[c] = "ended"
  /\ pc' = [pc EXCEPT ![c] = "giveUp"]
  /\ notices' = IF c \in NoCancelSignal THEN notices ELSE notices \cup {c}
  /\ UNCHANGED <<mode, ctx, ret, pending, onceVars, envelope, streamVars,
                 grace, inboxVars, inboxQ, exhausted, chunks, replies, failure,
                 closeVars>>

(* Mutant: Call returns on an ended context without calling finalize. *)
CallWinsOnceUnsent(c) ==
  /\ pc[c] = "unsent" /\ WinOnce(c, Err("publishErr"))
  /\ UNCHANGED <<callVars, pending, finalized, envelope, streamVars, grace,
                 inboxVars, busVars, failure, closeVars>>

(* finalize on the two early exits: a failed publish, an ended context.    *)
CallWinsOnce(c) ==
  /\ \/ pc[c] = "unsent" /\ WinOnce(c, Err("publishErr"))
     \/ pc[c] = "giveUp" /\ WinOnce(c, Err("ctxErr"))
  /\ UNCHANGED <<callVars, pending, finalized, envelope, streamVars, grace,
                 inboxVars, busVars, failure, closeVars>>

(* Mutant: Call does not decode the reply. *)
DecodeNothing(c) == verdict[c].kind

(* What Call makes of the result it received.                              *)
Decode(c) ==
  LET k == verdict[c].kind
  IN CASE k = "plain"  -> IF envelope[c] THEN "decodeErr" ELSE "ok"
       [] k = "okEnv"  -> "ok"
       [] k = "errEnv" -> IF envelope[c] THEN "remoteErr" ELSE "ok"
       [] OTHER        -> k

(* Call returns and its deferred function forgets the call.                *)
Return(c) ==
  /\ \/ pc[c] = "return" /\ ret' = [ret EXCEPT ![c] = Decode(c)]
     \/ /\ pc[c] = "flush"
        /\ drain[c] = "exited"
        /\ ret' = [ret EXCEPT ![c] = Decode(c)]
     \/ /\ pc[c] = "unsent"
        /\ finalized[c]
        /\ drain[c] \in {"none", "exited"}
        /\ ret' = [ret EXCEPT ![c] = "publishErr"]
     \/ /\ pc[c] = "giveUp"
        /\ finalized[c]
        /\ ret' = [ret EXCEPT ![c] = "ctxErr"]
  /\ pc' = [pc EXCEPT ![c] = "returned"]
  /\ pending' = pending \ {c}
  /\ UNCHANGED <<mode, ctx, onceVars, envelope, streamVars, grace, inboxVars,
                 busVars, failure, closeVars>>

(* The context of a call ends: its deadline passes, or its owner cancels.  *)
CtxDone(c) ==
  /\ c \in Deadlines
  /\ pc[c] \notin {"idle", "refused", "returned"}
  /\ ctx[c] = "live"
  /\ ctx' = [ctx EXCEPT ![c] = "ended"]
  /\ UNCHANGED <<mode, pc, ret, pending, onceVars, envelope, streamVars,
                 grace, inboxVars, busVars, failure, closeVars>>

-----------------------------------------------------------------------------
(* Responders.  Once a request may be on the bus its handler can publish   *)
(* chunks and done=true replies in any order and number, and the engine    *)
(* can report that the handler's retries are exhausted.  What is published *)
(* after Call has returned finds no pending call and is left out.          *)
Requested(c) == pc[c] \notin {"idle", "refused", "returned"}

SendChunk(c) ==
  /\ Requested(c)
  /\ chunks[c] < MaxChunks[c]
  /\ chunks' = [chunks EXCEPT ![c] = @ + 1]
  /\ inboxQ' = Append(inboxQ, [call |-> c, kind |-> "chunk",
                               seq |-> chunks[c] + 1])
  /\ UNCHANGED <<callVars, pending, onceVars, envelope, streamVars, grace,
                 inboxVars, exhausted, replies, notices, failure, closeVars>>

SendReply(c) ==
  /\ Requested(c)
  /\ replies[c] < MaxTerminals[c]
  /\ replies' = [replies EXCEPT ![c] = @ + 1]
  /\ \E k \in ReplyKinds :
       inboxQ' = Append(inboxQ, [call |-> c, kind |-> k, seq |-> chunks[c]])
  /\ UNCHANGED <<callVars, pending, onceVars, envelope, streamVars, grace,
                 inboxVars, exhausted, chunks, notices, failure, closeVars>>

Exhaust(c) ==
  /\ Requested(c)
  /\ c \in Fallible
  /\ exhausted[c] = "no"
  /\ exhausted' = [exhausted EXCEPT ![c] = "published"]
  /\ UNCHANGED <<callVars, pending, onceVars, envelope, streamVars, grace,
                 inboxVars, inboxQ, chunks, replies, notices, failure,
                 closeVars>>

-----------------------------------------------------------------------------
(* The inbox goroutine: onInbox, one message at a time for all calls.      *)

NoMessage == [call |-> "none", kind |-> "none", seq |-> 0]

(* The handler returns; or it goes on with its message. *)
InboxIdle   == inboxAt' = "idle" /\ inboxMsg' = NoMessage
InboxAt(at) == inboxAt' = at /\ UNCHANGED inboxMsg

(* Where a message of a pending call takes the goroutine: chunks go to     *)
(* enqueue, replies to finalize; chunks nobody streams are dropped, and the *)
(* reply to a streaming call only arms the grace timer.                    *)
Route(m) ==
  IF m.kind = "chunk" THEN IF Streaming(m.call) THEN "lock" ELSE "idle"
                      ELSE IF Streaming(m.call) THEN "idle" ELSE "finalize"

(* onInbox up to enqueue or finalize: pending.Load, and what is not        *)
(* pending is dropped.                                                     *)
OnInbox ==
  /\ inboxAt = "idle"
  /\ inboxQ # <<>>
  /\ inboxQ' = Tail(inboxQ)
  /\ LET m == Head(inboxQ)
         to == IF m.call \in pending THEN Route(m) ELSE "idle"
     IN /\ inboxAt' = to
        /\ inboxMsg' = IF to = "idle" THEN NoMessage ELSE m
        /\ IF m.kind # "chunk" /\ m.call \in pending
           THEN /\ envelope' = [envelope EXCEPT ![m.call] =
                                  @ \/ m.kind \in {"okEnv", "errEnv"}]
                /\ grace' = [grace EXCEPT ![m.call] =
                       IF Streaming(m.call)
                       THEN @ \cup {[kind |-> m.kind, seq |-> m.seq]} ELSE @]
           ELSE UNCHANGED <<envelope, grace>>
  /\ UNCHANGED <<callVars, pending, onceVars, streamVars, exhausted, chunks,
                 replies, notices, failure, closeVars>>

(* finalize of a unary call's reply by the inbox goroutine.                *)
InboxFinalize ==
  /\ inboxAt = "finalize"
  /\ \/ /\ WinOnce(inboxMsg.call, [kind |-> inboxMsg.kind,
                                    seq |-> inboxMsg.seq])
        /\ UNCHANGED inboxVars
     \/ /\ finalized[inboxMsg.call]
        /\ InboxIdle
        /\ UNCHANGED verdict
  /\ UNCHANGED <<callVars, pending, finalized, envelope, streamVars, grace,
                 busVars, failure, closeVars>>

(* enqueue: lock sendMu and drop the chunk of a finalized call.            *)
EnqueueLock ==
  /\ inboxAt = "lock"
  /\ IF finalized[inboxMsg.call] THEN InboxIdle ELSE InboxAt("send")
  /\ UNCHANGED <<callVars, pending, onceVars, envelope, streamVars, grace,
                 busVars, failure, closeVars>>

(* Mutant: the loop of BufferDropOldest goes on after a successful send. *)
EnqueueSendAgain ==
  /\ inboxAt = "send"
  /\ LET c == inboxMsg.call
     IN /\ Len(stream[c]) < BufferSize
        /\ stream' = [stream EXCEPT ![c] = Append(@, inboxMsg.seq)]
        /\ IF mode[c] = "dropOldest" THEN UNCHANGED inboxVars ELSE InboxIdle
  /\ UNCHANGED <<callVars, pending, onceVars, envelope, drain, handled,
                 failed, grace, busVars, failure, closeVars>>

(* The send of each policy's select succeeds: there is room.               *)
EnqueueSend ==
  /\ inboxAt = "send"
  /\ LET c == inboxMsg.call
     IN /\ Len(stream[c]) < BufferSize
        /\ stream' = [stream EXCEPT ![c] = Append(@, inboxMsg.seq)]
  /\ InboxIdle
  /\ UNCHANGED <<callVars, pending, onceVars, envelope, drain, handled,
                 failed, grace, busVars, failure, closeVars>>

(* Mutant: BufferBlock has no case for the end of the context. *)
EnqueueDropIgnoringCtx ==
  /\ inboxAt = "send"
  /\ LET c == inboxMsg.call
     IN mode[c] = "dropNewest" /\ Len(stream[c]) = BufferSize
  /\ InboxIdle
  /\ UNCHANGED <<callVars, pending, onceVars, envelope, streamVars, grace,
                 busVars, failure, closeVars>>

(* Mutant: BufferBlock has a default case, like BufferDropNewest. *)
EnqueueDropWhenFull ==
  /\ inboxAt = "send"
  /\ LET c == inboxMsg.call
     IN mode[c] \in {"block", "dropNewest"} /\ Len(stream[c]) = BufferSize
  /\ InboxIdle
  /\ UNCHANGED <<callVars, pending, onceVars, envelope, streamVars, grace,
                 busVars, failure, closeVars>>

(* The chunk is dropped: BufferBlock when the context ends, also when      *)
(* there is room; BufferDropNewest when the stream is full.                *)
EnqueueDrop ==
  /\ inboxAt = "send"
  /\ LET c == inboxMsg.call
     IN \/ mode[c] = "block" /\ ctx[c] = "ended"
        \/ mode[c] = "dropNewest" /\ Len(stream[c]) = BufferSize
  /\ InboxIdle
  /\ UNCHANGED <<callVars, pending, onceVars, envelope, streamVars, grace,
                 busVars, failure, closeVars>>

(* BufferDropOldest and BufferError find the stream full.                  *)
EnqueueFull ==
  /\ inboxAt = "send"
  /\ LET c == inboxMsg.call
     IN /\ Len(stream[c]) = BufferSize
        /\ \/ mode[c] = "dropOldest" /\ InboxAt("evict")
           \/ mode[c] = "error" /\ InboxAt("overflow")
  /\ UNCHANGED <<callVars, pending, onceVars, envelope, streamVars, grace,
                 busVars, failure, closeVars>>

(* BufferDropOldest evicts what is the oldest chunk by now, if any, and    *)
(* tries again.                                                            *)
EnqueueEvict ==
  /\ inboxAt = "evict"
  /\ LET c == inboxMsg.call
     IN stream' = [stream EXCEPT ![c] = IF @ = <<>> THEN @ ELSE Tail(@)]
  /\ InboxAt("send")
  /\ UNCHANGED <<callVars, pending, onceVars, envelope, drain, handled,
                 failed, grace, busVars, failure, closeVars>>

(* BufferError: finalizeLocked, that is doneOnce.Do while sendMu is held.  *)
(* When another goroutine is inside doneOnce this waits for it.            *)
FinalizeLocked ==
  /\ inboxAt = "overflow"
  /\ LET c == inboxMsg.call
     IN \/ /\ WinOnce(c, Err("overflow"))
           /\ finalized' = [finalized EXCEPT ![c] = TRUE]
        \/ /\ finalized[c]
           /\ UNCHANGED onceVars
  /\ InboxIdle
  /\ UNCHANGED <<callVars, pending, envelope, streamVars, grace, busVars,
                 failure, closeVars>>

(* Close cancelled the subscription and the loop noticed.                  *)
InboxStop ==
  /\ closed
  /\ inboxAt = "idle"
  /\ InboxAt("stopped")
  /\ UNCHANGED <<callVars, pending, onceVars, envelope, streamVars, grace,
                 busVars, failure, closeVars>>

-----------------------------------------------------------------------------
(* The grace goroutine of a reply: its timer fires or the context ends,    *)
(* and it calls finalize.                                                  *)
GraceFinalize(c) ==
  /\ \E r \in grace[c] :
       /\ grace' = [grace EXCEPT ![c] = @ \ {r}]
       /\ \/ WinOnce(c, r)
          \/ finalized[c] /\ UNCHANGED verdict
  /\ UNCHANGED <<callVars, pending, finalized, envelope, streamVars, inboxVars,
                 busVars, failure, closeVars>>

-----------------------------------------------------------------------------
(* The drain goroutine of a call.                                          *)

(* It receives a chunk and enters the callback, or sees the stream closed  *)
(* and empty and exits, which closes drainDone.                            *)
DrainRecv(c) ==
  /\ drain[c] = "recv"
  /\ \/ /\ stream[c] # <<>>
        /\ handled' = [handled EXCEPT ![c] = Append(@, Head(stream[c]))]
        /\ stream' = [stream EXCEPT ![c] = Tail(@)]
        /\ drain' = [drain EXCEPT ![c] = "handle"]
     \/ /\ stream[c] = <<>>
        /\ finalized[c]
        /\ drain' = [drain EXCEPT ![c] = "exited"]
        /\ UNCHANGED <<stream, handled>>
  /\ UNCHANGED <<callVars, pending, onceVars, envelope, failed, grace, inboxVars,
                 busVars, failure, closeVars>>

(* The callback returns, with or without an error.                         *)
DrainHandled(c) ==
  /\ drain[c] = "handle"
  /\ \/ /\ drain' = [drain EXCEPT ![c] = "recv"]
        /\ UNCHANGED failed
     \/ /\ drain' = [drain EXCEPT ![c] = "abort"]
        /\ failed' = failed \cup {c}
  /\ UNCHANGED <<callVars, pending, onceVars, envelope, stream, handled,
                 grace, inboxVars, busVars, failure, closeVars>>

(* After an error: finalize, then discard the rest and exit.               *)
DrainAbort(c) ==
  /\ drain[c] = "abort"
  /\ \/ /\ WinOnce(c, Err("chunkErr"))
        /\ UNCHANGED <<stream, drain>>
     \/ /\ finalized[c]
        /\ stream' = [stream EXCEPT ![c] = <<>>]
        /\ drain' = [drain EXCEPT ![c] = "exited"]
        /\ UNCHANGED verdict
  /\ UNCHANGED <<callVars, pending, finalized, envelope, handled, failed,
                 grace, inboxVars, busVars, failure, closeVars>>

-----------------------------------------------------------------------------
(* The failure goroutine: onFailure.                                       *)

(* pending.LoadAndDelete.                                                  *)
OnFailure(c) ==
  /\ failure = "idle"
  /\ exhausted[c] = "published"
  /\ exhausted' = [exhausted EXCEPT ![c] = "received"]
  /\ failure' = IF c \in pending THEN c ELSE failure
  /\ pending' = pending \ {c}
  /\ UNCHANGED <<callVars, onceVars, envelope, streamVars, grace, inboxVars,
                 inboxQ, chunks, replies, notices, closeVars>>

FailureFinalize ==
  /\ failure \in Calls
  /\ \/ WinOnce(failure, Err("handlerFailed")) /\ UNCHANGED failure
     \/ finalized[failure] /\ failure' = "idle" /\ UNCHANGED verdict
  /\ UNCHANGED <<callVars, pending, finalized, envelope, streamVars, grace,
                 inboxVars, busVars, closeVars>>

FailureStop ==
  /\ closed
  /\ failure = "idle"
  /\ failure' = "stopped"
  /\ UNCHANGED <<callVars, pending, onceVars, envelope, streamVars, grace,
                 inboxVars, busVars, closeVars>>

-----------------------------------------------------------------------------
(* CloseContext.                                                           *)

CloseAt(at, todo, call) ==
  closeAt' = at /\ closeTodo' = todo /\ closeCall' = call

(* Lock closeMu, set closed, unsubscribe, start the Range.  A Close that   *)
(* has returned may be called again.                                       *)
CloseBegin ==
  /\ Closing
  /\ closeAt \in {"idle", "ok", "timedOut"}
  /\ closed' = TRUE
  /\ CloseAt("range", pending, "none")
  /\ UNCHANGED <<callVars, pending, onceVars, envelope, streamVars, grace,
                 inboxVars, busVars, failure>>

(* Range visits a call that is still pending.                              *)
CloseRange ==
  /\ closeAt = "range"
  /\ \E c \in closeTodo \cap pending :
       CloseAt("finalize", closeTodo \ {c}, c)
  /\ UNCHANGED <<callVars, pending, onceVars, envelope, streamVars, grace,
                 inboxVars, busVars, failure, closed>>

CloseFinalize ==
  /\ closeAt = "finalize"
  /\ \/ /\ WinOnce(closeCall, Err("callerClosed"))
        /\ UNCHANGED <<closeAt, closeTodo, closeCall>>
     \/ /\ finalized[closeCall]
        /\ CloseAt("range", closeTodo, "none")
        /\ UNCHANGED verdict
  /\ UNCHANGED <<callVars, pending, finalized, envelope, streamVars, grace,
                 inboxVars, busVars, failure, closed>>

(* Mutant: the function given to Range stops it after one call. *)
CloseUnlockEarly ==
  /\ closeAt = "range"
  /\ CloseAt("join", {}, "none")
  /\ UNCHANGED <<callVars, pending, onceVars, envelope, streamVars, grace,
                 inboxVars, busVars, failure, closed>>

(* Range is over: unlock closeMu and wait for the drain goroutines.        *)
CloseUnlock ==
  /\ closeAt = "range"
  /\ closeTodo \cap pending = {}
  /\ CloseAt("join", {}, "none")
  /\ UNCHANGED <<callVars, pending, onceVars, envelope, streamVars, grace,
                 inboxVars, busVars, failure, closed>>

Drained == \A c \in Calls : drain[c] \in {"none", "exited"}

(* waitCallerGroup: the group is done, or the closing context is.          *)
CloseReturn ==
  /\ closeAt = "join"
  /\ \/ Drained /\ CloseAt("ok", {}, "none")
     \/ CloseAt("timedOut", {}, "none")
  /\ UNCHANGED <<callVars, pending, onceVars, envelope, streamVars, grace,
                 inboxVars, busVars, failure, closed>>

-----------------------------------------------------------------------------
Init ==
  /\ mode = [c \in Calls |-> "unary"]
  /\ ctx = [c \in Calls |-> "live"]
  /\ pc = [c \in Calls |-> "idle"]
  /\ ret = [c \in Calls |-> "none"]
  /\ pending = {}
  /\ verdict = [c \in Calls |-> NoVerdict]
  /\ finalized = [c \in Calls |-> FALSE]
  /\ envelope = [c \in Calls |-> FALSE]
  /\ stream = [c \in Calls |-> <<>>]
  /\ drain = [c \in Calls |-> "none"]
  /\ handled = [c \in Calls |-> <<>>]
  /\ failed = {}
  /\ grace = [c \in Calls |-> {}]
  /\ inboxAt = "idle"
  /\ inboxMsg = NoMessage
  /\ inboxQ = <<>>
  /\ failure = "idle"
  /\ exhausted = [c \in Calls |-> "no"]
  /\ chunks = [c \in Calls |-> 0]
  /\ replies = [c \in Calls |-> 0]
  /\ notices = {}
  /\ closed = FALSE
  /\ closeAt = "idle"
  /\ closeTodo = {}
  /\ closeCall = "none"

CallStep(c) ==
  \/ Start(c) \/ Refuse(c) \/ Publish(c) \/ SelectDone(c) \/ SelectCtx(c)
  \/ CallWinsOnce(c) \/ Return(c)

DrainStep(c) == DrainRecv(c) \/ DrainHandled(c) \/ DrainAbort(c)

ResponderStep(c) == SendChunk(c) \/ SendReply(c) \/ Exhaust(c)

InboxStep ==
  \/ OnInbox \/ InboxFinalize \/ EnqueueLock \/ EnqueueSend \/ EnqueueDrop
  \/ EnqueueFull \/ EnqueueEvict \/ FinalizeLocked \/ InboxStop

FailureStep == (\E c \in Calls : OnFailure(c)) \/ FailureFinalize \/ FailureStop

CloseStep == CloseRange \/ CloseFinalize \/ CloseUnlock \/ CloseReturn

Next ==
  \/ \E c \in Calls :
       CallStep(c) \/ CtxDone(c) \/ DrainStep(c) \/ ResponderStep(c)
         \/ GraceFinalize(c) \/ Finalize(c)
  \/ InboxStep \/ FailureStep
  \/ CloseBegin \/ CloseStep

Spec == Init /\ [][Next]_vars

(* Goroutines run, callbacks return, contexts with a deadline end and so   *)
(* does the context of Close.  Nobody has to start a call, to answer one,  *)
(* or to close.                                                            *)
Fairness ==
  /\ \A c \in Calls :
       /\ WF_vars(Publish(c)) /\ WF_vars(SelectDone(c) \/ SelectCtx(c))
       /\ WF_vars(CallWinsOnce(c)) /\ WF_vars(Return(c))
       /\ WF_vars(CtxDone(c)) /\ WF_vars(DrainStep(c))
       /\ WF_vars(GraceFinalize(c)) /\ WF_vars(Finalize(c))
  /\ WF_vars(InboxStep) /\ WF_vars(FailureStep)
  /\ WF_vars(CloseStep)

FairSpec == Spec /\ Fairness

-----------------------------------------------------------------------------
CallTypes ==
  /\ mode \in [Calls -> Policies \cup {"unary"}]
  /\ ctx \in [Calls -> {"live", "ended"}]
  /\ pc \in [Calls -> {"idle", "refused", "publish", "unsent", "wait",
                       "flush", "giveUp", "return", "returned"}]
  /\ ret \in [Calls -> Outcomes \cup {"none"}]
  /\ pending \subseteq Calls

OnceTypes ==
  /\ verdict \in [Calls -> Results]
  /\ finalized \in [Calls -> BOOLEAN]
  /\ envelope \in [Calls -> BOOLEAN]

StreamTypes ==
  /\ stream \in [Calls -> Seq(Nat)]
  /\ \A c \in Calls : Len(stream[c]) <= BufferSize
  /\ drain \in [Calls -> {"none", "recv", "handle", "abort", "exited"}]
  /\ handled \in [Calls -> Seq(Nat)]
  /\ failed \subseteq Calls
  /\ grace \in [Calls -> SUBSET [kind : ReplyKinds, seq : Nat]]

InboxTypes ==
  /\ inboxAt \in {"idle", "stopped", "lock", "send", "evict", "overflow",
                 "finalize"}
  /\ inboxMsg \in [call : Calls \cup {"none"},
                   kind : ReplyKinds \cup {"chunk", "none"}, seq : Nat]
  /\ inboxAt \notin {"idle", "stopped"} => inboxMsg \in Messages
  /\ inboxAt = "finalize" => inboxMsg.kind \in ReplyKinds
  /\ inboxQ \in Seq(Messages)

BusTypes ==
  /\ failure \in Calls \cup {"idle", "stopped"}
  /\ exhausted \in [Calls -> {"no", "published", "received"}]
  /\ chunks \in [Calls -> Nat]
  /\ replies \in [Calls -> Nat]
  /\ notices \subseteq Calls

CloseTypes ==
  /\ closed \in BOOLEAN
  /\ closeAt \in {"idle", "range", "finalize", "join", "ok", "timedOut"}
  /\ closeTodo \subseteq Calls
  /\ closeCall \in Calls \cup {"none"}
  /\ closeAt = "finalize" => closeCall \in Calls

TypeOK == /\ CallTypes /\ OnceTypes /\ StreamTypes
          /\ InboxTypes /\ BusTypes /\ CloseTypes
-----------------------------------------------------------------------------
(* Safety.                                                                 *)

(* Go panics when a closed channel is sent to: while enqueue sits in its   *)
(* select, nobody has closed the stream of that call (finalize closes it   *)
(* under sendMu, which enqueue holds).                                     *)
NoSendOnClosedStream ==
  inboxAt \in {"send", "evict", "overflow"} => ~finalized[inboxMsg.call]

(* The callback of CallStream sees chunks in the order they were           *)
(* published, each at most once, whatever the buffer policy drops.         *)
ChunksInOrder ==
  \A c \in Calls : \A i, j \in DOMAIN handled[c] :
    i < j => handled[c][i] < handled[c][j]

(* With BufferBlock and a live context no chunk is left out before one     *)
(* that is handled: back-pressure, never loss.                             *)
BlockLosesNothing ==
  \A c \in Calls :
    mode[c] = "block" /\ ctx[c] = "live"
      => \A i \in DOMAIN handled[c] : handled[c][i] = i

(* A streaming Call that returns the payload of a reply has first handed   *)
(* to its callback every chunk published before that reply, unless the     *)
(* policy may drop chunks, the context ended or the callback failed.       *)
ReplyAfterItsChunks ==
  \A c \in Calls :
    /\ pc[c] = "returned" /\ Replied(c)
    /\ mode[c] = "block" /\ ctx[c] = "live" /\ c \notin failed
    => Len(handled[c]) >= verdict[c].seq

(* CloseContext that returns nil has joined every drain goroutine, and no  *)
(* later Call starts another: no user callback runs after a clean Close.   *)
CloseJoinsDrains ==
  closeAt = "ok" => \A c \in Calls : drain[c] \in {"none", "exited"}

(* Once CloseContext has walked the pending map no Call is left to wait    *)
(* for a reply that cannot come: its result is decided, or the failure     *)
(* goroutine, which took it out of the map first, is about to decide it.   *)
CloseSettlesCalls ==
  closeAt \in {"join", "ok", "timedOut"} =>
    \A c \in Calls :
      pc[c] \in {"publish", "wait"} =>
        finalized[c] \/ failure = c

-----------------------------------------------------------------------------
(* Liveness, under FairSpec.                                               *)

(* A Call whose context ends returns.                                      *)
CallsReturn ==
  \A c \in Deadlines : (pc[c] = "publish") ~> (pc[c] = "returned")

(* The goroutine that serves every call of the Caller is never kept for    *)
(* ever by one of them: a call whose reply was published returns, even if  *)
(* it has no deadline and the chunks of another call fill its buffer.      *)
RepliedCallsReturn ==
  \A c \in Calls : (replies[c] > 0) ~> (pc[c] = "returned")

(* The drain goroutine of a call that ends does not leak.                  *)
DrainsExit ==
  \A c \in Deadlines : (drain[c] = "recv") ~> (drain[c] = "exited")

(* CloseContext returns once its own context has ended.                    *)
CloseReturns == (closeAt = "range") ~> (closeAt \in {"ok", "timedOut"})

=============================================================================
