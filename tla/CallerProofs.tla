---------------------------- MODULE CallerProofs ----------------------------
(* The type invariant and the safety properties of the Caller, proved for  *)
(* every set of calls, every buffer policy and size, and every number of   *)
(* messages.  TypeStep is the long part: one step per action of Next, and  *)
(* below it one per part of TypeOK, most of which the frame lemmas settle. *)
EXTENDS Caller, TLAPS

(* The six parts of the type invariant read disjoint groups of variables:  *)
(* a step that leaves a group alone keeps its part.  This one is the state *)
(* of the Call goroutines (sdk/caller.go, Call).                           *)
LEMMA CallFrame ==
  ASSUME CallTypes, UNCHANGED <<callVars, pending>>
  PROVE  CallTypes'
BY DEF CallTypes, callVars

(* What finalize writes under doneOnce: unchanged, it keeps its types.     *)
LEMMA OnceFrame ==
  ASSUME OnceTypes, UNCHANGED <<onceVars, envelope>>
  PROVE  OnceTypes'
BY DEF OnceTypes, onceVars

(* The stream channels and their drain goroutines: unchanged, they keep    *)
(* their types.                                                            *)
LEMMA StreamFrame ==
  ASSUME StreamTypes, UNCHANGED <<streamVars, grace>>
  PROVE  StreamTypes'
BY DEF StreamTypes, streamVars

(* The inbox goroutine and its queue: unchanged, they keep their types.    *)
LEMMA InboxFrame ==
  ASSUME InboxTypes, UNCHANGED <<inboxVars, inboxQ>>
  PROVE  InboxTypes'
BY DEF InboxTypes, inboxVars

(* The bus side (onFailure, what responders have sent, cancel notices):    *)
(* unchanged, it keeps its types.                                          *)
LEMMA BusFrame ==
  ASSUME BusTypes, UNCHANGED <<failure, exhausted, chunks, replies, notices>>
  PROVE  BusTypes'
BY DEF BusTypes

(* CloseContext: unchanged, its variables keep their types.                *)
LEMMA CloseFrame == ASSUME CloseTypes, UNCHANGED closeVars PROVE CloseTypes'
BY DEF CloseTypes, closeVars

(* An error that finalize is called with is a result of a call.            *)
LEMMA ErrTypes == \A k \in FailureKinds : Err(k) \in Results
BY DEF FailureKinds, Err, Results

(* Whoever wins or loses doneOnce (finalize, finalizeLocked), what is      *)
(* stored is a result.                                                     *)
LEMMA WinTypes ==
  ASSUME OnceTypes, NEW c \in Calls, NEW r \in Results, WinOnce(c, r)
  PROVE  verdict' \in [Calls -> Results]
BY DEF OnceTypes, WinOnce

(* The same when the result is one of the error kinds.                     *)
LEMMA WinErr ==
  ASSUME OnceTypes, NEW c \in Calls, NEW k \in FailureKinds, WinOnce(c, Err(k))
  PROVE  verdict' \in [Calls -> Results]
BY ErrTypes, WinTypes

(* Receiving from a stream, or evicting its oldest chunk, leaves a stream  *)
(* that is not longer.                                                     *)
LEMMA TailTypes ==
  ASSUME NEW s \in Seq(Nat), s # <<>>
  PROVE  Head(s) \in Nat /\ Tail(s) \in Seq(Nat) /\ Len(Tail(s)) <= Len(s)
OBVIOUS

(* Sending to a stream, and handing a chunk to the callback, adds one      *)
(* chunk.                                                                  *)
LEMMA AppendTypes ==
  ASSUME NEW s \in Seq(Nat), NEW n \in Nat
  PROVE  Append(s, n) \in Seq(Nat) /\ Len(Append(s, n)) = Len(s) + 1
OBVIOUS

(* The next message of the inbox subscription, and the rest of its queue.  *)
LEMMA HeadTypes ==
  ASSUME InboxTypes, inboxQ # <<>>
  PROVE  Head(inboxQ) \in Messages /\ Tail(inboxQ) \in Seq(Messages)
BY DEF InboxTypes

(* A new stream, and the stream that finalize closed and drain left, is    *)
(* empty.                                                                  *)
LEMMA EmptyTypes == <<>> \in Seq(Nat) /\ Len(<<>>) = 0
OBVIOUS

(* Call turns every result finalize can store into one of its outcomes.    *)
LEMMA DecodeTypes ==
  ASSUME OnceTypes, NEW c \in Calls
  PROVE  Decode(c) \in Outcomes \cup {"none"}
<1> DEFINE k == verdict[c].kind
<1>1. k \in {"plain", "okEnv", "errEnv", "none"} \cup FailureKinds
  BY CallerAssumption DEF OnceTypes, Results
<1>2. CASE k = "plain"
  BY <1>2 DEF Decode, Outcomes
<1>3. CASE k = "okEnv"
  BY <1>3 DEF Decode, Outcomes
<1>4. CASE k = "errEnv"
  BY <1>4 DEF Decode, Outcomes
<1>5. CASE k \in FailureKinds \cup {"none"}
  <2>1. Decode(c) = k BY <1>5 DEF Decode, FailureKinds
  <2> QED BY <1>5, <2>1 DEF FailureKinds, Outcomes
<1> QED BY <1>1, <1>2, <1>3, <1>4, <1>5

(* Every step of the Caller keeps the type invariant: one step per action, *)
(* and under it one per part of the invariant.                             *)
LEMMA TypeStep == ASSUME TypeOK, [Next]_vars PROVE TypeOK'
<1> USE CallerAssumption
<1> USE DEF TypeOK
<1>1. ASSUME NEW c \in Calls, Start(c) PROVE TypeOK'
  <2>1. CallTypes'
    BY <1>1 DEF Start, CallTypes, callVars
  <2>2. StreamTypes'
    BY <1>1 DEF Start, StreamTypes, Policies, streamVars
  <2>3. OnceTypes' BY <1>1, OnceFrame DEF Start
  <2>4. InboxTypes' BY <1>1, InboxFrame DEF Start, busVars
  <2>5. BusTypes' BY <1>1, BusFrame DEF Start, busVars
  <2>6. CloseTypes' BY <1>1, CloseFrame DEF Start
  <2> QED BY <2>1, <2>2, <2>3, <2>4, <2>5, <2>6 DEF TypeOK
<1>2. ASSUME NEW c \in Calls, Refuse(c) PROVE TypeOK'
  <2>1. CallTypes'
    BY <1>2 DEF Refuse, CallTypes, Outcomes
  <2>2. OnceTypes' BY <1>2, OnceFrame DEF Refuse
  <2>3. StreamTypes' BY <1>2, StreamFrame DEF Refuse
  <2>4. InboxTypes' BY <1>2, InboxFrame DEF Refuse, busVars
  <2>5. BusTypes' BY <1>2, BusFrame DEF Refuse, busVars
  <2>6. CloseTypes' BY <1>2, CloseFrame DEF Refuse
  <2> QED BY <2>1, <2>2, <2>3, <2>4, <2>5, <2>6 DEF TypeOK
<1>3. ASSUME NEW c \in Calls, Publish(c) PROVE TypeOK'
  <2>1. CallTypes'
    BY <1>3 DEF Publish, CallTypes, callVars
  <2>2. OnceTypes' BY <1>3, OnceFrame DEF Publish
  <2>3. StreamTypes' BY <1>3, StreamFrame DEF Publish
  <2>4. InboxTypes' BY <1>3, InboxFrame DEF Publish, busVars
  <2>5. BusTypes' BY <1>3, BusFrame DEF Publish, busVars
  <2>6. CloseTypes' BY <1>3, CloseFrame DEF Publish
  <2> QED BY <2>1, <2>2, <2>3, <2>4, <2>5, <2>6 DEF TypeOK
<1>4. ASSUME NEW c \in Calls, SelectDone(c) PROVE TypeOK'
  <2>1. CallTypes'
    BY <1>4 DEF SelectDone, CallTypes, callVars
  <2>2. OnceTypes' BY <1>4, OnceFrame DEF SelectDone
  <2>3. StreamTypes' BY <1>4, StreamFrame DEF SelectDone
  <2>4. InboxTypes' BY <1>4, InboxFrame DEF SelectDone, busVars
  <2>5. BusTypes' BY <1>4, BusFrame DEF SelectDone, busVars
  <2>6. CloseTypes' BY <1>4, CloseFrame DEF SelectDone
  <2> QED BY <2>1, <2>2, <2>3, <2>4, <2>5, <2>6 DEF TypeOK
<1>5. ASSUME NEW c \in Calls, SelectCtx(c) PROVE TypeOK'
  <2>1. CallTypes'
    BY <1>5 DEF SelectCtx, CallTypes, callVars
  <2>2. BusTypes'
    BY <1>5 DEF SelectCtx, BusTypes, busVars
  <2>3. OnceTypes' BY <1>5, OnceFrame DEF SelectCtx
  <2>4. StreamTypes' BY <1>5, StreamFrame DEF SelectCtx
  <2>5. InboxTypes' BY <1>5, InboxFrame DEF SelectCtx, busVars
  <2>6. CloseTypes' BY <1>5, CloseFrame DEF SelectCtx
  <2> QED BY <2>1, <2>2, <2>3, <2>4, <2>5, <2>6 DEF TypeOK
<1>6. ASSUME NEW c \in Calls, CallWinsOnce(c) PROVE TypeOK'
  <2>1. OnceTypes'
    BY <1>6, WinErr, WinTypes DEF CallWinsOnce, OnceTypes, FailureKinds
  <2>2. CallTypes' BY <1>6, CallFrame DEF CallWinsOnce
  <2>3. StreamTypes' BY <1>6, StreamFrame DEF CallWinsOnce
  <2>4. InboxTypes' BY <1>6, InboxFrame DEF CallWinsOnce, busVars
  <2>5. BusTypes' BY <1>6, BusFrame DEF CallWinsOnce, busVars
  <2>6. CloseTypes' BY <1>6, CloseFrame DEF CallWinsOnce
  <2> QED BY <2>1, <2>2, <2>3, <2>4, <2>5, <2>6 DEF TypeOK
<1>7. ASSUME NEW c \in Calls, Return(c) PROVE TypeOK'
  <2>1. CallTypes'
    BY <1>7, DecodeTypes DEF Return, CallTypes, Outcomes
  <2>2. OnceTypes' BY <1>7, OnceFrame DEF Return
  <2>3. StreamTypes' BY <1>7, StreamFrame DEF Return
  <2>4. InboxTypes' BY <1>7, InboxFrame DEF Return, busVars
  <2>5. BusTypes' BY <1>7, BusFrame DEF Return, busVars
  <2>6. CloseTypes' BY <1>7, CloseFrame DEF Return
  <2> QED BY <2>1, <2>2, <2>3, <2>4, <2>5, <2>6 DEF TypeOK
<1>8. ASSUME NEW c \in Calls, CtxDone(c) PROVE TypeOK'
  <2>1. CallTypes'
    BY <1>8 DEF CtxDone, CallTypes, callVars
  <2>2. OnceTypes' BY <1>8, OnceFrame DEF CtxDone
  <2>3. StreamTypes' BY <1>8, StreamFrame DEF CtxDone
  <2>4. InboxTypes' BY <1>8, InboxFrame DEF CtxDone, busVars
  <2>5. BusTypes' BY <1>8, BusFrame DEF CtxDone, busVars
  <2>6. CloseTypes' BY <1>8, CloseFrame DEF CtxDone
  <2> QED BY <2>1, <2>2, <2>3, <2>4, <2>5, <2>6 DEF TypeOK
<1>9. ASSUME NEW c \in Calls, SendChunk(c) PROVE TypeOK'
  <2>1. InboxTypes'
    <3>1. [call |-> c, kind |-> "chunk", seq |-> chunks[c] + 1] \in Messages
      BY DEF BusTypes, Messages
    <3>2. inboxQ' \in Seq(Messages)
      BY <1>9, <3>1 DEF SendChunk, InboxTypes
    <3> QED BY <1>9, <3>2 DEF SendChunk, InboxTypes, inboxVars
  <2>2. BusTypes'
    BY <1>9 DEF SendChunk, BusTypes, busVars
  <2>3. CallTypes' BY <1>9, CallFrame DEF SendChunk
  <2>4. OnceTypes' BY <1>9, OnceFrame DEF SendChunk
  <2>5. StreamTypes' BY <1>9, StreamFrame DEF SendChunk
  <2>6. CloseTypes' BY <1>9, CloseFrame DEF SendChunk
  <2> QED BY <2>1, <2>2, <2>3, <2>4, <2>5, <2>6 DEF TypeOK
<1>10. ASSUME NEW c \in Calls, SendReply(c) PROVE TypeOK'
  <2>1. InboxTypes'
    <3>1. \A k \in ReplyKinds :
            [call |-> c, kind |-> k, seq |-> chunks[c]] \in Messages
      BY DEF BusTypes, Messages
    <3>2. inboxQ' \in Seq(Messages)
      BY <1>10, <3>1 DEF SendReply, InboxTypes
    <3> QED BY <1>10, <3>2 DEF SendReply, InboxTypes, inboxVars
  <2>2. BusTypes'
    BY <1>10 DEF SendReply, BusTypes, busVars
  <2>3. CallTypes' BY <1>10, CallFrame DEF SendReply
  <2>4. OnceTypes' BY <1>10, OnceFrame DEF SendReply
  <2>5. StreamTypes' BY <1>10, StreamFrame DEF SendReply
  <2>6. CloseTypes' BY <1>10, CloseFrame DEF SendReply
  <2> QED BY <2>1, <2>2, <2>3, <2>4, <2>5, <2>6 DEF TypeOK
<1>11. ASSUME NEW c \in Calls, Exhaust(c) PROVE TypeOK'
  <2>1. BusTypes'
    BY <1>11 DEF Exhaust, BusTypes, busVars
  <2>2. CallTypes' BY <1>11, CallFrame DEF Exhaust
  <2>3. OnceTypes' BY <1>11, OnceFrame DEF Exhaust
  <2>4. StreamTypes' BY <1>11, StreamFrame DEF Exhaust
  <2>5. InboxTypes' BY <1>11, InboxFrame DEF Exhaust, busVars
  <2>6. CloseTypes' BY <1>11, CloseFrame DEF Exhaust
  <2> QED BY <2>1, <2>2, <2>3, <2>4, <2>5, <2>6 DEF TypeOK
<1>12. ASSUME NEW c \in Calls, GraceFinalize(c) PROVE TypeOK'
  <2>1. OnceTypes'
    BY <1>12, WinErr, WinTypes DEF GraceFinalize, OnceTypes, FailureKinds, StreamTypes, Results
  <2>2. StreamTypes'
    BY <1>12 DEF GraceFinalize, StreamTypes, streamVars
  <2>3. CallTypes' BY <1>12, CallFrame DEF GraceFinalize
  <2>4. InboxTypes' BY <1>12, InboxFrame DEF GraceFinalize, busVars
  <2>5. BusTypes' BY <1>12, BusFrame DEF GraceFinalize, busVars
  <2>6. CloseTypes' BY <1>12, CloseFrame DEF GraceFinalize
  <2> QED BY <2>1, <2>2, <2>3, <2>4, <2>5, <2>6 DEF TypeOK
<1>13. ASSUME NEW c \in Calls, DrainRecv(c) PROVE TypeOK'
  <2>1. StreamTypes'
    <3>1. CASE stream[c] # <<>>
      <4>1. Head(stream[c]) \in Nat /\ Tail(stream[c]) \in Seq(Nat)
              /\ Len(Tail(stream[c])) <= BufferSize
        BY <3>1, TailTypes DEF StreamTypes
      <4>2. Append(handled[c], Head(stream[c])) \in Seq(Nat)
        BY <4>1, AppendTypes DEF StreamTypes
      <4>3. /\ handled' = [handled EXCEPT ![c] = Append(@, Head(stream[c]))]
            /\ stream' = [stream EXCEPT ![c] = Tail(@)]
            /\ drain' = [drain EXCEPT ![c] = "handle"]
            /\ UNCHANGED <<failed, grace>>
        BY <1>13, <3>1 DEF DrainRecv
      <4> QED BY <4>1, <4>2, <4>3 DEF StreamTypes
    <3>2. CASE stream[c] = <<>>
      BY <1>13, <3>2 DEF DrainRecv, StreamTypes
    <3> QED BY <3>1, <3>2
  <2>2. CallTypes' BY <1>13, CallFrame DEF DrainRecv
  <2>3. OnceTypes' BY <1>13, OnceFrame DEF DrainRecv
  <2>4. InboxTypes' BY <1>13, InboxFrame DEF DrainRecv, busVars
  <2>5. BusTypes' BY <1>13, BusFrame DEF DrainRecv, busVars
  <2>6. CloseTypes' BY <1>13, CloseFrame DEF DrainRecv
  <2> QED BY <2>1, <2>2, <2>3, <2>4, <2>5, <2>6 DEF TypeOK
<1>14. ASSUME NEW c \in Calls, DrainHandled(c) PROVE TypeOK'
  <2>1. StreamTypes'
    BY <1>14 DEF DrainHandled, StreamTypes, streamVars
  <2>2. CallTypes' BY <1>14, CallFrame DEF DrainHandled
  <2>3. OnceTypes' BY <1>14, OnceFrame DEF DrainHandled
  <2>4. InboxTypes' BY <1>14, InboxFrame DEF DrainHandled, busVars
  <2>5. BusTypes' BY <1>14, BusFrame DEF DrainHandled, busVars
  <2>6. CloseTypes' BY <1>14, CloseFrame DEF DrainHandled
  <2> QED BY <2>1, <2>2, <2>3, <2>4, <2>5, <2>6 DEF TypeOK
<1>15. ASSUME NEW c \in Calls, DrainAbort(c) PROVE TypeOK'
  <2>1. OnceTypes'
    BY <1>15, WinErr, WinTypes DEF DrainAbort, OnceTypes, FailureKinds
  <2>2. StreamTypes'
    <3>1. CASE UNCHANGED <<stream, drain>>
      BY <1>15, <3>1 DEF DrainAbort, StreamTypes
    <3>2. CASE /\ stream' = [stream EXCEPT ![c] = <<>>]
               /\ drain' = [drain EXCEPT ![c] = "exited"]
      BY <1>15, <3>2, EmptyTypes DEF DrainAbort, StreamTypes
    <3> QED BY <1>15, <3>1, <3>2 DEF DrainAbort
  <2>3. CallTypes' BY <1>15, CallFrame DEF DrainAbort
  <2>4. InboxTypes' BY <1>15, InboxFrame DEF DrainAbort, busVars
  <2>5. BusTypes' BY <1>15, BusFrame DEF DrainAbort, busVars
  <2>6. CloseTypes' BY <1>15, CloseFrame DEF DrainAbort
  <2> QED BY <2>1, <2>2, <2>3, <2>4, <2>5, <2>6 DEF TypeOK
<1>16. ASSUME NEW c \in Calls, OnFailure(c) PROVE TypeOK'
  <2>1. CallTypes'
    BY <1>16 DEF OnFailure, CallTypes, callVars
  <2>2. BusTypes'
    BY <1>16 DEF OnFailure, BusTypes, busVars
  <2>3. OnceTypes' BY <1>16, OnceFrame DEF OnFailure
  <2>4. StreamTypes' BY <1>16, StreamFrame DEF OnFailure
  <2>5. InboxTypes' BY <1>16, InboxFrame DEF OnFailure, busVars
  <2>6. CloseTypes' BY <1>16, CloseFrame DEF OnFailure
  <2> QED BY <2>1, <2>2, <2>3, <2>4, <2>5, <2>6 DEF TypeOK
<1>17. ASSUME NEW c \in Calls, Finalize(c) PROVE TypeOK'
  <2>1. OnceTypes'
    BY <1>17 DEF Finalize, OnceTypes, onceVars
  <2>2. CallTypes' BY <1>17, CallFrame DEF Finalize
  <2>3. StreamTypes' BY <1>17, StreamFrame DEF Finalize
  <2>4. InboxTypes' BY <1>17, InboxFrame DEF Finalize, busVars
  <2>5. BusTypes' BY <1>17, BusFrame DEF Finalize, busVars
  <2>6. CloseTypes' BY <1>17, CloseFrame DEF Finalize
  <2> QED BY <2>1, <2>2, <2>3, <2>4, <2>5, <2>6 DEF TypeOK
<1>18. CASE OnInbox
  <2>1. OnceTypes'
    BY <1>18 DEF OnInbox, OnceTypes, onceVars
  <2>2. StreamTypes'
    <3>1. UNCHANGED streamVars BY <1>18 DEF OnInbox
    <3>2. grace' \in [Calls -> SUBSET [kind : ReplyKinds, seq : Nat]]
      <4> DEFINE m == Head(inboxQ)
      <4>1. m \in Messages BY <1>18, HeadTypes DEF OnInbox
      <4>2. CASE m.kind # "chunk" /\ m.call \in pending
        <5>1. [kind |-> m.kind, seq |-> m.seq] \in [kind : ReplyKinds, seq : Nat]
          BY <4>1, <4>2 DEF Messages
        <5>2. grace' = [grace EXCEPT ![m.call] =
                IF Streaming(m.call)
                THEN @ \cup {[kind |-> m.kind, seq |-> m.seq]} ELSE @]
          BY <1>18, <4>2 DEF OnInbox
        <5> HIDE DEF m
        <5> QED BY <5>1, <5>2 DEF StreamTypes
      <4>3. CASE ~(m.kind # "chunk" /\ m.call \in pending)
        BY <1>18, <4>3 DEF OnInbox, StreamTypes
      <4> QED BY <4>2, <4>3
    <3> QED BY <3>1, <3>2 DEF StreamTypes, streamVars
  <2>3. InboxTypes'
    <3> DEFINE m == Head(inboxQ)
               to == IF m.call \in pending THEN Route(m) ELSE "idle"
    <3>1. /\ inboxAt' = to
          /\ inboxMsg' = IF to = "idle" THEN NoMessage ELSE m
          /\ inboxQ' = Tail(inboxQ) /\ inboxQ # <<>>
      BY <1>18 DEF OnInbox
    <3>2. m \in Messages /\ inboxQ' \in Seq(Messages)
      BY <3>1, HeadTypes
    <3>3. to \in {"idle", "lock", "finalize"}
      BY DEF Route
    <3>4. NoMessage \in [call : Calls \cup {"none"},
                   kind : ReplyKinds \cup {"chunk", "none"}, seq : Nat]
      BY DEF NoMessage
    <3>5. to = "finalize" => m.kind \in ReplyKinds
      BY <3>2 DEF Route, Messages
    <3> HIDE DEF m, to
    <3> QED BY <3>1, <3>2, <3>3, <3>4, <3>5 DEF InboxTypes, Messages
  <2>4. CallTypes' BY <1>18, CallFrame DEF OnInbox
  <2>5. BusTypes' BY <1>18, BusFrame DEF OnInbox, busVars
  <2>6. CloseTypes' BY <1>18, CloseFrame DEF OnInbox
  <2> QED BY <2>1, <2>2, <2>3, <2>4, <2>5, <2>6 DEF TypeOK
<1>19. CASE InboxFinalize
  <2>1. OnceTypes'
    <3>1. [kind |-> inboxMsg.kind, seq |-> inboxMsg.seq] \in Results
          /\ inboxMsg.call \in Calls
      BY <1>19 DEF InboxFinalize, InboxTypes, Messages, Results
    <3>2. verdict' \in [Calls -> Results]
      BY <1>19, <3>1, WinTypes DEF InboxFinalize, OnceTypes
    <3> QED BY <1>19, <3>2 DEF InboxFinalize, OnceTypes
  <2>2. InboxTypes'
    BY <1>19 DEF InboxFinalize, InboxTypes, InboxIdle, InboxAt, NoMessage, Messages, inboxVars, busVars
  <2>3. CallTypes' BY <1>19, CallFrame DEF InboxFinalize
  <2>4. StreamTypes' BY <1>19, StreamFrame DEF InboxFinalize
  <2>5. BusTypes' BY <1>19, BusFrame DEF InboxFinalize, busVars
  <2>6. CloseTypes' BY <1>19, CloseFrame DEF InboxFinalize
  <2> QED BY <2>1, <2>2, <2>3, <2>4, <2>5, <2>6 DEF TypeOK
<1>20. CASE EnqueueLock
  <2>1. InboxTypes'
    BY <1>20 DEF EnqueueLock, InboxTypes, InboxIdle, InboxAt, NoMessage, Messages, inboxVars, busVars
  <2>2. CallTypes' BY <1>20, CallFrame DEF EnqueueLock
  <2>3. OnceTypes' BY <1>20, OnceFrame DEF EnqueueLock
  <2>4. StreamTypes' BY <1>20, StreamFrame DEF EnqueueLock
  <2>5. BusTypes' BY <1>20, BusFrame DEF EnqueueLock, busVars
  <2>6. CloseTypes' BY <1>20, CloseFrame DEF EnqueueLock
  <2> QED BY <2>1, <2>2, <2>3, <2>4, <2>5, <2>6 DEF TypeOK
<1>21. CASE EnqueueSend
  <2>1. StreamTypes'
    BY <1>21, TailTypes, AppendTypes, EmptyTypes DEF EnqueueSend, StreamTypes, InboxTypes, Messages, streamVars
  <2>2. InboxTypes'
    BY <1>21 DEF EnqueueSend, InboxTypes, InboxIdle, InboxAt, NoMessage, Messages, inboxVars, busVars
  <2>3. CallTypes' BY <1>21, CallFrame DEF EnqueueSend
  <2>4. OnceTypes' BY <1>21, OnceFrame DEF EnqueueSend
  <2>5. BusTypes' BY <1>21, BusFrame DEF EnqueueSend, busVars
  <2>6. CloseTypes' BY <1>21, CloseFrame DEF EnqueueSend
  <2> QED BY <2>1, <2>2, <2>3, <2>4, <2>5, <2>6 DEF TypeOK
<1>22. CASE EnqueueDrop
  <2>1. InboxTypes'
    BY <1>22 DEF EnqueueDrop, InboxTypes, InboxIdle, InboxAt, NoMessage, Messages, inboxVars, busVars
  <2>2. CallTypes' BY <1>22, CallFrame DEF EnqueueDrop
  <2>3. OnceTypes' BY <1>22, OnceFrame DEF EnqueueDrop
  <2>4. StreamTypes' BY <1>22, StreamFrame DEF EnqueueDrop
  <2>5. BusTypes' BY <1>22, BusFrame DEF EnqueueDrop, busVars
  <2>6. CloseTypes' BY <1>22, CloseFrame DEF EnqueueDrop
  <2> QED BY <2>1, <2>2, <2>3, <2>4, <2>5, <2>6 DEF TypeOK
<1>23. CASE EnqueueFull
  <2>1. InboxTypes'
    BY <1>23 DEF EnqueueFull, InboxTypes, InboxIdle, InboxAt, NoMessage, Messages, inboxVars, busVars
  <2>2. CallTypes' BY <1>23, CallFrame DEF EnqueueFull
  <2>3. OnceTypes' BY <1>23, OnceFrame DEF EnqueueFull
  <2>4. StreamTypes' BY <1>23, StreamFrame DEF EnqueueFull
  <2>5. BusTypes' BY <1>23, BusFrame DEF EnqueueFull, busVars
  <2>6. CloseTypes' BY <1>23, CloseFrame DEF EnqueueFull
  <2> QED BY <2>1, <2>2, <2>3, <2>4, <2>5, <2>6 DEF TypeOK
<1>24. CASE EnqueueEvict
  <2>1. StreamTypes'
    BY <1>24, TailTypes, AppendTypes, EmptyTypes DEF EnqueueEvict, StreamTypes, InboxTypes, Messages, streamVars
  <2>2. InboxTypes'
    BY <1>24 DEF EnqueueEvict, InboxTypes, InboxIdle, InboxAt, NoMessage, Messages, inboxVars, busVars
  <2>3. CallTypes' BY <1>24, CallFrame DEF EnqueueEvict
  <2>4. OnceTypes' BY <1>24, OnceFrame DEF EnqueueEvict
  <2>5. BusTypes' BY <1>24, BusFrame DEF EnqueueEvict, busVars
  <2>6. CloseTypes' BY <1>24, CloseFrame DEF EnqueueEvict
  <2> QED BY <2>1, <2>2, <2>3, <2>4, <2>5, <2>6 DEF TypeOK
<1>25. CASE FinalizeLocked
  <2>1. OnceTypes'
    <3>1. inboxMsg.call \in Calls
      BY <1>25 DEF FinalizeLocked, InboxTypes, Messages
    <3>2. verdict' \in [Calls -> Results]
      BY <1>25, <3>1, WinErr DEF FinalizeLocked, onceVars, OnceTypes, FailureKinds
    <3>3. finalized' \in [Calls -> BOOLEAN]
      BY <1>25, <3>1 DEF FinalizeLocked, onceVars, OnceTypes
    <3> QED BY <1>25, <3>2, <3>3 DEF FinalizeLocked, OnceTypes
  <2>2. InboxTypes'
    BY <1>25 DEF FinalizeLocked, InboxTypes, InboxIdle, InboxAt, NoMessage, Messages, inboxVars, busVars
  <2>3. CallTypes' BY <1>25, CallFrame DEF FinalizeLocked
  <2>4. StreamTypes' BY <1>25, StreamFrame DEF FinalizeLocked
  <2>5. BusTypes' BY <1>25, BusFrame DEF FinalizeLocked, busVars
  <2>6. CloseTypes' BY <1>25, CloseFrame DEF FinalizeLocked
  <2> QED BY <2>1, <2>2, <2>3, <2>4, <2>5, <2>6 DEF TypeOK
<1>26. CASE InboxStop
  <2>1. InboxTypes'
    BY <1>26 DEF InboxStop, InboxTypes, InboxIdle, InboxAt, NoMessage, Messages, inboxVars, busVars
  <2>2. CallTypes' BY <1>26, CallFrame DEF InboxStop
  <2>3. OnceTypes' BY <1>26, OnceFrame DEF InboxStop
  <2>4. StreamTypes' BY <1>26, StreamFrame DEF InboxStop
  <2>5. BusTypes' BY <1>26, BusFrame DEF InboxStop, busVars
  <2>6. CloseTypes' BY <1>26, CloseFrame DEF InboxStop
  <2> QED BY <2>1, <2>2, <2>3, <2>4, <2>5, <2>6 DEF TypeOK
<1>27. CASE FailureFinalize
  <2>1. OnceTypes'
    BY <1>27, WinErr, WinTypes DEF FailureFinalize, OnceTypes, FailureKinds, BusTypes
  <2>2. BusTypes'
    BY <1>27 DEF FailureFinalize, BusTypes, busVars
  <2>3. CallTypes' BY <1>27, CallFrame DEF FailureFinalize
  <2>4. StreamTypes' BY <1>27, StreamFrame DEF FailureFinalize
  <2>5. InboxTypes' BY <1>27, InboxFrame DEF FailureFinalize, busVars
  <2>6. CloseTypes' BY <1>27, CloseFrame DEF FailureFinalize
  <2> QED BY <2>1, <2>2, <2>3, <2>4, <2>5, <2>6 DEF TypeOK
<1>28. CASE FailureStop
  <2>1. BusTypes'
    BY <1>28 DEF FailureStop, BusTypes, busVars
  <2>2. CallTypes' BY <1>28, CallFrame DEF FailureStop
  <2>3. OnceTypes' BY <1>28, OnceFrame DEF FailureStop
  <2>4. StreamTypes' BY <1>28, StreamFrame DEF FailureStop
  <2>5. InboxTypes' BY <1>28, InboxFrame DEF FailureStop, busVars
  <2>6. CloseTypes' BY <1>28, CloseFrame DEF FailureStop
  <2> QED BY <2>1, <2>2, <2>3, <2>4, <2>5, <2>6 DEF TypeOK
<1>29. CASE CloseBegin
  <2>1. CloseTypes'
    BY <1>29 DEF CloseBegin, CloseTypes, CallTypes, CloseAt, closeVars
  <2>2. CallTypes' BY <1>29, CallFrame DEF CloseBegin
  <2>3. OnceTypes' BY <1>29, OnceFrame DEF CloseBegin
  <2>4. StreamTypes' BY <1>29, StreamFrame DEF CloseBegin
  <2>5. InboxTypes' BY <1>29, InboxFrame DEF CloseBegin, busVars
  <2>6. BusTypes' BY <1>29, BusFrame DEF CloseBegin, busVars
  <2> QED BY <2>1, <2>2, <2>3, <2>4, <2>5, <2>6 DEF TypeOK
<1>30. CASE CloseRange
  <2>1. CloseTypes'
    BY <1>30 DEF CloseRange, CloseTypes, CloseAt, closeVars
  <2>2. CallTypes' BY <1>30, CallFrame DEF CloseRange
  <2>3. OnceTypes' BY <1>30, OnceFrame DEF CloseRange
  <2>4. StreamTypes' BY <1>30, StreamFrame DEF CloseRange
  <2>5. InboxTypes' BY <1>30, InboxFrame DEF CloseRange, busVars
  <2>6. BusTypes' BY <1>30, BusFrame DEF CloseRange, busVars
  <2> QED BY <2>1, <2>2, <2>3, <2>4, <2>5, <2>6 DEF TypeOK
<1>31. CASE CloseFinalize
  <2>1. OnceTypes'
    BY <1>31, WinErr, WinTypes DEF CloseFinalize, OnceTypes, FailureKinds, CloseTypes
  <2>2. CloseTypes'
    BY <1>31 DEF CloseFinalize, CloseTypes, CloseAt, closeVars
  <2>3. CallTypes' BY <1>31, CallFrame DEF CloseFinalize
  <2>4. StreamTypes' BY <1>31, StreamFrame DEF CloseFinalize
  <2>5. InboxTypes' BY <1>31, InboxFrame DEF CloseFinalize, busVars
  <2>6. BusTypes' BY <1>31, BusFrame DEF CloseFinalize, busVars
  <2> QED BY <2>1, <2>2, <2>3, <2>4, <2>5, <2>6 DEF TypeOK
<1>32. CASE CloseUnlock
  <2>1. CloseTypes'
    BY <1>32 DEF CloseUnlock, CloseTypes, CloseAt, closeVars
  <2>2. CallTypes' BY <1>32, CallFrame DEF CloseUnlock
  <2>3. OnceTypes' BY <1>32, OnceFrame DEF CloseUnlock
  <2>4. StreamTypes' BY <1>32, StreamFrame DEF CloseUnlock
  <2>5. InboxTypes' BY <1>32, InboxFrame DEF CloseUnlock, busVars
  <2>6. BusTypes' BY <1>32, BusFrame DEF CloseUnlock, busVars
  <2> QED BY <2>1, <2>2, <2>3, <2>4, <2>5, <2>6 DEF TypeOK
<1>33. CASE CloseReturn
  <2>1. CloseTypes'
    BY <1>33 DEF CloseReturn, CloseTypes, CloseAt, closeVars
  <2>2. CallTypes' BY <1>33, CallFrame DEF CloseReturn
  <2>3. OnceTypes' BY <1>33, OnceFrame DEF CloseReturn
  <2>4. StreamTypes' BY <1>33, StreamFrame DEF CloseReturn
  <2>5. InboxTypes' BY <1>33, InboxFrame DEF CloseReturn, busVars
  <2>6. BusTypes' BY <1>33, BusFrame DEF CloseReturn, busVars
  <2> QED BY <2>1, <2>2, <2>3, <2>4, <2>5, <2>6 DEF TypeOK
<1>34. CASE UNCHANGED vars
  BY <1>34, CallFrame, OnceFrame, StreamFrame, InboxFrame, BusFrame, CloseFrame DEF vars, busVars
<1> QED BY ONLY TypeOK, [Next]_vars, <1>1, <1>2, <1>3, <1>4, <1>5, <1>6, <1>7, <1>8, <1>9, <1>10, <1>11, <1>12, <1>13, <1>14, <1>15, <1>16, <1>17, <1>18, <1>19, <1>20, <1>21, <1>22, <1>23, <1>24, <1>25, <1>26, <1>27, <1>28, <1>29, <1>30, <1>31, <1>32, <1>33, <1>34 DEF Next, CallStep, DrainStep, ResponderStep, InboxStep, FailureStep, CloseStep

(* Type correctness of the Caller, for every set of calls, policy and      *)
(* buffer size; it also says that no stream exceeds its capacity.          *)
THEOREM TypeCorrect == Spec => []TypeOK
<1>1. ASSUME Init PROVE TypeOK
  <2>1. CallTypes BY <1>1 DEF Init, CallTypes
  <2>2. OnceTypes BY <1>1 DEF Init, OnceTypes, Results, NoVerdict, Err
  <2>3. StreamTypes
    BY <1>1, CallerAssumption, EmptyTypes DEF Init, StreamTypes
  <2>4. InboxTypes BY <1>1 DEF Init, InboxTypes, NoMessage
  <2>5. BusTypes BY <1>1 DEF Init, BusTypes
  <2>6. CloseTypes BY <1>1 DEF Init, CloseTypes
  <2> QED BY <2>1, <2>2, <2>3, <2>4, <2>5, <2>6 DEF TypeOK
<1> QED BY <1>1, TypeStep, PTL DEF Spec

-----------------------------------------------------------------------------
(* Whoever sends to a stream holds its sendMu, so nobody closes it.        *)

(* A stream is closed under its sendMu, which the inbox goroutine holds    *)
(* while it is in enqueue's select: no step closes a stream that is being  *)
(* sent to.                                                                *)
LEMMA SendStep ==
  ASSUME TypeOK, NoSendOnClosedStream, [Next]_vars
  PROVE  NoSendOnClosedStream'
<1> USE DEF NoSendOnClosedStream
<1>1. CASE UNCHANGED <<inboxVars, finalized>>
  BY <1>1 DEF inboxVars
<1>2. ASSUME NEW c \in Calls, Finalize(c) PROVE NoSendOnClosedStream'
  BY <1>2 DEF Finalize, SendMuHeld, inboxVars, TypeOK, OnceTypes
<1>3. CASE OnInbox
  BY <1>3 DEF OnInbox, Route
<1>4. CASE EnqueueLock
  BY <1>4 DEF EnqueueLock, InboxIdle, InboxAt, onceVars
<1>5. CASE EnqueueFull
  BY <1>5 DEF EnqueueFull, InboxAt, onceVars
<1>6. CASE EnqueueEvict
  BY <1>6 DEF EnqueueEvict, InboxAt, onceVars
<1>7. CASE InboxFinalize \/ EnqueueSend \/ EnqueueDrop \/ FinalizeLocked
             \/ InboxStop
  BY <1>7 DEF InboxFinalize, EnqueueSend, EnqueueDrop, FinalizeLocked,
              InboxStop, InboxIdle, InboxAt, inboxVars
<1>8. ASSUME NEW c \in Calls,
             CallStep(c) \/ CtxDone(c) \/ DrainStep(c) \/ ResponderStep(c)
               \/ GraceFinalize(c)
      PROVE  UNCHANGED <<inboxVars, finalized>>
  BY <1>8 DEF CallStep, Start, Refuse, Publish, SelectDone, SelectCtx,
              CallWinsOnce, Return, CtxDone, DrainStep, DrainRecv,
              DrainHandled, DrainAbort, ResponderStep, SendChunk, SendReply,
              Exhaust, GraceFinalize, onceVars
<1>9. ASSUME FailureStep \/ CloseBegin \/ CloseStep
      PROVE  UNCHANGED <<inboxVars, finalized>>
  BY <1>9 DEF FailureStep, OnFailure, FailureFinalize, FailureStop,
              CloseBegin, CloseStep, CloseRange, CloseFinalize, CloseUnlock,
              CloseReturn, onceVars
<1>10. CASE UNCHANGED vars
  BY <1>10 DEF vars, onceVars, inboxVars
<1> QED
  BY <1>1, <1>2, <1>3, <1>4, <1>5, <1>6, <1>7, <1>8, <1>9, <1>10
  DEF Next, InboxStep

(* While enqueue sits in its select nobody has closed the stream of its    *)
(* call: the Go program never sends on a closed channel.                   *)
THEOREM NeverSendsOnClosedStream == Spec => []NoSendOnClosedStream
<1>1. Init => NoSendOnClosedStream
  BY DEF Init, NoSendOnClosedStream
<1> QED BY <1>1, SendStep, TypeCorrect, PTL DEF Spec

-----------------------------------------------------------------------------
(* Close.                                                                  *)

(* A Call that waits, without a result and without onFailure about to      *)
(* give it one.                                                            *)
Unsettled(c) == pc[c] \in {"publish", "wait"} /\ ~finalized[c] /\ failure # c

(* What CloseContext relies on: a call that still waits is in the pending  *)
(* map unless onFailure holds it, and Range has not passed it by.          *)
CloseInv ==
  /\ closeAt # "idle" => closed
  /\ \A c \in Calls : Unsettled(c) => c \in pending
  /\ closeAt \in {"range", "finalize"} =>
       \A c \in Calls : Unsettled(c) =>
         c \in closeTodo \/ (closeAt = "finalize" /\ closeCall = c)
  /\ CloseSettlesCalls
  /\ CloseJoinsDrains


(* Only Start makes a call unsettled. *)
LEMMA SettledStays ==
  ASSUME TypeOK, [Next]_vars, NEW c \in Calls, ~Unsettled(c), ~Start(c)
  PROVE  ~Unsettled(c)'
<1> USE CallerAssumption DEF TypeOK, CallTypes, OnceTypes, BusTypes, Unsettled
<1>1. CASE UNCHANGED <<pc, finalized, failure>>
  BY <1>1
<1>2. ASSUME NEW d \in Calls, CallStep(d), ~(d = c /\ Start(d))
      PROVE  ~Unsettled(c)'
  <2>1. UNCHANGED <<finalized, failure>>
    BY <1>2 DEF CallStep, Start, Refuse, Publish, SelectDone, SelectCtx,
                CallWinsOnce, Return, onceVars
  <2>2. pc'[c] \in {"publish", "wait"} => pc[c] \in {"publish", "wait"}
    <3>1. CASE Start(d) BY <1>2, <3>1 DEF Start
    <3>2. CASE Refuse(d) BY <1>2, <3>2 DEF Refuse
    <3>3. CASE Publish(d) BY <1>2, <3>3 DEF Publish
    <3>4. CASE SelectDone(d) BY <1>2, <3>4 DEF SelectDone
    <3>5. CASE SelectCtx(d) BY <1>2, <3>5 DEF SelectCtx
    <3>6. CASE CallWinsOnce(d) BY <1>2, <3>6 DEF CallWinsOnce, callVars
    <3>7. CASE Return(d) BY <1>2, <3>7 DEF Return
    <3> QED BY <1>2, <3>1, <3>2, <3>3, <3>4, <3>5, <3>6, <3>7 DEF CallStep
  <2> QED BY <2>1, <2>2
<1>3. ASSUME NEW d \in Calls,
             CtxDone(d) \/ DrainStep(d) \/ ResponderStep(d) \/ GraceFinalize(d)
      PROVE  UNCHANGED <<pc, finalized, failure>>
  BY <1>3 DEF CtxDone, DrainStep, DrainRecv, DrainHandled, DrainAbort,
              ResponderStep, SendChunk, SendReply, Exhaust, GraceFinalize,
              callVars, onceVars
<1>4. ASSUME NEW d \in Calls, Finalize(d) PROVE ~Unsettled(c)'
  BY <1>4 DEF Finalize, callVars
<1>5. CASE InboxStep
  BY <1>5 DEF InboxStep, OnInbox, InboxFinalize, EnqueueLock, EnqueueSend,
              EnqueueDrop, EnqueueFull, EnqueueEvict, FinalizeLocked,
              InboxStop, callVars, onceVars
<1>6. CASE FailureStep
  BY <1>6 DEF FailureStep, OnFailure, FailureFinalize, FailureStop, callVars,
              onceVars
<1>7. CASE CloseBegin \/ CloseStep
  BY <1>7 DEF CloseBegin, CloseStep, CloseRange, CloseFinalize, CloseUnlock,
              CloseReturn, callVars, onceVars
<1>8. CASE UNCHANGED vars
  BY <1>8 DEF vars, callVars, onceVars
<1> QED
  BY <1>1, <1>2, <1>3, <1>4, <1>5, <1>6, <1>7, <1>8 DEF Next

(* A drain goroutine that has exited, or never started, stays that way     *)
(* unless its call starts.                                                 *)
LEMMA ExitedStays ==
  ASSUME TypeOK, [Next]_vars, NEW c \in Calls, ~Start(c),
         drain[c] \in {"none", "exited"}
  PROVE  drain'[c] \in {"none", "exited"}
<1> USE DEF TypeOK, StreamTypes
<1>1. CASE UNCHANGED drain
  BY <1>1
<1>2. ASSUME NEW d \in Calls, CallStep(d), ~(d = c /\ Start(d))
      PROVE  drain'[c] = drain[c]
  BY <1>2 DEF CallStep, Start, Refuse, Publish, SelectDone, SelectCtx,
              CallWinsOnce, Return, streamVars
<1>3. ASSUME NEW d \in Calls, DrainStep(d)
      PROVE  drain'[c] \in {"none", "exited"}
  BY <1>3 DEF DrainStep, DrainRecv, DrainHandled, DrainAbort
<1>4. ASSUME NEW d \in Calls,
             CtxDone(d) \/ ResponderStep(d) \/ GraceFinalize(d) \/ Finalize(d)
      PROVE  UNCHANGED drain
  BY <1>4 DEF CtxDone, ResponderStep, SendChunk, SendReply, Exhaust,
              GraceFinalize, Finalize, streamVars
<1>5. CASE InboxStep \/ FailureStep \/ CloseBegin \/ CloseStep \/ UNCHANGED vars
  BY <1>5 DEF InboxStep, OnInbox, InboxFinalize, EnqueueLock, EnqueueSend,
              EnqueueDrop, EnqueueFull, EnqueueEvict, FinalizeLocked,
              InboxStop, FailureStep, OnFailure, FailureFinalize,
              FailureStop, CloseBegin, CloseStep, CloseRange, CloseFinalize,
              CloseUnlock, CloseReturn, streamVars, vars
<1> QED BY <1>1, <1>2, <1>3, <1>4, <1>5 DEF Next

(* Every step keeps the strengthening of the two properties of Close:      *)
(* while closed is false nothing is claimed; once it is set no call        *)
(* starts, so the pending map and the drain goroutines only shrink.        *)
LEMMA CloseInvStep ==
  ASSUME TypeOK, CloseInv, [Next]_vars
  PROVE  CloseInv'
<1> USE CallerAssumption
<1>1. ASSUME NEW d \in Calls, Start(d) PROVE CloseInv'
  <2>1. closeAt = "idle" /\ UNCHANGED <<closeAt, closed, finalized, failure>>
    BY <1>1 DEF Start, Accepting, CloseInv, closeVars, onceVars
  <2>2. \A c \in Calls : Unsettled(c)' => c \in pending'
    BY <1>1, <2>1 DEF Start, Unsettled, CloseInv, TypeOK, CallTypes
  <2> QED BY <2>1, <2>2 DEF CloseInv, CloseSettlesCalls, CloseJoinsDrains
<1>2. ASSUME \A d \in Calls : ~Start(d) PROVE CloseInv'
  <2>1. \A c \in Calls : Unsettled(c)' => Unsettled(c)
    BY <1>2, SettledStays
  <2>2. \A c \in Calls : drain[c] \in {"none", "exited"}
                           => drain'[c] \in {"none", "exited"}
    BY <1>2, ExitedStays
  <2>3. \A c \in Calls : c \in pending /\ Unsettled(c)' => c \in pending'
    <3>1. CASE UNCHANGED pending
      BY <3>1
    <3>2. ASSUME NEW d \in Calls, Return(d)
          PROVE  pending' = pending \ {d} /\ ~Unsettled(d)'
      BY <3>2 DEF Return, Unsettled, TypeOK, CallTypes
    <3>3. ASSUME NEW d \in Calls, OnFailure(d)
          PROVE  pending' = pending \ {d} /\ (d \in pending => ~Unsettled(d)')
      BY <3>3 DEF OnFailure, Unsettled
    <3>4. \/ UNCHANGED pending
          \/ \E d \in Calls : Return(d) \/ OnFailure(d)
      BY <1>2 DEF Next, CallStep, Refuse, Publish, SelectDone, SelectCtx,
             CallWinsOnce, CtxDone, DrainStep, DrainRecv, DrainHandled,
             DrainAbort, ResponderStep, SendChunk, SendReply, Exhaust,
             GraceFinalize, Finalize, InboxStep, OnInbox, InboxFinalize,
             EnqueueLock, EnqueueSend, EnqueueDrop, EnqueueFull,
             EnqueueEvict, FinalizeLocked, InboxStop, FailureStep,
             FailureFinalize, FailureStop, CloseBegin, CloseStep,
             CloseRange, CloseFinalize, CloseUnlock, CloseReturn, vars
    <3> QED BY <3>1, <3>2, <3>3, <3>4
  <2>4. \A c \in Calls : Unsettled(c)' => c \in pending'
    BY <2>1, <2>3 DEF CloseInv
  <2>5. CASE UNCHANGED closeVars
    BY <2>1, <2>2, <2>4, <2>5
    DEF CloseInv, CloseSettlesCalls, CloseJoinsDrains, Unsettled, closeVars
  <2>6. CASE CloseBegin
    BY <2>1, <2>4, <2>6
    DEF CloseBegin, CloseAt, CloseInv, CloseSettlesCalls, CloseJoinsDrains
  <2>7. CASE CloseRange
    BY <2>1, <2>4, <2>7
    DEF CloseRange, CloseAt, CloseInv, CloseSettlesCalls, CloseJoinsDrains
  <2>8. CASE CloseFinalize
    <3>1. CASE UNCHANGED <<closeAt, closeTodo, closeCall>>
      BY <2>1, <2>2, <2>4, <2>8, <3>1
      DEF CloseFinalize, CloseInv, CloseSettlesCalls, CloseJoinsDrains
    <3>2. CASE finalized[closeCall] /\ CloseAt("range", closeTodo, "none")
      <4>1. ~Unsettled(closeCall)
        BY <3>2 DEF Unsettled
      <4> QED
        BY <2>1, <2>4, <2>8, <3>2, <4>1
        DEF CloseFinalize, CloseAt, CloseInv, CloseSettlesCalls,
            CloseJoinsDrains
    <3> QED BY <2>8, <3>1, <3>2 DEF CloseFinalize
  <2>9. CASE CloseUnlock
    BY <2>1, <2>4, <2>9
    DEF CloseUnlock, CloseAt, CloseInv, CloseSettlesCalls, CloseJoinsDrains,
        Unsettled
  <2>10. CASE CloseReturn
    BY <2>1, <2>2, <2>4, <2>10
    DEF CloseReturn, CloseAt, Drained, CloseInv, CloseSettlesCalls,
        CloseJoinsDrains, Unsettled
  <2>11. \/ UNCHANGED closeVars \/ CloseBegin \/ CloseStep
    BY <1>2 DEF Next, CallStep, Refuse, Publish, SelectDone, SelectCtx,
             CallWinsOnce, Return, CtxDone, DrainStep, DrainRecv,
             DrainHandled, DrainAbort, ResponderStep, SendChunk, SendReply,
             Exhaust, GraceFinalize, Finalize, InboxStep, OnInbox,
             InboxFinalize, EnqueueLock, EnqueueSend, EnqueueDrop,
             EnqueueFull, EnqueueEvict, FinalizeLocked, InboxStop,
             FailureStep, OnFailure, FailureFinalize, FailureStop, vars
  <2> QED
    BY <2>5, <2>6, <2>7, <2>8, <2>9, <2>10, <2>11 DEF CloseStep
<1> QED BY <1>1, <1>2

(* The strengthening is an invariant of CloseContext racing calls, replies *)
(* and onFailure.                                                          *)
LEMMA CloseInvCorrect == Spec => []CloseInv
<1>1. Init => CloseInv
  BY DEF Init, CloseInv, CloseSettlesCalls, CloseJoinsDrains, Unsettled
<1> QED BY <1>1, CloseInvStep, TypeCorrect, PTL DEF Spec

(* After CloseContext has walked the pending map every waiting call has    *)
(* its result, or onFailure is giving it one, however calls, replies and   *)
(* failures interleave with the walk.                                      *)
THEOREM CloseSettles == Spec => []CloseSettlesCalls
BY CloseInvCorrect, PTL DEF CloseInv

(* A clean CloseContext has joined every drain goroutine, for good.        *)
THEOREM CloseJoins == Spec => []CloseJoinsDrains
BY CloseInvCorrect, PTL DEF CloseInv
-----------------------------------------------------------------------------
(* What CallStream promises about chunks.  A chunk travels from the inbox  *)
(* topic through enqueue and the buffered channel of its call to the drain *)
(* goroutine, which calls the callback.  First that its order survives     *)
(* every policy, then that BufferBlock loses nothing and that a reply does *)
(* not overtake its chunks.                                                *)

(* The goroutine of c has registered its call (Call under closeMu).        *)
Begun(c) == pc[c] \notin {"idle", "refused"}

(* The inbox goroutine is inside enqueue with a chunk of c.                *)
Feeding(c) == /\ inboxAt \in {"lock", "send", "evict", "overflow"}
              /\ inboxMsg.call = c

(* What the callback of c has seen and what its stream holds has numbers   *)
(* below n.                                                                *)
Before(c, n) == /\ \A i \in DOMAIN handled[c] : handled[c][i] < n
                /\ \A i \in DOMAIN stream[c] : stream[c][i] < n

(* The channel of a call holds its chunks in the order of their numbers,   *)
(* all of them after those that the callback has seen.                     *)
StreamInOrder ==
  \A c \in Calls :
    /\ \A i, j \in DOMAIN stream[c] : i < j => stream[c][i] < stream[c][j]
    /\ \A i \in DOMAIN handled[c], j \in DOMAIN stream[c] : handled[c][i] < stream[c][j]
    /\ Before(c, chunks[c] + 1)

(* The chunk inside enqueue comes after everything its call has taken.     *)
FeedInOrder ==
  \A c \in Calls : Feeding(c) => Before(c, inboxMsg.seq) /\ inboxMsg.seq <= chunks[c]

(* A queued message carries a number its responder has reached; a queued   *)
(* chunk comes after all that its call has taken and after the chunk       *)
(* inside enqueue.                                                         *)
InPlace(m) ==
  /\ m.seq <= chunks[m.call]
  /\ m.kind = "chunk" => /\ m.seq > 0 /\ Before(m.call, m.seq)
                         /\ Feeding(m.call) => inboxMsg.seq < m.seq

(* The inbox topic keeps the order in which a responder publishes: a chunk *)
(* has a higher number than every message of its call queued before it.    *)
QueueInOrder ==
  /\ \A i \in DOMAIN inboxQ : InPlace(inboxQ[i])
  /\ \A i, j \in DOMAIN inboxQ :
       i < j /\ inboxQ[j].call = inboxQ[i].call /\ inboxQ[j].kind = "chunk"
         => inboxQ[i].seq < inboxQ[j].seq

(* The inductive invariant behind ChunksInOrder: the numbers of a call     *)
(* rise along the way of a chunk, from the topic through enqueue and the   *)
(* stream to the callback.                                                 *)
Order == ChunksInOrder /\ StreamInOrder /\ FeedInOrder /\ QueueInOrder

-----------------------------------------------------------------------------
(* Taking the first element of a queue or a channel.                       *)
LEMMA HeadAndTail ==
  ASSUME NEW S, NEW s \in Seq(S), s # <<>>
  PROVE  /\ 1 \in DOMAIN s /\ Head(s) = s[1] /\ Tail(s) \in Seq(S)
         /\ Len(Tail(s)) = Len(s) - 1 /\ DOMAIN s = 1 .. Len(s) /\ Len(s) \in Nat
         /\ DOMAIN Tail(s) = 1 .. Len(s) - 1
         /\ \A i \in DOMAIN Tail(s) : i + 1 \in DOMAIN s /\ Tail(s)[i] = s[i + 1]
OBVIOUS

(* Adding an element to a queue or a channel.                              *)
LEMMA AppendElements ==
  ASSUME NEW S, NEW s \in Seq(S), NEW e \in S
  PROVE  /\ Append(s, e) \in Seq(S) /\ DOMAIN s = 1 .. Len(s) /\ Len(s) \in Nat
         /\ DOMAIN Append(s, e) = 1 .. Len(s) + 1 /\ Len(Append(s, e)) = Len(s) + 1
         /\ \A i \in DOMAIN s : Append(s, e)[i] = s[i]
         /\ Append(s, e)[Len(s) + 1] = e
OBVIOUS

(* What TypeOK says of the chunks of one call.                             *)
LEMMA ChunkNumbers ==
  ASSUME TypeOK, NEW c \in Calls
  PROVE  /\ stream[c] \in Seq(Nat) /\ handled[c] \in Seq(Nat) /\ chunks[c] \in Nat
         /\ \A i \in DOMAIN stream[c] : stream[c][i] \in Nat
         /\ \A i \in DOMAIN handled[c] : handled[c][i] \in Nat
         /\ DOMAIN stream[c] = 1 .. Len(stream[c]) /\ Len(stream[c]) \in Nat
         /\ DOMAIN handled[c] = 1 .. Len(handled[c]) /\ Len(handled[c]) \in Nat
<1>1. stream[c] \in Seq(Nat) /\ handled[c] \in Seq(Nat) /\ chunks[c] \in Nat
  BY DEF TypeOK, StreamTypes, BusTypes
<1> QED BY <1>1

(* What TypeOK says of the messages on the inbox topic.                    *)
LEMMA QueueElements ==
  ASSUME TypeOK
  PROVE  /\ inboxQ \in Seq(Messages) /\ DOMAIN inboxQ = 1 .. Len(inboxQ) /\ Len(inboxQ) \in Nat
         /\ inboxMsg.seq \in Nat
         /\ \A i \in DOMAIN inboxQ :
              /\ inboxQ[i] \in Messages /\ inboxQ[i].call \in Calls /\ inboxQ[i].seq \in Nat
              /\ chunks[inboxQ[i].call] \in Nat
<1>1. inboxQ \in Seq(Messages) /\ inboxMsg.seq \in Nat
  BY DEF TypeOK, InboxTypes
<1>2. DOMAIN inboxQ = 1 .. Len(inboxQ) /\ Len(inboxQ) \in Nat
      /\ \A i \in DOMAIN inboxQ : inboxQ[i] \in Messages
  BY <1>1
<1>3. \A m \in Messages : m.call \in Calls /\ m.seq \in Nat /\ chunks[m.call] \in Nat
  BY DEF Messages, TypeOK, BusTypes
<1> QED BY <1>1, <1>2, <1>3

(* Taking chunks out of streams at their front, or emptying them (the      *)
(* drain goroutine, an eviction), keeps the order.                         *)
LEMMA OrderFewer ==
  ASSUME TypeOK, Order, UNCHANGED <<handled, inboxQ, chunks>>,
         \A c \in Calls : \E k \in Nat :
           \A i \in DOMAIN stream'[c] : i + k \in DOMAIN stream[c] /\ stream'[c][i] = stream[c][i + k],
         \A c \in Calls : DOMAIN stream'[c] \subseteq Nat,
         \A c \in Calls : Feeding(c)' => Feeding(c) /\ inboxMsg' = inboxMsg
  PROVE  Order'
<1>1. \A c \in Calls, n \in Nat : Before(c, n) => Before(c, n)'
  BY DEF Before
<1>2. ChunksInOrder'
  BY DEF Order, ChunksInOrder
<1>3. StreamInOrder'
  <2> SUFFICES ASSUME NEW c \in Calls
               PROVE  /\ \A i, j \in DOMAIN stream'[c] : i < j => stream'[c][i] < stream'[c][j]
                      /\ \A i \in DOMAIN handled[c], j \in DOMAIN stream'[c] : handled[c][i] < stream'[c][j]
                      /\ Before(c, chunks[c] + 1)'
    BY DEF StreamInOrder
  <2>1. chunks[c] + 1 \in Nat
    BY ChunkNumbers
  <2>2. PICK k \in Nat : \A i \in DOMAIN stream'[c] :
          i + k \in DOMAIN stream[c] /\ stream'[c][i] = stream[c][i + k]
    OBVIOUS
  <2>3. \A i, j \in DOMAIN stream'[c] : i < j => i + k < j + k
    BY <2>2
  <2> QED BY <1>1, <2>1, <2>2, <2>3 DEF Order, StreamInOrder
<1>4. FeedInOrder'
  BY <1>1, QueueElements DEF Order, FeedInOrder
<1>5. QueueInOrder'
  <2>1. \A i \in DOMAIN inboxQ : inboxQ[i].call \in Calls /\ inboxQ[i].seq \in Nat
    BY QueueElements
  <2>2. \A i \in DOMAIN inboxQ : InPlace(inboxQ[i])'
    BY <1>1, <2>1 DEF Order, QueueInOrder, InPlace
  <2> QED BY <2>2 DEF Order, QueueInOrder
<1> QED BY <1>2, <1>3, <1>4, <1>5 DEF Order

(* A step that touches neither chunks nor messages, and hands no new       *)
(* message to enqueue, keeps the order.                                    *)
LEMMA OrderSame ==
  ASSUME TypeOK, Order, UNCHANGED <<handled, stream, inboxQ, chunks>>,
         \A c \in Calls : Feeding(c)' => Feeding(c) /\ inboxMsg' = inboxMsg
  PROVE  Order'
<1>1. ASSUME NEW c \in Calls
      PROVE  /\ DOMAIN stream'[c] \subseteq Nat
             /\ \E k \in Nat : \A i \in DOMAIN stream'[c] :
                  i + k \in DOMAIN stream[c] /\ stream'[c][i] = stream[c][i + k]
  <2>1. DOMAIN stream'[c] \subseteq Nat
    BY ChunkNumbers
  <2>2. \A i \in DOMAIN stream'[c] : i + 0 = i
    BY <2>1
  <2>3. \E k \in Nat : \A i \in DOMAIN stream'[c] :
          i + k \in DOMAIN stream[c] /\ stream'[c][i] = stream[c][i + k]
    <3> WITNESS 0 \in Nat
    <3> QED BY <2>2
  <2> QED BY <2>1, <2>3
<1> QED BY <1>1, OrderFewer

(* A message at the end of the queue.                                      *)
LEMMA AppendOrder ==
  ASSUME TypeOK, Order, NEW new \in Messages, inboxQ' = Append(inboxQ, new),
         UNCHANGED <<handled, stream, inboxAt, inboxMsg>>,
         chunks' \in [Calls -> Nat], \A d \in Calls : chunks[d] <= chunks'[d],
         new.seq = chunks'[new.call],
         new.kind = "chunk" => new.seq = chunks[new.call] + 1
  PROVE  Order'
<1> DEFINE n == Len(inboxQ)
<1>1. /\ n \in Nat /\ DOMAIN inboxQ = 1 .. n /\ DOMAIN inboxQ' = 1 .. n + 1
      /\ \A i \in DOMAIN inboxQ : inboxQ'[i] = inboxQ[i]
      /\ inboxQ'[n + 1] = new
  BY AppendElements, QueueElements
<1>2. \A d \in Calls : /\ chunks[d] \in Nat /\ chunks'[d] \in Nat
                       /\ Feeding(d)' = Feeding(d)
                       /\ \A k \in Nat : Before(d, k)' = Before(d, k)
  BY ChunkNumbers DEF Feeding, Before
<1>3. \A d \in Calls : \A k, l \in Nat : k <= l /\ Before(d, k) => Before(d, l)
  BY ChunkNumbers DEF Before
<1>4. new.call \in Calls /\ new.seq \in Nat
  BY DEF Messages
<1>5. ChunksInOrder'
  BY DEF Order, ChunksInOrder
<1>6. StreamInOrder'
  <2>1. ASSUME NEW d \in Calls PROVE Before(d, chunks[d] + 1)'
    <3>1. Before(d, chunks[d] + 1) /\ chunks[d] + 1 \in Nat
      BY <1>2 DEF Order, StreamInOrder
    <3>2. ASSUME NEW k \in Nat, chunks[d] + 1 <= k PROVE Before(d, k)'
      BY <1>2, <1>3, <3>1, <3>2
    <3>3. chunks'[d] + 1 \in Nat /\ chunks[d] + 1 <= chunks'[d] + 1
      BY <1>2
    <3> QED BY <3>2, <3>3 DEF Before
  <2> QED BY <2>1 DEF Order, StreamInOrder
<1>7. FeedInOrder'
  <2> SUFFICES ASSUME NEW d \in Calls, Feeding(d)
               PROVE  Before(d, inboxMsg.seq)' /\ inboxMsg.seq <= chunks'[d]
    BY <1>2 DEF FeedInOrder
  <2> QED BY <1>2, QueueElements DEF Order, FeedInOrder, Before
<1>8. QueueInOrder'
  <2>1. \A i \in DOMAIN inboxQ : InPlace(inboxQ[i])'
    BY <1>2, QueueElements DEF Order, QueueInOrder, InPlace
  <2>2. InPlace(new)'
    <3>1. CASE new.kind = "chunk"
      <4>1. Before(new.call, new.seq)
        BY <1>4, <3>1 DEF Order, StreamInOrder
      <4>2. Feeding(new.call) => inboxMsg.seq < new.seq
        BY <1>2, <1>4, <3>1, QueueElements DEF Order, FeedInOrder
      <4> QED BY <1>2, <1>4, <3>1, <4>1, <4>2 DEF InPlace
    <3>2. CASE new.kind # "chunk"
      BY <1>2, <1>4, <3>2 DEF InPlace
    <3> QED BY <3>1, <3>2
  <2>3. \A i \in DOMAIN inboxQ : inboxQ[i].call = new.call /\ new.kind = "chunk"
                                   => inboxQ[i].seq < new.seq
    BY <1>2, <1>4, QueueElements DEF Order, QueueInOrder, InPlace
  <2>4. \A i \in DOMAIN inboxQ' : i \in DOMAIN inboxQ \/ i = n + 1
    BY <1>1
  <2>5. ASSUME NEW i \in DOMAIN inboxQ' PROVE InPlace(inboxQ[i])'
    <3>1. CASE i \in DOMAIN inboxQ
      BY <2>1, <3>1
    <3>2. CASE i = n + 1
      BY <1>1, <2>2, <3>2 DEF InPlace
    <3> QED BY <2>4, <3>1, <3>2
  <2>6. ASSUME NEW i \in DOMAIN inboxQ', NEW j \in DOMAIN inboxQ', i < j,
               inboxQ'[j].call = inboxQ'[i].call, inboxQ'[j].kind = "chunk"
        PROVE  inboxQ'[i].seq < inboxQ'[j].seq
    <3>1. i \in DOMAIN inboxQ
      BY <1>1, <2>6
    <3>2. CASE j \in DOMAIN inboxQ
      BY <1>1, <2>6, <3>1, <3>2 DEF Order, QueueInOrder
    <3>3. CASE j = n + 1
      BY <1>1, <2>3, <2>6, <3>1, <3>3
    <3> QED BY <2>4, <3>2, <3>3
  <2> QED BY <2>5, <2>6 DEF QueueInOrder
<1> QED BY <1>5, <1>6, <1>7, <1>8 DEF Order

(* A chunk is numbered after all that was published to its call before, a  *)
(* reply with the last chunk before it.                                    *)
LEMMA SendOrder ==
  ASSUME TypeOK, Order, NEW c \in Calls, SendChunk(c) \/ SendReply(c)
  PROVE  Order'
<1>1. chunks \in [Calls -> Nat]
  BY DEF TypeOK, BusTypes
<1>2. CASE SendChunk(c)
  <2> DEFINE new == [call |-> c, kind |-> "chunk", seq |-> chunks[c] + 1]
  <2>1. /\ chunks' = [chunks EXCEPT ![c] = @ + 1] /\ inboxQ' = Append(inboxQ, new)
        /\ UNCHANGED <<handled, stream, inboxAt, inboxMsg>>
    BY <1>2 DEF SendChunk, streamVars, inboxVars
  <2>2. /\ new \in Messages /\ chunks' \in [Calls -> Nat]
        /\ \A d \in Calls : chunks[d] <= chunks'[d]
        /\ new.seq = chunks'[new.call] /\ new.seq = chunks[new.call] + 1
    BY <1>1, <2>1 DEF Messages
  <2> HIDE DEF new
  <2> QED BY <2>1, <2>2, AppendOrder
<1>3. CASE SendReply(c)
  <2>1. PICK k \in ReplyKinds :
          inboxQ' = Append(inboxQ, [call |-> c, kind |-> k, seq |-> chunks[c]])
    BY <1>3 DEF SendReply
  <2> DEFINE new == [call |-> c, kind |-> k, seq |-> chunks[c]]
  <2>2. UNCHANGED <<handled, stream, inboxAt, inboxMsg, chunks>>
    BY <1>3 DEF SendReply, streamVars, inboxVars
  <2>3. /\ new \in Messages /\ new.seq = chunks[new.call] /\ new.kind # "chunk"
        /\ \A d \in Calls : chunks[d] <= chunks[d]
    BY <1>1, CallerAssumption DEF Messages
  <2>4. inboxQ' = Append(inboxQ, new)
    BY <2>1
  <2> HIDE DEF new
  <2> QED BY <1>1, <2>2, <2>3, <2>4, AppendOrder
<1> QED BY <1>2, <1>3

(* onInbox takes the first message of the topic: what its call has taken   *)
(* comes before it, what is left on the topic after it.                    *)
LEMMA OnInboxOrder == ASSUME TypeOK, Order, OnInbox PROVE Order'
<1> DEFINE m == Head(inboxQ)
<1>1. /\ inboxQ # <<>> /\ inboxQ' = Tail(inboxQ) /\ UNCHANGED <<handled, stream, chunks>>
  BY DEF OnInbox, streamVars
<1>2. /\ inboxQ \in Seq(Messages) /\ m = inboxQ[1] /\ 1 \in DOMAIN inboxQ
      /\ DOMAIN inboxQ' = 1 .. Len(inboxQ) - 1 /\ Len(inboxQ) \in Nat
      /\ \A i \in DOMAIN inboxQ' : i + 1 \in DOMAIN inboxQ /\ inboxQ'[i] = inboxQ[i + 1]
  BY <1>1, HeadAndTail, QueueElements
<1>3. \A c \in Calls : Feeding(c)' => inboxMsg' = m /\ m.call = c /\ m.kind = "chunk"
  <2>1. CASE m.call \in pending
    BY <2>1 DEF OnInbox, Route, Feeding, NoMessage
  <2>2. CASE m.call \notin pending
    BY <2>2 DEF OnInbox, Feeding
  <2> QED BY <2>1, <2>2
<1>4. \A c \in Calls, k \in Nat : Before(c, k)' = Before(c, k)
  BY <1>1 DEF Before
<1>5. ChunksInOrder'
  BY <1>1 DEF Order, ChunksInOrder
<1>6. StreamInOrder'
  BY <1>1 DEF Order, StreamInOrder, Before
<1>7. FeedInOrder'
  <2> SUFFICES ASSUME NEW c \in Calls, Feeding(c)'
               PROVE  Before(c, inboxMsg.seq)' /\ inboxMsg'.seq <= chunks'[c]
    BY DEF FeedInOrder
  <2>1. InPlace(inboxQ[1]) /\ m.seq \in Nat
    BY <1>2, QueueElements DEF Order, QueueInOrder
  <2> QED BY <1>1, <1>2, <1>3, <2>1 DEF InPlace, Before
<1>8. QueueInOrder'
  <2>1. ASSUME NEW i \in DOMAIN inboxQ' PROVE InPlace(inboxQ[i])'
    <3> DEFINE q == inboxQ[i + 1]
    <3>1. /\ i \in Nat /\ i + 1 \in DOMAIN inboxQ /\ 1 < i + 1 /\ inboxQ'[i] = q
          /\ q.call \in Calls /\ q.seq \in Nat
      BY <1>2, QueueElements
    <3>2. InPlace(q)
      BY <3>1 DEF Order, QueueInOrder
    <3>3. q.kind = "chunk" /\ m.call = q.call => m.seq < q.seq
      BY <1>2, <3>1 DEF Order, QueueInOrder
    <3> HIDE DEF q
    <3> QED BY <1>1, <1>3, <1>4, <3>1, <3>2, <3>3 DEF InPlace
  <2>2. ASSUME NEW i \in DOMAIN inboxQ', NEW j \in DOMAIN inboxQ', i < j,
               inboxQ'[j].call = inboxQ'[i].call, inboxQ'[j].kind = "chunk"
        PROVE  inboxQ'[i].seq < inboxQ'[j].seq
    <3>1. i + 1 < j + 1
      BY <1>2, <2>2
    <3> QED BY <1>2, <2>2, <3>1 DEF Order, QueueInOrder
  <2> QED BY <2>1, <2>2 DEF QueueInOrder
<1> QED BY <1>5, <1>6, <1>7, <1>8 DEF Order

(* The send of enqueue puts its chunk behind all that the call has taken.  *)
LEMMA EnqueueSendOrder ==
  ASSUME TypeOK, Order, EnqueueSend,
         NEW c \in Calls, c = inboxMsg.call, NEW k \in Nat, k = inboxMsg.seq
  PROVE  Order'
<1> DEFINE n == Len(stream[c])
<1>1. /\ inboxAt = "send" /\ stream' = [stream EXCEPT ![c] = Append(@, k)]
      /\ inboxAt' = "idle" /\ UNCHANGED <<handled, inboxQ, chunks>>
  BY DEF EnqueueSend, InboxIdle, busVars
<1>2. Feeding(c) /\ Before(c, k) /\ k <= chunks[c] /\ \A d \in Calls : ~Feeding(d)'
  BY <1>1 DEF Feeding, Order, FeedInOrder
<1>3. /\ n \in Nat /\ DOMAIN stream[c] = 1 .. n /\ DOMAIN stream'[c] = 1 .. n + 1
      /\ \A i \in 1 .. n : stream'[c][i] = stream[c][i]
      /\ stream'[c][n + 1] = k
      /\ \A d \in Calls \ {c} : stream'[d] = stream[d]
  <2>1. stream \in [Calls -> Seq(Nat)] /\ stream[c] \in Seq(Nat)
    BY DEF TypeOK, StreamTypes
  <2>2. stream'[c] = Append(stream[c], k) /\ \A d \in Calls \ {c} : stream'[d] = stream[d]
    BY <1>1, <2>1
  <2> QED BY <2>1, <2>2, AppendElements
<1> HIDE DEF n
<1>4. /\ \A d \in Calls \ {c}, l \in Nat : Before(d, l)' = Before(d, l)
      /\ \A l \in Nat : Before(c, l) /\ k < l => Before(c, l)'
  <2>1. \A d \in Calls \ {c}, l \in Nat : Before(d, l)' = Before(d, l)
    BY <1>1, <1>3 DEF Before
  <2>2. ASSUME NEW l \in Nat, Before(c, l), k < l PROVE Before(c, l)'
    <3>1. \A i \in 1 .. n + 1 : i \in 1 .. n \/ i = n + 1
      BY <1>3
    <3> QED BY <1>1, <1>3, <2>2, <3>1 DEF Before
  <2> QED BY <2>1, <2>2
<1>5. ChunksInOrder' /\ FeedInOrder'
  BY <1>1, <1>2 DEF Order, ChunksInOrder, FeedInOrder
<1>6. StreamInOrder'
  <2> SUFFICES ASSUME NEW d \in Calls
               PROVE  /\ \A i, j \in DOMAIN stream'[d] : i < j => stream'[d][i] < stream'[d][j]
                      /\ \A i \in DOMAIN handled[d], j \in DOMAIN stream'[d] :
                           handled[d][i] < stream'[d][j]
                      /\ Before(d, chunks[d] + 1)'
    BY <1>1 DEF StreamInOrder
  <2>1. CASE d # c
    BY <1>1, <1>3, <2>1 DEF Order, StreamInOrder, Before
  <2>2. CASE d = c
    <3>1. \A i, j \in 1 .. n : i < j => stream[c][i] < stream[c][j]
      BY <1>3 DEF Order, StreamInOrder
    <3>2. \A i \in 1 .. n : stream[c][i] < k
      BY <1>2, <1>3 DEF Before
    <3>3. \A i, j \in 1 .. n + 1 : i < j => i \in 1 .. n /\ (j \in 1 .. n \/ j = n + 1)
      BY <1>3
    <3>4. \A i, j \in DOMAIN stream'[c] : i < j => stream'[c][i] < stream'[c][j]
      BY <1>3, <3>1, <3>2, <3>3
    <3>5. \A i \in DOMAIN handled[c], j \in 1 .. n + 1 : handled[c][i] < stream'[c][j]
      <4>1. \A j \in 1 .. n + 1 : j \in 1 .. n \/ j = n + 1
        BY <1>3
      <4>2. \A i \in DOMAIN handled[c], j \in 1 .. n : handled[c][i] < stream'[c][j]
        BY <1>3 DEF Order, StreamInOrder
      <4>3. \A i \in DOMAIN handled[c] : handled[c][i] < stream'[c][n + 1]
        BY <1>2, <1>3 DEF Before
      <4> QED BY <4>1, <4>2, <4>3
    <3>6. Before(c, chunks[c] + 1)'
      <4>1. chunks[c] + 1 \in Nat /\ k < chunks[c] + 1
        BY <1>2, ChunkNumbers
      <4>2. Before(c, chunks[c] + 1)
        BY DEF Order, StreamInOrder
      <4>3. \A l \in Nat : l = chunks[c] + 1 => Before(c, l)'
        BY <1>4, <4>1, <4>2
      <4> QED BY <1>1, <4>1, <4>3 DEF Before
    <3> QED BY <1>3, <2>2, <3>4, <3>5, <3>6
  <2> QED BY <2>1, <2>2
<1>7. QueueInOrder'
  <2>1. ASSUME NEW i \in DOMAIN inboxQ PROVE InPlace(inboxQ[i])'
    <3>1. inboxQ[i].call \in Calls /\ inboxQ[i].seq \in Nat /\ InPlace(inboxQ[i])
      BY QueueElements DEF Order, QueueInOrder
    <3>2. inboxQ[i].kind = "chunk" /\ inboxQ[i].call = c => k < inboxQ[i].seq
      BY <1>2, <3>1 DEF InPlace
    <3>3. \A d \in Calls, l \in Nat :
            d = inboxQ[i].call /\ l = inboxQ[i].seq /\ inboxQ[i].kind = "chunk" => Before(d, l)'
      BY <1>4, <3>1, <3>2 DEF InPlace
    <3> QED BY <1>1, <1>2, <3>1, <3>3 DEF InPlace, Before
  <2> QED BY <1>1, <2>1 DEF Order, QueueInOrder
<1> QED BY <1>5, <1>6, <1>7 DEF Order

(* The drain goroutine hands the first chunk of the stream to the          *)
(* callback.                                                               *)
LEMMA DrainRecvOrder ==
  ASSUME TypeOK, Order, NEW c \in Calls, DrainRecv(c)
  PROVE  Order'
<1>1. UNCHANGED <<inboxAt, inboxMsg, inboxQ, chunks>>
  BY DEF DrainRecv, inboxVars, busVars
<1>2. \A d \in Calls : Feeding(d)' = Feeding(d)
  BY <1>1 DEF Feeding
<1>3. CASE stream[c] = <<>>
  <2>1. UNCHANGED <<handled, stream>>
    BY <1>3 DEF DrainRecv
  <2> QED BY <1>1, <1>2, <2>1, OrderSame
<1>4. CASE stream[c] # <<>>
  <2> DEFINE h == Head(stream[c])
             n == Len(handled[c])
  <2>1. /\ handled' = [handled EXCEPT ![c] = Append(@, h)]
        /\ stream' = [stream EXCEPT ![c] = Tail(@)]
    BY <1>4 DEF DrainRecv
  <2>2. /\ stream[c] \in Seq(Nat) /\ handled[c] \in Seq(Nat)
        /\ handled'[c] = Append(handled[c], h) /\ stream'[c] = Tail(stream[c])
        /\ \A d \in Calls \ {c} : handled'[d] = handled[d] /\ stream'[d] = stream[d]
    BY <2>1 DEF TypeOK, StreamTypes
  <2>3. /\ 1 \in DOMAIN stream[c] /\ h = stream[c][1] /\ h \in Nat
        /\ DOMAIN stream'[c] \subseteq Nat \ {0}
        /\ \A i \in DOMAIN stream'[c] : i + 1 \in DOMAIN stream[c] /\ stream'[c][i] = stream[c][i + 1]
    BY <1>4, <2>2, HeadAndTail
  <2>4. /\ n \in Nat /\ DOMAIN handled[c] = 1 .. n /\ DOMAIN handled'[c] = 1 .. n + 1
        /\ \A i \in 1 .. n : handled'[c][i] = handled[c][i]
        /\ handled'[c][n + 1] = h
    BY <2>2, <2>3, AppendElements
  <2> HIDE DEF h, n
  <2>5. \A i \in 1 .. n + 1 : i \in 1 .. n \/ i = n + 1
    BY <2>4
  <2>6. ASSUME NEW d \in Calls, NEW k \in Nat, Before(d, k) PROVE Before(d, k)'
    <3>1. CASE d # c
      BY <2>2, <2>6, <3>1 DEF Before
    <3>2. CASE d = c
      BY <2>3, <2>4, <2>5, <2>6, <3>2 DEF Before
    <3> QED BY <3>1, <3>2
  <2>7. ChunksInOrder'
    <3> SUFFICES ASSUME NEW d \in Calls, NEW i \in DOMAIN handled'[d], NEW j \in DOMAIN handled'[d],
                        i < j
                 PROVE  handled'[d][i] < handled'[d][j]
      BY DEF ChunksInOrder
    <3>1. CASE d # c
      BY <2>2, <3>1 DEF Order, ChunksInOrder
    <3>2. CASE d = c
      <4>1. i \in 1 .. n /\ (j \in 1 .. n \/ j = n + 1)
        BY <2>4, <3>2
      <4>2. \A l \in 1 .. n : handled[c][l] < h
        BY <2>3, <2>4 DEF Order, StreamInOrder
      <4>3. \A l, o \in 1 .. n : l < o => handled[c][l] < handled[c][o]
        BY <2>4 DEF Order, ChunksInOrder
      <4> QED BY <2>4, <3>2, <4>1, <4>2, <4>3
    <3> QED BY <3>1, <3>2
  <2>8. StreamInOrder'
    <3> SUFFICES ASSUME NEW d \in Calls
                 PROVE  /\ \A i, j \in DOMAIN stream'[d] : i < j => stream'[d][i] < stream'[d][j]
                        /\ \A i \in DOMAIN handled'[d], j \in DOMAIN stream'[d] :
                             handled'[d][i] < stream'[d][j]
                        /\ Before(d, chunks[d] + 1)'
      BY <1>1 DEF StreamInOrder
    <3>1. Before(d, chunks[d] + 1)'
      <4>1. chunks[d] + 1 \in Nat /\ Before(d, chunks[d] + 1)
        BY ChunkNumbers DEF Order, StreamInOrder
      <4>2. \A k \in Nat : Before(d, k) => Before(d, k)'
        BY <2>6
      <4> QED BY <1>1, <4>1, <4>2 DEF Before
    <3>2. CASE d # c
      BY <2>2, <3>1, <3>2 DEF Order, StreamInOrder
    <3>3. CASE d = c
      <4>1. \A i, j \in DOMAIN stream'[c] : i < j => i + 1 < j + 1
        BY <2>3
      <4>2. \A i, j \in DOMAIN stream'[c] : i < j => stream'[c][i] < stream'[c][j]
        BY <2>3, <4>1 DEF Order, StreamInOrder
      <4>3. \A j \in DOMAIN stream'[c] : 1 < j + 1 /\ h < stream'[c][j]
        BY <2>3 DEF Order, StreamInOrder
      <4>4. \A i \in 1 .. n, j \in DOMAIN stream'[c] : handled[c][i] < stream'[c][j]
        BY <2>3, <2>4 DEF Order, StreamInOrder
      <4> QED BY <2>4, <2>5, <3>1, <3>3, <4>2, <4>3, <4>4
    <3> QED BY <3>2, <3>3
  <2>9. FeedInOrder'
    BY <1>1, <1>2, <2>6, QueueElements DEF Order, FeedInOrder
  <2>10. QueueInOrder'
    <3>1. ASSUME NEW i \in DOMAIN inboxQ PROVE InPlace(inboxQ[i])'
      BY <1>1, <1>2, <2>6, QueueElements DEF Order, QueueInOrder, InPlace
    <3> QED BY <1>1, <3>1 DEF Order, QueueInOrder
  <2> QED BY <2>7, <2>8, <2>9, <2>10 DEF Order
<1> QED BY <1>3, <1>4

(* BufferDropOldest evicts the first chunk of the stream.                  *)
LEMMA EvictOrder == ASSUME TypeOK, Order, EnqueueEvict PROVE Order'
<1>1. /\ stream' = [stream EXCEPT ![inboxMsg.call] = IF @ = <<>> THEN @ ELSE Tail(@)]
      /\ inboxAt = "evict" /\ inboxAt' = "send" /\ inboxMsg' = inboxMsg
      /\ UNCHANGED <<handled, inboxQ, chunks>>
  BY DEF EnqueueEvict, InboxAt, busVars
<1>2. \A c \in Calls : Feeding(c)' => Feeding(c) /\ inboxMsg' = inboxMsg
  BY <1>1 DEF Feeding
<1>3. ASSUME NEW c \in Calls
      PROVE  /\ DOMAIN stream'[c] \subseteq Nat
             /\ \E k \in Nat : \A i \in DOMAIN stream'[c] :
                  i + k \in DOMAIN stream[c] /\ stream'[c][i] = stream[c][i + k]
  <2>1. stream[c] \in Seq(Nat) /\ DOMAIN stream[c] \subseteq Nat
    BY ChunkNumbers
  <2>2. stream'[c] = stream[c] \/ (stream[c] # <<>> /\ stream'[c] = Tail(stream[c]))
    BY <1>1 DEF TypeOK, StreamTypes
  <2>3. CASE stream'[c] = stream[c]
    <3>1. \A i \in DOMAIN stream'[c] : i + 0 = i
      BY <2>1, <2>3
    <3>2. \E k \in Nat : \A i \in DOMAIN stream'[c] :
            i + k \in DOMAIN stream[c] /\ stream'[c][i] = stream[c][i + k]
      <4> WITNESS 0 \in Nat
      <4> QED BY <2>3, <3>1
    <3> QED BY <2>1, <2>3, <3>2
  <2>4. CASE stream[c] # <<>> /\ stream'[c] = Tail(stream[c])
    BY <2>1, <2>4, HeadAndTail
  <2> QED BY <2>2, <2>3, <2>4
<1> QED BY <1>1, <1>2, <1>3, OrderFewer

(* The drain goroutine discards the stream after an error of the callback. *)
LEMMA DrainAbortOrder == ASSUME TypeOK, Order, NEW d \in Calls, DrainAbort(d) PROVE Order'
<1>1. UNCHANGED <<handled, inboxQ, chunks, inboxAt, inboxMsg>>
  BY DEF DrainAbort, inboxVars, busVars
<1>2. \A c \in Calls : Feeding(c)' => Feeding(c) /\ inboxMsg' = inboxMsg
  BY <1>1 DEF Feeding
<1>3. CASE UNCHANGED stream
  BY <1>1, <1>2, <1>3, OrderSame
<1>4. CASE stream' = [stream EXCEPT ![d] = <<>>]
  <2>1. ASSUME NEW c \in Calls
        PROVE  /\ DOMAIN stream'[c] \subseteq Nat
               /\ \E k \in Nat : \A i \in DOMAIN stream'[c] :
                    i + k \in DOMAIN stream[c] /\ stream'[c][i] = stream[c][i + k]
    <3>1. stream'[c] = stream[c] \/ stream'[c] = <<>>
      BY <1>4 DEF TypeOK, StreamTypes
    <3>2. \A i \in DOMAIN stream[c] : i + 0 = i
      BY ChunkNumbers
    <3>3. \E k \in Nat : \A i \in DOMAIN stream'[c] :
            i + k \in DOMAIN stream[c] /\ stream'[c][i] = stream[c][i + k]
      <4> WITNESS 0 \in Nat
      <4> QED BY <3>1, <3>2
    <3> QED BY <3>1, <3>3, ChunkNumbers
  <2> QED BY <1>1, <1>2, <2>1, OrderFewer
<1> QED BY <1>3, <1>4 DEF DrainAbort

(* Every step keeps the order, one action at a time.                       *)
LEMMA OrderStep == ASSUME TypeOK, Order, [Next]_vars PROVE Order'
<1>1. ASSUME NEW c \in Calls, CallStep(c) PROVE Order'
  <2>1. UNCHANGED <<handled, stream, inboxQ, chunks, inboxAt, inboxMsg>>
    BY <1>1 DEF CallStep, Start, Refuse, Publish, SelectDone, SelectCtx, CallWinsOnce,
       Return, streamVars, inboxVars, busVars
  <2> QED BY <2>1, OrderSame DEF Feeding
<1>2. ASSUME NEW c \in Calls, CtxDone(c) \/ GraceFinalize(c) \/ Finalize(c) PROVE Order'
  <2>1. UNCHANGED <<handled, stream, inboxQ, chunks, inboxAt, inboxMsg>>
    BY <1>2 DEF CtxDone, GraceFinalize, Finalize, streamVars, inboxVars, busVars
  <2> QED BY <2>1, OrderSame DEF Feeding
<1>3. ASSUME NEW c \in Calls, DrainStep(c) PROVE Order'
  <2>1. CASE DrainHandled(c)
    <3>1. UNCHANGED <<handled, stream, inboxQ, chunks, inboxAt, inboxMsg>>
      BY <2>1 DEF DrainHandled, inboxVars, busVars
    <3> QED BY <3>1, OrderSame DEF Feeding
  <2> QED BY <1>3, <2>1, DrainRecvOrder, DrainAbortOrder DEF DrainStep
<1>4. ASSUME NEW c \in Calls, ResponderStep(c) PROVE Order'
  <2>1. CASE Exhaust(c)
    <3>1. UNCHANGED <<handled, stream, inboxQ, chunks, inboxAt, inboxMsg>>
      BY <2>1 DEF Exhaust, streamVars, inboxVars
    <3> QED BY <3>1, OrderSame DEF Feeding
  <2> QED BY <1>4, <2>1, SendOrder DEF ResponderStep
<1>5. CASE InboxStep
  <2>1. CASE InboxFinalize \/ EnqueueLock \/ EnqueueDrop \/ EnqueueFull \/ FinalizeLocked
             \/ InboxStop
    <3>1. UNCHANGED <<handled, stream, inboxQ, chunks>>
      BY <2>1 DEF InboxFinalize, EnqueueLock, EnqueueDrop, EnqueueFull, FinalizeLocked,
         InboxStop, streamVars, busVars
    <3>2. \A c \in Calls : Feeding(c)' => Feeding(c) /\ inboxMsg' = inboxMsg
      BY <2>1 DEF InboxFinalize, EnqueueLock, EnqueueDrop, EnqueueFull, FinalizeLocked,
         InboxStop, InboxIdle, InboxAt, inboxVars, Feeding
    <3> QED BY <3>1, <3>2, OrderSame
  <2>2. CASE EnqueueSend
    <3>1. inboxMsg.call \in Calls /\ inboxMsg.seq \in Nat
      BY <2>2 DEF EnqueueSend, TypeOK, InboxTypes, Messages
    <3> QED BY <2>2, <3>1, EnqueueSendOrder
  <2> QED BY <1>5, <2>1, <2>2, OnInboxOrder, EvictOrder DEF InboxStep
<1>6. CASE FailureStep \/ CloseBegin \/ CloseStep \/ UNCHANGED vars
  <2>1. UNCHANGED <<handled, stream, inboxQ, chunks, inboxAt, inboxMsg>>
    BY <1>6 DEF FailureStep, OnFailure, FailureFinalize, FailureStop, CloseBegin, CloseStep,
       CloseRange, CloseFinalize, CloseUnlock, CloseReturn, vars, streamVars, inboxVars, busVars
  <2> QED BY <2>1, OrderSame DEF Feeding
<1> QED BY <1>1, <1>2, <1>3, <1>4, <1>5, <1>6 DEF Next

(* The order holds in every reachable state.                               *)
LEMMA OrderCorrect == Spec => []Order
<1>1. Init => Order
  BY DEF Init, Order, ChunksInOrder, StreamInOrder, FeedInOrder, QueueInOrder, Feeding, Before
<1> QED BY <1>1, OrderStep, TypeCorrect, PTL DEF Spec

(* The callback of CallStream sees the chunks in the order in which they   *)
(* were published, each once, under every buffer policy, however their     *)
(* responder, the inbox goroutine, the drain goroutine, a full buffer and  *)
(* the end of the call interleave.                                         *)
THEOREM HandledInOrder == Spec => []ChunksInOrder
BY OrderCorrect, PTL DEF Order

-----------------------------------------------------------------------------
(* Nothing of c is in flight: no chunk, no reply, no drain goroutine, no   *)
(* message on the topic or in the hands of the inbox goroutine.            *)
Untouched(c) ==
  /\ chunks[c] = 0 /\ handled[c] = <<>> /\ stream[c] = <<>>
  /\ grace[c] = {} /\ drain[c] = "none" /\ ~Replied(c)
  /\ inboxAt \notin {"idle", "stopped"} => inboxMsg.call # c
  /\ \A i \in DOMAIN inboxQ : inboxQ[i].call # c

(* A call that Call has not registered is untouched, so registration       *)
(* starts from nothing (sdk/caller.go makes the pendingCall there).        *)
NothingBefore == \A c \in Calls : ~Begun(c) => Untouched(c)

(* The inbox goroutine evicts only for BufferDropOldest and finalizes only *)
(* unary calls, a lossless call has its drain goroutine, and a drain       *)
(* goroutine aborts only after its callback has failed.                    *)
ModeKept ==
  /\ inboxAt = "evict" => mode[inboxMsg.call] = "dropOldest"
  /\ inboxAt = "finalize" => mode[inboxMsg.call] = "unary"
  /\ \A c \in Calls : mode[c] = "block" => drain[c] # "none"
  /\ \A c \in Calls : drain[c] = "abort" => c \in failed

(* c streams with BufferBlock and its context is live.                     *)
Lossless(c) == mode[c] = "block" /\ ctx[c] = "live"

(* What Call knows where: a result is decided before the stream is closed, *)
(* the context has ended where Call gives up, and a call that returned a   *)
(* reply over BufferBlock has waited for its drain goroutine.              *)
Settled ==
  \A c \in Calls :
    /\ finalized[c] => verdict[c] # NoVerdict
    /\ pc[c] = "giveUp" => ctx[c] = "ended"
    /\ pc[c] \in {"return", "flush"} => finalized[c]
    /\ pc[c] = "return" => ~(Replied(c) /\ Streaming(c))
    /\ pc[c] = "returned" => finalized[c]
    /\ pc[c] = "returned" /\ Replied(c) /\ Lossless(c) => drain[c] = "exited"

(* How many chunks of c have reached its stream.                           *)
Taken(c) == Len(handled[c]) + Len(stream[c])

(* The number of the first chunk of c that is still on the topic.          *)
NextOne(c) == Taken(c) + (IF Feeding(c) THEN 2 ELSE 1)

(* The chunks of c are numbered without a gap: those the callback has      *)
(* seen, then those in the stream, then the one inside enqueue, then, as   *)
(* long as the call is pending, those on the topic.                        *)
Gapless(c) ==
  /\ \A i \in DOMAIN handled[c] : handled[c][i] = i
  /\ \A i \in DOMAIN stream[c] : stream[c][i] = Len(handled[c]) + i
  /\ Feeding(c) /\ ~finalized[c] => inboxMsg.seq = Taken(c) + 1
  /\ c \in pending /\ ~finalized[c] =>
       \A n \in NextOne(c) .. chunks[c] : \E i \in DOMAIN inboxQ :
         inboxQ[i] = [call |-> c, kind |-> "chunk", seq |-> n]

(* No lossless call has a gap.                                             *)
NoGap == \A c \in Calls : Lossless(c) => Gapless(c)

(* Every reply of c that is waiting for its grace timer, or has won        *)
(* doneOnce, was published after chunks that have all reached the stream;  *)
(* and a drain goroutine that exits leaves an empty, closed stream.        *)
Covered(c) ==
  /\ verdict[c] = NoVerdict => \A r \in grace[c] : r.seq <= Taken(c)
  /\ Replied(c) => verdict[c].seq <= Taken(c)
  /\ drain[c] = "exited" => stream[c] = <<>> /\ finalized[c]

(* Replies of lossless calls are covered until their callback fails.       *)
RepliesWait == \A c \in Calls : Lossless(c) /\ c \notin failed => Covered(c)

(* When doneOnce is won with an error no call gets a reply from it.        *)
LEMMA ErrIsNoReply ==
  ASSUME TypeOK, NEW d \in Calls, NEW k \in FailureKinds, WinOnce(d, Err(k)), NEW c \in Calls
  PROVE  /\ Replied(c)' = Replied(c)
         /\ Replied(c) => verdict'[c] = verdict[c]
<1>1. /\ verdict \in [Calls -> Results] /\ verdict[d] = NoVerdict
      /\ verdict' = [verdict EXCEPT ![d] = Err(k)]
  BY DEF TypeOK, OnceTypes, WinOnce
<1>2. NoVerdict.kind \notin ReplyKinds /\ Err(k).kind \notin ReplyKinds
  BY CallerAssumption DEF NoVerdict, Err, FailureKinds
<1>3. CASE c = d
  BY <1>1, <1>2, <1>3 DEF Replied
<1>4. CASE c # d
  BY <1>1, <1>4 DEF Replied
<1> QED BY <1>3, <1>4

(* A call that is registered stays registered.                             *)
LEMMA BegunStays == ASSUME TypeOK, [Next]_vars, NEW c \in Calls, Begun(c) PROVE Begun(c)'
<1>1. ASSUME NEW d \in Calls, CallStep(d) PROVE Begun(c)'
  BY <1>1 DEF TypeOK, CallTypes, CallStep, Start, Refuse, Publish, SelectDone, SelectCtx,
     CallWinsOnce, Return, Begun, callVars
<1>2. CASE UNCHANGED pc
  BY <1>2 DEF Begun
<1>3. (\E d \in Calls : CallStep(d)) \/ UNCHANGED pc
  BY DEF Next, CtxDone, DrainStep, DrainRecv, DrainHandled, DrainAbort, ResponderStep,
     SendChunk, SendReply, Exhaust, GraceFinalize, Finalize, InboxStep, OnInbox,
     InboxFinalize, EnqueueLock, EnqueueSend, EnqueueDrop, EnqueueFull, EnqueueEvict,
     FinalizeLocked, InboxStop, FailureStep, OnFailure, FailureFinalize, FailureStop,
     CloseBegin, CloseStep, CloseRange, CloseFinalize, CloseUnlock, CloseReturn, vars, callVars
<1> QED BY <1>1, <1>2, <1>3

(* No step touches a call before it is registered.                         *)
LEMMA NothingBeforeStep == ASSUME TypeOK, NothingBefore, [Next]_vars PROVE NothingBefore'
<1> SUFFICES ASSUME NEW c \in Calls, ~Begun(c)' PROVE Untouched(c)'
  BY DEF NothingBefore
<1>1. ~Begun(c)
  BY BegunStays
<1>2. Untouched(c)
  BY <1>1 DEF NothingBefore
<1> USE DEF TypeOK, CallTypes, OnceTypes, StreamTypes
<1>3. ASSUME NEW d \in Calls, CallStep(d) PROVE Untouched(c)'
  <2>1. CASE CallWinsOnce(d)
    <3>1. Replied(c)' = Replied(c)
      BY <2>1, ErrIsNoReply DEF CallWinsOnce, FailureKinds
    <3> QED BY <1>2, <2>1, <3>1 DEF CallWinsOnce, Untouched, streamVars, inboxVars, busVars
  <2>2. CASE Start(d)
    <3>1. d # c
      BY <1>1, <2>2 DEF Start, Begun
    <3> QED BY <1>2, <2>2, <3>1 DEF Start, Untouched, Replied, onceVars, inboxVars, busVars
  <2> QED BY <1>2, <1>3, <2>1, <2>2 DEF CallStep, Refuse, Publish, SelectDone, SelectCtx,
          Return, Untouched, Replied, onceVars, streamVars, inboxVars, busVars
<1>4. ASSUME NEW d \in Calls, CtxDone(d) \/ Finalize(d) PROVE Untouched(c)'
  BY <1>2, <1>4 DEF CtxDone, Finalize, Untouched, Replied, onceVars, streamVars, inboxVars, busVars
<1>5. ASSUME NEW d \in Calls, GraceFinalize(d) PROVE Untouched(c)'
  <2>1. d # c
    BY <1>2, <1>5 DEF GraceFinalize, Untouched
  <2>2. verdict'[c] = verdict[c] /\ grace'[c] = grace[c]
    BY <1>5, <2>1 DEF GraceFinalize, WinOnce
  <2> QED BY <1>2, <1>5, <2>2 DEF GraceFinalize, Untouched, Replied, streamVars, inboxVars, busVars
<1>6. ASSUME NEW d \in Calls, DrainStep(d) PROVE Untouched(c)'
  <2>1. d # c
    BY <1>2, <1>6 DEF DrainStep, DrainRecv, DrainHandled, DrainAbort, Untouched
  <2>2. /\ handled'[c] = handled[c] /\ stream'[c] = stream[c] /\ drain'[c] = drain[c]
        /\ verdict'[c] = verdict[c]
    BY <1>6, <2>1 DEF DrainStep, DrainRecv, DrainHandled, DrainAbort, WinOnce, onceVars
  <2>3. UNCHANGED <<chunks, grace, inboxAt, inboxMsg, inboxQ>>
    BY <1>6 DEF DrainStep, DrainRecv, DrainHandled, DrainAbort, inboxVars, busVars
  <2> QED BY <1>2, <2>2, <2>3 DEF Untouched, Replied
<1>7. ASSUME NEW d \in Calls, ResponderStep(d) PROVE Untouched(c)'
  <2>1. d # c
    BY <1>1, <1>2, <1>7 DEF ResponderStep, SendChunk, SendReply, Exhaust, Requested, Begun, Untouched
  <2>2. /\ chunks'[c] = chunks[c]
        /\ UNCHANGED <<handled, stream, grace, drain, verdict, inboxAt, inboxMsg>>
    BY <1>7, <2>1 DEF ResponderStep, SendChunk, SendReply, Exhaust, onceVars, streamVars,
       inboxVars, BusTypes
  <2>3. UNCHANGED inboxQ \/ \E m \in Messages : m.call = d /\ inboxQ' = Append(inboxQ, m)
    <3>1. CASE SendChunk(d)
      <4>1. [call |-> d, kind |-> "chunk", seq |-> chunks[d] + 1] \in Messages
        BY DEF Messages, BusTypes
      <4> QED BY <3>1, <4>1 DEF SendChunk
    <3>2. CASE SendReply(d)
      <4>1. \A k \in ReplyKinds : [call |-> d, kind |-> k, seq |-> chunks[d]] \in Messages
        BY DEF Messages, BusTypes
      <4> QED BY <3>2, <4>1 DEF SendReply
    <3> QED BY <1>7, <3>1, <3>2 DEF ResponderStep, Exhaust
  <2>4. \A i \in DOMAIN inboxQ' : inboxQ'[i].call # c
    <3>1. CASE UNCHANGED inboxQ
      BY <1>2, <3>1 DEF Untouched
    <3>2. ASSUME NEW m \in Messages, m.call = d, inboxQ' = Append(inboxQ, m)
          PROVE  \A i \in DOMAIN inboxQ' : inboxQ'[i].call # c
      <4>1. /\ DOMAIN inboxQ' = 1 .. Len(inboxQ) + 1 /\ Len(inboxQ) \in Nat
            /\ DOMAIN inboxQ = 1 .. Len(inboxQ)
            /\ \A i \in DOMAIN inboxQ : inboxQ'[i] = inboxQ[i]
            /\ inboxQ'[Len(inboxQ) + 1] = m
        BY <3>2, AppendElements, QueueElements
      <4>2. \A i \in DOMAIN inboxQ' : i \in DOMAIN inboxQ \/ i = Len(inboxQ) + 1
        BY <4>1
      <4> QED BY <1>2, <2>1, <3>2, <4>1, <4>2 DEF Untouched
    <3> QED BY <2>3, <3>1, <3>2
  <2> QED BY <1>2, <2>2, <2>4 DEF Untouched, Replied
<1>8. CASE InboxStep
  <2>1. UNCHANGED <<chunks, handled, drain>>
    BY <1>8 DEF InboxStep, OnInbox, InboxFinalize, EnqueueLock, EnqueueSend, EnqueueDrop,
       EnqueueFull, EnqueueEvict, FinalizeLocked, InboxStop, streamVars, busVars
  <2>2. CASE OnInbox
    <3> DEFINE m == Head(inboxQ)
    <3>1. /\ m = inboxQ[1] /\ 1 \in DOMAIN inboxQ
          /\ \A i \in DOMAIN inboxQ' : i + 1 \in DOMAIN inboxQ /\ inboxQ'[i] = inboxQ[i + 1]
      BY <2>2, HeadAndTail, QueueElements DEF OnInbox
    <3>2. m.call # c
      BY <1>2, <3>1 DEF Untouched
    <3>3. grace'[c] = grace[c] /\ UNCHANGED <<verdict, stream>>
      BY <2>2, <3>2 DEF OnInbox, onceVars, streamVars
    <3>4. inboxAt' \notin {"idle", "stopped"} => inboxMsg'.call # c
      BY <2>2, <3>2 DEF OnInbox
    <3>5. \A i \in DOMAIN inboxQ' : inboxQ'[i].call # c
      BY <1>2, <3>1 DEF Untouched
    <3> QED BY <1>2, <2>1, <3>3, <3>4, <3>5 DEF Untouched, Replied
  <2>3. CASE InboxStop
    BY <1>2, <2>1, <2>3 DEF InboxStop, InboxAt, Untouched, Replied, onceVars, streamVars, busVars
  <2>4. CASE ~OnInbox /\ ~InboxStop
    <3>1. /\ inboxAt \notin {"idle", "stopped"} /\ inboxMsg.call \in Calls /\ inboxMsg.call # c
      BY <1>2, <1>8, <2>4 DEF Untouched, InboxStep, InboxFinalize, EnqueueLock, EnqueueSend,
         EnqueueDrop, EnqueueFull, EnqueueEvict, FinalizeLocked, InboxTypes, Messages
    <3>2. UNCHANGED <<grace, inboxQ>> /\ (inboxAt' # "idle" => inboxMsg' = inboxMsg)
      BY <1>8, <2>4 DEF InboxStep, InboxFinalize, EnqueueLock, EnqueueSend, EnqueueDrop,
         EnqueueFull, EnqueueEvict, FinalizeLocked, InboxIdle, InboxAt, inboxVars, busVars
    <3>3. stream'[c] = stream[c] /\ verdict'[c] = verdict[c]
      BY <1>8, <2>4, <3>1 DEF InboxStep, InboxFinalize, EnqueueLock, EnqueueSend, EnqueueDrop,
         EnqueueFull, EnqueueEvict, FinalizeLocked, WinOnce, onceVars, streamVars
    <3> QED BY <1>2, <2>1, <3>1, <3>2, <3>3 DEF Untouched, Replied
  <2> QED BY <2>2, <2>3, <2>4
<1>9. CASE FailureStep \/ CloseBegin \/ CloseStep \/ UNCHANGED vars
  <2>1. UNCHANGED <<chunks, handled, stream, grace, drain, inboxAt, inboxMsg, inboxQ>>
    BY <1>9 DEF FailureStep, OnFailure, FailureFinalize, FailureStop,
       CloseBegin, CloseStep, CloseRange, CloseFinalize, CloseUnlock, CloseReturn, vars,
       streamVars, inboxVars, busVars
  <2>2. Replied(c)' = Replied(c)
    <3>1. CASE UNCHANGED verdict
      BY <3>1 DEF Replied
    <3>2. CASE FailureFinalize
      BY <3>1, <3>2, ErrIsNoReply DEF FailureFinalize, FailureKinds
    <3>3. CASE CloseFinalize
      BY <3>1, <3>3, ErrIsNoReply DEF CloseFinalize, FailureKinds, CloseTypes
    <3> QED BY <1>9, <3>1, <3>2, <3>3 DEF FailureStep, OnFailure, FailureStop, CloseBegin,
            CloseStep, CloseRange, CloseUnlock, CloseReturn, vars, onceVars
  <2> QED BY <1>2, <2>1, <2>2 DEF Untouched
<1> QED BY <1>3, <1>4, <1>5, <1>6, <1>7, <1>8, <1>9 DEF Next

(* Only the start of a call sets its mode.                                 *)
LEMMA ModeStays == ASSUME TypeOK, [Next]_vars, NEW c \in Calls, Begun(c) PROVE mode'[c] = mode[c]
<1>1. ASSUME NEW d \in Calls, CallStep(d) PROVE mode'[c] = mode[c]
  BY <1>1 DEF TypeOK, CallTypes, CallStep, Start, Refuse, Publish, SelectDone, SelectCtx,
     CallWinsOnce, Return, Begun, callVars
<1>2. (\E d \in Calls : CallStep(d)) \/ UNCHANGED mode
  BY DEF Next, CtxDone, DrainStep, DrainRecv, DrainHandled, DrainAbort, ResponderStep,
     SendChunk, SendReply, Exhaust, GraceFinalize, Finalize, InboxStep, OnInbox,
     InboxFinalize, EnqueueLock, EnqueueSend, EnqueueDrop, EnqueueFull, EnqueueEvict,
     FinalizeLocked, InboxStop, FailureStep, OnFailure, FailureFinalize, FailureStop,
     CloseBegin, CloseStep, CloseRange, CloseFinalize, CloseUnlock, CloseReturn, vars, callVars
<1> QED BY <1>1, <1>2

(* doneOnce is won once, and nothing takes a result back.                  *)
LEMMA VerdictStays ==
  ASSUME TypeOK, [Next]_vars, NEW c \in Calls
  PROVE  /\ verdict[c] # NoVerdict => verdict'[c] = verdict[c]
         /\ finalized[c] => finalized'[c]
<1> USE DEF TypeOK, OnceTypes
<1>1. CASE UNCHANGED onceVars
  BY <1>1 DEF onceVars
<1>2. ASSUME NEW d \in Calls, NEW r \in Results, WinOnce(d, r),
             UNCHANGED finalized \/ finalized' = [finalized EXCEPT ![d] = TRUE]
      PROVE  /\ verdict[c] # NoVerdict => verdict'[c] = verdict[c]
             /\ finalized[c] => finalized'[c]
  BY <1>2 DEF WinOnce
<1>3. ASSUME NEW d \in Calls, Finalize(d)
      PROVE  UNCHANGED verdict /\ (finalized[c] => finalized'[c])
  BY <1>3 DEF Finalize
<1>4. \/ UNCHANGED onceVars
      \/ \E d \in Calls : Finalize(d)
      \/ \E d \in Calls, r \in Results :
            /\ WinOnce(d, r)
            /\ UNCHANGED finalized \/ finalized' = [finalized EXCEPT ![d] = TRUE]
  <2> DEFINE Wins == \E d \in Calls, r \in Results :
                       /\ WinOnce(d, r)
                       /\ UNCHANGED finalized \/ finalized' = [finalized EXCEPT ![d] = TRUE]
  <2>1. ASSUME NEW d \in Calls, NEW k \in FailureKinds, WinOnce(d, Err(k)),
               UNCHANGED finalized \/ finalized' = [finalized EXCEPT ![d] = TRUE]
        PROVE  Wins
    BY <2>1, ErrTypes
  <2>2. ASSUME NEW d \in Calls, NEW r, r \in [kind : ReplyKinds, seq : Nat],
               WinOnce(d, r), UNCHANGED finalized
        PROVE  Wins
    <3>1. r \in Results
      BY <2>2 DEF Results
    <3> QED BY <2>2, <3>1
  <2> SUFFICES Wins \/ UNCHANGED onceVars \/ (\E d \in Calls : Finalize(d))
    OBVIOUS
  <2> HIDE DEF Wins
  <2>3. ASSUME NEW d \in Calls, CallStep(d) PROVE Wins \/ UNCHANGED onceVars
    BY <2>1, <2>3 DEF CallStep, Start, Refuse, Publish, SelectDone, SelectCtx,
       CallWinsOnce, Return, FailureKinds, onceVars
  <2>4. ASSUME NEW d \in Calls, DrainStep(d) PROVE Wins \/ UNCHANGED onceVars
    BY <2>1, <2>4 DEF DrainStep, DrainRecv, DrainHandled, DrainAbort, FailureKinds, onceVars
  <2>5. ASSUME NEW d \in Calls, GraceFinalize(d) PROVE Wins \/ UNCHANGED onceVars
    BY <2>2, <2>5 DEF GraceFinalize, StreamTypes, onceVars
  <2>6. CASE InboxStep
    <3>1. CASE InboxFinalize
      <4>1. /\ inboxMsg.call \in Calls
            /\ [kind |-> inboxMsg.kind, seq |-> inboxMsg.seq] \in [kind : ReplyKinds, seq : Nat]
        BY <3>1 DEF InboxFinalize, InboxTypes, Messages
      <4> QED BY <2>2, <3>1, <4>1 DEF InboxFinalize, onceVars
    <3>2. CASE FinalizeLocked
      <4>1. inboxMsg.call \in Calls
        BY <3>2 DEF FinalizeLocked, InboxTypes, Messages
      <4> QED BY <2>1, <3>2, <4>1 DEF FinalizeLocked, FailureKinds, onceVars
    <3> QED BY <2>6, <3>1, <3>2 DEF InboxStep, OnInbox, EnqueueLock, EnqueueSend, EnqueueDrop,
            EnqueueFull, EnqueueEvict, InboxStop
  <2>7. CASE FailureStep \/ CloseBegin \/ CloseStep \/ UNCHANGED vars
    <3>1. CASE FailureFinalize
      BY <2>1, <3>1 DEF FailureFinalize, FailureKinds, onceVars
    <3>2. CASE CloseFinalize
      BY <2>1, <3>2 DEF CloseFinalize, FailureKinds, onceVars, CloseTypes
    <3> QED BY <2>7, <3>1, <3>2 DEF FailureStep, OnFailure, FailureStop, CloseBegin,
            CloseStep, CloseRange, CloseUnlock, CloseReturn, vars
  <2>8. ASSUME NEW d \in Calls, CtxDone(d) \/ ResponderStep(d) PROVE UNCHANGED onceVars
    BY <2>8 DEF CtxDone, ResponderStep, SendChunk, SendReply, Exhaust
  <2> QED BY <2>3, <2>4, <2>5, <2>6, <2>7, <2>8 DEF Next
<1> QED BY <1>1, <1>2, <1>3, <1>4

(* Every step keeps ModeKept: onInbox routes by the mode, and only Start   *)
(* sets a mode.                                                            *)
LEMMA ModeKeptStep == ASSUME TypeOK, NothingBefore, ModeKept, [Next]_vars PROVE ModeKept'
<1> USE DEF TypeOK, CallTypes, StreamTypes
<1>1. ASSUME NEW d \in Calls, Start(d) PROVE ModeKept'
  <2>1. /\ UNCHANGED <<inboxAt, inboxMsg, failed>>
        /\ \A c \in Calls \ {d} : mode'[c] = mode[c] /\ drain'[c] = drain[c]
        /\ mode'[d] \in Policies => drain'[d] = "recv"
        /\ drain'[d] # "abort"
    BY <1>1 DEF Start, inboxVars
  <2>2. inboxAt \in {"evict", "finalize"} => inboxMsg.call \in Calls \ {d}
    BY <1>1 DEF Start, NothingBefore, Begun, Untouched, InboxTypes, Messages
  <2> QED BY <2>1, <2>2 DEF ModeKept, Policies
<1>2. ASSUME NEW d \in Calls, CallStep(d), ~Start(d) PROVE ModeKept'
  BY <1>2 DEF CallStep, Refuse, Publish, SelectDone, SelectCtx, CallWinsOnce, Return,
     ModeKept, callVars, streamVars, inboxVars
<1>3. ASSUME NEW d \in Calls, CtxDone(d) \/ ResponderStep(d) \/ GraceFinalize(d) \/ Finalize(d)
      PROVE  ModeKept'
  BY <1>3 DEF CtxDone, ResponderStep, SendChunk, SendReply, Exhaust, GraceFinalize, Finalize,
     ModeKept, callVars, streamVars, inboxVars
<1>4. ASSUME NEW d \in Calls, DrainStep(d) PROVE ModeKept'
  BY <1>4 DEF DrainStep, DrainRecv, DrainHandled, DrainAbort, ModeKept, callVars, inboxVars
<1>5. CASE InboxStep
  <2>1. UNCHANGED <<mode, drain, failed>>
    BY <1>5 DEF InboxStep, OnInbox, InboxFinalize, EnqueueLock, EnqueueSend, EnqueueDrop,
       EnqueueFull, EnqueueEvict, FinalizeLocked, InboxStop, callVars, streamVars
  <2>2. inboxAt' = "evict" => mode[inboxMsg'.call] = "dropOldest"
    BY <1>5 DEF InboxStep, OnInbox, InboxFinalize, EnqueueLock, EnqueueSend, EnqueueDrop,
       EnqueueFull, EnqueueEvict, FinalizeLocked, InboxStop, InboxIdle, InboxAt, inboxVars, Route,
       NoMessage
  <2>3. inboxAt' = "finalize" => mode[inboxMsg'.call] = "unary"
    <3>1. CASE OnInbox
      <4>1. inboxAt' = "finalize" =>
              /\ inboxMsg' = Head(inboxQ) /\ Head(inboxQ).call \in pending
              /\ ~Streaming(Head(inboxQ).call)
        BY <3>1 DEF OnInbox, Route
      <4> QED BY <4>1 DEF Streaming
    <3> QED BY <1>5, <3>1 DEF InboxStep, InboxFinalize, EnqueueLock, EnqueueSend, EnqueueDrop,
       EnqueueFull, EnqueueEvict, FinalizeLocked, InboxStop, InboxIdle, InboxAt, inboxVars, ModeKept
  <2> QED BY <2>1, <2>2, <2>3 DEF ModeKept
<1>6. CASE FailureStep \/ CloseBegin \/ CloseStep \/ UNCHANGED vars
  BY <1>6 DEF FailureStep, OnFailure, FailureFinalize, FailureStop, CloseBegin, CloseStep,
     CloseRange, CloseFinalize, CloseUnlock, CloseReturn, vars, callVars, streamVars, inboxVars,
     ModeKept
<1> QED BY <1>1, <1>2, <1>3, <1>4, <1>5, <1>6 DEF Next

(* A context that is still live was live before, and a call is at another  *)
(* place only after a step of its own goroutine.                           *)
LEMMA ContextStays ==
  ASSUME TypeOK, [Next]_vars, NEW c \in Calls
  PROVE  /\ ctx[c] = "ended" => ctx'[c] = "ended"
         /\ CallStep(c) \/ pc'[c] = pc[c]
<1> USE DEF TypeOK, CallTypes
<1>1. ASSUME NEW d \in Calls, CallStep(d)
      PROVE  UNCHANGED ctx /\ (d = c \/ pc'[c] = pc[c])
  BY <1>1 DEF CallStep, Start, Refuse, Publish, SelectDone, SelectCtx, CallWinsOnce, Return,
     callVars
<1>2. ASSUME NEW d \in Calls, CtxDone(d)
      PROVE  (ctx[c] = "ended" => ctx'[c] = "ended") /\ UNCHANGED pc
  BY <1>2 DEF CtxDone
<1>3. \/ \E d \in Calls : CallStep(d) \/ CtxDone(d)
      \/ UNCHANGED <<ctx, pc>>
  BY DEF Next, DrainStep, DrainRecv, DrainHandled, DrainAbort, ResponderStep,
     SendChunk, SendReply, Exhaust, GraceFinalize, Finalize, InboxStep, OnInbox,
     InboxFinalize, EnqueueLock, EnqueueSend, EnqueueDrop, EnqueueFull, EnqueueEvict,
     FinalizeLocked, InboxStop, FailureStep, OnFailure, FailureFinalize, FailureStop,
     CloseBegin, CloseStep, CloseRange, CloseFinalize, CloseUnlock, CloseReturn, vars, callVars
<1> QED BY <1>1, <1>2, <1>3

(* Every step keeps Settled: select, the wait for drainDone, and the two   *)
(* early exits of Call.                                                    *)
LEMMA SettledStep ==
  ASSUME TypeOK, ModeKept, ModeKept', Settled, [Next]_vars
  PROVE  Settled'
<1> SUFFICES ASSUME NEW c \in Calls
             PROVE  /\ finalized'[c] => verdict'[c] # NoVerdict
                    /\ pc'[c] = "giveUp" => ctx'[c] = "ended"
                    /\ pc'[c] \in {"return", "flush", "returned"} => finalized'[c]
                    /\ pc'[c] = "return" => ~(Replied(c) /\ Streaming(c))'
                    /\ pc'[c] = "returned" /\ Replied(c)' /\ mode'[c] = "block" /\ ctx'[c] = "live"
                         => drain'[c] = "exited"
  BY DEF Settled, Lossless
<1> USE DEF TypeOK, CallTypes, OnceTypes
<1>1. /\ finalized[c] => finalized'[c] /\ verdict[c] # NoVerdict /\ verdict'[c] = verdict[c]
      /\ finalized[c] => Replied(c)' = Replied(c)
      /\ ctx'[c] = "live" => ctx[c] = "live"
      /\ ctx[c] = "ended" => ctx'[c] = "ended"
  <2>1. finalized[c] => finalized'[c] /\ verdict[c] # NoVerdict /\ verdict'[c] = verdict[c]
    BY VerdictStays DEF Settled, Lossless
  <2>2. /\ ctx'[c] = "live" => ctx[c] = "live"
        /\ ctx[c] = "ended" => ctx'[c] = "ended"
    BY ContextStays
  <2> QED BY <2>1, <2>2 DEF Replied
<1>2. finalized'[c] => verdict'[c] # NoVerdict
  <2>1. CASE \E d \in Calls : Finalize(d)
    BY <1>1, <2>1 DEF Finalize
  <2>2. CASE FinalizeLocked
    <3>1. inboxMsg.call \in Calls /\ Err("overflow") # NoVerdict
      BY <2>2 DEF FinalizeLocked, InboxTypes, Messages, Err, NoVerdict
    <3> QED BY <1>1, <2>2, <3>1 DEF FinalizeLocked, WinOnce, onceVars
  <2>3. UNCHANGED finalized \/ FinalizeLocked \/ \E d \in Calls : Finalize(d)
    BY DEF Next, CallStep, Start, Refuse, Publish, SelectDone, SelectCtx, CallWinsOnce, Return,
       CtxDone, DrainStep, DrainRecv, DrainHandled, DrainAbort, ResponderStep,
       SendChunk, SendReply, Exhaust, GraceFinalize, InboxStep, OnInbox,
       InboxFinalize, EnqueueLock, EnqueueSend, EnqueueDrop, EnqueueFull, EnqueueEvict,
       InboxStop, FailureStep, OnFailure, FailureFinalize, FailureStop,
       CloseBegin, CloseStep, CloseRange, CloseFinalize, CloseUnlock, CloseReturn, vars, onceVars
  <2> QED BY <1>1, <2>1, <2>2, <2>3
<1>3. Begun(c) => /\ mode'[c] = mode[c]
                  /\ mode[c] = "block" /\ drain[c] = "exited" => drain'[c] = "exited"
  <2>1. Begun(c) => ~Start(c)
    BY DEF Start, Begun
  <2> QED BY <2>1, ModeStays, ExitedStays DEF ModeKept
<1>4. CASE pc'[c] = pc[c]
  BY <1>1, <1>2, <1>3, <1>4 DEF Settled, Lossless, Streaming, Begun
<1>5. CASE CallStep(c)
  <2>1. CASE SelectDone(c)
    BY <1>1, <1>2, <1>3, <2>1 DEF SelectDone, Streaming, Begun
  <2>2. CASE SelectCtx(c)
    BY <1>2, <2>2 DEF SelectCtx
  <2>3. CASE Return(c)
    <3>1. /\ pc'[c] = "returned" /\ finalized[c]
          /\ UNCHANGED <<mode, ctx, drain, verdict>>
          /\ \/ pc[c] = "return" \/ drain[c] \in {"none", "exited"} \/ pc[c] = "giveUp"
      BY <2>3 DEF Return, Settled, onceVars, streamVars
    <3>2. pc[c] = "return" => ~(Replied(c) /\ Streaming(c))
      BY DEF Settled, Lossless
    <3> QED BY <1>1, <1>2, <3>1, <3>2 DEF Settled, Lossless, ModeKept, Streaming, Policies, Replied
  <2>4. CASE Start(c) \/ Refuse(c) \/ Publish(c) \/ CallWinsOnce(c)
    BY <1>2, <1>4, <2>4 DEF Start, Refuse, Publish, CallWinsOnce, callVars
  <2> QED BY <1>5, <2>1, <2>2, <2>3, <2>4 DEF CallStep
<1> QED BY <1>4, <1>5, ContextStays

(* A call nothing was published to has no gap.                             *)
LEMMA GaplessEmpty ==
  ASSUME NEW c \in Calls, chunks[c] = 0, handled[c] = <<>>, stream[c] = <<>>, ~Feeding(c)
  PROVE  Gapless(c)
BY DEF Gapless, NextOne, Taken

(* The number of chunks taken is a number.                                 *)
LEMMA TakenIsNat ==
  ASSUME TypeOK, NEW c \in Calls
  PROVE  /\ Len(handled[c]) \in Nat /\ Len(stream[c]) \in Nat
         /\ Taken(c) \in Nat /\ NextOne(c) \in Nat
<1>1. Len(handled[c]) \in Nat /\ Len(stream[c]) \in Nat
  BY ChunkNumbers
<1>2. Taken(c) \in Nat
  <2>1. \A a, b \in Nat : a + b \in Nat
    OBVIOUS
  <2> QED BY <1>1, <2>1 DEF Taken
<1> QED BY <1>1, <1>2 DEF NextOne

(* A step keeps the numbering when it moves no chunk and lets go of a      *)
(* chunk inside enqueue only once the call is finalized.                   *)
LEMMA GaplessSame ==
  ASSUME NEW c \in Calls, Gapless(c),
         handled'[c] = handled[c], stream'[c] = stream[c], chunks'[c] = chunks[c],
         inboxQ' = inboxQ, c \in pending' => c \in pending, finalized[c] => finalized'[c],
         Feeding(c)' => Feeding(c) /\ inboxMsg' = inboxMsg,
         Feeding(c) => Feeding(c)' \/ finalized'[c]
  PROVE  Gapless(c)'
<1>1. Taken(c)' = Taken(c)
  BY DEF Taken
<1>2. ~finalized'[c] => NextOne(c)' = NextOne(c)
  BY <1>1 DEF NextOne
<1> QED BY <1>1, <1>2 DEF Gapless

(* Handing the first chunk of the stream to the callback leaves no gap.    *)
LEMMA DrainRecvGapless ==
  ASSUME TypeOK, NEW c \in Calls, Gapless(c), DrainRecv(c), stream[c] # <<>>
  PROVE  Gapless(c)'
<1> DEFINE h == Head(stream[c])
           n == Len(handled[c])
<1>1. /\ UNCHANGED <<pending, finalized, inboxAt, inboxMsg, inboxQ, chunks>>
      /\ handled' = [handled EXCEPT ![c] = Append(@, h)]
      /\ stream' = [stream EXCEPT ![c] = Tail(@)]
  BY DEF DrainRecv, onceVars, inboxVars, busVars
<1>2. /\ stream[c] \in Seq(Nat) /\ handled[c] \in Seq(Nat)
      /\ handled'[c] = Append(handled[c], h) /\ stream'[c] = Tail(stream[c])
  BY <1>1 DEF TypeOK, StreamTypes
<1>3. /\ 1 \in DOMAIN stream[c] /\ h = stream[c][1] /\ h \in Nat
      /\ Len(stream'[c]) = Len(stream[c]) - 1 /\ Len(stream[c]) \in Nat
      /\ DOMAIN stream'[c] \subseteq Nat
      /\ \A i \in DOMAIN stream'[c] : i + 1 \in DOMAIN stream[c] /\ stream'[c][i] = stream[c][i + 1]
  BY <1>2, HeadAndTail
<1>4. /\ n \in Nat /\ DOMAIN handled[c] = 1 .. n /\ DOMAIN handled'[c] = 1 .. n + 1
      /\ Len(handled'[c]) = n + 1
      /\ \A i \in 1 .. n : handled'[c][i] = handled[c][i]
      /\ handled'[c][n + 1] = h
  BY <1>2, <1>3, AppendElements
<1>5. h = n + 1
  BY <1>3, <1>4 DEF Gapless
<1>6. Taken(c)' = Taken(c) /\ Feeding(c)' = Feeding(c)
  <2>1. \A a, b \in Nat : (a + 1) + (b - 1) = a + b
    OBVIOUS
  <2>2. Taken(c)' = Taken(c)
    BY <1>3, <1>4, <2>1 DEF Taken
  <2> QED BY <1>1, <2>2 DEF Feeding
<1>7. NextOne(c)' = NextOne(c)
  BY <1>6 DEF NextOne
<1>8. \A i \in DOMAIN handled'[c] : handled'[c][i] = i
  <2>1. \A i \in 1 .. n + 1 : i \in 1 .. n \/ i = n + 1
    BY <1>4
  <2> QED BY <1>4, <1>5, <2>1 DEF Gapless
<1>9. \A i \in DOMAIN stream'[c] : stream'[c][i] = Len(handled'[c]) + i
  <2>1. ASSUME NEW i \in DOMAIN stream'[c] PROVE stream'[c][i] = n + (i + 1)
    <3>1. i + 1 \in DOMAIN stream[c] /\ stream'[c][i] = stream[c][i + 1]
      BY <1>3
    <3> QED BY <3>1 DEF Gapless
  <2>2. \A i, l \in Nat : l + (i + 1) = (l + 1) + i
    OBVIOUS
  <2> QED BY <1>3, <1>4, <2>1, <2>2
<1> QED BY <1>1, <1>6, <1>7, <1>8, <1>9 DEF Gapless

(* The send of enqueue delivers the chunk that the call waits for: enqueue *)
(* holds sendMu, so the call is not finalized meanwhile.                   *)
LEMMA EnqueueSendGapless ==
  ASSUME TypeOK, NoSendOnClosedStream, EnqueueSend,
         NEW c \in Calls, c = inboxMsg.call, NEW k \in Nat, k = inboxMsg.seq, Gapless(c)
  PROVE  Gapless(c)'
<1> DEFINE n == Len(stream[c])
<1>1. /\ inboxAt = "send" /\ stream' = [stream EXCEPT ![c] = Append(@, k)]
      /\ inboxAt' = "idle" /\ UNCHANGED <<handled, inboxQ, chunks, pending, finalized>>
  BY DEF EnqueueSend, InboxIdle, busVars, onceVars
<1>2. Feeding(c) /\ ~finalized[c] /\ ~Feeding(c)'
  BY <1>1 DEF Feeding, NoSendOnClosedStream
<1>3. k = Taken(c) + 1
  BY <1>2 DEF Gapless
<1>4. /\ n \in Nat /\ DOMAIN stream[c] = 1 .. n /\ DOMAIN stream'[c] = 1 .. n + 1
      /\ Len(stream'[c]) = n + 1
      /\ \A i \in 1 .. n : stream'[c][i] = stream[c][i]
      /\ stream'[c][n + 1] = k
  <2>1. stream \in [Calls -> Seq(Nat)] /\ stream[c] \in Seq(Nat)
    BY DEF TypeOK, StreamTypes
  <2>2. stream'[c] = Append(stream[c], k)
    BY <1>1, <2>1
  <2> QED BY <2>1, <2>2, AppendElements
<1>5. Len(handled[c]) \in Nat /\ Len(handled'[c]) = Len(handled[c])
  BY <1>1, ChunkNumbers
<1>6. Taken(c)' = Taken(c) + 1
  <2>1. \A a, b \in Nat : a + (b + 1) = (a + b) + 1
    OBVIOUS
  <2> QED BY <1>4, <1>5, <2>1 DEF Taken
<1>7. NextOne(c)' = NextOne(c)
  BY <1>2, <1>6, TakenIsNat DEF NextOne
<1>8. \A i \in DOMAIN stream'[c] : stream'[c][i] = Len(handled'[c]) + i
  <2>1. \A i \in 1 .. n + 1 : i \in 1 .. n \/ i = n + 1
    BY <1>4
  <2>2. stream'[c][n + 1] = Len(handled[c]) + (n + 1)
    <3>1. \A a, b \in Nat : a + (b + 1) = (a + b) + 1
      OBVIOUS
    <3> QED BY <1>3, <1>4, <1>5, <3>1 DEF Taken
  <2> QED BY <1>4, <1>5, <2>1, <2>2 DEF Gapless
<1> QED BY <1>1, <1>2, <1>7, <1>8 DEF Gapless

(* What a responder publishes goes behind what it has published before.    *)
LEMMA SendGapless ==
  ASSUME TypeOK, NEW d \in Calls, SendChunk(d) \/ SendReply(d), NEW c \in Calls, Gapless(c)
  PROVE  Gapless(c)'
<1>1. UNCHANGED <<handled, stream, pending, finalized, inboxAt, inboxMsg>>
  BY DEF SendChunk, SendReply, streamVars, onceVars, inboxVars
<1>2. Taken(c)' = Taken(c) /\ Feeding(c)' = Feeding(c)
  BY <1>1 DEF Taken, Feeding
<1>3. NextOne(c)' = NextOne(c)
  BY <1>2 DEF NextOne
<1> DEFINE Chunk(n) == [call |-> c, kind |-> "chunk", seq |-> n]
<1>4. chunks \in [Calls -> Nat]
  BY DEF TypeOK, BusTypes
<1>5. PICK new \in Messages :
        /\ inboxQ' = Append(inboxQ, new)
        /\ \/ chunks' = chunks
           \/ d # c /\ chunks' = [chunks EXCEPT ![d] = @ + 1]
           \/ new = Chunk(chunks[c] + 1) /\ chunks' = [chunks EXCEPT ![c] = @ + 1]
  <2>1. CASE SendChunk(d)
    <3>1. [call |-> d, kind |-> "chunk", seq |-> chunks[d] + 1] \in Messages
      BY <1>4 DEF Messages
    <3> QED BY <2>1, <3>1 DEF SendChunk
  <2>2. CASE SendReply(d)
    <3>1. \A k \in ReplyKinds : [call |-> d, kind |-> k, seq |-> chunks[d]] \in Messages
      BY <1>4 DEF Messages
    <3> QED BY <2>2, <3>1 DEF SendReply
  <2> QED BY <2>1, <2>2
<1>6. /\ Len(inboxQ) \in Nat /\ Len(inboxQ) + 1 \in DOMAIN inboxQ'
      /\ \A i \in DOMAIN inboxQ : i \in DOMAIN inboxQ' /\ inboxQ'[i] = inboxQ[i]
      /\ inboxQ'[Len(inboxQ) + 1] = new
  BY <1>5, AppendElements, QueueElements
<1> HIDE DEF Chunk
<1>7. ASSUME c \in pending, ~finalized[c], NEW n \in NextOne(c) .. chunks'[c]
      PROVE  \E i \in DOMAIN inboxQ' : inboxQ'[i] = Chunk(n)
  <2>1. \/ n \in NextOne(c) .. chunks[c]
        \/ n = chunks[c] + 1 /\ new = Chunk(chunks[c] + 1)
    <3>1. \/ chunks'[c] = chunks[c]
          \/ chunks'[c] = chunks[c] + 1 /\ new = Chunk(chunks[c] + 1)
      BY <1>4, <1>5
    <3> QED BY <1>4, <1>7, <3>1, TakenIsNat
  <2>2. n \in NextOne(c) .. chunks[c] => \E i \in DOMAIN inboxQ : inboxQ[i] = Chunk(n)
    BY <1>7 DEF Gapless, Chunk
  <2> QED BY <1>6, <2>1, <2>2
<1> QED BY <1>1, <1>2, <1>3, <1>7 DEF Gapless, Chunk

(* The message the inbox goroutine takes is the first of its call that is  *)
(* queued: a chunk of a lossless call is the one that the call waits for.  *)
LEMMA OnInboxGapless ==
  ASSUME TypeOK, Order, OnInbox, NEW c \in Calls, Lossless(c), Gapless(c)
  PROVE  Gapless(c)'
<1> DEFINE m == Head(inboxQ)
           Chunk(n) == [call |-> c, kind |-> "chunk", seq |-> n]
<1>1. /\ inboxAt = "idle" /\ UNCHANGED <<handled, stream, chunks, pending, finalized>>
  BY DEF OnInbox, streamVars, onceVars
<1>2. /\ inboxQ \in Seq(Messages) /\ m = inboxQ[1] /\ 1 \in DOMAIN inboxQ
      /\ \A i \in DOMAIN inboxQ : i = 1 \/ (1 < i /\ i - 1 \in DOMAIN inboxQ'
                                              /\ inboxQ'[i - 1] = inboxQ[i])
  <2>1. inboxQ # <<>> /\ inboxQ' = Tail(inboxQ)
    BY DEF OnInbox
  <2> QED BY <2>1, HeadAndTail, QueueElements
<1>3. ~Feeding(c) /\ Taken(c)' = Taken(c) /\ NextOne(c) = Taken(c) + 1
  BY <1>1 DEF Feeding, Taken, NextOne
<1>4. Taken(c) \in Nat /\ chunks[c] \in Nat
  BY TakenIsNat, ChunkNumbers
<1>5. m.call \in Calls /\ m.seq \in Nat /\ InPlace(m)
  BY <1>2, QueueElements DEF Order, QueueInOrder
<1> HIDE DEF m, Chunk
<1>6. c \in pending /\ ~finalized[c] =>
        \A n \in NextOne(c) .. chunks[c] : \E i \in DOMAIN inboxQ : inboxQ[i] = Chunk(n)
  BY DEF Gapless, Chunk
<1>7. CASE c \in pending /\ m.call = c /\ m.kind = "chunk"
  <2>1. inboxAt' = "lock" /\ inboxMsg' = m
    BY <1>7 DEF OnInbox, m, Route, Streaming, Lossless, Policies
  <2>2. Feeding(c)' /\ NextOne(c)' = Taken(c) + 2
    BY <1>3, <1>7, <2>1 DEF Feeding, NextOne
  <2>3. ASSUME ~finalized[c] PROVE m.seq = Taken(c) + 1
    <3>1. 0 < m.seq /\ m.seq <= chunks[c] /\ Before(c, m.seq)
      BY <1>5, <1>7 DEF InPlace
    <3>2. Taken(c) < m.seq
      <4>1. CASE Taken(c) = 0
        BY <3>1, <4>1
      <4>2. CASE Len(stream[c]) > 0
        <5>1. Len(stream[c]) \in DOMAIN stream[c]
          BY <4>2, ChunkNumbers
        <5>2. stream[c][Len(stream[c])] = Taken(c)
          BY <5>1 DEF Gapless, Taken
        <5> QED BY <3>1, <5>1, <5>2 DEF Before
      <4>3. CASE Len(stream[c]) = 0 /\ Len(handled[c]) > 0
        <5>1. Len(handled[c]) \in DOMAIN handled[c] /\ Taken(c) = Len(handled[c])
          BY <4>3, ChunkNumbers DEF Taken
        <5>2. handled[c][Len(handled[c])] = Taken(c)
          BY <5>1 DEF Gapless
        <5> QED BY <3>1, <5>1, <5>2 DEF Before
      <4>4. \A a, b \in Nat : a + b = 0 \/ b > 0 \/ (b = 0 /\ a > 0)
        OBVIOUS
      <4> QED BY <4>1, <4>2, <4>3, <4>4, TakenIsNat DEF Taken
    <3>3. PICK i \in DOMAIN inboxQ : inboxQ[i] = Chunk(Taken(c) + 1)
      <4>1. Taken(c) + 1 \in NextOne(c) .. chunks[c]
        BY <1>3, <1>4, <1>5, <3>1, <3>2
      <4> QED BY <1>6, <1>7, <2>3, <4>1
    <3>4. CASE i = 1
      BY <1>2, <3>3, <3>4 DEF Chunk
    <3>5. CASE 1 < i
      <4>1. inboxQ[i].call = c /\ inboxQ[i].kind = "chunk" /\ inboxQ[i].seq = Taken(c) + 1
        BY <3>3 DEF Chunk
      <4>2. m.seq < Taken(c) + 1
        BY <1>2, <1>7, <3>5, <4>1 DEF Order, QueueInOrder
      <4> QED BY <1>4, <1>5, <3>2, <4>2
    <3> QED BY <1>2, <3>4, <3>5
  <2>4. ASSUME ~finalized[c], NEW n \in Taken(c) + 2 .. chunks[c]
        PROVE  \E i \in DOMAIN inboxQ' : inboxQ'[i] = Chunk(n)
    <3>1. n \in NextOne(c) .. chunks[c] /\ n # Taken(c) + 1
      BY <1>3, <1>4, <2>4
    <3>2. PICK i \in DOMAIN inboxQ : inboxQ[i] = Chunk(n)
      BY <1>6, <1>7, <2>4, <3>1
    <3>3. i # 1
      <4>1. Chunk(n).seq = n
        BY DEF Chunk
      <4> QED BY <1>2, <2>3, <2>4, <3>1, <3>2, <4>1
    <3> QED BY <1>2, <3>2, <3>3
  <2> QED BY <1>1, <1>3, <2>1, <2>2, <2>3, <2>4 DEF Gapless, Chunk
<1>8. CASE ~(c \in pending /\ m.call = c /\ m.kind = "chunk")
  <2>1. ~Feeding(c)'
    <3>1. CASE m.call \in pending
      BY <1>8, <3>1 DEF OnInbox, m, Route, Feeding, NoMessage
    <3>2. CASE m.call \notin pending
      BY <3>2 DEF OnInbox, m, Feeding
    <3> QED BY <3>1, <3>2
  <2>2. NextOne(c)' = NextOne(c)
    BY <1>3, <2>1 DEF NextOne
  <2>3. ASSUME c \in pending, ~finalized[c], NEW n \in NextOne(c) .. chunks[c]
        PROVE  \E i \in DOMAIN inboxQ' : inboxQ'[i] = Chunk(n)
    <3>1. PICK i \in DOMAIN inboxQ : inboxQ[i] = Chunk(n)
      BY <1>6, <2>3
    <3>2. i # 1
      BY <1>2, <1>8, <2>3, <3>1 DEF Chunk
    <3> QED BY <1>2, <3>1, <3>2
  <2> QED BY <1>1, <2>1, <2>2, <2>3 DEF Gapless, Chunk
<1> QED BY <1>7, <1>8

(* Every step keeps the numbering of lossless calls. BufferBlock drops a   *)
(* chunk only when the context has ended, and no other goroutine takes a   *)
(* chunk from the stream than the drain goroutine.                         *)
LEMMA NoGapStep ==
  ASSUME TypeOK, NoSendOnClosedStream, NothingBefore, NothingBefore', ModeKept, Order, NoGap,
         [Next]_vars
  PROVE  NoGap'
<1> SUFFICES ASSUME NEW c \in Calls, Lossless(c)' PROVE Gapless(c)'
  BY DEF NoGap
<1>1. CASE ~Begun(c)
  <2>1. Untouched(c)
    BY <1>1 DEF NothingBefore
  <2>2. /\ chunks'[c] = 0 /\ handled'[c] = <<>> /\ stream'[c] = <<>>
        /\ inboxAt' \notin {"idle", "stopped"} => inboxMsg'.call # c
    <3>1. CASE ~Begun(c)'
      BY <3>1 DEF NothingBefore, Untouched
    <3>2. CASE Begun(c)'
      <4>1. Start(c)
        BY <1>1, <3>2, ContextStays DEF Begun, CallStep, Start, Refuse, Publish, SelectDone,
           SelectCtx, CallWinsOnce, Return, TypeOK, CallTypes, callVars
      <4> QED BY <2>1, <4>1 DEF Untouched, Start, inboxVars, busVars
    <3> QED BY <3>1, <3>2
  <2> QED BY <2>2 DEF Gapless, NextOne, Taken, Feeding
<1>2. CASE Begun(c)
  <2>1. Lossless(c)
    BY <1>2, ModeStays, ContextStays DEF Lossless, TypeOK, CallTypes
  <2>2. Gapless(c) /\ (finalized[c] => finalized'[c])
    BY <2>1, VerdictStays DEF NoGap
  <2> DEFINE Same ==
        /\ handled'[c] = handled[c] /\ stream'[c] = stream[c] /\ chunks'[c] = chunks[c]
        /\ inboxQ' = inboxQ /\ (c \in pending' => c \in pending)
        /\ Feeding(c)' => Feeding(c) /\ inboxMsg' = inboxMsg
        /\ Feeding(c) => Feeding(c)' \/ finalized'[c]
  <2>3. Same => Gapless(c)'
    BY <2>2, GaplessSame
  <2>4. ASSUME NEW d \in Calls, CallStep(d) PROVE Same
    <3>1. UNCHANGED <<handled, stream, chunks, inboxQ, inboxAt, inboxMsg>>
      BY <2>4 DEF CallStep, Start, Refuse, Publish, SelectDone, SelectCtx, CallWinsOnce,
         Return, streamVars, inboxVars, busVars
    <3>2. c \in pending' => c \in pending
      BY <1>2, <2>4 DEF CallStep, Start, Refuse, Publish, SelectDone, SelectCtx, CallWinsOnce,
         Return, Begun
    <3> QED BY <3>1, <3>2 DEF Feeding
  <2>5. ASSUME NEW d \in Calls, CtxDone(d) \/ GraceFinalize(d) \/ Finalize(d) \/ Exhaust(d)
                                  \/ DrainHandled(d)
        PROVE  Same
    <3>1. UNCHANGED <<handled, stream, chunks, inboxQ, inboxAt, inboxMsg, pending>>
      BY <2>5 DEF CtxDone, GraceFinalize, Finalize, Exhaust, DrainHandled, streamVars,
         inboxVars, busVars
    <3> QED BY <3>1 DEF Feeding
  <2>6. ASSUME NEW d \in Calls, DrainRecv(d) PROVE Gapless(c)'
    <3>1. UNCHANGED <<chunks, inboxQ, inboxAt, inboxMsg, pending>>
      BY <2>6 DEF DrainRecv, inboxVars, busVars
    <3>2. CASE d = c /\ stream[c] # <<>>
      BY <2>2, <2>6, <3>2, DrainRecvGapless
    <3>3. CASE ~(d = c /\ stream[c] # <<>>)
      <4>1. handled'[c] = handled[c] /\ stream'[c] = stream[c]
        BY <2>6, <3>3 DEF DrainRecv, TypeOK, StreamTypes
      <4> QED BY <2>3, <3>1, <4>1 DEF Feeding
    <3> QED BY <3>2, <3>3
  <2>7. ASSUME NEW d \in Calls, DrainAbort(d) PROVE Gapless(c)'
    <3>1. UNCHANGED <<handled, chunks, inboxQ, inboxAt, inboxMsg, pending>>
      BY <2>7 DEF DrainAbort, inboxVars, busVars
    <3>2. CASE stream'[c] = stream[c]
      BY <2>3, <3>1, <3>2 DEF Feeding
    <3>3. CASE stream'[c] # stream[c]
      <4>1. finalized[c] /\ stream'[c] = <<>>
        BY <2>7, <3>3 DEF DrainAbort, TypeOK, StreamTypes
      <4> QED BY <2>2, <3>1, <4>1 DEF Gapless
    <3> QED BY <3>2, <3>3
  <2>8. CASE InboxStep
    <3>1. CASE EnqueueSend
      <4>1. inboxMsg.call \in Calls /\ inboxMsg.seq \in Nat
        BY <3>1 DEF EnqueueSend, TypeOK, InboxTypes, Messages
      <4>2. CASE inboxMsg.call = c
        BY <2>2, <3>1, <4>1, <4>2, EnqueueSendGapless
      <4>3. CASE inboxMsg.call # c
        <5>1. /\ stream'[c] = stream[c] /\ UNCHANGED <<handled, chunks, inboxQ, pending>>
              /\ ~Feeding(c) /\ ~Feeding(c)'
          BY <3>1, <4>1, <4>3 DEF EnqueueSend, InboxIdle, Feeding, busVars
        <5> QED BY <2>3, <5>1
      <4> QED BY <4>2, <4>3
    <3>2. CASE EnqueueEvict
      <4>1. inboxMsg.call # c
        BY <2>1, <3>2 DEF EnqueueEvict, ModeKept, Lossless
      <4>2. /\ stream'[c] = stream[c] /\ UNCHANGED <<handled, chunks, inboxQ, pending>>
            /\ ~Feeding(c) /\ ~Feeding(c)'
        BY <3>2, <4>1 DEF EnqueueEvict, InboxAt, Feeding, busVars
      <4> QED BY <2>3, <4>2
    <3>3. CASE InboxFinalize \/ EnqueueLock \/ EnqueueDrop \/ EnqueueFull \/ FinalizeLocked
               \/ InboxStop
      <4>1. UNCHANGED <<handled, stream, chunks, inboxQ, pending>>
        BY <3>3 DEF InboxFinalize, EnqueueLock, EnqueueDrop, EnqueueFull, FinalizeLocked,
           InboxStop, streamVars, busVars
      <4>2. Feeding(c)' => Feeding(c) /\ inboxMsg' = inboxMsg
        BY <3>3 DEF InboxFinalize, EnqueueLock, EnqueueDrop, EnqueueFull, FinalizeLocked,
           InboxStop, InboxIdle, InboxAt, inboxVars, Feeding
      <4>3. Feeding(c) => Feeding(c)' \/ finalized'[c]
        <5>1. CASE InboxFinalize \/ InboxStop
          BY <5>1 DEF InboxFinalize, InboxStop, Feeding
        <5>2. CASE EnqueueLock
          BY <5>2 DEF EnqueueLock, InboxIdle, InboxAt, Feeding, onceVars
        <5>3. CASE EnqueueFull
          BY <5>3 DEF EnqueueFull, InboxAt, Feeding
        <5>4. CASE EnqueueDrop
          BY <2>1, <5>4 DEF EnqueueDrop, Feeding, Lossless
        <5>5. CASE FinalizeLocked
          BY <5>5 DEF FinalizeLocked, Feeding, onceVars, TypeOK, OnceTypes
        <5> QED BY <3>3, <5>1, <5>2, <5>3, <5>4, <5>5
      <4> QED BY <2>3, <4>1, <4>2, <4>3
    <3> QED BY <2>1, <2>2, <2>8, <3>1, <3>2, <3>3, OnInboxGapless DEF InboxStep
  <2>9. CASE FailureStep \/ CloseBegin \/ CloseStep \/ UNCHANGED vars
    <3>1. /\ UNCHANGED <<handled, stream, chunks, inboxQ, inboxAt, inboxMsg>>
          /\ c \in pending' => c \in pending
      BY <2>9 DEF FailureStep, OnFailure, FailureFinalize, FailureStop, CloseBegin, CloseStep,
         CloseRange, CloseFinalize, CloseUnlock, CloseReturn, vars, streamVars, inboxVars, busVars
    <3> QED BY <2>3, <3>1 DEF Feeding
  <2> HIDE DEF Same
  <2>10. ASSUME NEW d \in Calls, ResponderStep(d) PROVE Same \/ Gapless(c)'
    BY <2>2, <2>5, <2>10, SendGapless DEF ResponderStep
  <2> QED BY <2>3, <2>4, <2>5, <2>6, <2>7, <2>8, <2>9, <2>10 DEF Next, DrainStep
<1> QED BY <1>1, <1>2

(* A step keeps a call covered when it brings neither a reply nor a grace  *)
(* timer and takes no chunk back.                                          *)
LEMMA CoveredSame ==
  ASSUME TypeOK, NEW c \in Calls, Covered(c), grace'[c] = grace[c],
         Taken(c)' \in Nat, Taken(c) <= Taken(c)',
         Replied(c)' => Replied(c) /\ verdict'[c] = verdict[c],
         verdict[c] # NoVerdict => verdict'[c] = verdict[c],
         finalized[c] => finalized'[c],
         drain'[c] = "exited" => drain[c] = "exited" /\ stream'[c] = stream[c]
  PROVE  Covered(c)'
<1>1. Taken(c) \in Nat /\ verdict[c].seq \in Nat /\ \A r \in grace[c] : r.seq \in Nat
  BY TakenIsNat DEF TypeOK, OnceTypes, StreamTypes, Results
<1>2. verdict'[c] = NoVerdict => \A r \in grace'[c] : r.seq <= Taken(c)'
  BY <1>1 DEF Covered
<1>3. Replied(c)' => verdict'[c].seq <= Taken(c)'
  BY <1>1 DEF Covered
<1> QED BY <1>2, <1>3 DEF Covered

(* A reply that the inbox goroutine takes has only chunks before it that   *)
(* it has taken already.                                                   *)
LEMMA OnInboxCovered ==
  ASSUME TypeOK, Order, OnInbox, NEW c \in Calls, Gapless(c), Covered(c),
         finalized[c] => verdict[c] # NoVerdict
  PROVE  Covered(c)'
<1> DEFINE m == Head(inboxQ)
           r == [kind |-> m.kind, seq |-> m.seq]
<1>1. UNCHANGED <<verdict, finalized, handled, stream, drain, chunks>> /\ inboxAt = "idle"
  BY DEF OnInbox, streamVars, onceVars
<1>2. Taken(c)' = Taken(c) /\ NextOne(c) = Taken(c) + 1
  BY <1>1 DEF Taken, NextOne, Feeding
<1>3. /\ m = inboxQ[1] /\ 1 \in DOMAIN inboxQ
      /\ \A i \in DOMAIN inboxQ : i = 1 \/ 1 < i
  BY HeadAndTail, QueueElements DEF OnInbox
<1>4. m.call \in Calls /\ m.seq \in Nat /\ InPlace(m)
  BY <1>3, QueueElements DEF Order, QueueInOrder
<1>5. \/ grace'[c] = grace[c]
      \/ m.kind # "chunk" /\ m.call = c /\ c \in pending /\ grace'[c] = grace[c] \cup {r}
  BY DEF OnInbox, TypeOK, StreamTypes
<1> HIDE DEF m
<1>6. ASSUME m.kind # "chunk", m.call = c, c \in pending, verdict[c] = NoVerdict
      PROVE  m.seq <= Taken(c)
  <2>1. Taken(c) \in Nat /\ chunks[c] \in Nat
    BY TakenIsNat, ChunkNumbers
  <2> SUFFICES ASSUME Taken(c) < m.seq PROVE FALSE
    BY <1>4, <2>1
  <2>2. m.seq \in NextOne(c) .. chunks[c]
    BY <1>2, <1>4, <1>6, <2>1 DEF InPlace
  <2>3. PICK i \in DOMAIN inboxQ : inboxQ[i] = [call |-> c, kind |-> "chunk", seq |-> m.seq]
    BY <1>6, <2>2 DEF Gapless
  <2>4. 1 < i /\ inboxQ[i].call = inboxQ[1].call /\ inboxQ[i].kind = "chunk"
    BY <1>3, <1>6, <2>3
  <2>5. inboxQ[1].seq < inboxQ[i].seq
    BY <1>3, <2>4 DEF Order, QueueInOrder
  <2> QED BY <1>3, <1>4, <2>3, <2>5
<1>7. verdict'[c] = NoVerdict => \A q \in grace'[c] : q.seq <= Taken(c)'
  BY <1>1, <1>2, <1>5, <1>6 DEF Covered
<1> QED BY <1>1, <1>2, <1>7 DEF Covered, Replied

(* Every step keeps the replies of lossless calls covered.                 *)
LEMMA RepliesWaitStep ==
  ASSUME TypeOK, TypeOK', NoSendOnClosedStream, NothingBefore, NothingBefore', ModeKept, Order,
         Settled, NoGap, RepliesWait, [Next]_vars
  PROVE  RepliesWait'
<1> SUFFICES ASSUME NEW c \in Calls, Lossless(c)', c \notin failed' PROVE Covered(c)'
  BY DEF RepliesWait
<1>1. CASE ~Begun(c)
  <2>1. Untouched(c)
    BY <1>1 DEF NothingBefore
  <2>2. grace'[c] = {} /\ ~Replied(c)' /\ drain'[c] # "exited"
    <3>1. CASE ~Begun(c)'
      BY <3>1 DEF NothingBefore, Untouched
    <3>2. CASE Begun(c)'
      <4>1. Start(c)
        BY <1>1, <3>2, ContextStays DEF Begun, CallStep, Start, Refuse, Publish, SelectDone,
           SelectCtx, CallWinsOnce, Return, TypeOK, CallTypes, callVars
      <4> QED BY <2>1, <4>1 DEF Untouched, Start, Replied, onceVars, TypeOK, StreamTypes
    <3> QED BY <3>1, <3>2
  <2> QED BY <2>2 DEF Covered
<1>2. CASE Begun(c)
  <2>1. Lossless(c)
    BY <1>2, ModeStays, ContextStays DEF Lossless, TypeOK, CallTypes
  <2>2. c \notin failed
    <3>1. failed \subseteq failed'
      BY DEF Next, CallStep, Start, Refuse, Publish, SelectDone, SelectCtx, CallWinsOnce, Return,
         CtxDone, DrainStep, DrainRecv, DrainHandled, DrainAbort, ResponderStep,
         SendChunk, SendReply, Exhaust, GraceFinalize, Finalize, InboxStep, OnInbox,
         InboxFinalize, EnqueueLock, EnqueueSend, EnqueueDrop, EnqueueFull, EnqueueEvict,
         FinalizeLocked, InboxStop, FailureStep, OnFailure, FailureFinalize, FailureStop,
         CloseBegin, CloseStep, CloseRange, CloseFinalize, CloseUnlock, CloseReturn, vars,
         streamVars
    <3> QED BY <3>1
  <2>3. /\ Covered(c) /\ Gapless(c)
        /\ finalized[c] => finalized'[c] /\ verdict[c] # NoVerdict
        /\ verdict[c] # NoVerdict => verdict'[c] = verdict[c]
    BY <2>1, <2>2, VerdictStays DEF NoGap, RepliesWait, Settled
  <2>4. Taken(c) \in Nat /\ Taken(c)' \in Nat
    <3>1. handled'[c] \in Seq(Nat) /\ stream'[c] \in Seq(Nat)
      BY DEF TypeOK, StreamTypes
    <3>2. Len(handled'[c]) \in Nat /\ Len(stream'[c]) \in Nat /\ \A a, b \in Nat : a + b \in Nat
      BY <3>1
    <3> QED BY <3>2, TakenIsNat DEF Taken
  <2> DEFINE NoNewReply == Replied(c)' => Replied(c) /\ verdict'[c] = verdict[c]
             Same == /\ grace'[c] = grace[c] /\ Taken(c) <= Taken(c)' /\ NoNewReply
                     /\ drain'[c] = "exited" => drain[c] = "exited" /\ stream'[c] = stream[c]
  <2>5. Same => Covered(c)'
    BY <2>3, <2>4, CoveredSame
  <2>6. (handled'[c] = handled[c] /\ stream'[c] = stream[c]) => Taken(c) <= Taken(c)'
    BY <2>4 DEF Taken
  <2>7. UNCHANGED verdict \/ verdict'[c] = verdict[c] => NoNewReply
    BY DEF Replied
  <2>8. ASSUME NEW d \in Calls, NEW k \in FailureKinds, WinOnce(d, Err(k)) PROVE NoNewReply
    BY <2>8, ErrIsNoReply
  <2> HIDE DEF NoNewReply
  <2>9. ASSUME NEW d \in Calls, CallStep(d) PROVE Same
    <3>1. /\ UNCHANGED <<handled, stream, grace>> /\ (drain'[c] = "exited" => drain[c] = "exited")
      BY <2>9 DEF CallStep, Start, Refuse, Publish, SelectDone, SelectCtx, CallWinsOnce,
         Return, streamVars, TypeOK, StreamTypes
    <3>2. NoNewReply
      BY <2>7, <2>8, <2>9 DEF CallStep, Start, Refuse, Publish, SelectDone, SelectCtx, CallWinsOnce,
         Return, onceVars, FailureKinds
    <3> QED BY <2>6, <3>1, <3>2
  <2>10. ASSUME NEW d \in Calls, CtxDone(d) \/ Finalize(d) \/ ResponderStep(d) PROVE Same
    BY <2>6, <2>7, <2>10 DEF CtxDone, Finalize, ResponderStep, SendChunk, SendReply, Exhaust,
       streamVars, onceVars
  <2>11. ASSUME NEW d \in Calls, GraceFinalize(d) PROVE Covered(c)'
    <3>1. UNCHANGED <<handled, stream, drain, finalized>>
      BY <2>11 DEF GraceFinalize, streamVars
    <3>2. CASE d # c
      <4>1. grace'[c] = grace[c] /\ verdict'[c] = verdict[c]
        BY <2>11, <3>2 DEF GraceFinalize, WinOnce, TypeOK, StreamTypes, OnceTypes
      <4> QED BY <2>5, <2>6, <2>7, <3>1, <4>1
    <3>3. CASE d = c
      <4>1. Taken(c)' = Taken(c)
        BY <3>1 DEF Taken
      <4>2. PICK r \in grace[c] : /\ grace' = [grace EXCEPT ![c] = @ \ {r}]
                                  /\ \/ WinOnce(c, r)
                                     \/ finalized[c] /\ UNCHANGED verdict
        BY <2>11, <3>3 DEF GraceFinalize
      <4>3. grace'[c] \subseteq grace[c]
        BY <4>2 DEF TypeOK, StreamTypes
      <4>4. CASE WinOnce(c, r)
        <5>1. verdict[c] = NoVerdict /\ verdict'[c] = r
          BY <4>4 DEF WinOnce, TypeOK, OnceTypes
        <5> QED BY <2>3, <3>1, <4>1, <4>3, <5>1 DEF Covered
      <4>5. CASE UNCHANGED verdict
        BY <2>3, <3>1, <4>1, <4>3, <4>5 DEF Covered, Replied
      <4> QED BY <4>2, <4>4, <4>5
    <3> QED BY <3>2, <3>3
  <2>12. ASSUME NEW d \in Calls, DrainRecv(d) PROVE Covered(c)'
    <3>1. UNCHANGED <<verdict, finalized, grace>>
      BY <2>12 DEF DrainRecv, onceVars
    <3>2. CASE d = c
      <4>1. Taken(c)' = Taken(c)
        <5>1. CASE stream[c] = <<>>
          BY <2>12, <3>2, <5>1 DEF DrainRecv, Taken
        <5>2. CASE stream[c] # <<>>
          <6>1. /\ stream[c] \in Seq(Nat) /\ handled[c] \in Seq(Nat)
                /\ handled'[c] = Append(handled[c], Head(stream[c])) /\ stream'[c] = Tail(stream[c])
            BY <2>12, <3>2, <5>2 DEF DrainRecv, TypeOK, StreamTypes
          <6>2. /\ Len(stream'[c]) = Len(stream[c]) - 1 /\ Len(stream[c]) \in Nat
                /\ Head(stream[c]) \in Nat
            BY <5>2, <6>1, HeadAndTail
          <6>3. Len(handled'[c]) = Len(handled[c]) + 1 /\ Len(handled[c]) \in Nat
            BY <6>1, <6>2, AppendElements
          <6>4. \A a, b \in Nat : (a + 1) + (b - 1) = a + b
            OBVIOUS
          <6> QED BY <6>2, <6>3, <6>4 DEF Taken
        <5> QED BY <5>1, <5>2
      <4>2. drain'[c] = "exited" => stream'[c] = <<>> /\ finalized'[c]
        BY <2>12, <3>1, <3>2 DEF DrainRecv, TypeOK, StreamTypes
      <4> QED BY <2>3, <3>1, <4>1, <4>2 DEF Covered, Replied
    <3>3. CASE d # c
      <4>1. handled'[c] = handled[c] /\ stream'[c] = stream[c] /\ drain'[c] = drain[c]
        BY <2>12, <3>3 DEF DrainRecv, TypeOK, StreamTypes
      <4> QED BY <2>5, <2>6, <2>7, <3>1, <4>1
    <3> QED BY <3>2, <3>3
  <2>13. ASSUME NEW d \in Calls, DrainHandled(d) PROVE Same
    BY <2>6, <2>7, <2>13 DEF DrainHandled, onceVars, TypeOK, StreamTypes
  <2>14. ASSUME NEW d \in Calls, DrainAbort(d) PROVE Same
    <3>1. d # c
      BY <2>2, <2>14 DEF DrainAbort, ModeKept
    <3>2. /\ handled'[c] = handled[c] /\ stream'[c] = stream[c] /\ drain'[c] = drain[c]
          /\ UNCHANGED grace
      BY <2>14, <3>1 DEF DrainAbort, TypeOK, StreamTypes
    <3>3. NoNewReply
      BY <2>7, <2>8, <2>14 DEF DrainAbort, FailureKinds
    <3> QED BY <2>6, <3>2, <3>3
  <2>15. CASE InboxStep
    <3>1. CASE EnqueueSend
      <4>1. /\ inboxAt = "send" /\ inboxMsg.call \in Calls /\ inboxMsg.seq \in Nat
            /\ stream' = [stream EXCEPT ![inboxMsg.call] = Append(@, inboxMsg.seq)]
            /\ UNCHANGED <<handled, drain, grace, verdict>>
        BY <3>1 DEF EnqueueSend, TypeOK, InboxTypes, Messages, onceVars
      <4>2. CASE inboxMsg.call = c
        <5>1. drain[c] # "exited"
          BY <2>3, <4>1, <4>2 DEF Covered, NoSendOnClosedStream
        <5>2. stream[c] \in Seq(Nat) /\ stream'[c] = Append(stream[c], inboxMsg.seq)
          BY <4>1, <4>2 DEF TypeOK, StreamTypes
        <5>3. Len(stream'[c]) = Len(stream[c]) + 1
          BY <4>1, <5>2, AppendElements
        <5>4. \A a, b \in Nat : a + b <= a + (b + 1)
          OBVIOUS
        <5>5. Taken(c) <= Taken(c)'
          BY <4>1, <5>3, <5>4, TakenIsNat DEF Taken
        <5> QED BY <2>5, <2>7, <4>1, <5>1, <5>5
      <4>3. CASE inboxMsg.call # c
        <5>1. stream'[c] = stream[c]
          BY <4>1, <4>3
        <5> QED BY <2>5, <2>6, <2>7, <4>1, <5>1
      <4> QED BY <4>2, <4>3
    <3>2. CASE EnqueueEvict
      <4>1. inboxMsg.call # c
        BY <2>1, <3>2 DEF EnqueueEvict, ModeKept, Lossless
      <4>2. stream'[c] = stream[c] /\ UNCHANGED <<handled, drain, grace, verdict>>
        BY <3>2, <4>1 DEF EnqueueEvict, onceVars
      <4> QED BY <2>5, <2>6, <2>7, <4>2
    <3>3. CASE InboxFinalize \/ EnqueueLock \/ EnqueueDrop \/ EnqueueFull \/ FinalizeLocked
               \/ InboxStop
      <4>1. UNCHANGED <<handled, stream, drain, grace>>
        BY <3>3 DEF InboxFinalize, EnqueueLock, EnqueueDrop, EnqueueFull, FinalizeLocked,
           InboxStop, streamVars
      <4>2. NoNewReply
        <5>1. CASE InboxFinalize
          <6>1. inboxMsg.call # c
            BY <2>1, <5>1 DEF InboxFinalize, ModeKept, Lossless
          <6> QED BY <2>7, <5>1, <6>1 DEF InboxFinalize, WinOnce, TypeOK, OnceTypes
        <5>2. CASE FinalizeLocked
          <6>1. inboxMsg.call \in Calls
            BY <5>2 DEF FinalizeLocked, TypeOK, InboxTypes, Messages
          <6> QED BY <2>7, <2>8, <5>2, <6>1 DEF FinalizeLocked, FailureKinds, onceVars
        <5> QED BY <2>7, <3>3, <5>1, <5>2 DEF EnqueueLock, EnqueueDrop, EnqueueFull, InboxStop,
                onceVars
      <4> QED BY <2>5, <2>6, <4>1, <4>2
    <3> QED BY <2>3, <2>15, <3>1, <3>2, <3>3, OnInboxCovered DEF InboxStep
  <2>16. CASE FailureStep \/ CloseBegin \/ CloseStep \/ UNCHANGED vars
    <3>1. UNCHANGED <<handled, stream, drain, grace>>
      BY <2>16 DEF FailureStep, OnFailure, FailureFinalize, FailureStop, CloseBegin, CloseStep,
         CloseRange, CloseFinalize, CloseUnlock, CloseReturn, vars, streamVars
    <3>2. NoNewReply
      BY <2>7, <2>8, <2>16 DEF FailureStep, OnFailure, FailureFinalize, FailureStop, CloseBegin,
         CloseStep, CloseRange, CloseFinalize, CloseUnlock, CloseReturn, vars, onceVars,
         FailureKinds, TypeOK, CloseTypes
    <3> QED BY <2>5, <2>6, <3>1, <3>2
  <2> HIDE DEF Same
  <2> QED BY <2>5, <2>9, <2>10, <2>11, <2>12, <2>13, <2>14, <2>15, <2>16 DEF Next, DrainStep
<1> QED BY <1>1, <1>2

(* The two properties follow from the invariants: a returned reply has     *)
(* waited for the drain goroutine, which leaves nothing in the stream.     *)
LEMMA NoLoss ==
  ASSUME TypeOK, Settled, NoGap, RepliesWait
  PROVE  BlockLosesNothing /\ ReplyAfterItsChunks
<1>1. BlockLosesNothing
  BY DEF BlockLosesNothing, NoGap, Gapless, Lossless
<1>2. ASSUME NEW c \in Calls, pc[c] = "returned", Replied(c), Lossless(c), c \notin failed
      PROVE  Len(handled[c]) >= verdict[c].seq
  <2>1. stream[c] = <<>> /\ verdict[c].seq <= Taken(c) /\ verdict[c].seq \in Nat
    BY <1>2 DEF Settled, RepliesWait, Covered, Lossless, TypeOK, OnceTypes, Results
  <2>2. Taken(c) = Len(handled[c])
    BY <2>1, TakenIsNat DEF Taken
  <2> QED BY <2>1, <2>2, TakenIsNat
<1> QED BY <1>1, <1>2 DEF ReplyAfterItsChunks, Lossless

(* The invariants behind lossless streaming hold in every reachable state. *)
LEMMA LosslessCorrect == Spec => [](Settled /\ NoGap /\ RepliesWait)
<1>1. Init => NothingBefore /\ ModeKept
  BY CallerAssumption DEF Init, NothingBefore, Untouched, ModeKept, Replied, NoVerdict, Err
<1>2. Init => Settled /\ NoGap /\ RepliesWait
  BY DEF Init, Settled, NoGap, RepliesWait, Lossless
<1>3. Spec => [](NothingBefore /\ ModeKept)
  BY <1>1, NothingBeforeStep, ModeKeptStep, TypeCorrect, PTL DEF Spec
<1> QED BY <1>2, <1>3, SettledStep, NoGapStep, RepliesWaitStep, TypeCorrect,
           NeverSendsOnClosedStream, OrderCorrect, PTL DEF Spec

(* With BufferBlock and a live context the callback of CallStream sees the *)
(* chunks 1, 2, 3, ... without a gap, for every number of calls, every     *)
(* buffer size and every interleaving of the responders, the inbox, the    *)
(* drain goroutines, failures and Close.                                   *)
THEOREM BlockIsLossless == Spec => []BlockLosesNothing
BY LosslessCorrect, TypeCorrect, NoLoss, PTL

(* A CallStream with BufferBlock that returns the payload of a reply has   *)
(* handed to its callback every chunk that was published before that       *)
(* reply, unless the context ended or the callback failed.                 *)
THEOREM RepliesAfterChunks == Spec => []ReplyAfterItsChunks
BY LosslessCorrect, TypeCorrect, NoLoss, PTL
=============================================================================
