------------------------- MODULE LauncherWindowProofs -------------------------
(***************************************************************************)
(* Proofs about LauncherWindow, for any numbers of requests and operations *)
(* and any size of the set of completed operations.                        *)
(*                                                                         *)
(* The argument: as long as the core lives and no answer was given up for, *)
(* at most one operation is unsettled: live in the core, in a frame that   *)
(* has not arrived, announced by the answer that is awaited, or followed   *)
(* by the window.  Nothing is unsettled when the window asks for the next  *)
(* launch, so that what arrives concerns the operation that was announced  *)
(* or will be, and a completed one is not forgotten before its answer.     *)
(***************************************************************************)
EXTENDS LauncherWindow, SequenceTheorems, TLAPS

Replies == [what : {"answer", "refusal"}, of : Nat, op : OperationIds \cup {NoOp}]
Events == [what : {"started", "exited", "error"}, of : Nat, op : OperationIds]
WindowFrames == Replies \cup Events
Stages == {"unsent", "sent", "working", "replying", "done"}

WindowShape ==
  /\ frames \in Seq(WindowFrames)
  /\ pending \in [of : Nat, kind : Kinds \cup {"none"}]
  /\ busy \in BOOLEAN /\ running \in BOOLEAN
  /\ operationId \in OperationIds \cup {NoOp}
  /\ completedOperations \subseteq OperationIds
  /\ sent \in Nat
  /\ handled \in [RequestIds ->
       [kind : Kinds \cup {"none"}, at : Stages, op : OperationIds \cup {NoOp}]]
  /\ game \in [OperationIds -> {"none", "preparing", "playing", "ended"}]
  /\ controls \subseteq [method : {"stop", "cancel"}, op : OperationIds]

(* Frames in the pipe.                                                     *)
IsReply(frame) == frame.what \in {"answer", "refusal"}
IsStarted(frame, id) == frame.what = "started" /\ frame.op = id
IsEnd(frame, id) == frame.what \in {"exited", "error"} /\ frame.op = id
HasStarted(id) == \E i \in 1..Len(frames) : IsStarted(frames[i], id)
HasEnd(id) == \E i \in 1..Len(frames) : IsEnd(frames[i], id)
InOrder(id) ==
  \A i, j \in 1..Len(frames) :
    i < j /\ frames[i].op = id /\ ~IsReply(frames[i]) /\ frames[j].op = id
          /\ ~IsReply(frames[j]) =>
      IsStarted(frames[i], id) /\ IsEnd(frames[j], id)

Awaited(n) == pending # NoPending /\ n = pending.of
Announcing(id) == pending # NoPending /\ handled[pending.of].op = id

(* Only the awaited request is under way in the core, or answered.         *)
RequestsInv ==
  /\ pending # NoPending =>
       /\ busy
       /\ pending.of \in RequestIds /\ handled[pending.of].kind = pending.kind
       /\ pending.kind = "play" => sent < MaxRequests
  /\ \A n \in RequestIds :
       /\ handled[n].at \in {"sent", "working", "replying"} => Awaited(n)
       /\ handled[n].at \in {"sent", "working"} => handled[n].op = NoOp
       /\ handled[n].at = "replying" => handled[n].kind = "launch" /\ handled[n].op # NoOp
  /\ \A i \in 1..Len(frames) : IsReply(frames[i]) =>
       /\ Awaited(frames[i].of) /\ handled[pending.of].at = "done"
       /\ IF frames[i].what = "refusal" THEN handled[pending.of].op = NoOp
          ELSE /\ frames[i].op = handled[pending.of].op
               /\ pending.kind = "launch" <=> frames[i].op # NoOp
  /\ \A i, j \in 1..Len(frames) : IsReply(frames[i]) /\ IsReply(frames[j]) => i = j

(* What the window makes of an operation, whatever of its frames and its   *)
(* answer have arrived.                                                    *)
LifeInv(id) ==
  /\ InOrder(id)
  /\ game[id] = "none" =>
       ~HasStarted(id) /\ ~HasEnd(id) /\ operationId # id /\ ~Announcing(id)
  /\ game[id] = "preparing" =>
       /\ ~HasStarted(id) /\ ~HasEnd(id) /\ ~running
       /\ operationId = IF Announcing(id) THEN NoOp ELSE id
  /\ game[id] = "playing" =>
       /\ ~HasEnd(id)
       /\ HasStarted(id) <=> ~running
       /\ running \/ ~Announcing(id) => operationId = id
  /\ game[id] = "ended" =>
       IF HasEnd(id)
       THEN /\ HasStarted(id) => ~running
            /\ ~Announcing(id) => operationId = id
       ELSE /\ ~HasStarted(id) /\ operationId # id
            /\ Announcing(id) => id \in completedOperations
  /\ id \in completedOperations => game[id] = "ended" /\ ~HasEnd(id)

Unsettled(id) ==
  InCore(id) \/ HasStarted(id) \/ HasEnd(id) \/ operationId = id \/ Announcing(id)

LivesInv ==
  /\ \A id \in OperationIds : LifeInv(id)
  /\ running => operationId # NoOp
  /\ \A x, y \in OperationIds : Unsettled(x) /\ Unsettled(y) => x = y
  /\ pending # NoPending /\ handled[pending.of].op = NoOp =>
       \A id \in OperationIds : ~Unsettled(id)

OpenInv == WindowShape /\ RequestsInv /\ LivesInv

Open == link = "up" /\ ~gaveUp
WindowInv == Open => OpenInv

-----------------------------------------------------------------------------
(* Frames that join the pipe and frames that leave it.                     *)
LEMMA JoinPipe ==
  ASSUME WindowShape, NEW frame \in WindowFrames, Put(frame)
  PROVE  /\ frames' \in Seq(WindowFrames)
         /\ \A i \in 1..Len(frames') :
              \/ i \in 1..Len(frames) /\ frames'[i] = frames[i]
              \/ i = Len(frames) + 1 /\ frames'[i] = frame
         /\ \A i \in 1..Len(frames) : i \in 1..Len(frames') /\ frames'[i] = frames[i]
         /\ Len(frames) + 1 \in 1..Len(frames') /\ frames'[Len(frames) + 1] = frame
         /\ Len(frames) \in Nat
BY AppendProperties DEF WindowShape, Put

LEMMA JoinedPipe ==
  ASSUME WindowShape, NEW frame \in WindowFrames, Put(frame), NEW id \in OperationIds
  PROVE  /\ HasStarted(id)' <=> HasStarted(id) \/ IsStarted(frame, id)
         /\ HasEnd(id)' <=> HasEnd(id) \/ IsEnd(frame, id)
         /\ /\ InOrder(id)
            /\ frame.op = id => \/ IsReply(frame)
                                \/ ~HasStarted(id) /\ ~HasEnd(id)
                                \/ IsEnd(frame, id) /\ ~HasEnd(id)
            => InOrder(id)'
<1>1. HasStarted(id)' <=> HasStarted(id) \/ IsStarted(frame, id)
  BY JoinPipe DEF HasStarted, IsStarted
<1>2. HasEnd(id)' <=> HasEnd(id) \/ IsEnd(frame, id)
  BY JoinPipe DEF HasEnd, IsEnd
<1>3. ASSUME InOrder(id),
             frame.op = id => \/ IsReply(frame)
                              \/ ~HasStarted(id) /\ ~HasEnd(id)
                              \/ IsEnd(frame, id) /\ ~HasEnd(id)
      PROVE  InOrder(id)'
  <2> SUFFICES ASSUME NEW i \in 1..Len(frames'), NEW j \in 1..Len(frames'), i < j,
                      frames'[i].op = id, ~IsReply(frames'[i]),
                      frames'[j].op = id, ~IsReply(frames'[j])
               PROVE  IsStarted(frames'[i], id) /\ IsEnd(frames'[j], id)
    BY DEF InOrder, IsStarted, IsEnd, IsReply
  <2>1. i \in 1..Len(frames) /\ frames'[i] = frames[i] /\ frames[i] \in WindowFrames
    BY JoinPipe DEF WindowShape
  <2>2. CASE j \in 1..Len(frames)
    BY <1>3, <2>1, <2>2, JoinPipe DEF InOrder
  <2>3. CASE j = Len(frames) + 1
    <3>1. frames'[j] = frame
      BY <2>3, JoinPipe
    <3>2. IsStarted(frames[i], id) \/ IsEnd(frames[i], id)
      BY <2>1 DEF WindowFrames, Replies, Events, IsReply, IsStarted, IsEnd
    <3>3. HasStarted(id) \/ HasEnd(id)
      BY <2>1, <3>2 DEF HasStarted, HasEnd
    <3>4. IsEnd(frame, id) /\ ~HasEnd(id)
      BY <1>3, <3>1, <3>3
    <3> QED
      BY <2>1, <3>1, <3>2, <3>4 DEF HasEnd
  <2> QED
    BY <2>2, <2>3, JoinPipe
<1> QED
  BY <1>1, <1>2, <1>3

LEMMA LeavePipe ==
  ASSUME WindowShape, frames # <<>>, frames' = Tail(frames)
  PROVE  /\ frames' \in Seq(WindowFrames)
         /\ Frame \in WindowFrames /\ Frame = frames[1] /\ 1 \in 1..Len(frames)
         /\ \A i \in 1..Len(frames') :
              i + 1 \in 1..Len(frames) /\ frames'[i] = frames[i + 1] /\ 1 < i + 1
         /\ \A i \in 1..Len(frames) :
              i = 1 \/ (i - 1 \in 1..Len(frames') /\ frames'[i - 1] = frames[i])
<1>1. /\ frames' \in Seq(WindowFrames)
      /\ Frame \in WindowFrames /\ Frame = frames[1]
      /\ Len(frames) \in Nat \ {0} /\ Len(frames') = Len(frames) - 1
      /\ \A i \in 1..Len(frames') : frames'[i] = frames[i + 1]
  BY HeadTailProperties DEF WindowShape, Frame
<1>2. ASSUME NEW i \in 1..Len(frames), i # 1
      PROVE  i - 1 \in 1..Len(frames') /\ frames'[i - 1] = frames[i]
  <2>1. i - 1 \in 1..Len(frames') /\ (i - 1) + 1 = i
    BY <1>1, <1>2
  <2> QED
    BY <1>1, <2>1
<1>3. \A i \in 1..Len(frames') :
        i + 1 \in 1..Len(frames) /\ frames'[i] = frames[i + 1] /\ 1 < i + 1
  BY <1>1
<1>4. 1 \in 1..Len(frames)
  BY <1>1
<1>5. \A i \in 1..Len(frames) :
        i = 1 \/ (i - 1 \in 1..Len(frames') /\ frames'[i - 1] = frames[i])
  BY <1>2
<1> QED
  BY <1>1, <1>3, <1>4, <1>5, Zenon

LEMMA LeftPipe ==
  ASSUME WindowShape, frames # <<>>, frames' = Tail(frames), NEW id \in OperationIds
  PROVE  /\ HasStarted(id) <=> HasStarted(id)' \/ IsStarted(Frame, id)
         /\ HasEnd(id) <=> HasEnd(id)' \/ IsEnd(Frame, id)
         /\ InOrder(id) =>
              /\ InOrder(id)'
              /\ IsStarted(Frame, id) => ~HasStarted(id)'
              /\ IsEnd(Frame, id) => ~HasStarted(id)' /\ ~HasEnd(id)'
<1>1. HasStarted(id) <=> HasStarted(id)' \/ IsStarted(Frame, id)
  <2>1. HasStarted(id)' \/ IsStarted(Frame, id) => HasStarted(id)
    BY LeavePipe DEF HasStarted, IsStarted
  <2>2. HasStarted(id) => HasStarted(id)' \/ IsStarted(Frame, id)
    BY LeavePipe DEF HasStarted, IsStarted
  <2> QED
    BY <2>1, <2>2
<1>2. HasEnd(id) <=> HasEnd(id)' \/ IsEnd(Frame, id)
  <2>1. HasEnd(id)' \/ IsEnd(Frame, id) => HasEnd(id)
    BY LeavePipe DEF HasEnd, IsEnd
  <2>2. HasEnd(id) => HasEnd(id)' \/ IsEnd(Frame, id)
    BY LeavePipe DEF HasEnd, IsEnd
  <2> QED
    BY <2>1, <2>2
<1>3. ASSUME InOrder(id), NEW i \in 1..Len(frames'), NEW j \in 1..Len(frames'), i < j,
             frames'[i].op = id, ~IsReply(frames'[i]),
             frames'[j].op = id, ~IsReply(frames'[j])
      PROVE  IsStarted(frames'[i], id) /\ IsEnd(frames'[j], id)
  <2>1. /\ i + 1 \in 1..Len(frames) /\ frames'[i] = frames[i + 1]
        /\ j + 1 \in 1..Len(frames) /\ frames'[j] = frames[j + 1]
    BY LeavePipe
  <2>2. i + 1 < j + 1
    BY <1>3
  <2>3. frames[i + 1].op = id /\ frames[j + 1].op = id /\ ~IsReply(frames[i + 1])
        /\ ~IsReply(frames[j + 1])
    BY <1>3, <2>1 DEF IsReply
  <2> QED
    BY <1>3, <2>1, <2>2, <2>3 DEF InOrder, IsStarted, IsEnd
<1>4. ASSUME InOrder(id), Frame.op = id, ~IsReply(Frame),
             NEW i \in 1..Len(frames'), frames'[i].op = id, ~IsReply(frames'[i])
      PROVE  IsStarted(Frame, id) /\ IsEnd(frames'[i], id)
  <2>1. /\ i + 1 \in 1..Len(frames) /\ frames'[i] = frames[i + 1] /\ 1 < i + 1
        /\ 1 \in 1..Len(frames) /\ frames[1] = Frame
    BY LeavePipe
  <2>2. frames[i + 1].op = id /\ ~IsReply(frames[i + 1])
    BY <1>4, <2>1 DEF IsReply
  <2> QED
    BY <1>4, <2>1, <2>2 DEF InOrder, IsStarted, IsEnd
<1>5. InOrder(id) => InOrder(id)'
  BY <1>3 DEF InOrder, IsStarted, IsEnd, IsReply
<1>6. ASSUME InOrder(id), IsStarted(Frame, id) PROVE ~HasStarted(id)'
  <2> SUFFICES ASSUME NEW i \in 1..Len(frames'), IsStarted(frames'[i], id) PROVE FALSE
    BY DEF HasStarted, IsStarted
  <2> QED
    BY <1>4, <1>6 DEF IsStarted, IsEnd, IsReply
<1>7. ASSUME InOrder(id), IsEnd(Frame, id) PROVE ~HasStarted(id)' /\ ~HasEnd(id)'
  <2>1. ASSUME NEW i \in 1..Len(frames'), IsStarted(frames'[i], id) \/ IsEnd(frames'[i], id)
        PROVE  FALSE
    BY <1>4, <1>7, <2>1 DEF IsStarted, IsEnd, IsReply
  <2> QED
    BY <2>1 DEF HasStarted, HasEnd, IsStarted, IsEnd
<1> QED
  BY <1>1, <1>2, <1>5, <1>6, <1>7

LEMMA ReplyIsNoEvent ==
  ASSUME NEW frame \in WindowFrames, NEW id \in OperationIds
  PROVE  /\ IsReply(frame) => ~IsStarted(frame, id) /\ ~IsEnd(frame, id)
         /\ ~IsReply(frame) => frame.op \in OperationIds
         /\ frame.what = "started" => ~IsReply(frame) /\ ~IsEnd(frame, id)
         /\ frame.what \in {"exited", "error"} => ~IsReply(frame) /\ ~IsStarted(frame, id)
BY DEF IsReply, IsStarted, IsEnd, WindowFrames, Replies, Events

-----------------------------------------------------------------------------
(* Steps that leave every operation to the window as it was.               *)
LEMMA QuietLives ==
  ASSUME LivesInv,
         UNCHANGED <<running, operationId, completedOperations, game>>,
         \A id \in OperationIds :
           /\ HasStarted(id)' <=> HasStarted(id)
           /\ HasEnd(id)' <=> HasEnd(id)
           /\ InOrder(id)'
           /\ Announcing(id)' <=> Announcing(id),
         pending' # NoPending /\ handled'[pending'.of].op = NoOp =>
           \A id \in OperationIds : ~Unsettled(id)
  PROVE  LivesInv'
<1>1. \A id \in OperationIds : Unsettled(id)' <=> Unsettled(id)
  BY DEF Unsettled, InCore
<1>2. ASSUME NEW id \in OperationIds PROVE LifeInv(id)'
  BY DEF LivesInv, LifeInv
<1> QED
  BY <1>1, <1>2 DEF LivesInv

LEMMA SamePipe ==
  ASSUME frames' = frames, NEW id \in OperationIds
  PROVE  /\ HasStarted(id)' <=> HasStarted(id)
         /\ HasEnd(id)' <=> HasEnd(id)
         /\ InOrder(id)' <=> InOrder(id)
BY DEF HasStarted, HasEnd, InOrder, IsStarted, IsEnd, IsReply

(* Nothing is unsettled for a window that is not engaged.                  *)
LEMMA IdleIsSettled ==
  ASSUME WindowShape, RequestsInv, LivesInv, ~running, operationId = NoOp,
         pending = NoPending, NEW id \in OperationIds
  PROVE  ~Unsettled(id) /\ ~Announcing(id)
<1>1. ~Announcing(id) /\ id # NoOp /\ LifeInv(id)
  BY WindowAssumption DEF Announcing, LivesInv
<1> QED
  BY <1>1 DEF LifeInv, Unsettled, InCore, WindowShape

-----------------------------------------------------------------------------
(* The core sends the reply to request n.                                  *)
LEMMA ReplyStep ==
  ASSUME OpenInv, NEW n \in RequestIds, NEW frame \in WindowFrames,
         handled[n].at \in {"sent", "working", "replying"},
         handled' = [handled EXCEPT ![n].at = "done"],
         Put(frame), IsReply(frame), frame.of = n,
         IF frame.what = "refusal" THEN handled[n].op = NoOp
         ELSE /\ frame.op = handled[n].op
              /\ handled[n].kind = "launch" <=> frame.op # NoOp,
         UNCHANGED <<windowVars, pending, game, controls, sent>>
  PROVE  OpenInv'
<1> USE DEF OpenInv
<1>1. Awaited(n) /\ pending.of = n /\ pending # NoPending
  BY DEF RequestsInv, Awaited
<1>2. /\ handled' \in [RequestIds -> [kind : Kinds \cup {"none"}, at : Stages,
                                      op : OperationIds \cup {NoOp}]]
      /\ handled'[n].at = "done" /\ handled'[n].op = handled[n].op
      /\ handled'[n].kind = handled[n].kind
      /\ \A m \in RequestIds \ {n} : handled'[m] = handled[m]
  BY DEF WindowShape, Stages
<1>3. WindowShape'
  BY <1>2, JoinPipe DEF WindowShape, windowVars
<1>4. \A i \in 1..Len(frames) : ~IsReply(frames[i])
  BY <1>1 DEF RequestsInv, Awaited
<1>5. \A i \in 1..Len(frames') :
        IsReply(frames'[i]) => i = Len(frames) + 1 /\ frames'[i] = frame
  BY <1>4, JoinPipe DEF IsReply
<1>6. RequestsInv'
  <2>1. pending.kind = handled[n].kind
    BY <1>1 DEF RequestsInv
  <2> QED
    BY <1>1, <1>2, <1>5, <2>1 DEF RequestsInv, Awaited, windowVars, IsReply
<1>7. LivesInv'
  <2>1. ASSUME NEW id \in OperationIds
        PROVE  /\ HasStarted(id)' <=> HasStarted(id)
               /\ HasEnd(id)' <=> HasEnd(id)
               /\ InOrder(id)'
    BY JoinedPipe, ReplyIsNoEvent DEF LivesInv, LifeInv
  <2>2. \A id \in OperationIds : Announcing(id)' <=> Announcing(id)
    BY <1>1, <1>2 DEF Announcing
  <2> QED
    BY <1>1, <1>2, <2>1, <2>2, QuietLives DEF LivesInv, windowVars
<1> QED
  BY <1>3, <1>6, <1>7

(* The core sends an event of an operation.                                *)
LEMMA EventJoinsRequests ==
  ASSUME WindowShape, RequestsInv, NEW frame \in WindowFrames,
         Put(frame), ~IsReply(frame),
         UNCHANGED <<pending, busy, sent, handled>>
  PROVE  RequestsInv'
<1>1. \A i \in 1..Len(frames') : IsReply(frames'[i]) =>
        i \in 1..Len(frames) /\ frames'[i] = frames[i]
  BY JoinPipe DEF IsReply
<1> QED
  BY <1>1 DEF RequestsInv, Awaited, IsReply

LEMMA StartGameStep ==
  ASSUME OpenInv, NEW id \in OperationIds, StartGame(id)
  PROVE  OpenInv'
<1> DEFINE frame == Event("started", id)
<1> USE DEF OpenInv
<1>1. /\ frame \in WindowFrames /\ IsStarted(frame, id) /\ ~IsReply(frame)
      /\ \A x \in OperationIds : ~IsEnd(frame, x) /\ (IsStarted(frame, x) => x = id)
      /\ frame.op = id
  BY DEF Event, WindowFrames, Replies, Events, IsStarted, IsEnd, IsReply
<1> HIDE DEF frame
<1>2. /\ game[id] = "preparing" /\ game' = [game EXCEPT ![id] = "playing"] /\ Put(frame)
      /\ UNCHANGED <<windowVars, pending, sent, handled, controls>>
  BY DEF StartGame, CoreUntouched, frame
<1>3. WindowShape'
  BY <1>1, <1>2, JoinPipe DEF WindowShape, windowVars
<1>4. RequestsInv'
  BY <1>1, <1>2, EventJoinsRequests DEF windowVars
<1>5. ASSUME NEW x \in OperationIds
      PROVE  /\ HasStarted(x)' <=> HasStarted(x) \/ x = id
             /\ HasEnd(x)' <=> HasEnd(x)
             /\ InOrder(x)'
             /\ Announcing(x)' <=> Announcing(x)
  <2>1. InOrder(x) /\ (x = id => ~HasStarted(x) /\ ~HasEnd(x))
    BY <1>2 DEF LivesInv, LifeInv
  <2>2. Announcing(x)' <=> Announcing(x)
    BY <1>2 DEF Announcing
  <2> QED
    BY <1>1, <1>2, <2>1, <2>2, JoinedPipe
<1>6. LifeInv(id)'
  BY <1>2, <1>5 DEF LivesInv, LifeInv, WindowShape, windowVars
<1>7. ASSUME NEW x \in OperationIds, x # id PROVE LifeInv(x)'
  BY <1>2, <1>5, <1>7 DEF LivesInv, LifeInv, windowVars
<1>8. Unsettled(id)
  BY <1>2 DEF Unsettled, InCore
<1>9. ASSUME NEW x \in OperationIds, Unsettled(x)' PROVE Unsettled(x)
  BY <1>2, <1>5, <1>8, <1>9 DEF Unsettled, InCore, WindowShape, windowVars
<1>10. LivesInv'
  BY <1>2, <1>6, <1>7, <1>8, <1>9 DEF LivesInv, windowVars
<1> QED
  BY <1>3, <1>4, <1>10

LEMMA EndStep ==
  ASSUME OpenInv, NEW id \in OperationIds, NEW what \in {"exited", "error"},
         InCore(id), game' = [game EXCEPT ![id] = "ended"], Put(Event(what, id)),
         controls' \subseteq controls,
         UNCHANGED <<windowVars, pending, sent, handled>>
  PROVE  OpenInv'
<1> DEFINE frame == Event(what, id)
<1> USE DEF OpenInv
<1>1. /\ frame \in WindowFrames /\ IsEnd(frame, id) /\ ~IsReply(frame)
      /\ \A x \in OperationIds : ~IsStarted(frame, x) /\ (IsEnd(frame, x) => x = id)
      /\ frame.op = id
  BY DEF Event, WindowFrames, Replies, Events, IsStarted, IsEnd, IsReply
<1>2. Put(frame)
  OBVIOUS
<1> HIDE DEF frame
<1>3. WindowShape'
  BY <1>1, <1>2, JoinPipe DEF WindowShape, windowVars
<1>4. RequestsInv'
  BY <1>1, <1>2, EventJoinsRequests DEF windowVars
<1>5. ASSUME NEW x \in OperationIds
      PROVE  /\ HasStarted(x)' <=> HasStarted(x)
             /\ HasEnd(x)' <=> HasEnd(x) \/ x = id
             /\ InOrder(x)'
             /\ Announcing(x)' <=> Announcing(x)
  <2>1. InOrder(x) /\ (x = id => ~HasEnd(x))
    BY DEF LivesInv, LifeInv, InCore
  <2>2. Announcing(x)' <=> Announcing(x)
    BY DEF Announcing
  <2> QED
    BY <1>1, <1>2, <2>1, <2>2, JoinedPipe
<1>6. LifeInv(id)'
  <2>1. game'[id] = "ended" /\ HasEnd(id)'
    BY <1>5 DEF WindowShape
  <2>2. HasStarted(id)' => ~running'
    BY <1>5 DEF LivesInv, LifeInv, InCore, windowVars
  <2>3. ~Announcing(id)' => operationId' = id
    BY <1>5 DEF LivesInv, LifeInv, InCore, windowVars
  <2>4. id \notin completedOperations'
    BY DEF LivesInv, LifeInv, InCore, windowVars
  <2> QED
    BY <1>5, <2>1, <2>2, <2>3, <2>4 DEF LifeInv
<1>7. ASSUME NEW x \in OperationIds, x # id PROVE LifeInv(x)'
  <2>1. game'[x] = game[x]
    BY <1>7 DEF WindowShape
  <2> QED
    BY <1>5, <1>7, <2>1 DEF LivesInv, LifeInv, windowVars
<1>8. Unsettled(id)
  BY DEF Unsettled
<1>9. ASSUME NEW x \in OperationIds, Unsettled(x)' PROVE Unsettled(x)
  <2>1. x # id => game'[x] = game[x]
    BY DEF WindowShape
  <2> QED
    BY <1>5, <1>8, <1>9, <2>1 DEF Unsettled, InCore, windowVars
<1>10. LivesInv'
  BY <1>6, <1>7, <1>8, <1>9 DEF LivesInv, windowVars
<1> QED
  BY <1>3, <1>4, <1>10

LEMMA BeginLaunchStep ==
  ASSUME OpenInv, NEW n \in RequestIds, NEW id \in OperationIds, BeginLaunch(n, id)
  PROVE  OpenInv'
<1> USE DEF OpenInv
<1>1. /\ handled[n].at = "working" /\ handled[n].kind = "launch" /\ game[id] = "none"
      /\ game' = [game EXCEPT ![id] = "preparing"]
      /\ handled' = [handled EXCEPT ![n].at = "replying", ![n].op = id]
      /\ UNCHANGED <<windowVars, pending, sent, frames, controls>>
  BY DEF BeginLaunch, CoreUntouched
<1>2. /\ Awaited(n) /\ pending.of = n /\ pending # NoPending /\ handled[n].op = NoOp
      /\ \A i \in 1..Len(frames) : ~IsReply(frames[i])
  BY <1>1 DEF RequestsInv, Awaited
<1>3. \A x \in OperationIds : ~Unsettled(x)
  BY <1>2 DEF LivesInv
<1>4. /\ handled' \in [RequestIds -> [kind : Kinds \cup {"none"}, at : Stages,
                                      op : OperationIds \cup {NoOp}]]
      /\ handled'[n].at = "replying" /\ handled'[n].op = id
      /\ handled'[n].kind = "launch"
      /\ \A m \in RequestIds \ {n} : handled'[m] = handled[m]
  <2> DEFINE replying == [handled EXCEPT ![n].at = "replying"]
  <2>1. /\ replying \in [RequestIds -> [kind : Kinds \cup {"none"}, at : Stages,
                                        op : OperationIds \cup {NoOp}]]
        /\ replying[n].at = "replying" /\ replying[n].kind = "launch"
        /\ \A m \in RequestIds \ {n} : replying[m] = handled[m]
    BY <1>1 DEF WindowShape, Stages
  <2>2. handled' = [replying EXCEPT ![n].op = id]
    BY <1>1 DEF WindowShape
  <2> HIDE DEF replying
  <2> QED
    BY <2>1, <2>2
<1>5. WindowShape'
  BY <1>1, <1>4 DEF WindowShape, windowVars
<1>6. RequestsInv'
  BY <1>1, <1>2, <1>4, WindowAssumption DEF RequestsInv, Awaited, IsReply, windowVars
<1>7. ASSUME NEW x \in OperationIds
      PROVE  /\ ~HasStarted(x)' /\ ~HasEnd(x)' /\ InOrder(x)' /\ operationId' # x
             /\ Announcing(x)' <=> x = id
  <2>1. InOrder(x) /\ ~HasStarted(x) /\ ~HasEnd(x) /\ operationId # x
    BY <1>3 DEF LivesInv, LifeInv, Unsettled
  <2>2. Announcing(x)' <=> x = id
    BY <1>1, <1>2, <1>4 DEF Announcing
  <2> QED
    BY <1>1, <2>1, <2>2, SamePipe DEF windowVars
<1>8. operationId' = NoOp /\ ~running'
  BY <1>1, <1>7 DEF LivesInv, WindowShape, windowVars
<1>9. LifeInv(id)'
  BY <1>1, <1>7, <1>8 DEF LivesInv, LifeInv, WindowShape, windowVars
<1>10. ASSUME NEW x \in OperationIds, x # id PROVE LifeInv(x)' /\ ~Unsettled(x)'
  <2>1. game'[x] = game[x] /\ ~InCore(x)
    BY <1>1, <1>3, <1>10 DEF WindowShape, Unsettled
  <2>2. game[x] \in {"none", "ended"}
    BY <2>1 DEF WindowShape, InCore
  <2> QED
    BY <1>1, <1>7, <1>10, <2>1, <2>2 DEF LivesInv, LifeInv, Unsettled, InCore, windowVars
<1>11. LivesInv'
  BY <1>2, <1>1, <1>4, <1>8, <1>9, <1>10, WindowAssumption DEF LivesInv
<1> QED
  BY <1>5, <1>6, <1>11

(* The window sends a request when nothing is unsettled.                   *)
LEMMA SendStep ==
  ASSUME OpenInv, link = "up", NEW kind \in Kinds, Send(kind), busy',
         sent < MaxRequests, kind = "play" => sent + 1 < MaxRequests,
         \A n \in RequestIds : handled[n].at \in {"unsent", "done"},
         \A id \in OperationIds : ~Unsettled(id),
         frames' \in Seq(WindowFrames),
         \A i \in 1..Len(frames') : ~IsReply(frames'[i]),
         \A id \in OperationIds :
           (HasStarted(id)' <=> HasStarted(id)) /\ (HasEnd(id)' <=> HasEnd(id)) /\ InOrder(id)',
         UNCHANGED <<running, operationId, completedOperations, game, controls>>,
         busy' \in BOOLEAN
  PROVE  OpenInv'
<1> USE DEF OpenInv
<1> DEFINE n == sent + 1
<1>1. /\ n \in RequestIds /\ n \in Nat /\ sent' = n
      /\ pending' = [of |-> n, kind |-> kind] /\ pending' # NoPending
      /\ handled' = [handled EXCEPT ![n] = [kind |-> kind, at |-> "sent", op |-> NoOp]]
  BY WindowAssumption DEF Send, WindowShape, RequestIds, NoPending
<1> HIDE DEF n
<1>2. /\ handled' \in [RequestIds -> [kind : Kinds \cup {"none"}, at : Stages,
                                      op : OperationIds \cup {NoOp}]]
      /\ handled'[n] = [kind |-> kind, at |-> "sent", op |-> NoOp]
      /\ \A m \in RequestIds \ {n} : handled'[m] = handled[m]
  BY <1>1 DEF WindowShape, Stages
<1>3. WindowShape'
  BY <1>1, <1>2 DEF WindowShape
<1>4. RequestsInv'
  <2>1. kind = "play" => sent' < MaxRequests
    BY <1>1 DEF n
  <2> QED
    BY <1>1, <1>2, <2>1 DEF RequestsInv, Awaited, IsReply
<1>5. \A id \in OperationIds : ~Announcing(id) /\ ~Announcing(id)'
  BY <1>1, <1>2, WindowAssumption DEF Announcing, Unsettled
<1>6. LivesInv'
  BY <1>5, QuietLives
<1> QED
  BY <1>3, <1>4, <1>6

LEMMA NoAwaitedRequest ==
  ASSUME RequestsInv, WindowShape,
         pending = NoPending \/ handled[pending.of].at = "done",
         NEW n \in RequestIds
  PROVE  handled[n].at \in {"unsent", "done"}
BY DEF RequestsInv, Awaited, WindowShape, Stages

LEMMA PressStep ==
  ASSUME OpenInv, link = "up", PressPlay \/ PressOther
  PROVE  OpenInv'
<1> USE DEF OpenInv
<1>1. /\ ~busy /\ ~running /\ operationId = NoOp /\ busy' = TRUE
      /\ frames' = frames
      /\ UNCHANGED <<running, operationId, completedOperations, game, controls>>
  BY DEF PressPlay, PressOther, MayCall, Engaged
<1>2. pending = NoPending
  BY <1>1 DEF RequestsInv
<1>3. PICK kind \in Kinds : /\ Send(kind) /\ sent < MaxRequests
                            /\ kind = "play" => sent + 1 < MaxRequests
  BY WindowAssumption DEF PressPlay, PressOther, Kinds, WindowShape
<1>4. \A id \in OperationIds : ~Unsettled(id)
  BY <1>1, <1>2, IdleIsSettled
<1>5. \A n \in RequestIds : handled[n].at \in {"unsent", "done"}
  BY <1>2, NoAwaitedRequest
<1>6. \A i \in 1..Len(frames') : ~IsReply(frames'[i])
  BY <1>1, <1>2 DEF RequestsInv, Awaited, IsReply
<1>7. ASSUME NEW id \in OperationIds
      PROVE  (HasStarted(id)' <=> HasStarted(id)) /\ (HasEnd(id)' <=> HasEnd(id))
             /\ InOrder(id)'
  BY <1>1, SamePipe DEF LivesInv, LifeInv
<1>8. frames' \in Seq(WindowFrames)
  BY <1>1 DEF WindowShape
<1> QED
  BY <1>1, <1>3, <1>4, <1>5, <1>6, <1>7, <1>8, SendStep

-----------------------------------------------------------------------------
(* The window takes a reply: no other is in the pipe.                      *)
LEMMA ReplyTaken ==
  ASSUME OpenInv, frames # <<>>, frames' = Tail(frames), IsReply(Frame)
  PROVE  /\ pending # NoPending /\ pending.of \in RequestIds
         /\ Frame.of = pending.of /\ handled[pending.of].at = "done"
         /\ IF Frame.what = "refusal" THEN handled[pending.of].op = NoOp
            ELSE /\ Frame.op = handled[pending.of].op
                 /\ pending.kind = "launch" <=> Frame.op # NoOp
         /\ frames' \in Seq(WindowFrames)
         /\ \A i \in 1..Len(frames') : ~IsReply(frames'[i])
         /\ \A id \in OperationIds :
              (HasStarted(id)' <=> HasStarted(id)) /\ (HasEnd(id)' <=> HasEnd(id)) /\ InOrder(id)'
<1> USE DEF OpenInv
<1>1. /\ frames' \in Seq(WindowFrames)
      /\ Frame \in WindowFrames /\ Frame = frames[1] /\ 1 \in 1..Len(frames)
  BY LeavePipe
<1>2. ASSUME NEW i \in 1..Len(frames') PROVE ~IsReply(frames'[i])
  <2>1. i + 1 \in 1..Len(frames) /\ frames'[i] = frames[i + 1] /\ i + 1 # 1
    BY LeavePipe
  <2>2. ~IsReply(frames[i + 1])
    BY <1>1, <2>1 DEF RequestsInv
  <2> QED
    BY <2>1, <2>2 DEF IsReply
<1>3. ASSUME NEW id \in OperationIds
      PROVE  (HasStarted(id)' <=> HasStarted(id)) /\ (HasEnd(id)' <=> HasEnd(id))
             /\ InOrder(id)'
  BY <1>1, LeftPipe, ReplyIsNoEvent DEF LivesInv, LifeInv
<1>4. /\ Awaited(Frame.of) /\ handled[pending.of].at = "done"
      /\ IF Frame.what = "refusal" THEN handled[pending.of].op = NoOp
         ELSE /\ Frame.op = handled[pending.of].op
              /\ pending.kind = "launch" <=> Frame.op # NoOp
  BY <1>1 DEF RequestsInv
<1> QED
  BY <1>1, <1>2, <1>3, <1>4 DEF RequestsInv, Awaited

(* The request is over, and no operation with it.                          *)
LEMMA ReplyEndsRequest ==
  ASSUME OpenInv, frames # <<>>, frames' = Tail(frames), IsReply(Frame),
         pending' = NoPending, busy' = FALSE,
         UNCHANGED <<running, completedOperations, handled, sent, game, controls>>,
         operationId' \in OperationIds \cup {NoOp},
         LivesInv'
  PROVE  OpenInv'
<1> USE DEF OpenInv
<1>1. WindowShape'
  BY ReplyTaken DEF WindowShape, NoPending
<1>2. RequestsInv'
  BY ReplyTaken, NoAwaitedRequest DEF RequestsInv, IsReply
<1> QED
  BY <1>1, <1>2

LEMMA ReplyStaysQuiet ==
  ASSUME OpenInv, frames # <<>>, frames' = Tail(frames), IsReply(Frame),
         handled[pending.of].op = NoOp, pending' = NoPending,
         UNCHANGED <<running, operationId, completedOperations, game>>
  PROVE  LivesInv'
<1> USE DEF OpenInv
<1>1. \A id \in OperationIds : ~Unsettled(id)
  BY ReplyTaken DEF LivesInv
<1>2. \A id \in OperationIds : ~Announcing(id)' /\ ~Announcing(id)
  BY <1>1 DEF Announcing, Unsettled
<1> QED
  BY <1>2, ReplyTaken, QuietLives

LEMMA PlainReplyStep ==
  ASSUME OpenInv, TakeRefusal \/ TakeAnswer
  PROVE  OpenInv'
<1> USE DEF OpenInv
<1>1. /\ frames # <<>> /\ frames' = Tail(frames) /\ IsReply(Frame)
      /\ pending' = NoPending /\ busy' = FALSE
      /\ UNCHANGED <<running, operationId, completedOperations, handled, sent, game,
                     controls>>
      /\ Frame.what # "refusal" => pending.kind = "other"
  BY DEF TakeRefusal, TakeAnswer, Take, Observe, IsReply
<1>2. handled[pending.of].op = NoOp
  BY <1>1, ReplyTaken
<1>3. operationId' \in OperationIds \cup {NoOp}
  BY <1>1 DEF WindowShape
<1>4. LivesInv'
  BY <1>1, <1>2, ReplyStaysQuiet
<1> QED
  BY <1>1, <1>3, <1>4, ReplyEndsRequest

LEMMA LaunchSelectedStep ==
  ASSUME OpenInv, link = "up", LaunchSelected
  PROVE  OpenInv'
<1> USE DEF OpenInv
<1>1. /\ frames # <<>> /\ frames' = Tail(frames) /\ IsReply(Frame)
      /\ Frame.what = "answer" /\ pending.kind = "play"
      /\ UNCHANGED <<running, operationId, completedOperations, game, controls>>
  BY DEF LaunchSelected, Take, Observe, IsReply
<1>2. handled[pending.of].op = NoOp
  BY <1>1, ReplyTaken
<1>3. CASE ~running /\ operationId = NoOp
  <2>1. Send("launch") /\ busy' = TRUE /\ "launch" \in Kinds
    BY <1>3 DEF LaunchSelected, Kinds
  <2>2. sent < MaxRequests
    BY <1>1, ReplyTaken DEF RequestsInv
  <2>3. \A n \in RequestIds : handled[n].at \in {"unsent", "done"}
    BY <1>1, ReplyTaken, NoAwaitedRequest
  <2>4. \A id \in OperationIds : ~Unsettled(id)
    BY <1>1, <1>2, ReplyTaken DEF LivesInv
  <2> QED
    BY <1>1, <2>1, <2>2, <2>3, <2>4, ReplyTaken, SendStep
<1>4. CASE ~(~running /\ operationId = NoOp)
  <2>1. pending' = NoPending /\ busy' = FALSE /\ UNCHANGED <<handled, sent>>
    BY <1>4 DEF LaunchSelected
  <2>2. operationId' \in OperationIds \cup {NoOp}
    BY <1>1 DEF WindowShape
  <2>3. LivesInv'
    BY <1>1, <1>2, <2>1, ReplyStaysQuiet
  <2> QED
    BY <1>1, <2>1, <2>2, <2>3, ReplyEndsRequest
<1> QED
  BY <1>3, <1>4

LEMMA TakeLaunchAnswerStep ==
  ASSUME OpenInv, TakeLaunchAnswer
  PROVE  OpenInv'
<1> USE DEF OpenInv
<1>1. /\ frames # <<>> /\ frames' = Tail(frames) /\ IsReply(Frame)
      /\ Frame.what = "answer" /\ pending.kind = "launch"
      /\ pending' = NoPending /\ busy' = FALSE
      /\ operationId' = IF Frame.op \notin completedOperations THEN Frame.op
                         ELSE operationId
      /\ UNCHANGED <<running, completedOperations, handled, sent, game, controls>>
  BY DEF TakeLaunchAnswer, Take, Observe, IsReply, Follow
<1>2. PICK id \in OperationIds :
        id = Frame.op /\ handled[pending.of].op = id /\ pending # NoPending
  BY <1>1, ReplyTaken, LeavePipe DEF WindowFrames, Replies, Events
<1>3. Announcing(id) /\ Unsettled(id)
  BY <1>2 DEF Announcing, Unsettled
<1>4. operationId' \in OperationIds \cup {NoOp}
  BY <1>1, <1>2 DEF WindowShape
<1>5. ASSUME NEW x \in OperationIds
      PROVE  /\ HasStarted(x)' <=> HasStarted(x)
             /\ HasEnd(x)' <=> HasEnd(x)
             /\ InOrder(x)' /\ ~Announcing(x)'
  BY <1>1, ReplyTaken DEF Announcing
<1>6. ASSUME NEW x \in OperationIds, Unsettled(x)' PROVE x = id
  <2>1. Unsettled(x) \/ operationId' = x
    BY <1>1, <1>5, <1>6 DEF Unsettled, InCore
  <2>2. operationId' = x => x = id \/ Unsettled(x)
    BY <1>1, <1>2 DEF Unsettled
  <2> QED
    BY <1>2, <1>3, <2>1, <2>2 DEF LivesInv
<1>7. LifeInv(id)'
  <2>1. LifeInv(id) /\ id # NoOp /\ game[id] \in {"none", "preparing", "playing", "ended"}
    BY WindowAssumption DEF LivesInv, WindowShape
  <2>2. /\ operationId' = IF id \notin completedOperations THEN id ELSE operationId
        /\ UNCHANGED <<running, completedOperations, game>>
    BY <1>1, <1>2
  <2> QED
    BY <1>3, <1>5, <2>1, <2>2 DEF LifeInv
<1>8. ASSUME NEW x \in OperationIds, x # id PROVE LifeInv(x)'
  <2>1. LifeInv(x) /\ ~Unsettled(x)
    BY <1>2, <1>3, <1>8 DEF LivesInv
  <2>2. operationId' # x
    BY <1>6, <1>8 DEF Unsettled
  <2> QED
    BY <1>1, <1>5, <2>1, <2>2 DEF LifeInv, Unsettled, InCore
<1>9. running' => operationId' # NoOp
  BY <1>1, <1>2, WindowAssumption DEF LivesInv
<1>10. LivesInv'
  <2>1. \A x \in OperationIds : LifeInv(x)'
    BY <1>7, <1>8
  <2>2. pending' = NoPending
    BY <1>1
  <2> QED
    BY <1>6, <1>9, <2>1, <2>2 DEF LivesInv
<1> QED
  BY <1>1, <1>4, <1>10, ReplyEndsRequest

-----------------------------------------------------------------------------
(* The window takes an event.                                              *)
LEMMA EventLeavesRequests ==
  ASSUME WindowShape, RequestsInv, frames # <<>>, frames' = Tail(frames),
         UNCHANGED <<pending, busy, sent, handled>>
  PROVE  RequestsInv'
<1>1. ASSUME NEW i \in 1..Len(frames')
      PROVE  i + 1 \in 1..Len(frames) /\ frames'[i] = frames[i + 1]
  BY LeavePipe
<1>2. ASSUME NEW i \in 1..Len(frames'), NEW j \in 1..Len(frames'),
             IsReply(frames'[i]), IsReply(frames'[j])
      PROVE  i = j
  <2>1. IsReply(frames[i + 1]) /\ IsReply(frames[j + 1])
    BY <1>1, <1>2 DEF IsReply
  <2>2. i + 1 = j + 1
    BY <1>1, <2>1 DEF RequestsInv
  <2> QED
    BY <2>2
<1>3. ASSUME NEW i \in 1..Len(frames'), IsReply(frames'[i])
      PROVE  /\ Awaited(frames'[i].of) /\ handled[pending.of].at = "done"
             /\ IF frames'[i].what = "refusal" THEN handled[pending.of].op = NoOp
                ELSE /\ frames'[i].op = handled[pending.of].op
                     /\ pending.kind = "launch" <=> frames'[i].op # NoOp
  <2>1. IsReply(frames[i + 1])
    BY <1>1, <1>3 DEF IsReply
  <2> QED
    BY <1>1, <2>1 DEF RequestsInv
<1> QED
  BY <1>2, <1>3 DEF RequestsInv, Awaited, IsReply

(* An event that arrives concerns the operation that is unsettled.         *)
LEMMA EventConcerns ==
  ASSUME OpenInv, frames # <<>>, frames' = Tail(frames), ~IsReply(Frame)
  PROVE  /\ Frame.op \in OperationIds /\ Unsettled(Frame.op) /\ Concerns(Frame.op)
         /\ Frame.what = "started" =>
              IsStarted(Frame, Frame.op) /\ game[Frame.op] \in {"playing", "ended"}
         /\ Frame.what # "started" =>
              IsEnd(Frame, Frame.op) /\ game[Frame.op] = "ended"
<1> USE DEF OpenInv
<1> DEFINE id == Frame.op
<1>1. Frame \in WindowFrames /\ Frame = frames[1] /\ 1 \in 1..Len(frames)
  BY LeavePipe
<1>2. id \in OperationIds
  BY <1>1 DEF IsReply, WindowFrames, Replies, Events
<1>3. /\ Frame.what = "started" => IsStarted(Frame, id)
      /\ Frame.what # "started" => IsEnd(Frame, id)
  BY <1>1 DEF IsReply, IsStarted, IsEnd, WindowFrames, Replies, Events
<1> HIDE DEF id
<1>4. /\ Frame.what = "started" => HasStarted(id)
      /\ Frame.what # "started" => HasEnd(id)
  BY <1>1, <1>3 DEF HasStarted, HasEnd
<1>5. LifeInv(id) /\ Unsettled(id)
  BY <1>2, <1>4 DEF LivesInv, Unsettled
<1>6. game[id] \in {"none", "preparing", "playing", "ended"}
  BY <1>2 DEF WindowShape
<1>7. /\ Frame.what = "started" => game[id] \in {"playing", "ended"}
      /\ Frame.what # "started" => game[id] = "ended"
      /\ id \notin completedOperations
  BY <1>4, <1>5, <1>6 DEF LifeInv
<1>8. operationId \in {NoOp, id}
  <2>1. operationId \in OperationIds => Unsettled(operationId)
    BY DEF Unsettled
  <2> QED
    BY <1>2, <1>5, <2>1 DEF LivesInv, WindowShape
<1> QED
  BY <1>2, <1>3, <1>5, <1>7, <1>8 DEF Concerns, id

LEMMA EventSettles ==
  ASSUME OpenInv, frames # <<>>, frames' = Tail(frames), ~IsReply(Frame),
         NEW id \in OperationIds, id = Frame.op,
         running' \in BOOLEAN, operationId' \in {NoOp, id},
         running' => operationId' # NoOp,
         completedOperations' \subseteq completedOperations \cup {id},
         UNCHANGED <<busy, pending, handled, sent, game, controls>>,
         LifeInv(id)'
  PROVE  OpenInv'
<1> USE DEF OpenInv
<1>1. Unsettled(id)
  BY EventConcerns
<1>2. WindowShape'
  BY <1>1, LeavePipe DEF WindowShape
<1>3. RequestsInv'
  BY EventLeavesRequests
<1>4. Frame \in WindowFrames
  BY LeavePipe
<1>5. ASSUME NEW x \in OperationIds, x # id PROVE LifeInv(x)' /\ ~Unsettled(x)'
  <2>1. LifeInv(x) /\ ~Unsettled(x)
    BY <1>1, <1>5 DEF LivesInv
  <2>2. ~IsStarted(Frame, x) /\ ~IsEnd(Frame, x)
    BY <1>4, <1>5 DEF IsStarted, IsEnd
  <2>3. ~HasStarted(x)' /\ ~HasEnd(x)' /\ InOrder(x)'
    BY <2>1, <2>2, LeftPipe DEF LifeInv, Unsettled
  <2>4. ~Announcing(x)' /\ operationId' # x
    BY <1>5, <2>1, WindowAssumption DEF Announcing, Unsettled
  <2>5. x \in completedOperations' => x \in completedOperations
    BY <1>5
  <2> QED
    BY <2>1, <2>3, <2>4, <2>5 DEF LifeInv, Unsettled, InCore
<1>6. LivesInv'
  <2>1. ~(pending' # NoPending /\ handled'[pending'.of].op = NoOp)
    BY <1>1 DEF LivesInv
  <2>2. \A x \in OperationIds : LifeInv(x)' /\ (Unsettled(x)' => x = id)
    BY <1>5
  <2> QED
    BY <2>1, <2>2 DEF LivesInv
<1> QED
  BY <1>2, <1>3, <1>6

LEMMA TakeStartedStep ==
  ASSUME OpenInv, TakeStarted
  PROVE  OpenInv'
<1> USE DEF OpenInv
<1>1. /\ frames # <<>> /\ frames' = Tail(frames)
      /\ Frame.what = "started" /\ ~IsReply(Frame)
      /\ UNCHANGED <<busy, completedOperations, pending, handled, sent, game, controls>>
  BY DEF TakeStarted, Take, Observe, IsReply
<1>2. PICK id \in OperationIds :
        /\ id = Frame.op /\ IsStarted(Frame, id) /\ Concerns(id)
        /\ game[id] \in {"playing", "ended"}
  BY <1>1, EventConcerns
<1>3. running' = TRUE /\ operationId' = id
  BY <1>2 DEF TakeStarted
<1>4. LifeInv(id) /\ id # NoOp
  BY <1>2, WindowAssumption DEF LivesInv
<1>5. ~HasStarted(id)' /\ InOrder(id)' /\ (HasEnd(id)' <=> HasEnd(id))
  <2>1. InOrder(id) /\ ~IsEnd(Frame, id)
    BY <1>2, <1>4 DEF LifeInv, IsStarted, IsEnd
  <2> QED
    BY <1>1, <1>2, <2>1, LeftPipe
<1>6. HasStarted(id)
  BY <1>1, <1>2, LeftPipe
<1>7. LifeInv(id)'
  BY <1>1, <1>2, <1>3, <1>4, <1>5, <1>6 DEF LifeInv
<1> QED
  BY <1>1, <1>2, <1>3, <1>4, <1>7, EventSettles

LEMMA TakeEndStep ==
  ASSUME OpenInv, TakeEnd
  PROVE  OpenInv'
<1> USE DEF OpenInv
<1>1. /\ frames # <<>> /\ frames' = Tail(frames)
      /\ Frame.what # "started" /\ ~IsReply(Frame)
      /\ UNCHANGED <<busy, pending, handled, sent, game, controls>>
  BY DEF TakeEnd, Take, Observe, IsReply
<1>2. PICK id \in OperationIds :
        id = Frame.op /\ IsEnd(Frame, id) /\ Concerns(id) /\ game[id] = "ended"
  BY <1>1, EventConcerns
<1>3. /\ running' = FALSE /\ operationId' = NoOp
      /\ completedOperations' \in Remembered(id)
  BY <1>2 DEF TakeEnd
<1>4. /\ id \in completedOperations'
      /\ completedOperations' \subseteq completedOperations \cup {id}
  BY <1>3 DEF Remembered
<1>5. LifeInv(id) /\ id # NoOp
  BY <1>2, WindowAssumption DEF LivesInv
<1>6. ~HasStarted(id)' /\ ~HasEnd(id)' /\ InOrder(id)'
  BY <1>1, <1>2, <1>5, LeftPipe DEF LifeInv
<1>7. LifeInv(id)'
  BY <1>1, <1>2, <1>3, <1>4, <1>5, <1>6 DEF LifeInv
<1> QED
  BY <1>1, <1>2, <1>3, <1>4, <1>7, EventSettles

-----------------------------------------------------------------------------
(* The core grants a request, or the user cancels.                         *)
LEMMA GrantStep ==
  ASSUME OpenInv, NEW n \in RequestIds, handled[n].at = "sent",
         handled' = [handled EXCEPT ![n].at = "working"],
         UNCHANGED <<windowVars, pending, frames, game, controls, sent>>
  PROVE  OpenInv'
<1> USE DEF OpenInv
<1>1. /\ handled' \in [RequestIds -> [kind : Kinds \cup {"none"}, at : Stages,
                                      op : OperationIds \cup {NoOp}]]
      /\ handled'[n].at = "working" /\ handled'[n].op = handled[n].op
      /\ handled'[n].kind = handled[n].kind
      /\ \A m \in RequestIds \ {n} : handled'[m] = handled[m]
  BY DEF WindowShape, Stages
<1>2. Awaited(n) /\ pending.of = n /\ pending # NoPending
  BY DEF RequestsInv, Awaited
<1>3. WindowShape'
  BY <1>1 DEF WindowShape, windowVars
<1>4. RequestsInv'
  BY <1>1, <1>2 DEF RequestsInv, Awaited, IsReply, windowVars
<1>5. LivesInv'
  <2>1. \A id \in OperationIds : Announcing(id)' <=> Announcing(id)
    BY <1>1, <1>2 DEF Announcing
  <2> QED
    BY <1>1, <1>2, <2>1, SamePipe, QuietLives DEF LivesInv, LifeInv, windowVars
<1> QED
  BY <1>3, <1>4, <1>5

LEMMA QuietStep ==
  ASSUME OpenInv,
         UNCHANGED <<busy, running, operationId, completedOperations, pending, frames,
                     handled, game, sent>>,
         controls' \subseteq [method : {"stop", "cancel"}, op : OperationIds]
  PROVE  OpenInv'
<1> USE DEF OpenInv
<1>1. WindowShape'
  BY DEF WindowShape
<1>2. RequestsInv'
  BY DEF RequestsInv, Awaited, IsReply
<1>3. \A id \in OperationIds : Announcing(id)' <=> Announcing(id)
  BY DEF Announcing
<1>4. LivesInv'
  BY <1>3, SamePipe, QuietLives DEF LivesInv, LifeInv
<1> QED
  BY <1>1, <1>2, <1>4

LEMMA CoreStepKeeps ==
  ASSUME OpenInv, CoreStep
  PROVE  OpenInv'
<1> USE DEF OpenInv
<1>1. ASSUME NEW n \in RequestIds, Receive(n) PROVE OpenInv'
  <2>1. /\ handled[n].at = "sent" /\ handled[n].op = NoOp
        /\ UNCHANGED <<windowVars, pending, sent, game, controls>>
    BY <1>1 DEF Receive, CoreUntouched, RequestsInv
  <2>2. CASE Handle(n, "done") /\ Put(Refused(n))
    <3>1. /\ Refused(n) \in WindowFrames /\ IsReply(Refused(n)) /\ Refused(n).of = n
          /\ Refused(n).what = "refusal"
      BY DEF Refused, WindowFrames, Replies, IsReply, RequestIds
    <3> QED
      BY <2>1, <2>2, <3>1, ReplyStep DEF Handle
  <2>3. CASE Handle(n, "working") /\ UNCHANGED frames
    BY <2>1, <2>3, GrantStep DEF Handle
  <2> QED
    BY <1>1, <2>2, <2>3 DEF Receive
<1>2. ASSUME NEW n \in RequestIds, Refuse(n) PROVE OpenInv'
  <2>1. /\ handled[n].at = "working" /\ handled[n].op = NoOp
        /\ Handle(n, "done") /\ Put(Refused(n))
        /\ UNCHANGED <<windowVars, pending, sent, game, controls>>
    BY <1>2 DEF Refuse, CoreUntouched, RequestsInv
  <2>2. /\ Refused(n) \in WindowFrames /\ IsReply(Refused(n)) /\ Refused(n).of = n
        /\ Refused(n).what = "refusal"
    BY DEF Refused, WindowFrames, Replies, IsReply, RequestIds
  <2> QED
    BY <2>1, <2>2, ReplyStep DEF Handle
<1>3. ASSUME NEW n \in RequestIds, Answer(n) PROVE OpenInv'
  <2>1. /\ handled[n].at = "working" /\ handled[n].op = NoOp /\ handled[n].kind # "launch"
        /\ Handle(n, "done") /\ Put(Answered(n, NoOp))
        /\ UNCHANGED <<windowVars, pending, sent, game, controls>>
    BY <1>3 DEF Answer, CoreUntouched, RequestsInv
  <2>2. /\ Answered(n, NoOp) \in WindowFrames /\ IsReply(Answered(n, NoOp))
        /\ Answered(n, NoOp).of = n /\ Answered(n, NoOp).op = NoOp
        /\ Answered(n, NoOp).what = "answer"
    BY DEF Answered, WindowFrames, Replies, IsReply, RequestIds
  <2> QED
    BY <2>1, <2>2, ReplyStep DEF Handle
<1>4. ASSUME NEW n \in RequestIds, AnswerLaunch(n) PROVE OpenInv'
  <2> DEFINE op == handled[n].op
  <2>1. /\ handled[n].at = "replying" /\ op # NoOp /\ handled[n].kind = "launch"
        /\ Handle(n, "done") /\ Put(Answered(n, op))
        /\ UNCHANGED <<windowVars, pending, sent, game, controls>>
    BY <1>4 DEF AnswerLaunch, CoreUntouched, RequestsInv
  <2>2. /\ Answered(n, op) \in WindowFrames /\ IsReply(Answered(n, op))
        /\ Answered(n, op).of = n /\ Answered(n, op).op = op
        /\ Answered(n, op).what = "answer"
    BY DEF Answered, WindowFrames, Replies, IsReply, RequestIds, WindowShape
  <2> QED
    BY <2>1, <2>2, ReplyStep DEF Handle
<1>5. ASSUME NEW id \in OperationIds, NEW what \in {"exited", "error"},
             EndOperation(id, what)
      PROVE  OpenInv'
  BY <1>5, EndStep DEF EndOperation, CoreUntouched
<1>6. ASSUME NEW c \in controls, ObeyControl(c) PROVE OpenInv'
  <2>1. /\ c.op \in OperationIds /\ controls' \subseteq controls
        /\ UNCHANGED <<windowVars, pending, sent, handled>>
    BY <1>6 DEF ObeyControl, CoreUntouched, WindowShape
  <2>2. CASE UNCHANGED <<game, frames>>
    BY <2>1, <2>2, QuietStep DEF WindowShape, windowVars
  <2>3. CASE /\ game[c.op] \in {"preparing", "playing"}
             /\ game' = [game EXCEPT ![c.op] = "ended"]
             /\ \E what \in {"exited", "error"} : Put(Event(what, c.op))
    BY <2>1, <2>3, EndStep DEF InCore
  <2> QED
    BY <1>6, <2>2, <2>3 DEF ObeyControl
<1> QED
  BY <1>1, <1>2, <1>3, <1>4, <1>5, <1>6, BeginLaunchStep, StartGameStep DEF CoreStep

LEMMA WindowStepKeeps ==
  ASSUME OpenInv, Open, Open', [WindowNext]_vars
  PROVE  OpenInv'
<1> USE DEF OpenInv
<1>1. CASE BecomeReady
  BY <1>1, QuietStep DEF BecomeReady, pipeVars, coreVars, WindowShape
<1>2. CASE PressPlay \/ PressOther
  BY <1>2, PressStep DEF Open
<1>3. CASE PressCancel
  <2>1. controls' \subseteq [method : {"stop", "cancel"}, op : OperationIds]
    BY <1>3 DEF PressCancel, WindowShape
  <2> QED
    BY <1>3, <2>1, QuietStep DEF PressCancel, windowVars, pipeVars
<1>4. CASE CloseWindow \/ CoreDies \/ Expire \/ Disconnect
  BY <1>4 DEF CloseWindow, CoreDies, Expire, Disconnect, Open
<1>5. CASE TakeFrame
  <2>1. ~DropAnswer
    <3> SUFFICES ASSUME DropAnswer PROVE FALSE
      OBVIOUS
    <3>1. frames # <<>> /\ frames' = Tail(frames) /\ IsReply(Frame) /\ Frame.of # pending.of
      BY DEF DropAnswer, Take, IsReply
    <3> QED
      BY <3>1, ReplyTaken
  <2> QED
    BY <1>5, <2>1, PlainReplyStep, LaunchSelectedStep, TakeLaunchAnswerStep,
       TakeStartedStep, TakeEndStep DEF TakeFrame, Open
<1>6. CASE UNCHANGED vars
  BY <1>6, QuietStep DEF vars, windowVars, pipeVars, coreVars, WindowShape
<1> QED
  BY <1>1, <1>2, <1>3, <1>4, <1>5, <1>6, CoreStepKeeps DEF WindowNext

LEMMA OpenWasOpen == [WindowNext]_vars /\ Open' => Open
<1> SUFFICES ASSUME [WindowNext]_vars, Open' PROVE Open
  OBVIOUS
<1>1. CASE BecomeReady \/ PressPlay \/ PressOther \/ PressCancel \/ CloseWindow
  BY <1>1 DEF Open, BecomeReady, PressPlay, PressOther, PressCancel, CloseWindow, pipeVars
<1>2. CASE CoreStep
  <2>1. ASSUME NEW n \in RequestIds, Receive(n) \/ Refuse(n) \/ Answer(n) \/ AnswerLaunch(n)
        PROVE  CoreUntouched
    BY <2>1 DEF Receive, Refuse, Answer, AnswerLaunch
  <2>2. ASSUME NEW n \in RequestIds, NEW id \in OperationIds, BeginLaunch(n, id)
        PROVE  CoreUntouched
    BY <2>2 DEF BeginLaunch
  <2>3. ASSUME NEW id \in OperationIds, StartGame(id)
        PROVE  CoreUntouched
    BY <2>3 DEF StartGame
  <2>4. ASSUME NEW id \in OperationIds, NEW what \in {"exited", "error"},
               EndOperation(id, what)
        PROVE  CoreUntouched
    BY <2>4 DEF EndOperation
  <2>5. ASSUME NEW c \in controls, ObeyControl(c)
        PROVE  CoreUntouched
    BY <2>5 DEF ObeyControl
  <2>6. CoreUntouched
    BY <1>2, <2>1, <2>2, <2>3, <2>4, <2>5 DEF CoreStep
  <2> QED
    BY <2>6 DEF Open, CoreUntouched
<1>3. CASE CoreDies \/ Expire \/ Disconnect \/ UNCHANGED vars
  BY <1>3 DEF Open, CoreDies, Expire, Disconnect, vars, pipeVars
<1>4. CASE TakeFrame
  BY <1>4 DEF Open, TakeFrame, DropAnswer, TakeRefusal, TakeAnswer, LaunchSelected,
              TakeLaunchAnswer, TakeStarted, TakeEnd, Observe
<1> QED
  BY <1>1, <1>2, <1>3, <1>4 DEF WindowNext

LEMMA WindowInitEstablishes == WindowInit => WindowInv
<1> SUFFICES ASSUME WindowInit PROVE OpenInv
  BY DEF WindowInv
<1>1. WindowShape
  <2>1. handled \in [RequestIds ->
          [kind : Kinds \cup {"none"}, at : Stages, op : OperationIds \cup {NoOp}]]
    BY DEF WindowInit, Unsent, Stages
  <2>2. pending \in [of : Nat, kind : Kinds \cup {"none"}]
    BY DEF WindowInit, NoPending
  <2>3. frames \in Seq(WindowFrames) /\ sent \in Nat
    BY DEF WindowInit
  <2>4. game \in [OperationIds -> {"none", "preparing", "playing", "ended"}]
    BY DEF WindowInit
  <2> QED
    BY <2>1, <2>2, <2>3, <2>4 DEF WindowInit, WindowShape
<1>2. RequestsInv
  BY DEF WindowInit, RequestsInv, Unsent
<1>3. ASSUME NEW id \in OperationIds PROVE LifeInv(id) /\ ~Unsettled(id)
  <2>1. InOrder(id) /\ ~HasStarted(id) /\ ~HasEnd(id) /\ ~Announcing(id)
    BY DEF WindowInit, InOrder, HasStarted, HasEnd, Announcing
  <2>2. game[id] = "none" /\ operationId # id /\ id \notin completedOperations
    BY WindowAssumption DEF WindowInit
  <2> QED
    BY <2>1, <2>2 DEF LifeInv, Unsettled, InCore
<1>4. LivesInv
  BY <1>3 DEF LivesInv, WindowInit
<1> QED
  BY <1>1, <1>2, <1>4 DEF OpenInv

(* At most one operation is unsettled, and the window knows what has       *)
(* arrived of it, as long as the core lives and nothing was given up.      *)
THEOREM WindowIsConsistent == WindowSafety => []WindowInv
<1>1. WindowInv /\ [WindowNext]_vars => WindowInv'
  BY OpenWasOpen, WindowStepKeeps DEF WindowInv
<1> QED
  BY <1>1, WindowInitEstablishes, PTL DEF WindowSafety

(* While the core launches or runs a game the window neither offers the    *)
(* next action nor lets itself be closed (MayCall, closeEvent).            *)
THEOREM LiveGamesEngageWindow == WindowSafety => []LiveMeansEngaged
<1>1. WindowInv => LiveMeansEngaged
  <2> SUFFICES ASSUME WindowInv, link = "up", ~gaveUp,
                      NEW id \in OperationIds, InCore(id)
               PROVE  Engaged
    BY DEF LiveMeansEngaged
  <2>1. LifeInv(id) /\ RequestsInv /\ id # NoOp
    BY WindowAssumption DEF WindowInv, Open, OpenInv, LivesInv
  <2> QED
    BY <2>1 DEF LifeInv, RequestsInv, Announcing, InCore, Engaged
<1> QED
  BY <1>1, WindowIsConsistent, PTL

(* When everything has arrived the window follows exactly the operation    *)
(* that is live, in whatever order answer and events came                  *)
(* (completedOperations, onOperationEvent).                                *)
THEOREM WindowAgreesWithCore == WindowSafety => []WindowFollowsCore
<1>1. WindowInv => WindowFollowsCore
  <2> SUFFICES ASSUME WindowInv, link = "up", ~gaveUp, frames = <<>>,
                      pending = NoPending
               PROVE  /\ \A id \in OperationIds :
                           /\ operationId = id <=> InCore(id)
                           /\ InCore(id) => (running <=> game[id] = "playing")
                      /\ operationId = NoOp => ~running
    BY DEF WindowFollowsCore
  <2>1. LivesInv /\ WindowShape
    BY DEF WindowInv, Open, OpenInv
  <2>2. ASSUME NEW id \in OperationIds
        PROVE  /\ operationId = id <=> InCore(id)
               /\ InCore(id) => (running <=> game[id] = "playing")
    <3>1. ~HasStarted(id) /\ ~HasEnd(id) /\ ~Announcing(id)
      BY DEF HasStarted, HasEnd, Announcing
    <3>2. LifeInv(id) /\ game[id] \in {"none", "preparing", "playing", "ended"}
      BY <2>1 DEF LivesInv, WindowShape
    <3> QED
      BY <3>1, <3>2 DEF LifeInv, InCore
  <2> QED
    BY <2>1, <2>2 DEF LivesInv
<1> QED
  BY <1>1, WindowIsConsistent, PTL
=============================================================================
