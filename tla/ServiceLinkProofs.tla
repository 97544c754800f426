-------------------------- MODULE ServiceLinkProofs --------------------------
(***************************************************************************)
(* Proofs about CancellationToken and about ServiceLink, for any numbers   *)
(* of requests, permits and waiters, and a channel of any capacity.        *)
(*                                                                         *)
(* The argument about frames: the channel keeps their order, a request is  *)
(* answered after it has sent its event, and whatever leaves the channel   *)
(* without reaching the window leaves it when nothing reaches it any more. *)
(* The argument about tokens: whom a canceller found at work, or whom the  *)
(* window had heard from, has renewed the token before, so that a guard    *)
(* taken later is another's, and nobody renews it while that guard is held.*)
(***************************************************************************)
EXTENDS ServiceLink, SequenceTheorems, TLAPS

(* The counts are numbers, and no future is newer than the last call.      *)
CountsOK ==
  /\ notified \in Nat
  /\ created \in [Waiters -> Nat]
  /\ \A w \in Waiters : created[w] <= notified
  /\ cancelled \in BOOLEAN
  /\ waiter \in [Waiters -> {"idle", "checking", "creating", "rechecking",
                            "awaiting", "returned"}]
  /\ canceller \in [Cancellers -> {"idle", "notifying", "done"}]

TokenInv == CountsOK /\ SleepersWillWake

LEMMA CountsStep ==
  ASSUME CountsOK, [TokenNext]_tokenVars
  PROVE  CountsOK'
<1>1. CASE \E c \in Cancellers : SetFlag(c)
  BY <1>1 DEF CountsOK, SetFlag
<1>2. CASE \E c \in Cancellers : NotifyWaiters(c)
  BY <1>2 DEF CountsOK, NotifyWaiters
<1>3. CASE \E w \in Waiters : Enter(w) \/ FirstCheck(w) \/ SecondCheck(w)
                              \/ Woken(w) \/ Leave(w)
  BY <1>3 DEF CountsOK, Enter, FirstCheck, SecondCheck, Woken, Leave, MoveWaiter
<1>4. CASE \E w \in Waiters : CreateFuture(w)
  BY <1>4 DEF CountsOK, CreateFuture, MoveWaiter
<1>5. CASE UNCHANGED tokenVars
  BY <1>5 DEF CountsOK, tokenVars
<1> QED
  BY <1>1, <1>2, <1>3, <1>4, <1>5 DEF TokenNext, WaiterStep

LEMMA SleepersStep ==
  ASSUME TokenInv, [TokenNext]_tokenVars
  PROVE  SleepersWillWake'
<1> SUFFICES ASSUME NEW w \in Waiters, waiter'[w] = "awaiting", cancelled'
             PROVE  \/ notified' # created'[w]
                    \/ \E c \in Cancellers : canceller'[c] = "notifying"
  BY DEF SleepersWillWake
<1> USE DEF TokenInv, CountsOK, SleepersWillWake
(* The flag goes up under a sleeper: whoever set it is about to notify.    *)
<1>1. ASSUME NEW c \in Cancellers, SetFlag(c)
      PROVE  \/ notified' # created'[w]
             \/ \E d \in Cancellers : canceller'[d] = "notifying"
  <2>1. CASE ~cancelled
    BY <1>1, <2>1 DEF SetFlag
  <2>2. CASE cancelled
    BY <1>1, <2>2 DEF SetFlag
  <2> QED
    BY <2>1, <2>2
(* The call itself makes every existing future old.                        *)
<1>2. ASSUME NEW c \in Cancellers, NotifyWaiters(c)
      PROVE  notified' # created'[w]
  BY <1>2 DEF NotifyWaiters
(* Nobody falls asleep with the flag up, thanks to the second check.       *)
<1>3. ASSUME NEW x \in Waiters,
             Enter(x) \/ WaiterStep(x) \/ Leave(x)
      PROVE  \/ notified' # created'[w]
             \/ \E d \in Cancellers : canceller'[d] = "notifying"
  BY <1>3 DEF Enter, WaiterStep, FirstCheck, CreateFuture, SecondCheck, Woken,
              Leave, MoveWaiter
<1>4. CASE UNCHANGED tokenVars
  BY <1>4 DEF tokenVars
<1> QED
  BY <1>1, <1>2, <1>3, <1>4 DEF TokenNext

LEMMA TokenInitEstablishes == TokenInit => TokenInv
<1>1. TokenInit => CountsOK
  <2> SUFFICES ASSUME TokenInit PROVE CountsOK
    OBVIOUS
  <2>1. created \in [Waiters -> Nat] /\ notified \in Nat
    BY DEF TokenInit
  <2>2. ASSUME NEW w \in Waiters PROVE created[w] <= notified
    <3>1. created[w] = 0 /\ notified = 0
      BY Zenon DEF TokenInit
    <3> QED
      BY <3>1
  <2>3. waiter \in [Waiters -> {"idle"}] /\ canceller \in [Cancellers -> {"idle"}]
    BY Zenon DEF TokenInit
  <2>4. cancelled \in BOOLEAN
    BY DEF TokenInit
  <2> QED
    BY <2>1, <2>2, <2>3, <2>4 DEF CountsOK
<1>2. TokenInit => SleepersWillWake
  BY DEF TokenInit, SleepersWillWake
<1> QED
  BY <1>1, <1>2 DEF TokenInv

(* No waiter of a fired token sleeps without a wake-up on its way, however *)
(* many race (DownloadCancellationToken::cancelled and cancel).            *)
THEOREM SleepersAlwaysWake == TokenSpec => []SleepersWillWake
<1>1. TokenInit => TokenInv
  BY TokenInitEstablishes
<1>2. TokenInv /\ [TokenNext]_tokenVars => TokenInv'
  BY CountsStep, SleepersStep DEF TokenInv
<1>3. TokenInv => SleepersWillWake
  BY DEF TokenInv
<1> QED
  BY <1>1, <1>2, <1>3, PTL DEF TokenSpec

-----------------------------------------------------------------------------
LateStages == {"working", "answering", "done"}
Stages == {"unsent", "written", "spawned", "admitting", "renewing"} \cup LateStages
Frames == [kind : {"answer", "busy", "event", "progress", "invalid"},
           of : Requests \cup {Nobody}]
Aims == [token : Nat, at : Changes \cup {Nobody}, working : BOOLEAN]
ReaderStates == {Busy(r) : r \in Requests} \cup {Unreadable, Reading, Ended}

LinkShape ==
  /\ input \in Seq(Requests)
  /\ reader \in ReaderStates
  /\ request \in [Requests -> Stages]
  /\ told \in [Requests -> BOOLEAN]
  /\ channel \in Seq(Frames)
  /\ window = "gone" => channel = <<>>
  /\ guard \in Changes \cup {Nobody}
  /\ token \in Nat
  /\ aimed \in [Controls -> Aims]
  /\ seen \in [Controls -> SUBSET Changes]

(* A line in the pipe is a request that was written once.                  *)
PipeInv ==
  /\ \A i \in 1..Len(input) : request[input[i]] = "written"
  /\ \A i, j \in 1..Len(input) : input[i] = input[j] => i = j

(* The event of r is on its way, before any answer to r.                   *)
EventUnderWay(r) ==
  \E i \in 1..Len(channel) :
    /\ channel[i] = Event(r)
    /\ \A j \in 1..(i - 1) : channel[j] # Answer(r)

FrameInv(r) ==
  /\ request[r] # "done" =>
       /\ Answer(r) \notin received
       /\ \A i \in 1..Len(channel) : channel[i] # Answer(r)
  /\ told[r] /\ Answer(r) \in received => Event(r) \in received
  /\ told[r] /\ window # "gone" => Event(r) \in received \/ EventUnderWay(r)

(* Past the renewal of the token, for a request that changes builds; past  *)
(* the taking of it, for one to cancel.                                    *)
Late(r) == request[r] \in LateStages

(* The guard is the one request's that is between its claim and its end.   *)
GuardInv ==
  /\ guard # Nobody => request[guard] \in {"admitting", "renewing", "working"}
  /\ \A r \in Requests : request[r] \in {"admitting", "renewing"} => guard = r
  /\ \A r \in Changes : request[r] = "working" => guard = r

(* Nothing is reported by a request before it is at work.                  *)
Sent(frame) ==
  frame \in received \/ \E i \in 1..Len(channel) : channel[i] = frame
HeardInv(r) == Sent(Progress(r)) \/ Sent(Event(r)) => Late(r)

AimInv(c) ==
  /\ aimed[c].working => aimed[c].at # Nobody /\ Late(aimed[c].at)
  /\ aimed[c].working /\ aimed[c].at = guard =>
       /\ aimed[c].token = token
       /\ canceller[c] # "idle" => cancelled
  /\ ~Late(c) => canceller[c] = "idle"
  /\ \A r \in seen[c] : Late(r)
  /\ (request[c] = "working" \/ canceller[c] # "idle") /\ guard \in seen[c] =>
       aimed[c].working /\ aimed[c].at = guard

ServiceInv ==
  /\ LinkShape
  /\ TokenInv
  /\ PipeInv
  /\ GuardInv
  /\ \A c \in Controls : AimInv(c)
  /\ \A r \in Changes : FrameInv(r) /\ HeardInv(r)

-----------------------------------------------------------------------------
(* The token in the composition: as in CancellationToken, and renewed.     *)
LEMMA ResetKeepsToken ==
  ASSUME cancelled' = FALSE, notified' = 0, created' = [w \in Waiters |-> 0],
         waiter' \in [Waiters -> {"idle", "checking", "creating", "rechecking",
                                  "awaiting", "returned"}],
         canceller' \in [Cancellers -> {"idle", "notifying", "done"}]
  PROVE  TokenInv'
<1>1. created' \in [Waiters -> Nat] /\ notified' \in Nat
  OBVIOUS
<1>2. ASSUME NEW w \in Waiters PROVE created'[w] <= notified'
  <2>1. created'[w] = 0 /\ notified' = 0
    BY Zenon
  <2> QED
    BY <2>1
<1> QED
  BY <1>1, <1>2 DEF TokenInv, CountsOK, SleepersWillWake

LEMMA TokenStepKeepsToken == TokenInv /\ [TokenNext]_tokenVars => TokenInv'
BY CountsStep, SleepersStep DEF TokenInv

LEMMA ServiceKeepsToken ==
  ASSUME TokenInv, [ServiceNext]_serviceVars
  PROVE  TokenInv'
<1>1. CASE UNCHANGED tokenVars
  BY <1>1, TokenStepKeepsToken
<1>2. ASSUME NEW r \in Waiters, AwaitNetwork(r) PROVE TokenInv'
  BY <1>2, TokenStepKeepsToken DEF AwaitNetwork, TokenNext
<1>3. ASSUME NEW c \in Controls, WakeWaiters(c) PROVE TokenInv'
  BY <1>3, TokenStepKeepsToken DEF WakeWaiters, TokenNext, Controls
<1>4. ASSUME NEW c \in Controls, FireToken(c) PROVE TokenInv'
  <2>1. CASE SetFlag(c)
    BY <2>1, TokenStepKeepsToken DEF TokenNext, Controls
  <2>2. CASE /\ canceller[c] = "idle"
             /\ canceller' = [canceller EXCEPT ![c] = "done"]
             /\ UNCHANGED <<cancelled, notified, created, waiter>>
    <3>1. CountsOK'
      BY <2>2 DEF TokenInv, CountsOK
    <3>2. SleepersWillWake'
      BY <2>2 DEF TokenInv, CountsOK, SleepersWillWake, Controls
    <3> QED
      BY <3>1, <3>2 DEF TokenInv
  <2> QED
    BY <1>4, <2>1, <2>2 DEF FireToken
<1>5. ASSUME NEW r \in Requests, RenewToken(r) PROVE TokenInv'
  <2>1. canceller' \in [Cancellers -> {"idle", "notifying", "done"}]
    BY <1>5 DEF RenewToken, NewToken, TokenInv, CountsOK
  <2> QED
    BY <1>5, <2>1, ResetKeepsToken DEF RenewToken, NewToken, TokenInv, CountsOK
<1>6. CASE InputEnds
  BY <1>6, ResetKeepsToken DEF InputEnds
<1>7. ASSUME NEW r \in Requests, WriteRequest(r) \/ ClaimGuard(r) \/ Admit(r)
                \/ SendEvent(r) \/ EndWork(r) \/ TakeToken(r) \/ EndCancel(r)
                \/ AnswerQuery(r) \/ SendAnswer(r)
      PROVE  UNCHANGED tokenVars
  BY <1>7 DEF WriteRequest, ClaimGuard, Admit, SendEvent, EndWork, TakeToken,
              EndCancel, AnswerQuery, SendAnswer
<1>8. CASE CloseWindow \/ ReadRequest \/ ReaderSends \/ WriteFrame
           \/ (\E r \in Waiters : ReportProgress(r)) \/ UNCHANGED serviceVars
  BY <1>1, <1>8 DEF CloseWindow, ReadRequest, ReaderSends, WriteFrame,
                    ReportProgress, serviceVars
<1>9. ASSUME NEW r \in Requests, FireToken(r) PROVE r \in Controls
  BY <1>9 DEF FireToken
<1> QED
  BY <1>1, <1>2, <1>3, <1>4, <1>5, <1>6, <1>7, <1>8, <1>9 DEF ServiceNext, TaskStep

-----------------------------------------------------------------------------
(* Frames in the channel.                                                  *)
LEMMA AppendsFrame ==
  ASSUME LinkShape, NEW frame \in Frames, channel' = Append(channel, frame)
  PROVE  /\ channel' \in Seq(Frames)
         /\ Len(channel') = Len(channel) + 1 /\ Len(channel) \in Nat
         /\ channel'[Len(channel) + 1] = frame
         /\ \A i \in 1..Len(channel) : channel'[i] = channel[i]
BY AppendProperties DEF LinkShape

LEMMA DropsHead ==
  ASSUME LinkShape, channel # <<>>, channel' = Tail(channel)
  PROVE  /\ channel' \in Seq(Frames)
         /\ Len(channel) \in Nat \ {0} /\ Len(channel') = Len(channel) - 1
         /\ Head(channel) = channel[1]
         /\ \A i \in 1..Len(channel') : channel'[i] = channel[i + 1]
BY HeadTailProperties DEF LinkShape

(* A step that leaves the channel and its ends alone.                      *)
LEMMA QuietFrames ==
  ASSUME NEW r \in Changes, FrameInv(r),
         UNCHANGED <<channel, received, told>>,
         window' = "gone" <=> window = "gone",
         request'[r] # "done" => request[r] # "done"
  PROVE  FrameInv(r)'
BY DEF FrameInv, EventUnderWay

(* A frame joins the channel, other than the answer or the event of r.     *)
LEMMA JoiningFrame ==
  ASSUME LinkShape, NEW r \in Changes, FrameInv(r), NEW frame \in Frames,
         frame # Answer(r), frame # Event(r),
         channel' = Append(channel, frame),
         received' = received, told'[r] = told[r], window' = window,
         request'[r] # "done" => request[r] # "done"
  PROVE  FrameInv(r)'
<1>1. EventUnderWay(r) => EventUnderWay(r)'
  BY AppendsFrame DEF EventUnderWay
<1>2. (\A i \in 1..Len(channel) : channel[i] # Answer(r)) =>
      (\A i \in 1..Len(channel') : channel'[i] # Answer(r))
  BY AppendsFrame
<1> QED
  BY <1>1, <1>2 DEF FrameInv

LEMMA FrameKinds ==
  ASSUME NEW r \in Requests, NEW s \in Requests
  PROVE  /\ Answer(r) \in Frames /\ Event(r) \in Frames /\ Progress(r) \in Frames
         /\ Answer(r) # Event(s) /\ Progress(r) # Event(s) /\ Progress(r) # Answer(s)
         /\ Answer(r) = Answer(s) => r = s
         /\ Event(r) = Event(s) => r = s
  BY DEF Answer, Event, Progress, Frames

LEMMA ReaderFrame ==
  ASSUME LinkShape, reader \notin {Reading, Ended}, NEW r \in Requests
  PROVE  reader \in Frames /\ reader # Answer(r) /\ reader # Event(r)
BY DEF LinkShape, ReaderStates, Frames, Busy, Unreadable, Answer, Event

LEMMA SendAnswerFrames ==
  ASSUME LinkShape, NEW r \in Requests, SendAnswer(r), NEW s \in Changes, FrameInv(s)
  PROVE  FrameInv(s)'
<1>1. /\ Send(Answer(r)) /\ request[r] = "answering"
      /\ request' = [request EXCEPT ![r] = "done"]
      /\ UNCHANGED <<told, received, window>>
  BY DEF SendAnswer, At, Stage
<1>2. s \in Requests /\ (s # r => request'[s] = request[s])
  BY <1>1 DEF Requests, LinkShape
<1>3. CASE window = "gone"
  BY <1>1, <1>2, <1>3 DEF Send, FrameInv, EventUnderWay, LinkShape
<1>4. CASE window # "gone" /\ s # r
  BY <1>1, <1>2, <1>4, JoiningFrame, FrameKinds DEF Send
<1>5. CASE window # "gone" /\ s = r
  <2>1. channel' = Append(channel, Answer(r)) /\ Answer(r) \in Frames
    BY <1>1, <1>5, FrameKinds DEF Send
  <2>2. EventUnderWay(r) => EventUnderWay(r)'
    BY <2>1, AppendsFrame DEF EventUnderWay
  <2>3. request'[r] = "done" /\ Answer(r) \notin received
    BY <1>1, <1>5 DEF FrameInv, LinkShape
  <2> QED
    BY <1>1, <1>5, <2>2, <2>3 DEF FrameInv
<1> QED
  BY <1>3, <1>4, <1>5

LEMMA SendEventFrames ==
  ASSUME LinkShape, NEW r \in Requests, SendEvent(r), NEW s \in Changes, FrameInv(s)
  PROVE  FrameInv(s)'
<1>1. /\ Send(Event(r)) /\ request[r] = "working"
      /\ told' = [told EXCEPT ![r] = TRUE]
      /\ UNCHANGED <<request, received, window>>
  BY DEF SendEvent, At
<1>2. s \in Requests /\ (s # r => told'[s] = told[s])
  BY <1>1 DEF Requests, LinkShape
<1>3. CASE window = "gone"
  <2>1. channel' = channel
    BY <1>1, <1>3 DEF Send
  <2>2. CASE s = r
    BY <1>1, <1>3, <2>1, <2>2 DEF FrameInv
  <2>3. CASE s # r
    BY <1>1, <1>2, <1>3, <2>1, <2>3 DEF FrameInv
  <2> QED
    BY <2>2, <2>3
<1>4. CASE window # "gone" /\ s # r
  BY <1>1, <1>2, <1>4, JoiningFrame, FrameKinds DEF Send
<1>5. CASE window # "gone" /\ s = r
  <2>1. channel' = Append(channel, Event(r)) /\ Event(r) \in Frames
    BY <1>1, <1>5, FrameKinds DEF Send
  <2>2. /\ Answer(r) \notin received
        /\ \A i \in 1..Len(channel) : channel[i] # Answer(r)
    BY <1>1, <1>5 DEF FrameInv
  <2>3. \A i \in 1..Len(channel) : channel'[i] # Answer(r)
    BY <2>1, <2>2, AppendsFrame
  <2>4. /\ Len(channel') = Len(channel) + 1 /\ Len(channel) \in Nat
        /\ channel'[Len(channel) + 1] = Event(r) /\ Event(r) # Answer(r)
    BY <2>1, AppendsFrame, FrameKinds
  <2>5. EventUnderWay(r)'
    BY <2>3, <2>4 DEF EventUnderWay
  <2>6. \A i \in 1..Len(channel') : channel'[i] # Answer(r)
    BY <2>3, <2>4
  <2> QED
    BY <1>1, <1>5, <2>2, <2>5, <2>6 DEF FrameInv
<1> QED
  BY <1>3, <1>4, <1>5

LEMMA WriteFrameFrames ==
  ASSUME LinkShape, WriteFrame, NEW r \in Changes, FrameInv(r)
  PROVE  FrameInv(r)'
<1>1. channel # <<>> /\ window # "gone" /\ UNCHANGED <<request, told>>
  BY DEF WriteFrame
<1>2. CASE window = "open"
  <2>1. /\ channel' = Tail(channel) /\ received' = received \cup {channel[1]}
        /\ window' = window
    BY <1>1, <1>2, DropsHead DEF WriteFrame
  <2>2. /\ Len(channel) \in Nat \ {0} /\ Len(channel') = Len(channel) - 1
        /\ \A i \in 1..Len(channel') : channel'[i] = channel[i + 1]
    BY <1>1, <2>1, DropsHead
  <2>3. request'[r] # "done" =>
          /\ Answer(r) \notin received'
          /\ \A i \in 1..Len(channel') : channel'[i] # Answer(r)
    BY <1>1, <2>1, <2>2 DEF FrameInv
  <2>4. EventUnderWay(r) /\ channel[1] # Event(r) =>
          EventUnderWay(r)' /\ channel[1] # Answer(r)
    <3> SUFFICES ASSUME EventUnderWay(r), channel[1] # Event(r)
                 PROVE  EventUnderWay(r)' /\ channel[1] # Answer(r)
      OBVIOUS
    <3>1. PICK i \in 1..Len(channel) :
            channel[i] = Event(r) /\ \A j \in 1..(i - 1) : channel[j] # Answer(r)
      BY DEF EventUnderWay
    <3>2. i - 1 \in 1..Len(channel') /\ 1 \in 1..(i - 1)
      BY <2>2, <3>1
    <3>3. channel'[i - 1] = Event(r)
      BY <2>2, <3>1, <3>2
    <3>4. \A j \in 1..((i - 1) - 1) : channel'[j] # Answer(r)
      BY <2>2, <3>1, <3>2
    <3> QED
      BY <3>1, <3>2, <3>3, <3>4 DEF EventUnderWay
  <2>5. told[r] => Event(r) \in received' \/ EventUnderWay(r)'
    BY <1>1, <2>1, <2>4 DEF FrameInv
  <2>6. told[r] /\ Answer(r) \in received' => Event(r) \in received'
    BY <1>1, <2>1, <2>4 DEF FrameInv
  <2> QED
    BY <1>1, <2>3, <2>5, <2>6 DEF FrameInv
<1>3. CASE window # "open"
  BY <1>1, <1>3 DEF WriteFrame, FrameInv
<1> QED
  BY <1>2, <1>3

LEMMA ServiceKeepsFrames ==
  ASSUME LinkShape, PipeInv, \A s \in Changes : FrameInv(s), NEW r \in Changes,
         [ServiceNext]_serviceVars
  PROVE  FrameInv(r)'
<1> r \in Requests /\ FrameInv(r)
  BY DEF Requests
<1>1. ASSUME UNCHANGED <<channel, received, told, request, window>>
      PROVE  FrameInv(r)'
  BY <1>1, QuietFrames
<1>2. ASSUME NEW s \in Requests, NEW stage \in Stages \ {"done"}, request[s] # "done",
             request' = [request EXCEPT ![s] = stage],
             UNCHANGED <<channel, received, told, window>>
      PROVE  FrameInv(r)'
  <2>1. request'[r] # "done" => request[r] # "done"
    BY <1>2 DEF LinkShape
  <2> QED
    BY <1>2, <2>1, QuietFrames
<1>3. CASE CloseWindow
  BY <1>3, QuietFrames DEF CloseWindow
<1>4. CASE ReadRequest
  <2>1. /\ 1 \in 1..Len(input) /\ Head(input) = input[1] /\ Head(input) \in Requests
        /\ request[Head(input)] = "written"
    BY <1>4, HeadTailProperties DEF ReadRequest, LinkShape, PipeInv
  <2>2. PICK stage \in {"spawned", "done"} :
          request' = [request EXCEPT ![Head(input)] = stage]
    BY <1>4 DEF ReadRequest, Stage
  <2>3. request'[r] # "done" => request[r] # "done"
    BY <2>1, <2>2 DEF LinkShape
  <2> QED
    BY <1>4, <2>3, QuietFrames DEF ReadRequest
<1>5. CASE ReaderSends
  <2>1. /\ reader \notin {Reading, Ended} /\ Send(reader)
        /\ UNCHANGED <<request, received, told, window>>
    BY <1>5 DEF ReaderSends
  <2>2. CASE window = "gone"
    BY <1>1, <2>1, <2>2 DEF Send
  <2>3. CASE window # "gone"
    BY <2>1, <2>3, ReaderFrame, JoiningFrame DEF Send
  <2> QED
    BY <2>2, <2>3
<1>6. CASE InputEnds
  BY <1>6 DEF InputEnds, FrameInv
<1>7. CASE WriteFrame
  BY <1>7, WriteFrameFrames
<1>8. ASSUME NEW s \in Requests, WriteRequest(s) PROVE FrameInv(r)'
  BY <1>2, <1>8 DEF WriteRequest, Stage, Stages
<1>9. ASSUME NEW s \in Requests, TaskStep(s) PROVE FrameInv(r)'
  <2>1. CASE ClaimGuard(s) \/ Admit(s) \/ RenewToken(s)
    <3>1. PICK stage \in {"admitting", "renewing", "working", "answering"} :
            request' = [request EXCEPT ![s] = stage]
      BY <2>1 DEF ClaimGuard, Admit, RenewToken, Stage
    <3> QED
      BY <1>2, <2>1, <3>1 DEF ClaimGuard, Admit, RenewToken, At, Stages, LateStages
  <2>2. CASE EndWork(s) \/ EndCancel(s) \/ AnswerQuery(s)
    BY <1>2, <2>2 DEF EndWork, EndCancel, AnswerQuery, At, Stage, Stages, LateStages
  <2>3. CASE TakeToken(s)
    BY <1>2, <2>3 DEF TakeToken, At, Stage, Stages, LateStages
  <2>4. CASE FireToken(s)
    BY <1>1, <2>4 DEF FireToken, linkVars
  <2>5. CASE SendEvent(s)
    BY <2>5, SendEventFrames
  <2>6. CASE SendAnswer(s)
    BY <2>6, SendAnswerFrames
  <2> QED
    BY <1>9, <2>1, <2>2, <2>3, <2>4, <2>5, <2>6 DEF TaskStep
<1>10. ASSUME NEW s \in Waiters, ReportProgress(s) PROVE FrameInv(r)'
  <2>1. s \in Requests /\ UNCHANGED <<request, received, told, window>>
    BY <1>10, ServiceAssumption DEF ReportProgress, Requests
  <2>2. CASE channel' = channel
    BY <1>1, <2>1, <2>2
  <2>3. CASE channel' = Append(channel, Progress(s))
    BY <2>1, <2>3, FrameKinds, JoiningFrame
  <2> QED
    BY <1>10, <2>2, <2>3 DEF ReportProgress
<1>11. CASE \/ \E s \in Waiters : AwaitNetwork(s)
            \/ \E c \in Controls : WakeWaiters(c)
            \/ UNCHANGED serviceVars
  BY <1>1, <1>11 DEF AwaitNetwork, WakeWaiters, serviceVars, linkVars
<1> QED
  BY <1>3, <1>4, <1>5, <1>6, <1>7, <1>8, <1>9, <1>10, <1>11 DEF ServiceNext

-----------------------------------------------------------------------------
(* Types, and the lines in the pipe.                                       *)

LEMMA SentFrame ==
  ASSUME LinkShape, NEW frame \in Frames, Send(frame), window' = window
  PROVE  channel' \in Seq(Frames) /\ (window' = "gone" => channel' = <<>>)
BY AppendsFrame DEF Send, LinkShape

(* Requests move on and the rest of memory keeps its types.                *)
LEMMA StageShape ==
  ASSUME LinkShape, NEW r \in Requests, NEW stage \in Stages,
         request' = [request EXCEPT ![r] = stage],
         UNCHANGED <<input, reader, told, window>>,
         channel' \in Seq(Frames), window' = "gone" => channel' = <<>>,
         guard' \in {guard, Nobody} \/ (guard' = r /\ r \in Changes),
         token' \in {token, token + 1},
         aimed' \in [Controls -> Aims], seen' = seen
  PROVE  LinkShape'
BY DEF LinkShape

LEMMA StagePipe ==
  ASSUME LinkShape, PipeInv, NEW r \in Requests, NEW stage \in Stages,
         request[r] # "written",
         request' = [request EXCEPT ![r] = stage], input' = input
  PROVE  PipeInv'
BY DEF LinkShape, PipeInv

LEMMA TaskKeepsLink ==
  ASSUME LinkShape, PipeInv, NEW r \in Requests, TaskStep(r)
  PROVE  LinkShape' /\ PipeInv'
<1>1. CASE ClaimGuard(r) \/ Admit(r) \/ RenewToken(r)
  <2>1. PICK stage \in {"admitting", "renewing", "working", "answering"} :
          request' = [request EXCEPT ![r] = stage]
    BY <1>1 DEF ClaimGuard, Admit, RenewToken, Stage
  <2>2. /\ guard' \in {guard, Nobody} \/ (guard' = r /\ r \in Changes)
        /\ token' \in {token, token + 1} /\ request[r] # "written"
        /\ UNCHANGED <<input, reader, told, channel, window, aimed, seen>>
    BY <1>1 DEF ClaimGuard, Admit, RenewToken, NewToken, At
  <2>3. channel' \in Seq(Frames) /\ (window' = "gone" => channel' = <<>>)
    BY <2>2 DEF LinkShape
  <2> QED
    BY <2>1, <2>2, <2>3, StageShape, StagePipe DEF Stages, LateStages, LinkShape
<1>2. CASE SendEvent(r)
  <2>1. /\ Send(Event(r)) /\ told' = [told EXCEPT ![r] = TRUE]
        /\ UNCHANGED <<input, reader, request, window, guard, token, aimed, seen>>
    BY <1>2 DEF SendEvent, contentVars
  <2>2. channel' \in Seq(Frames) /\ (window' = "gone" => channel' = <<>>)
    BY <2>1, SentFrame, FrameKinds
  <2> QED
    BY <2>1, <2>2 DEF LinkShape, PipeInv
<1>3. CASE EndWork(r)
  <2>1. /\ request' = [request EXCEPT ![r] = "answering"] /\ guard' = Nobody
        /\ request[r] = "working" /\ token' = token
        /\ UNCHANGED <<input, reader, told, channel, window, aimed, seen>>
    BY <1>3 DEF EndWork, At, Stage
  <2>2. channel' \in Seq(Frames) /\ (window' = "gone" => channel' = <<>>)
    BY <2>1 DEF LinkShape
  <2> QED
    BY <2>1, <2>2, StageShape, StagePipe DEF Stages, LateStages, LinkShape
<1>4. CASE TakeToken(r)
  <2>1. /\ request' = [request EXCEPT ![r] = "working"] /\ request[r] = "spawned"
        /\ aimed' = [aimed EXCEPT ![r] = [token |-> token, at |-> guard,
                 working |-> guard # Nobody /\ At(guard, "working")]]
        /\ UNCHANGED <<input, reader, told, channel, window, guard, token, seen>>
    BY <1>4 DEF TakeToken, At, Stage
  <2>2. channel' \in Seq(Frames) /\ (window' = "gone" => channel' = <<>>)
    BY <2>1 DEF LinkShape
  <2>3. [token |-> token, at |-> guard, working |-> guard # Nobody /\ At(guard, "working")]
          \in Aims
    BY DEF LinkShape, Aims, At
  <2>4. aimed' \in [Controls -> Aims]
    BY <2>1, <2>3 DEF LinkShape
  <2> QED
    BY <2>1, <2>2, <2>4, StageShape, StagePipe DEF Stages, LateStages, LinkShape
<1>5. CASE FireToken(r)
  BY <1>5 DEF FireToken, linkVars, contentVars, LinkShape, PipeInv
<1>6. CASE EndCancel(r) \/ AnswerQuery(r)
  <2>1. /\ request' = [request EXCEPT ![r] = "answering"] /\ request[r] # "written"
        /\ UNCHANGED <<input, reader, told, channel, window, guard, token, aimed, seen>>
    BY <1>6 DEF EndCancel, AnswerQuery, At, Stage, contentVars
  <2>2. channel' \in Seq(Frames) /\ (window' = "gone" => channel' = <<>>)
    BY <2>1 DEF LinkShape
  <2> QED
    BY <2>1, <2>2, StageShape, StagePipe DEF Stages, LateStages, LinkShape
<1>7. CASE SendAnswer(r)
  <2>1. /\ request' = [request EXCEPT ![r] = "done"] /\ request[r] # "written"
        /\ Send(Answer(r))
        /\ UNCHANGED <<input, reader, told, window, guard, token, aimed, seen>>
    BY <1>7 DEF SendAnswer, At, Stage, contentVars
  <2>2. channel' \in Seq(Frames) /\ (window' = "gone" => channel' = <<>>)
    BY <2>1, SentFrame, FrameKinds
  <2> QED
    BY <2>1, <2>2, StageShape, StagePipe DEF Stages, LateStages, LinkShape
<1> QED
  BY <1>1, <1>2, <1>3, <1>4, <1>5, <1>6, <1>7 DEF TaskStep

LEMMA ServiceKeepsLink ==
  ASSUME LinkShape, PipeInv, [ServiceNext]_serviceVars
  PROVE  LinkShape' /\ PipeInv'
<1>1. CASE CloseWindow
  BY <1>1 DEF CloseWindow, contentVars, LinkShape, PipeInv
<1>2. CASE ReadRequest
  <2>1. /\ input # <<>> /\ input' = Tail(input)
        /\ UNCHANGED <<told, channel, window, guard, token, aimed, seen>>
    BY <1>2 DEF ReadRequest, contentVars
  <2>2. /\ Len(input) \in Nat \ {0} /\ Len(input') = Len(input) - 1
        /\ Head(input) = input[1] /\ Head(input) \in Requests /\ input' \in Seq(Requests)
        /\ \A i \in 1..Len(input') : input'[i] = input[i + 1]
    BY <2>1, HeadTailProperties DEF LinkShape
  <2>3. PICK stage \in {"spawned", "done"} :
          request' = [request EXCEPT ![Head(input)] = stage]
    BY <1>2 DEF ReadRequest, Stage
  <2>4. reader' \in ReaderStates
    BY <1>2, <2>2 DEF ReadRequest, ReaderStates, LinkShape
  <2>5. LinkShape'
    BY <2>1, <2>2, <2>3, <2>4 DEF LinkShape, Stages, LateStages
  <2>6. ASSUME NEW i \in 1..Len(input')
        PROVE  /\ i + 1 \in 1..Len(input) /\ i + 1 # 1 /\ 1 \in 1..Len(input)
               /\ input'[i] = input[i + 1]
    BY <2>2
  <2>7. ASSUME NEW i \in 1..Len(input') PROVE request'[input'[i]] = "written"
    <3>1. input[i + 1] # input[1]
      BY <2>6 DEF PipeInv
    <3>2. input[i + 1] \in Requests /\ request[input[i + 1]] = "written"
      BY <2>6 DEF PipeInv, LinkShape
    <3> QED
      BY <2>2, <2>3, <2>6, <3>1, <3>2 DEF LinkShape
  <2>8. ASSUME NEW i \in 1..Len(input'), NEW j \in 1..Len(input'), input'[i] = input'[j]
        PROVE  i = j
    <3>1. i + 1 = j + 1
      BY <2>6, <2>8 DEF PipeInv
    <3> QED
      BY <2>2, <3>1
  <2> QED
    BY <2>5, <2>7, <2>8 DEF PipeInv
<1>3. CASE ReaderSends
  <2>1. /\ reader \in Frames /\ Send(reader) /\ reader' = Reading
        /\ UNCHANGED <<input, request, told, window, guard, token, aimed, seen>>
    BY <1>3 DEF ReaderSends, contentVars, LinkShape, ReaderStates, Frames, Busy,
                Unreadable
  <2>2. channel' \in Seq(Frames) /\ (window' = "gone" => channel' = <<>>)
    BY <2>1, SentFrame
  <2> QED
    BY <2>1, <2>2 DEF LinkShape, PipeInv, ReaderStates
<1>4. CASE InputEnds
  <2>1. request' \in [Requests -> Stages] /\ told' \in [Requests -> BOOLEAN]
    BY <1>4 DEF InputEnds, Stages, LateStages
  <2>2. aimed' \in [Controls -> Aims] /\ seen' \in [Controls -> SUBSET Changes]
    BY <1>4 DEF InputEnds, NotAimed, Aims
  <2>3. /\ channel' = <<>> /\ channel' \in Seq(Frames) /\ input' = <<>> /\ input = <<>>
        /\ guard' = Nobody /\ token' = 0 /\ reader' = Ended /\ window' = window
    BY <1>4 DEF InputEnds
  <2> QED
    BY <2>1, <2>2, <2>3 DEF LinkShape, PipeInv, ReaderStates
<1>5. CASE WriteFrame
  <2>1. \/ /\ channel # <<>> /\ channel' = Tail(channel)
           /\ window' = window /\ window = "open"
        \/ channel' = <<>> /\ window' = "gone"
    BY <1>5 DEF WriteFrame
  <2>2. UNCHANGED <<input, reader, request, told, guard, token, aimed, seen>>
    BY <1>5 DEF WriteFrame, contentVars
  <2>3. channel # <<>> /\ channel' = Tail(channel) => channel' \in Seq(Frames)
    BY DropsHead
  <2>4. channel' = <<>> => channel' \in Seq(Frames)
    OBVIOUS
  <2>5. channel' \in Seq(Frames) /\ (window' = "gone" => channel' = <<>>)
    BY <2>1, <2>3, <2>4
  <2> QED
    BY <2>2, <2>5 DEF LinkShape, PipeInv
<1>6. ASSUME NEW r \in Requests, WriteRequest(r) PROVE LinkShape' /\ PipeInv'
  <2>1. /\ request[r] = "unsent" /\ input' = Append(input, r)
        /\ request' = [request EXCEPT ![r] = "written"]
        /\ UNCHANGED <<reader, told, channel, window, guard, token, aimed>>
        /\ seen' \in [Controls -> SUBSET Changes]
    BY <1>6 DEF WriteRequest, Stage, HeardOf, LinkShape
  <2>2. /\ input' \in Seq(Requests) /\ Len(input) \in Nat
        /\ Len(input') = Len(input) + 1 /\ input'[Len(input) + 1] = r
        /\ \A i \in 1..Len(input) : input'[i] = input[i]
    BY <2>1, AppendProperties DEF LinkShape
  <2>3. LinkShape'
    BY <2>1, <2>2 DEF LinkShape, Stages, LateStages
  <2>4. \A i \in 1..Len(input) : input[i] # r /\ request'[input[i]] = "written"
    BY <2>1 DEF PipeInv, LinkShape
  <2>5. \A i \in 1..Len(input') : i \in 1..Len(input) \/ i = Len(input) + 1
    BY <2>2
  <2>6. request'[r] = "written"
    BY <2>1 DEF LinkShape
  <2>7. \A i \in 1..Len(input') : request'[input'[i]] = "written"
    BY <2>2, <2>4, <2>5, <2>6
  <2>8. \A i, j \in 1..Len(input') : input'[i] = input'[j] => i = j
    BY <2>2, <2>4, <2>5 DEF PipeInv
  <2> QED
    BY <2>3, <2>7, <2>8 DEF PipeInv
<1>7. ASSUME NEW s \in Waiters, ReportProgress(s) PROVE LinkShape' /\ PipeInv'
  <2>1. /\ s \in Requests
        /\ UNCHANGED <<input, reader, request, told, window, guard, token, aimed, seen>>
    BY <1>7, ServiceAssumption DEF ReportProgress, Requests, contentVars
  <2>2. \/ window' # "gone" /\ channel' = Append(channel, Progress(s))
        \/ channel' = channel
    BY <1>7 DEF ReportProgress
  <2>3. channel' \in Seq(Frames) /\ (window' = "gone" => channel' = <<>>)
    BY <2>1, <2>2, FrameKinds, AppendsFrame DEF LinkShape
  <2> QED
    BY <2>1, <2>3 DEF LinkShape, PipeInv
<1>8. CASE \/ \E s \in Waiters : AwaitNetwork(s)
           \/ \E c \in Controls : WakeWaiters(c)
           \/ UNCHANGED serviceVars
  BY <1>8 DEF AwaitNetwork, WakeWaiters, serviceVars, linkVars, contentVars,
              LinkShape, PipeInv
<1> QED
  BY <1>1, <1>2, <1>3, <1>4, <1>5, <1>6, <1>7, <1>8, TaskKeepsLink DEF ServiceNext

-----------------------------------------------------------------------------
(* Stages, the guard, and what the window can have heard of.               *)

LEMMA MovesOn ==
  ASSUME LinkShape, NEW r \in Requests, NEW stage \in Stages,
         Late(r) => stage \in LateStages,
         request' = [request EXCEPT ![r] = stage]
  PROVE  \A s \in Requests : Late(s) => Late(s)'
BY DEF Late, LinkShape

(* No request is taken back from its late stages.                          *)
LEMMA LateStays ==
  ASSUME LinkShape, PipeInv, [ServiceNext]_serviceVars
  PROVE  \A s \in Requests : Late(s) => Late(s)'
<1>1. CASE request' = request
  BY <1>1 DEF Late
<1>2. CASE ReadRequest
  <2>1. /\ 1 \in 1..Len(input) /\ Head(input) = input[1] /\ Head(input) \in Requests
        /\ request[Head(input)] = "written"
    BY <1>2, HeadTailProperties DEF ReadRequest, LinkShape, PipeInv
  <2>2. PICK stage \in {"spawned", "done"} :
          request' = [request EXCEPT ![Head(input)] = stage]
    BY <1>2 DEF ReadRequest, Stage
  <2> QED
    BY <2>1, <2>2, MovesOn DEF Stages, LateStages, Late
<1>3. CASE InputEnds
  BY <1>3 DEF InputEnds, Late, LateStages
<1>4. ASSUME NEW r \in Requests, WriteRequest(r)
      PROVE  \A s \in Requests : Late(s) => Late(s)'
  BY <1>4, MovesOn DEF WriteRequest, Stage, Stages, LateStages, Late
<1>5. ASSUME NEW r \in Requests, TaskStep(r)
      PROVE  \A s \in Requests : Late(s) => Late(s)'
  <2>1. CASE request' = request
    BY <2>1 DEF Late
  <2>2. CASE \E stage \in Stages :
               /\ request' = [request EXCEPT ![r] = stage]
               /\ Late(r) => stage \in LateStages
    BY <2>2, MovesOn
  <2>3. CASE ClaimGuard(r) \/ Admit(r)
    <3>1. request[r] \in {"spawned", "admitting"} /\
          \E stage \in {"admitting", "renewing", "answering"} :
            request' = [request EXCEPT ![r] = stage]
      BY <2>3 DEF ClaimGuard, Admit, At, Stage
    <3> QED
      BY <2>2, <3>1 DEF Stages, LateStages, Late
  <2>4. CASE RenewToken(r) \/ EndWork(r) \/ TakeToken(r) \/ EndCancel(r)
             \/ AnswerQuery(r) \/ SendAnswer(r)
    <3>1. \E stage \in LateStages : request' = [request EXCEPT ![r] = stage]
      BY <2>4 DEF RenewToken, EndWork, TakeToken, EndCancel, AnswerQuery, SendAnswer,
                  Stage, LateStages
    <3> QED
      BY <2>2, <3>1 DEF Stages
  <2>5. CASE SendEvent(r) \/ FireToken(r)
    BY <2>1, <2>5 DEF SendEvent, FireToken, linkVars
  <2> QED
    BY <1>5, <2>3, <2>4, <2>5 DEF TaskStep
<1>6. CASE CloseWindow \/ ReaderSends \/ WriteFrame \/ UNCHANGED serviceVars
  BY <1>1, <1>6 DEF CloseWindow, ReaderSends, WriteFrame, serviceVars, linkVars
<1>7. CASE \/ \E s \in Waiters : AwaitNetwork(s) \/ ReportProgress(s)
           \/ \E c \in Controls : WakeWaiters(c)
  BY <1>1, <1>7 DEF AwaitNetwork, ReportProgress, WakeWaiters, linkVars
<1> QED
  BY <1>2, <1>3, <1>4, <1>5, <1>6, <1>7 DEF ServiceNext

(* A step of a request outside the stages under the guard.                 *)
LEMMA FreeMove ==
  ASSUME LinkShape, GuardInv, NEW r \in Requests, NEW stage \in Stages,
         request' = [request EXCEPT ![r] = stage], guard' = guard, guard # r,
         stage \notin {"admitting", "renewing"},
         stage = "working" => r \notin Changes
  PROVE  GuardInv'
<1> Changes \subseteq Requests
  BY DEF Requests
<1> QED
  BY DEF GuardInv, LinkShape

LEMMA ServiceKeepsGuard ==
  ASSUME LinkShape, PipeInv, GuardInv, [ServiceNext]_serviceVars
  PROVE  GuardInv'
<1> Changes \subseteq Requests /\ Controls \subseteq Requests
  BY DEF Requests
<1>1. ASSUME UNCHANGED <<request, guard>> PROVE GuardInv'
  BY <1>1 DEF GuardInv
<1>2. CASE ReadRequest
  <2>1. /\ 1 \in 1..Len(input) /\ Head(input) = input[1] /\ Head(input) \in Requests
        /\ request[Head(input)] = "written"
    BY <1>2, HeadTailProperties DEF ReadRequest, LinkShape, PipeInv
  <2>2. PICK stage \in {"spawned", "done"} :
          request' = [request EXCEPT ![Head(input)] = stage]
    BY <1>2 DEF ReadRequest, Stage
  <2>3. guard' = guard /\ guard # Head(input)
    BY <1>2, <2>1, ServiceAssumption DEF ReadRequest, contentVars, GuardInv
  <2> QED
    BY <2>1, <2>2, <2>3, FreeMove DEF Stages, LateStages
<1>3. CASE InputEnds
  BY <1>3 DEF InputEnds, GuardInv
<1>4. ASSUME NEW r \in Requests, WriteRequest(r) PROVE GuardInv'
  <2>1. guard' = guard /\ guard # r /\ request' = [request EXCEPT ![r] = "written"]
    BY <1>4, ServiceAssumption DEF WriteRequest, GuardInv, Stage
  <2> QED
    BY <2>1, FreeMove DEF Stages
<1>5. ASSUME NEW r \in Requests, TaskStep(r) PROVE GuardInv'
  <2>1. CASE ClaimGuard(r)
    <3>1. CASE guard = Nobody
      <4>1. guard' = r /\ request' = [request EXCEPT ![r] = "admitting"]
        BY <2>1, <3>1 DEF ClaimGuard, Stage
      <4>2. ASSUME NEW s \in Requests \ {r} PROVE request'[s] = request[s]
        BY <4>1 DEF LinkShape
      <4>3. request'[r] = "admitting"
        BY <4>1 DEF LinkShape
      <4>4. ASSUME NEW s \in Requests PROVE guard # s
        BY <3>1, ServiceAssumption
      <4> QED
        BY <4>1, <4>2, <4>3, <4>4 DEF GuardInv
    <3>2. CASE guard # Nobody
      <4>1. /\ guard' = guard /\ guard # r
            /\ request' = [request EXCEPT ![r] = "answering"]
        BY <2>1, <3>2 DEF ClaimGuard, At, Stage, GuardInv
      <4> QED
        BY <4>1, FreeMove DEF Stages, LateStages
    <3> QED
      BY <3>1, <3>2
  <2>2. CASE Admit(r) \/ EndWork(r)
    <3>1. guard = r /\ r # Nobody
      BY <2>2, ServiceAssumption DEF Admit, EndWork, At, GuardInv
    <3>2. \/ guard' = r /\ request' = [request EXCEPT ![r] = "renewing"]
          \/ guard' = Nobody /\ request' = [request EXCEPT ![r] = "answering"]
      BY <2>2, <3>1 DEF Admit, EndWork, Stage
    <3>3. ASSUME NEW s \in Requests \ {r} PROVE request'[s] = request[s] /\ guard # s
      BY <3>1, <3>2 DEF LinkShape
    <3>4. request'[r] = IF guard' = r THEN "renewing" ELSE "answering"
      BY <3>1, <3>2 DEF LinkShape
    <3> QED
      BY <3>1, <3>2, <3>3, <3>4 DEF GuardInv
  <2>3. CASE RenewToken(r)
    <3>1. /\ guard = r /\ guard' = r /\ r # Nobody
          /\ request' = [request EXCEPT ![r] = "working"]
      BY <2>3, ServiceAssumption DEF RenewToken, At, GuardInv, Stage
    <3>2. \A s \in Requests : request'[s] = IF s = r THEN "working" ELSE request[s]
      BY <3>1 DEF LinkShape
    <3> QED
      BY <3>1, <3>2 DEF GuardInv
  <2>4. CASE TakeToken(r)
    <3>1. /\ guard' = guard /\ guard # r /\ r \notin Changes
          /\ request' = [request EXCEPT ![r] = "working"]
      BY <2>4, ServiceAssumption DEF TakeToken, At, GuardInv, Stage
    <3> QED
      BY <3>1, FreeMove DEF Stages, LateStages
  <2>5. CASE EndCancel(r) \/ AnswerQuery(r) \/ SendAnswer(r)
    <3>1. PICK stage \in {"answering", "done"} : request' = [request EXCEPT ![r] = stage]
      BY <2>5 DEF EndCancel, AnswerQuery, SendAnswer, Stage
    <3>2. guard' = guard /\ guard # r
      BY <2>5, ServiceAssumption
         DEF EndCancel, AnswerQuery, SendAnswer, At, contentVars, GuardInv, LinkShape
    <3> QED
      BY <3>1, <3>2, FreeMove DEF Stages, LateStages
  <2>6. CASE SendEvent(r) \/ FireToken(r)
    BY <1>1, <2>6 DEF SendEvent, FireToken, linkVars, contentVars
  <2> QED
    BY <1>5, <2>1, <2>2, <2>3, <2>4, <2>5, <2>6 DEF TaskStep
<1>6. CASE CloseWindow \/ ReaderSends \/ WriteFrame \/ UNCHANGED serviceVars
  BY <1>1, <1>6 DEF CloseWindow, ReaderSends, WriteFrame, serviceVars, linkVars, contentVars
<1>7. CASE \/ \E s \in Waiters : AwaitNetwork(s) \/ ReportProgress(s)
           \/ \E c \in Controls : WakeWaiters(c)
  BY <1>1, <1>7 DEF AwaitNetwork, ReportProgress, WakeWaiters, linkVars, contentVars
<1> QED
  BY <1>2, <1>3, <1>4, <1>5, <1>6, <1>7 DEF ServiceNext

(* A frame joins the channel, or none.                                     *)
LEMMA JoiningHeard ==
  ASSUME LinkShape, NEW r \in Changes, HeardInv(r), NEW frame \in Frames,
         frame \in {Progress(r), Event(r)} => Late(r)',
         Late(r) => Late(r)',
         channel' \in {channel, Append(channel, frame)}, received' = received
  PROVE  HeardInv(r)'
<1>1. ASSUME NEW f, Sent(f)' PROVE Sent(f) \/ f = frame
  <2>1. CASE channel' = channel
    BY <1>1, <2>1 DEF Sent
  <2>2. CASE channel' = Append(channel, frame)
    <3>1. \A i \in 1..Len(channel') : i \in 1..Len(channel) \/ i = Len(channel) + 1
      BY <2>2, AppendsFrame
    <3> QED
      BY <1>1, <2>2, <3>1, AppendsFrame DEF Sent
  <2> QED
    BY <2>1, <2>2
<1> QED
  BY <1>1 DEF HeardInv

LEMMA ServiceKeepsHeard ==
  ASSUME LinkShape, PipeInv, NEW r \in Changes, HeardInv(r), [ServiceNext]_serviceVars
  PROVE  HeardInv(r)'
<1>0. r \in Requests /\ (Late(r) => Late(r)')
  BY LateStays DEF Requests
<1>1. ASSUME UNCHANGED <<channel, received>> PROVE HeardInv(r)'
  BY <1>0, <1>1 DEF HeardInv, Sent
<1>2. CASE CloseWindow \/ ReadRequest \/ UNCHANGED serviceVars
           \/ \E s \in Requests : WriteRequest(s)
  BY <1>1, <1>2 DEF CloseWindow, ReadRequest, serviceVars, linkVars, WriteRequest
<1>3. CASE ReaderSends
  <2>1. reader \in Frames /\ reader \notin {Progress(r), Event(r)}
    BY <1>3 DEF ReaderSends, LinkShape, ReaderStates, Frames, Busy, Unreadable,
                Progress, Event, Reading, Ended
  <2>2. channel' \in {channel, Append(channel, reader)} /\ received' = received
    BY <1>3 DEF ReaderSends, Send
  <2> QED
    BY <1>0, <2>1, <2>2, JoiningHeard
<1>4. CASE InputEnds
  BY <1>0, <1>4 DEF InputEnds, HeardInv, Late, LateStages
<1>5. CASE WriteFrame
  <2>1. ASSUME NEW f, Sent(f)' PROVE Sent(f)
    <3>1. CASE window = "open"
      <4>1. /\ Len(channel) \in Nat \ {0} /\ Len(channel') = Len(channel) - 1
            /\ \A i \in 1..Len(channel') : channel'[i] = channel[i + 1]
            /\ received' = received \cup {channel[1]}
        BY <1>5, <3>1, DropsHead DEF WriteFrame
      <4>2. 1 \in 1..Len(channel) /\ \A i \in 1..Len(channel') : i + 1 \in 1..Len(channel)
        BY <4>1
      <4> QED
        BY <2>1, <4>1, <4>2 DEF Sent
    <3>2. CASE window # "open"
      BY <1>5, <2>1, <3>2 DEF WriteFrame, Sent
    <3> QED
      BY <3>1, <3>2
  <2> QED
    BY <1>0, <2>1 DEF HeardInv
<1>6. ASSUME NEW s \in Requests, TaskStep(s) PROVE HeardInv(r)'
  <2>1. CASE SendEvent(s)
    <3>1. /\ channel' \in {channel, Append(channel, Event(s))} /\ received' = received
          /\ request[s] = "working" /\ request' = request
      BY <2>1 DEF SendEvent, Send, At
    <3>2. Event(s) \in {Progress(r), Event(r)} => Late(r)'
      BY <1>0, <3>1, FrameKinds DEF Late, LateStages, Event, Progress
    <3> QED
      BY <1>0, <3>1, <3>2, FrameKinds, JoiningHeard
  <2>2. CASE SendAnswer(s)
    <3>1. channel' \in {channel, Append(channel, Answer(s))} /\ received' = received
      BY <2>2 DEF SendAnswer, Send
    <3>2. Answer(s) \notin {Progress(r), Event(r)}
      BY DEF Answer, Event, Progress
    <3> QED
      BY <1>0, <3>1, <3>2, FrameKinds, JoiningHeard
  <2>3. CASE ClaimGuard(s) \/ Admit(s) \/ RenewToken(s) \/ EndWork(s) \/ TakeToken(s)
             \/ FireToken(s) \/ EndCancel(s) \/ AnswerQuery(s)
    BY <1>1, <2>3 DEF ClaimGuard, Admit, RenewToken, EndWork, TakeToken, FireToken,
                      EndCancel, AnswerQuery, linkVars
  <2> QED
    BY <1>6, <2>1, <2>2, <2>3 DEF TaskStep
<1>7. ASSUME NEW s \in Waiters, ReportProgress(s) PROVE HeardInv(r)'
  <2>1. /\ s \in Requests /\ request[s] = "working" /\ request' = request
        /\ channel' \in {channel, Append(channel, Progress(s))} /\ received' = received
    BY <1>7, ServiceAssumption DEF ReportProgress, At, Requests
  <2>2. Progress(s) \in {Progress(r), Event(r)} => Late(r)'
    BY <2>1 DEF Late, LateStages, Event, Progress
  <2> QED
    BY <1>0, <2>1, <2>2, FrameKinds, JoiningHeard
<1>8. CASE \/ \E s \in Waiters : AwaitNetwork(s)
           \/ \E c \in Controls : WakeWaiters(c)
  BY <1>1, <1>8 DEF AwaitNetwork, WakeWaiters, linkVars
<1> QED
  BY <1>2, <1>3, <1>4, <1>5, <1>6, <1>7, <1>8 DEF ServiceNext

-----------------------------------------------------------------------------
(* Cancellations and the guard.                                            *)
(* A step that neither aims, fires nor renews.                             *)
LEMMA QuietAims ==
  ASSUME LinkShape, NEW c \in Controls, AimInv(c),
         \A s \in Requests : Late(s) => Late(s)',
         guard' \in {guard, Nobody}, UNCHANGED <<token, aimed, seen>>,
         cancelled => cancelled',
         canceller'[c] = "idle" <=> canceller[c] = "idle",
         request'[c] = "working" => request[c] = "working"
  PROVE  AimInv(c)'
<1>1. /\ c \in Requests /\ Changes \subseteq Requests /\ Nobody \notin Requests
      /\ aimed[c] \in Aims /\ seen[c] \subseteq Changes
  BY ServiceAssumption DEF LinkShape, Requests
<1>2. aimed'[c].working => aimed'[c].at # Nobody /\ request'[aimed'[c].at] \in LateStages
  BY <1>1 DEF AimInv, Aims, Late
<1>3. ~Late(c)' => canceller'[c] = "idle"
  BY <1>1 DEF AimInv
<1>4. \A r \in seen'[c] : Late(r)'
  BY <1>1 DEF AimInv
<1>5. guard' \in seen'[c] => guard' = guard
  BY <1>1
<1>6. aimed'[c].working /\ aimed'[c].at = guard' => guard' = guard
  BY <1>2
<1> QED
  BY <1>2, <1>3, <1>4, <1>5, <1>6 DEF AimInv, Late

LEMMA ClaimGuardAims ==
  ASSUME LinkShape, NEW c \in Controls, AimInv(c),
         NEW r \in Requests, ClaimGuard(r),
         \A s \in Requests : Late(s) => Late(s)'
  PROVE  AimInv(c)'
<1>1. /\ request[r] = "spawned" /\ r \in Changes /\ ~Late(r)
      /\ UNCHANGED <<aimed, seen, token, cancelled, canceller>>
  BY DEF ClaimGuard, At, Late, LateStages, tokenVars
<1>2. c # r /\ c \in Requests /\ Changes \subseteq Requests
  BY <1>1, ServiceAssumption DEF Requests
<1>3. request'[c] = request[c] /\ guard' \in {guard, r}
  BY <1>2 DEF ClaimGuard, Stage, LinkShape
<1>4. CASE guard' = guard
  BY <1>1, <1>3, <1>4, QuietAims
<1>5. CASE guard' = r
  <2>1. aimed[c] \in Aims /\ seen[c] \subseteq Changes
    BY DEF LinkShape
  <2>2. r \notin seen[c] /\ ~(aimed[c].working /\ aimed[c].at = r)
    BY <1>1 DEF AimInv
  <2>3. aimed[c].working => request'[aimed[c].at] \in LateStages
    BY <1>2, <2>1, ServiceAssumption DEF AimInv, Aims, Late
  <2>4. (~Late(c)' => canceller[c] = "idle") /\ \A s \in seen[c] : Late(s)'
    BY <1>2, <2>1 DEF AimInv
  <2> QED
    BY <1>1, <1>5, <2>2, <2>3, <2>4 DEF AimInv, Late
<1> QED
  BY <1>3, <1>4, <1>5

(* Only who has the guard renews the token, and is not at work yet.        *)
LEMMA RenewTokenAims ==
  ASSUME LinkShape, TokenInv, GuardInv, NEW c \in Controls, AimInv(c),
         NEW r \in Requests, RenewToken(r),
         \A s \in Requests : Late(s) => Late(s)'
  PROVE  AimInv(c)'
<1>1. /\ request[r] = "renewing" /\ guard = r /\ ~Late(r)
      /\ UNCHANGED <<aimed, seen, guard>>
  BY DEF RenewToken, At, GuardInv, Late, LateStages
<1>2. r \in Changes /\ c # r /\ c \in Requests /\ Changes \subseteq Requests
  BY <1>1, ServiceAssumption DEF LinkShape, Requests
<1>3. request'[c] = request[c]
  BY <1>2 DEF RenewToken, Stage, LinkShape
<1>4. canceller'[c] = "idle" <=> canceller[c] = "idle"
  BY DEF RenewToken, NewToken, TokenInv, CountsOK, Controls
<1>5. aimed[c] \in Aims /\ seen[c] \subseteq Changes
  BY DEF LinkShape
<1>6. r \notin seen[c] /\ ~(aimed[c].working /\ aimed[c].at = r)
  BY <1>1 DEF AimInv
<1>7. aimed[c].working => aimed[c].at # Nobody /\ request'[aimed[c].at] \in LateStages
  BY <1>2, <1>5, ServiceAssumption DEF AimInv, Aims, Late
<1>8. (~Late(c)' => canceller'[c] = "idle") /\ \A s \in seen[c] : Late(s)'
  BY <1>2, <1>4, <1>5 DEF AimInv
<1> QED
  BY <1>1, <1>6, <1>7, <1>8 DEF AimInv, Late

LEMMA TakeTokenAims ==
  ASSUME LinkShape, GuardInv, NEW c \in Controls, AimInv(c),
         NEW r \in Requests, TakeToken(r),
         \A s \in Requests : Late(s) => Late(s)'
  PROVE  AimInv(c)'
<1>1. /\ request[r] = "spawned" /\ r \in Controls /\ reader # Ended
      /\ request' = [request EXCEPT ![r] = "working"]
      /\ aimed' = [aimed EXCEPT ![r] =
                     [token |-> token, at |-> guard,
                      working |-> guard # Nobody /\ At(guard, "working")]]
      /\ UNCHANGED <<guard, seen, token, cancelled, canceller>>
  BY DEF TakeToken, At, Stage, tokenVars
<1>2. CASE c # r
  <2>1. /\ c \in Requests /\ aimed'[c] = aimed[c] /\ request'[c] = request[c]
        /\ aimed[c] \in Aims /\ seen[c] \subseteq Changes /\ Changes \subseteq Requests
    BY <1>1, <1>2 DEF LinkShape, Requests
  <2>2. aimed[c].working => request'[aimed[c].at] \in LateStages
    BY <2>1, ServiceAssumption DEF AimInv, Aims, Late
  <2>3. (~Late(c)' => canceller[c] = "idle") /\ \A s \in seen[c] : Late(s)'
    BY <2>1 DEF AimInv
  <2> QED
    BY <1>1, <2>1, <2>2, <2>3 DEF AimInv, Late
<1>3. CASE c = r
  <2>1. /\ aimed'[c].token = token /\ aimed'[c].at = guard
        /\ aimed'[c].working <=> guard # Nobody /\ At(guard, "working")
    BY <1>1, <1>3 DEF LinkShape
  <2>2. c \in Requests /\ seen[c] \subseteq Changes /\ Changes \subseteq Requests
    BY DEF LinkShape, Requests
  <2>3. canceller[c] = "idle"
    BY <1>1, <1>3 DEF AimInv, Late, LateStages
  <2>4. aimed'[c].working => aimed'[c].at # Nobody /\ request'[aimed'[c].at] \in LateStages
    <3>1. guard # Nobody /\ At(guard, "working") => request'[guard] \in LateStages
      BY <1>1, <2>2 DEF At, LateStages, LinkShape
    <3> QED
      BY <1>1, <2>1, <3>1
  <2>5. \A s \in seen[c] : Late(s)'
    BY <2>2 DEF AimInv
  <2>6. guard \in seen[c] => guard # Nobody /\ At(guard, "working")
    <3>1. guard \in seen[c] => guard # Nobody /\ Late(guard)
      BY <2>2, ServiceAssumption DEF AimInv
    <3> QED
      BY <1>1, <3>1 DEF GuardInv, Late, LateStages, At
  <2> QED
    BY <1>1, <2>1, <2>3, <2>4, <2>5, <2>6 DEF AimInv, Late
<1> QED
  BY <1>2, <1>3

LEMMA FireTokenAims ==
  ASSUME LinkShape, TokenInv, NEW c \in Controls, AimInv(c),
         NEW r \in Requests, FireToken(r)
  PROVE  AimInv(c)'
<1>1. /\ r \in Controls /\ request[r] = "working" /\ canceller[r] = "idle"
      /\ UNCHANGED <<request, guard, token, aimed, seen>>
      /\ cancelled => cancelled'
  BY DEF FireToken, At, SetFlag, linkVars, contentVars
<1>2. CASE c # r
  <2>1. canceller'[c] = canceller[c]
    BY <1>2 DEF FireToken, SetFlag, TokenInv, CountsOK, Controls
  <2> QED
    BY <1>1, <2>1 DEF AimInv, Late
<1>3. CASE c = r
  <2>1. aimed[r].token = token => cancelled'
    BY DEF FireToken, SetFlag
  <2>2. Late(c)
    BY <1>1, <1>3 DEF Late, LateStages
  <2> QED
    BY <1>1, <1>3, <2>1, <2>2 DEF AimInv, Late
<1> QED
  BY <1>2, <1>3

LEMMA WriteRequestAims ==
  ASSUME LinkShape, NEW c \in Controls, AimInv(c), \A s \in Changes : HeardInv(s),
         NEW r \in Requests, WriteRequest(r),
         \A s \in Requests : Late(s) => Late(s)'
  PROVE  AimInv(c)'
<1>1. /\ request[r] = "unsent" /\ request' = [request EXCEPT ![r] = "written"]
      /\ seen' = [d \in Controls |-> IF d = r THEN HeardOf ELSE seen[d]]
      /\ UNCHANGED <<guard, token, aimed, cancelled, canceller>>
  BY DEF WriteRequest, Stage, tokenVars
<1>2. c \in Requests /\ Changes \subseteq Requests
  BY DEF Requests
<1>3. CASE c # r
  <2>1. request'[c] = request[c] /\ seen'[c] = seen[c]
    BY <1>1, <1>2, <1>3 DEF LinkShape
  <2>2. aimed[c] \in Aims /\ seen[c] \subseteq Changes
    BY DEF LinkShape
  <2>3. aimed[c].working => request'[aimed[c].at] \in LateStages
    BY <1>2, <2>2, ServiceAssumption DEF AimInv, Aims, Late
  <2>4. (~Late(c)' => canceller[c] = "idle") /\ \A s \in seen[c] : Late(s)'
    BY <1>2, <2>2 DEF AimInv
  <2> QED
    BY <1>1, <2>1, <2>3, <2>4 DEF AimInv, Late
<1>4. CASE c = r
  <2>1. request'[c] = "written" /\ canceller[c] = "idle" /\ seen'[c] = HeardOf
    BY <1>1, <1>2, <1>4 DEF LinkShape, AimInv, Late, LateStages
  <2>2. aimed[c] \in Aims
    BY DEF LinkShape
  <2>3. aimed[c].working => request'[aimed[c].at] \in LateStages
    BY <1>2, <2>2, ServiceAssumption DEF AimInv, Aims, Late
  <2>4. \A s \in HeardOf : Late(s)'
    BY <1>2 DEF HeardOf, HeardInv, Sent
  <2> QED
    BY <1>1, <2>1, <2>3, <2>4 DEF AimInv, Late
<1> QED
  BY <1>3, <1>4

LEMMA InputEndsAims ==
  ASSUME InputEnds, NEW c \in Controls
  PROVE  AimInv(c)'
<1>1. /\ request'[c] = "done" /\ aimed'[c] = NotAimed /\ seen'[c] = {}
      /\ guard' = Nobody
  BY DEF InputEnds, Requests
<1> QED
  BY <1>1 DEF AimInv, Late, LateStages, NotAimed

LEMMA ServiceKeepsAims ==
  ASSUME LinkShape, PipeInv, TokenInv, GuardInv, \A s \in Changes : HeardInv(s),
         NEW c \in Controls, AimInv(c), [ServiceNext]_serviceVars
  PROVE  AimInv(c)'
<1>0. c \in Requests /\ \A s \in Requests : Late(s) => Late(s)'
  BY LateStays DEF Requests
<1>1. ASSUME UNCHANGED <<request, contentVars, cancelled, canceller>> PROVE AimInv(c)'
  BY <1>0, <1>1, QuietAims DEF contentVars
<1>2. ASSUME NEW r \in Requests, NEW stage \in Stages \ {"working"},
             request' = [request EXCEPT ![r] = stage],
             guard' \in {guard, Nobody},
             UNCHANGED <<token, aimed, seen, cancelled, canceller>>
      PROVE  AimInv(c)'
  <2>1. request'[c] = "working" => request[c] = "working"
    BY <1>0, <1>2 DEF LinkShape
  <2> QED
    BY <1>0, <1>2, <2>1, QuietAims
<1>3. CASE CloseWindow \/ ReaderSends \/ WriteFrame
  BY <1>1, <1>3 DEF CloseWindow, ReaderSends, WriteFrame, tokenVars
<1>4. CASE ReadRequest
  <2>1. Head(input) \in Requests
    BY <1>4, HeadTailProperties DEF ReadRequest, LinkShape
  <2>2. PICK stage \in {"spawned", "done"} :
          request' = [request EXCEPT ![Head(input)] = stage]
    BY <1>4 DEF ReadRequest, Stage
  <2>3. UNCHANGED <<guard, token, aimed, seen, cancelled, canceller>>
    BY <1>4 DEF ReadRequest, contentVars, tokenVars
  <2> QED
    BY <1>2, <2>1, <2>2, <2>3 DEF Stages, LateStages
<1>5. CASE InputEnds
  BY <1>5, InputEndsAims
<1>6. ASSUME NEW r \in Requests, WriteRequest(r) PROVE AimInv(c)'
  BY <1>0, <1>6, WriteRequestAims
<1>7. ASSUME NEW r \in Requests, TaskStep(r) PROVE AimInv(c)'
  <2>1. CASE SendEvent(r)
    BY <1>1, <2>1 DEF SendEvent, tokenVars
  <2>2. CASE Admit(r) \/ EndWork(r)
    <3>1. PICK stage \in {"renewing", "answering"} : request' = [request EXCEPT ![r] = stage]
      BY <2>2 DEF Admit, EndWork, Stage
    <3>2. guard' \in {guard, Nobody} /\ UNCHANGED <<token, aimed, seen, cancelled, canceller>>
      BY <2>2 DEF Admit, EndWork, tokenVars
    <3> QED
      BY <1>2, <3>1, <3>2 DEF Stages, LateStages
  <2>3. CASE EndCancel(r) \/ AnswerQuery(r) \/ SendAnswer(r)
    <3>1. PICK stage \in {"answering", "done"} : request' = [request EXCEPT ![r] = stage]
      BY <2>3 DEF EndCancel, AnswerQuery, SendAnswer, Stage
    <3>2. UNCHANGED <<guard, token, aimed, seen, cancelled, canceller>>
      BY <2>3 DEF EndCancel, AnswerQuery, SendAnswer, contentVars, tokenVars
    <3> QED
      BY <1>2, <3>1, <3>2 DEF Stages, LateStages
  <2> QED
    BY <1>0, <1>7, <2>1, <2>2, <2>3, ClaimGuardAims, RenewTokenAims, TakeTokenAims,
       FireTokenAims DEF TaskStep
<1>8. CASE \/ \E s \in Waiters : ReportProgress(s)
           \/ UNCHANGED serviceVars
  BY <1>1, <1>8 DEF ReportProgress, serviceVars, linkVars, contentVars, tokenVars
<1>9. ASSUME NEW s \in Waiters, AwaitNetwork(s) PROVE AimInv(c)'
  <2>1. UNCHANGED <<cancelled, canceller>>
    BY <1>9 DEF AwaitNetwork, Enter, WaiterStep, FirstCheck, CreateFuture, SecondCheck,
                Woken, Leave
  <2> QED
    BY <1>1, <1>9, <2>1 DEF AwaitNetwork, linkVars
<1>10. ASSUME NEW d \in Controls, WakeWaiters(d) PROVE AimInv(c)'
  <2>1. /\ canceller[d] = "notifying"
        /\ canceller' = [canceller EXCEPT ![d] = "done"]
        /\ UNCHANGED <<request, guard, token, aimed, seen, cancelled>>
    BY <1>10 DEF WakeWaiters, NotifyWaiters, linkVars, contentVars
  <2>2. canceller'[c] = "idle" <=> canceller[c] = "idle"
    BY <2>1 DEF TokenInv, CountsOK, Controls
  <2> QED
    BY <1>0, <2>1, <2>2, QuietAims
<1> QED
  BY <1>3, <1>4, <1>5, <1>6, <1>7, <1>8, <1>9, <1>10 DEF ServiceNext

-----------------------------------------------------------------------------
LEMMA ServiceInitEstablishes == ServiceInit => ServiceInv
<1> SUFFICES ASSUME ServiceInit PROVE ServiceInv
  OBVIOUS
<1>1. LinkShape
  <2>1. request \in [Requests -> Stages] /\ told \in [Requests -> BOOLEAN]
    BY DEF ServiceInit, Stages
  <2>2. aimed \in [Controls -> Aims] /\ seen \in [Controls -> SUBSET Changes]
    BY DEF ServiceInit, NotAimed, Aims
  <2>3. channel \in Seq(Frames) /\ input \in Seq(Requests)
    BY DEF ServiceInit
  <2> QED
    BY <2>1, <2>2, <2>3 DEF ServiceInit, LinkShape, ReaderStates
<1>2. TokenInv
  BY TokenInitEstablishes DEF ServiceInit
<1>3. PipeInv
  BY DEF ServiceInit, PipeInv
<1>4. ASSUME NEW r \in Changes PROVE FrameInv(r) /\ HeardInv(r)
  BY DEF ServiceInit, FrameInv, HeardInv, Sent, Requests
<1>5. GuardInv
  BY DEF ServiceInit, GuardInv, Requests
<1>6. ASSUME NEW c \in Controls PROVE AimInv(c)
  BY DEF ServiceInit, TokenInit, AimInv, NotAimed, Controls, Requests
<1> QED
  BY <1>1, <1>2, <1>3, <1>4, <1>5, <1>6 DEF ServiceInv

(* Frames keep their order and cancellations their target in every state,  *)
(* however many requests, cancellers and waiters there are.                *)
THEOREM ServiceIsConsistent == ServiceSpec => []ServiceInv
<1>1. ServiceInv /\ [ServiceNext]_serviceVars => ServiceInv'
  <2> SUFFICES ASSUME ServiceInv, [ServiceNext]_serviceVars PROVE ServiceInv'
    OBVIOUS
  <2>1. LinkShape' /\ PipeInv' /\ TokenInv'
    BY ServiceKeepsLink, ServiceKeepsToken DEF ServiceInv
  <2>2. GuardInv'
    BY ServiceKeepsGuard DEF ServiceInv
  <2>3. ASSUME NEW r \in Changes PROVE FrameInv(r)' /\ HeardInv(r)'
    BY ServiceKeepsFrames, ServiceKeepsHeard DEF ServiceInv
  <2>4. ASSUME NEW c \in Controls PROVE AimInv(c)'
    BY ServiceKeepsAims DEF ServiceInv
  <2> QED
    BY <2>1, <2>2, <2>3, <2>4 DEF ServiceInv
<1> QED
  BY <1>1, ServiceInitEstablishes, PTL DEF ServiceSpec

(* The event of a request reaches the window before its answer, whatever   *)
(* fills the channel and whenever the window goes (EventBus::new, send).   *)
THEOREM EventsComeFirst == ServiceSpec => []EventsPrecedeAnswers
<1>1. ServiceInv => EventsPrecedeAnswers
  BY DEF ServiceInv, FrameInv, EventsPrecedeAnswers
<1> QED
  BY <1>1, ServiceIsConsistent, PTL

(* A cancellation that found an operation at work, or that was asked for   *)
(* after the window had heard of it, fires the token that operation waits  *)
(* on, whoever asked for the guard in between, in any number of steps      *)
(* (dispatch, reset_cancellation, cancel_content_operation).               *)
THEOREM CancellationsHit == ServiceSpec => []CancelHitsItsTarget
<1>1. ServiceInv => CancelHitsItsTarget
  BY DEF ServiceInv, AimInv, CancelHitsItsTarget
<1> QED
  BY <1>1, ServiceIsConsistent, PTL

(* In the service too, where tokens are renewed, no operation sleeps       *)
(* through the cancellation of its token.                                  *)
THEOREM ServiceSleepersWake == ServiceSpec => []SleepersWillWake
<1>1. ServiceInv => SleepersWillWake
  BY DEF ServiceInv, TokenInv
<1> QED
  BY <1>1, ServiceIsConsistent, PTL
=============================================================================
