---------------------------- MODULE ServiceLink ----------------------------
(***************************************************************************)
(* The service process (crates/launcher-service) between the window's pipe *)
(* and the commands: a thread that reads one request a line, a task for    *)
(* each request that was granted a permit, and a thread that writes what   *)
(* they send from a bounded channel.                                       *)
(*                                                                         *)
(* The requests that change builds work one at a time under the guard of   *)
(* api.rs.  Whoever has it asks the registry of operations and only then   *)
(* gets a content token of its own, while a request to cancel, which needs *)
(* no guard, fires the token it finds: in between, the old one.  The token *)
(* itself is that of CancellationToken.                                    *)
(***************************************************************************)
EXTENDS CancellationToken, Sequences, FiniteSets, SequencesExt

CONSTANTS
  Changes,          (* requests that change builds; the waiters of the     *)
                    (* token are those that use the network                *)
  Queries,          (* requests that only read, such as images             *)
  Malformed,        (* lines that are no request                           *)
  OrdinaryPermits,  (* 32 in the code                                      *)
  ControlPermits,   (* 8                                                   *)
  Capacity,         (* frames in the channel, 256                          *)
  Nobody,
  MaxInput,         (* bound: lines in the pipe that nobody has read       *)
  MaxRequests,      (* bound: requests of one window                       *)
  MaxProgress       (* bound: progress frames                              *)

(* The requests to cancel are the cancellers of the content token.         *)
Controls == Cancellers
Requests == Changes \cup Controls \cup Queries \cup Malformed

ASSUME ServiceAssumption ==
  /\ Nobody \notin Requests
  /\ Waiters \subseteq Changes
  /\ Changes \cap Controls = {}
  /\ Capacity \in Nat \ {0}
  /\ OrdinaryPermits \in Nat /\ ControlPermits \in Nat

VARIABLES
  input,     (* lines the window has written and nobody has read           *)
  reader,    (* the frame the reading thread must send first; or "reading" *)
             (* or "ended"                                                 *)
  request,   (* request -> how far it has come                             *)
  progress,  (* progress frames reported, by whichever request             *)
  told,      (* request -> whether it has sent its event (an account has   *)
             (* changed, a build was installed: anything but progress)     *)
  channel,   (* frames from the senders to the writing thread              *)
  received,  (* the frames the window has read (history)                   *)
  guard,     (* the request that holds AppContext::mutation                *)
  aimed,     (* canceller -> [token, at, working]: the token it has taken, *)
             (* who held the guard then, and whether that request had got  *)
             (* its own token (the last two are history)                   *)
  seen,      (* canceller -> the requests the window had heard from at     *)
             (* work when it asked to cancel (history)                     *)
  token,     (* which content token is the current one                     *)
  window     (* "open", "closed", or "gone" once the writer has noticed    *)

linkVars == <<input, reader, request, progress, told, channel, received, window>>
contentVars == <<guard, aimed, seen, token>>
serviceVars == <<linkVars, contentVars, tokenVars>>

Answer(r) == [kind |-> "answer", of |-> r]
Busy(r) == [kind |-> "busy", of |-> r]
Event(r) == [kind |-> "event", of |-> r]
Progress(r) == [kind |-> "progress", of |-> r]
Unreadable == [kind |-> "invalid", of |-> Nobody]
Reading == [kind |-> "reading", of |-> Nobody]
Ended == [kind |-> "ended", of |-> Nobody]

Stage(r, stage) == request' = [request EXCEPT ![r] = stage]
Running(r) == request[r] \notin {"unsent", "written", "done"}
NotAimed == [token |-> 0, at |-> Nobody, working |-> FALSE]
InService(kind) == Cardinality({r \in kind : Running(r)})

ServiceInit ==
  /\ TokenInit
  /\ input = <<>> /\ reader = Reading /\ channel = <<>> /\ received = {}
  /\ request = [r \in Requests |-> "unsent"]
  /\ progress = 0 /\ told = [r \in Requests |-> FALSE]
  /\ guard = Nobody /\ token = 0
  /\ aimed = [c \in Controls |-> NotAimed] /\ seen = [c \in Controls |-> {}]
  /\ window = "open"

-----------------------------------------------------------------------------
(* SyncSender::send waits for room, and succeeds at once without effect    *)
(* when the receiver is gone.                                              *)
CanSend == Len(channel) < Capacity \/ window = "gone"
Send(frame) == channel' = IF window = "gone" THEN channel ELSE Append(channel, frame)

HeardOf == {r \in Changes : {Progress(r), Event(r)} \cap received # {}}

WriteRequest(r) ==
  /\ window = "open" /\ request[r] = "unsent" /\ Len(input) < MaxInput
  /\ Cardinality({s \in Requests : request[s] # "unsent"}) < MaxRequests
  /\ input' = Append(input, r)
  /\ Stage(r, "written")
  /\ seen' = [c \in Controls |-> IF c = r THEN HeardOf ELSE seen[c]]
  /\ UNCHANGED <<reader, progress, told, channel, received, window, guard, aimed, token,
                 tokenVars>>

CloseWindow ==
  /\ window = "open"
  /\ window' = "closed"
  /\ UNCHANGED <<input, reader, request, progress, told, channel, received,
                 contentVars, tokenVars>>

(* Fault: all requests share one pool of permits.                          *)
ReadFromOnePool ==
  /\ reader = Reading /\ input # <<>>
  /\ input' = Tail(input)
  /\ LET r == Head(input)
         granted == InService(Controls \cup Changes \cup Queries) < OrdinaryPermits
     IN  IF r \in Malformed
         THEN reader' = Unreadable /\ Stage(r, "done")
         ELSE IF granted THEN Stage(r, "spawned") /\ UNCHANGED reader
         ELSE reader' = Busy(r) /\ Stage(r, "done")
  /\ UNCHANGED <<progress, told, channel, received, window, contentVars, tokenVars>>

(* The reading thread: a permit of the right kind or an answer at once,    *)
(* which it sends itself.                                                  *)
ReadRequest ==
  /\ reader = Reading /\ input # <<>>
  /\ input' = Tail(input)
  /\ LET r == Head(input)
         granted == IF r \in Controls THEN InService(Controls) < ControlPermits
                    ELSE InService(Changes \cup Queries) < OrdinaryPermits
     IN  IF r \in Malformed
         THEN reader' = Unreadable /\ Stage(r, "done")
         ELSE IF granted THEN Stage(r, "spawned") /\ UNCHANGED reader
         ELSE reader' = Busy(r) /\ Stage(r, "done")
  /\ UNCHANGED <<progress, told, channel, received, window, contentVars, tokenVars>>

ReaderSends ==
  /\ reader \notin {Reading, Ended} /\ CanSend
  /\ Send(reader) /\ reader' = Reading
  /\ UNCHANGED <<input, request, progress, told, received, window, contentVars, tokenVars>>

(* The end of the input ends the process, whatever its tasks are doing,    *)
(* and what it held in memory is gone.                                     *)
InputEnds ==
  /\ reader = Reading /\ input = <<>> /\ window # "open"
  /\ reader' = Ended
  /\ channel' = <<>> /\ told' = [r \in Requests |-> FALSE]
  /\ request' = [r \in Requests |-> "done"]
  /\ guard' = Nobody
  /\ cancelled' = FALSE /\ notified' = 0
  /\ created' = [w \in Waiters |-> 0] /\ waiter' = [w \in Waiters |-> "idle"]
  /\ canceller' = [c \in Cancellers |-> "done"]
  /\ progress' = 0 /\ token' = 0
  /\ aimed' = [c \in Controls |-> NotAimed] /\ seen' = [c \in Controls |-> {}]
  /\ UNCHANGED <<input, received, window>>

(* The writing thread stops at the first error, and drops the receiver.    *)
WriteFrame ==
  /\ channel # <<>> /\ window # "gone" /\ reader # Ended
  /\ IF window = "open"
     THEN /\ channel' = Tail(channel)
          /\ received' = received \cup {Head(channel)}
          /\ UNCHANGED window
     ELSE window' = "gone" /\ channel' = <<>> /\ UNCHANGED received
  /\ UNCHANGED <<input, reader, request, progress, told, contentVars, tokenVars>>

-----------------------------------------------------------------------------
(* The tasks end with the process.                                         *)
At(r, stage) == request[r] = stage /\ reader # Ended

(* A token nobody has fired.  A cancellation that is about to notify the   *)
(* waiters of the one before finds nobody there.                           *)
NewToken ==
  /\ token' = token + 1
  /\ cancelled' = FALSE /\ notified' = 0
  /\ created' = [w \in Waiters |-> 0]
  /\ canceller' = [c \in Cancellers |->
       IF canceller[c] = "notifying" THEN "done" ELSE canceller[c]]
  /\ UNCHANGED waiter

(* Fault: the token is renewed before the guard is asked for.              *)
RenewFirst(r) ==
  /\ At(r, "spawned") /\ r \in Changes
  /\ NewToken
  /\ IF guard = Nobody THEN guard' = r /\ Stage(r, "admitting")
     ELSE Stage(r, "answering") /\ UNCHANGED guard
  /\ UNCHANGED <<input, reader, progress, told, channel, received, window, aimed, seen>>

(* dispatch, for a request that changes a build: the guard, if it is free. *)
ClaimGuard(r) ==
  /\ At(r, "spawned") /\ r \in Changes
  /\ IF guard = Nobody THEN guard' = r /\ Stage(r, "admitting")
     ELSE Stage(r, "answering") /\ UNCHANGED guard
  /\ UNCHANGED <<input, reader, progress, told, channel, received, window, aimed, seen,
                 token, tokenVars>>

(* has_active: an operation that outlives its request may be under way     *)
(* (LaunchWorkflow), which is an error, and the guard is dropped with it.  *)
Admit(r) ==
  /\ At(r, "admitting")
  /\ \/ Stage(r, "renewing") /\ UNCHANGED guard
     \/ Stage(r, "answering") /\ guard' = Nobody
  /\ UNCHANGED <<input, reader, progress, told, channel, received, window, aimed, seen,
                 token, tokenVars>>

(* reset_cancellation: a token of its own.                                 *)
RenewToken(r) ==
  /\ At(r, "renewing")
  /\ NewToken /\ Stage(r, "working")
  /\ UNCHANGED <<input, reader, progress, told, channel, received, window, guard, aimed,
                 seen>>

(* Its downloads wait for the network and for the token.                   *)
AwaitNetwork(r) ==
  /\ At(r, "working") /\ r \in Waiters
  /\ Enter(r) \/ WaiterStep(r) \/ Leave(r)
  /\ UNCHANGED <<linkVars, contentVars>>

(* EventBus: progress is dropped when the channel is full.                 *)
ReportProgress(r) ==
  /\ At(r, "working") /\ r \in Waiters
  /\ progress < MaxProgress
  /\ progress' = progress + 1
  /\ channel' = IF Len(channel) < Capacity /\ window # "gone"
                THEN Append(channel, Progress(r)) ELSE channel
  /\ UNCHANGED <<input, reader, request, told, received, window, contentVars, tokenVars>>

(* Fault: events are dropped like progress.                                *)
DropEvent(r) ==
  /\ At(r, "working") /\ r \in Changes /\ ~told[r]
  /\ told' = [told EXCEPT ![r] = TRUE]
  /\ channel' = IF Len(channel) < Capacity THEN Append(channel, Event(r)) ELSE channel
  /\ UNCHANGED <<input, reader, request, progress, received, window, contentVars, tokenVars>>

(* Any other event waits for room, and its sender with it.                 *)
SendEvent(r) ==
  /\ At(r, "working") /\ r \in Changes /\ ~told[r] /\ CanSend
  /\ told' = [told EXCEPT ![r] = TRUE]
  /\ Send(Event(r))
  /\ UNCHANGED <<input, reader, request, progress, received, window, contentVars, tokenVars>>

(* The work ends, at the latest when its network calls time out, and the   *)
(* guard with the call of dispatch.                                        *)
EndWork(r) ==
  /\ At(r, "working") /\ r \in Changes /\ told[r]
  /\ r \in Waiters => waiter[r] \in {"idle", "returned"}
  /\ guard' = Nobody /\ Stage(r, "answering")
  /\ UNCHANGED <<input, reader, progress, told, channel, received, window, aimed, seen,
                 token, tokenVars>>

(* cancel_content_operation: the current token is taken, then fired.       *)
TakeToken(c) ==
  /\ At(c, "spawned") /\ c \in Controls
  /\ aimed' = [aimed EXCEPT ![c] = [token |-> token, at |-> guard,
                                      working |-> guard # Nobody /\ At(guard, "working")]]
  /\ Stage(c, "working")
  /\ UNCHANGED <<input, reader, progress, told, channel, received, window, guard, seen,
                 token, tokenVars>>

FireToken(c) ==
  /\ At(c, "working") /\ c \in Controls
  /\ IF aimed[c].token = token THEN SetFlag(c)
     ELSE /\ canceller[c] = "idle"
          /\ canceller' = [canceller EXCEPT ![c] = "done"]
          /\ UNCHANGED <<cancelled, notified, created, waiter>>
  /\ UNCHANGED <<linkVars, contentVars>>

WakeWaiters(c) ==
  /\ reader # Ended /\ NotifyWaiters(c)
  /\ UNCHANGED <<linkVars, contentVars>>

EndCancel(c) ==
  /\ At(c, "working") /\ c \in Controls /\ canceller[c] = "done"
  /\ Stage(c, "answering")
  /\ UNCHANGED <<input, reader, progress, told, channel, received, window, contentVars,
                 tokenVars>>

AnswerQuery(r) ==
  /\ At(r, "spawned") /\ r \in Queries
  /\ Stage(r, "answering")
  /\ UNCHANGED <<input, reader, progress, told, channel, received, window, contentVars,
                 tokenVars>>

(* Fault: an answer is dropped like progress when the channel is full.     *)
SendAnswerOrDrop(r) ==
  /\ At(r, "answering")
  /\ channel' = IF CanSend THEN Append(channel, Answer(r)) ELSE channel
  /\ Stage(r, "done")
  /\ UNCHANGED <<input, reader, progress, told, received, window, contentVars, tokenVars>>

(* The answer is sent, and the permit returned with the end of the task.   *)
SendAnswer(r) ==
  /\ At(r, "answering") /\ CanSend
  /\ Send(Answer(r))
  /\ Stage(r, "done")
  /\ UNCHANGED <<input, reader, progress, told, received, window, contentVars, tokenVars>>

TaskStep(r) ==
  \/ ClaimGuard(r) \/ Admit(r) \/ RenewToken(r) \/ SendEvent(r) \/ EndWork(r)
  \/ TakeToken(r) \/ FireToken(r) \/ EndCancel(r) \/ AnswerQuery(r) \/ SendAnswer(r)

ServiceNext ==
  \/ CloseWindow \/ ReadRequest \/ ReaderSends \/ InputEnds \/ WriteFrame
  \/ \E r \in Requests : WriteRequest(r) \/ TaskStep(r)
  \/ \E r \in Waiters : AwaitNetwork(r) \/ ReportProgress(r)
  \/ \E c \in Controls : WakeWaiters(c)

(* Threads run, tasks are polled, a wait for the network has an end and an *)
(* operation makes finitely many of them, so it gets to its next step; the *)
(* window reads what it is sent while it is open.                          *)
ServiceSpec ==
  /\ ServiceInit /\ [][ServiceNext]_serviceVars
  /\ WF_serviceVars(ReadRequest \/ ReaderSends \/ InputEnds)
  /\ WF_serviceVars(WriteFrame)
  /\ \A r \in Requests \ Malformed : SF_serviceVars(TaskStep(r))
  /\ \A c \in Controls : WF_serviceVars(WakeWaiters(c))
  /\ \A r \in Waiters :
       /\ WF_serviceVars(WaiterStep(r) /\ At(r, "working") /\ UNCHANGED <<linkVars, contentVars>>)
       /\ SF_serviceVars(Leave(r) /\ At(r, "working") /\ UNCHANGED <<linkVars, contentVars>>)

-----------------------------------------------------------------------------
(* Every request that was written is answered once, whatever else fills    *)
(* permits and channel, if the window stays (run, reserve_request, send).  *)
Answered(r) == {Answer(r), Busy(r)} \cap received # {}
RequestsAreAnswered ==
  \A r \in Requests \ Malformed : request[r] = "written" ~> (Answered(r) \/ window # "open")

(* A request to cancel is carried out and not turned away or kept waiting, *)
(* however many slow requests hold permits and guard or fill the channel,  *)
(* as long as the permits of its kind suffice (reserve_request, run).      *)
CancelIsCarriedOut ==
  Cardinality(Controls) <= ControlPermits =>
    \A c \in Controls : request[c] = "written" ~> (canceller[c] = "done" \/ window # "open")

(* An event reaches the window, and before the answer of its request, so   *)
(* that what an answer refers to is known by then (EventBus::new, which    *)
(* drops progress alone).                                                  *)
EventsPrecedeAnswers ==
  \A r \in Changes : told[r] /\ Answer(r) \in received => Event(r) \in received

(* A cancellation that finds an operation at work, or that the window asks *)
(* for after it has heard of the operation's progress, fires the token     *)
(* that operation waits on, whatever other requests were refused in the    *)
(* meantime (dispatch: the token is renewed under the guard, and before    *)
(* anything is reported).                                                  *)
CancelHitsItsTarget ==
  \A c \in Controls :
    /\ canceller[c] = "done" /\ guard # Nobody
    /\ (aimed[c].working /\ aimed[c].at = guard) \/ guard \in seen[c]
    => cancelled

(* What the window says when it asks for a cancellation, that the          *)
(* operation is being stopped (LauncherWindow::cancel): a cancellation     *)
(* that finds an operation under the guard has fired the token it waits    *)
(* on.  dispatch takes the guard first, and throws the token away later.   *)
CancelStopsOperation ==
  \A c \in Controls :
    canceller[c] = "done" /\ guard # Nobody /\ At(guard, "working") /\ aimed[c].at = guard
    => cancelled
=============================================================================
