--------------------------- MODULE LauncherWindow ---------------------------
(***************************************************************************)
(* The native window and the core process behind it.                       *)
(*                                                                         *)
(* The window (apps/qt: window.cpp, library.cpp) learns what the core does *)
(* from frames in one pipe: answers to its requests and events about the   *)
(* operation it launched (backend.cpp).  An answer and the events of the   *)
(* operation it announces are sent by different tasks of the core, so they *)
(* arrive in either order.  Of the core this module keeps what the other   *)
(* modules promise: one mutating request at a time and none beside a live  *)
(* operation, one start and then one end per launch (LaunchWorkflow).      *)
(***************************************************************************)
EXTENDS Naturals, Sequences, FiniteSets

CONSTANTS
  OperationIds,
  NoOp,
  MaxRequests,   (* bound: mutating requests the window sends             *)
  MaxCompleted   (* ended operations the window remembers                 *)

ASSUME WindowAssumption ==
  /\ NoOp \notin OperationIds
  /\ MaxRequests \in Nat
  /\ MaxCompleted \in Nat \ {0}

VARIABLES
  link,        (* the core process: "up", "dying", "lost", "closed"        *)
  frames,      (* frames in the pipe, oldest first                         *)
  pending,     (* [of, kind]: the mutating request that awaits its answer  *)
  ready,       (* the core has answered hello                              *)
  busy,        (* a mutating request is under way                          *)
  running,     (* the window believes that a game runs                     *)
  operationId, (* the operation the window follows                         *)
  completedOperations,
  sent,        (* mutating requests sent so far                            *)
  handled,     (* request -> [kind, at, op] in the core                    *)
  game,        (* operation -> its state in the core                       *)
  controls,    (* [method, op] on their way to the core                    *)
  gaveUp,      (* history: an answer was given up for                      *)
  regretted    (* history: cancel was pressed before the operation of the  *)
               (* launch under way had begun                               *)

windowVars == <<ready, busy, running, operationId, completedOperations>>
pipeVars == <<link, frames, pending>>
coreVars == <<handled, game, controls>>
vars == <<windowVars, pipeVars, coreVars, sent, gaveUp, regretted>>

RequestIds == 1..MaxRequests
(* "play" selects the build and then launches it; "other" is any other     *)
(* request that changes something.                                         *)
Kinds == {"play", "launch", "other"}
NoPending == [of |-> 0, kind |-> "none"]
Unsent == [kind |-> "none", at |-> "unsent", op |-> NoOp]

Answered(n, op) == [what |-> "answer", of |-> n, op |-> op]
Refused(n) == [what |-> "refusal", of |-> n, op |-> NoOp]
Event(what, id) == [what |-> what, of |-> 0, op |-> id]

InCore(id) == game[id] \in {"preparing", "playing"}
Engaged == busy \/ running \/ operationId # NoOp

WindowInit ==
  /\ link = "up"
  /\ frames = <<>>
  /\ pending = NoPending
  /\ ready = FALSE
  /\ busy = FALSE
  /\ running = FALSE
  /\ operationId = NoOp
  /\ completedOperations = {}
  /\ sent = 0
  /\ handled = [n \in RequestIds |-> Unsent]
  /\ game = [id \in OperationIds |-> "none"]
  /\ controls = {}
  /\ gaveUp = FALSE
  /\ regretted = FALSE

-----------------------------------------------------------------------------
(* What the user does.                                                     *)

(* The answer to hello.                                                    *)
BecomeReady ==
  /\ link = "up"
  /\ ~ready
  /\ ready' = TRUE
  /\ UNCHANGED <<busy, running, operationId, completedOperations, pipeVars,
                 coreVars, sent, gaveUp, regretted>>

(* Backend::request: what is written to a core that has just died is lost. *)
Send(kind) ==
  /\ sent' = sent + 1
  /\ pending' = [of |-> sent + 1, kind |-> kind]
  /\ handled' = IF link = "up"
                THEN [handled EXCEPT ![sent + 1] =
                        [kind |-> kind, at |-> "sent", op |-> NoOp]]
                ELSE handled

(* LauncherWindow::call.                                                   *)
MayCall == ~Engaged

PressPlay ==
  /\ link \in {"up", "dying"}
  /\ ready
  /\ MayCall
  /\ sent + 2 <= MaxRequests
  /\ busy' = TRUE
  /\ Send("play")
  /\ regretted' = FALSE
  /\ UNCHANGED <<ready, running, operationId, completedOperations, link, frames,
                 game, controls, gaveUp>>

PressOther ==
  /\ link \in {"up", "dying"}
  /\ MayCall
  /\ sent < MaxRequests
  /\ busy' = TRUE
  /\ Send("other")
  /\ UNCHANGED <<ready, running, operationId, completedOperations, link, frames,
                 game, controls, gaveUp, regretted>>

(* The launch under way has no operation yet.                              *)
BeforeLaunch ==
  \/ pending.kind = "play"
  \/ pending.kind = "launch" /\ handled[pending.of].at \in {"sent", "working"}

(* LauncherWindow::cancel.  The content operation it cancels as well is    *)
(* "other": its answer may be a refusal in any case.                       *)
PressCancel ==
  /\ link # "closed"
  /\ Engaged
  /\ controls' =
       IF link = "up" /\ operationId # NoOp
       THEN controls \cup {[method |-> IF running THEN "stop" ELSE "cancel",
                            op |-> operationId]}
       ELSE controls
  /\ regretted' = (regretted \/ BeforeLaunch)
  /\ UNCHANGED <<windowVars, pipeVars, handled, game, sent, gaveUp>>

(* LauncherWindow::closeEvent; the core ends when its input does.          *)
CloseWindow ==
  /\ link # "closed"
  /\ ~Engaged
  /\ link' = "closed"
  /\ UNCHANGED <<windowVars, frames, pending, coreVars, sent, gaveUp, regretted>>

-----------------------------------------------------------------------------
(* What the core does.                                                     *)

Put(frame) == frames' = Append(frames, frame)
Handle(n, at) == handled' = [handled EXCEPT ![n].at = at]
Working(n) == handled[n].at \in {"working", "replying"}
CoreUntouched ==
  UNCHANGED <<windowVars, link, pending, sent, gaveUp, regretted>>

Receive(n) ==
  /\ link = "up"
  /\ handled[n].at = "sent"
  /\ IF (\E m \in RequestIds : Working(m)) \/ (\E id \in OperationIds : InCore(id))
     THEN Handle(n, "done") /\ Put(Refused(n))
     ELSE Handle(n, "working") /\ UNCHANGED frames
  /\ UNCHANGED <<game, controls>>
  /\ CoreUntouched

Refuse(n) ==
  /\ link = "up"
  /\ handled[n].at = "working"
  /\ Handle(n, "done")
  /\ Put(Refused(n))
  /\ UNCHANGED <<game, controls>>
  /\ CoreUntouched

Answer(n) ==
  /\ link = "up"
  /\ handled[n].at = "working"
  /\ handled[n].kind # "launch"
  /\ Handle(n, "done")
  /\ Put(Answered(n, NoOp))
  /\ UNCHANGED <<game, controls>>
  /\ CoreUntouched

BeginLaunch(n, id) ==
  /\ link = "up"
  /\ handled[n].at = "working"
  /\ handled[n].kind = "launch"
  /\ game[id] = "none"
  /\ game' = [game EXCEPT ![id] = "preparing"]
  /\ handled' = [handled EXCEPT ![n].at = "replying", ![n].op = id]
  /\ UNCHANGED <<frames, controls>>
  /\ CoreUntouched

AnswerLaunch(n) ==
  /\ link = "up"
  /\ handled[n].at = "replying"
  /\ Handle(n, "done")
  /\ Put(Answered(n, handled[n].op))
  /\ UNCHANGED <<game, controls>>
  /\ CoreUntouched

StartGame(id) ==
  /\ link = "up"
  /\ game[id] = "preparing"
  /\ game' = [game EXCEPT ![id] = "playing"]
  /\ Put(Event("started", id))
  /\ UNCHANGED <<handled, controls>>
  /\ CoreUntouched

(* The launch fails, or the game exits or crashes.                         *)
EndOperation(id, what) ==
  /\ link = "up"
  /\ InCore(id)
  /\ game[id] = "preparing" => what = "error"
  /\ game' = [game EXCEPT ![id] = "ended"]
  /\ Put(Event(what, id))
  /\ UNCHANGED <<handled, controls>>
  /\ CoreUntouched

(* cancel_operation before the spawn boundary, or stop_game while the game *)
(* runs; otherwise the call changes nothing.                               *)
ObeyControl(c) ==
  /\ link = "up"
  /\ c \in controls
  /\ controls' = controls \ {c}
  /\ \/ /\ \/ c.method = "cancel" /\ game[c.op] = "preparing"
           \/ c.method = "stop" /\ game[c.op] = "playing"
        /\ game' = [game EXCEPT ![c.op] = "ended"]
        /\ Put(Event(IF c.method = "stop" THEN "exited" ELSE "error", c.op))
     \/ UNCHANGED <<game, frames>>
  /\ UNCHANGED handled
  /\ CoreUntouched

(* What the core had not written yet is lost with it.                      *)
CoreDies ==
  /\ link = "up"
  /\ link' = "dying"
  /\ \E k \in 0..Len(frames) : frames' = SubSeq(frames, 1, k)
  /\ UNCHANGED <<windowVars, pending, coreVars, sent, gaveUp, regretted>>

-----------------------------------------------------------------------------
(* What the window does with a frame: Backend::receive and the handlers    *)
(* that window.cpp connects to it.                                         *)

Frame == Head(frames)
Take(what) ==
  /\ link \in {"up", "dying"}
  /\ frames # <<>>
  /\ Frame.what \in what
  /\ frames' = Tail(frames)
Observe == UNCHANGED <<link, game, controls, gaveUp, regretted>>

(* An answer that is no longer awaited.                                    *)
DropAnswer ==
  /\ Take({"answer", "refusal"})
  /\ Frame.of # pending.of
  /\ UNCHANGED <<windowVars, pending, handled, sent>>
  /\ Observe

TakeRefusal ==
  /\ Take({"refusal"})
  /\ Frame.of = pending.of
  /\ pending' = NoPending
  /\ busy' = FALSE
  /\ UNCHANGED <<ready, running, operationId, completedOperations, handled, sent>>
  /\ Observe

(* The build is selected: the same handler asks for the launch.            *)
LaunchSelected ==
  /\ Take({"answer"})
  /\ Frame.of = pending.of
  /\ pending.kind = "play"
  /\ IF ~running /\ operationId = NoOp
     THEN Send("launch") /\ busy' = TRUE
     ELSE pending' = NoPending /\ busy' = FALSE /\ UNCHANGED <<handled, sent>>
  /\ UNCHANGED <<ready, running, operationId, completedOperations>>
  /\ Observe

TakeAnswer ==
  /\ Take({"answer"})
  /\ Frame.of = pending.of
  /\ pending.kind = "other"
  /\ pending' = NoPending
  /\ busy' = FALSE
  /\ UNCHANGED <<ready, running, operationId, completedOperations, handled, sent>>
  /\ Observe

(* Fault: whatever is announced is followed.                               *)
FollowAlways(id) == TRUE

(* Fault: an operation is followed from the start of its game only.        *)
FollowNever(id) == FALSE

(* The operation may have ended before it was announced.                   *)
Follow(id) == id \notin completedOperations

TakeLaunchAnswer ==
  /\ Take({"answer"})
  /\ Frame.of = pending.of
  /\ pending.kind = "launch"
  /\ pending' = NoPending
  /\ busy' = FALSE
  /\ operationId' = IF Follow(Frame.op) THEN Frame.op ELSE operationId
  /\ UNCHANGED <<ready, running, completedOperations, handled, sent>>
  /\ Observe

(* Another event than this is ignored; the core, which has one operation   *)
(* at a time and one end for each, never sends one.                        *)
Concerns(id) ==
  id \notin completedOperations /\ operationId \in {NoOp, id}

TakeStarted ==
  /\ Take({"started"})
  /\ IF Concerns(Frame.op)
     THEN running' = TRUE /\ operationId' = Frame.op
     ELSE UNCHANGED <<running, operationId>>
  /\ UNCHANGED <<ready, busy, completedOperations, pending, handled, sent>>
  /\ Observe

(* complete: an arbitrary element of a full set makes room.                *)
Remembered(id) ==
  IF Cardinality(completedOperations) < MaxCompleted
  THEN {completedOperations \cup {id}}
  ELSE {(completedOperations \ {old}) \cup {id} : old \in completedOperations}

TakeEnd ==
  /\ Take({"exited", "error"})
  /\ IF Concerns(Frame.op)
     THEN /\ completedOperations' \in Remembered(Frame.op)
          /\ running' = FALSE
          /\ operationId' = NoOp
     ELSE UNCHANGED <<completedOperations, running, operationId>>
  /\ UNCHANGED <<ready, busy, pending, handled, sent>>
  /\ Observe

(* Fault: the callback of the request is forgotten with it.                *)
ExpireSilently ==
  /\ link # "closed"
  /\ pending # NoPending
  /\ pending' = NoPending
  /\ gaveUp' = TRUE
  /\ UNCHANGED <<windowVars, link, frames, coreVars, sent, regretted>>

(* The timer gives up for an answer after thirty minutes.                  *)
Expire ==
  /\ link # "closed"
  /\ pending # NoPending
  /\ pending' = NoPending
  /\ busy' = FALSE
  /\ gaveUp' = TRUE
  /\ UNCHANGED <<ready, running, operationId, completedOperations, link, frames,
                 coreVars, sent, regretted>>

(* Backend::fail answers what is pending with an error; the handler of     *)
(* "disconnected" follows.                                                 *)
Disconnect ==
  /\ link = "dying"
  /\ frames = <<>>
  /\ link' = "lost"
  /\ pending' = NoPending
  /\ ready' = FALSE
  /\ busy' = FALSE
  /\ UNCHANGED <<running, operationId, completedOperations, frames, coreVars, sent,
                 gaveUp, regretted>>

-----------------------------------------------------------------------------
TakeFrame ==
  \/ DropAnswer \/ TakeRefusal \/ TakeAnswer
  \/ LaunchSelected \/ TakeLaunchAnswer
  \/ TakeStarted \/ TakeEnd

CoreStep ==
  \/ \E n \in RequestIds :
       \/ Receive(n) \/ Refuse(n) \/ Answer(n) \/ AnswerLaunch(n)
       \/ \E id \in OperationIds : BeginLaunch(n, id)
  \/ \E id \in OperationIds :
       \/ StartGame(id)
       \/ \E what \in {"exited", "error"} : EndOperation(id, what)
  \/ \E c \in controls : ObeyControl(c)

WindowNext ==
  \/ BecomeReady \/ PressPlay \/ PressOther \/ PressCancel \/ CloseWindow
  \/ CoreStep \/ CoreDies
  \/ TakeFrame \/ Expire \/ Disconnect

WindowSafety == WindowInit /\ [][WindowNext]_vars

(* The event loop of the window turns; the user and the core owe nothing.  *)
WindowFairness == WF_vars(TakeFrame) /\ WF_vars(Expire) /\ WF_vars(Disconnect)

WindowSpec == WindowSafety /\ WindowFairness

-----------------------------------------------------------------------------
(* While the core launches or runs a game, the window does not offer the   *)
(* next action and does not let itself be closed, whatever the order in    *)
(* which the answer and the events have arrived.  (Not after an answer was *)
(* given up for: the operation may then begin unnoticed.)                  *)
LiveMeansEngaged ==
  link = "up" /\ ~gaveUp /\ (\E id \in OperationIds : InCore(id)) => Engaged

(* Once everything sent has arrived, the window follows exactly the        *)
(* operation that is live in the core, and shows a game exactly when one   *)
(* runs: an answer that comes after the end brings nothing back.           *)
WindowFollowsCore ==
  link = "up" /\ ~gaveUp /\ frames = <<>> /\ pending = NoPending =>
    /\ \A id \in OperationIds :
         /\ operationId = id <=> InCore(id)
         /\ InCore(id) => (running <=> game[id] = "playing")
    /\ operationId = NoOp => ~running

(* The window never waits for ever: busy ends even if the core is silent.  *)
BusyEnds == busy ~> ~busy

(* A window that has lost the core tells the user to restart the launcher, *)
(* and lets itself be closed.                                              *)
LostCoreReleasesWindow == link = "lost" => ~Engaged

(* A launch that the user cancels before it has begun starts no game.      *)
CancelBeforeLaunchHolds ==
  regretted => \A id \in OperationIds : game[id] # "playing"
=============================================================================
