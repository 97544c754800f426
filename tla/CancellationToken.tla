------------------------- MODULE CancellationToken -------------------------
(***************************************************************************)
(* DownloadCancellationToken (downloads/worker.rs): an atomic flag and a   *)
(* tokio Notify, on which every await of a download races.                 *)
(*                                                                         *)
(* notify_waiters wakes exactly the futures that exist when it is called,  *)
(* polled or not (external: tokio's Notify keeps a count of the calls, and *)
(* a future compares it with the count at its creation).  The flag is set  *)
(* before that call, in a step of its own, so a waiter must look at the    *)
(* flag again after it has created its future.                             *)
(***************************************************************************)
EXTENDS Naturals

CONSTANTS Waiters, Cancellers

VARIABLES
  cancelled,  (* CancellationInner::cancelled                        *)
  notified,   (* calls of Notify::notify_waiters                     *)
  created,    (* waiter -> value of notified when its future was made*)
  waiter,     (* waiter -> where it is in cancelled()                *)
  canceller   (* canceller -> where it is in cancel()                *)

tokenVars == <<cancelled, notified, created, waiter, canceller>>

TokenInit ==
  /\ cancelled = FALSE
  /\ notified = 0
  /\ created = [w \in Waiters |-> 0]
  /\ waiter = [w \in Waiters |-> "idle"]
  /\ canceller = [c \in Cancellers |-> "idle"]

(* cancel(): the swap; only the caller that finds the flag down notifies.  *)
SetFlag(c) ==
  /\ canceller[c] = "idle"
  /\ canceller' = [canceller EXCEPT ![c] = IF cancelled THEN "done" ELSE "notifying"]
  /\ cancelled' = TRUE
  /\ UNCHANGED <<notified, created, waiter>>

NotifyWaiters(c) ==
  /\ canceller[c] = "notifying"
  /\ notified' = notified + 1
  /\ canceller' = [canceller EXCEPT ![c] = "done"]
  /\ UNCHANGED <<cancelled, created, waiter>>

MoveWaiter(w, phase) == waiter' = [waiter EXCEPT ![w] = phase]

(* A request, a chunk or a delay begins to race against the token.         *)
Enter(w) ==
  /\ waiter[w] = "idle"
  /\ MoveWaiter(w, "checking")
  /\ UNCHANGED <<cancelled, notified, created, canceller>>

FirstCheck(w) ==
  /\ waiter[w] = "checking"
  /\ MoveWaiter(w, IF cancelled THEN "returned" ELSE "creating")
  /\ UNCHANGED <<cancelled, notified, created, canceller>>

(* Fault: the flag is not looked at again after the future was made.       *)
CreateAndAwait(w) ==
  /\ waiter[w] = "creating"
  /\ created' = [created EXCEPT ![w] = notified]
  /\ MoveWaiter(w, "awaiting")
  /\ UNCHANGED <<cancelled, notified, canceller>>

CreateFuture(w) ==
  /\ waiter[w] = "creating"
  /\ created' = [created EXCEPT ![w] = notified]
  /\ MoveWaiter(w, "rechecking")
  /\ UNCHANGED <<cancelled, notified, canceller>>

SecondCheck(w) ==
  /\ waiter[w] = "rechecking"
  /\ MoveWaiter(w, IF cancelled THEN "returned" ELSE "awaiting")
  /\ UNCHANGED <<cancelled, notified, created, canceller>>

Woken(w) ==
  /\ waiter[w] = "awaiting"
  /\ notified # created[w]
  /\ MoveWaiter(w, "checking")
  /\ UNCHANGED <<cancelled, notified, created, canceller>>

(* The operation it raced against wins and the future is dropped.          *)
Leave(w) ==
  /\ waiter[w] = "awaiting"
  /\ MoveWaiter(w, "idle")
  /\ UNCHANGED <<cancelled, notified, created, canceller>>

WaiterStep(w) == FirstCheck(w) \/ CreateFuture(w) \/ SecondCheck(w) \/ Woken(w)

TokenNext ==
  \/ \E c \in Cancellers : SetFlag(c) \/ NotifyWaiters(c)
  \/ \E w \in Waiters : Enter(w) \/ WaiterStep(w) \/ Leave(w)

(* The runtime polls what is ready; nothing obliges anybody to cancel, to  *)
(* wait, or an awaited operation to end.                                   *)
TokenSpec ==
  /\ TokenInit /\ [][TokenNext]_tokenVars
  /\ \A c \in Cancellers : WF_tokenVars(NotifyWaiters(c))
  /\ \A w \in Waiters : WF_tokenVars(WaiterStep(w))

-----------------------------------------------------------------------------
(* A waiter sleeps through a fired token only while its wake-up is on the  *)
(* way: the future it sleeps on will be, or has been, notified.            *)
SleepersWillWake ==
  \A w \in Waiters :
    waiter[w] = "awaiting" /\ cancelled =>
      \/ notified # created[w]
      \/ \E c \in Cancellers : canceller[c] = "notifying"
=============================================================================
