------------------------ MODULE LaunchWorkflowProofs ------------------------
(***************************************************************************)
(* Proofs about LaunchWorkflow, for any numbers of requests, operations,   *)
(* versions and profiles.                                                  *)
(*                                                                         *)
(* The argument: every live operation has exactly one owner, its task or   *)
(* the task that waits for its game; only an owner ends it, and a game     *)
(* runs only under one.  A request is admitted when nothing is live, and   *)
(* nothing becomes live but by the request that holds the guard.  How a    *)
(* launch ends is decided where its owner gives it up: a flag that a call  *)
(* of stop has raised is still up when the exit is judged, and only then   *)
(* is the last event sent.  Last, all this is ExclusiveUse to anybody who  *)
(* sees the requests and the games alone.                                  *)
(***************************************************************************)
EXTENDS LaunchWorkflow, TLAPS

-----------------------------------------------------------------------------
(* First the registry by itself: what its operations do to records,        *)
(* tokens, slots and the history, whoever calls them.                      *)

(* What one more finished operation makes of the history: its entries are  *)
(* those of the longer order, without the first one if that is too many.   *)
LEMMA TrimmedHistory ==
  ASSUME NEW old \in Seq(OperationIds), NEW x \in OperationIds,
         Len(old) <= MaxTerminalOperations
  PROVE  LET order == Append(old, x)
             new == Trimmed(order)
         IN  /\ order \in Seq(OperationIds) /\ new \in Seq(OperationIds)
             /\ Len(order) = Len(old) + 1
             /\ Head(order) = order[1]
             /\ \A i \in 1..Len(old) : order[i] = old[i]
             /\ order[Len(order)] = x
             /\ Len(new) <= MaxTerminalOperations
             /\ IF Evicts(order)
                THEN /\ Len(new) = Len(old)
                     /\ \A i \in 1..Len(new) : new[i] = order[i + 1]
                ELSE new = order
<1> DEFINE order == Append(old, x)
           new == Trimmed(order)
<1>1. /\ order \in Seq(OperationIds)
      /\ Len(order) = Len(old) + 1
      /\ \A i \in 1..Len(old) : order[i] = old[i]
      /\ order[Len(order)] = x
  OBVIOUS
<1>2. order # <<>>
  BY <1>1
<1>3. Head(order) = order[1]
  BY <1>1
<1>4. /\ Tail(order) \in Seq(OperationIds)
      /\ Len(Tail(order)) = Len(old)
      /\ \A i \in 1..Len(Tail(order)) : Tail(order)[i] = order[i + 1]
  BY <1>1, <1>2
<1>5. CASE Evicts(order)
  <2>1. new = Tail(order)
    BY <1>5 DEF Trimmed
  <2> QED
    BY <1>1, <1>3, <1>4, <1>5, <2>1
<1>6. CASE ~Evicts(order)
  <2>1. new = order
    BY <1>6 DEF Trimmed
  <2>2. Len(order) <= MaxTerminalOperations
    BY <1>1, <1>6, MaxTerminalAssumption DEF Evicts
  <2> QED
    BY <1>1, <1>3, <1>6, <2>1, <2>2
<1> QED
  BY <1>5, <1>6

(* A record is never mistaken for a missing one.                           *)
LEMMA RecordIsPresent == NoRecord \notin Record
BY DEF NoRecord, Record, OperationState, Terminal

(* A new record is one, of a live operation.                               *)
LEMMA FreshIsLive ==
  ASSUME NEW subject \in Versions \cup Profiles
  PROVE  /\ Fresh(subject) \in Record
         /\ Fresh(subject) # NoRecord
         /\ Fresh(subject).subject = subject
         /\ Fresh(subject).state \notin Terminal
<1>1. Fresh(subject) \in Record
  BY DEF Fresh, Record, OperationState
<1> QED
  BY <1>1, RecordIsPresent DEF Fresh, Terminal

LEMMA InitEstablishes == RegistryInit => RegistryInv
<1> SUFFICES ASSUME RegistryInit PROVE RegistryInv
  OBVIOUS
<1>1. RegistryTypeOK
  BY DEF RegistryInit, RegistryTypeOK
<1>2. \A id \in OperationIds : ~Live(id)
  BY DEF RegistryInit, Live, Present
<1>3. SlotsMatchRecords
  BY <1>2 DEF RegistryInit, SlotsMatchRecords, WorkflowExcludesInstallations,
              ActiveIsLive, LiveIsActive
<1>4. TerminalHistory
  BY MaxTerminalAssumption DEF RegistryInit, TerminalHistory
<1>5. TokenMatchesState
  BY <1>2 DEF TokenMatchesState
<1> QED
  BY <1>1, <1>3, <1>4, <1>5 DEF RegistryInv

(* A new operation enters the map and takes its slot: versions and         *)
(* profiles are distinct, so it takes no other one.                        *)
LEMMA BeginPreserves ==
  ASSUME RegistryInv, NEW id \in OperationIds, NEW v \in Versions, Begin(id, v)
  PROVE  RegistryInv'
<1> USE NoOpAssumption, SubjectAssumption
<1>1. Fresh(v) \in Record /\ Fresh(v) # NoRecord
  BY FreshIsLive
<1>2. RegistryTypeOK'
  BY <1>1 DEF RegistryInv, RegistryTypeOK, Begin
<1>3. /\ operations'[id] = Fresh(v) /\ Live(id)' /\ ~IsWorkflow(id)'
      /\ \A x \in OperationIds \ {id} : operations'[x] = operations[x]
  BY <1>1 DEF RegistryInv, RegistryTypeOK, Begin, Live, Present, IsWorkflow,
              Fresh, Terminal
<1>4. /\ activeWorkflow' = NoOp /\ activeVersions'[v] = id
      /\ \A w \in Versions \ {v} : activeVersions'[w] = activeVersions[w]
  BY DEF RegistryInv, RegistryTypeOK, Begin
<1>5. SlotsMatchRecords'
  <2>1. WorkflowExcludesInstallations'
    BY <1>4 DEF WorkflowExcludesInstallations
  <2>2. ActiveIsLive'
    <3>1. ASSUME NEW w \in Versions, activeVersions'[w] # NoOp
          PROVE  Live(activeVersions[w])' /\ operations'[activeVersions'[w]].subject = w
      <4>1. CASE w = v
        BY <1>3, <1>4, <4>1 DEF Fresh
      <4>2. CASE w # v
        <5>1. /\ activeVersions'[w] = activeVersions[w]
              /\ Live(activeVersions[w])
              /\ operations[activeVersions[w]].subject = w
          BY <1>4, <3>1, <4>2
             DEF RegistryInv, SlotsMatchRecords, ActiveIsLive
        <5>2. activeVersions[w] \in OperationIds \ {id}
          BY <3>1, <5>1 DEF RegistryInv, RegistryTypeOK, Begin, Live, Present
        <5> QED
          BY <1>3, <5>1, <5>2 DEF Live, Present
      <4> QED
        BY <4>1, <4>2
    <3> QED
      BY <1>4, <3>1 DEF ActiveIsLive
  <2>3. LiveIsActive'
    <3>1. ASSUME NEW x \in OperationIds \ {id}, Live(x)'
          PROVE  ~IsWorkflow(x)' /\ activeVersions'[operations'[x].subject] = x
      <4>1. Live(x) /\ operations'[x] = operations[x]
        BY <1>3, <3>1 DEF Live, Present
      <4>2. /\ ~IsWorkflow(x)
            /\ activeVersions[operations[x].subject] = x
            /\ operations[x].subject \in Versions
        BY <4>1, NoOpAssumption DEF RegistryInv, RegistryTypeOK,
           SlotsMatchRecords, LiveIsActive, Begin, IsWorkflow, Live, Present,
           Record
      <4>3. operations[x].subject # v
        BY <4>2 DEF Begin
      <4> QED
        BY <1>4, <4>1, <4>2, <4>3 DEF IsWorkflow
    <3>2. operations'[id].subject = v
      BY <1>3 DEF Fresh
    <3> QED
      BY <1>3, <1>4, <3>1, <3>2 DEF LiveIsActive
  <2> QED
    BY <2>1, <2>2, <2>3 DEF SlotsMatchRecords
<1>6. TerminalHistory'
  <2>1. ~Present(id) /\ terminalOrder' = terminalOrder
    BY DEF Begin
  <2>2. \A i \in 1..Len(terminalOrder) : terminalOrder[i] \in OperationIds \ {id}
    BY <2>1 DEF RegistryInv, RegistryTypeOK, TerminalHistory
  <2> QED
    BY <1>3, <2>1, <2>2 DEF RegistryInv, TerminalHistory, Live, Present
<1>7. TokenMatchesState'
  <2>1. /\ cancelled'[id] = FALSE
        /\ \A x \in OperationIds \ {id} : cancelled'[x] = cancelled[x]
    BY DEF RegistryInv, RegistryTypeOK, Begin
  <2>2. operations'[id].state = "running" /\ operations'[id].spawned = FALSE
    BY <1>3 DEF Fresh
  <2> QED
    BY <1>3, <2>1, <2>2 DEF RegistryInv, TokenMatchesState, Live, Present
<1> QED
  BY <1>2, <1>5, <1>6, <1>7 DEF RegistryInv

(* A new workflow finds both maps empty.                                   *)
LEMMA BeginLaunchPreserves ==
  ASSUME RegistryInv, NEW id \in OperationIds, NEW p \in Profiles,
         BeginLaunch(id, p)
  PROVE  RegistryInv'
<1> USE NoOpAssumption, SubjectAssumption
<1>1. Fresh(p) \in Record /\ Fresh(p) # NoRecord
  BY FreshIsLive
<1>2. RegistryTypeOK'
  BY <1>1 DEF RegistryInv, RegistryTypeOK, BeginLaunch
<1>3. /\ operations'[id] = Fresh(p) /\ Live(id)' /\ IsWorkflow(id)'
      /\ \A x \in OperationIds \ {id} : operations'[x] = operations[x]
  BY <1>1 DEF RegistryInv, RegistryTypeOK, BeginLaunch, Live, Present,
              IsWorkflow, Fresh, Terminal
<1>4. /\ activeWorkflow' = id
      /\ \A v \in Versions : activeVersions'[v] = NoOp
  BY DEF BeginLaunch, HasActive
<1>5. \A x \in OperationIds \ {id} : ~Live(x)'
  <2>1. \A x \in OperationIds : ~Live(x)
    BY DEF RegistryInv, RegistryTypeOK, SlotsMatchRecords, LiveIsActive,
           BeginLaunch, HasActive, Live, Present, IsWorkflow, Record
  <2> QED
    BY <1>3, <2>1 DEF Live, Present
<1>6. SlotsMatchRecords'
  BY <1>3, <1>4, <1>5 DEF SlotsMatchRecords, WorkflowExcludesInstallations,
                          ActiveIsLive, LiveIsActive
<1>7. TerminalHistory'
  <2>1. ~Present(id) /\ terminalOrder' = terminalOrder
    BY DEF BeginLaunch
  <2>2. \A i \in 1..Len(terminalOrder) : terminalOrder[i] \in OperationIds \ {id}
    BY <2>1 DEF RegistryInv, RegistryTypeOK, TerminalHistory
  <2> QED
    BY <1>3, <2>1, <2>2 DEF RegistryInv, TerminalHistory, Live, Present
<1>8. TokenMatchesState'
  <2>1. cancelled'[id] = FALSE
    BY DEF RegistryInv, RegistryTypeOK, BeginLaunch
  <2>2. operations'[id].state = "running" /\ operations'[id].spawned = FALSE
    BY <1>3 DEF Fresh
  <2> QED
    BY <1>5, <2>1, <2>2 DEF TokenMatchesState
<1> QED
  BY <1>2, <1>6, <1>7, <1>8 DEF RegistryInv

(* A change of a live record that keeps it live and keeps its subject      *)
(* disturbs neither the slots nor the history.                             *)
LEMMA LiveUpdate ==
  ASSUME RegistryInv, NEW id \in OperationIds, Live(id),
         RegistryTypeOK', Live(id)',
         operations'[id].subject = operations[id].subject,
         \A x \in OperationIds \ {id} : operations'[x] = operations[x],
         UNCHANGED <<activeVersions, activeWorkflow, terminalOrder>>
  PROVE  SlotsMatchRecords' /\ TerminalHistory'
<1>1. \A x \in OperationIds :
        /\ Live(x)' <=> Live(x)
        /\ Present(x)' <=> Present(x)
        /\ IsWorkflow(x)' <=> IsWorkflow(x)
        /\ operations'[x].subject = operations[x].subject
  BY DEF Live, Present, IsWorkflow
<1>2. SlotsMatchRecords'
  BY <1>1 DEF RegistryInv, RegistryTypeOK, SlotsMatchRecords,
              WorkflowExcludesInstallations, ActiveIsLive, LiveIsActive, IsWorkflow
<1>3. \A i \in 1..Len(terminalOrder) : terminalOrder[i] \in OperationIds
  BY DEF RegistryInv, RegistryTypeOK
<1>4. TerminalHistory'
  BY <1>1, <1>3 DEF RegistryInv, TerminalHistory
<1> QED
  BY <1>2, <1>4

LEMMA CancelPreserves ==
  ASSUME RegistryInv, NEW id \in OperationIds, Cancel(id)
  PROVE  RegistryInv'
<1>1. operations[id] \in Record
  BY DEF RegistryInv, RegistryTypeOK, Cancel, Live, Present
<1>2. /\ operations'[id] = [operations[id] EXCEPT !.state = "cancelling"]
      /\ \A x \in OperationIds \ {id} : operations'[x] = operations[x]
  BY DEF RegistryInv, RegistryTypeOK, Cancel
<1>3. /\ operations'[id] \in Record
      /\ operations'[id].state = "cancelling"
      /\ operations'[id].subject = operations[id].subject
      /\ operations'[id].spawned = operations[id].spawned
  BY <1>1, <1>2 DEF Record, OperationState
<1>4. RegistryTypeOK'
  BY <1>2, <1>3 DEF RegistryInv, RegistryTypeOK, Cancel
<1>5. Live(id)'
  BY <1>3, RecordIsPresent DEF Live, Present, Terminal
<1>6. SlotsMatchRecords' /\ TerminalHistory'
  BY <1>2, <1>3, <1>4, <1>5, LiveUpdate DEF Cancel
<1>7. TokenMatchesState'
  <2>1. /\ cancelled'[id] = TRUE
        /\ \A x \in OperationIds \ {id} : cancelled'[x] = cancelled[x]
    BY DEF RegistryInv, RegistryTypeOK, Cancel
  <2>2. ~operations'[id].spawned
    BY <1>3 DEF Cancel
  <2> QED
    BY <1>2, <1>3, <2>1, <2>2 DEF RegistryInv, TokenMatchesState, Live, Present
<1> QED
  BY <1>4, <1>6, <1>7 DEF RegistryInv

LEMMA MarkSpawnedPreserves ==
  ASSUME RegistryInv, NEW id \in OperationIds, Live(id), MarkSpawned(id)
  PROVE  RegistryInv'
<1>1. operations[id] \in Record
  BY DEF RegistryInv, RegistryTypeOK, Live, Present
<1>2. /\ operations'[id] = [operations[id] EXCEPT !.spawned = TRUE, !.state = "running"]
      /\ \A x \in OperationIds \ {id} : operations'[x] = operations[x]
  BY DEF RegistryInv, RegistryTypeOK, MarkSpawned
<1>3. /\ operations'[id] \in Record
      /\ operations'[id].state = "running"
      /\ operations'[id].subject = operations[id].subject
  BY <1>1, <1>2 DEF Record, OperationState
<1>4. RegistryTypeOK'
  BY <1>2, <1>3 DEF RegistryInv, RegistryTypeOK, MarkSpawned
<1>5. Live(id)'
  BY <1>3, RecordIsPresent DEF Live, Present, Terminal
<1>6. SlotsMatchRecords' /\ TerminalHistory'
  BY <1>2, <1>3, <1>4, <1>5, LiveUpdate DEF MarkSpawned
<1>7. TokenMatchesState'
  <2>1. cancelled' = cancelled /\ cancelled[id] = FALSE
    BY DEF RegistryInv, RegistryTypeOK, MarkSpawned, SpawnAllowed
  <2> QED
    BY <1>2, <1>3, <2>1 DEF RegistryInv, TokenMatchesState, Live, Present
<1> QED
  BY <1>4, <1>6, <1>7 DEF RegistryInv

(* Finishing frees the slots of the operation and of no other, and the     *)
(* record it may evict is not a live one.                                  *)
LEMMA FinishPreserves ==
  ASSUME RegistryInv, NEW id \in OperationIds, NEW state \in Terminal,
         Finish(id, state)
  PROVE  RegistryInv'
<1> USE NoOpAssumption, SubjectAssumption
<1> DEFINE order == Append(terminalOrder, id)
           gone == IF Evicts(order) THEN {Head(order)} ELSE {}
<1>1. /\ RegistryTypeOK /\ SlotsMatchRecords /\ TerminalHistory
      /\ Live(id) /\ operations[id] \in Record
  BY DEF RegistryInv, RegistryTypeOK, Finish, Live, Present
<1>2. /\ terminalOrder \in Seq(OperationIds)
      /\ Len(terminalOrder) <= MaxTerminalOperations
      /\ Len(terminalOrder) \in Nat
  BY <1>1 DEF RegistryTypeOK, TerminalHistory
<1>3. /\ order \in Seq(OperationIds) /\ Trimmed(order) \in Seq(OperationIds)
      /\ Len(order) = Len(terminalOrder) + 1
      /\ Head(order) = order[1]
      /\ \A i \in 1..Len(terminalOrder) : order[i] = terminalOrder[i]
      /\ order[Len(order)] = id
      /\ Len(Trimmed(order)) <= MaxTerminalOperations
      /\ IF Evicts(order)
         THEN /\ Len(Trimmed(order)) = Len(terminalOrder)
              /\ \A i \in 1..Len(Trimmed(order)) : Trimmed(order)[i] = order[i + 1]
         ELSE Trimmed(order) = order
  <2> HIDE DEF order
  <2>1. order = Append(terminalOrder, id)
    BY DEF order
  <2> QED
    BY <1>2, <2>1, TrimmedHistory
<1>4. \A i \in 1..Len(order) :
        /\ order[i] \in OperationIds
        /\ order[i] # id => Present(order[i]) /\ ~Live(order[i])
        /\ order[i] = id => i = Len(order)
  <2> SUFFICES ASSUME NEW i \in 1..Len(order)
               PROVE  /\ order[i] \in OperationIds
                      /\ order[i] # id => Present(order[i]) /\ ~Live(order[i])
                      /\ order[i] = id => i = Len(order)
    OBVIOUS
  <2>1. CASE i = Len(order)
    BY <1>3, <2>1
  <2>2. CASE i # Len(order)
    <3>1. i \in 1..Len(terminalOrder)
      BY <1>2, <1>3, <2>2
    <3>2. order[i] = terminalOrder[i]
      BY <1>3, <3>1
    <3>3. Present(terminalOrder[i]) /\ ~Live(terminalOrder[i])
      BY <1>1, <3>1 DEF TerminalHistory
    <3>4. terminalOrder[i] # id
      BY <1>1, <3>3
    <3>5. terminalOrder[i] \in OperationIds
      BY <1>2, <3>1
    <3> QED
      BY <3>2, <3>3, <3>4, <3>5
  <2> QED
    BY <2>1, <2>2
<1>5. \A i, j \in 1..Len(order) : order[i] = order[j] => i = j
  <2> SUFFICES ASSUME NEW i \in 1..Len(order), NEW j \in 1..Len(order),
                      order[i] = order[j]
               PROVE  i = j
    OBVIOUS
  <2>1. CASE order[i] = id
    BY <1>4, <2>1
  <2>2. CASE order[i] # id
    <3>1. i # Len(order) /\ j # Len(order)
      BY <1>3, <2>2
    <3>2. i \in 1..Len(terminalOrder) /\ j \in 1..Len(terminalOrder)
      BY <1>2, <1>3, <3>1
    <3>3. terminalOrder[i] = terminalOrder[j]
      BY <1>3, <3>2
    <3> QED
      BY <1>1, <3>2, <3>3 DEF TerminalHistory
  <2> QED
    BY <2>1, <2>2
<1>6. gone \subseteq OperationIds /\ \A x \in gone : x = id \/ ~Live(x)
  <2>1. 1 \in 1..Len(order)
    BY <1>2, <1>3
  <2> QED
    BY <1>3, <1>4, <2>1
<1>7. /\ \A x \in gone : operations'[x] = NoRecord
      /\ \A x \in OperationIds \ (gone \cup {id}) : operations'[x] = operations[x]
      /\ id \notin gone => operations'[id] = [operations[id] EXCEPT !.state = state]
  BY <1>1, <1>6 DEF RegistryTypeOK, Finish
<1>8. [operations[id] EXCEPT !.state = state] \in Record
  BY <1>1 DEF Record, OperationState
<1>9. [operations[id] EXCEPT !.state = state].state = state
  BY <1>1 DEF Record
<1>10. RegistryTypeOK'
  <2>1. operations' \in [OperationIds -> Record \cup {NoRecord}]
    <3>1. \A x \in OperationIds : operations'[x] \in Record \cup {NoRecord}
      BY <1>1, <1>7, <1>8 DEF RegistryTypeOK
    <3>2. operations' = [x \in OperationIds |-> operations'[x]]
      BY <1>1 DEF RegistryTypeOK, Finish
    <3> QED
      BY <3>1, <3>2
  <2>2. /\ activeVersions' \in [Versions -> OperationIds \cup {NoOp}]
        /\ activeWorkflow' \in OperationIds \cup {NoOp}
        /\ cancelled' \in [OperationIds -> BOOLEAN]
    BY <1>1 DEF RegistryTypeOK, Finish
  <2>3. terminalOrder' \in Seq(OperationIds)
    BY <1>3 DEF Finish
  <2> QED
    BY <2>1, <2>2, <2>3 DEF RegistryTypeOK
<1>11. ~Live(id)'
  BY <1>7, <1>9 DEF Live, Present
<1>12. \A x \in OperationIds \ {id} :
         /\ Live(x)' <=> Live(x)
         /\ Live(x) => operations'[x] = operations[x]
  BY <1>6, <1>7 DEF Live, Present
<1>13. /\ \A v \in Versions : activeVersions'[v] =
             IF operations[id].subject = v THEN NoOp ELSE activeVersions[v]
       /\ activeWorkflow' =
             IF IsWorkflow(id) /\ activeWorkflow = id THEN NoOp ELSE activeWorkflow
  BY DEF Finish
<1>14. SlotsMatchRecords'
  <2>1. WorkflowExcludesInstallations'
    BY <1>1, <1>13 DEF SlotsMatchRecords, WorkflowExcludesInstallations
  <2>2. ActiveIsLive'
    <3>1. ASSUME activeWorkflow' # NoOp
          PROVE  Live(activeWorkflow)' /\ IsWorkflow(activeWorkflow)'
      <4>1. /\ activeWorkflow' = activeWorkflow /\ activeWorkflow # NoOp
            /\ Live(activeWorkflow) /\ IsWorkflow(activeWorkflow)
            /\ activeWorkflow \in OperationIds \ {id}
        BY <1>1, <1>13, <3>1 DEF RegistryTypeOK, SlotsMatchRecords, ActiveIsLive
      <4> QED
        BY <1>12, <4>1 DEF Live, Present, IsWorkflow
    <3>2. ASSUME NEW v \in Versions, activeVersions'[v] # NoOp
          PROVE  Live(activeVersions[v])' /\ operations'[activeVersions'[v]].subject = v
      <4>1. /\ activeVersions'[v] = activeVersions[v] /\ activeVersions[v] # NoOp
            /\ operations[id].subject # v
        BY <1>13, <3>2
      <4>2. /\ Live(activeVersions[v])
            /\ operations[activeVersions[v]].subject = v
            /\ activeVersions[v] \in OperationIds \ {id}
        BY <1>1, <4>1 DEF RegistryTypeOK, SlotsMatchRecords, ActiveIsLive
      <4> QED
        BY <1>12, <4>1, <4>2 DEF Live, Present
    <3> QED
      BY <3>1, <3>2 DEF ActiveIsLive
  <2>3. LiveIsActive'
    <3>1. ASSUME NEW x \in OperationIds, Live(x)'
          PROVE  IF IsWorkflow(x)' THEN activeWorkflow' = x
                 ELSE activeVersions'[operations'[x].subject] = x
      <4>1. /\ x # id /\ Live(x) /\ operations'[x] = operations[x]
            /\ operations[x] \in Record
        BY <1>1, <1>11, <1>12, <3>1 DEF RegistryTypeOK, Live, Present
      <4>2. CASE IsWorkflow(x)
        <5>1. activeWorkflow = x
          BY <1>1, <4>1, <4>2 DEF SlotsMatchRecords, LiveIsActive
        <5> QED
          BY <1>13, <4>1, <4>2, <5>1 DEF IsWorkflow
      <4>3. CASE ~IsWorkflow(x)
        <5>1. /\ operations[x].subject \in Versions
              /\ activeVersions[operations[x].subject] = x
          BY <1>1, <4>1, <4>3 DEF SlotsMatchRecords, LiveIsActive, IsWorkflow, Record
        <5>2. operations[id].subject # operations[x].subject
          BY <1>1, <4>1, <5>1 DEF SlotsMatchRecords, LiveIsActive, IsWorkflow
        <5> QED
          BY <1>13, <4>1, <4>3, <5>1, <5>2 DEF IsWorkflow
      <4> QED
        BY <4>2, <4>3
    <3> QED
      BY <3>1 DEF LiveIsActive
  <2> QED
    BY <2>1, <2>2, <2>3 DEF SlotsMatchRecords
<1>15. TerminalHistory'
  <2>1. terminalOrder' = Trimmed(order)
    BY DEF Finish
  <2>2. ASSUME NEW x \in OperationIds \ gone, x # id => Present(x) /\ ~Live(x)
        PROVE  Present(x)' /\ ~Live(x)'
    <3>1. CASE x = id
      BY <1>7, <1>8, <1>11, <3>1, RecordIsPresent DEF Present
    <3>2. CASE x # id
      BY <1>7, <1>12, <2>2, <3>2 DEF Present
    <3> QED
      BY <3>1, <3>2
  <2>3. CASE Evicts(order)
    <3>1. gone = {order[1]}
      BY <1>3, <2>3
    <3>2. /\ Len(terminalOrder') = Len(terminalOrder)
          /\ \A i \in 1..Len(terminalOrder') :
               terminalOrder'[i] = order[i + 1] /\ i + 1 \in 1..Len(order)
      BY <1>2, <1>3, <2>1, <2>3
    <3>3. \A i \in 1..Len(terminalOrder') : terminalOrder'[i] \notin gone
      BY <1>2, <1>3, <1>5, <3>1, <3>2
    <3>4. ASSUME NEW i \in 1..Len(terminalOrder')
          PROVE  Present(terminalOrder[i])' /\ ~Live(terminalOrder[i])'
      <4>1. /\ terminalOrder'[i] \in OperationIds \ gone
            /\ terminalOrder'[i] # id =>
                 Present(terminalOrder'[i]) /\ ~Live(terminalOrder'[i])
        BY <1>4, <3>2, <3>3
      <4>2. PICK x \in OperationIds \ gone :
              /\ x = terminalOrder'[i]
              /\ x # id => Present(x) /\ ~Live(x)
        BY <4>1
      <4>3. Present(x)' /\ ~Live(x)'
        BY <2>2, <4>2
      <4> QED
        BY <4>2, <4>3 DEF Present, Live
    <3>5. \A i, j \in 1..Len(terminalOrder') :
            terminalOrder'[i] = terminalOrder'[j] => i = j
      BY <1>2, <1>5, <3>2
    <3> QED
      BY <1>3, <2>1, <3>4, <3>5 DEF TerminalHistory
  <2>4. CASE ~Evicts(order)
    <3>1. terminalOrder' = order /\ gone = {}
      BY <1>3, <2>1, <2>4
    <3>2. ASSUME NEW i \in 1..Len(terminalOrder')
          PROVE  Present(terminalOrder[i])' /\ ~Live(terminalOrder[i])'
      <4>1. PICK x \in OperationIds \ gone :
              /\ x = terminalOrder'[i]
              /\ x # id => Present(x) /\ ~Live(x)
        BY <1>4, <3>1
      <4>2. Present(x)' /\ ~Live(x)'
        BY <2>2, <4>1
      <4> QED
        BY <4>1, <4>2 DEF Present, Live
    <3> QED
      BY <1>3, <1>5, <2>1, <3>1, <3>2 DEF TerminalHistory
  <2> QED
    BY <2>3, <2>4
<1>16. TokenMatchesState'
  BY <1>11, <1>12 DEF RegistryInv, TokenMatchesState, Finish
<1> QED
  BY <1>10, <1>14, <1>15, <1>16 DEF RegistryInv

LEMMA StutterPreserves ==
  ASSUME RegistryInv, UNCHANGED registryVars
  PROVE  RegistryInv'
BY DEF RegistryInv, RegistryTypeOK, SlotsMatchRecords,
       WorkflowExcludesInstallations, ActiveIsLive, LiveIsActive,
       TerminalHistory, TokenMatchesState, Live, Present, IsWorkflow, registryVars

LEMMA StepPreserves ==
  ASSUME RegistryInv, [RegistryNext]_registryVars
  PROVE  RegistryInv'
<1>1. CASE RegistryNext
  <2>1. PICK id \in OperationIds :
          \/ \E v \in Versions : Begin(id, v)
          \/ \E p \in Profiles : BeginLaunch(id, p)
          \/ Cancel(id)
          \/ Live(id) /\ MarkSpawned(id)
          \/ \E state \in Terminal : Finish(id, state)
    BY <1>1 DEF RegistryNext
  <2>2. CASE \E v \in Versions : Begin(id, v)
    BY <2>2, BeginPreserves
  <2>3. CASE \E p \in Profiles : BeginLaunch(id, p)
    BY <2>3, BeginLaunchPreserves
  <2>4. CASE Cancel(id)
    BY <2>4, CancelPreserves
  <2>5. CASE Live(id) /\ MarkSpawned(id)
    BY <2>5, MarkSpawnedPreserves
  <2>6. CASE \E state \in Terminal : Finish(id, state)
    BY <2>6, FinishPreserves
  <2> QED
    BY <2>1, <2>2, <2>3, <2>4, <2>5, <2>6
<1>2. CASE UNCHANGED registryVars
  BY <1>2, StutterPreserves
<1> QED
  BY <1>1, <1>2

(* The registry keeps its invariant, whatever its clients do: installer/   *)
(* mod.rs, begin, begin_launch, cancel, mark_spawned and finish.           *)
THEOREM RegistryIsConsistent == RegistrySpec => []RegistryInv
<1>1. RegistryInit => RegistryInv
  BY InitEstablishes
<1>2. RegistryInv /\ [RegistryNext]_registryVars => RegistryInv'
  BY StepPreserves
<1> QED
  BY <1>1, <1>2, PTL DEF RegistrySpec

(* Every variable keeps its type.                                          *)
THEOREM RegistryTypes == RegistrySpec => []RegistryTypeOK
<1>1. RegistryInv => RegistryTypeOK
  BY DEF RegistryInv
<1> QED
  BY <1>1, RegistryIsConsistent, PTL

(* has_active, the slots and the records agree, and a launch excludes      *)
(* installations, for any number of operations.                            *)
THEOREM SlotsAlwaysMatch == RegistrySpec => []SlotsMatchRecords
<1>1. RegistryInv => SlotsMatchRecords
  BY DEF RegistryInv
<1> QED
  BY <1>1, RegistryIsConsistent, PTL

(* The history stays within its bound, which may be any number, and finish *)
(* never evicts an operation that is live.                                 *)
THEOREM HistoryIsTerminal == RegistrySpec => []TerminalHistory
<1>1. RegistryInv => TerminalHistory
  BY DEF RegistryInv
<1> QED
  BY <1>1, RegistryIsConsistent, PTL

(* A live operation's token has fired exactly if the user sees it          *)
(* cancelling, and never once its game has started.                        *)
THEOREM TokensMatch == RegistrySpec => []TokenMatchesState
<1>1. RegistryInv => TokenMatchesState
  BY DEF RegistryInv
<1> QED
  BY <1>1, RegistryIsConsistent, PTL

(* No step rewrites the verdict of an operation that has ended.            *)
LEMMA StepKeepsVerdicts ==
  ASSUME RegistryInv, [RegistryNext]_registryVars,
         NEW id \in OperationIds, Present(id), ~Live(id)
  PROVE  operations'[id] \in {operations[id], NoRecord}
<1>1. CASE UNCHANGED registryVars
  BY <1>1 DEF registryVars
<1>2. ASSUME NEW x \in OperationIds,
             \/ \E v \in Versions : Begin(x, v)
             \/ \E p \in Profiles : BeginLaunch(x, p)
             \/ Cancel(x)
             \/ Live(x) /\ MarkSpawned(x)
      PROVE  operations'[id] = operations[id]
  <2>1. x # id
    BY <1>2 DEF Begin, BeginLaunch, Cancel
  <2> QED
    BY <1>2, <2>1 DEF RegistryInv, RegistryTypeOK, Begin, BeginLaunch, Cancel,
                      MarkSpawned
<1>3. ASSUME NEW x \in OperationIds, NEW state \in Terminal, Finish(x, state)
      PROVE  operations'[id] \in {operations[id], NoRecord}
  <2>1. x # id
    BY <1>3 DEF Finish
  <2> QED
    BY <1>3, <2>1 DEF RegistryInv, RegistryTypeOK, Finish
<1> QED
  BY <1>1, <1>2, <1>3 DEF RegistryNext

(* The first verdict is final: whichever of the two tasks that may end a   *)
(* launch comes first decides.                                             *)
THEOREM VerdictsAreFinal == RegistrySpec => FirstVerdictIsFinal
<1>1. RegistryInv /\ [RegistryNext]_registryVars =>
        [\A id \in OperationIds :
           Present(id) /\ ~Live(id) =>
             operations'[id] \in {operations[id], NoRecord}]_registryVars
  BY StepKeepsVerdicts
<1> QED
  BY <1>1, RegistryIsConsistent, PTL DEF RegistrySpec, FirstVerdictIsFinal

-----------------------------------------------------------------------------
(* Then the workflow that calls it.                                        *)

OwnedByTask == {"authenticating", "resolvingMetadata", "resolvingJava",
  "verifying", "installing", "building", "boundary", "reserving", "starting",
  "spawned", "announcing", "terminating", "installingVersion", "closing"}
OwnedByWaiter == {"waiting", "judging", "clearing", "finishing"}

Owned(id) == task[id].at \in OwnedByTask \/ waiter[id].at \in OwnedByWaiter

(* Phases after the point of no return, and those that have had a process. *)
Played == {"spawned", "announcing", "handedOver"}
PastBoundary == {"reserving", "starting"} \cup Played

(* What relates the record, the task, the waiter and the process of one    *)
(* operation.                                                              *)
Ownership(id) ==
  /\ Live(id) <=> Owned(id)
  /\ waiter[id].at # "none" => task[id].at = "handedOver"
  /\ process[id] # "none" => task[id].at \in Played
  /\ process[id] = "running" =>
       task[id].at \in {"spawned", "announcing"} \/ waiter[id].at = "waiting"
  /\ task[id].at \in PastBoundary =>
       ~cancelled[id] /\ (Live(id) => operations[id].spawned)
  /\ task[id].at \in {"terminating", "closing"} => task[id].verdict \in Terminal

Shape ==
  /\ mutation \in Requests \cup {NoRequest}
  /\ request \in [Requests ->
       [kind : RequestKinds \cup {"none"},
        at : {"idle", "locked", "admitted", "checked", "answering"}]]
  /\ task \in [OperationIds -> [at : TaskAt, verdict : Verdicts]]
  /\ process \in [OperationIds -> ProcessStates]
  /\ waiter \in [OperationIds ->
       [at : WaiterAt, verdict : {"none", "exited", "error", "lost"}]]

(* Only the holder of the guard is past try_lock, and nothing is active    *)
(* while it is admitted.                                                   *)
GuardHeld == \A r \in Requests : request[r].at # "idle" => mutation = r
AdmittedAlone ==
  \A r \in Requests : request[r].at \in {"admitted", "checked"} => ~HasActive

WorkflowInv ==
  /\ RegistryInv
  /\ Shape
  /\ GuardHeld
  /\ AdmittedAlone
  /\ \A id \in OperationIds : Ownership(id)

-----------------------------------------------------------------------------
LEMMA StagesAre ==
  /\ Stages = {"authenticating", "resolvingMetadata", "resolvingJava",
               "verifying", "installing", "building"}
  /\ \A s \in Stages : Follows[s] \subseteq Stages \cup {"boundary"}
<1>1. Stages = {"authenticating", "resolvingMetadata", "resolvingJava",
                "verifying", "installing", "building"}
  BY DEF Stages, Follows
<1>2. \A s \in Stages : Follows[s] \subseteq Stages \cup {"boundary"}
  BY <1>1 DEF Follows
<1> QED
  BY <1>1, <1>2

(* An operation that a step leaves alone keeps its ownership, even if its  *)
(* record is evicted.                                                      *)
LEMMA OwnershipFrame ==
  ASSUME NEW x \in OperationIds, Ownership(x),
         Live(x)' <=> Live(x),
         Live(x) => operations'[x] = operations[x],
         cancelled'[x] = cancelled[x], task'[x] = task[x],
         waiter'[x] = waiter[x], process'[x] = process[x]
  PROVE  Ownership(x)'
BY DEF Ownership, Owned

(* What a step of one operation has to show when it leaves the registry    *)
(* and the requests alone.                                                 *)
LEMMA OwnerStep ==
  ASSUME WorkflowInv, UNCHANGED <<registryVars, requestVars>>,
         NEW id \in OperationIds,
         \A x \in OperationIds \ {id} :
           /\ task'[x] = task[x]
           /\ waiter'[x] = waiter[x]
           /\ process'[x] = process[x],
         Shape', Ownership(id)'
  PROVE  WorkflowInv'
<1>1. RegistryInv'
  BY StutterPreserves DEF WorkflowInv
<1>2. GuardHeld' /\ AdmittedAlone'
  BY DEF WorkflowInv, GuardHeld, AdmittedAlone, HasActive, requestVars, registryVars
<1>3. ASSUME NEW x \in OperationIds \ {id} PROVE Ownership(x)'
  BY OwnershipFrame DEF WorkflowInv, registryVars, Live, Present
<1> QED
  BY <1>1, <1>2, <1>3 DEF WorkflowInv

LEMMA WorkflowInitEstablishes == WorkflowInit => WorkflowInv
<1> SUFFICES ASSUME WorkflowInit PROVE WorkflowInv
  OBVIOUS
<1>1. RegistryInv
  BY InitEstablishes DEF WorkflowInit
<1>2. Shape
  BY DEF WorkflowInit, Shape, Idle, NoTask, NoWaiter, TaskAt, Verdicts,
         ProcessStates, WaiterAt
<1>3. GuardHeld /\ AdmittedAlone
  BY DEF WorkflowInit, GuardHeld, AdmittedAlone, Idle
<1>4. ASSUME NEW id \in OperationIds PROVE Ownership(id)
  <2>1. ~Live(id)
    BY DEF WorkflowInit, RegistryInit, Live, Present
  <2> QED
    BY <2>1 DEF WorkflowInit, Ownership, Owned, OwnedByTask, OwnedByWaiter,
                Played, PastBoundary, NoTask, NoWaiter
<1> QED
  BY <1>1, <1>2, <1>3, <1>4 DEF WorkflowInv

-----------------------------------------------------------------------------
(* Whoever is past try_lock is alone there.                                *)
LEMMA Alone ==
  ASSUME WorkflowInv, NEW r \in Requests,
         request[r].at # "idle" \/ mutation = NoRequest,
         NEW s \in Requests \ {r}
  PROVE  request[s].at = "idle"
BY RequestAssumption DEF WorkflowInv, GuardHeld

(* A request moves while it holds the guard, or takes it, or returns it.   *)
LEMMA RequestMove ==
  ASSUME WorkflowInv, NEW r \in Requests,
         request[r].at # "idle" \/ mutation = NoRequest,
         NEW kind \in RequestKinds \cup {"none"},
         NEW at \in {"idle", "locked", "admitted", "checked", "answering"},
         request' = [request EXCEPT ![r] = [kind |-> kind, at |-> at]],
         mutation' = r \/ (mutation' = NoRequest /\ at = "idle"),
         at \in {"admitted", "checked"} => ~HasActive',
         Shape => task' \in [OperationIds -> [at : TaskAt, verdict : Verdicts]],
         UNCHANGED <<process, waiter>>
  PROVE  Shape' /\ GuardHeld' /\ AdmittedAlone'
<1>1. Shape'
  BY DEF WorkflowInv, Shape
<1>2. request'[r] = [kind |-> kind, at |-> at]
  BY DEF WorkflowInv, Shape
<1>3. ASSUME NEW s \in Requests \ {r} PROVE request'[s].at = "idle"
  <2>1. request[s].at = "idle"
    BY Alone
  <2> QED
    BY <2>1 DEF WorkflowInv, Shape
<1>4. GuardHeld'
  BY <1>2, <1>3 DEF GuardHeld
<1>5. AdmittedAlone'
  BY <1>2, <1>3 DEF AdmittedAlone
<1> QED
  BY <1>1, <1>4, <1>5

LEMMA MovedRequest ==
  ASSUME Shape, NEW r \in Requests, NEW phase, MoveRequest(r, phase)
  PROVE  /\ request[r].kind \in RequestKinds \cup {"none"}
         /\ request' =
              [request EXCEPT ![r] = [kind |-> request[r].kind, at |-> phase]]
<1>1. request[r] \in [kind : RequestKinds \cup {"none"},
                      at : {"idle", "locked", "admitted", "checked", "answering"}]
  BY DEF Shape
<1>2. [request[r] EXCEPT !.at = phase] = [kind |-> request[r].kind, at |-> phase]
  BY <1>1
<1> QED
  BY <1>1, <1>2 DEF MoveRequest

LEMMA RequestOnlyPreserves ==
  ASSUME WorkflowInv, NEW r \in Requests,
         \/ \E kind \in RequestKinds : TryLock(r, kind)
         \/ RefuseBusy(r)
         \/ Admit(r)
         \/ EndMutation(r)
         \/ CheckGame(r)
         \/ SendAnswer(r)
  PROVE  WorkflowInv'
<1> DEFINE Moves(kind, at) ==
      /\ request[r].at # "idle" \/ mutation = NoRequest
      /\ request' = [request EXCEPT ![r] = [kind |-> kind, at |-> at]]
      /\ mutation' = r \/ (mutation' = NoRequest /\ at = "idle")
      /\ at \in {"admitted", "checked"} => ~HasActive'
      Phases == {"idle", "locked", "admitted", "checked", "answering"}
<1>1. UNCHANGED <<registryVars, task, process, waiter>>
  BY DEF TryLock, RefuseBusy, Admit, EndMutation, CheckGame, SendAnswer, gameVars
<1>2. RegistryInv' /\ (HasActive' <=> HasActive)
  BY <1>1, StutterPreserves DEF WorkflowInv, HasActive, registryVars
<1>3. \A id \in OperationIds : Ownership(id)'
  BY <1>1, OwnershipFrame DEF WorkflowInv, registryVars, Live, Present
<1>4. \E kind \in RequestKinds \cup {"none"}, at \in Phases : Moves(kind, at)
  <2>1. ASSUME NEW kind \in RequestKinds, TryLock(r, kind)
        PROVE  Moves(kind, "locked")
    <3>1. /\ mutation = NoRequest /\ mutation' = r
          /\ request' = [request EXCEPT ![r] = [kind |-> kind, at |-> "locked"]]
      BY <2>1, Zenon DEF TryLock
    <3> QED
      BY <3>1, Zenon
  <2>2. ASSUME RefuseBusy(r) \/ EndMutation(r) \/ SendAnswer(r)
               \/ (CheckGame(r) /\ GameActive)
        PROVE  Moves("none", "idle")
    BY <2>2 DEF RefuseBusy, EndMutation, SendAnswer, CheckGame, Answer, Idle, At
  <2>3. ASSUME NEW phase \in {"admitted", "checked"}, MoveRequest(r, phase),
               mutation = r, mutation' = mutation, request[r].at # "idle", ~HasActive
        PROVE  /\ request[r].kind \in RequestKinds \cup {"none"}
               /\ Moves(request[r].kind, phase)
    <3>1. /\ request[r].kind \in RequestKinds \cup {"none"}
          /\ request' =
               [request EXCEPT ![r] = [kind |-> request[r].kind, at |-> phase]]
      BY <2>3, MovedRequest DEF WorkflowInv
    <3>2. phase \in {"admitted", "checked"} => ~HasActive'
      BY <2>3, <1>2
    <3> QED
      BY <3>1, <3>2, <2>3, Zenon
  <2>4. CASE Admit(r)
    <3>1. /\ MoveRequest(r, "admitted") /\ request[r].at # "idle" /\ ~HasActive
          /\ mutation = r /\ mutation' = mutation
      BY <2>4 DEF Admit, At, WorkflowInv, GuardHeld
    <3> HIDE DEF Moves
    <3> QED
      BY <3>1, <2>3
  <2>5. CASE CheckGame(r) /\ ~GameActive
    <3>1. /\ MoveRequest(r, "checked") /\ request[r].at # "idle" /\ ~HasActive
          /\ mutation = r /\ mutation' = mutation
      BY <2>5 DEF CheckGame, At, WorkflowInv, GuardHeld, AdmittedAlone
    <3> HIDE DEF Moves
    <3> QED
      BY <3>1, <2>3
  <2> HIDE DEF Moves
  <2> QED
    BY <2>1, <2>2, <2>4, <2>5, Zenon
<1>5. Shape => task' \in [OperationIds -> [at : TaskAt, verdict : Verdicts]]
  BY <1>1 DEF Shape
<1>6. Shape' /\ GuardHeld' /\ AdmittedAlone'
  BY <1>1, <1>4, <1>5, RequestMove
<1> QED
  BY <1>2, <1>3, <1>6 DEF WorkflowInv

-----------------------------------------------------------------------------
(* A step that leaves the requests alone, and adds nothing to what is      *)
(* active, leaves the requests right.                                      *)
LEMMA RequestsFrame ==
  ASSUME WorkflowInv, UNCHANGED requestVars, HasActive' => HasActive
  PROVE  GuardHeld' /\ AdmittedAlone'
BY DEF WorkflowInv, GuardHeld, AdmittedAlone, requestVars

(* A new operation is owned by the task that is started for it.            *)
LEMMA NewOwner ==
  ASSUME WorkflowInv, NEW id \in OperationIds, task[id] = NoTask,
         NEW at \in {"authenticating", "installingVersion"},
         task' = [task EXCEPT ![id].at = at],
         Live(id)', UNCHANGED <<process, waiter>>
  PROVE  /\ Ownership(id)'
         /\ task' \in [OperationIds -> [at : TaskAt, verdict : Verdicts]]
         /\ \A x \in OperationIds \ {id} : task'[x] = task[x]
<1>1. /\ task \in [OperationIds -> [at : TaskAt, verdict : Verdicts]]
      /\ at \in TaskAt
  BY StagesAre DEF WorkflowInv, Shape, TaskAt
<1>2. /\ task' \in [OperationIds -> [at : TaskAt, verdict : Verdicts]]
      /\ task'[id].at = at
      /\ \A x \in OperationIds \ {id} : task'[x] = task[x]
  BY <1>1
<1>3. waiter[id].at = "none" /\ process[id] = "none"
  BY DEF WorkflowInv, Ownership, NoTask, Played
<1>4. Ownership(id)'
  BY <1>2, <1>3 DEF Ownership, Owned, OwnedByTask, OwnedByWaiter, PastBoundary, Played
<1> QED
  BY <1>2, <1>4

LEMMA BeginInstallPreserves ==
  ASSUME WorkflowInv, NEW r \in Requests, NEW id \in OperationIds,
         NEW v \in Versions, BeginInstall(r, id, v)
  PROVE  WorkflowInv'
<1>1. /\ request[r].at # "idle" /\ MoveRequest(r, "answering") /\ mutation = r
      /\ mutation' = mutation /\ UNCHANGED <<process, waiter>>
      /\ task[id] = NoTask /\ task' = [task EXCEPT ![id].at = "installingVersion"]
      /\ Begin(id, v)
  BY DEF BeginInstall, At, WorkflowInv, GuardHeld, gameVars
<1>2. RegistryInv'
  BY <1>1, BeginPreserves DEF WorkflowInv
<1>3. /\ operations'[id] = Fresh(v)
      /\ \A x \in OperationIds \ {id} :
           operations'[x] = operations[x] /\ cancelled'[x] = cancelled[x]
  BY <1>1 DEF Begin, WorkflowInv, RegistryInv, RegistryTypeOK
<1>4. Live(id)'
  BY <1>3, FreshIsLive DEF Live, Present
<1>5. /\ Ownership(id)'
      /\ task' \in [OperationIds -> [at : TaskAt, verdict : Verdicts]]
      /\ \A x \in OperationIds \ {id} : task'[x] = task[x]
  BY <1>1, <1>4, NewOwner
<1>6. ASSUME NEW x \in OperationIds \ {id} PROVE Ownership(x)'
  BY <1>1, <1>3, <1>5, OwnershipFrame DEF WorkflowInv, Live, Present
<1>7. /\ request[r].kind \in RequestKinds \cup {"none"}
      /\ request' =
           [request EXCEPT ![r] = [kind |-> request[r].kind, at |-> "answering"]]
  BY <1>1, MovedRequest DEF WorkflowInv
<1>8. Shape' /\ GuardHeld' /\ AdmittedAlone'
  BY <1>1, <1>5, <1>7, RequestMove
<1> QED
  BY <1>2, <1>5, <1>6, <1>8 DEF WorkflowInv

LEMMA ReserveLaunchPreserves ==
  ASSUME WorkflowInv, NEW r \in Requests, NEW id \in OperationIds,
         NEW p \in Profiles, ReserveLaunch(r, id, p)
  PROVE  WorkflowInv'
<1>1. /\ request[r].at # "idle" /\ MoveRequest(r, "answering") /\ mutation = r
      /\ mutation' = mutation /\ UNCHANGED <<process, waiter>>
      /\ task[id] = NoTask /\ task' = [task EXCEPT ![id].at = "authenticating"]
      /\ BeginLaunch(id, p)
  BY DEF ReserveLaunch, At, WorkflowInv, GuardHeld, gameVars
<1>2. RegistryInv'
  BY <1>1, BeginLaunchPreserves DEF WorkflowInv
<1>3. /\ operations'[id] = Fresh(p)
      /\ \A x \in OperationIds \ {id} :
           operations'[x] = operations[x] /\ cancelled'[x] = cancelled[x]
  BY <1>1 DEF BeginLaunch, WorkflowInv, RegistryInv, RegistryTypeOK
<1>4. Live(id)'
  BY <1>3, FreshIsLive DEF Live, Present
<1>5. /\ Ownership(id)'
      /\ task' \in [OperationIds -> [at : TaskAt, verdict : Verdicts]]
      /\ \A x \in OperationIds \ {id} : task'[x] = task[x]
  BY <1>1, <1>4, NewOwner
<1>6. ASSUME NEW x \in OperationIds \ {id} PROVE Ownership(x)'
  BY <1>1, <1>3, <1>5, OwnershipFrame DEF WorkflowInv, Live, Present
<1>7. /\ request[r].kind \in RequestKinds \cup {"none"}
      /\ request' =
           [request EXCEPT ![r] = [kind |-> request[r].kind, at |-> "answering"]]
  BY <1>1, MovedRequest DEF WorkflowInv
<1>8. Shape' /\ GuardHeld' /\ AdmittedAlone'
  BY <1>1, <1>5, <1>7, RequestMove
<1> QED
  BY <1>2, <1>5, <1>6, <1>8 DEF WorkflowInv

(* Past the boundary a live operation is spawned, so nothing cancels it.   *)
LEMMA CancelOperationPreserves ==
  ASSUME WorkflowInv, NEW id \in OperationIds, CancelOperation(id)
  PROVE  WorkflowInv'
<1>1. Cancel(id) /\ UNCHANGED <<requestVars, task, process, waiter>>
  BY DEF CancelOperation, gameVars
<1>2. RegistryInv'
  BY <1>1, CancelPreserves DEF WorkflowInv
<1>3. Shape' /\ GuardHeld' /\ AdmittedAlone'
  BY <1>1, RequestsFrame DEF WorkflowInv, Shape, requestVars, Cancel, HasActive
<1>4. /\ Live(id) /\ ~operations[id].spawned
      /\ operations'[id] = [operations[id] EXCEPT !.state = "cancelling"]
      /\ \A x \in OperationIds \ {id} :
           operations'[x] = operations[x] /\ cancelled'[x] = cancelled[x]
  BY <1>1 DEF Cancel, WorkflowInv, RegistryInv, RegistryTypeOK
<1>5. Live(id)'
  <2>1. operations[id] \in Record
    BY <1>4 DEF WorkflowInv, RegistryInv, RegistryTypeOK, Live, Present
  <2>2. operations'[id] \in Record /\ operations'[id].state = "cancelling"
    BY <1>4, <2>1 DEF Record, OperationState
  <2> QED
    BY <2>2, RecordIsPresent DEF Live, Present, Terminal
<1>6. task[id].at \notin PastBoundary
  BY <1>4 DEF WorkflowInv, Ownership
<1>7. Ownership(id)'
  BY <1>1, <1>4, <1>5, <1>6 DEF WorkflowInv, Ownership, Owned
<1>8. ASSUME NEW x \in OperationIds \ {id} PROVE Ownership(x)'
  BY <1>1, <1>4, OwnershipFrame DEF WorkflowInv, Live, Present
<1> QED
  BY <1>2, <1>3, <1>7, <1>8 DEF WorkflowInv

-----------------------------------------------------------------------------
(* Steps of the workflow task that leave the registry alone.               *)
LEMMA MovedTask ==
  ASSUME Shape, NEW id \in OperationIds, NEW phase, MoveTask(id, phase)
  PROVE  /\ task[id].verdict \in Verdicts
         /\ task' =
              [task EXCEPT ![id] = [at |-> phase, verdict |-> task[id].verdict]]
<1>1. task[id] \in [at : TaskAt, verdict : Verdicts]
  BY DEF Shape
<1>2. [task[id] EXCEPT !.at = phase] = [at |-> phase, verdict |-> task[id].verdict]
  BY <1>1
<1> QED
  BY <1>1, <1>2 DEF MoveTask

(* The task keeps or leaves what it owns exactly as the record is live.    *)
LEMMA TaskMovePreserves ==
  ASSUME WorkflowInv, NEW id \in OperationIds,
         NEW at \in TaskAt, NEW verdict \in Verdicts,
         task' = [task EXCEPT ![id] = [at |-> at, verdict |-> verdict]],
         task[id].at # "handedOver",
         at \in OwnedByTask <=> task[id].at \in OwnedByTask,
         at \in PastBoundary => task[id].at \in PastBoundary,
         at \in {"terminating", "closing"} => verdict \in Terminal,
         process' \in [OperationIds -> ProcessStates],
         \A x \in OperationIds \ {id} : process'[x] = process[x],
         process'[id] # "none" => at \in {"spawned", "announcing"},
         UNCHANGED <<registryVars, requestVars, waiter>>
  PROVE  WorkflowInv'
<1>1. Shape'
  BY DEF WorkflowInv, Shape, requestVars
<1>2. /\ task'[id].at = at /\ task'[id].verdict = verdict
      /\ \A x \in OperationIds \ {id} : task'[x] = task[x]
  BY DEF WorkflowInv, Shape
<1>3. waiter'[id] = waiter[id] /\ waiter[id].at = "none"
  BY DEF WorkflowInv, Ownership
<1>4. /\ Live(id)' <=> Live(id)
      /\ operations'[id] = operations[id] /\ cancelled'[id] = cancelled[id]
  BY DEF registryVars, Live, Present
<1>5. Ownership(id)'
  BY <1>2, <1>3, <1>4 DEF WorkflowInv, Ownership, Owned, OwnedByWaiter, Played
<1> QED
  BY <1>1, <1>2, <1>5, OwnerStep

LEMMA StagesPreserve ==
  ASSUME WorkflowInv, NEW id \in OperationIds,
         StageSucceeds(id) \/ StageCancelled(id) \/ StageFails(id)
  PROVE  WorkflowInv'
<1> USE StagesAre DEF TaskAt, OwnedByTask, PastBoundary, Played, Verdicts, Terminal
<1>1. UNCHANGED <<registryVars, requestVars, waiter, process>>
  BY DEF StageSucceeds, StageCancelled, StageFails, gameVars
<1>2. task[id].at \in Stages /\ process[id] = "none"
  BY DEF StageSucceeds, StageCancelled, StageFails, WorkflowInv, Ownership
<1>3. process' \in [OperationIds -> ProcessStates]
  BY <1>1 DEF WorkflowInv, Shape
<1>4. CASE StageSucceeds(id)
  <2>1. PICK phase \in Stages \cup {"boundary"} : MoveTask(id, phase)
    BY <1>2, <1>4 DEF StageSucceeds
  <2>2. /\ task[id].verdict \in Verdicts
        /\ task' =
             [task EXCEPT ![id] = [at |-> phase, verdict |-> task[id].verdict]]
    BY <2>1, MovedTask DEF WorkflowInv
  <2> QED
    BY <1>1, <1>2, <1>3, <2>1, <2>2, TaskMovePreserves
<1>5. CASE StageCancelled(id) \/ StageFails(id)
  <2>1. PICK verdict \in Terminal : Fail(id, verdict)
    BY <1>5 DEF StageCancelled, StageFails
  <2> QED
    BY <1>1, <1>2, <1>3, <2>1, TaskMovePreserves DEF Fail
<1> QED
  BY <1>4, <1>5

LEMMA StartPreserves ==
  ASSUME WorkflowInv, NEW id \in OperationIds,
         ReserveProcess(id) \/ StartFails(id) \/ SpawnChild(id) \/ RecordPid(id)
  PROVE  WorkflowInv'
<1> USE DEF TaskAt, OwnedByTask, PastBoundary, Played, Verdicts, Terminal, TaskIs
<1>1. UNCHANGED <<registryVars, requestVars, waiter>>
  BY DEF ReserveProcess, StartFails, SpawnChild, RecordPid
<1>2. \A x \in OperationIds : process[x] \in ProcessStates
  BY DEF WorkflowInv, Shape
<1>3. CASE ReserveProcess(id)
  <2>1. task[id].at = "reserving" /\ process' = process /\ process[id] = "none"
    BY <1>3 DEF ReserveProcess, WorkflowInv, Ownership
  <2>2. process' \in [OperationIds -> ProcessStates]
    BY <2>1 DEF WorkflowInv, Shape
  <2>3. CASE MoveTask(id, "starting")
    BY <1>1, <2>1, <2>2, <2>3, MovedTask, TaskMovePreserves DEF WorkflowInv
  <2>4. CASE Fail(id, "failed")
    BY <1>1, <2>1, <2>2, <2>4, TaskMovePreserves DEF Fail
  <2> QED
    BY <1>3, <2>3, <2>4 DEF ReserveProcess
<1>4. CASE StartFails(id)
  <2>1. task[id].at = "starting" /\ process' = process /\ process[id] = "none"
    BY <1>4 DEF StartFails, WorkflowInv, Ownership
  <2>2. process' \in [OperationIds -> ProcessStates] /\ Fail(id, "failed")
    BY <1>4, <2>1 DEF StartFails, WorkflowInv, Shape
  <2> QED
    BY <1>1, <2>1, <2>2, TaskMovePreserves DEF Fail
<1>5. CASE SpawnChild(id)
  <2>1. task[id].at = "starting" /\ MoveTask(id, "spawned")
    BY <1>5 DEF SpawnChild
  <2>2. /\ process' \in [OperationIds -> ProcessStates]
        /\ \A x \in OperationIds \ {id} : process'[x] = process[x]
    BY <1>5 DEF SpawnChild, WorkflowInv, Shape, ProcessStates
  <2> QED
    BY <1>1, <2>1, <2>2, MovedTask, TaskMovePreserves DEF WorkflowInv
<1>6. CASE RecordPid(id)
  <2>1. task[id].at = "spawned" /\ MoveTask(id, "announcing") /\ process' = process
    BY <1>6 DEF RecordPid
  <2>2. process' \in [OperationIds -> ProcessStates]
    BY <2>1 DEF WorkflowInv, Shape
  <2> QED
    BY <1>1, <2>1, <2>2, MovedTask, TaskMovePreserves DEF WorkflowInv
<1> QED
  BY <1>3, <1>4, <1>5, <1>6

LEMMA HandOverPreserves ==
  ASSUME WorkflowInv, NEW id \in OperationIds, AnnounceStart(id)
  PROVE  WorkflowInv'
<1>1. /\ task[id].at = "announcing" /\ MoveTask(id, "handedOver")
      /\ waiter' = [waiter EXCEPT ![id].at = "waiting"]
      /\ UNCHANGED <<registryVars, requestVars, process>>
  BY DEF AnnounceStart, TaskIs
<1>2. /\ task' = [task EXCEPT ![id] =
           [at |-> "handedOver", verdict |-> task[id].verdict]]
      /\ task[id].verdict \in Verdicts
  BY <1>1, MovedTask DEF WorkflowInv
<1>3. /\ task' \in [OperationIds -> [at : TaskAt, verdict : Verdicts]]
      /\ task'[id].at = "handedOver"
      /\ \A x \in OperationIds \ {id} : task'[x] = task[x]
  BY <1>2 DEF WorkflowInv, Shape, TaskAt
<1>4. /\ waiter' \in [OperationIds ->
           [at : WaiterAt, verdict : {"none", "exited", "error", "lost"}]]
      /\ waiter'[id].at = "waiting"
      /\ \A x \in OperationIds \ {id} : waiter'[x] = waiter[x]
  BY <1>1 DEF WorkflowInv, Shape, WaiterAt
<1>5. Shape'
  BY <1>1, <1>3, <1>4 DEF WorkflowInv, Shape, requestVars
<1>6. /\ Live(id)' <=> Live(id)
      /\ operations'[id] = operations[id] /\ cancelled'[id] = cancelled[id]
      /\ process'[id] = process[id]
  BY <1>1 DEF registryVars, Live, Present
<1>7. Ownership(id)'
  BY <1>1, <1>3, <1>4, <1>6 DEF WorkflowInv, Ownership, Owned, OwnedByTask,
     OwnedByWaiter, Played, PastBoundary
<1> QED
  BY <1>1, <1>3, <1>4, <1>5, <1>7, OwnerStep

LEMMA ReportsPreserve ==
  ASSUME WorkflowInv, NEW id \in OperationIds,
         \/ ReportError(id)
         \/ \E verdict \in Terminal : InstallerReturns(id, verdict)
  PROVE  WorkflowInv'
<1> USE DEF TaskAt, OwnedByTask, PastBoundary, Played, Verdicts, Terminal, TaskIs
<1>1. /\ UNCHANGED <<registryVars, requestVars, waiter, process>>
      /\ task[id].at \in {"reporting", "installingVersion"}
  BY DEF ReportError, InstallerReturns, gameVars
<1>2. process' \in [OperationIds -> ProcessStates] /\ process[id] = "none"
  BY <1>1 DEF WorkflowInv, Shape, Ownership
<1>3. CASE ReportError(id)
  <2>1. task[id].at = "reporting" /\ MoveTask(id, "ended")
    BY <1>3 DEF ReportError
  <2> QED
    BY <1>1, <1>2, <2>1, MovedTask, TaskMovePreserves DEF WorkflowInv
<1>4. ASSUME NEW verdict \in Terminal, InstallerReturns(id, verdict)
      PROVE  WorkflowInv'
  <2>1. /\ task[id].at = "installingVersion"
        /\ task' = [task EXCEPT ![id] = [at |-> "closing", verdict |-> verdict]]
    BY <1>4 DEF InstallerReturns
  <2> QED
    BY <1>1, <1>2, <2>1, TaskMovePreserves
<1> QED
  BY <1>3, <1>4

(* mark_spawned: the record becomes spawned before anything is past the    *)
(* boundary, and only if no cancellation was accepted.                     *)
LEMMA BoundaryPreserves ==
  ASSUME WorkflowInv, NEW id \in OperationIds, EnterSpawnBoundary(id)
  PROVE  WorkflowInv'
<1> USE DEF TaskAt, OwnedByTask, PastBoundary, Played, Verdicts, Terminal
<1>1. /\ task[id].at = "boundary" /\ UNCHANGED <<requestVars, waiter, process>>
      /\ process[id] = "none" /\ waiter[id].at = "none" /\ Live(id)
  BY DEF EnterSpawnBoundary, TaskIs, gameVars, WorkflowInv, Ownership, Owned
<1>2. CASE SpawnAllowed(id)
  <2>1. MarkSpawned(id) /\ MoveTask(id, "reserving")
    BY <1>2 DEF EnterSpawnBoundary
  <2>2. RegistryInv'
    BY <1>1, <2>1, MarkSpawnedPreserves DEF WorkflowInv
  <2>3. /\ operations'[id] =
             [operations[id] EXCEPT !.spawned = TRUE, !.state = "running"]
        /\ \A x \in OperationIds \ {id} : operations'[x] = operations[x]
        /\ cancelled' = cancelled /\ ~cancelled[id]
    BY <2>1 DEF MarkSpawned, SpawnAllowed, WorkflowInv, RegistryInv, RegistryTypeOK
  <2>4. operations'[id].spawned /\ Live(id)'
    <3>1. operations[id] \in Record
      BY <1>1 DEF WorkflowInv, RegistryInv, RegistryTypeOK, Live, Present
    <3>2. /\ operations'[id] \in Record /\ operations'[id].state = "running"
          /\ operations'[id].spawned
      BY <2>3, <3>1 DEF Record, OperationState
    <3> QED
      BY <3>2, RecordIsPresent DEF Live, Present
  <2>5. /\ task' = [task EXCEPT ![id] =
             [at |-> "reserving", verdict |-> task[id].verdict]]
        /\ task[id].verdict \in Verdicts
    BY <2>1, MovedTask DEF WorkflowInv
  <2>6. /\ task' \in [OperationIds -> [at : TaskAt, verdict : Verdicts]]
        /\ task'[id].at = "reserving"
        /\ \A x \in OperationIds \ {id} : task'[x] = task[x]
    BY <2>5 DEF WorkflowInv, Shape
  <2>7. Shape' /\ GuardHeld' /\ AdmittedAlone'
    BY <1>1, <2>1, <2>6, RequestsFrame
       DEF WorkflowInv, Shape, requestVars, MarkSpawned, HasActive
  <2>8. Ownership(id)'
    BY <1>1, <2>3, <2>4, <2>6 DEF Ownership, Owned
  <2>9. ASSUME NEW x \in OperationIds \ {id} PROVE Ownership(x)'
    BY <1>1, <2>3, <2>6, OwnershipFrame DEF WorkflowInv, Live, Present
  <2> QED
    BY <2>2, <2>7, <2>8, <2>9 DEF WorkflowInv
<1>3. CASE ~SpawnAllowed(id)
  <2>1. Fail(id, "cancelled") /\ UNCHANGED registryVars
    BY <1>3 DEF EnterSpawnBoundary
  <2>2. process' \in [OperationIds -> ProcessStates]
    BY <1>1 DEF WorkflowInv, Shape
  <2> QED
    BY <1>1, <2>1, <2>2, TaskMovePreserves DEF Fail
<1> QED
  BY <1>2, <1>3

-----------------------------------------------------------------------------
(* finish ends its operation and no other: what it may evict has ended.    *)
LEMMA FinishEffects ==
  ASSUME RegistryInv, NEW id \in OperationIds, NEW state \in Terminal,
         Finish(id, state)
  PROVE  /\ ~Live(id)'
         /\ \A x \in OperationIds \ {id} :
              /\ Live(x)' <=> Live(x)
              /\ Live(x) => operations'[x] = operations[x]
         /\ cancelled' = cancelled
         /\ HasActive' => HasActive
<1> DEFINE order == Append(terminalOrder, id)
           ended == [operations EXCEPT ![id].state = state]
<1>1. /\ operations \in [OperationIds -> Record \cup {NoRecord}]
      /\ terminalOrder \in Seq(OperationIds) /\ Live(id)
      /\ Len(terminalOrder) <= MaxTerminalOperations
      /\ \A i \in 1..Len(terminalOrder) : ~Live(terminalOrder[i])
  BY DEF RegistryInv, RegistryTypeOK, TerminalHistory, Finish
<1>2. /\ operations' = IF Evicts(order) THEN [ended EXCEPT ![Head(order)] = NoRecord]
                                        ELSE ended
      /\ cancelled' = cancelled
  BY DEF Finish
<1>3. Head(order) = id \/ (Head(order) \in OperationIds /\ ~Live(Head(order)))
  <2>1. CASE terminalOrder = <<>>
    <3>1. Len(order) = 1 /\ order[1] = id
      BY <2>1
    <3> QED
      BY <3>1
  <2>2. CASE terminalOrder # <<>>
    <3>1. Head(order) = terminalOrder[1] /\ 1 \in 1..Len(terminalOrder)
      BY <1>1, <2>2, TrimmedHistory
    <3>2. terminalOrder[1] \in OperationIds
      BY <1>1, <3>1
    <3> QED
      BY <1>1, <3>1, <3>2
  <2> QED
    BY <2>1, <2>2
<1>4. operations[id] \in Record
  BY <1>1 DEF Live, Present
<1>5. /\ ended \in [OperationIds -> Record \cup {NoRecord}]
      /\ ended[id].state = state
      /\ \A x \in OperationIds \ {id} : ended[x] = operations[x]
  <2>1. [operations[id] EXCEPT !.state = state] \in Record
    BY <1>4 DEF Record, OperationState
  <2> QED
    BY <1>1, <1>4, <2>1 DEF Record
<1>6. ~Live(id)'
  <2> HIDE DEF ended, order
  <2>1. operations'[id] \in {ended[id], NoRecord}
    BY <1>2, <1>5
  <2> QED
    BY <1>5, <2>1 DEF Live, Present
<1>7. ASSUME NEW x \in OperationIds \ {id}
      PROVE  (Live(x)' <=> Live(x)) /\ (Live(x) => operations'[x] = operations[x])
  <2> HIDE DEF ended, order
  <2>1. CASE Evicts(order) /\ x = Head(order)
    BY <1>2, <1>3, <1>5, <2>1 DEF Live, Present
  <2>2. CASE ~(Evicts(order) /\ x = Head(order))
    <3>1. operations'[x] = operations[x]
      BY <1>2, <1>5, <2>2
    <3> QED
      BY <3>1 DEF Live, Present
  <2> QED
    BY <2>1, <2>2
<1>8. HasActive' => HasActive
  <2>1. /\ activeWorkflow' \in {activeWorkflow, NoOp}
        /\ \A v \in Versions : activeVersions'[v] \in {activeVersions[v], NoOp}
    BY DEF Finish
  <2> QED
    BY <2>1 DEF HasActive
<1> QED
  BY <1>2, <1>6, <1>7, <1>8

(* An owner finishes its operation and lets go of it in the same step.     *)
LEMMA FinishingPreserves ==
  ASSUME WorkflowInv, NEW id \in OperationIds, NEW state \in Terminal,
         Finish(id, state), UNCHANGED requestVars, Shape',
         \A x \in OperationIds \ {id} :
           /\ task'[x] = task[x]
           /\ waiter'[x] = waiter[x]
           /\ process'[x] = process[x],
         ~Owned(id)',
         waiter'[id].at # "none" => task'[id].at = "handedOver",
         process'[id] # "none" => task'[id].at \in Played,
         process'[id] # "running",
         task'[id].at \in PastBoundary => task[id].at \in PastBoundary
  PROVE  WorkflowInv'
<1>1. RegistryInv'
  BY FinishPreserves DEF WorkflowInv
<1>2. /\ ~Live(id)' /\ cancelled' = cancelled /\ (HasActive' => HasActive)
      /\ \A x \in OperationIds \ {id} :
           (Live(x)' <=> Live(x)) /\ (Live(x) => operations'[x] = operations[x])
  BY FinishEffects DEF WorkflowInv
<1>3. GuardHeld' /\ AdmittedAlone'
  BY <1>2, RequestsFrame
<1>4. Ownership(id)'
  BY <1>2 DEF WorkflowInv, Ownership, Owned, OwnedByTask
<1>5. ASSUME NEW x \in OperationIds \ {id} PROVE Ownership(x)'
  BY <1>2, OwnershipFrame DEF WorkflowInv
<1> QED
  BY <1>1, <1>3, <1>4, <1>5 DEF WorkflowInv

LEMMA TaskFinishes ==
  ASSUME WorkflowInv, NEW id \in OperationIds, Terminate(id) \/ CloseInstall(id)
  PROVE  /\ task[id].verdict \in Terminal
         /\ Finish(id, task[id].verdict)
         /\ WorkflowInv'
<1>1. /\ task[id].at \in {"terminating", "closing"}
      /\ UNCHANGED <<requestVars, waiter, process>>
      /\ FinishOnce(id, task[id].verdict)
  BY DEF Terminate, CloseInstall, TaskIs, gameVars
<1>2. /\ Live(id) /\ task[id].verdict \in Terminal
      /\ process[id] = "none" /\ waiter[id].at = "none"
  BY <1>1 DEF WorkflowInv, Ownership, Owned, OwnedByTask, Played
<1>3. Finish(id, task[id].verdict)
  BY <1>1, <1>2 DEF FinishOnce
<1>4. PICK phase \in {"reporting", "ended"} : MoveTask(id, phase)
  BY DEF Terminate, CloseInstall
<1>5. /\ task' = [task EXCEPT ![id] = [at |-> phase, verdict |-> task[id].verdict]]
      /\ task[id].verdict \in Verdicts
  BY <1>4, MovedTask DEF WorkflowInv
<1>6. /\ task' \in [OperationIds -> [at : TaskAt, verdict : Verdicts]]
      /\ task'[id].at = phase
      /\ \A x \in OperationIds \ {id} : task'[x] = task[x]
  BY <1>5 DEF WorkflowInv, Shape, TaskAt
<1>7. Shape'
  BY <1>1, <1>6 DEF WorkflowInv, Shape, requestVars
<1>8. /\ ~Owned(id)' /\ task'[id].at \notin PastBoundary
      /\ waiter'[id].at = "none" /\ process'[id] = "none"
  BY <1>1, <1>2, <1>6 DEF Owned, OwnedByTask, OwnedByWaiter, PastBoundary, Played
<1> QED
  BY <1>1, <1>2, <1>3, <1>6, <1>7, <1>8, FinishingPreserves

-----------------------------------------------------------------------------
(* The task that waits for the game, and the process itself.               *)
LEMMA MovedWaiter ==
  ASSUME Shape, NEW id \in OperationIds, NEW phase, MoveWaiter(id, phase)
  PROVE  /\ waiter[id].verdict \in {"none", "exited", "error", "lost"}
         /\ waiter' =
              [waiter EXCEPT ![id] = [at |-> phase, verdict |-> waiter[id].verdict]]
<1>1. waiter[id] \in [at : WaiterAt, verdict : {"none", "exited", "error", "lost"}]
  BY DEF Shape
<1>2. [waiter[id] EXCEPT !.at = phase] =
        [at |-> phase, verdict |-> waiter[id].verdict]
  BY <1>1
<1> QED
  BY <1>1, <1>2 DEF MoveWaiter

LEMMA WaiterMovePreserves ==
  ASSUME WorkflowInv, NEW id \in OperationIds,
         NEW at \in WaiterAt, NEW verdict \in {"none", "exited", "error", "lost"},
         waiter' = [waiter EXCEPT ![id] = [at |-> at, verdict |-> verdict]],
         waiter[id].at # "none", at # "none", at # "waiting",
         at \in OwnedByWaiter <=> waiter[id].at \in OwnedByWaiter,
         process' \in [OperationIds -> ProcessStates],
         \A x \in OperationIds \ {id} : process'[x] = process[x],
         process'[id] # "running",
         UNCHANGED <<registryVars, requestVars, task>>
  PROVE  WorkflowInv'
<1>1. Shape'
  BY DEF WorkflowInv, Shape, requestVars
<1>2. /\ waiter'[id].at = at
      /\ \A x \in OperationIds \ {id} : waiter'[x] = waiter[x]
  BY DEF WorkflowInv, Shape
<1>3. task[id].at = "handedOver" /\ task'[id] = task[id]
  BY DEF WorkflowInv, Ownership
<1>4. /\ Live(id)' <=> Live(id)
      /\ operations'[id] = operations[id] /\ cancelled'[id] = cancelled[id]
  BY DEF registryVars, Live, Present
<1>5. Ownership(id)'
  BY <1>2, <1>3, <1>4 DEF WorkflowInv, Ownership, Owned, Played
<1> QED
  BY <1>1, <1>2, <1>5, OwnerStep

(* Once the child has been reaped, or before it was started, none runs.    *)
LEMMA OnlyWaitedForRuns ==
  ASSUME WorkflowInv, NEW id \in OperationIds,
         waiter[id].at \notin {"none", "waiting"}
  PROVE  process[id] # "running" /\ task[id].at = "handedOver"
BY DEF WorkflowInv, Ownership

LEMMA WaiterPreserves ==
  ASSUME WorkflowInv, NEW id \in OperationIds,
         \/ ChildReaped(id)
         \/ WaitFails(id)
         \/ JudgeExit(id)
         \/ ClearProcess(id)
         \/ ForwardGameEvent(id)
  PROVE  WorkflowInv'
<1> USE DEF WaiterIs, WaiterAt, OwnedByWaiter
<1>1. UNCHANGED <<registryVars, requestVars, task>>
  BY DEF ChildReaped, WaitFails, JudgeExit, ClearProcess, ForwardGameEvent
<1>2. process \in [OperationIds -> ProcessStates]
  BY DEF WorkflowInv, Shape
<1>3. CASE ChildReaped(id)
  <2>1. /\ waiter[id].at = "waiting" /\ MoveWaiter(id, "judging")
        /\ process' = process /\ process[id] # "running"
    BY <1>3 DEF ChildReaped, Ended
  <2> QED
    BY <1>1, <1>2, <2>1, MovedWaiter, WaiterMovePreserves DEF WorkflowInv
<1>4. CASE WaitFails(id)
  <2>1. /\ waiter[id].at = "waiting"
        /\ waiter' = [waiter EXCEPT ![id] = [at |-> "clearing", verdict |-> "lost"]]
        /\ process' \in [OperationIds -> ProcessStates]
        /\ \A x \in OperationIds \ {id} : process'[x] = process[x]
        /\ process'[id] # "running"
    BY <1>2, <1>4 DEF WaitFails, ProcessStates
  <2> QED
    BY <1>1, <2>1, WaiterMovePreserves
<1>5. CASE JudgeExit(id)
  <2>1. /\ waiter[id].at = "judging" /\ process' = process
        /\ process[id] # "running"
    BY <1>5, OnlyWaitedForRuns DEF JudgeExit
  <2>2. PICK verdict \in {"exited", "error"} :
          waiter' = [waiter EXCEPT ![id] = [at |-> "clearing", verdict |-> verdict]]
    BY <1>5 DEF JudgeExit
  <2> QED
    BY <1>1, <1>2, <2>1, <2>2, WaiterMovePreserves
<1>6. CASE ClearProcess(id)
  <2>1. /\ waiter[id].at = "clearing" /\ MoveWaiter(id, "finishing")
        /\ process' = process /\ process[id] # "running"
    BY <1>6, OnlyWaitedForRuns DEF ClearProcess
  <2> QED
    BY <1>1, <1>2, <2>1, MovedWaiter, WaiterMovePreserves DEF WorkflowInv
<1>7. CASE ForwardGameEvent(id)
  <2>1. /\ waiter[id].at = "emitting" /\ MoveWaiter(id, "ended")
        /\ process' = process /\ process[id] # "running"
    BY <1>7, OnlyWaitedForRuns DEF ForwardGameEvent
  <2> QED
    BY <1>1, <1>2, <2>1, MovedWaiter, WaiterMovePreserves DEF WorkflowInv
<1> QED
  BY <1>3, <1>4, <1>5, <1>6, <1>7

LEMMA GameFinishes ==
  ASSUME WorkflowInv, NEW id \in OperationIds, FinishGameOperation(id)
  PROVE  /\ \E state \in Terminal : Finish(id, state)
         /\ WorkflowInv'
<1>1. /\ waiter[id].at = "finishing" /\ MoveWaiter(id, "emitting")
      /\ UNCHANGED <<requestVars, task, process>>
  BY DEF FinishGameOperation, WaiterIs
<1>2. Live(id) /\ task[id].at = "handedOver" /\ process[id] # "running"
  BY <1>1, OnlyWaitedForRuns DEF WorkflowInv, Ownership, Owned, OwnedByWaiter
<1>3. PICK state \in Terminal : Finish(id, state)
  BY <1>2 DEF FinishGameOperation, FinishOnce, Terminal
<1>4. /\ waiter[id].verdict \in {"none", "exited", "error", "lost"}
      /\ waiter' =
           [waiter EXCEPT ![id] = [at |-> "emitting", verdict |-> waiter[id].verdict]]
  BY <1>1, MovedWaiter DEF WorkflowInv
<1>5. /\ waiter' \in [OperationIds ->
           [at : WaiterAt, verdict : {"none", "exited", "error", "lost"}]]
      /\ waiter'[id].at = "emitting"
      /\ \A x \in OperationIds \ {id} : waiter'[x] = waiter[x]
  BY <1>4 DEF WorkflowInv, Shape, WaiterAt
<1>6. Shape'
  BY <1>1, <1>5 DEF WorkflowInv, Shape, requestVars
<1>7. ~Owned(id)' /\ task'[id].at \in Played
  BY <1>1, <1>2, <1>5 DEF Owned, OwnedByTask, OwnedByWaiter, Played
<1> QED
  BY <1>1, <1>2, <1>3, <1>5, <1>6, <1>7, FinishingPreserves

LEMMA ProcessPreserves ==
  ASSUME WorkflowInv, NEW id \in OperationIds,
         \/ \E how \in {"exited", "crashed"} : GameEnds(id, how)
         \/ \E c \in StopCalls : RequestStop(c, id) \/ StopperStep(c, id)
  PROVE  WorkflowInv'
<1>1. /\ UNCHANGED <<registryVars, requestVars, task, waiter>>
      /\ \/ process' = process
         \/ /\ process[id] = "running"
            /\ \E how \in {"exited", "crashed", "killed"} :
                 process' = [process EXCEPT ![id] = how]
  BY DEF GameEnds, StopperStep, KillGame, KillFails, WithdrawStop, RequestStop
<1>2. /\ process' \in [OperationIds -> ProcessStates]
      /\ \A x \in OperationIds \ {id} : process'[x] = process[x]
      /\ process'[id] = process[id] \/ (process[id] # "none" /\ process'[id] # "running")
  BY <1>1 DEF WorkflowInv, Shape, ProcessStates
<1>3. Shape'
  BY <1>1, <1>2 DEF WorkflowInv, Shape, requestVars
<1>4. Ownership(id)'
  BY <1>1, <1>2 DEF WorkflowInv, Ownership, Owned, registryVars, Live, Present
<1> QED
  BY <1>1, <1>2, <1>3, <1>4, OwnerStep

-----------------------------------------------------------------------------
(* Every step of the workflow preserves the invariant ...                  *)
LEMMA WorkflowStepPreserves ==
  ASSUME WorkflowInv, [WorkflowNext]_workflowVars
  PROVE  WorkflowInv'
<1>1. CASE UNCHANGED workflowVars
  <2>1. UNCHANGED <<registryVars, requestVars, task, waiter, process>>
    BY <1>1 DEF workflowVars, gameVars
  <2>2. Shape' /\ GuardHeld' /\ AdmittedAlone' /\ RegistryInv'
    BY <2>1, RequestsFrame, StutterPreserves
       DEF WorkflowInv, Shape, requestVars, registryVars, HasActive
  <2>3. \A id \in OperationIds : Ownership(id)'
    BY <2>1, OwnershipFrame DEF WorkflowInv, registryVars, Live, Present
  <2> QED
    BY <2>2, <2>3 DEF WorkflowInv
<1>2. ASSUME NEW r \in Requests,
             (\E kind \in RequestKinds : TryLock(r, kind)) \/ RequestStep(r)
      PROVE  WorkflowInv'
  BY <1>2, RequestOnlyPreserves, BeginInstallPreserves, ReserveLaunchPreserves
     DEF RequestStep
<1>3. ASSUME NEW id \in OperationIds, CancelOperation(id) PROVE WorkflowInv'
  BY <1>3, CancelOperationPreserves
<1>4. ASSUME NEW id \in OperationIds, TaskStep(id) PROVE WorkflowInv'
  BY <1>4, StagesPreserve, BoundaryPreserves, StartPreserves, HandOverPreserves,
     ReportsPreserve, TaskFinishes DEF TaskStep
<1>5. ASSUME NEW id \in OperationIds, WaiterStep(id) \/ WaitFails(id)
      PROVE  WorkflowInv'
  BY <1>5, WaiterPreserves, GameFinishes DEF WaiterStep
<1>6. ASSUME NEW id \in OperationIds,
             \/ \E c \in StopCalls : RequestStop(c, id) \/ StopperStep(c, id)
             \/ \E how \in {"exited", "crashed"} : GameEnds(id, how)
      PROVE  WorkflowInv'
  BY <1>6, ProcessPreserves
<1> QED
  BY <1>1, <1>2, <1>3, <1>4, <1>5, <1>6 DEF WorkflowNext

(* ... and uses the registry as its specification allows.                  *)
LEMMA WorkflowStepIsRegistryStep ==
  ASSUME WorkflowInv, [WorkflowNext]_workflowVars
  PROVE  [RegistryNext]_registryVars
<1>1. CASE UNCHANGED workflowVars
  BY <1>1 DEF workflowVars
<1>2. ASSUME NEW r \in Requests,
             (\E kind \in RequestKinds : TryLock(r, kind)) \/ RequestStep(r)
      PROVE  [RegistryNext]_registryVars
  <2>1. CASE \E id \in OperationIds, v \in Versions : BeginInstall(r, id, v)
    BY <2>1 DEF BeginInstall, RegistryNext
  <2>2. CASE \E id \in OperationIds, p \in Profiles : ReserveLaunch(r, id, p)
    BY <2>2 DEF ReserveLaunch, RegistryNext
  <2> QED
    BY <1>2, <2>1, <2>2 DEF RequestStep, TryLock, RefuseBusy, Admit, EndMutation,
                            CheckGame, SendAnswer
<1>3. ASSUME NEW id \in OperationIds, CancelOperation(id)
      PROVE  [RegistryNext]_registryVars
  BY <1>3 DEF CancelOperation, RegistryNext
<1>4. ASSUME NEW id \in OperationIds, TaskStep(id)
      PROVE  [RegistryNext]_registryVars
  <2>1. CASE EnterSpawnBoundary(id)
    <3>1. Live(id)
      BY <2>1 DEF EnterSpawnBoundary, TaskIs, WorkflowInv, Ownership, Owned,
                  OwnedByTask
    <3> QED
      BY <2>1, <3>1 DEF EnterSpawnBoundary, RegistryNext
  <2>2. CASE Terminate(id) \/ CloseInstall(id)
    BY <2>2, TaskFinishes DEF RegistryNext
  <2> QED
    BY <1>4, <2>1, <2>2
       DEF TaskStep, StageSucceeds, StageCancelled, StageFails, ReserveProcess,
           StartFails, SpawnChild, RecordPid, AnnounceStart, ReportError,
           InstallerReturns
<1>5. ASSUME NEW id \in OperationIds, WaiterStep(id) \/ WaitFails(id)
      PROVE  [RegistryNext]_registryVars
  <2>1. CASE FinishGameOperation(id)
    BY <2>1, GameFinishes DEF RegistryNext
  <2> QED
    BY <1>5, <2>1 DEF WaiterStep, ChildReaped, JudgeExit, ClearProcess,
                      ForwardGameEvent, WaitFails
<1>6. ASSUME NEW id \in OperationIds,
             \/ \E c \in StopCalls : RequestStop(c, id) \/ StopperStep(c, id)
             \/ \E how \in {"exited", "crashed"} : GameEnds(id, how)
      PROVE  [RegistryNext]_registryVars
  BY <1>6 DEF StopperStep, KillGame, KillFails, WithdrawStop, RequestStop, GameEnds
<1> QED
  BY <1>1, <1>2, <1>3, <1>4, <1>5, <1>6 DEF WorkflowNext

-----------------------------------------------------------------------------
(* The inductive invariant holds in every state of every launch.           *)
THEOREM WorkflowIsConsistent == WorkflowSafety => []WorkflowInv
<1>1. WorkflowInit => WorkflowInv
  BY WorkflowInitEstablishes
<1>2. WorkflowInv /\ [WorkflowNext]_workflowVars => WorkflowInv'
  BY WorkflowStepPreserves
<1> QED
  BY <1>1, <1>2, PTL DEF WorkflowSafety

(* No request that rewrites the build is admitted beside a launch, an      *)
(* installation or a game, however many requests arrive (api.rs, dispatch).*)
THEOREM MutationsExcludeGames == WorkflowSafety => []MutationExcludesGame
<1>1. WorkflowInv => MutationExcludesGame
  <2> SUFFICES ASSUME WorkflowInv, NEW r \in Requests, Rewrites(r),
                      NEW id \in OperationIds
               PROVE  ~Live(id) /\ ~Running(id)
    BY DEF MutationExcludesGame
  <2>1. ~HasActive
    BY DEF Rewrites, At, WorkflowInv, AdmittedAlone
  <2>2. ~Live(id)
    <3> SUFFICES ASSUME Live(id) PROVE HasActive
      BY <2>1
    <3>1. operations[id] \in Record
      BY DEF WorkflowInv, RegistryInv, RegistryTypeOK, Live, Present
    <3>2. operations[id].subject \in Versions \cup Profiles
      BY <3>1 DEF Record
    <3>3. IF IsWorkflow(id) THEN activeWorkflow = id
          ELSE activeVersions[operations[id].subject] = id
      BY DEF WorkflowInv, RegistryInv, SlotsMatchRecords, LiveIsActive
    <3> QED
      BY <3>2, <3>3, NoOpAssumption DEF HasActive, IsWorkflow
  <2>3. ~Running(id)
    BY <2>2 DEF Running, WorkflowInv, Ownership, Owned, OwnedByTask, OwnedByWaiter
  <2> QED
    BY <2>2, <2>3
<1> QED
  BY <1>1, WorkflowIsConsistent, PTL

(* A cancellation that was accepted keeps the game from ever starting, in  *)
(* whatever order the request and the workflow reach mark_spawned.         *)
THEOREM CancelledNeverStarts == WorkflowSafety => []CancelledNeverPlays
<1>1. WorkflowInv => CancelledNeverPlays
  BY DEF WorkflowInv, Ownership, CancelledNeverPlays, PastBoundary
<1> QED
  BY <1>1, WorkflowIsConsistent, PTL

(* Whoever stores a verdict finds the operation live, so no verdict is     *)
(* swallowed (terminate, install_version, GameEventSink::emit).            *)
THEOREM VerdictsAreStored == WorkflowSafety => []VerdictIsStored
<1>1. WorkflowInv => VerdictIsStored
  BY DEF WorkflowInv, Ownership, Owned, OwnedByTask, OwnedByWaiter,
         VerdictIsStored, TaskIs
<1> QED
  BY <1>1, WorkflowIsConsistent, PTL

(* The workflow keeps to the discipline the registry's theorems assume:    *)
(* they hold of every launch.                                              *)
THEOREM WorkflowUsesRegistry == WorkflowSafety => RegistrySpec
<1>1. WorkflowInit => RegistryInit
  BY DEF WorkflowInit
<1>2. WorkflowInv /\ [WorkflowNext]_workflowVars => [RegistryNext]_registryVars
  BY WorkflowStepIsRegistryStep
<1> QED
  BY <1>1, <1>2, WorkflowIsConsistent, PTL DEF WorkflowSafety, RegistrySpec

-----------------------------------------------------------------------------
(* How launches end.                                                       *)

(* The task that owns a launch is done with it, or the task that waits     *)
(* for its game is.                                                        *)
Told(id) == task[id].at = "ended" \/ waiter[id].at = "ended"

(* Before the exit of the game has been judged.                            *)
Unjudged(id) == waiter[id].at \in {"none", "waiting", "judging"}

(* The process registry holds a launch between its two calls of            *)
(* finish_registry; the last event of a launch is sent by who ends it.     *)
Reporting(id) ==
  /\ Unjudged(id) => waiter[id].verdict = "none"
  /\ \A p \in Profiles : activeProfiles[p] = id =>
       /\ p = ProfileOf(id)
       /\ \/ task[id].at \in {"starting", "spawned", "announcing"}
          \/ waiter[id].at \in {"waiting", "judging", "clearing"}
  /\ id \in withPid => task[id].at \in {"announcing", "handedOver"}
  /\ \A i \in 1..Len(events[id]) :
       events[id][i] \in TerminalEvents => i = Len(events[id]) /\ Told(id)

(* A call of stop without a rival is the only one that is under way, and   *)
(* its flag stays up until the exit has been judged.                       *)
Asked(c, id) == stopper[c].of = id /\ stopper[c].at # "refused"
Unrivalled(id) == \A c \in StopCalls : stopper[c].of = id => ~stopper[c].rival
Stopping(id) ==
  /\ \A c \in StopCalls : stopper[c].of = id => id \in withPid
  /\ Unrivalled(id) => \A c, d \in StopCalls : Asked(c, id) /\ Asked(d, id) => c = d
  /\ Unrivalled(id) => \A c \in StopCalls :
       StopAt(c, id, "killing") \/ StopAt(c, id, "stopped") =>
         /\ Unjudged(id) => id \in stopping
         /\ StopAt(c, id, "stopped") => waiter[id].verdict # "error"

GameShape ==
  /\ activeProfiles \in [Profiles -> OperationIds \cup {NoOp}]
  /\ stopper \in [StopCalls ->
       [of : OperationIds \cup {NoOp},
        at : {"none", "killing", "stopped", "withdrawing", "refused"}, rival : BOOLEAN]]
  /\ events \in [OperationIds -> Seq({"started", "exited", "error"})]

OutcomeInv ==
  /\ WorkflowInv
  /\ GameShape
  /\ \A id \in OperationIds : Reporting(id) /\ Stopping(id)

-----------------------------------------------------------------------------
(* The profile of an operation is its own as long as it is live.           *)
LEMMA SubjectsStay ==
  ASSUME WorkflowInv, [WorkflowNext]_workflowVars,
         NEW id \in OperationIds, Live(id), Live(id)'
  PROVE  ProfileOf(id)' = ProfileOf(id)
<1> USE DEF ProfileOf
<1>1. RegistryInv /\ [RegistryNext]_registryVars
  BY WorkflowStepIsRegistryStep DEF WorkflowInv
<1>2. operations \in [OperationIds -> Record \cup {NoRecord}] /\ operations[id] \in Record
  BY <1>1 DEF RegistryInv, RegistryTypeOK, Live, Present
<1>3. ASSUME NEW x \in OperationIds,
             \/ \E v \in Versions : Begin(x, v)
             \/ \E p \in Profiles : BeginLaunch(x, p)
      PROVE  operations'[id] = operations[id]
  BY <1>2, <1>3 DEF Begin, BeginLaunch, Live, Present
<1>4. ASSUME NEW x \in OperationIds, Cancel(x) \/ MarkSpawned(x)
      PROVE  operations'[id].subject = operations[id].subject
  BY <1>2, <1>4 DEF Cancel, MarkSpawned, Record
<1>5. ASSUME NEW x \in OperationIds, NEW state \in Terminal, Finish(x, state)
      PROVE  operations'[id] = operations[id]
  BY <1>1, <1>5, FinishEffects
<1> QED
  BY <1>1, <1>3, <1>4, <1>5 DEF RegistryNext, registryVars

LEMMA GameShapeStep ==
  ASSUME WorkflowInv, GameShape, [WorkflowNext]_workflowVars
  PROVE  GameShape'
<1>1. ASSUME UNCHANGED <<activeProfiles, stopper, events>> PROVE GameShape'
  BY <1>1 DEF GameShape
<1>2. ASSUME NEW id \in OperationIds,
             \/ ReserveProcess(id)
             \/ StartFails(id)
             \/ ClearProcess(id)
      PROVE  GameShape'
  BY <1>2 DEF GameShape, ReserveProcess, StartFails, ClearProcess, FinishRegistry
<1>3. ASSUME NEW id \in OperationIds, NEW e \in {"started", "exited", "error"},
             Emit(id, e), UNCHANGED <<activeProfiles, stopper>>
      PROVE  GameShape'
  BY <1>3 DEF GameShape, Emit
<1>4. ASSUME NEW id \in OperationIds, NEW c \in StopCalls,
             RequestStop(c, id) \/ StopperStep(c, id)
      PROVE  GameShape'
  <2>1. UNCHANGED <<activeProfiles, events>>
    BY <1>4 DEF RequestStop, StopperStep, KillGame, KillFails, WithdrawStop
  <2>2. PICK to \in [of : OperationIds \cup {NoOp},
                     at : {"none", "killing", "stopped", "withdrawing", "refused"},
                     rival : BOOLEAN] :
          stopper' = [stopper EXCEPT ![c] = to]
    <3>1. CASE RequestStop(c, id)
      <4>1. PICK rival \in BOOLEAN :
              stopper' = [stopper EXCEPT ![c] =
                [of |-> id, at |-> "killing", rival |-> rival]]
        BY <3>1 DEF RequestStop
      <4> QED
        BY <4>1
    <3>2. CASE StopperStep(c, id)
      <4>1. PICK at \in {"stopped", "withdrawing", "refused"} : MoveStop(c, at)
        BY <3>2 DEF StopperStep, KillGame, KillFails, WithdrawStop
      <4> QED
        BY <4>1 DEF MoveStop, GameShape
    <3> QED
      BY <1>4, <3>1, <3>2
  <2> QED
    BY <2>1, <2>2 DEF GameShape
<1>5. ASSUME NEW r \in Requests,
             (\E kind \in RequestKinds : TryLock(r, kind)) \/ RequestStep(r)
      PROVE  GameShape'
  BY <1>1, <1>5 DEF RequestStep, TryLock, RefuseBusy, Admit, EndMutation, BeginInstall,
                    CheckGame, ReserveLaunch, SendAnswer, gameVars
<1>6. ASSUME NEW id \in OperationIds, TaskStep(id) PROVE GameShape'
  <2>1. CASE AnnounceStart(id) \/ ReportError(id)
    BY <1>3, <2>1 DEF AnnounceStart, ReportError, gameVars
  <2> QED
    BY <1>1, <1>2, <1>6, <2>1
       DEF TaskStep, StageSucceeds, StageCancelled, StageFails, EnterSpawnBoundary,
           SpawnChild, RecordPid, Terminate, InstallerReturns, CloseInstall, gameVars
<1>7. ASSUME NEW id \in OperationIds, WaiterStep(id) PROVE GameShape'
  <2>1. CASE ForwardGameEvent(id)
    BY <1>3, <2>1 DEF ForwardGameEvent
  <2> QED
    BY <1>1, <1>2, <1>7, <2>1 DEF WaiterStep, ChildReaped, JudgeExit, FinishGameOperation
<1>8. ASSUME NEW id \in OperationIds,
             \/ CancelOperation(id)
             \/ WaitFails(id)
             \/ \E how \in {"exited", "crashed"} : GameEnds(id, how)
      PROVE  GameShape'
  BY <1>1, <1>8 DEF CancelOperation, WaitFails, GameEnds, gameVars
<1>9. CASE UNCHANGED workflowVars
  BY <1>1, <1>9 DEF workflowVars, gameVars
<1> QED
  BY <1>4, <1>5, <1>6, <1>7, <1>8, <1>9 DEF WorkflowNext

-----------------------------------------------------------------------------
(* What a step that is about another launch leaves alone.                  *)
Apart(x) ==
  /\ task'[x] = task[x] /\ waiter'[x] = waiter[x] /\ events'[x] = events[x]
  /\ (x \in withPid') <=> (x \in withPid)
  /\ (x \in stopping') <=> (x \in stopping)
  /\ \A p \in Profiles : activeProfiles'[p] = x => activeProfiles[p] = x
  /\ \A c \in StopCalls :
       stopper[c].of = x \/ stopper'[c].of = x => stopper'[c] = stopper[c]

(* A slot is held by a live launch, under its own profile.                 *)
LEMMA HolderIsLive ==
  ASSUME WorkflowInv, NEW id \in OperationIds,
         \/ task[id].at \in {"starting", "spawned", "announcing"}
         \/ waiter[id].at \in {"waiting", "judging", "clearing"}
  PROVE  Live(id)
BY DEF WorkflowInv, Ownership, Owned, OwnedByTask, OwnedByWaiter

LEMMA SlotsFrame ==
  ASSUME WorkflowInv, WorkflowInv', [WorkflowNext]_workflowVars,
         NEW x \in OperationIds, Reporting(x), NEW p \in Profiles,
         activeProfiles[p] = x,
         \/ task'[x].at \in {"starting", "spawned", "announcing"}
         \/ waiter'[x].at \in {"waiting", "judging", "clearing"}
  PROVE  p = ProfileOf(x)'
<1>1. Live(x)
  BY HolderIsLive DEF Reporting
<1>2. Live(x)'
  BY DEF WorkflowInv, Ownership, Owned, OwnedByTask, OwnedByWaiter
<1>3. ProfileOf(x)' = ProfileOf(x)
  BY <1>1, <1>2, SubjectsStay
<1> QED
  BY <1>3 DEF Reporting

LEMMA ReportingFrame ==
  ASSUME WorkflowInv, WorkflowInv', [WorkflowNext]_workflowVars,
         NEW x \in OperationIds, Reporting(x), Apart(x)
  PROVE  Reporting(x)'
<1>1. ASSUME NEW p \in Profiles, activeProfiles'[p] = x
      PROVE  /\ p = ProfileOf(x)'
             /\ \/ task'[x].at \in {"starting", "spawned", "announcing"}
                \/ waiter'[x].at \in {"waiting", "judging", "clearing"}
  <2>1. activeProfiles[p] = x
    BY <1>1 DEF Apart
  <2>2. \/ task'[x].at \in {"starting", "spawned", "announcing"}
        \/ waiter'[x].at \in {"waiting", "judging", "clearing"}
    BY <2>1 DEF Reporting, Apart
  <2> QED
    BY <2>1, <2>2, SlotsFrame
<1> QED
  BY <1>1 DEF Reporting, Apart, Unjudged, Told

LEMMA StoppingFrame ==
  ASSUME NEW x \in OperationIds, Stopping(x),
         Unjudged(x)' => Unjudged(x),
         waiter'[x].verdict = waiter[x].verdict,
         x \in withPid => x \in withPid',
         Unjudged(x)' => (x \in stopping => x \in stopping'),
         \A c \in StopCalls :
           stopper[c].of = x \/ stopper'[c].of = x => stopper'[c] = stopper[c]
  PROVE  Stopping(x)'
BY DEF Stopping, Unrivalled, Asked, StopAt

(* What a step of one launch has to show.                                  *)
LEMMA OutcomeStep ==
  ASSUME OutcomeInv, [WorkflowNext]_workflowVars, NEW id \in OperationIds,
         \A x \in OperationIds \ {id} : Apart(x),
         WorkflowInv' /\ GameShape' => Reporting(id)' /\ Stopping(id)'
  PROVE  OutcomeInv'
<1>1. WorkflowInv' /\ GameShape'
  BY WorkflowStepPreserves, GameShapeStep DEF OutcomeInv
<1>2. ASSUME NEW x \in OperationIds \ {id} PROVE Reporting(x)' /\ Stopping(x)'
  <2>1. Reporting(x)'
    BY <1>1, ReportingFrame DEF OutcomeInv
  <2>2. Stopping(x)'
    BY StoppingFrame DEF OutcomeInv, Apart, Unjudged
  <2> QED
    BY <2>1, <2>2
<1> QED
  BY <1>1, <1>2 DEF OutcomeInv

LEMMA OutcomeInitEstablishes == WorkflowInit => OutcomeInv
<1> SUFFICES ASSUME WorkflowInit PROVE OutcomeInv
  OBVIOUS
<1>1. WorkflowInv
  BY WorkflowInitEstablishes
<1>2. GameShape
  BY DEF WorkflowInit, GameShape, NoStop
<1>3. ASSUME NEW id \in OperationIds PROVE Reporting(id) /\ Stopping(id)
  BY NoOpAssumption DEF WorkflowInit, Reporting, Stopping, NoWaiter, NoStop, Asked,
     Unrivalled, StopAt
<1> QED
  BY <1>1, <1>2, <1>3 DEF OutcomeInv

-----------------------------------------------------------------------------
(* What a step of the launch itself has to show of the report.             *)
LEMMA ReportingStep ==
  ASSUME WorkflowInv, WorkflowInv', [WorkflowNext]_workflowVars,
         NEW id \in OperationIds, Reporting(id),
         Unjudged(id)' => waiter'[id].verdict = "none",
         \A p \in Profiles : activeProfiles'[p] = id =>
           /\ activeProfiles[p] = id
           /\ \/ task'[id].at \in {"starting", "spawned", "announcing"}
              \/ waiter'[id].at \in {"waiting", "judging", "clearing"},
         id \in withPid' => task'[id].at \in {"announcing", "handedOver"},
         \A i \in 1..Len(events'[id]) : events'[id][i] \in TerminalEvents =>
           i = Len(events'[id]) /\ Told(id)'
  PROVE  Reporting(id)'
BY SlotsFrame DEF Reporting

(* Whoever sends an event is the first to send a last one.                 *)
LEMMA EmitStep ==
  ASSUME GameShape, NEW id \in OperationIds, Reporting(id), ~Told(id),
         NEW e \in {"started", "exited", "error"}, Emit(id, e),
         e \in TerminalEvents => Told(id)'
  PROVE  /\ \A i \in 1..Len(events'[id]) : events'[id][i] \in TerminalEvents =>
              i = Len(events'[id]) /\ Told(id)'
         /\ \A x \in OperationIds \ {id} : events'[x] = events[x]
<1> DEFINE old == events[id]
<1>1. old \in Seq({"started", "exited", "error"})
  BY DEF GameShape
<1>2. /\ events'[id] = Append(old, e)
      /\ \A x \in OperationIds \ {id} : events'[x] = events[x]
  BY DEF Emit, GameShape
<1>3. \A i \in 1..Len(old) : old[i] \notin TerminalEvents
  BY DEF Reporting
<1> HIDE DEF old
<1>4. /\ Len(Append(old, e)) = Len(old) + 1
      /\ Append(old, e)[Len(old) + 1] = e
      /\ \A i \in 1..Len(old) : Append(old, e)[i] = old[i]
      /\ Len(old) \in Nat
  BY <1>1
<1>5. ASSUME NEW i \in 1..Len(events'[id]), events'[id][i] \in TerminalEvents
      PROVE  i = Len(events'[id]) /\ Told(id)'
  <2>1. i = Len(old) + 1
    BY <1>2, <1>3, <1>4, <1>5
  <2> QED
    BY <1>2, <1>4, <1>5, <2>1
<1> QED
  BY <1>2, <1>5

(* A step that leaves the calls of stop and the flags alone.               *)
LEMMA NobodyStops ==
  ASSUME NEW id \in OperationIds, Stopping(id), UNCHANGED stopper,
         id \in withPid => id \in withPid',
         \A c \in StopCalls : stopper[c].of = id =>
           /\ Unjudged(id)' => Unjudged(id)
           /\ waiter'[id].verdict = waiter[id].verdict
           /\ Unjudged(id)' => (id \in stopping => id \in stopping')
  PROVE  Stopping(id)'
BY DEF Stopping, Unrivalled, Asked, StopAt

-----------------------------------------------------------------------------
(* Steps that no launch notices.                                           *)
LEMMA UnnoticedOutcome ==
  ASSUME OutcomeInv, [WorkflowNext]_workflowVars,
         UNCHANGED <<task, activeProfiles, withPid, stopping, waiter, stopper, events>>
  PROVE  OutcomeInv'
<1>1. WorkflowInv' /\ GameShape'
  BY WorkflowStepPreserves, GameShapeStep DEF OutcomeInv
<1>2. ASSUME NEW x \in OperationIds PROVE Reporting(x)' /\ Stopping(x)'
  <2>1. Apart(x)
    BY DEF Apart
  <2>2. Reporting(x)'
    BY <1>1, <2>1, ReportingFrame DEF OutcomeInv
  <2>3. Stopping(x)'
    BY StoppingFrame DEF OutcomeInv, Unjudged
  <2> QED
    BY <2>2, <2>3
<1> QED
  BY <1>1, <1>2 DEF OutcomeInv

(* The task of an operation moves where no process is reserved.            *)
LEMMA TaskOutcome ==
  ASSUME OutcomeInv, [WorkflowNext]_workflowVars, NEW id \in OperationIds,
         \A x \in OperationIds \ {id} : task'[x] = task[x],
         task[id].at \notin {"starting", "spawned", "announcing", "handedOver", "ended"},
         UNCHANGED <<gameVars, events>>
  PROVE  OutcomeInv'
<1>1. \A x \in OperationIds \ {id} : Apart(x)
  BY DEF Apart, gameVars
<1>2. waiter[id].at = "none" /\ id \notin withPid
  BY DEF OutcomeInv, WorkflowInv, Ownership, Reporting
<1>3. \A p \in Profiles : activeProfiles[p] # id
  BY <1>2 DEF OutcomeInv, Reporting
<1>4. \A i \in 1..Len(events[id]) : events[id][i] \notin TerminalEvents
  BY <1>2 DEF OutcomeInv, Reporting, Told
<1>5. ASSUME WorkflowInv' PROVE Reporting(id)'
  BY <1>2, <1>3, <1>4, <1>5, ReportingStep DEF OutcomeInv, Reporting, Unjudged, gameVars
<1>6. Stopping(id)'
  BY <1>2, NobodyStops DEF OutcomeInv, Stopping, gameVars
<1> QED
  BY <1>1, <1>5, <1>6, OutcomeStep

LEMMA RequestOutcome ==
  ASSUME OutcomeInv, [WorkflowNext]_workflowVars, NEW r \in Requests,
         (\E kind \in RequestKinds : TryLock(r, kind)) \/ RequestStep(r)
  PROVE  OutcomeInv'
<1>1. ASSUME NEW id \in OperationIds,
             \/ \E v \in Versions : BeginInstall(r, id, v)
             \/ \E p \in Profiles : ReserveLaunch(r, id, p)
      PROVE  OutcomeInv'
  <2>1. /\ task[id].at = "none"
        /\ \A x \in OperationIds \ {id} : task'[x] = task[x]
        /\ UNCHANGED <<gameVars, events>>
    BY <1>1 DEF BeginInstall, ReserveLaunch, NoTask, OutcomeInv, WorkflowInv, Shape
  <2> QED
    BY <2>1, TaskOutcome
<1>2. CASE ~\E id \in OperationIds : \/ \E v \in Versions : BeginInstall(r, id, v)
                                     \/ \E p \in Profiles : ReserveLaunch(r, id, p)
  BY <1>2, UnnoticedOutcome DEF RequestStep, TryLock, RefuseBusy, Admit, EndMutation,
     CheckGame, SendAnswer, gameVars
<1> QED
  BY <1>1, <1>2

LEMMA EarlyTaskOutcome ==
  ASSUME OutcomeInv, [WorkflowNext]_workflowVars, NEW id \in OperationIds,
         \/ StageSucceeds(id) \/ StageCancelled(id) \/ StageFails(id)
         \/ EnterSpawnBoundary(id)
         \/ Terminate(id)
         \/ \E verdict \in Terminal : InstallerReturns(id, verdict)
         \/ CloseInstall(id)
  PROVE  OutcomeInv'
<1>1. /\ task[id].at \notin {"starting", "spawned", "announcing", "handedOver", "ended"}
      /\ UNCHANGED <<gameVars, events>>
  BY StagesAre DEF StageSucceeds, StageCancelled, StageFails, EnterSpawnBoundary,
     Terminate, InstallerReturns, CloseInstall, TaskIs
<1>2. \E next : task' = [task EXCEPT ![id] = next]
  BY DEF StageSucceeds, StageCancelled, StageFails, EnterSpawnBoundary,
     Terminate, InstallerReturns, CloseInstall, MoveTask, Fail
<1>3. \A x \in OperationIds \ {id} : task'[x] = task[x]
  BY <1>2 DEF OutcomeInv, WorkflowInv, Shape
<1> QED
  BY <1>1, <1>3, TaskOutcome

LEMMA ReportErrorOutcome ==
  ASSUME OutcomeInv, [WorkflowNext]_workflowVars, NEW id \in OperationIds,
         ReportError(id)
  PROVE  OutcomeInv'
<1>1. /\ task[id].at = "reporting" /\ Emit(id, "error") /\ UNCHANGED gameVars
      /\ MoveTask(id, "ended")
  BY DEF ReportError, TaskIs
<1>2. /\ task'[id].at = "ended"
      /\ \A x \in OperationIds \ {id} : task'[x] = task[x]
  BY <1>1, MovedTask DEF OutcomeInv, WorkflowInv, Shape
<1>3. waiter[id].at = "none" /\ id \notin withPid
  BY <1>1 DEF OutcomeInv, WorkflowInv, Ownership, Reporting
<1>4. \A p \in Profiles : activeProfiles[p] # id
  BY <1>1, <1>3 DEF OutcomeInv, Reporting
<1>5. /\ \A i \in 1..Len(events'[id]) : events'[id][i] \in TerminalEvents =>
           i = Len(events'[id]) /\ Told(id)'
      /\ \A x \in OperationIds \ {id} : events'[x] = events[x]
  BY <1>1, <1>2, <1>3, EmitStep DEF OutcomeInv, Told
<1>6. \A x \in OperationIds \ {id} : Apart(x)
  BY <1>1, <1>2, <1>5 DEF Apart, gameVars
<1>7. ASSUME WorkflowInv' PROVE Reporting(id)'
  BY <1>1, <1>3, <1>4, <1>5, <1>7, ReportingStep DEF OutcomeInv, Reporting, Unjudged, gameVars
<1>8. Stopping(id)'
  BY <1>1, <1>3, NobodyStops DEF OutcomeInv, Stopping, gameVars
<1> QED
  BY <1>6, <1>7, <1>8, OutcomeStep

-----------------------------------------------------------------------------
(* The process is reserved, started and handed over.                       *)
LEMMA ReserveOutcome ==
  ASSUME OutcomeInv, [WorkflowNext]_workflowVars, NEW id \in OperationIds,
         ReserveProcess(id)
  PROVE  OutcomeInv'
<1>1. /\ task[id].at = "reserving" /\ waiter[id].at = "none" /\ id \notin withPid
      /\ UNCHANGED <<registryVars, withPid, stopping, process, waiter, stopper, events>>
  BY DEF ReserveProcess, TaskIs, OutcomeInv, WorkflowInv, Ownership, Reporting
<1>2. CASE GameActive
  <2>1. Fail(id, "failed") /\ UNCHANGED gameVars
    BY <1>1, <1>2 DEF ReserveProcess, gameVars
  <2>2. \A x \in OperationIds \ {id} : task'[x] = task[x]
    BY <2>1 DEF Fail, OutcomeInv, WorkflowInv, Shape
  <2> QED
    BY <1>1, <2>1, <2>2, TaskOutcome
<1>3. CASE ~GameActive
  <2>1. /\ MoveTask(id, "starting")
        /\ activeProfiles' = [activeProfiles EXCEPT ![ProfileOf(id)] = id]
    BY <1>3 DEF ReserveProcess
  <2>2. task'[id].at = "starting" /\ \A x \in OperationIds \ {id} : task'[x] = task[x]
    BY <2>1, MovedTask DEF OutcomeInv, WorkflowInv, Shape
  <2>3. \A p \in Profiles : /\ activeProfiles[p] = NoOp
                            /\ activeProfiles'[p] \in {NoOp, id}
                            /\ activeProfiles'[p] = id => p = ProfileOf(id)
    BY <1>3, <2>1, NoOpAssumption DEF GameActive, OutcomeInv, GameShape
  <2>4. \A x \in OperationIds \ {id} : Apart(x)
    BY <1>1, <2>2, <2>3, NoOpAssumption DEF Apart
  <2>5. ProfileOf(id)' = ProfileOf(id)
    BY <1>1 DEF ProfileOf, registryVars
  <2>6. \A i \in 1..Len(events[id]) : events[id][i] \notin TerminalEvents
    BY <1>1 DEF OutcomeInv, Reporting, Told
  <2>7. Reporting(id)'
    BY <1>1, <2>2, <2>3, <2>5, <2>6 DEF OutcomeInv, Reporting, Unjudged
  <2>8. Stopping(id)'
    BY <1>1, NobodyStops DEF OutcomeInv, Stopping
  <2> QED
    BY <2>4, <2>7, <2>8, OutcomeStep
<1> QED
  BY <1>2, <1>3

(* finish_registry leaves no slot to the launch.                           *)
LEMMA SlotReleased ==
  ASSUME GameShape, NEW id \in OperationIds, Reporting(id), FinishRegistry(id)
  PROVE  \A p \in Profiles : /\ activeProfiles'[p] # id
                             /\ activeProfiles'[p] \in {activeProfiles[p], NoOp}
BY NoOpAssumption DEF GameShape, Reporting, FinishRegistry

LEMMA StartFailsOutcome ==
  ASSUME OutcomeInv, [WorkflowNext]_workflowVars, NEW id \in OperationIds,
         StartFails(id)
  PROVE  OutcomeInv'
<1>1. /\ task[id].at = "starting" /\ waiter[id].at = "none" /\ id \notin withPid
      /\ FinishRegistry(id) /\ Fail(id, "failed")
      /\ UNCHANGED <<withPid, process, waiter, stopper, events>>
  BY DEF StartFails, TaskIs, OutcomeInv, WorkflowInv, Ownership, Reporting
<1>2. \A x \in OperationIds \ {id} : task'[x] = task[x]
  BY <1>1 DEF Fail, OutcomeInv, WorkflowInv, Shape
<1>3. \A p \in Profiles : /\ activeProfiles'[p] # id
                          /\ activeProfiles'[p] \in {activeProfiles[p], NoOp}
  BY <1>1, SlotReleased DEF OutcomeInv
<1>4. \A x \in OperationIds \ {id} : Apart(x)
  BY <1>1, <1>2, <1>3, NoOpAssumption DEF Apart, FinishRegistry
<1>5. \A i \in 1..Len(events[id]) : events[id][i] \notin TerminalEvents
  BY <1>1 DEF OutcomeInv, Reporting, Told
<1>6. ASSUME WorkflowInv' PROVE Reporting(id)'
  BY <1>1, <1>3, <1>5, <1>6, ReportingStep DEF OutcomeInv, Reporting, Unjudged
<1>7. Stopping(id)'
  BY <1>1, NobodyStops DEF OutcomeInv, Stopping
<1> QED
  BY <1>4, <1>6, <1>7, OutcomeStep

LEMMA StartOutcome ==
  ASSUME OutcomeInv, [WorkflowNext]_workflowVars, NEW id \in OperationIds,
         SpawnChild(id) \/ RecordPid(id)
  PROVE  OutcomeInv'
<1>1. /\ waiter[id].at = "none"
      /\ UNCHANGED <<activeProfiles, stopping, waiter, stopper, events>>
      /\ task[id].at \in {"starting", "spawned"}
  BY DEF SpawnChild, RecordPid, TaskIs, OutcomeInv, WorkflowInv, Ownership
<1>2. id \notin withPid
  BY <1>1 DEF OutcomeInv, Reporting
<1>3. PICK phase \in {"spawned", "announcing"} :
        /\ MoveTask(id, phase)
        /\ withPid' = IF phase = "announcing" THEN withPid \cup {id} ELSE withPid
  <2>1. CASE SpawnChild(id)
    BY <2>1 DEF SpawnChild
  <2>2. CASE RecordPid(id)
    BY <2>2 DEF RecordPid
  <2> QED
    BY <2>1, <2>2
<1>4. task'[id].at = phase /\ \A x \in OperationIds \ {id} : task'[x] = task[x]
  BY <1>3, MovedTask DEF OutcomeInv, WorkflowInv, Shape
<1>5. \A x \in OperationIds \ {id} : Apart(x)
  BY <1>1, <1>3, <1>4 DEF Apart
<1>6. \A i \in 1..Len(events[id]) : events[id][i] \notin TerminalEvents
  BY <1>1 DEF OutcomeInv, Reporting, Told
<1>7. ASSUME WorkflowInv' PROVE Reporting(id)'
  BY <1>1, <1>2, <1>3, <1>4, <1>6, <1>7, ReportingStep
     DEF OutcomeInv, Reporting, Unjudged
<1>8. Stopping(id)'
  BY <1>1, <1>2, <1>3, NobodyStops DEF OutcomeInv, Stopping
<1> QED
  BY <1>5, <1>7, <1>8, OutcomeStep

LEMMA AnnounceOutcome ==
  ASSUME OutcomeInv, [WorkflowNext]_workflowVars, NEW id \in OperationIds,
         AnnounceStart(id)
  PROVE  OutcomeInv'
<1>1. /\ task[id].at = "announcing" /\ waiter[id].at = "none"
      /\ Emit(id, "started") /\ MoveTask(id, "handedOver")
      /\ waiter' = [waiter EXCEPT ![id].at = "waiting"]
      /\ UNCHANGED <<activeProfiles, withPid, stopping, stopper>>
  BY DEF AnnounceStart, TaskIs, OutcomeInv, WorkflowInv, Ownership
<1>2. /\ task'[id].at = "handedOver"
      /\ \A x \in OperationIds \ {id} : task'[x] = task[x]
  BY <1>1, MovedTask DEF OutcomeInv, WorkflowInv, Shape
<1>3. /\ waiter'[id].at = "waiting" /\ waiter'[id].verdict = waiter[id].verdict
      /\ \A x \in OperationIds \ {id} : waiter'[x] = waiter[x]
  BY <1>1 DEF OutcomeInv, WorkflowInv, Shape
<1>4. /\ \A i \in 1..Len(events'[id]) : events'[id][i] \in TerminalEvents =>
           i = Len(events'[id]) /\ Told(id)'
      /\ \A x \in OperationIds \ {id} : events'[x] = events[x]
  BY <1>1, EmitStep DEF OutcomeInv, Told, TerminalEvents
<1>5. \A x \in OperationIds \ {id} : Apart(x)
  BY <1>1, <1>2, <1>3, <1>4 DEF Apart
<1>6. ASSUME WorkflowInv' PROVE Reporting(id)'
  BY <1>1, <1>2, <1>3, <1>4, <1>6, ReportingStep DEF OutcomeInv, Reporting, Unjudged
<1>7. Stopping(id)'
  BY <1>1, <1>3, NobodyStops DEF OutcomeInv, Unjudged
<1> QED
  BY <1>5, <1>6, <1>7, OutcomeStep

-----------------------------------------------------------------------------
(* The game ends, is judged and is reported.                               *)

(* A step of the waiter that holds on to the slot.                         *)
LEMMA WaiterOutcome ==
  ASSUME OutcomeInv, [WorkflowNext]_workflowVars, NEW id \in OperationIds,
         ChildReaped(id) \/ JudgeExit(id) \/ WaitFails(id)
  PROVE  OutcomeInv'
<1>1. /\ UNCHANGED <<task, activeProfiles, withPid, stopping, stopper, events>>
      /\ waiter[id].at \in {"waiting", "judging"}
      /\ task[id].at = "handedOver"
      /\ waiter[id].verdict = "none"
  BY DEF ChildReaped, JudgeExit, WaitFails, WaiterIs, OutcomeInv, WorkflowInv, Ownership,
         Reporting, Unjudged
<1>2. PICK at \in {"judging", "clearing"}, verdict \in {"none", "exited", "error", "lost"} :
        /\ waiter' = [waiter EXCEPT ![id] = [at |-> at, verdict |-> verdict]]
        /\ at = "judging" => verdict = "none"
        /\ verdict = "error" => id \notin stopping
  <2>1. CASE ChildReaped(id)
    BY <1>1, <2>1, MovedWaiter DEF ChildReaped, OutcomeInv, WorkflowInv
  <2>2. CASE JudgeExit(id)
    BY <2>2 DEF JudgeExit
  <2>3. CASE WaitFails(id)
    BY <2>3 DEF WaitFails
  <2> QED
    BY <2>1, <2>2, <2>3
<1>3. /\ waiter'[id].at = at /\ waiter'[id].verdict = verdict
      /\ \A x \in OperationIds \ {id} : waiter'[x] = waiter[x]
  BY <1>2 DEF OutcomeInv, WorkflowInv, Shape
<1>4. \A x \in OperationIds \ {id} : Apart(x)
  BY <1>1, <1>3 DEF Apart
<1>5. \A i \in 1..Len(events[id]) : events[id][i] \notin TerminalEvents
  BY <1>1 DEF OutcomeInv, Reporting, Told
<1>6. ASSUME WorkflowInv' PROVE Reporting(id)'
  BY <1>1, <1>2, <1>3, <1>5, <1>6, ReportingStep DEF OutcomeInv, Reporting, Unjudged
<1>7. Stopping(id)'
  BY <1>1, <1>2, <1>3 DEF OutcomeInv, Stopping, Unrivalled, Asked, StopAt, Unjudged
<1> QED
  BY <1>4, <1>6, <1>7, OutcomeStep

LEMMA ClearOutcome ==
  ASSUME OutcomeInv, [WorkflowNext]_workflowVars, NEW id \in OperationIds,
         ClearProcess(id)
  PROVE  OutcomeInv'
<1>1. /\ waiter[id].at = "clearing" /\ task[id].at = "handedOver"
      /\ FinishRegistry(id) /\ MoveWaiter(id, "finishing")
      /\ UNCHANGED <<task, withPid, process, stopper, events>>
  BY DEF ClearProcess, WaiterIs, OutcomeInv, WorkflowInv, Ownership
<1>2. /\ waiter'[id].at = "finishing" /\ waiter'[id].verdict = waiter[id].verdict
      /\ \A x \in OperationIds \ {id} : waiter'[x] = waiter[x]
  BY <1>1, MovedWaiter DEF OutcomeInv, WorkflowInv, Shape
<1>3. \A p \in Profiles : /\ activeProfiles'[p] # id
                          /\ activeProfiles'[p] \in {activeProfiles[p], NoOp}
  BY <1>1, SlotReleased DEF OutcomeInv
<1>4. \A x \in OperationIds \ {id} : Apart(x)
  BY <1>1, <1>2, <1>3, NoOpAssumption DEF Apart, FinishRegistry
<1>5. \A i \in 1..Len(events[id]) : events[id][i] \notin TerminalEvents
  BY <1>1 DEF OutcomeInv, Reporting, Told
<1>6. ASSUME WorkflowInv' PROVE Reporting(id)'
  BY <1>1, <1>2, <1>3, <1>5, <1>6, ReportingStep DEF OutcomeInv, Reporting, Unjudged
<1>7. Stopping(id)'
  BY <1>1, <1>2, NobodyStops DEF OutcomeInv, Unjudged
<1> QED
  BY <1>4, <1>6, <1>7, OutcomeStep

LEMMA LastReportOutcome ==
  ASSUME OutcomeInv, [WorkflowNext]_workflowVars, NEW id \in OperationIds,
         FinishGameOperation(id) \/ ForwardGameEvent(id)
  PROVE  OutcomeInv'
<1>1. /\ waiter[id].at \in {"finishing", "emitting"} /\ task[id].at = "handedOver"
      /\ UNCHANGED <<task, activeProfiles, withPid, stopping, stopper>>
  BY DEF FinishGameOperation, ForwardGameEvent, WaiterIs, OutcomeInv, WorkflowInv, Ownership
<1>2. \A p \in Profiles : activeProfiles[p] # id
  BY <1>1 DEF OutcomeInv, Reporting
<1>3. PICK phase \in {"emitting", "ended"} : MoveWaiter(id, phase)
  BY DEF FinishGameOperation, ForwardGameEvent
<1>4. /\ waiter'[id].at = phase /\ waiter'[id].verdict = waiter[id].verdict
      /\ \A x \in OperationIds \ {id} : waiter'[x] = waiter[x]
  BY <1>3, MovedWaiter DEF OutcomeInv, WorkflowInv, Shape
<1>5. /\ \A i \in 1..Len(events'[id]) : events'[id][i] \in TerminalEvents =>
           i = Len(events'[id]) /\ Told(id)'
      /\ \A x \in OperationIds \ {id} : events'[x] = events[x]
  <2>1. CASE FinishGameOperation(id)
    BY <1>1, <2>1 DEF FinishGameOperation, OutcomeInv, Reporting, Told
  <2>2. CASE ForwardGameEvent(id)
    <3>1. waiter'[id].at = "ended"
      BY <2>2, MovedWaiter DEF ForwardGameEvent, OutcomeInv, WorkflowInv, Shape
    <3>2. PICK e \in {"exited", "error"} : Emit(id, e)
      BY <2>2 DEF ForwardGameEvent
    <3> QED
      BY <1>1, <3>1, <3>2, EmitStep DEF OutcomeInv, Told
  <2> QED
    BY <2>1, <2>2
<1>6. \A x \in OperationIds \ {id} : Apart(x)
  BY <1>1, <1>4, <1>5 DEF Apart
<1>7. ASSUME WorkflowInv' PROVE Reporting(id)'
  BY <1>1, <1>2, <1>4, <1>5, <1>7, ReportingStep DEF OutcomeInv, Reporting, Unjudged
<1>8. Stopping(id)'
  BY <1>1, <1>4, NobodyStops DEF OutcomeInv, Unjudged
<1> QED
  BY <1>6, <1>7, <1>8, OutcomeStep

-----------------------------------------------------------------------------
(* The calls that stop a game.                                             *)
LEMMA MovedStop ==
  ASSUME GameShape, NEW c \in StopCalls, NEW phase, MoveStop(c, phase)
  PROVE  /\ stopper'[c].of = stopper[c].of
         /\ stopper'[c].at = phase
         /\ stopper'[c].rival = stopper[c].rival
         /\ \A d \in StopCalls \ {c} : stopper'[d] = stopper[d]
BY DEF GameShape, MoveStop

LEMMA RequestStopOutcome ==
  ASSUME OutcomeInv, [WorkflowNext]_workflowVars, NEW id \in OperationIds,
         NEW c \in StopCalls, RequestStop(c, id)
  PROVE  OutcomeInv'
<1>1. /\ stopper[c] = NoStop /\ id \in withPid
      /\ stopping' = stopping \cup {id}
      /\ UNCHANGED <<task, activeProfiles, withPid, waiter, events>>
  BY DEF RequestStop
<1>2. PICK rival \in BOOLEAN :
        /\ stopper' = [stopper EXCEPT ![c] =
             [of |-> id, at |-> "killing", rival |-> rival]]
        /\ rival <=> \E d \in StopCalls : Stops(d, id)
  BY DEF RequestStop
<1>3. /\ stopper'[c].of = id /\ stopper'[c].at = "killing"
      /\ stopper'[c].rival = rival
      /\ \A d \in StopCalls \ {c} : stopper'[d] = stopper[d]
  BY <1>2 DEF OutcomeInv, GameShape
<1>4. stopper[c].of = NoOp
  BY <1>1 DEF NoStop
<1>5. \A x \in OperationIds \ {id} : Apart(x)
  BY <1>1, <1>3, <1>4, NoOpAssumption DEF Apart
<1>6. ASSUME WorkflowInv' PROVE Reporting(id)'
  BY <1>1, <1>6, ReportingStep DEF OutcomeInv, Reporting, Unjudged, Told
<1>7. Stopping(id)'
  <2>1. ASSUME Unrivalled(id)' PROVE \A d \in StopCalls : ~Asked(d, id)
    BY <1>2, <1>3, <1>4, <2>1, NoOpAssumption DEF Unrivalled, Asked, Stops
  <2>2. ASSUME Unrivalled(id)', NEW d \in StopCalls, Asked(d, id)' PROVE d = c
    BY <1>3, <2>1, <2>2 DEF Asked
  <2>3. \A d \in StopCalls : stopper'[d].of = id => id \in withPid'
    BY <1>1
  <2>4. id \in stopping'
    BY <1>1
  <2>5. ASSUME NEW d \in StopCalls, StopAt(d, id, "stopped")' PROVE ~Unrivalled(id)'
    BY <1>3, <2>2, <2>5 DEF Asked, StopAt
  <2> QED
    BY <2>2, <2>3, <2>4, <2>5 DEF Stopping
<1> QED
  BY <1>5, <1>6, <1>7, OutcomeStep

LEMMA StopperOutcome ==
  ASSUME OutcomeInv, [WorkflowNext]_workflowVars, NEW id \in OperationIds,
         NEW c \in StopCalls, StopperStep(c, id)
  PROVE  OutcomeInv'
<1>1. /\ stopper[c].of = id
      /\ UNCHANGED <<task, activeProfiles, withPid, waiter, events>>
      /\ stopping' \in {stopping, stopping \ {id}}
  BY DEF StopperStep, KillGame, KillFails, WithdrawStop, StopAt
<1>2. PICK phase \in {"stopped", "withdrawing", "refused"} : MoveStop(c, phase)
  BY DEF StopperStep, KillGame, KillFails, WithdrawStop
<1>3. /\ stopper'[c].of = id /\ stopper'[c].at = phase
      /\ stopper'[c].rival = stopper[c].rival
      /\ \A d \in StopCalls \ {c} : stopper'[d] = stopper[d]
  BY <1>1, <1>2, MovedStop DEF OutcomeInv
<1>4. \A x \in OperationIds \ {id} : Apart(x)
  BY <1>1, <1>3 DEF Apart
<1>5. ASSUME WorkflowInv' PROVE Reporting(id)'
  BY <1>1, <1>5, ReportingStep DEF OutcomeInv, Reporting, Unjudged, Told
<1>6. Stopping(id) /\ (Unrivalled(id)' => Unrivalled(id))
  BY <1>1, <1>3 DEF OutcomeInv, Unrivalled
<1>7. \A d \in StopCalls : stopper'[d].of = id => id \in withPid'
  BY <1>1, <1>3, <1>6 DEF Stopping
<1>8. stopper[c].at \in {"killing", "withdrawing"} /\ Asked(c, id)
  BY DEF StopperStep, KillGame, KillFails, WithdrawStop, StopAt, Asked
<1>9. ASSUME Unrivalled(id)' PROVE \A d \in StopCalls : Asked(d, id)' => d = c
  BY <1>3, <1>6, <1>8, <1>9 DEF Stopping, Asked
<1>10. Stopping(id)'
  <2>1. CASE KillGame(c, id)
    <3>1. process[id] = "running" /\ stopping' = stopping /\ stopper[c].at = "killing"
      BY <2>1 DEF KillGame, StopAt
    <3>2. waiter[id].at \in {"none", "waiting"}
      BY <3>1, OnlyWaitedForRuns DEF OutcomeInv, WorkflowInv, Ownership
    <3>3. waiter'[id].verdict = "none"
      BY <1>1, <3>2 DEF OutcomeInv, Reporting, Unjudged
    <3>4. Unrivalled(id)' => id \in stopping'
      BY <1>1, <1>6, <3>1, <3>2 DEF Stopping, StopAt, Unjudged
    <3> QED
      BY <1>7, <1>9, <3>3, <3>4 DEF Stopping
  <2>2. CASE KillFails(c, id) \/ WithdrawStop(c, id)
    <3>1. stopper'[c].at \in {"withdrawing", "refused"}
      BY <2>2, MovedStop DEF KillFails, WithdrawStop, OutcomeInv
    <3>2. ASSUME Unrivalled(id)', NEW d \in StopCalls
          PROVE  ~StopAt(d, id, "killing")' /\ ~StopAt(d, id, "stopped")'
      BY <1>9, <3>1, <3>2 DEF StopAt, Asked
    <3> QED
      BY <1>7, <1>9, <3>2 DEF Stopping
  <2> QED
    BY <2>1, <2>2 DEF StopperStep
<1> QED
  BY <1>4, <1>5, <1>10, OutcomeStep

LEMMA OutcomeStepPreserves ==
  ASSUME OutcomeInv, [WorkflowNext]_workflowVars
  PROVE  OutcomeInv'
<1>1. ASSUME NEW r \in Requests,
             (\E kind \in RequestKinds : TryLock(r, kind)) \/ RequestStep(r)
      PROVE  OutcomeInv'
  BY <1>1, RequestOutcome
<1>2. ASSUME NEW id \in OperationIds, TaskStep(id) PROVE OutcomeInv'
  BY <1>2, EarlyTaskOutcome, ReserveOutcome, StartFailsOutcome, StartOutcome,
     AnnounceOutcome, ReportErrorOutcome DEF TaskStep
<1>3. ASSUME NEW id \in OperationIds, WaiterStep(id) \/ WaitFails(id)
      PROVE  OutcomeInv'
  BY <1>3, WaiterOutcome, ClearOutcome, LastReportOutcome DEF WaiterStep
<1>4. ASSUME NEW id \in OperationIds, NEW c \in StopCalls,
             RequestStop(c, id) \/ StopperStep(c, id)
      PROVE  OutcomeInv'
  BY <1>4, RequestStopOutcome, StopperOutcome
<1>5. ASSUME NEW id \in OperationIds,
             \/ CancelOperation(id)
             \/ \E how \in {"exited", "crashed"} : GameEnds(id, how)
      PROVE  OutcomeInv'
  BY <1>5, UnnoticedOutcome DEF CancelOperation, GameEnds, gameVars
<1>6. CASE UNCHANGED workflowVars
  BY <1>6, UnnoticedOutcome DEF workflowVars, gameVars
<1> QED
  BY <1>1, <1>2, <1>3, <1>4, <1>5, <1>6 DEF WorkflowNext

-----------------------------------------------------------------------------
(* The registry of game processes, the reports and the calls that stop a   *)
(* game fit together, however many launches and calls there are.           *)
THEOREM OutcomesAreConsistent == WorkflowSafety => []OutcomeInv
<1>1. WorkflowInit => OutcomeInv
  BY OutcomeInitEstablishes
<1>2. OutcomeInv /\ [WorkflowNext]_workflowVars => OutcomeInv'
  BY OutcomeStepPreserves
<1> QED
  BY <1>1, <1>2, PTL DEF WorkflowSafety

(* The last event of a launch is the only one of its kind, and neither     *)
(* registry holds the launch when it is sent: the user's next request is   *)
(* not refused because of it (terminate, GameEventSink::emit, wait_child). *)
THEOREM EndsAreLastAndFree == WorkflowSafety => []EndIsLastAndFree
<1>1. OutcomeInv => EndIsLastAndFree
  <2> SUFFICES ASSUME OutcomeInv, NEW id \in OperationIds,
                      NEW i \in 1..Len(events[id]), events[id][i] \in TerminalEvents
               PROVE  i = Len(events[id]) /\ ~Live(id) /\ ~GameIsActive(id)
    BY DEF EndIsLastAndFree
  <2>1. i = Len(events[id]) /\ Told(id)
    BY DEF OutcomeInv, Reporting
  <2>2. ~Live(id)
    BY <2>1 DEF OutcomeInv, WorkflowInv, Ownership, Owned, OwnedByTask, OwnedByWaiter, Told
  <2>3. ~GameIsActive(id)
    BY <2>2, HolderIsLive DEF OutcomeInv, Reporting, GameIsActive
  <2> QED
    BY <2>1, <2>2, <2>3
<1> QED
  BY <1>1, OutcomesAreConsistent, PTL

(* A call of stop that nobody rivals and that succeeded keeps the exit     *)
(* from being judged a crash, whatever exit code the kill leaves           *)
(* (Launcher::stop, stop_was_requested).                                   *)
THEOREM StopsEndCleanly == WorkflowSafety => []StopEndsCleanly
<1>1. OutcomeInv => StopEndsCleanly
  BY DEF OutcomeInv, Stopping, Unrivalled, StopEndsCleanly
<1> QED
  BY <1>1, OutcomesAreConsistent, PTL

-----------------------------------------------------------------------------
(* Exclusive use.                                                          *)

(* The registry alone allows installations of different versions side by   *)
(* side; the admission of requests does not.                               *)
OneLive == \A x, y \in OperationIds : Live(x) /\ Live(y) => x = y

UseInv == WorkflowInv /\ OneLive

abstract == <<Users, Served, Games, HavePlayed>>

-----------------------------------------------------------------------------
(* Nothing is live while nothing is active, and only live operations play. *)
LEMMA LiveMeansActive ==
  ASSUME WorkflowInv, NEW id \in OperationIds, Live(id)
  PROVE  HasActive
<1>1. operations[id].subject \in Versions \cup Profiles
  BY DEF WorkflowInv, RegistryInv, RegistryTypeOK, Live, Present, Record
<1>2. IF IsWorkflow(id) THEN activeWorkflow = id
      ELSE activeVersions[operations[id].subject] = id
  BY DEF WorkflowInv, RegistryInv, SlotsMatchRecords, LiveIsActive
<1> QED
  BY <1>1, <1>2, NoOpAssumption DEF HasActive, IsWorkflow

LEMMA RunningIsLive ==
  ASSUME WorkflowInv, NEW id \in OperationIds, Running(id)
  PROVE  Live(id)
BY DEF Running, WorkflowInv, Ownership, Owned, OwnedByTask, OwnedByWaiter

LEMMA OneRewrites ==
  ASSUME WorkflowInv, NEW r \in Requests, Rewrites(r)
  PROVE  Users = {r} /\ Games = {}
<1>1. mutation = r /\ ~HasActive
  BY DEF Rewrites, At, WorkflowInv, GuardHeld, AdmittedAlone
<1>2. \A s \in Requests : Rewrites(s) => s = r
  BY <1>1 DEF Rewrites, At, WorkflowInv, GuardHeld
<1>3. \A id \in OperationIds : ~Live(id) /\ ~Running(id)
  BY <1>1, LiveMeansActive, RunningIsLive
<1> QED
  BY <1>2, <1>3 DEF Users, Games

LEMMA OneWorks ==
  ASSUME UseInv, NEW id \in OperationIds, Live(id)
  PROVE  Users = {id} /\ Games \subseteq {id} /\ (Running(id) <=> Games # {})
<1>1. HasActive
  BY LiveMeansActive DEF UseInv
<1>2. \A r \in Requests : ~Rewrites(r)
  BY <1>1 DEF Rewrites, At, UseInv, WorkflowInv, AdmittedAlone
<1>3. \A x \in OperationIds : (Live(x) => x = id) /\ (Running(x) => x = id)
  BY RunningIsLive DEF UseInv, OneLive
<1> QED
  BY <1>2, <1>3 DEF Users, Games

LEMMA NobodyWorks ==
  ASSUME WorkflowInv, ~HasActive, \A r \in Requests : ~Rewrites(r)
  PROVE  Users = {} /\ Games = {}
<1>1. \A id \in OperationIds : ~Live(id) /\ ~Running(id)
  BY LiveMeansActive, RunningIsLive
<1> QED
  BY <1>1 DEF Users, Games

(* A step that changes none of what the abstraction looks at stutters.     *)
LEMMA UseStutters ==
  ASSUME OneLive,
         \A r \in Requests : Rewrites(r)' <=> Rewrites(r),
         \A x \in OperationIds :
           /\ Live(x)' <=> Live(x)
           /\ task'[x] = NoTask <=> task[x] = NoTask
           /\ Running(x)' <=> Running(x)
           /\ process'[x] = "none" <=> process[x] = "none"
  PROVE  UNCHANGED abstract /\ OneLive'
<1>1. OneLive'
  BY DEF OneLive
<1>2. Users' = Users
  BY DEF Users
<1>3. Served' = Served
  BY DEF Served
<1>4. Games' = Games /\ HavePlayed' = HavePlayed
  BY DEF Games, HavePlayed
<1> QED
  BY <1>1, <1>2, <1>3, <1>4 DEF abstract

-----------------------------------------------------------------------------
(* Steps that map to stutters.                                             *)
LEMMA QuietRequests ==
  ASSUME UseInv, NEW r \in Requests,
         \/ \E kind \in RequestKinds : TryLock(r, kind)
         \/ RefuseBusy(r)
         \/ (Admit(r) \/ EndMutation(r)) /\ request[r].kind # "mutate"
         \/ CheckGame(r)
         \/ SendAnswer(r)
  PROVE  UNCHANGED abstract /\ OneLive'
<1>1. UNCHANGED <<operations, task, process>>
  BY DEF TryLock, RefuseBusy, Admit, EndMutation, CheckGame, SendAnswer, gameVars,
         registryVars
<1>2. request[r] \in [kind : RequestKinds \cup {"none"},
                      at : {"idle", "locked", "admitted", "checked", "answering"}]
  BY DEF UseInv, WorkflowInv, Shape
<1>3. \A s \in Requests \ {r} : request'[s] = request[s]
  BY DEF TryLock, RefuseBusy, Admit, EndMutation, CheckGame, SendAnswer, Answer,
         MoveRequest, UseInv, WorkflowInv, Shape
<1>4. ~Rewrites(r)' /\ ~Rewrites(r)
  <2>1. CASE \E kind \in RequestKinds : TryLock(r, kind)
    BY <2>1 DEF TryLock, Rewrites, At, UseInv, WorkflowInv, Shape
  <2>2. CASE \/ RefuseBusy(r) \/ SendAnswer(r)
            \/ (EndMutation(r) /\ request[r].kind # "mutate")
    BY <2>2 DEF RefuseBusy, SendAnswer, EndMutation, Answer, Idle, Rewrites, At,
                UseInv, WorkflowInv, Shape
  <2>3. CASE Admit(r) /\ request[r].kind # "mutate"
    BY <2>3, <1>2 DEF Admit, MoveRequest, Rewrites, At, UseInv, WorkflowInv, Shape
  <2>4. CASE CheckGame(r)
    BY <2>4, <1>2 DEF CheckGame, Answer, MoveRequest, Idle, Rewrites, At, UseInv,
                      WorkflowInv, Shape
  <2> QED
    BY <2>1, <2>2, <2>3, <2>4
<1>5. \A s \in Requests : Rewrites(s)' <=> Rewrites(s)
  BY <1>3, <1>4 DEF Rewrites, At
<1> QED
  BY <1>1, <1>5, UseStutters DEF UseInv, Live, Present, Running

LEMMA QuietCancel ==
  ASSUME UseInv, NEW id \in OperationIds, CancelOperation(id)
  PROVE  UNCHANGED abstract /\ OneLive'
<1>1. UNCHANGED <<requestVars, task, process>> /\ Cancel(id)
  BY DEF CancelOperation, gameVars
<1>2. operations[id] \in Record /\ Live(id)
  BY <1>1 DEF Cancel, Live, Present, UseInv, WorkflowInv, RegistryInv, RegistryTypeOK
<1>3. /\ operations'[id] = [operations[id] EXCEPT !.state = "cancelling"]
      /\ \A x \in OperationIds \ {id} : operations'[x] = operations[x]
  BY <1>1 DEF Cancel, UseInv, WorkflowInv, RegistryInv, RegistryTypeOK
<1>4. operations'[id] \in Record /\ operations'[id].state = "cancelling"
  BY <1>2, <1>3 DEF Record, OperationState
<1>5. Live(id)'
  BY <1>4, RecordIsPresent DEF Live, Present, Terminal
<1>6. \A x \in OperationIds : Live(x)' <=> Live(x)
  BY <1>2, <1>3, <1>5 DEF Live, Present
<1> QED
  BY <1>1, <1>6, UseStutters DEF UseInv, Rewrites, At, requestVars, Running

LEMMA QuietTask ==
  ASSUME UseInv, NEW id \in OperationIds, UNCHANGED requestVars,
         task[id].at # "none", task'[id].at # "none",
         \A x \in OperationIds : Live(x)' <=> Live(x),
         \A x \in OperationIds \ {id} : task'[x] = task[x],
         process' = process
  PROVE  UNCHANGED abstract /\ OneLive'
<1>1. task[id] # NoTask /\ task'[id] # NoTask
  BY DEF NoTask
<1> QED
  BY <1>1, UseStutters DEF UseInv, Rewrites, At, requestVars, Running

LEMMA QuietTaskSteps ==
  ASSUME UseInv, NEW id \in OperationIds,
         \/ StageSucceeds(id) \/ StageCancelled(id) \/ StageFails(id)
         \/ ReserveProcess(id) \/ StartFails(id) \/ RecordPid(id)
         \/ AnnounceStart(id) \/ ReportError(id)
         \/ \E verdict \in Terminal : InstallerReturns(id, verdict)
  PROVE  UNCHANGED abstract /\ OneLive'
<1> USE StagesAre DEF TaskIs
<1>1. UNCHANGED <<registryVars, requestVars, process>>
  BY DEF StageSucceeds, StageCancelled, StageFails, ReserveProcess, StartFails,
         RecordPid, AnnounceStart, ReportError, InstallerReturns, gameVars
<1>2. task[id].at # "none"
  BY DEF StageSucceeds, StageCancelled, StageFails, ReserveProcess, StartFails,
         RecordPid, AnnounceStart, ReportError, InstallerReturns
<1>3. task'[id].at # "none" /\ \A x \in OperationIds \ {id} : task'[x] = task[x]
  <2>1. CASE \E phase \in TaskAt \ {"none"} : MoveTask(id, phase)
    BY <2>1 DEF MoveTask, UseInv, WorkflowInv, Shape
  <2>2. CASE \E verdict \in Terminal : Fail(id, verdict) \/ InstallerReturns(id, verdict)
    BY <2>2 DEF Fail, InstallerReturns, UseInv, WorkflowInv, Shape
  <2>3. CASE StageSucceeds(id)
    <3>1. PICK phase \in Stages \cup {"boundary"} : MoveTask(id, phase)
      BY <2>3 DEF StageSucceeds
    <3>2. phase \in TaskAt \ {"none"}
      BY DEF TaskAt
    <3> QED
      BY <2>1, <3>1, <3>2
  <2>4. CASE StageCancelled(id) \/ StageFails(id) \/ StartFails(id)
    BY <2>2, <2>4 DEF StageCancelled, StageFails, StartFails, Terminal
  <2>5. CASE ReserveProcess(id) \/ RecordPid(id) \/ AnnounceStart(id) \/ ReportError(id)
    BY <2>1, <2>2, <2>5
       DEF ReserveProcess, RecordPid, AnnounceStart, ReportError, TaskAt, Terminal
  <2> QED
    BY <2>2, <2>3, <2>4, <2>5
<1>4. \A x \in OperationIds : Live(x)' <=> Live(x)
  BY <1>1 DEF registryVars, Live, Present
<1> QED
  BY <1>1, <1>2, <1>3, <1>4, QuietTask

LEMMA QuietBoundary ==
  ASSUME UseInv, NEW id \in OperationIds, EnterSpawnBoundary(id)
  PROVE  UNCHANGED abstract /\ OneLive'
<1>1. /\ task[id].at = "boundary" /\ UNCHANGED <<requestVars, process>> /\ Live(id)
  BY DEF EnterSpawnBoundary, TaskIs, gameVars, UseInv, WorkflowInv, Ownership,
         Owned, OwnedByTask
<1>2. task'[id].at # "none" /\ \A x \in OperationIds \ {id} : task'[x] = task[x]
  BY DEF EnterSpawnBoundary, MoveTask, Fail, UseInv, WorkflowInv, Shape
<1>3. \A x \in OperationIds : Live(x)' <=> Live(x)
  <2>1. CASE MarkSpawned(id)
    <3>1. operations[id] \in Record
      BY <1>1 DEF Live, Present, UseInv, WorkflowInv, RegistryInv, RegistryTypeOK
    <3>2. /\ operations'[id] =
               [operations[id] EXCEPT !.spawned = TRUE, !.state = "running"]
          /\ \A x \in OperationIds \ {id} : operations'[x] = operations[x]
      BY <2>1 DEF MarkSpawned, UseInv, WorkflowInv, RegistryInv, RegistryTypeOK
    <3>3. operations'[id] \in Record /\ operations'[id].state = "running"
      BY <3>1, <3>2 DEF Record, OperationState
    <3>4. Live(id)'
      BY <3>3, RecordIsPresent DEF Live, Present, Terminal
    <3> QED
      BY <1>1, <3>2, <3>4 DEF Live, Present
  <2>2. CASE UNCHANGED registryVars
    BY <2>2 DEF registryVars, Live, Present
  <2> QED
    BY <2>1, <2>2 DEF EnterSpawnBoundary
<1> QED
  BY <1>1, <1>2, <1>3, QuietTask

LEMMA QuietGame ==
  ASSUME UseInv, NEW id \in OperationIds,
         \/ ChildReaped(id) \/ JudgeExit(id) \/ ClearProcess(id)
         \/ ForwardGameEvent(id)
         \/ \E c \in StopCalls :
              KillFails(c, id) \/ WithdrawStop(c, id) \/ RequestStop(c, id)
         \/ WaitFails(id) /\ ~Running(id)
  PROVE  UNCHANGED abstract /\ OneLive'
<1>1. UNCHANGED <<registryVars, requestVars, task, process>>
  BY DEF ChildReaped, JudgeExit, ClearProcess, ForwardGameEvent, KillFails,
         WithdrawStop, RequestStop, WaitFails, Running, UseInv, WorkflowInv, Shape
<1> QED
  BY <1>1, UseStutters
     DEF UseInv, Rewrites, At, requestVars, registryVars, Live, Present, Running

-----------------------------------------------------------------------------
(* Steps that acquire the build.                                           *)
LEMMA AdmitAcquires ==
  ASSUME UseInv, NEW r \in Requests, Admit(r), request[r].kind = "mutate"
  PROVE  Exclusive!Acquire(r) /\ OneLive'
<1>1. /\ request[r].at = "locked" /\ ~HasActive /\ mutation = r
      /\ UNCHANGED <<operations, task, process>>
  BY DEF Admit, At, gameVars, registryVars, UseInv, WorkflowInv, GuardHeld
<1>2. \A s \in Requests : ~Rewrites(s)
  BY <1>1 DEF Rewrites, At, UseInv, WorkflowInv, GuardHeld
<1>3. Users = {} /\ \A x \in OperationIds : ~Live(x)
  BY <1>1, <1>2, NobodyWorks, LiveMeansActive DEF UseInv
<1>4. /\ request'[r].at = "admitted" /\ request'[r].kind = "mutate"
      /\ \A s \in Requests \ {r} : request'[s] = request[s]
  <2>1. request[r] \in [kind : RequestKinds \cup {"none"},
                        at : {"idle", "locked", "admitted", "checked", "answering"}]
    BY DEF UseInv, WorkflowInv, Shape
  <2> QED
    BY <2>1 DEF Admit, MoveRequest, UseInv, WorkflowInv, Shape
<1>5. \A s \in Requests : Rewrites(s)' <=> s = r
  BY <1>2, <1>4 DEF Rewrites, At
<1>6. \A x \in OperationIds : ~Live(x)'
  BY <1>1, <1>3 DEF Live, Present
<1>7. Users' = {r}
  BY <1>5, <1>6 DEF Users
<1>8. UNCHANGED <<Served, Games, HavePlayed>>
  BY <1>1, <1>3, <1>6 DEF Served, Games, HavePlayed, Running
<1>9. r \notin Served
  BY IdentityAssumption DEF Served
<1> QED
  BY <1>3, <1>6, <1>7, <1>8, <1>9 DEF Exclusive!Acquire, OneLive

LEMMA BeginAcquires ==
  ASSUME UseInv, NEW r \in Requests, NEW id \in OperationIds,
         \/ \E v \in Versions : BeginInstall(r, id, v)
         \/ \E p \in Profiles : ReserveLaunch(r, id, p)
  PROVE  Exclusive!Acquire(id) /\ OneLive'
<1>1. /\ request[r].at \in {"admitted", "checked"} /\ mutation = r /\ ~HasActive
      /\ request[r].kind # "mutate" \/ request[r].at = "checked"
      /\ task[id] = NoTask /\ process' = process
      /\ MoveRequest(r, "answering")
  BY DEF BeginInstall, ReserveLaunch, At, gameVars, UseInv, WorkflowInv, GuardHeld,
         AdmittedAlone
<1>2. \A s \in Requests : ~Rewrites(s)
  BY <1>1 DEF Rewrites, At, UseInv, WorkflowInv, GuardHeld
<1>3. Users = {} /\ \A x \in OperationIds : ~Live(x)
  BY <1>1, <1>2, NobodyWorks, LiveMeansActive DEF UseInv
<1>4. \A s \in Requests : ~Rewrites(s)'
  <2>1. request[r] \in [kind : RequestKinds \cup {"none"},
                        at : {"idle", "locked", "admitted", "checked", "answering"}]
    BY DEF UseInv, WorkflowInv, Shape
  <2>2. /\ request'[r].at = "answering"
        /\ \A s \in Requests \ {r} : request'[s] = request[s]
    BY <1>1, <2>1 DEF MoveRequest, UseInv, WorkflowInv, Shape
  <2> QED
    BY <1>2, <2>2 DEF Rewrites, At
<1>5. PICK subject \in Versions \cup Profiles, at \in {"installingVersion", "authenticating"} :
        /\ operations' = [operations EXCEPT ![id] = Fresh(subject)]
        /\ task' = [task EXCEPT ![id].at = at]
  BY DEF BeginInstall, ReserveLaunch, Begin, BeginLaunch
<1>6. /\ operations'[id] = Fresh(subject)
      /\ \A x \in OperationIds \ {id} : operations'[x] = operations[x]
      /\ \A x \in OperationIds \ {id} : task'[x] = task[x]
  BY <1>5 DEF UseInv, WorkflowInv, Shape, RegistryInv, RegistryTypeOK
<1>7. \A x \in OperationIds : Live(x)' <=> x = id
  BY <1>3, <1>6, FreshIsLive DEF Live, Present
<1>8. Users' = {id}
  BY <1>4, <1>7 DEF Users
<1>9. UNCHANGED <<Served, Games, HavePlayed>> /\ id \notin Served
  BY <1>1, <1>3, <1>6, <1>7 DEF Served, Games, HavePlayed, Running
<1> QED
  BY <1>3, <1>7, <1>8, <1>9 DEF Exclusive!Acquire, OneLive

-----------------------------------------------------------------------------
(* Steps that release the build.                                           *)
LEMMA MutationReleases ==
  ASSUME UseInv, NEW r \in Requests, EndMutation(r), request[r].kind = "mutate"
  PROVE  Exclusive!Release /\ OneLive'
<1>1. Rewrites(r) /\ UNCHANGED <<operations, task, process>>
  BY DEF EndMutation, Rewrites, gameVars, registryVars
<1>2. Users = {r} /\ Games = {}
  BY <1>1, OneRewrites DEF UseInv
<1>3. \A s \in Requests : ~Rewrites(s)'
  <2>1. /\ request'[r].at = "idle"
        /\ \A s \in Requests \ {r} : request'[s] = request[s]
    BY DEF EndMutation, Answer, Idle, UseInv, WorkflowInv, Shape
  <2>2. \A s \in Requests : Rewrites(s) => s = r
    BY <1>2 DEF Users
  <2> QED
    BY <2>1, <2>2 DEF Rewrites, At
<1>4. \A x \in OperationIds : (Live(x)' <=> Live(x)) /\ ~Live(x)
  BY <1>1, <1>2, IdentityAssumption DEF Users, Live, Present
<1>5. Users' = {}
  BY <1>3, <1>4 DEF Users
<1>6. UNCHANGED <<Served, Games, HavePlayed>>
  BY <1>1, <1>4 DEF Served, Games, HavePlayed, Running
<1>7. Users \cap OperationIds = {}
  BY <1>2, IdentityAssumption
<1> QED
  BY <1>2, <1>4, <1>5, <1>6, <1>7 DEF Exclusive!Release, OneLive

LEMMA VerdictReleases ==
  ASSUME UseInv, NEW id \in OperationIds,
         Terminate(id) \/ CloseInstall(id) \/ FinishGameOperation(id)
  PROVE  Exclusive!Release /\ OneLive'
<1>1. PICK state \in Terminal : Finish(id, state)
  BY TaskFinishes, GameFinishes DEF UseInv
<1>2. Live(id) /\ UNCHANGED <<requestVars, process>>
  BY <1>1 DEF Finish, Terminate, CloseInstall, FinishGameOperation, gameVars
<1>3. /\ task[id] # NoTask /\ task'[id] # NoTask
      /\ \A x \in OperationIds \ {id} : task'[x] = task[x]
      /\ ~Running(id)
  <2>1. CASE Terminate(id) \/ CloseInstall(id)
    <3>1. task[id].at \in {"terminating", "closing"}
      BY <2>1 DEF Terminate, CloseInstall, TaskIs
    <3>2. /\ task'[id].at \in {"reporting", "ended"}
          /\ \A x \in OperationIds \ {id} : task'[x] = task[x]
      BY <2>1 DEF Terminate, CloseInstall, MoveTask, UseInv, WorkflowInv, Shape
    <3> QED
      BY <3>1, <3>2 DEF Running, NoTask, UseInv, WorkflowInv, Ownership, Played
  <2>2. CASE FinishGameOperation(id)
    <3>1. waiter[id].at = "finishing" /\ task' = task
      BY <2>2 DEF FinishGameOperation, WaiterIs
    <3>2. task[id].at = "handedOver" /\ ~Running(id)
      BY <3>1, OnlyWaitedForRuns DEF UseInv, Running
    <3> QED
      BY <3>1, <3>2 DEF NoTask
  <2> QED
    BY <2>1, <2>2
<1>4. Users = {id} /\ Games = {}
  BY <1>2, <1>3, OneWorks
<1>5. \A x \in OperationIds : ~Live(x)' /\ (Live(x) => x = id)
  BY <1>1, <1>2, FinishEffects DEF UseInv, WorkflowInv, OneLive
<1>6. \A r \in Requests : ~Rewrites(r)'
  <2>1. \A r \in Requests : ~Rewrites(r)
    BY <1>2, LiveMeansActive DEF UseInv, WorkflowInv, AdmittedAlone, Rewrites, At
  <2> QED
    BY <1>2, <2>1 DEF Rewrites, At, requestVars
<1>7. Users' = {}
  BY <1>5, <1>6 DEF Users
<1>8. Served' = Served \cup (Users \cap OperationIds)
  BY <1>3, <1>4, <1>5 DEF Served
<1>9. UNCHANGED <<Games, HavePlayed>>
  BY <1>2 DEF Games, HavePlayed, Running
<1> QED
  BY <1>4, <1>5, <1>7, <1>8, <1>9 DEF Exclusive!Release, OneLive

-----------------------------------------------------------------------------
(* The game starts and ends.                                               *)
LEMMA SpawnStartsGame ==
  ASSUME UseInv, NEW id \in OperationIds, SpawnChild(id)
  PROVE  Exclusive!StartGame(id) /\ OneLive'
<1>1. /\ task[id].at = "starting" /\ UNCHANGED <<registryVars, requestVars>>
      /\ Live(id) /\ process[id] = "none"
  BY DEF SpawnChild, TaskIs, UseInv, WorkflowInv, Ownership, Owned, OwnedByTask, Played
<1>2. /\ process'[id] = "running"
      /\ \A x \in OperationIds \ {id} : process'[x] = process[x]
  BY DEF SpawnChild, UseInv, WorkflowInv, Shape
<1>3. /\ task[id] # NoTask /\ task'[id] # NoTask
      /\ \A x \in OperationIds \ {id} : task'[x] = task[x]
  <2>1. task'[id].at = "spawned" /\ \A x \in OperationIds \ {id} : task'[x] = task[x]
    BY DEF SpawnChild, MoveTask, UseInv, WorkflowInv, Shape
  <2> QED
    BY <1>1, <2>1 DEF NoTask
<1>4. Users = {id} /\ Games = {}
  BY <1>1, OneWorks DEF Running
<1>5. \A x \in OperationIds : Live(x)' <=> Live(x)
  BY <1>1 DEF registryVars, Live, Present
<1>6. Users' = Users
  BY <1>1, <1>5 DEF Users, Rewrites, At, requestVars
<1>7. Served' = Served
  BY <1>3, <1>5 DEF Served
<1>8. Games' = {id} /\ HavePlayed' = HavePlayed \cup {id} /\ id \notin HavePlayed
  BY <1>1, <1>2, <1>4 DEF Games, HavePlayed, Running
<1> QED
  BY <1>4, <1>5, <1>6, <1>7, <1>8 DEF Exclusive!StartGame, UseInv, OneLive

LEMMA DeathEndsGame ==
  ASSUME UseInv, NEW id \in OperationIds,
         \/ \E how \in {"exited", "crashed"} : GameEnds(id, how)
         \/ \E c \in StopCalls : KillGame(c, id)
         \/ WaitFails(id) /\ Running(id)
  PROVE  Exclusive!EndGame /\ OneLive'
<1>1. Running(id) /\ UNCHANGED <<registryVars, requestVars, task>>
  BY DEF GameEnds, KillGame, WaitFails, Running
<1>2. PICK how \in {"exited", "crashed", "killed"} :
        process' = [process EXCEPT ![id] = how]
  BY <1>1 DEF GameEnds, KillGame, WaitFails, Running
<1>3. /\ process'[id] = how
      /\ \A x \in OperationIds \ {id} : process'[x] = process[x]
  BY <1>2 DEF UseInv, WorkflowInv, Shape
<1>4. Games = {id}
  BY <1>1, RunningIsLive, OneWorks DEF UseInv
<1>5. Games' = {} /\ HavePlayed' = HavePlayed
  BY <1>1, <1>3, <1>4 DEF Games, HavePlayed, Running
<1>6. \A x \in OperationIds : Live(x)' <=> Live(x)
  BY <1>1 DEF registryVars, Live, Present
<1>7. Users' = Users /\ Served' = Served
  BY <1>1, <1>6 DEF Users, Served, Rewrites, At, requestVars
<1> QED
  BY <1>4, <1>5, <1>6, <1>7 DEF Exclusive!EndGame, UseInv, OneLive

-----------------------------------------------------------------------------
LEMMA UseStep ==
  ASSUME UseInv, [WorkflowNext]_workflowVars
  PROVE  [Exclusive!UseNext]_abstract /\ UseInv'
<1>1. WorkflowInv'
  BY WorkflowStepPreserves DEF UseInv
<1>2. CASE UNCHANGED workflowVars
  <2>1. UNCHANGED abstract /\ OneLive'
    BY <1>2, UseStutters DEF UseInv, workflowVars, requestVars, registryVars,
       gameVars, Rewrites, At, Live, Present, Running
  <2> QED
    BY <1>1, <2>1 DEF UseInv
<1>3. ASSUME NEW r \in Requests,
             (\E kind \in RequestKinds : TryLock(r, kind)) \/ RequestStep(r)
      PROVE  [Exclusive!UseNext]_abstract /\ OneLive'
  BY <1>3, QuietRequests, AdmitAcquires, BeginAcquires, MutationReleases
     DEF RequestStep, Exclusive!UseNext
<1>4. ASSUME NEW id \in OperationIds, CancelOperation(id)
      PROVE  [Exclusive!UseNext]_abstract /\ OneLive'
  BY <1>4, QuietCancel
<1>5. ASSUME NEW id \in OperationIds, TaskStep(id)
      PROVE  [Exclusive!UseNext]_abstract /\ OneLive'
  BY <1>5, QuietTaskSteps, QuietBoundary, SpawnStartsGame, VerdictReleases
     DEF TaskStep, Exclusive!UseNext
<1>6. ASSUME NEW id \in OperationIds, WaiterStep(id) \/ WaitFails(id)
      PROVE  [Exclusive!UseNext]_abstract /\ OneLive'
  BY <1>6, QuietGame, VerdictReleases, DeathEndsGame
     DEF WaiterStep, Exclusive!UseNext
<1>7. ASSUME NEW id \in OperationIds,
             \/ \E c \in StopCalls : RequestStop(c, id) \/ StopperStep(c, id)
             \/ \E how \in {"exited", "crashed"} : GameEnds(id, how)
      PROVE  [Exclusive!UseNext]_abstract /\ OneLive'
  BY <1>7, QuietGame, DeathEndsGame DEF StopperStep, Exclusive!UseNext
<1>8. CASE WorkflowNext
  BY <1>1, <1>3, <1>4, <1>5, <1>6, <1>7, <1>8 DEF WorkflowNext, UseInv
<1> QED
  BY <1>2, <1>8

(* The build has one user at a time, and a game is over before the tenure  *)
(* of its launch is: what the admission of requests, the registry, the     *)
(* workflow and the process registry promise together (api.rs,             *)
(* orchestration.rs, launcher/mod.rs), for any number of everything.       *)
THEOREM WorkflowIsExclusive == WorkflowSafety => ExclusiveUseSpec
<1>1. WorkflowInit => UseInv /\ Exclusive!UseInit
  <2> SUFFICES ASSUME WorkflowInit PROVE UseInv /\ Exclusive!UseInit
    OBVIOUS
  <2>1. WorkflowInv
    BY WorkflowInitEstablishes
  <2>2. \A x \in OperationIds : ~Live(x) /\ task[x] = NoTask /\ process[x] = "none"
    BY DEF WorkflowInit, RegistryInit, Live, Present
  <2>3. \A r \in Requests : ~Rewrites(r)
    BY DEF WorkflowInit, Idle, Rewrites
  <2> QED
    BY <2>1, <2>2, <2>3 DEF UseInv, OneLive, Exclusive!UseInit, Users, Served,
       Games, HavePlayed, Running
<1>2. UseInv /\ [WorkflowNext]_workflowVars => UseInv' /\ [Exclusive!UseNext]_abstract
  BY UseStep
<1>3. UseInv /\ [WorkflowNext]_workflowVars
        => UseInv' /\ [Exclusive!UseNext]_Exclusive!useVars
  BY <1>2 DEF abstract, Exclusive!useVars
<1> QED
  BY <1>1, <1>3, PTL DEF WorkflowSafety, ExclusiveUseSpec, Exclusive!UseSpec
=============================================================================
