-------------------------- MODULE WorkerPoolProofs --------------------------
(***************************************************************************)
(* Proofs about the scheduler, for any set of tasks, priorities and        *)
(* workers and any capacity.                                               *)
(***************************************************************************)
EXTENDS WorkerPool, FiniteSetTheorems, TLAPS

\* Who is at which label holds what.
MutexInv == \A p \in Procs : pc[p] = "insert" <=> mu = p
SubInv   == \A p \in Procs : sub[p] # NoTask <=> pc[p] \in SubmitLabels
CurInv   == \A w \in Workers :
                cur[w] # NoTask <=> pc[w] \notin {"select", "slot", "exited"}

IInv ==
    /\ TypeOK
    /\ MutexInv /\ SubInv /\ CurInv
    /\ SlotsMatchHeap
    /\ WgMatchesHeap
    /\ TasksConserved

\* Stack.Push adds one task to the set of tasks on disk and keeps the rest.
LEMMA PushOnDisk ==
    ASSUME NEW s \in Seq(Tasks), NEW t \in Tasks, IsInjective(s), t \notin ToSet(s)
    PROVE  /\ Append(s, t) \in Seq(Tasks)
           /\ ToSet(Append(s, t)) = ToSet(s) \cup {t}
           /\ IsInjective(Append(s, t))
  BY DEF ToSet, IsInjective

\* Stack.Pop takes the last pushed task, and only it, off the disk.
LEMMA PopFromDisk ==
    ASSUME NEW s \in Seq(Tasks), s # <<>>, IsInjective(s)
    PROVE  /\ Front(s) \in Seq(Tasks)
           /\ Last(s) \in ToSet(s)
           /\ ToSet(Front(s)) = ToSet(s) \ {Last(s)}
           /\ IsInjective(Front(s))
<1>1. Len(s) \in Nat \ {0} /\ DOMAIN s = 1 .. Len(s)
  OBVIOUS
<1>2. /\ Front(s) \in Seq(Tasks)
      /\ DOMAIN Front(s) = 1 .. Len(s) - 1
      /\ \A i \in 1 .. Len(s) - 1 : Front(s)[i] = s[i]
  BY <1>1 DEF Front
<1>3. Last(s) = s[Len(s)] /\ Last(s) \in ToSet(s)
  BY <1>1 DEF ToSet, Last
<1>4. IsInjective(Front(s))
  BY <1>1, <1>2 DEF IsInjective
<1>5. \A i \in 1 .. Len(s) - 1 : s[i] # Last(s)
  BY <1>1, <1>3 DEF IsInjective
<1>6. ToSet(Front(s)) = ToSet(s) \ {Last(s)}
  <2>1. ASSUME NEW x \in ToSet(Front(s)) PROVE x \in ToSet(s) \ {Last(s)}
    BY <1>1, <1>2, <1>5 DEF ToSet
  <2>2. ASSUME NEW x \in ToSet(s), x # Last(s) PROVE x \in ToSet(Front(s))
    <3>1. PICK i \in 1 .. Len(s) : x = s[i]
      BY <1>1 DEF ToSet
    <3>2. i \in 1 .. Len(s) - 1
      BY <1>1, <1>3, <2>2, <3>1
    <3> QED
      BY <1>2, <3>1, <3>2 DEF ToSet
  <2> QED
    BY <2>1, <2>2
<1> QED
  BY <1>2, <1>3, <1>4, <1>6

\* a goroutine gives its task away
LEMMA HeldByRemove ==
    ASSUME NEW S, NEW f \in [S -> Tasks \cup {NoTask}], NEW p \in S,
           f[p] # NoTask, OneEach(f)
    PROVE  /\ HeldBy([f EXCEPT ![p] = NoTask]) = HeldBy(f) \ {f[p]}
           /\ OneEach([f EXCEPT ![p] = NoTask])
           /\ f[p] \in Tasks
           /\ f[p] \in HeldBy(f)
  BY PoolAssumption DEF HeldBy, OneEach, PoolAssumption

-----------------------------------------------------------------------------
\* what the provers need to know of the constants
LEMMA PoolFacts ==
    /\ Workers \subseteq Procs /\ Main \in Procs /\ Ticker \in Procs
    /\ Main \notin Workers /\ Ticker \notin Workers /\ Main # Ticker
    /\ Free \notin Procs /\ NoTask \notin Tasks
    /\ QueueCapacity \in Nat \ {0} /\ MaxTimeouts \in Nat
    /\ \A p \in Procs : p \in Workers \/ p = Main \/ p = Ticker
  BY PoolAssumption DEF PoolAssumption, Procs

\* Every step keeps the labels, the mutex and the held tasks in agreement.
LEMMA ControlStep ==
    ASSUME IInv, Next
    PROVE  MutexInv' /\ SubInv' /\ CurInv'
<1>1. ASSUME NEW p \in Procs, SubmitOnClosed(p) PROVE MutexInv' /\ SubInv' /\ CurInv'
  BY <1>1, PoolFacts DEF SubmitOnClosed, IInv, TypeOK, ControlTypeOK, TaskTypeOK, MutexInv, SubInv, CurInv, SubmitLabels,
        Step, Goto, Crash, poolVars, chanVars, envVars, taskVars
<1>2. ASSUME NEW p \in Procs, SubmitSend(p) PROVE MutexInv' /\ SubInv' /\ CurInv'
  BY <1>2, PoolFacts DEF SubmitSend, IInv, TypeOK, ControlTypeOK, TaskTypeOK, MutexInv, SubInv, CurInv, SubmitLabels,
        Step, Goto, Crash, poolVars, chanVars, envVars, taskVars
<1>3. ASSUME NEW p \in Procs, SubmitInsert(p) PROVE MutexInv' /\ SubInv' /\ CurInv'
  BY <1>3, PoolFacts DEF SubmitInsert, Resume, IInv, TypeOK, ControlTypeOK, TaskTypeOK, MutexInv, SubInv, CurInv, SubmitLabels,
        Step, Goto, Crash, poolVars, chanVars, envVars, taskVars
<1>4. ASSUME NEW p \in Procs, SubmitSpill(p) PROVE MutexInv' /\ SubInv' /\ CurInv'
  BY <1>4, PoolFacts DEF SubmitSpill, Resume, IInv, TypeOK, ControlTypeOK, TaskTypeOK, MutexInv, SubInv, CurInv, SubmitLabels,
        Step, Goto, Crash, poolVars, chanVars, envVars, taskVars
<1>5. ASSUME NEW w \in Workers, WorkerReceive(w) PROVE MutexInv' /\ SubInv' /\ CurInv'
  BY <1>5, PoolFacts DEF WorkerReceive, IInv, TypeOK, ControlTypeOK, TaskTypeOK, MutexInv, SubInv, CurInv, SubmitLabels,
        Step, Goto, Crash, poolVars, chanVars, envVars, taskVars
<1>6. ASSUME NEW w \in Workers, WorkerQuit(w) PROVE MutexInv' /\ SubInv' /\ CurInv'
  BY <1>6, PoolFacts DEF WorkerQuit, IInv, TypeOK, ControlTypeOK, TaskTypeOK, MutexInv, SubInv, CurInv, SubmitLabels,
        Step, Goto, Crash, poolVars, chanVars, envVars, taskVars
<1>7. ASSUME NEW w \in Workers, WorkerTake(w) PROVE MutexInv' /\ SubInv' /\ CurInv'
  <2>1. CASE heap = {}
    BY <1>7, <2>1, PoolFacts DEF WorkerTake, IInv, TypeOK, ControlTypeOK, TaskTypeOK, MutexInv, SubInv, CurInv, SubmitLabels,
        Step, Goto, Crash, poolVars, chanVars, envVars, taskVars
  <2>2. CASE heap # {}
    <3>1. PICK best \in heap : /\ mu = Free /\ pc[w] = "slot"
                             /\ cur' = [cur EXCEPT ![w] = best]
                             /\ pc' = [pc EXCEPT ![w] = "taken"]
                             /\ UNCHANGED <<mu, sub>>
      BY <1>7, <2>2 DEF WorkerTake, Best, Step, Goto
    <3> QED
      BY <3>1, PoolFacts DEF IInv, TypeOK, PoolTypeOK, ControlTypeOK, TaskTypeOK, MutexInv, SubInv, CurInv, SubmitLabels
  <2> QED
    BY <2>1, <2>2
<1>8. ASSUME NEW w \in Workers, WorkerDone(w) PROVE MutexInv' /\ SubInv' /\ CurInv'
  BY <1>8, PoolFacts DEF WorkerDone, Wake, MainLabels, IInv, TypeOK, ControlTypeOK, TaskTypeOK, MutexInv, SubInv, CurInv, SubmitLabels,
        Step, Goto, Crash, poolVars, chanVars, envVars, taskVars
<1>9. ASSUME NEW w \in Workers, ActEnter(w) PROVE MutexInv' /\ SubInv' /\ CurInv'
  BY <1>9, PoolFacts DEF ActEnter, IInv, TypeOK, ControlTypeOK, TaskTypeOK, MutexInv, SubInv, CurInv, SubmitLabels,
        Step, Goto, Crash, poolVars, chanVars, envVars, taskVars
<1>10. ASSUME NEW w \in Workers, NEW t \in Tasks, ActLink(w, t) PROVE MutexInv' /\ SubInv' /\ CurInv'
  BY <1>10, PoolFacts DEF ActLink, CallSubmit, IInv, TypeOK, ControlTypeOK, TaskTypeOK, MutexInv, SubInv, CurInv, SubmitLabels,
        Step, Goto, Crash, poolVars, chanVars, envVars, taskVars
<1>11. ASSUME NEW w \in Workers, ActReturn(w) PROVE MutexInv' /\ SubInv' /\ CurInv'
  BY <1>11, PoolFacts DEF ActReturn, IInv, TypeOK, ControlTypeOK, TaskTypeOK, MutexInv, SubInv, CurInv, SubmitLabels,
        Step, Goto, Crash, poolVars, chanVars, envVars, taskVars
<1>12. ASSUME NEW w \in Workers, ActCancel(w) PROVE MutexInv' /\ SubInv' /\ CurInv'
  BY <1>12, PoolFacts DEF ActCancel, IInv, TypeOK, ControlTypeOK, TaskTypeOK, MutexInv, SubInv, CurInv, SubmitLabels,
        Step, Goto, Crash, poolVars, chanVars, envVars, taskVars
<1>13. ASSUME NEW w \in Workers, PushCanceled(w) PROVE MutexInv' /\ SubInv' /\ CurInv'
  BY <1>13, PoolFacts DEF PushCanceled, IInv, TypeOK, ControlTypeOK, TaskTypeOK, MutexInv, SubInv, CurInv, SubmitLabels,
        Step, Goto, Crash, poolVars, chanVars, envVars, taskVars
<1>14. CASE TickPop
  <2>1. Last(stack) \in Tasks
    BY <1>14, PopFromDisk DEF TickPop, IInv, TypeOK, TaskTypeOK, TasksConserved, ToSet
  <2> QED
    BY <1>14, <2>1, PoolFacts DEF TickPop, CallSubmit, IInv, TypeOK, ControlTypeOK, TaskTypeOK, MutexInv, SubInv, CurInv, SubmitLabels,
        Step, Goto, Crash, poolVars, chanVars, envVars, taskVars
<1>15. CASE TickQuit
  BY <1>15, PoolFacts DEF TickQuit, IInv, TypeOK, ControlTypeOK, TaskTypeOK, MutexInv, SubInv, CurInv, SubmitLabels,
        Step, Goto, Crash, poolVars, chanVars, envVars, taskVars
<1>16. ASSUME NEW t \in Tasks, Dispatch(t) PROVE MutexInv' /\ SubInv' /\ CurInv'
  BY <1>16, PoolFacts DEF Dispatch, CallSubmit, IInv, TypeOK, ControlTypeOK, TaskTypeOK, MutexInv, SubInv, CurInv, SubmitLabels,
        Step, Goto, Crash, poolVars, chanVars, envVars, taskVars
<1>17. CASE DispatchEnd
  BY <1>17, PoolFacts DEF DispatchEnd, IInv, TypeOK, ControlTypeOK, TaskTypeOK, MutexInv, SubInv, CurInv, SubmitLabels,
        Step, Goto, Crash, poolVars, chanVars, envVars, taskVars
<1>18. CASE WaitCall
  BY <1>18, PoolFacts DEF WaitCall, AfterWait, Asleep, IInv, TypeOK, ControlTypeOK, TaskTypeOK, MutexInv, SubInv, CurInv, SubmitLabels,
        Step, Goto, Crash, poolVars, chanVars, envVars, taskVars
<1>19. CASE WaitReturn
  <2>1. PICK label \in {"released1", "released2"} : Step(Main, label)
    BY <1>19 DEF WaitReturn
  <2>2. CASE wg # 0
    BY <1>19, <2>1, <2>2 DEF WaitReturn, IInv, MutexInv, SubInv, CurInv,
          Crash, poolVars, taskVars
  <2>3. CASE wg = 0
    BY <1>19, <2>1, <2>3, PoolFacts DEF WaitReturn, AfterWait, IInv, TypeOK, ControlTypeOK, TaskTypeOK, MutexInv, SubInv, CurInv, SubmitLabels,
        Step, Goto, Crash, poolVars, chanVars, envVars, taskVars
  <2> QED
    BY <2>2, <2>3
<1>20. CASE CloseQuit
  BY <1>20, PoolFacts DEF CloseQuit, IInv, TypeOK, ControlTypeOK, TaskTypeOK, MutexInv, SubInv, CurInv, SubmitLabels,
        Step, Goto, Crash, poolVars, chanVars, envVars, taskVars
<1>21. CASE CloseBuf
  BY <1>21, PoolFacts DEF CloseBuf, IInv, TypeOK, ControlTypeOK, TaskTypeOK, MutexInv, SubInv, CurInv, SubmitLabels,
        Step, Goto, Crash, poolVars, chanVars, envVars, taskVars
<1>22. CASE Backup
  <2>1. CASE heap # {}
    BY <1>22, <2>1 DEF Backup, IInv, MutexInv, SubInv, CurInv, Crash, poolVars, taskVars
  <2>2. CASE heap = {}
    BY <1>22, <2>2, PoolFacts DEF Backup, IInv, TypeOK, ControlTypeOK, TaskTypeOK, MutexInv, SubInv, CurInv, SubmitLabels,
        Step, Goto, Crash, poolVars, chanVars, envVars, taskVars
  <2> QED
    BY <2>1, <2>2
<1>23. CASE CloseFile
  BY <1>23, PoolFacts DEF CloseFile, IInv, TypeOK, ControlTypeOK, TaskTypeOK, MutexInv, SubInv, CurInv, SubmitLabels,
        Step, Goto, Crash, poolVars, chanVars, envVars, taskVars
<1>24. CASE Cancel
  BY <1>24, PoolFacts DEF Cancel, IInv, TypeOK, ControlTypeOK, TaskTypeOK, MutexInv, SubInv, CurInv, SubmitLabels,
        Step, Goto, Crash, poolVars, chanVars, envVars, taskVars
<1> QED
  BY <1>1, <1>2, <1>3, <1>4, <1>5, <1>6, <1>7, <1>8, <1>9, <1>10, <1>11, <1>12,
     <1>13, <1>14, <1>15, <1>16, <1>17, <1>18, <1>19, <1>20, <1>21, <1>22, <1>23, <1>24
     DEF Next, WorkerStep, TickerStep, MainStep, Submit, Procs

-----------------------------------------------------------------------------
(* Counting workers *)

\* there are finitely many workers at any label, so they can be counted
LEMMA WorkersAtFinite ==
    ASSUME NEW label
    PROVE  IsFiniteSet(WorkersAt(label)) /\ Cardinality(WorkersAt(label)) \in Nat
  BY PoolAssumption, FS_Subset, FS_CardinalityType DEF PoolAssumption, WorkersAt

\* a worker that moves to a label it was not at adds one to the count there
LEMMA WorkerArrives ==
    ASSUME NEW label, NEW w \in Workers, pc[w] # label, pc'[w] = label,
           \A v \in Workers \ {w} : pc'[v] = pc[v]
    PROVE  Cardinality(WorkersAt(label))' = Cardinality(WorkersAt(label)) + 1
<1>1. WorkersAt(label)' = WorkersAt(label) \cup {w} /\ w \notin WorkersAt(label)
  BY DEF WorkersAt
<1> QED
  BY <1>1, WorkersAtFinite, FS_AddElement

\* a worker that leaves a label takes one from the count there
LEMMA WorkerLeaves ==
    ASSUME NEW label, NEW w \in Workers, pc[w] = label, pc'[w] # label,
           \A v \in Workers \ {w} : pc'[v] = pc[v]
    PROVE  /\ Cardinality(WorkersAt(label))' = Cardinality(WorkersAt(label)) - 1
           /\ Cardinality(WorkersAt(label)) > 0
<1>1. WorkersAt(label)' = WorkersAt(label) \ {w} /\ w \in WorkersAt(label)
  BY DEF WorkersAt
<1>2. Cardinality(WorkersAt(label)) # 0
  BY <1>1, WorkersAtFinite, FS_EmptySet
<1>3. Cardinality(WorkersAt(label) \ {w}) = Cardinality(WorkersAt(label)) - 1
  BY <1>1, WorkersAtFinite, FS_RemoveElement
<1> QED
  BY <1>1, <1>2, <1>3, WorkersAtFinite

\* a label neither left nor reached keeps its workers
LEMMA WorkersStay ==
    ASSUME NEW label, \A v \in Workers : pc'[v] = label <=> pc[v] = label
    PROVE  WorkersAt(label)' = WorkersAt(label)
  BY DEF WorkersAt

\* the buffer is finite, so it has a size, and size zero means empty
LEMMA HeapFinite ==
    ASSUME IInv
    PROVE  /\ IsFiniteSet(heap) /\ Cardinality(heap) \in Nat
           /\ Cardinality(heap) = 0 <=> heap = {}
  BY FS_EmptySet, FS_CardinalityType DEF IInv, TypeOK, PoolTypeOK

\* the invariant rules the losing branches out
LEMMA EmptyHeap ==
    ASSUME IInv, mu = Free, heap = {}
    PROVE  slots < QueueCapacity /\ WorkersAt("slot") = {}
<1>1. slots + Cardinality(WorkersAt("slot")) = 0
  BY HeapFinite DEF IInv, SlotsMatchHeap
<1>2. slots = 0 /\ Cardinality(WorkersAt("slot")) = 0
  BY <1>1, WorkersAtFinite DEF IInv, TypeOK, PoolTypeOK
<1> QED
  BY <1>2, WorkersAtFinite, FS_EmptySet, PoolAssumption DEF PoolAssumption

\* wg.Done has a queued or taken task to account for: the counter is positive
LEMMA TakenCounts ==
    ASSUME IInv, NEW w \in Workers, pc[w] = "taken"
    PROVE  wg > 0
<1>1. WorkersAt("taken") # {}
  BY DEF WorkersAt
<1>2. Cardinality(WorkersAt("taken")) > 0
  BY <1>1, WorkersAtFinite, FS_EmptySet
<1> QED
  BY <1>2, HeapFinite, WorkersAtFinite DEF IInv, WgMatchesHeap

\* a step that touches none of the counted state keeps both equations
LEMMA CountsUnchanged ==
    ASSUME IInv, UNCHANGED poolVars,
           \A v \in Workers : pc'[v] = "slot" <=> pc[v] = "slot",
           \A v \in Workers : pc'[v] = "taken" <=> pc[v] = "taken"
    PROVE  SlotsMatchHeap' /\ WgMatchesHeap'
<1>1. WorkersAt("slot")' = WorkersAt("slot") /\ WorkersAt("taken")' = WorkersAt("taken")
  BY DEF WorkersAt
<1> QED
  BY <1>1 DEF IInv, SlotsMatchHeap, WgMatchesHeap, poolVars

\* Every step keeps buf, the heap and the WaitGroup in agreement.
LEMMA CountsStep ==
    ASSUME IInv, Next
    PROVE  SlotsMatchHeap' /\ WgMatchesHeap'
<1>1. ASSUME NEW p \in Procs, SubmitOnClosed(p) PROVE SlotsMatchHeap' /\ WgMatchesHeap'
  BY <1>1, CountsUnchanged, PoolFacts
     DEF SubmitOnClosed, IInv, TypeOK, ControlTypeOK, poolVars, Step, Goto, Crash
<1>2. ASSUME NEW p \in Procs, SubmitSend(p) PROVE SlotsMatchHeap' /\ WgMatchesHeap'
  <2>1. /\ slots' = slots + 1 /\ mu = Free /\ mu' = p
        /\ UNCHANGED <<heap, wg>>
        /\ \A v \in Workers : pc'[v] = "slot" <=> pc[v] = "slot"
        /\ \A v \in Workers : pc'[v] = "taken" <=> pc[v] = "taken"
    BY <1>2, PoolFacts DEF SubmitSend, IInv, TypeOK, ControlTypeOK, Step, Goto
  <2>2. WorkersAt("slot")' = WorkersAt("slot") /\ WorkersAt("taken")' = WorkersAt("taken")
    BY <2>1 DEF WorkersAt
  <2>3. slots \in Int
    BY DEF IInv, TypeOK, PoolTypeOK
  <2> QED
    BY <2>1, <2>2, <2>3, PoolFacts, HeapFinite, WorkersAtFinite
       DEF IInv, SlotsMatchHeap, WgMatchesHeap
<1>3. ASSUME NEW p \in Procs, SubmitInsert(p) PROVE SlotsMatchHeap' /\ WgMatchesHeap'
  <2>1. /\ mu = p /\ mu' = Free /\ wg' = wg + 1 /\ UNCHANGED slots
        /\ heap' = heap \cup {sub[p]}
        /\ \A v \in Workers : pc'[v] = "slot" <=> pc[v] = "slot"
        /\ \A v \in Workers : pc'[v] = "taken" <=> pc[v] = "taken"
    BY <1>3, PoolFacts DEF SubmitInsert, IInv, TypeOK, ControlTypeOK, MutexInv, Step, Goto, Resume
  <2>2. WorkersAt("slot")' = WorkersAt("slot") /\ WorkersAt("taken")' = WorkersAt("taken")
    BY <2>1 DEF WorkersAt
  <2>3. sub[p] \in Submitting
    BY <1>3, HeldByRemove DEF SubmitInsert, Step, IInv, TypeOK, TaskTypeOK, SubInv, SubmitLabels,
          TasksConserved, Submitting
  <2>4. Cardinality(heap') = Cardinality(heap) + 1
    BY <2>1, <2>3, HeapFinite, FS_AddElement DEF IInv, TasksConserved
  <2>5. slots \in Int /\ wg \in Int /\ mu # Free
    BY <2>1, PoolFacts DEF IInv, TypeOK, PoolTypeOK
  <2> QED
    BY <2>1, <2>2, <2>4, <2>5, HeapFinite, WorkersAtFinite
       DEF IInv, SlotsMatchHeap, WgMatchesHeap
<1>4. ASSUME NEW p \in Procs, SubmitSpill(p) PROVE SlotsMatchHeap' /\ WgMatchesHeap'
  <2>1. /\ UNCHANGED <<slots, wg, mu>>
        /\ \A v \in Workers : pc'[v] = "slot" <=> pc[v] = "slot"
        /\ \A v \in Workers : pc'[v] = "taken" <=> pc[v] = "taken"
    BY <1>4, PoolFacts DEF SubmitSpill, IInv, TypeOK, ControlTypeOK, Step, Goto, Resume
  <2>2. WorkersAt("slot")' = WorkersAt("slot") /\ WorkersAt("taken")' = WorkersAt("taken")
    BY <2>1 DEF WorkersAt
  <2>3. sub[p] \notin heap
    BY <1>4, HeldByRemove DEF SubmitSpill, Step, IInv, TypeOK, TaskTypeOK, SubInv, SubmitLabels,
          TasksConserved, Submitting
  <2>4. heap' = heap \/ \E worst \in heap : heap' = (heap \ {worst}) \cup {sub[p]}
    BY <1>4 DEF SubmitSpill, Replace, Worst
  <2>5. Cardinality(heap') = Cardinality(heap)
    <3>1. CASE heap' = heap
      BY <3>1
    <3>2. ASSUME NEW worst \in heap, heap' = (heap \ {worst}) \cup {sub[p]}
          PROVE  Cardinality(heap') = Cardinality(heap)
      <4>1. /\ IsFiniteSet(heap \ {worst})
            /\ Cardinality(heap \ {worst}) = Cardinality(heap) - 1
        BY HeapFinite, FS_RemoveElement
      <4>2. Cardinality(heap') = Cardinality(heap \ {worst}) + 1
        BY <2>3, <3>2, <4>1, FS_AddElement
      <4> QED
        BY <4>1, <4>2, HeapFinite
    <3> QED
      BY <2>4, <3>1, <3>2
  <2> QED
    BY <2>1, <2>2, <2>5 DEF IInv, SlotsMatchHeap, WgMatchesHeap
<1>5. ASSUME NEW w \in Workers, WorkerReceive(w) PROVE SlotsMatchHeap' /\ WgMatchesHeap'
  <2>1. /\ slots' = slots - 1 /\ UNCHANGED <<heap, wg, mu>>
        /\ pc[w] = "select" /\ pc'[w] = "slot"
        /\ \A v \in Workers \ {w} : pc'[v] = pc[v]
    BY <1>5, PoolFacts DEF WorkerReceive, IInv, TypeOK, ControlTypeOK, Step, Goto
  <2>2. Cardinality(WorkersAt("slot"))' = Cardinality(WorkersAt("slot")) + 1
    BY <2>1, WorkerArrives
  <2>3. WorkersAt("taken")' = WorkersAt("taken")
    BY <2>1, WorkersStay
  <2>4. slots \in Int
    BY DEF IInv, TypeOK, PoolTypeOK
  <2> QED
    BY <2>1, <2>2, <2>3, <2>4, HeapFinite, WorkersAtFinite
       DEF IInv, SlotsMatchHeap, WgMatchesHeap
<1>6. ASSUME NEW w \in Workers, WorkerQuit(w) PROVE SlotsMatchHeap' /\ WgMatchesHeap'
  BY <1>6, CountsUnchanged, PoolFacts
     DEF WorkerQuit, IInv, TypeOK, ControlTypeOK, poolVars, Step, Goto, Crash
<1>7. ASSUME NEW w \in Workers, WorkerTake(w) PROVE SlotsMatchHeap' /\ WgMatchesHeap'
  <2>1. heap # {}
    BY <1>7, EmptyHeap DEF WorkerTake, Step, WorkersAt
  <2>2. PICK best \in heap : /\ heap' = heap \ {best} /\ UNCHANGED <<slots, wg, mu>>
                           /\ pc[w] = "slot" /\ pc' = [pc EXCEPT ![w] = "taken"]
    BY <1>7, <2>1 DEF WorkerTake, Best, Step, Goto
  <2>3. /\ pc'[w] = "taken" /\ pc[w] = "slot"
        /\ \A v \in Workers \ {w} : pc'[v] = pc[v]
    BY <2>2, PoolFacts DEF IInv, TypeOK, ControlTypeOK
  <2>4. Cardinality(WorkersAt("slot"))' = Cardinality(WorkersAt("slot")) - 1
    BY <2>3, WorkerLeaves
  <2>5. Cardinality(WorkersAt("taken"))' = Cardinality(WorkersAt("taken")) + 1
    BY <2>3, WorkerArrives
  <2>6. Cardinality(heap') = Cardinality(heap) - 1
    BY <2>2, HeapFinite, FS_RemoveElement
  <2>7. slots \in Int /\ wg \in Int
    BY DEF IInv, TypeOK, PoolTypeOK
  <2> QED
    BY <2>2, <2>4, <2>5, <2>6, <2>7, HeapFinite, WorkersAtFinite
       DEF IInv, SlotsMatchHeap, WgMatchesHeap
<1>8. ASSUME NEW w \in Workers, WorkerDone(w) PROVE SlotsMatchHeap' /\ WgMatchesHeap'
  <2>1. /\ wg' = wg - 1 /\ UNCHANGED <<heap, slots, mu>>
        /\ pc[w] = "taken" /\ pc'[w] = "entry"
        /\ \A v \in Workers \ {w} : pc'[v] = pc[v]
    BY <1>8, PoolFacts DEF WorkerDone, IInv, TypeOK, ControlTypeOK, Step
  <2>2. Cardinality(WorkersAt("taken"))' = Cardinality(WorkersAt("taken")) - 1
    BY <2>1, WorkerLeaves
  <2>3. WorkersAt("slot")' = WorkersAt("slot")
    BY <2>1, WorkersStay
  <2>4. wg \in Int
    BY DEF IInv, TypeOK, PoolTypeOK
  <2> QED
    BY <2>1, <2>2, <2>3, <2>4, HeapFinite, WorkersAtFinite
       DEF IInv, SlotsMatchHeap, WgMatchesHeap
<1>9. ASSUME NEW w \in Workers, ActEnter(w) PROVE SlotsMatchHeap' /\ WgMatchesHeap'
  BY <1>9, CountsUnchanged, PoolFacts
     DEF ActEnter, IInv, TypeOK, ControlTypeOK, poolVars, Step, Goto, Crash
<1>10. ASSUME NEW w \in Workers, NEW t \in Tasks, ActLink(w, t) PROVE SlotsMatchHeap' /\ WgMatchesHeap'
  BY <1>10, CountsUnchanged, PoolFacts
     DEF ActLink, CallSubmit, IInv, TypeOK, ControlTypeOK, poolVars, Step, Goto, Crash
<1>11. ASSUME NEW w \in Workers, ActReturn(w) PROVE SlotsMatchHeap' /\ WgMatchesHeap'
  BY <1>11, CountsUnchanged, PoolFacts
     DEF ActReturn, IInv, TypeOK, ControlTypeOK, poolVars, Step, Goto, Crash
<1>12. ASSUME NEW w \in Workers, ActCancel(w) PROVE SlotsMatchHeap' /\ WgMatchesHeap'
  BY <1>12, CountsUnchanged, PoolFacts
     DEF ActCancel, IInv, TypeOK, ControlTypeOK, poolVars, Step, Goto, Crash
<1>13. ASSUME NEW w \in Workers, PushCanceled(w) PROVE SlotsMatchHeap' /\ WgMatchesHeap'
  BY <1>13, CountsUnchanged, PoolFacts
     DEF PushCanceled, IInv, TypeOK, ControlTypeOK, poolVars, Step, Goto, Crash
<1>14. CASE TickPop
  BY <1>14, CountsUnchanged, PoolFacts
     DEF TickPop, CallSubmit, IInv, TypeOK, ControlTypeOK, poolVars, Step, Goto, Crash
<1>15. CASE TickQuit
  BY <1>15, CountsUnchanged, PoolFacts
     DEF TickQuit, IInv, TypeOK, ControlTypeOK, poolVars, Step, Goto, Crash
<1>16. ASSUME NEW t \in Tasks, Dispatch(t) PROVE SlotsMatchHeap' /\ WgMatchesHeap'
  BY <1>16, CountsUnchanged, PoolFacts
     DEF Dispatch, CallSubmit, IInv, TypeOK, ControlTypeOK, poolVars, Step, Goto, Crash
<1>17. CASE DispatchEnd
  BY <1>17, CountsUnchanged, PoolFacts
     DEF DispatchEnd, IInv, TypeOK, ControlTypeOK, poolVars, Step, Goto, Crash
<1>18. CASE WaitCall
  BY <1>18, CountsUnchanged, PoolFacts
     DEF WaitCall, AfterWait, Asleep, IInv, TypeOK, ControlTypeOK, poolVars, Step, Goto, Crash
<1>19. CASE WaitReturn
  BY <1>19, CountsUnchanged, PoolFacts
     DEF WaitReturn, AfterWait, IInv, TypeOK, ControlTypeOK, poolVars, Step, Goto, Crash
<1>20. CASE CloseQuit
  BY <1>20, CountsUnchanged, PoolFacts
     DEF CloseQuit, IInv, TypeOK, ControlTypeOK, poolVars, Step, Goto, Crash
<1>21. CASE CloseBuf
  BY <1>21, CountsUnchanged, PoolFacts
     DEF CloseBuf, IInv, TypeOK, ControlTypeOK, poolVars, Step, Goto, Crash
<1>22. CASE Backup
  BY <1>22, CountsUnchanged, PoolFacts
     DEF Backup, IInv, TypeOK, ControlTypeOK, poolVars, Step, Goto, Crash
<1>23. CASE CloseFile
  BY <1>23, CountsUnchanged, PoolFacts
     DEF CloseFile, IInv, TypeOK, ControlTypeOK, poolVars, Step, Goto, Crash
<1>24. CASE Cancel
  BY <1>24, CountsUnchanged, PoolFacts
     DEF Cancel, IInv, TypeOK, ControlTypeOK, poolVars, Step, Goto, Crash
<1> QED
  BY <1>1, <1>2, <1>3, <1>4, <1>5, <1>6, <1>7, <1>8, <1>9, <1>10, <1>11, <1>12,
     <1>13, <1>14, <1>15, <1>16, <1>17, <1>18, <1>19, <1>20, <1>21, <1>22, <1>23, <1>24
     DEF Next, WorkerStep, TickerStep, MainStep, Submit, Procs

-----------------------------------------------------------------------------
(* Tasks in hand *)

\* a goroutine inside Submit holds a task, which counts as being submitted
LEMMA HoldsSubmitted ==
    ASSUME IInv, NEW p \in Procs, pc[p] \in SubmitLabels
    PROVE  sub[p] \in Tasks /\ sub[p] \in Submitting
  BY HeldByRemove DEF IInv, TypeOK, TaskTypeOK, SubInv, TasksConserved, Submitting

\* a worker inside act holds a task, which counts as running
LEMMA HoldsCurrent ==
    ASSUME IInv, NEW w \in Workers, pc[w] \notin {"select", "slot", "exited"}
    PROVE  cur[w] \in Tasks /\ cur[w] \in Running
  BY HeldByRemove DEF IInv, TypeOK, TaskTypeOK, CurInv, TasksConserved, Running

\* a goroutine calls Submit with a task it was not holding
LEMMA SubmitsTask ==
    ASSUME IInv, NEW p \in Procs, NEW t \in Tasks, sub[p] = NoTask, t \notin Submitting,
           sub' = [sub EXCEPT ![p] = t]
    PROVE  Submitting' = Submitting \cup {t} /\ OneEach(sub')
<1>1. sub \in [Procs -> Tasks \cup {NoTask}] /\ OneEach(sub) /\ t \notin HeldBy(sub)
  BY DEF IInv, TypeOK, TaskTypeOK, TasksConserved, Submitting
<1>2. HeldBy(sub') = HeldBy(sub) \cup {t} /\ OneEach(sub')
  BY <1>1, PoolFacts DEF HeldBy, OneEach
<1> QED
  BY <1>2 DEF Submitting

\* a worker takes a task
LEMMA RunsTask ==
    ASSUME IInv, NEW w \in Workers, NEW t \in Tasks, cur[w] = NoTask, t \notin Running,
           cur' = [cur EXCEPT ![w] = t]
    PROVE  Running' = Running \cup {t} /\ OneEach(cur')
<1>1. cur \in [Workers -> Tasks \cup {NoTask}] /\ OneEach(cur) /\ t \notin HeldBy(cur)
  BY DEF IInv, TypeOK, TaskTypeOK, TasksConserved, Running
<1>2. HeldBy(cur') = HeldBy(cur) \cup {t} /\ OneEach(cur')
  BY <1>1, PoolFacts DEF HeldBy, OneEach
<1> QED
  BY <1>2 DEF Running

\* a pushed task ends on the disk, or is lost
LEMMA PushMoves ==
    ASSUME IInv, NEW t \in Tasks, t \notin OnDisk, Push(t)
    PROVE  /\ stack' \in Seq(Tasks) /\ IsInjective(stack')
           /\ \/ OnDisk' = OnDisk \cup {t} /\ lost' = lost
              \/ OnDisk' = OnDisk /\ lost' = lost \cup {t}
<1>1. stack \in Seq(Tasks) /\ IsInjective(stack)
  BY DEF IInv, TypeOK, TaskTypeOK, TasksConserved
<1>2. CASE lost' = lost \cup {t} /\ stack' = stack
  BY <1>1, <1>2 DEF OnDisk
<1>3. CASE stack' = Append(stack, t) /\ lost' = lost
  BY <1>1, <1>3, PushOnDisk DEF OnDisk
<1> QED
  BY <1>2, <1>3 DEF Push

\* Every step preserves the types.
LEMMA TypeStep ==
    ASSUME IInv, Next
    PROVE  TypeOK'
<1>1. ASSUME NEW p \in Procs, SubmitOnClosed(p) PROVE TypeOK'
  <2>1. PoolTypeOK'
    BY <1>1, PoolFacts DEF SubmitOnClosed, IInv, TypeOK, PoolTypeOK, Crash, poolVars
  <2>2. ControlTypeOK'
    BY <1>1, PoolFacts DEF SubmitOnClosed, IInv, TypeOK, ControlTypeOK,
          WorkerLabels, TickerLabels, MainLabels, SubmitLabels, Panics,
          Step, Goto, Crash, chanVars, envVars
  <2>3. TaskTypeOK'
    BY <1>1, PoolFacts DEF SubmitOnClosed, IInv, TypeOK, TaskTypeOK, Crash, taskVars
  <2> QED
    BY <2>1, <2>2, <2>3 DEF TypeOK
<1>2. ASSUME NEW p \in Procs, SubmitSend(p) PROVE TypeOK'
  <2>1. PoolTypeOK'
    BY <1>2, PoolFacts DEF SubmitSend, IInv, TypeOK, PoolTypeOK, Crash, poolVars
  <2>2. ControlTypeOK'
    BY <1>2, PoolFacts DEF SubmitSend, IInv, TypeOK, ControlTypeOK,
          WorkerLabels, TickerLabels, MainLabels, SubmitLabels, Panics,
          Step, Goto, Crash, chanVars, envVars
  <2>3. TaskTypeOK'
    BY <1>2, PoolFacts DEF SubmitSend, IInv, TypeOK, TaskTypeOK, Crash, taskVars
  <2> QED
    BY <2>1, <2>2, <2>3 DEF TypeOK
<1>3. ASSUME NEW p \in Procs, SubmitInsert(p) PROVE TypeOK'
  <2>0. sub[p] \in Tasks
    BY <1>3, HoldsSubmitted DEF SubmitInsert, Step, SubmitLabels
  <2>1. PoolTypeOK'
    <3>1. IsFiniteSet(heap \cup {sub[p]})
      BY HeapFinite, FS_AddElement
    <3> QED
      BY <1>3, <2>0, <3>1 DEF SubmitInsert, IInv, TypeOK, PoolTypeOK
  <2>2. ControlTypeOK'
    BY <1>3, PoolFacts DEF SubmitInsert, Resume, IInv, TypeOK, ControlTypeOK,
          WorkerLabels, TickerLabels, MainLabels, SubmitLabels, Panics,
          Step, Goto, Crash, chanVars, envVars
  <2>3. TaskTypeOK'
    BY <1>3, PoolFacts DEF SubmitInsert, IInv, TypeOK, TaskTypeOK, Crash, taskVars
  <2> QED
    BY <2>1, <2>2, <2>3 DEF TypeOK
<1>4. ASSUME NEW p \in Procs, SubmitSpill(p) PROVE TypeOK'
  <2>0. sub[p] \in Tasks /\ sub[p] \notin OnDisk
    BY <1>4, HoldsSubmitted DEF SubmitSpill, Step, SubmitLabels, IInv, TasksConserved
  <2>1. PoolTypeOK'
    <3>1. \A worst : IsFiniteSet((heap \ {worst}) \cup {sub[p]})
      BY HeapFinite, FS_AddElement, FS_RemoveElement
    <3> QED
      BY <1>4, <2>0, <3>1 DEF SubmitSpill, Replace, Worst, IInv, TypeOK, PoolTypeOK
  <2>2. ControlTypeOK'
    BY <1>4, PoolFacts DEF SubmitSpill, Resume, IInv, TypeOK, ControlTypeOK,
          WorkerLabels, TickerLabels, MainLabels, SubmitLabels, Panics,
          Step, Goto, Crash, chanVars, envVars
  <2>3. TaskTypeOK'
    <3>1. stack' \in Seq(Tasks) /\ lost' \subseteq Tasks
      <4>1. CASE heap = {}
        BY <1>4, <2>0, <4>1 DEF SubmitSpill, IInv, TypeOK, TaskTypeOK
      <4>2. CASE heap # {}
        <5>1. PICK t \in heap \cup {sub[p]} : Push(t)
          BY <1>4, <4>2 DEF SubmitSpill, Worst
        <5>2. t \in Tasks /\ t \notin OnDisk
          BY <2>0 DEF IInv, TypeOK, PoolTypeOK, TasksConserved
        <5> QED
          BY <5>1, <5>2, PushMoves DEF IInv, TypeOK, TaskTypeOK
      <4> QED
        BY <4>1, <4>2
    <3> QED
      BY <1>4, <3>1 DEF SubmitSpill, IInv, TypeOK, TaskTypeOK
  <2> QED
    BY <2>1, <2>2, <2>3 DEF TypeOK
<1>5. ASSUME NEW w \in Workers, WorkerReceive(w) PROVE TypeOK'
  <2>1. PoolTypeOK'
    BY <1>5, PoolFacts DEF WorkerReceive, IInv, TypeOK, PoolTypeOK, Crash, poolVars
  <2>2. ControlTypeOK'
    BY <1>5, PoolFacts DEF WorkerReceive, IInv, TypeOK, ControlTypeOK,
          WorkerLabels, TickerLabels, MainLabels, SubmitLabels, Panics,
          Step, Goto, Crash, chanVars, envVars
  <2>3. TaskTypeOK'
    BY <1>5, PoolFacts DEF WorkerReceive, IInv, TypeOK, TaskTypeOK, Crash, taskVars
  <2> QED
    BY <2>1, <2>2, <2>3 DEF TypeOK
<1>6. ASSUME NEW w \in Workers, WorkerQuit(w) PROVE TypeOK'
  <2>1. PoolTypeOK'
    BY <1>6, PoolFacts DEF WorkerQuit, IInv, TypeOK, PoolTypeOK, Crash, poolVars
  <2>2. ControlTypeOK'
    BY <1>6, PoolFacts DEF WorkerQuit, IInv, TypeOK, ControlTypeOK,
          WorkerLabels, TickerLabels, MainLabels, SubmitLabels, Panics,
          Step, Goto, Crash, chanVars, envVars
  <2>3. TaskTypeOK'
    BY <1>6, PoolFacts DEF WorkerQuit, IInv, TypeOK, TaskTypeOK, Crash, taskVars
  <2> QED
    BY <2>1, <2>2, <2>3 DEF TypeOK
<1>7. ASSUME NEW w \in Workers, WorkerTake(w) PROVE TypeOK'
  <2>0. heap # {}
    BY <1>7, EmptyHeap DEF WorkerTake, Step, WorkersAt
  <2>1. PoolTypeOK'
    <3>1. \A best : IsFiniteSet(heap \ {best})
      BY HeapFinite, FS_RemoveElement
    <3> QED
      BY <1>7, <2>0, <3>1 DEF WorkerTake, Best, IInv, TypeOK, PoolTypeOK
  <2>2. ControlTypeOK'
    BY <1>7, PoolFacts DEF WorkerTake, IInv, TypeOK, ControlTypeOK,
          WorkerLabels, TickerLabels, MainLabels, SubmitLabels, Panics,
          Step, Goto, Crash, chanVars, envVars
  <2>3. TaskTypeOK'
    <3>1. \E best \in heap : cur' = [cur EXCEPT ![w] = best]
      BY <1>7, <2>0 DEF WorkerTake, Best
    <3>2. UNCHANGED <<stack, sub, fresh, finished, lost>>
      BY <1>7, <2>0 DEF WorkerTake
    <3> QED
      BY <3>1, <3>2 DEF IInv, TypeOK, PoolTypeOK, TaskTypeOK
  <2> QED
    BY <2>1, <2>2, <2>3 DEF TypeOK
<1>8. ASSUME NEW w \in Workers, WorkerDone(w) PROVE TypeOK'
  <2>1. PoolTypeOK'
    BY <1>8, TakenCounts DEF WorkerDone, Step, IInv, TypeOK, PoolTypeOK
  <2>2. ControlTypeOK'
    BY <1>8, PoolFacts DEF WorkerDone, Wake, IInv, TypeOK, ControlTypeOK,
          WorkerLabels, TickerLabels, MainLabels, SubmitLabels, Panics,
          Step, Goto, Crash, chanVars, envVars
  <2>3. TaskTypeOK'
    BY <1>8, PoolFacts DEF WorkerDone, IInv, TypeOK, TaskTypeOK, Crash, taskVars
  <2> QED
    BY <2>1, <2>2, <2>3 DEF TypeOK
<1>9. ASSUME NEW w \in Workers, ActEnter(w) PROVE TypeOK'
  <2>1. PoolTypeOK'
    BY <1>9, PoolFacts DEF ActEnter, IInv, TypeOK, PoolTypeOK, Crash, poolVars
  <2>2. ControlTypeOK'
    BY <1>9, PoolFacts DEF ActEnter, IInv, TypeOK, ControlTypeOK,
          WorkerLabels, TickerLabels, MainLabels, SubmitLabels, Panics,
          Step, Goto, Crash, chanVars, envVars
  <2>3. TaskTypeOK'
    BY <1>9, PoolFacts DEF ActEnter, IInv, TypeOK, TaskTypeOK, Crash, taskVars
  <2> QED
    BY <2>1, <2>2, <2>3 DEF TypeOK
<1>10. ASSUME NEW w \in Workers, NEW t \in Tasks, ActLink(w, t) PROVE TypeOK'
  <2>1. PoolTypeOK'
    BY <1>10, PoolFacts DEF ActLink, IInv, TypeOK, PoolTypeOK, Crash, poolVars
  <2>2. ControlTypeOK'
    BY <1>10, PoolFacts DEF ActLink, CallSubmit, IInv, TypeOK, ControlTypeOK,
          WorkerLabels, TickerLabels, MainLabels, SubmitLabels, Panics,
          Step, Goto, Crash, chanVars, envVars
  <2>3. TaskTypeOK'
    BY <1>10, PoolFacts DEF ActLink, CallSubmit, IInv, TypeOK, TaskTypeOK, Crash, taskVars
  <2> QED
    BY <2>1, <2>2, <2>3 DEF TypeOK
<1>11. ASSUME NEW w \in Workers, ActReturn(w) PROVE TypeOK'
  <2>1. PoolTypeOK'
    BY <1>11, PoolFacts DEF ActReturn, IInv, TypeOK, PoolTypeOK, Crash, poolVars
  <2>2. ControlTypeOK'
    BY <1>11, PoolFacts DEF ActReturn, IInv, TypeOK, ControlTypeOK,
          WorkerLabels, TickerLabels, MainLabels, SubmitLabels, Panics,
          Step, Goto, Crash, chanVars, envVars
  <2>3. TaskTypeOK'
    <3>1. cur[w] \in Tasks
      BY <1>11, HoldsCurrent DEF ActReturn, Step
    <3> QED
      BY <1>11, <3>1 DEF ActReturn, IInv, TypeOK, TaskTypeOK
  <2> QED
    BY <2>1, <2>2, <2>3 DEF TypeOK
<1>12. ASSUME NEW w \in Workers, ActCancel(w) PROVE TypeOK'
  <2>1. PoolTypeOK'
    BY <1>12, PoolFacts DEF ActCancel, IInv, TypeOK, PoolTypeOK, Crash, poolVars
  <2>2. ControlTypeOK'
    BY <1>12, PoolFacts DEF ActCancel, IInv, TypeOK, ControlTypeOK,
          WorkerLabels, TickerLabels, MainLabels, SubmitLabels, Panics,
          Step, Goto, Crash, chanVars, envVars
  <2>3. TaskTypeOK'
    BY <1>12, PoolFacts DEF ActCancel, IInv, TypeOK, TaskTypeOK, Crash, taskVars
  <2> QED
    BY <2>1, <2>2, <2>3 DEF TypeOK
<1>13. ASSUME NEW w \in Workers, PushCanceled(w) PROVE TypeOK'
  <2>1. PoolTypeOK'
    BY <1>13, PoolFacts DEF PushCanceled, IInv, TypeOK, PoolTypeOK, Crash, poolVars
  <2>2. ControlTypeOK'
    BY <1>13, PoolFacts DEF PushCanceled, IInv, TypeOK, ControlTypeOK,
          WorkerLabels, TickerLabels, MainLabels, SubmitLabels, Panics,
          Step, Goto, Crash, chanVars, envVars
  <2>3. TaskTypeOK'
    <3>1. cur[w] \in Tasks /\ cur[w] \notin OnDisk
      BY <1>13, HoldsCurrent DEF PushCanceled, Step, IInv, TasksConserved
    <3>2. stack' \in Seq(Tasks) /\ lost' \subseteq Tasks
      BY <1>13, <3>1, PushMoves DEF PushCanceled, IInv, TypeOK, TaskTypeOK
    <3> QED
      BY <1>13, <3>2 DEF PushCanceled, IInv, TypeOK, TaskTypeOK
  <2> QED
    BY <2>1, <2>2, <2>3 DEF TypeOK
<1>14. CASE TickPop
  <2>1. PoolTypeOK'
    BY <1>14, PoolFacts DEF TickPop, IInv, TypeOK, PoolTypeOK, Crash, poolVars
  <2>2. ControlTypeOK'
    BY <1>14, PoolFacts DEF TickPop, CallSubmit, IInv, TypeOK, ControlTypeOK,
          WorkerLabels, TickerLabels, MainLabels, SubmitLabels, Panics,
          Step, Goto, Crash, chanVars, envVars
  <2>3. TaskTypeOK'
    <3>1. Front(stack) \in Seq(Tasks) /\ Last(stack) \in Tasks
      BY <1>14, PopFromDisk DEF TickPop, IInv, TypeOK, TaskTypeOK, TasksConserved, ToSet
    <3> QED
      BY <1>14, <3>1, PoolFacts DEF TickPop, CallSubmit, IInv, TypeOK, TaskTypeOK
  <2> QED
    BY <2>1, <2>2, <2>3 DEF TypeOK
<1>15. CASE TickQuit
  <2>1. PoolTypeOK'
    BY <1>15, PoolFacts DEF TickQuit, IInv, TypeOK, PoolTypeOK, Crash, poolVars
  <2>2. ControlTypeOK'
    BY <1>15, PoolFacts DEF TickQuit, IInv, TypeOK, ControlTypeOK,
          WorkerLabels, TickerLabels, MainLabels, SubmitLabels, Panics,
          Step, Goto, Crash, chanVars, envVars
  <2>3. TaskTypeOK'
    BY <1>15, PoolFacts DEF TickQuit, IInv, TypeOK, TaskTypeOK, Crash, taskVars
  <2> QED
    BY <2>1, <2>2, <2>3 DEF TypeOK
<1>16. ASSUME NEW t \in Tasks, Dispatch(t) PROVE TypeOK'
  <2>1. PoolTypeOK'
    BY <1>16, PoolFacts DEF Dispatch, IInv, TypeOK, PoolTypeOK, Crash, poolVars
  <2>2. ControlTypeOK'
    BY <1>16, PoolFacts DEF Dispatch, CallSubmit, IInv, TypeOK, ControlTypeOK,
          WorkerLabels, TickerLabels, MainLabels, SubmitLabels, Panics,
          Step, Goto, Crash, chanVars, envVars
  <2>3. TaskTypeOK'
    BY <1>16, PoolFacts DEF Dispatch, CallSubmit, IInv, TypeOK, TaskTypeOK, Crash, taskVars
  <2> QED
    BY <2>1, <2>2, <2>3 DEF TypeOK
<1>17. CASE DispatchEnd
  <2>1. PoolTypeOK'
    BY <1>17, PoolFacts DEF DispatchEnd, IInv, TypeOK, PoolTypeOK, Crash, poolVars
  <2>2. ControlTypeOK'
    BY <1>17, PoolFacts DEF DispatchEnd, IInv, TypeOK, ControlTypeOK,
          WorkerLabels, TickerLabels, MainLabels, SubmitLabels, Panics,
          Step, Goto, Crash, chanVars, envVars
  <2>3. TaskTypeOK'
    BY <1>17, PoolFacts DEF DispatchEnd, IInv, TypeOK, TaskTypeOK, Crash, taskVars
  <2> QED
    BY <2>1, <2>2, <2>3 DEF TypeOK
<1>18. CASE WaitCall
  <2>1. PoolTypeOK'
    BY <1>18, PoolFacts DEF WaitCall, IInv, TypeOK, PoolTypeOK, Crash, poolVars
  <2>2. ControlTypeOK'
    BY <1>18, PoolFacts DEF WaitCall, AfterWait, Asleep, IInv, TypeOK, ControlTypeOK,
          WorkerLabels, TickerLabels, MainLabels, SubmitLabels, Panics,
          Step, Goto, Crash, chanVars, envVars
  <2>3. TaskTypeOK'
    BY <1>18, PoolFacts DEF WaitCall, IInv, TypeOK, TaskTypeOK, Crash, taskVars
  <2> QED
    BY <2>1, <2>2, <2>3 DEF TypeOK
<1>19. CASE WaitReturn
  <2>1. PoolTypeOK'
    BY <1>19, PoolFacts DEF WaitReturn, IInv, TypeOK, PoolTypeOK, Crash, poolVars
  <2>2. ControlTypeOK'
    BY <1>19, PoolFacts DEF WaitReturn, AfterWait, IInv, TypeOK, ControlTypeOK,
          WorkerLabels, TickerLabels, MainLabels, SubmitLabels, Panics,
          Step, Goto, Crash, chanVars, envVars
  <2>3. TaskTypeOK'
    BY <1>19, PoolFacts DEF WaitReturn, IInv, TypeOK, TaskTypeOK, Crash, taskVars
  <2> QED
    BY <2>1, <2>2, <2>3 DEF TypeOK
<1>20. CASE CloseQuit
  <2>1. PoolTypeOK'
    BY <1>20, PoolFacts DEF CloseQuit, IInv, TypeOK, PoolTypeOK, Crash, poolVars
  <2>2. ControlTypeOK'
    BY <1>20, PoolFacts DEF CloseQuit, IInv, TypeOK, ControlTypeOK,
          WorkerLabels, TickerLabels, MainLabels, SubmitLabels, Panics,
          Step, Goto, Crash, chanVars, envVars
  <2>3. TaskTypeOK'
    BY <1>20, PoolFacts DEF CloseQuit, IInv, TypeOK, TaskTypeOK, Crash, taskVars
  <2> QED
    BY <2>1, <2>2, <2>3 DEF TypeOK
<1>21. CASE CloseBuf
  <2>1. PoolTypeOK'
    BY <1>21, PoolFacts DEF CloseBuf, IInv, TypeOK, PoolTypeOK, Crash, poolVars
  <2>2. ControlTypeOK'
    BY <1>21, PoolFacts DEF CloseBuf, IInv, TypeOK, ControlTypeOK,
          WorkerLabels, TickerLabels, MainLabels, SubmitLabels, Panics,
          Step, Goto, Crash, chanVars, envVars
  <2>3. TaskTypeOK'
    BY <1>21, PoolFacts DEF CloseBuf, IInv, TypeOK, TaskTypeOK, Crash, taskVars
  <2> QED
    BY <2>1, <2>2, <2>3 DEF TypeOK
<1>22. CASE Backup
  <2>1. PoolTypeOK'
    BY <1>22, PoolFacts DEF Backup, IInv, TypeOK, PoolTypeOK, Crash, poolVars
  <2>2. ControlTypeOK'
    BY <1>22, PoolFacts DEF Backup, IInv, TypeOK, ControlTypeOK,
          WorkerLabels, TickerLabels, MainLabels, SubmitLabels, Panics,
          Step, Goto, Crash, chanVars, envVars
  <2>3. TaskTypeOK'
    BY <1>22, PoolFacts DEF Backup, IInv, TypeOK, TaskTypeOK, Crash, taskVars
  <2> QED
    BY <2>1, <2>2, <2>3 DEF TypeOK
<1>23. CASE CloseFile
  <2>1. PoolTypeOK'
    BY <1>23, PoolFacts DEF CloseFile, IInv, TypeOK, PoolTypeOK, Crash, poolVars
  <2>2. ControlTypeOK'
    BY <1>23, PoolFacts DEF CloseFile, IInv, TypeOK, ControlTypeOK,
          WorkerLabels, TickerLabels, MainLabels, SubmitLabels, Panics,
          Step, Goto, Crash, chanVars, envVars
  <2>3. TaskTypeOK'
    BY <1>23, PoolFacts DEF CloseFile, IInv, TypeOK, TaskTypeOK, Crash, taskVars
  <2> QED
    BY <2>1, <2>2, <2>3 DEF TypeOK
<1>24. CASE Cancel
  <2>1. PoolTypeOK'
    BY <1>24, PoolFacts DEF Cancel, IInv, TypeOK, PoolTypeOK, Crash, poolVars
  <2>2. ControlTypeOK'
    BY <1>24, PoolFacts DEF Cancel, IInv, TypeOK, ControlTypeOK,
          WorkerLabels, TickerLabels, MainLabels, SubmitLabels, Panics,
          Step, Goto, Crash, chanVars, envVars
  <2>3. TaskTypeOK'
    BY <1>24, PoolFacts DEF Cancel, IInv, TypeOK, TaskTypeOK, Crash, taskVars
  <2> QED
    BY <2>1, <2>2, <2>3 DEF TypeOK
<1> QED
  BY <1>1, <1>2, <1>3, <1>4, <1>5, <1>6, <1>7, <1>8, <1>9, <1>10, <1>11, <1>12,
     <1>13, <1>14, <1>15, <1>16, <1>17, <1>18, <1>19, <1>20, <1>21, <1>22, <1>23, <1>24
     DEF Next, WorkerStep, TickerStep, MainStep, Submit, Procs

-----------------------------------------------------------------------------
\* a step that moves no task conserves them
LEMMA ConservedUnchanged ==
    ASSUME IInv, UNCHANGED <<heap, taskVars>>
    PROVE  TasksConserved'
  BY DEF IInv, taskVars, TasksConserved, Running, Submitting, OnDisk, HeldBy, OneEach, ToSet

\* Every step moves a task from one place to another, or none.
LEMMA ConservedStep ==
    ASSUME IInv, Next
    PROVE  TasksConserved'
<1>1. ASSUME NEW p \in Procs, SubmitOnClosed(p) PROVE TasksConserved'
  BY <1>1, ConservedUnchanged DEF SubmitOnClosed, Crash, poolVars, taskVars
<1>2. ASSUME NEW p \in Procs, SubmitSend(p) PROVE TasksConserved'
  BY <1>2, ConservedUnchanged DEF SubmitSend, Crash, poolVars, taskVars
<1>3. ASSUME NEW p \in Procs, SubmitInsert(p) PROVE TasksConserved'
  <2>1. sub[p] \in Tasks /\ sub[p] \in Submitting
    BY <1>3, HoldsSubmitted DEF SubmitInsert, Step, SubmitLabels
  <2>2. Submitting' = Submitting \ {sub[p]} /\ OneEach(sub')
    BY <1>3, <2>1, HeldByRemove, PoolFacts
       DEF SubmitInsert, IInv, TypeOK, TaskTypeOK, TasksConserved, Submitting
  <2>3. /\ heap' = heap \cup {sub[p]}
        /\ OnDisk' = OnDisk /\ Running' = Running /\ UNCHANGED <<stack, cur, fresh, finished, lost>>
    BY <1>3 DEF SubmitInsert, OnDisk, Running
  <2> QED
    BY <2>1, <2>2, <2>3 DEF IInv, TasksConserved, IsInjective, OneEach
<1>4. ASSUME NEW p \in Procs, SubmitSpill(p) PROVE TasksConserved'
  <2>1. sub[p] \in Tasks /\ sub[p] \in Submitting
    BY <1>4, HoldsSubmitted DEF SubmitSpill, Step, SubmitLabels
  <2>2. Submitting' = Submitting \ {sub[p]} /\ OneEach(sub')
    BY <1>4, <2>1, HeldByRemove, PoolFacts
       DEF SubmitSpill, IInv, TypeOK, TaskTypeOK, TasksConserved, Submitting
  <2>3. Running' = Running /\ UNCHANGED <<cur, fresh, finished>>
    BY <1>4 DEF SubmitSpill, Running
  <2>4. heap # {}
    BY <1>4, EmptyHeap, PoolFacts DEF SubmitSpill
  <2>5. PICK worst \in heap :
          \/ heap' = (heap \ {worst}) \cup {sub[p]} /\ Push(worst)
          \/ heap' = heap /\ Push(sub[p])
    BY <1>4, <2>4 DEF SubmitSpill, Replace, Worst
  <2>6. worst \in Tasks /\ worst \notin OnDisk /\ sub[p] \notin OnDisk
    BY <2>1 DEF IInv, TypeOK, PoolTypeOK, TasksConserved
  <2>7. CASE heap' = (heap \ {worst}) \cup {sub[p]} /\ Push(worst)
    <3>1. /\ IsInjective(stack')
          /\ \/ OnDisk' = OnDisk \cup {worst} /\ lost' = lost
             \/ OnDisk' = OnDisk /\ lost' = lost \cup {worst}
      BY <2>6, <2>7, PushMoves
    <3> QED
      BY <2>1, <2>2, <2>3, <2>6, <2>7, <3>1 DEF IInv, TasksConserved
  <2>8. CASE heap' = heap /\ Push(sub[p])
    <3>1. /\ IsInjective(stack')
          /\ \/ OnDisk' = OnDisk \cup {sub[p]} /\ lost' = lost
             \/ OnDisk' = OnDisk /\ lost' = lost \cup {sub[p]}
      BY <2>1, <2>6, <2>8, PushMoves
    <3> QED
      BY <2>1, <2>2, <2>3, <2>8, <3>1 DEF IInv, TasksConserved
  <2> QED
    BY <2>5, <2>7, <2>8
<1>5. ASSUME NEW w \in Workers, WorkerReceive(w) PROVE TasksConserved'
  BY <1>5, ConservedUnchanged DEF WorkerReceive, Crash, poolVars, taskVars
<1>6. ASSUME NEW w \in Workers, WorkerQuit(w) PROVE TasksConserved'
  BY <1>6, ConservedUnchanged DEF WorkerQuit, Crash, poolVars, taskVars
<1>7. ASSUME NEW w \in Workers, WorkerTake(w) PROVE TasksConserved'
  <2>1. heap # {}
    BY <1>7, EmptyHeap DEF WorkerTake, Step, WorkersAt
  <2>2. PICK best \in heap : heap' = heap \ {best} /\ cur' = [cur EXCEPT ![w] = best]
    BY <1>7, <2>1 DEF WorkerTake, Best
  <2>3. cur[w] = NoTask /\ best \in Tasks /\ best \notin Running
    BY <1>7 DEF WorkerTake, Step, IInv, CurInv, TypeOK, PoolTypeOK, TasksConserved
  <2>4. Running' = Running \cup {best} /\ OneEach(cur')
    BY <2>2, <2>3, RunsTask
  <2>5. /\ OnDisk' = OnDisk /\ Submitting' = Submitting
        /\ UNCHANGED <<stack, sub, fresh, finished, lost>>
    BY <1>7, <2>1 DEF WorkerTake, OnDisk, Submitting
  <2> QED
    BY <2>2, <2>3, <2>4, <2>5 DEF IInv, TasksConserved
<1>8. ASSUME NEW w \in Workers, WorkerDone(w) PROVE TasksConserved'
  BY <1>8, ConservedUnchanged DEF WorkerDone, Crash, poolVars, taskVars
<1>9. ASSUME NEW w \in Workers, ActEnter(w) PROVE TasksConserved'
  BY <1>9, ConservedUnchanged DEF ActEnter, Crash, poolVars, taskVars
<1>10. ASSUME NEW w \in Workers, NEW t \in Tasks, ActLink(w, t) PROVE TasksConserved'
  <2>1. t \in fresh /\ fresh' = fresh \ {t} /\ sub' = [sub EXCEPT ![w] = t]
    BY <1>10 DEF ActLink, CallSubmit
  <2>2. sub[w] = NoTask /\ t \notin Submitting
    BY <1>10, <2>1, PoolFacts DEF ActLink, Step, IInv, SubInv, SubmitLabels, TasksConserved
  <2>3. Submitting' = Submitting \cup {t} /\ OneEach(sub')
    BY <2>1, <2>2, SubmitsTask, PoolFacts
  <2>4. /\ OnDisk' = OnDisk /\ Running' = Running
        /\ UNCHANGED <<heap, stack, cur, finished, lost>>
    BY <1>10 DEF ActLink, OnDisk, Running, poolVars
  <2> QED
    BY <2>1, <2>2, <2>3, <2>4 DEF IInv, TasksConserved
<1>11. ASSUME NEW w \in Workers, ActReturn(w) PROVE TasksConserved'
  <2>1. cur[w] \in Tasks /\ cur[w] \in Running
    BY <1>11, HoldsCurrent DEF ActReturn, Step
  <2>2. Running' = Running \ {cur[w]} /\ OneEach(cur')
    BY <1>11, <2>1, HeldByRemove, PoolFacts
       DEF ActReturn, IInv, TypeOK, TaskTypeOK, TasksConserved, Running
  <2>3. /\ finished' = finished \cup {cur[w]}
        /\ OnDisk' = OnDisk /\ Submitting' = Submitting
        /\ UNCHANGED <<heap, stack, sub, fresh, lost>>
    BY <1>11 DEF ActReturn, OnDisk, Submitting, poolVars
  <2> QED
    BY <2>1, <2>2, <2>3 DEF IInv, TasksConserved
<1>12. ASSUME NEW w \in Workers, ActCancel(w) PROVE TasksConserved'
  BY <1>12, ConservedUnchanged DEF ActCancel, Crash, poolVars, taskVars
<1>13. ASSUME NEW w \in Workers, PushCanceled(w) PROVE TasksConserved'
  <2>1. cur[w] \in Tasks /\ cur[w] \in Running
    BY <1>13, HoldsCurrent DEF PushCanceled, Step
  <2>2. Running' = Running \ {cur[w]} /\ OneEach(cur')
    BY <1>13, <2>1, HeldByRemove, PoolFacts
       DEF PushCanceled, IInv, TypeOK, TaskTypeOK, TasksConserved, Running
  <2>3. /\ IsInjective(stack')
        /\ \/ OnDisk' = OnDisk \cup {cur[w]} /\ lost' = lost
           \/ OnDisk' = OnDisk /\ lost' = lost \cup {cur[w]}
    BY <1>13, <2>1, PushMoves DEF PushCanceled, IInv, TasksConserved
  <2>4. Submitting' = Submitting /\ UNCHANGED <<heap, sub, fresh, finished>>
    BY <1>13 DEF PushCanceled, Submitting, poolVars
  <2> QED
    BY <2>1, <2>2, <2>3, <2>4 DEF IInv, TasksConserved
<1>14. CASE TickPop
  <2>1. /\ Last(stack) \in OnDisk /\ Last(stack) \in Tasks
        /\ OnDisk' = OnDisk \ {Last(stack)} /\ IsInjective(stack')
    BY <1>14, PopFromDisk DEF TickPop, IInv, TypeOK, TaskTypeOK, TasksConserved, OnDisk
  <2>2. sub[Ticker] = NoTask /\ Last(stack) \notin Submitting
    BY <1>14, <2>1, PoolFacts DEF TickPop, Step, IInv, SubInv, SubmitLabels, TasksConserved
  <2>3. Submitting' = Submitting \cup {Last(stack)} /\ OneEach(sub')
    BY <1>14, <2>1, <2>2, SubmitsTask, PoolFacts DEF TickPop, CallSubmit
  <2>4. Running' = Running /\ UNCHANGED <<heap, cur, fresh, finished, lost>>
    BY <1>14 DEF TickPop, Running, poolVars
  <2> QED
    BY <2>1, <2>2, <2>3, <2>4 DEF IInv, TasksConserved
<1>15. CASE TickQuit
  BY <1>15, ConservedUnchanged DEF TickQuit, Crash, poolVars, taskVars
<1>16. ASSUME NEW t \in Tasks, Dispatch(t) PROVE TasksConserved'
  <2>1. t \in fresh /\ fresh' = fresh \ {t} /\ sub' = [sub EXCEPT ![Main] = t]
    BY <1>16 DEF Dispatch, CallSubmit
  <2>2. sub[Main] = NoTask /\ t \notin Submitting
    BY <1>16, <2>1, PoolFacts DEF Dispatch, Step, IInv, SubInv, SubmitLabels, TasksConserved
  <2>3. Submitting' = Submitting \cup {t} /\ OneEach(sub')
    BY <2>1, <2>2, SubmitsTask, PoolFacts
  <2>4. /\ OnDisk' = OnDisk /\ Running' = Running
        /\ UNCHANGED <<heap, stack, cur, finished, lost>>
    BY <1>16 DEF Dispatch, OnDisk, Running, poolVars
  <2> QED
    BY <2>1, <2>2, <2>3, <2>4 DEF IInv, TasksConserved
<1>17. CASE DispatchEnd
  BY <1>17, ConservedUnchanged DEF DispatchEnd, Crash, poolVars, taskVars
<1>18. CASE WaitCall
  BY <1>18, ConservedUnchanged DEF WaitCall, Crash, poolVars, taskVars
<1>19. CASE WaitReturn
  BY <1>19, ConservedUnchanged DEF WaitReturn, Crash, poolVars, taskVars
<1>20. CASE CloseQuit
  BY <1>20, ConservedUnchanged DEF CloseQuit, Crash, poolVars, taskVars
<1>21. CASE CloseBuf
  BY <1>21, ConservedUnchanged DEF CloseBuf, Crash, poolVars, taskVars
<1>22. CASE Backup
  BY <1>22, ConservedUnchanged DEF Backup, Crash, poolVars, taskVars
<1>23. CASE CloseFile
  BY <1>23, ConservedUnchanged DEF CloseFile, Crash, poolVars, taskVars
<1>24. CASE Cancel
  BY <1>24, ConservedUnchanged DEF Cancel, Crash, poolVars, taskVars
<1> QED
  BY <1>1, <1>2, <1>3, <1>4, <1>5, <1>6, <1>7, <1>8, <1>9, <1>10, <1>11, <1>12,
     <1>13, <1>14, <1>15, <1>16, <1>17, <1>18, <1>19, <1>20, <1>21, <1>22, <1>23, <1>24
     DEF Next, WorkerStep, TickerStep, MainStep, Submit, Procs

-----------------------------------------------------------------------------
(* The order in which tasks leave the buffer *)

\* Only a worker's take and an eviction remove a task, each from its own end.
LEMMA OrderlyStepLemma ==
    ASSUME IInv, Next
    PROVE  OrderlyStep
<1>1. ASSUME NEW p \in Procs, SubmitOnClosed(p) PROVE OrderlyStep
  BY <1>1 DEF SubmitOnClosed, OrderlyStep, Crash, poolVars
<1>2. ASSUME NEW p \in Procs, SubmitSend(p) PROVE OrderlyStep
  BY <1>2 DEF SubmitSend, OrderlyStep, Crash, poolVars
<1>3. ASSUME NEW p \in Procs, SubmitInsert(p) PROVE OrderlyStep
  BY <1>3 DEF SubmitInsert, OrderlyStep, Crash, poolVars
<1>4. ASSUME NEW p \in Procs, SubmitSpill(p) PROVE OrderlyStep
  <2>1. heap # {}
    BY <1>4, EmptyHeap, PoolFacts DEF SubmitSpill
  <2>2. PICK worst \in Worst(heap) :
          \/ /\ Priority[sub[p]] > Priority[worst]
             /\ heap' = (heap \ {worst}) \cup {sub[p]}
             /\ Push(worst)
          \/ heap' = heap
    BY <1>4, <2>1 DEF SubmitSpill, Replace
  <2>3. CASE heap' = heap
    BY <2>3 DEF OrderlyStep
  <2>4. CASE /\ Priority[sub[p]] > Priority[worst]
             /\ heap' = (heap \ {worst}) \cup {sub[p]}
             /\ Push(worst)
    <3>1. worst \in heap /\ worst \in Tasks /\ worst \notin OnDisk
      BY DEF Worst, IInv, TypeOK, PoolTypeOK, TasksConserved
    <3>2. worst \in OnDisk' \cup lost'
      BY <2>4, <3>1, PushMoves
    <3>3. sub[p] \in Tasks
      BY <1>4, HoldsSubmitted DEF SubmitSpill, Step, SubmitLabels
    <3>4. \A u \in heap \cup {sub[p]} : Priority[u] \in Int
      BY <3>3, PoolAssumption DEF PoolAssumption, IInv, TypeOK, PoolTypeOK
    <3>5. \A u \in heap' : Priority[u] >= Priority[worst]
      BY <2>4, <3>1, <3>4 DEF Worst
    <3> QED
      BY <2>4, <3>2, <3>5 DEF OrderlyStep
  <2> QED
    BY <2>2, <2>3, <2>4
<1>5. ASSUME NEW w \in Workers, WorkerReceive(w) PROVE OrderlyStep
  BY <1>5 DEF WorkerReceive, OrderlyStep, Crash, poolVars
<1>6. ASSUME NEW w \in Workers, WorkerQuit(w) PROVE OrderlyStep
  BY <1>6 DEF WorkerQuit, OrderlyStep, Crash, poolVars
<1>7. ASSUME NEW w \in Workers, WorkerTake(w) PROVE OrderlyStep
  <2>1. heap # {}
    BY <1>7, EmptyHeap DEF WorkerTake, Step, WorkersAt
  <2>2. PICK best \in Best(heap) : heap' = heap \ {best} /\ cur' = [cur EXCEPT ![w] = best]
    BY <1>7, <2>1 DEF WorkerTake
  <2>3. cur'[w] = best
    BY <2>2 DEF IInv, TypeOK, TaskTypeOK
  <2>4. \A u \in heap : Priority[u] \in Int
    BY PoolAssumption DEF PoolAssumption, IInv, TypeOK, PoolTypeOK
  <2>5. best \in heap /\ \A u \in heap' : Priority[u] <= Priority[best]
    BY <2>2, <2>4 DEF Best
  <2> QED
    BY <2>2, <2>3, <2>5 DEF OrderlyStep
<1>8. ASSUME NEW w \in Workers, WorkerDone(w) PROVE OrderlyStep
  BY <1>8 DEF WorkerDone, OrderlyStep, Crash, poolVars
<1>9. ASSUME NEW w \in Workers, ActEnter(w) PROVE OrderlyStep
  BY <1>9 DEF ActEnter, OrderlyStep, Crash, poolVars
<1>10. ASSUME NEW w \in Workers, NEW t \in Tasks, ActLink(w, t) PROVE OrderlyStep
  BY <1>10 DEF ActLink, OrderlyStep, Crash, poolVars
<1>11. ASSUME NEW w \in Workers, ActReturn(w) PROVE OrderlyStep
  BY <1>11 DEF ActReturn, OrderlyStep, Crash, poolVars
<1>12. ASSUME NEW w \in Workers, ActCancel(w) PROVE OrderlyStep
  BY <1>12 DEF ActCancel, OrderlyStep, Crash, poolVars
<1>13. ASSUME NEW w \in Workers, PushCanceled(w) PROVE OrderlyStep
  BY <1>13 DEF PushCanceled, OrderlyStep, Crash, poolVars
<1>14. CASE TickPop
  BY <1>14 DEF TickPop, OrderlyStep, Crash, poolVars
<1>15. CASE TickQuit
  BY <1>15 DEF TickQuit, OrderlyStep, Crash, poolVars
<1>16. ASSUME NEW t \in Tasks, Dispatch(t) PROVE OrderlyStep
  BY <1>16 DEF Dispatch, OrderlyStep, Crash, poolVars
<1>17. CASE DispatchEnd
  BY <1>17 DEF DispatchEnd, OrderlyStep, Crash, poolVars
<1>18. CASE WaitCall
  BY <1>18 DEF WaitCall, OrderlyStep, Crash, poolVars
<1>19. CASE WaitReturn
  BY <1>19 DEF WaitReturn, OrderlyStep, Crash, poolVars
<1>20. CASE CloseQuit
  BY <1>20 DEF CloseQuit, OrderlyStep, Crash, poolVars
<1>21. CASE CloseBuf
  BY <1>21 DEF CloseBuf, OrderlyStep, Crash, poolVars
<1>22. CASE Backup
  BY <1>22 DEF Backup, OrderlyStep, Crash, poolVars
<1>23. CASE CloseFile
  BY <1>23 DEF CloseFile, OrderlyStep, Crash, poolVars
<1>24. CASE Cancel
  BY <1>24 DEF Cancel, OrderlyStep, Crash, poolVars
<1> QED
  BY <1>1, <1>2, <1>3, <1>4, <1>5, <1>6, <1>7, <1>8, <1>9, <1>10, <1>11, <1>12,
     <1>13, <1>14, <1>15, <1>16, <1>17, <1>18, <1>19, <1>20, <1>21, <1>22, <1>23, <1>24
     DEF Next, WorkerStep, TickerStep, MainStep, Submit, Procs

-----------------------------------------------------------------------------
(* The theorems *)

\* A new pool over a stack an earlier session left satisfies the invariant.
LEMMA InitIInv ==
    ASSUME Init
    PROVE  IInv
<1>1. stack \in Seq(Tasks) /\ IsInjective(stack)
  BY PoolAssumption DEF Init, PoolAssumption
<1>2. ToSet(stack) \subseteq Tasks
  BY <1>1 DEF ToSet
<1>3. TypeOK
  <2>1. PoolTypeOK
    BY FS_EmptySet, PoolFacts DEF Init, PoolTypeOK
  <2>2. ControlTypeOK
    <3>1. /\ pc \in [Procs -> WorkerLabels \cup TickerLabels \cup MainLabels]
          /\ \A w \in Workers : pc[w] \in WorkerLabels
          /\ pc[Ticker] \in TickerLabels /\ pc[Main] \in MainLabels
      BY PoolFacts DEF Init, WorkerLabels, TickerLabels, MainLabels
    <3>2. timeouts \in 0 .. MaxTimeouts
      BY PoolFacts DEF Init
    <3> QED
      BY <3>1, <3>2 DEF Init, ControlTypeOK, Panics
  <2>3. TaskTypeOK
    BY <1>1 DEF Init, TaskTypeOK
  <2> QED
    BY <2>1, <2>2, <2>3 DEF TypeOK
<1>4. MutexInv /\ SubInv /\ CurInv
  BY PoolFacts DEF Init, MutexInv, SubInv, CurInv, SubmitLabels
<1>5. SlotsMatchHeap /\ WgMatchesHeap
  <2>1. WorkersAt("slot") = {} /\ WorkersAt("taken") = {}
    BY PoolFacts DEF Init, WorkersAt
  <2> QED
    BY <2>1, FS_EmptySet DEF Init, SlotsMatchHeap, WgMatchesHeap
<1>6. TasksConserved
  <2>1. Running = {} /\ Submitting = {} /\ OneEach(cur) /\ OneEach(sub)
    BY DEF Init, Running, Submitting, HeldBy, OneEach
  <2>2. /\ OnDisk \subseteq Tasks /\ fresh = Tasks \ OnDisk
        /\ heap = {} /\ finished = {} /\ lost = {}
    BY <1>2 DEF Init, OnDisk
  <2> QED
    BY <1>1, <2>1, <2>2 DEF TasksConserved
<1> QED
  BY <1>3, <1>4, <1>5, <1>6 DEF IInv

\* Every step of every goroutine preserves the invariant.
LEMMA NextIInv ==
    ASSUME IInv, [Next]_vars
    PROVE  IInv'
<1>1. CASE Next
  BY <1>1, TypeStep, ControlStep, CountsStep, ConservedStep DEF IInv
<1>2. CASE UNCHANGED vars
  <2>1. TypeOK'
    BY <1>2 DEF vars, poolVars, chanVars, envVars, taskVars, IInv, TypeOK,
          PoolTypeOK, ControlTypeOK, TaskTypeOK
  <2>2. MutexInv' /\ SubInv' /\ CurInv'
    BY <1>2 DEF vars, poolVars, taskVars, IInv, MutexInv, SubInv, CurInv
  <2>3. SlotsMatchHeap' /\ WgMatchesHeap'
    BY <1>2, CountsUnchanged DEF vars
  <2>4. TasksConserved'
    BY <1>2, ConservedUnchanged DEF vars, poolVars
  <2> QED
    BY <2>1, <2>2, <2>3, <2>4 DEF IInv
<1> QED
  BY <1>1, <1>2

\* The inductive invariant holds in every reachable state of the scheduler,
\* through submissions, evictions, ticks, cancellation and shutdown.
THEOREM Invariance == Spec => []IInv
<1>1. Init => IInv
  BY InitIInv
<1>2. IInv /\ [Next]_vars => IInv'
  BY NextIInv
<1> QED
  BY <1>1, <1>2, PTL DEF Spec

\* The types hold; in particular wg.Done never makes the counter negative and
\* the number of elements in buf stays within its capacity.
THEOREM TypeCorrect == Spec => []TypeOK
<1>1. IInv => TypeOK
  BY DEF IInv
<1> QED
  BY <1>1, Invariance, PTL

\* The elements of buf and the tasks of the heap stay in step, whatever the
\* interleaving of senders inside the mutex and receivers outside it.
THEOREM SlotsAgree == Spec => []SlotsMatchHeap
<1>1. IInv => SlotsMatchHeap
  BY DEF IInv
<1> QED
  BY <1>1, Invariance, PTL

\* The branches of worker and Submit that would drop a slot or a task because
\* the heap is empty are dead code.
THEOREM LosingBranchesDead == Spec => []EmptyHeapUnreachable
<1>1. IInv => EmptyHeapUnreachable
  BY EmptyHeap DEF EmptyHeapUnreachable
<1> QED
  BY <1>1, Invariance, PTL

\* The WaitGroup counts the queued tasks and those taken but not started, so
\* Wait does not wait for running tasks.
THEOREM WgAgrees == Spec => []WgMatchesHeap
<1>1. IInv => WgMatchesHeap
  BY DEF IInv
<1> QED
  BY <1>1, Invariance, PTL

\* No task is duplicated, and none disappears without being counted as lost.
THEOREM Conservation == Spec => []TasksConserved
<1>1. IInv => TasksConserved
  BY DEF IInv
<1> QED
  BY <1>1, Invariance, PTL

\* Tasks leave the buffer in order of priority: the best to a worker, the
\* worst to the disk.
THEOREM OrderlyExit == Spec => LeavesInOrder
<1>1. IInv /\ [Next]_vars => [OrderlyStep]_vars
  BY OrderlyStepLemma
<1> QED
  BY <1>1, Invariance, PTL DEF Spec, LeavesInOrder
=============================================================================
