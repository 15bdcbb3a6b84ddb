----------------------------- MODULE WorkerPool -----------------------------
(***************************************************************************)
(* The crawl scheduler, internal/utils/scheduler/workerPool.go, with the   *)
(* session that drives it (scraper.go: Run, dispatch, Packed and the       *)
(* submitting loop of ScrapeWithContext).                                  *)
(*                                                                         *)
(* Three kinds of goroutines run: the workers, the ticker that feeds the   *)
(* on-disk stack back into the pool, and the session itself (Main), which  *)
(* dispatches start URLs until the context is cancelled and then shuts the *)
(* pool down.  A step is what a goroutine does between two points where    *)
(* another one can interfere: a channel operation, a critical section of   *)
(* the pool's mutex, a WaitGroup call, a call on the stack.                *)
(*                                                                         *)
(* The buffer is the set of queued tasks: MinMaxHeap shows that the array  *)
(* behind it returns true extremes, ties being broken either way.  The     *)
(* stack is a sequence of tasks: FileStack is about the file behind it.    *)
(* What a task does (fetching, parsing, indexing) is abstracted to the     *)
(* links it submits and the state it returns.                              *)
(***************************************************************************)
EXTENDS Integers, Sequences, FiniteSets, SequencesExt

CONSTANTS
    Tasks,          \* link tokens
    Priority,       \* the priority of each
    Workers,        \* the worker goroutines
    Main, Ticker,   \* the session's goroutine and the ticker's
    Free,           \* the mutex when nobody holds it
    NoTask,         \* a nil token
    QueueCapacity,  \* the capacity of buf
    StackLimit,     \* mOffset, counted in records
    MaxTimeouts,    \* bound: how many tasks exceed crawlTime in a session
    InitialStacks   \* what earlier sessions may have left in the stack

Procs == Workers \cup {Main, Ticker}

ASSUME PoolAssumption ==
    /\ Priority \in [Tasks -> Int]
    /\ NoTask \notin Tasks
    /\ IsFiniteSet(Workers)
    /\ Main \notin Workers /\ Ticker \notin Workers /\ Main # Ticker
    /\ Free \notin Procs
    /\ QueueCapacity \in Nat \ {0}
    /\ StackLimit \in Nat
    /\ MaxTimeouts \in Nat
    /\ InitialStacks \subseteq {s \in Seq(Tasks) : IsInjective(s)}

VARIABLES
    heap,        \* the tasks in wp.heap
    slots,       \* the number of elements in the channel wp.buf
    wg,          \* the counter of wp.wg
    mu,          \* the holder of wp.mu
    stack,       \* the tasks in the on-disk stack, the top last
    quit,        \* wp.quit is closed
    bufClosed,   \* wp.buf is closed
    fileClosed,  \* the file of the stack is closed
    pc,          \* where each goroutine is
    cur,         \* the task each worker runs
    sub,         \* the task each goroutine is submitting
    cancelled,   \* the session's context is done
    fresh,       \* the links not discovered yet
    finished,    \* the tasks whose act returned Done or Error
    lost,        \* the tasks that were dropped without an error
    panic,       \* the panic that ended the process, or "none"
    timeouts     \* the tasks that exceeded crawlTime

poolVars == <<heap, slots, wg, mu>>
chanVars == <<quit, bufClosed, fileClosed>>
envVars  == <<cancelled, timeouts>>
taskVars == <<stack, cur, sub, fresh, finished, lost>>
vars == <<poolVars, chanVars, envVars, taskVars, pc, panic>>

-----------------------------------------------------------------------------
(* The order of the buffer *)

Best(S)  == {t \in S : \A u \in S : Priority[t] >= Priority[u]}
Worst(S) == {t \in S : \A u \in S : Priority[t] <= Priority[u]}

-----------------------------------------------------------------------------
Init ==
    /\ heap = {} /\ slots = 0 /\ wg = 0 /\ mu = Free
    /\ stack \in InitialStacks
    /\ quit = FALSE /\ bufClosed = FALSE /\ fileClosed = FALSE
    /\ pc = [p \in Procs |-> IF p = Main THEN "dispatch" ELSE "select"]
    /\ cur = [w \in Workers |-> NoTask]
    /\ sub = [p \in Procs |-> NoTask]
    /\ cancelled = FALSE
    /\ fresh = Tasks \ ToSet(stack)
    /\ finished = {} /\ lost = {}
    /\ panic = "none"
    /\ timeouts = 0

\* goroutine p, at label from, takes a step of a process that has not crashed
Step(p, from) == panic = "none" /\ pc[p] = from

Goto(p, label) == pc' = [pc EXCEPT ![p] = label] /\ UNCHANGED panic

Crash(reason) == panic' = reason /\ UNCHANGED <<pc, poolVars, chanVars, envVars, taskVars>>

\* Stack.Push: past the limit nothing is written and nil is returned; on a
\* closed file the error is returned, and every caller ignores it
Push(t) ==
    IF fileClosed \/ Len(stack) > StackLimit
    THEN lost' = lost \cup {t} /\ UNCHANGED stack
    ELSE stack' = Append(stack, t) /\ UNCHANGED lost

-----------------------------------------------------------------------------
(* Submit, called by Main, by the ticker and by workers                    *)

\* where a goroutine continues after Submit
Resume(p) ==
    IF p \in Workers THEN "acting" ELSE IF p = Main THEN "dispatch" ELSE "select"

\* p calls Submit(t)
CallSubmit(p, t) ==
    /\ sub' = [sub EXCEPT ![p] = t]
    /\ Goto(p, "submit")

\* the send of the select on a closed channel
SubmitOnClosed(p) ==
    /\ Step(p, "submit")
    /\ mu = Free
    /\ bufClosed
    /\ Crash("send on closed channel")

\* mutant: the send is made outside the critical section
SubmitSendUnlocked(p) ==
    /\ Step(p, "submit")
    /\ mu = Free
    /\ ~bufClosed
    /\ slots < QueueCapacity
    /\ slots' = slots + 1
    /\ Goto(p, "insert")
    /\ UNCHANGED <<heap, wg, mu, chanVars, envVars, taskVars>>

\* the send succeeds; the mutex stays locked until SubmitInsert
SubmitSend(p) ==
    /\ Step(p, "submit")
    /\ mu = Free
    /\ ~bufClosed
    /\ slots < QueueCapacity
    /\ slots' = slots + 1
    /\ mu' = p
    /\ Goto(p, "insert")
    /\ UNCHANGED <<heap, wg, chanVars, envVars, taskVars>>

\* mutant: wg.Add is missing
SubmitInsertNoAdd(p) ==
    /\ Step(p, "insert")
    /\ mu' = Free
    /\ heap' = heap \cup {sub[p]}
    /\ sub' = [sub EXCEPT ![p] = NoTask]
    /\ Goto(p, Resume(p))
    /\ UNCHANGED <<slots, wg, chanVars, envVars, stack, cur, fresh, finished, lost>>

SubmitInsert(p) ==
    /\ Step(p, "insert")
    /\ mu' = Free
    /\ wg' = wg + 1
    /\ heap' = heap \cup {sub[p]}
    /\ sub' = [sub EXCEPT ![p] = NoTask]
    /\ Goto(p, Resume(p))
    /\ UNCHANGED <<slots, chanVars, envVars, stack, cur, fresh, finished, lost>>

\* mutant: DeleteMin is missing
ReplaceKeepsWorst(worst, t) == heap' = heap \cup {t}

\* DeleteMin and Insert
Replace(worst, t) == heap' = (heap \ {worst}) \cup {t}

\* buf is full: the worse of the new task and the worst queued one goes to
\* the stack; with an empty heap the new task is dropped
SubmitSpill(p) ==
    /\ Step(p, "submit")
    /\ mu = Free
    /\ ~bufClosed
    /\ slots = QueueCapacity
    /\ IF heap = {}
       THEN lost' = lost \cup {sub[p]} /\ UNCHANGED <<heap, stack>>
       ELSE \E worst \in Worst(heap) :
              IF Priority[sub[p]] > Priority[worst]
              THEN Replace(worst, sub[p]) /\ Push(worst)
              ELSE UNCHANGED heap /\ Push(sub[p])
    /\ sub' = [sub EXCEPT ![p] = NoTask]
    /\ Goto(p, Resume(p))
    /\ UNCHANGED <<slots, wg, mu, chanVars, envVars, cur, fresh, finished>>

Submit(p) ==
    \/ SubmitOnClosed(p)
    \/ SubmitSend(p)
    \/ SubmitInsert(p)
    \/ SubmitSpill(p)

-----------------------------------------------------------------------------
(* The workers                                                             *)

WorkerReceive(w) ==
    /\ Step(w, "select")
    /\ slots > 0
    /\ slots' = slots - 1
    /\ Goto(w, "slot")
    /\ UNCHANGED <<heap, wg, mu, chanVars, envVars, taskVars>>

\* the receive on the closed and empty channel, or the receive on quit
WorkerQuit(w) ==
    /\ Step(w, "select")
    /\ quit \/ (bufClosed /\ slots = 0)
    /\ Goto(w, "exited")
    /\ UNCHANGED <<poolVars, chanVars, envVars, taskVars>>

\* GetMax and DeleteMax under the mutex; without a task the slot is put back
WorkerTake(w) ==
    /\ Step(w, "slot")
    /\ mu = Free
    /\ IF heap = {}
       THEN IF bufClosed
            THEN Crash("send on closed channel")
            ELSE /\ slots' = IF slots < QueueCapacity THEN slots + 1 ELSE slots
                 /\ Goto(w, "select")
                 /\ UNCHANGED <<heap, wg, mu, chanVars, envVars, taskVars>>
       ELSE \E best \in Best(heap) :
              /\ heap' = heap \ {best}
              /\ cur' = [cur EXCEPT ![w] = best]
              /\ Goto(w, "taken")
              /\ UNCHANGED <<slots, wg, mu, chanVars, envVars,
                             stack, sub, fresh, finished, lost>>

\* Done releases the goroutine blocked in Wait when the counter reaches zero
Wake(label) ==
    CASE label = "blocked1" -> "released1"
      [] label = "blocked2" -> "released2"
      [] OTHER -> label

\* mutant: wg.Done is missing
WorkerNeverDone(w) ==
    /\ Step(w, "taken")
    /\ Goto(w, "entry")
    /\ UNCHANGED <<poolVars, chanVars, envVars, taskVars>>

\* heapAct: wg.Done() comes before the task runs
WorkerDone(w) ==
    /\ Step(w, "taken")
    /\ wg' = wg - 1
    /\ pc' = [pc EXCEPT ![w] = "entry",
                        ![Main] = IF wg = 1 THEN Wake(@) ELSE @]
    /\ UNCHANGED <<heap, slots, mu, chanVars, envVars, taskVars, panic>>

\* the context check on entering ScrapeWithContext
ActEnter(w) ==
    /\ Step(w, "entry")
    /\ Goto(w, IF cancelled THEN "canceled" ELSE "acting")
    /\ UNCHANGED <<poolVars, chanVars, envVars, taskVars>>

\* a link is found and the context check before its Submit passes
ActLink(w, t) ==
    /\ Step(w, "acting")
    /\ ~cancelled
    /\ t \in fresh
    /\ fresh' = fresh \ {t}
    /\ CallSubmit(w, t)
    /\ UNCHANGED <<poolVars, chanVars, envVars, stack, cur, finished, lost>>

\* act returns Done or Error
ActReturn(w) ==
    /\ Step(w, "acting")
    /\ finished' = finished \cup {cur[w]}
    /\ cur' = [cur EXCEPT ![w] = NoTask]
    /\ Goto(w, "select")
    /\ UNCHANGED <<poolVars, chanVars, envVars, stack, sub, fresh, lost>>

\* act returns Canceled: the session's context is done, or crawlTime is over
ActCancel(w) ==
    /\ Step(w, "acting")
    /\ cancelled \/ timeouts < MaxTimeouts
    /\ timeouts' = IF cancelled THEN timeouts ELSE timeouts + 1
    /\ Goto(w, "canceled")
    /\ UNCHANGED <<poolVars, chanVars, cancelled, taskVars>>

\* mutant: the completion state is ignored
PushCanceledForgotten(w) ==
    /\ Step(w, "canceled")
    /\ cur' = [cur EXCEPT ![w] = NoTask]
    /\ Goto(w, "select")
    /\ UNCHANGED <<poolVars, chanVars, envVars, stack, lost, sub, fresh, finished>>

\* the canceled task goes back to the stack, without the mutex
PushCanceled(w) ==
    /\ Step(w, "canceled")
    /\ Push(cur[w])
    /\ cur' = [cur EXCEPT ![w] = NoTask]
    /\ Goto(w, "select")
    /\ UNCHANGED <<poolVars, chanVars, envVars, sub, fresh, finished>>

WorkerStep(w) ==
    \/ WorkerReceive(w) \/ WorkerQuit(w) \/ WorkerTake(w) \/ WorkerDone(w)
    \/ ActEnter(w) \/ (\E t \in Tasks : ActLink(w, t)) \/ ActReturn(w)
    \/ ActCancel(w) \/ PushCanceled(w) \/ Submit(w)

-----------------------------------------------------------------------------
(* The ticker                                                              *)

\* a tick: Pop under the mutex; an empty or closed stack makes it a no-op
TickPop ==
    /\ Step(Ticker, "select")
    /\ mu = Free
    /\ ~fileClosed /\ stack # <<>>
    /\ stack' = Front(stack)
    /\ CallSubmit(Ticker, Last(stack))
    /\ UNCHANGED <<poolVars, chanVars, envVars, cur, fresh, finished, lost>>

TickQuit ==
    /\ Step(Ticker, "select")
    /\ quit
    /\ Goto(Ticker, "exited")
    /\ UNCHANGED <<poolVars, chanVars, envVars, taskVars>>

TickerStep == TickPop \/ TickQuit \/ Submit(Ticker)

-----------------------------------------------------------------------------
(* The session: dispatch, Wait, Stop                                       *)

\* a start URL or one added through the API
Dispatch(t) ==
    /\ Step(Main, "dispatch")
    /\ t \in fresh
    /\ fresh' = fresh \ {t}
    /\ CallSubmit(Main, t)
    /\ UNCHANGED <<poolVars, chanVars, envVars, stack, cur, finished, lost>>

DispatchEnd ==
    /\ Step(Main, "dispatch")
    /\ cancelled
    /\ Goto(Main, "wait1")
    /\ UNCHANGED <<poolVars, chanVars, envVars, taskVars>>

\* where Main continues after each Wait, and where it sleeps meanwhile
AfterWait(label) == IF label \in {"wait1", "released1"} THEN "closeQuit" ELSE "backup"
Asleep(label)    == IF label = "wait1" THEN "blocked1" ELSE "blocked2"

WaitCall ==
    /\ \E label \in {"wait1", "wait2"} :
         /\ Step(Main, label)
         /\ Goto(Main, IF wg = 0 THEN AfterWait(label) ELSE Asleep(label))
    /\ UNCHANGED <<poolVars, chanVars, envVars, taskVars>>

\* a released Wait checks that nobody has used the WaitGroup again meanwhile
WaitReturn ==
    \E label \in {"released1", "released2"} :
      /\ Step(Main, label)
      /\ IF wg # 0
         THEN Crash("WaitGroup is reused before previous Wait has returned")
         ELSE /\ Goto(Main, AfterWait(label))
              /\ UNCHANGED <<poolVars, chanVars, envVars, taskVars>>

CloseQuit ==
    /\ Step(Main, "closeQuit")
    /\ quit' = TRUE
    /\ Goto(Main, "closeBuf")
    /\ UNCHANGED <<poolVars, bufClosed, fileClosed, envVars, taskVars>>

CloseBuf ==
    /\ Step(Main, "closeBuf")
    /\ bufClosed' = TRUE
    /\ Goto(Main, "wait2")
    /\ UNCHANGED <<poolVars, quit, fileClosed, envVars, taskVars>>

\* tokens() puts len nil pointers before the tasks of a non-empty heap, and
\* Serialize dereferences the first
Backup ==
    /\ Step(Main, "backup")
    /\ IF heap # {}
       THEN Crash("nil pointer dereference")
       ELSE /\ Goto(Main, "closeFile")
            /\ UNCHANGED <<poolVars, chanVars, envVars, taskVars>>

CloseFile ==
    /\ Step(Main, "closeFile")
    /\ fileClosed' = TRUE
    /\ Goto(Main, "returned")
    /\ UNCHANGED <<poolVars, quit, bufClosed, envVars, taskVars>>

MainStep ==
    \/ \E t \in Tasks : Dispatch(t)
    \/ DispatchEnd \/ WaitCall \/ WaitReturn
    \/ CloseQuit \/ CloseBuf \/ Backup \/ CloseFile
    \/ Submit(Main)

\* the operator stops the crawl or the process is interrupted
Cancel ==
    /\ panic = "none"
    /\ ~cancelled
    /\ cancelled' = TRUE
    /\ UNCHANGED <<poolVars, chanVars, timeouts, taskVars, pc, panic>>

-----------------------------------------------------------------------------
Next ==
    \/ \E w \in Workers : WorkerStep(w)
    \/ TickerStep
    \/ MainStep
    \/ Cancel

Spec == Init /\ [][Next]_vars

\* Goroutines that can run eventually do; a task ends, because its requests
\* and its context carry deadlines (scraper.go:69-70, 184); nobody has to
\* cancel a session.
Fairness ==
    /\ \A w \in Workers : WF_vars(WorkerStep(w))
    /\ WF_vars(TickerStep)
    /\ WF_vars(MainStep)

FairSpec == Spec /\ Fairness

-----------------------------------------------------------------------------
(* Properties                                                              *)

SubmitLabels == {"submit", "insert"}
WorkerLabels == {"select", "slot", "taken", "entry", "acting", "canceled",
                 "exited"} \cup SubmitLabels
TickerLabels == {"select", "exited"} \cup SubmitLabels
MainLabels   == {"dispatch", "wait1", "blocked1", "released1", "closeQuit",
                 "closeBuf", "wait2", "blocked2", "released2", "backup",
                 "closeFile", "returned"} \cup SubmitLabels

Panics == {"none", "send on closed channel", "nil pointer dereference",
           "WaitGroup is reused before previous Wait has returned"}

PoolTypeOK ==
    /\ heap \in SUBSET Tasks /\ IsFiniteSet(heap)
    /\ slots \in 0 .. QueueCapacity
    /\ wg \in Nat
    /\ mu \in Procs \cup {Free}

ControlTypeOK ==
    /\ pc \in [Procs -> WorkerLabels \cup TickerLabels \cup MainLabels]
    /\ \A w \in Workers : pc[w] \in WorkerLabels
    /\ pc[Ticker] \in TickerLabels /\ pc[Main] \in MainLabels
    /\ panic \in Panics
    /\ quit \in BOOLEAN /\ bufClosed \in BOOLEAN
    /\ fileClosed \in BOOLEAN /\ cancelled \in BOOLEAN
    /\ timeouts \in 0 .. MaxTimeouts

TaskTypeOK ==
    /\ stack \in Seq(Tasks)
    /\ cur \in [Workers -> Tasks \cup {NoTask}]
    /\ sub \in [Procs -> Tasks \cup {NoTask}]
    /\ fresh \subseteq Tasks /\ finished \subseteq Tasks /\ lost \subseteq Tasks

\* Typing: the counter of the WaitGroup never becomes negative (Done would
\* panic) and buf never holds more than its capacity.
TypeOK == PoolTypeOK /\ ControlTypeOK /\ TaskTypeOK

WorkersAt(label) == {w \in Workers : pc[w] = label}

\* Every element of buf, and every one a worker has received but not yet
\* cashed, stands for one queued task, or for the one its submitter is about
\* to insert (workerPool.go:71-73, 95-102).  So a worker that received a slot
\* always finds a task, and a full buf means there is a worst task to evict.
SlotsMatchHeap ==
    slots + Cardinality(WorkersAt("slot")) =
        Cardinality(heap) + (IF mu = Free THEN 0 ELSE 1)

\* The two branches that would lose work, an empty heap behind a received
\* slot (workerPool.go:113) and an empty heap behind a full buf (no branch of
\* workerPool.go:77-87 keeps the task), are never taken.
EmptyHeapUnreachable ==
    mu = Free /\ heap = {} =>
        /\ slots < QueueCapacity
        /\ WorkersAt("slot") = {}

\* Wait waits for the tasks that are queued or just taken, and for nothing
\* else: wg.Done runs before the task does (workerPool.go:57-60).
WgMatchesHeap ==
    wg = Cardinality(heap) + Cardinality(WorkersAt("taken"))

\* the tasks a function from goroutines holds, and no task twice
HeldBy(f)  == {f[p] : p \in DOMAIN f} \ {NoTask}
OneEach(f) == \A p, q \in DOMAIN f : f[p] = f[q] /\ f[p] # NoTask => p = q

Running    == HeldBy(cur)
Submitting == HeldBy(sub)
OnDisk     == ToSet(stack)

\* Through evictions, cancellations, ticks and the shutdown, a task is in one
\* place and in one copy: none is run twice or forgotten without a trace.
TasksConserved ==
    /\ Tasks = fresh \cup heap \cup OnDisk \cup Running \cup Submitting
                     \cup finished \cup lost
    /\ fresh \cap (heap \cup OnDisk \cup Running \cup Submitting \cup finished \cup lost) = {}
    /\ heap \cap (OnDisk \cup Running \cup Submitting \cup finished \cup lost) = {}
    /\ OnDisk \cap (Running \cup Submitting \cup finished \cup lost) = {}
    /\ Running \cap (Submitting \cup finished \cup lost) = {}
    /\ Submitting \cap (finished \cup lost) = {}
    /\ finished \cap lost = {}
    /\ IsInjective(stack) /\ OneEach(cur) /\ OneEach(sub)

OrderlyStep ==
    \A t \in heap \ heap' :
        \/ /\ \E w \in Workers : cur'[w] = t
           /\ \A u \in heap' : Priority[u] <= Priority[t]
        \/ /\ t \in OnDisk' \cup lost'
           /\ \A u \in heap' : Priority[u] >= Priority[t]

\* A task leaves the buffer for a worker only when no queued task is better,
\* and for the disk only when none that stays, the newcomer included, is
\* worse (workerPool.go:77-81, 100-102).
LeavesInOrder == [][OrderlyStep]_vars

\* Until the session is cancelled, a submitted task is run to its end, even
\* when it was evicted to the stack or timed out, unless the stack was full.
EveryTaskRuns ==
    \A t \in Tasks :
        t \notin fresh ~> t \in finished \cup lost \/ cancelled

Stopping == pc[Main] \in {"closeQuit", "closeBuf", "wait2", "blocked2",
                          "released2", "backup", "closeFile", "returned"}

\* Once the session is cancelled and the ticker has no more ticks, the Wait of
\* Run (scraper.go:155) returns: the workers drain the buffer.
FirstWaitReturns ==
    <>[][~TickPop]_vars => (cancelled ~> Stopping \/ panic # "none")

-----------------------------------------------------------------------------
(* What the documentation promises and the code does not keep              *)

\* README.md:17, "stable, multithreaded indexing", and main.go:53, which waits
\* for the session before the process exits: a cancelled session comes to its
\* end, so that its deferred SaveVisitedUrls runs (scraper.go:136-139).
SessionEnds ==
    <>[][~TickPop]_vars => (cancelled ~> pc[Main] = "returned")
=============================================================================
