--------------------------- MODULE LifecycleProofs ---------------------------
(***************************************************************************)
(* Proofs about the application factory, for any number of concurrent      *)
(* handlers and sessions, any capacity of the channels and any URLs.       *)
(***************************************************************************)
EXTENDS Lifecycle, FiniteSetTheorems, SequenceTheorems, TLAPS

Operations == {"none", "start", "stop", "add"}

HandlerLabels ==
    {"idle", "done", "send", "ctx", "controller", "build", "cancel", "scraper", "clear"}

LaunchLabels == {"none", "launched", "prepared", "running", "failed", "ended"}

FieldTypes ==
    /\ innerCtx \in SessionOrNone /\ controller \in SessionOrNone
    /\ scraper \in SessionOrNone
    /\ main \in {"serving", "waiting", "exited", "panicked"}
    /\ made \in SessionOrNone /\ canceled \subseteq Sessions /\ stopped \subseteq Sessions
    /\ ctxOf \in [Sessions -> SessionOrNone]
    /\ starts \in 0..MaxStarts /\ stops \in 0..MaxStops /\ faults \in 0..MaxFaults
    /\ chClosed \in BOOLEAN /\ raced \in BOOLEAN

HandlerTypes ==
    /\ op \in [Requests -> Operations] /\ at \in [Requests -> HandlerLabels]
    /\ own \in [Requests -> SessionOrNone]
    /\ rest \in [Requests -> Seq(Urls)]

LaunchTypes ==
    /\ launch \in [Sessions -> LaunchLabels]
    /\ prep \in [Sessions -> SessionOrNone] /\ ran \in [Sessions -> SessionOrNone]
    /\ preparing \in [Sessions -> BOOLEAN]

FlowTypes ==
    /\ complCh \in Seq(Urls) /\ Len(complCh) <= ChanCapacity
    /\ out \in [Sessions -> Seq(Urls)]
    /\ \A s \in Sessions : Len(out[s]) <= OutCapacity + 1
    /\ offered \subseteq Batches
    /\ accepted \subseteq Urls /\ submitted \subseteq Urls /\ unparsed \subseteq Urls

\* start requests that have still to make their context
Pending == {r \in Requests : op[r] = "start" /\ at[r] \in {"done", "ctx"}}

\* every context is made by a start of its own
CountInv == made + Cardinality(Pending) <= starts

\* where an operation can be
OpInv ==
    \A r \in Requests :
        /\ at[r] = "idle" <=> op[r] = "none"
        /\ at[r] \in {"ctx", "controller", "build"} => op[r] = "start"
        /\ at[r] \in {"cancel", "scraper", "clear"} => op[r] = "stop"
        /\ at[r] = "send" => op[r] = "add"
        /\ op[r] # "add" => rest[r] = <<>>

\* one handler controls the factory at a time, or one launch has still to begin
Alone ==
    /\ \A q, r \in Controlling : q = r
    /\ Controlling # {} => Unread = {}
    /\ \A s, t \in Unread : s = t

NoneLive == \A s \in Sessions : ~Live(s)

\* what a start or a stop finds at each of its steps
StartInv ==
    \A r \in Requests :
        /\ at[r] \in {"ctx", "controller", "build", "scraper", "clear"} => NoneLive
        /\ at[r] \in {"controller", "build"} =>
             made # None /\ own[r] = made /\ innerCtx = made /\ launch[made] = "none"
        /\ at[r] = "build" => controller = made
        /\ at[r] = "cancel" => innerCtx # None /\ controller = innerCtx

\* the sessions to come have no launch
Fresh == \A s \in Sessions : s > made => launch[s] = "none"

\* a launch keeps to its own scraper and its own context
LaunchInv ==
    \A s \in Sessions :
        /\ {prep[s], ran[s], ctxOf[s]} \subseteq {None, s}
        /\ launch[s] \in {"launched", "prepared", "running"} => ctxOf[s] = s
        /\ s \in Unread => scraper = s
        /\ launch[s] = "none" => ~preparing[s]
        /\ preparing[s] => prep[s] = s /\ ctxOf[s] = s
        /\ launch[s] = "running" => ran[s] = s
        /\ launch[s] = "ended" => Done(s)
        /\ s \in stopped => launch[s] = "ended"
        /\ Live(s) \/ s \in Unread => innerCtx = s /\ controller = s

\* what a session leaves that has been started
Settled ==
    Controlling = {} /\ innerCtx # None => controller = innerCtx /\ launch[innerCtx] # "none"

Solo == main # "panicked" /\ Alone /\ StartInv /\ Fresh /\ LaunchInv /\ Settled

\* while no start or stop has met another, or a launch still to begin
SoloInv == ~raced => Solo

Distinct(q) == \A i, j \in DOMAIN q : q[i] = q[j] => i = j

Apart(S, T) == S \cap T = {}

\* the URLs of the lists that have come
Offered == UNION {Range(b) : b \in offered}

\* the URLs that handlers have still to send are all different, and not yet accepted
RestInv ==
    /\ accepted \subseteq Offered
    /\ \A r \in Requests :
        /\ Distinct(rest[r]) /\ Range(rest[r]) \subseteq Offered
        /\ Apart(Range(rest[r]), accepted)
        /\ \A q \in Requests \ {r} : Apart(Range(rest[r]), Range(rest[q]))

\* the places of accepted URLs have none in common, and hold none twice
PlaceInv ==
    /\ Distinct(complCh) /\ Apart(submitted, unparsed)
    /\ Apart(Range(complCh), submitted \cup unparsed)
    /\ \A s \in Sessions :
        /\ Distinct(out[s])
        /\ Apart(Range(out[s]), submitted \cup unparsed) /\ Apart(Range(out[s]), Range(complCh))
        /\ \A t \in Sessions \ {s} : Apart(Range(out[s]), Range(out[t]))
    /\ accepted = Range(complCh) \cup submitted \cup unparsed
                    \cup UNION {Range(out[s]) : s \in Sessions}

IInv ==
    /\ FieldTypes /\ HandlerTypes /\ LaunchTypes /\ FlowTypes
    /\ CountInv /\ OpInv /\ SoloInv /\ RestInv /\ PlaceInv

-----------------------------------------------------------------------------
(* Types                                                                   *)

\* what the assumptions say of the constants
LEMMA Constants ==
    /\ Handlers \in Nat /\ Batches \subseteq Seq(Urls) /\ ChanCapacity \in Nat \ {0}
    /\ OutCapacity \in Nat /\ MaxStarts \in Nat /\ MaxStops \in Nat /\ MaxFaults \in Nat
    /\ None \notin Sessions /\ Sessions \subseteq Nat
  BY LifecycleAssumption DEF LifecycleAssumption, None, Sessions

\* the pending starts can be counted
LEMMA PendingFinite == IsFiniteSet(Pending) /\ Cardinality(Pending) \in Nat
<1>1. IsFiniteSet(Requests)
  BY Constants, FS_Interval DEF Requests
<1> QED
  BY <1>1, FS_Subset, FS_CardinalityType DEF Pending

\* a start that makes its context finds a number for it
LEMMA ContextNumber ==
    ASSUME FieldTypes, CountInv, NEW r \in Requests, r \in Pending
    PROVE  made + 1 \in Sessions
<1>1. Cardinality(Pending) > 0
  BY PendingFinite, FS_EmptySet
<1>2. made \in Nat /\ starts \in Nat /\ starts <= MaxStarts /\ MaxStarts \in Nat
  BY Constants DEF FieldTypes, SessionOrNone, Sessions, None
<1>3. made + 1 <= MaxStarts
  BY <1>1, <1>2, PendingFinite DEF CountInv
<1> QED
  BY <1>2, <1>3 DEF Sessions

\* a handler that answers keeps the types
LEMMA FinishTypes ==
    ASSUME HandlerTypes, NEW r \in Requests, Finish(r)
    PROVE  HandlerTypes'
  BY DEF HandlerTypes, Finish, Goto, SessionOrNone, HandlerLabels, Operations

\* and so does one that goes on
LEMMA GotoTypes ==
    ASSUME HandlerTypes, NEW r \in Requests, NEW l \in HandlerLabels, Goto(r, l),
           UNCHANGED <<op, own, rest>>
    PROVE  HandlerTypes'
  BY DEF HandlerTypes, Goto

\* Every step keeps the types of the factory and the process.
LEMMA FieldTypesStep ==
    ASSUME IInv, [Next]_vars
    PROVE  FieldTypes'
<1>1. ASSUME NEW r \in Requests, BeginStart(r) PROVE FieldTypes'
  BY <1>1, Constants DEF BeginStart, Begin, IInv, fields, sessions, FieldTypes
<1>2. ASSUME NEW r \in Requests, BeginStop(r) PROVE FieldTypes'
  BY <1>2, Constants DEF BeginStop, Begin, IInv, fields, sessions, FieldTypes
<1>3. ASSUME NEW r \in Requests, BeginAdd(r) PROVE FieldTypes'
  BY <1>3, Constants DEF BeginAdd, Begin, IInv, fields, sessions, bounds, FieldTypes
<1>4. ASSUME NEW r \in Requests, IsRunningDone(r) PROVE FieldTypes'
  BY <1>4 DEF IsRunningDone, Answer, IInv, fields, sessions, bounds, FieldTypes
<1>5. ASSUME NEW r \in Requests, StartCtx(r) PROVE FieldTypes'
  <2>1. made + 1 \in Sessions
    BY <1>5, ContextNumber DEF StartCtx, IInv, OpInv, Pending
  <2> QED
    BY <1>5, <2>1 DEF StartCtx, IInv, FieldTypes, SessionOrNone, bounds
<1>6. ASSUME NEW r \in Requests, StartController(r) PROVE FieldTypes'
  BY <1>6 DEF StartController, IInv, HandlerTypes, sessions, bounds, FieldTypes
<1>7. ASSUME NEW r \in Requests, StartBuild(r) PROVE FieldTypes'
  BY <1>7 DEF StartBuild, IInv, HandlerTypes, bounds, FieldTypes
<1>8. ASSUME NEW r \in Requests, StartBuildFails(r) PROVE FieldTypes'
  BY <1>8, Constants DEF StartBuildFails, IInv, sessions, SessionOrNone, FieldTypes
<1>9. ASSUME NEW r \in Requests, StopCancel(r) PROVE FieldTypes'
  <2>1. canceled' = canceled \/ (controller # None /\ canceled' = canceled \cup {controller})
    BY <1>9 DEF StopCancel
  <2> QED
    BY <1>9, <2>1 DEF StopCancel, IInv, FieldTypes, SessionOrNone, fields, bounds
<1>10. ASSUME NEW r \in Requests, StopScraper(r) PROVE FieldTypes'
  BY <1>10 DEF StopScraper, IInv, sessions, bounds, SessionOrNone, FieldTypes
<1>11. ASSUME NEW r \in Requests, StopClear(r) PROVE FieldTypes'
  BY <1>11 DEF StopClear, IInv, sessions, bounds, SessionOrNone, FieldTypes
<1>12. ASSUME NEW r \in Requests, AddSend(r) PROVE FieldTypes'
  BY <1>12 DEF AddSend, FieldTypes, IInv, fields, sessions, bounds
<1>13. ASSUME NEW r \in Requests, AddReturns(r) PROVE FieldTypes'
  BY <1>13 DEF AddReturns, FieldTypes, IInv, fields, sessions, bounds
<1>14. ASSUME NEW s \in Sessions, CallPrepareChan(s) PROVE FieldTypes'
  BY <1>14 DEF CallPrepareChan, Panic, IInv, fields, sessions, bounds, FieldTypes
<1>15. ASSUME NEW s \in Sessions, CallRun(s) PROVE FieldTypes'
  BY <1>15 DEF CallRun, Panic, IInv, fields, sessions, bounds, FieldTypes
<1>16. ASSUME NEW s \in Sessions, RunFails(s) PROVE FieldTypes'
  BY <1>16, Constants DEF RunFails, IInv, fields, sessions, FieldTypes
<1>17. ASSUME NEW s \in Sessions, Dispatch(s) PROVE FieldTypes'
  BY <1>17 DEF Dispatch, FieldTypes, IInv, fields, sessions, bounds
<1>18. ASSUME NEW s \in Sessions, RunEnds(s) PROVE FieldTypes'
  <2>1. ran[s] \in Sessions
    BY <1>18 DEF RunEnds, Over, IInv, LaunchTypes, SessionOrNone
  <2>2. /\ main' = main \/ main' = "panicked"
        /\ stopped' = stopped \/ stopped' = stopped \cup {ran[s]}
        /\ UNCHANGED <<fields, chClosed, made, canceled, ctxOf, bounds, raced>>
    BY <1>18 DEF RunEnds, Panic
  <2> QED
    BY <2>1, <2>2 DEF IInv, FieldTypes, fields, bounds
<1>19. ASSUME NEW s \in Sessions, PrepareTake(s) PROVE FieldTypes'
  BY <1>19 DEF PrepareTake, FieldTypes, IInv, fields, sessions, bounds
<1>20. ASSUME NEW s \in Sessions, PrepareReject(s) PROVE FieldTypes'
  BY <1>20 DEF PrepareReject, FieldTypes, IInv, fields, sessions, bounds
<1>21. ASSUME NEW s \in Sessions, PrepareReturn(s) PROVE FieldTypes'
  BY <1>21 DEF PrepareReturn, FieldTypes, IInv, fields, sessions, bounds
<1>22. ASSUME NEW s \in Sessions, NilContext(s) PROVE FieldTypes'
  BY <1>22 DEF NilContext, Panic, IInv, fields, sessions, bounds, FieldTypes
<1>23. CASE Signal
  BY <1>23 DEF Signal, others, IInv, fields, sessions, handlers, launches, flow,
     bounds, history, FieldTypes
<1>24. CASE CloseComplCh
  BY <1>24 DEF CloseComplCh, others, IInv, fields, sessions, handlers, launches, flow,
     bounds, history, FieldTypes
<1>25. CASE Exit
  BY <1>25 DEF Exit, others, IInv, fields, sessions, handlers, launches, flow, bounds,
     history, FieldTypes
<1>26. CASE UNCHANGED vars
  BY <1>26 DEF vars, fields, sessions, handlers, launches, flow, bounds, history,
     IInv, FieldTypes
<1> QED
  BY <1>1, <1>2, <1>3, <1>4, <1>5, <1>6, <1>7, <1>8, <1>9, <1>10, <1>11, <1>12, <1>13,
     <1>14, <1>15, <1>16, <1>17, <1>18, <1>19, <1>20, <1>21, <1>22, <1>23, <1>24,
     <1>25, <1>26 DEF Next, Step, HandlerStep, LaunchStep, PrepareStep, ProcessStep

\* Every step keeps the types of the handlers.
LEMMA HandlerTypesStep ==
    ASSUME IInv, [Next]_vars
    PROVE  HandlerTypes'
<1>1. ASSUME NEW r \in Requests, BeginStart(r) PROVE HandlerTypes'
  BY <1>1 DEF BeginStart, Begin, IInv, Goto, HandlerLabels, Operations, HandlerTypes
<1>2. ASSUME NEW r \in Requests, BeginStop(r) PROVE HandlerTypes'
  BY <1>2 DEF BeginStop, Begin, IInv, Goto, HandlerLabels, Operations, HandlerTypes
<1>3. ASSUME NEW r \in Requests, BeginAdd(r) PROVE HandlerTypes'
  BY <1>3, Constants DEF BeginAdd, Begin, IInv, Goto, HandlerLabels, Operations,
     HandlerTypes
<1>4. ASSUME NEW r \in Requests, IsRunningDone(r) PROVE HandlerTypes'
  <2>1. \/ Finish(r)
        \/ Goto(r, First[op[r]]) /\ op[r] # "none" /\ UNCHANGED <<op, own, rest>>
    BY <1>4 DEF IsRunningDone, Answer, IInv, OpInv
  <2>2. op[r] # "none" => First[op[r]] \in HandlerLabels
    BY DEF First, HandlerLabels, IInv, HandlerTypes, Operations
  <2> QED
    BY <2>1, <2>2, FinishTypes, GotoTypes DEF IInv
<1>5. ASSUME NEW r \in Requests, StartCtx(r) PROVE HandlerTypes'
  <2>1. made + 1 \in Sessions
    BY <1>5, ContextNumber DEF StartCtx, IInv, OpInv, Pending
  <2> QED
    BY <1>5, <2>1 DEF StartCtx, Goto, IInv, HandlerTypes, HandlerLabels, SessionOrNone
<1>6. ASSUME NEW r \in Requests, StartController(r) PROVE HandlerTypes'
  <2>1. Goto(r, "build") /\ "build" \in HandlerLabels /\ UNCHANGED <<op, own, rest>>
    BY <1>6 DEF StartController, HandlerLabels
  <2> QED
    BY <2>1, GotoTypes DEF IInv
<1>7. ASSUME NEW r \in Requests, StartBuild(r) PROVE HandlerTypes'
  <2>1. Finish(r)
    BY <1>7 DEF StartBuild
  <2> QED
    BY <2>1, FinishTypes DEF IInv
<1>8. ASSUME NEW r \in Requests, StartBuildFails(r) PROVE HandlerTypes'
  <2>1. Finish(r)
    BY <1>8 DEF StartBuildFails
  <2> QED
    BY <2>1, FinishTypes DEF IInv
<1>9. ASSUME NEW r \in Requests, StopCancel(r) PROVE HandlerTypes'
  <2>1. Finish(r) \/ (Goto(r, "scraper") /\ UNCHANGED <<op, own, rest>>)
    BY <1>9 DEF StopCancel
  <2>2. "scraper" \in HandlerLabels
    BY DEF HandlerLabels
  <2> QED
    BY <2>1, <2>2, FinishTypes, GotoTypes DEF IInv
<1>10. ASSUME NEW r \in Requests, StopScraper(r) PROVE HandlerTypes'
  <2>1. Goto(r, "clear") /\ "clear" \in HandlerLabels /\ UNCHANGED <<op, own, rest>>
    BY <1>10 DEF StopScraper, HandlerLabels
  <2> QED
    BY <2>1, GotoTypes DEF IInv
<1>11. ASSUME NEW r \in Requests, StopClear(r) PROVE HandlerTypes'
  <2>1. Finish(r)
    BY <1>11 DEF StopClear
  <2> QED
    BY <2>1, FinishTypes DEF IInv
<1>12. ASSUME NEW r \in Requests, AddSend(r) PROVE HandlerTypes'
  <2>1. rest[r] \in Seq(Urls) /\ rest[r] # <<>> /\ rest' = [rest EXCEPT ![r] = Tail(@)]
    BY <1>12 DEF AddSend, IInv, HandlerTypes
  <2>2. Tail(rest[r]) \in Seq(Urls)
    BY <2>1, HeadTailProperties
  <2> QED
    BY <1>12, <2>1, <2>2 DEF AddSend, IInv, HandlerTypes
<1>13. ASSUME NEW r \in Requests, AddReturns(r) PROVE HandlerTypes'
  <2>1. Finish(r)
    BY <1>13 DEF AddReturns
  <2> QED
    BY <2>1, FinishTypes DEF IInv
<1>14. ASSUME NEW s \in Sessions, CallPrepareChan(s) PROVE HandlerTypes'
  BY <1>14 DEF CallPrepareChan, HandlerTypes, IInv, handlers
<1>15. ASSUME NEW s \in Sessions, CallRun(s) PROVE HandlerTypes'
  BY <1>15 DEF CallRun, HandlerTypes, IInv, handlers
<1>16. ASSUME NEW s \in Sessions, RunFails(s) PROVE HandlerTypes'
  BY <1>16 DEF RunFails, HandlerTypes, IInv, handlers
<1>17. ASSUME NEW s \in Sessions, Dispatch(s) PROVE HandlerTypes'
  BY <1>17 DEF Dispatch, HandlerTypes, IInv, handlers
<1>18. ASSUME NEW s \in Sessions, RunEnds(s) PROVE HandlerTypes'
  BY <1>18 DEF RunEnds, HandlerTypes, IInv, handlers
<1>19. ASSUME NEW s \in Sessions, PrepareTake(s) PROVE HandlerTypes'
  BY <1>19 DEF PrepareTake, HandlerTypes, IInv, handlers
<1>20. ASSUME NEW s \in Sessions, PrepareReject(s) PROVE HandlerTypes'
  BY <1>20 DEF PrepareReject, HandlerTypes, IInv, handlers
<1>21. ASSUME NEW s \in Sessions, PrepareReturn(s) PROVE HandlerTypes'
  BY <1>21 DEF PrepareReturn, HandlerTypes, IInv, handlers
<1>22. ASSUME NEW s \in Sessions, NilContext(s) PROVE HandlerTypes'
  BY <1>22 DEF NilContext, HandlerTypes, IInv, handlers
<1>23. CASE Signal
  BY <1>23 DEF Signal, others, IInv, handlers, HandlerTypes
<1>24. CASE CloseComplCh
  BY <1>24 DEF CloseComplCh, others, IInv, handlers, HandlerTypes
<1>25. CASE Exit
  BY <1>25 DEF Exit, others, IInv, handlers, HandlerTypes
<1>26. CASE UNCHANGED vars
  BY <1>26 DEF vars, fields, sessions, handlers, launches, flow, bounds, history,
     IInv, HandlerTypes
<1> QED
  BY <1>1, <1>2, <1>3, <1>4, <1>5, <1>6, <1>7, <1>8, <1>9, <1>10, <1>11, <1>12, <1>13,
     <1>14, <1>15, <1>16, <1>17, <1>18, <1>19, <1>20, <1>21, <1>22, <1>23, <1>24,
     <1>25, <1>26 DEF Next, Step, HandlerStep, LaunchStep, PrepareStep, ProcessStep

\* Every step keeps the types of the launches.
LEMMA LaunchTypesStep ==
    ASSUME IInv, [Next]_vars
    PROVE  LaunchTypes'
<1>1. ASSUME NEW r \in Requests, BeginStart(r) PROVE LaunchTypes'
  BY <1>1 DEF BeginStart, LaunchTypes, IInv, launches, flow
<1>2. ASSUME NEW r \in Requests, BeginStop(r) PROVE LaunchTypes'
  BY <1>2 DEF BeginStop, LaunchTypes, IInv, launches, flow
<1>3. ASSUME NEW r \in Requests, BeginAdd(r) PROVE LaunchTypes'
  BY <1>3 DEF BeginAdd, LaunchTypes, IInv, launches, flow
<1>4. ASSUME NEW r \in Requests, IsRunningDone(r) PROVE LaunchTypes'
  BY <1>4 DEF IsRunningDone, LaunchTypes, IInv, launches, flow
<1>5. ASSUME NEW r \in Requests, StartCtx(r) PROVE LaunchTypes'
  BY <1>5 DEF StartCtx, LaunchTypes, IInv, launches, flow
<1>6. ASSUME NEW r \in Requests, StartController(r) PROVE LaunchTypes'
  BY <1>6 DEF StartController, LaunchTypes, IInv, launches, flow
<1>7. ASSUME NEW r \in Requests, StartBuild(r) PROVE LaunchTypes'
  BY <1>7 DEF StartBuild, IInv, LaunchLabels, flow, LaunchTypes
<1>8. ASSUME NEW r \in Requests, StartBuildFails(r) PROVE LaunchTypes'
  BY <1>8 DEF StartBuildFails, IInv, LaunchLabels, flow, LaunchTypes
<1>9. ASSUME NEW r \in Requests, StopCancel(r) PROVE LaunchTypes'
  BY <1>9 DEF StopCancel, LaunchTypes, IInv, launches, flow
<1>10. ASSUME NEW r \in Requests, StopScraper(r) PROVE LaunchTypes'
  BY <1>10 DEF StopScraper, LaunchTypes, IInv, launches, flow
<1>11. ASSUME NEW r \in Requests, StopClear(r) PROVE LaunchTypes'
  BY <1>11 DEF StopClear, LaunchTypes, IInv, launches, flow
<1>12. ASSUME NEW r \in Requests, AddSend(r) PROVE LaunchTypes'
  BY <1>12 DEF AddSend, LaunchTypes, IInv, launches, flow
<1>13. ASSUME NEW r \in Requests, AddReturns(r) PROVE LaunchTypes'
  BY <1>13 DEF AddReturns, LaunchTypes, IInv, launches, flow
<1>14. ASSUME NEW s \in Sessions, CallPrepareChan(s) PROVE LaunchTypes'
  BY <1>14 DEF CallPrepareChan, IInv, FieldTypes, LaunchLabels, launches, LaunchTypes
<1>15. ASSUME NEW s \in Sessions, CallRun(s) PROVE LaunchTypes'
  BY <1>15 DEF CallRun, IInv, FieldTypes, LaunchLabels, launches, flow, LaunchTypes
<1>16. ASSUME NEW s \in Sessions, RunFails(s) PROVE LaunchTypes'
  BY <1>16 DEF RunFails, IInv, LaunchLabels, flow, LaunchTypes
<1>17. ASSUME NEW s \in Sessions, Dispatch(s) PROVE LaunchTypes'
  BY <1>17 DEF Dispatch, LaunchTypes, IInv, launches, flow
<1>18. ASSUME NEW s \in Sessions, RunEnds(s) PROVE LaunchTypes'
  BY <1>18 DEF RunEnds, IInv, LaunchLabels, launches, flow, LaunchTypes
<1>19. ASSUME NEW s \in Sessions, PrepareTake(s) PROVE LaunchTypes'
  BY <1>19 DEF PrepareTake, LaunchTypes, IInv, launches, flow
<1>20. ASSUME NEW s \in Sessions, PrepareReject(s) PROVE LaunchTypes'
  BY <1>20 DEF PrepareReject, LaunchTypes, IInv, launches, flow
<1>21. ASSUME NEW s \in Sessions, PrepareReturn(s) PROVE LaunchTypes'
  BY <1>21 DEF PrepareReturn, IInv, launches, LaunchTypes
<1>22. ASSUME NEW s \in Sessions, NilContext(s) PROVE LaunchTypes'
  BY <1>22 DEF NilContext, LaunchTypes, IInv, launches, flow
<1>23. CASE Signal
  BY <1>23 DEF Signal, others, IInv, launches, flow, LaunchTypes
<1>24. CASE CloseComplCh
  BY <1>24 DEF CloseComplCh, others, IInv, launches, flow, LaunchTypes
<1>25. CASE Exit
  BY <1>25 DEF Exit, others, IInv, launches, flow, LaunchTypes
<1>26. CASE UNCHANGED vars
  BY <1>26 DEF vars, fields, sessions, handlers, launches, flow, bounds, history,
     IInv, LaunchTypes
<1> QED
  BY <1>1, <1>2, <1>3, <1>4, <1>5, <1>6, <1>7, <1>8, <1>9, <1>10, <1>11, <1>12, <1>13,
     <1>14, <1>15, <1>16, <1>17, <1>18, <1>19, <1>20, <1>21, <1>22, <1>23, <1>24,
     <1>25, <1>26 DEF Next, Step, HandlerStep, LaunchStep, PrepareStep, ProcessStep

\* a URL is taken from complCh
LEMMA TakenTypes ==
    ASSUME FlowTypes, complCh # <<>>
    PROVE  /\ Head(complCh) \in Urls /\ Tail(complCh) \in Seq(Urls)
           /\ Len(Tail(complCh)) <= ChanCapacity
<1>1. complCh \in Seq(Urls) /\ Len(complCh) <= ChanCapacity
  BY DEF FlowTypes
<1>2. /\ Head(complCh) \in Urls /\ Tail(complCh) \in Seq(Urls)
      /\ Len(Tail(complCh)) = Len(complCh) - 1 /\ Len(complCh) \in Nat
  BY <1>1, HeadTailProperties, LenProperties
<1> QED
  BY <1>1, <1>2, Constants

\* Every step keeps the types of the channels and the histories of the URLs.
LEMMA FlowTypesStep ==
    ASSUME IInv, [Next]_vars
    PROVE  FlowTypes'
<1>1. ASSUME NEW r \in Requests, BeginStart(r) PROVE FlowTypes'
  BY <1>1 DEF BeginStart, FlowTypes, IInv, flow, history
<1>2. ASSUME NEW r \in Requests, BeginStop(r) PROVE FlowTypes'
  BY <1>2 DEF BeginStop, FlowTypes, IInv, flow, history
<1>3. ASSUME NEW r \in Requests, BeginAdd(r) PROVE FlowTypes'
  BY <1>3 DEF BeginAdd, IInv, flow, FlowTypes
<1>4. ASSUME NEW r \in Requests, IsRunningDone(r) PROVE FlowTypes'
  BY <1>4 DEF IsRunningDone, FlowTypes, IInv, flow, history
<1>5. ASSUME NEW r \in Requests, StartCtx(r) PROVE FlowTypes'
  BY <1>5 DEF StartCtx, FlowTypes, IInv, flow, history
<1>6. ASSUME NEW r \in Requests, StartController(r) PROVE FlowTypes'
  BY <1>6 DEF StartController, FlowTypes, IInv, flow, history
<1>7. ASSUME NEW r \in Requests, StartBuild(r) PROVE FlowTypes'
  BY <1>7 DEF StartBuild, FlowTypes, IInv, flow, history
<1>8. ASSUME NEW r \in Requests, StartBuildFails(r) PROVE FlowTypes'
  BY <1>8 DEF StartBuildFails, FlowTypes, IInv, flow, history
<1>9. ASSUME NEW r \in Requests, StopCancel(r) PROVE FlowTypes'
  BY <1>9 DEF StopCancel, FlowTypes, IInv, flow, history
<1>10. ASSUME NEW r \in Requests, StopScraper(r) PROVE FlowTypes'
  BY <1>10 DEF StopScraper, FlowTypes, IInv, flow, history
<1>11. ASSUME NEW r \in Requests, StopClear(r) PROVE FlowTypes'
  BY <1>11 DEF StopClear, FlowTypes, IInv, flow, history
<1>12. ASSUME NEW r \in Requests, AddSend(r) PROVE FlowTypes'
  <2>1. rest[r] \in Seq(Urls) /\ rest[r] # <<>>
    BY <1>12 DEF AddSend, IInv, HandlerTypes
  <2>2. Head(rest[r]) \in Urls
    BY <2>1, HeadTailProperties
  <2>3. complCh \in Seq(Urls) /\ Len(complCh) < ChanCapacity /\ ChanCapacity \in Nat
    BY <1>12, Constants DEF AddSend, IInv, FlowTypes
  <2>4. complCh' \in Seq(Urls) /\ Len(complCh') <= ChanCapacity
    <3>1. complCh' = Append(complCh, Head(rest[r]))
      BY <1>12 DEF AddSend
    <3>2. complCh' \in Seq(Urls) /\ Len(complCh') = Len(complCh) + 1 /\ Len(complCh) \in Nat
      BY <2>2, <2>3, <3>1, AppendProperties, LenProperties
    <3> QED
      BY <2>3, <3>2
  <2> QED
    BY <1>12, <2>2, <2>4 DEF AddSend, IInv, FlowTypes, flow
<1>13. ASSUME NEW r \in Requests, AddReturns(r) PROVE FlowTypes'
  BY <1>13 DEF AddReturns, FlowTypes, IInv, flow, history
<1>14. ASSUME NEW s \in Sessions, CallPrepareChan(s) PROVE FlowTypes'
  BY <1>14, Constants DEF CallPrepareChan, IInv, flow, history, FlowTypes
<1>15. ASSUME NEW s \in Sessions, CallRun(s) PROVE FlowTypes'
  BY <1>15 DEF CallRun, FlowTypes, IInv, flow, history
<1>16. ASSUME NEW s \in Sessions, RunFails(s) PROVE FlowTypes'
  BY <1>16 DEF RunFails, FlowTypes, IInv, flow, history
<1>17. ASSUME NEW s \in Sessions, Dispatch(s) PROVE FlowTypes'
  <2>1. out[s] \in Seq(Urls) /\ out[s] # <<>> /\ out' = [out EXCEPT ![s] = Tail(@)]
    BY <1>17 DEF Dispatch, IInv, FlowTypes
  <2>2. Head(out[s]) \in Urls /\ Tail(out[s]) \in Seq(Urls) /\ Len(Tail(out[s])) <= OutCapacity + 1
    <3>1. /\ Head(out[s]) \in Urls /\ Tail(out[s]) \in Seq(Urls)
          /\ Len(Tail(out[s])) = Len(out[s]) - 1 /\ Len(out[s]) \in Nat
      BY <2>1, HeadTailProperties, LenProperties
    <3>2. Len(out[s]) <= OutCapacity + 1 /\ OutCapacity \in Nat
      BY Constants DEF IInv, FlowTypes
    <3> QED
      BY <3>1, <3>2
  <2> QED
    BY <1>17, <2>1, <2>2 DEF Dispatch, IInv, FlowTypes
<1>18. ASSUME NEW s \in Sessions, RunEnds(s) PROVE FlowTypes'
  BY <1>18 DEF RunEnds, FlowTypes, IInv, flow, history
<1>19. ASSUME NEW s \in Sessions, PrepareTake(s) PROVE FlowTypes'
  <2>1. /\ Head(complCh) \in Urls /\ Tail(complCh) \in Seq(Urls)
        /\ Len(Tail(complCh)) <= ChanCapacity
    BY <1>19, TakenTypes DEF PrepareTake, IInv
  <2>2. out[s] \in Seq(Urls) /\ Len(out[s]) <= OutCapacity
    BY <1>19 DEF PrepareTake, Sent, IInv, FlowTypes
  <2> DEFINE new == Append(out[s], Head(complCh))
  <2>3. new \in Seq(Urls) /\ Len(new) <= OutCapacity + 1
    <3>1. new \in Seq(Urls) /\ Len(new) = Len(out[s]) + 1 /\ Len(out[s]) \in Nat
      BY <2>1, <2>2, AppendProperties, LenProperties
    <3> HIDE DEF new
    <3> QED
      BY <2>2, <3>1, Constants
  <2>4. out' = [out EXCEPT ![s] = new] /\ complCh' = Tail(complCh) /\ UNCHANGED history
    BY <1>19 DEF PrepareTake
  <2> HIDE DEF new
  <2> QED
    BY <2>1, <2>3, <2>4 DEF IInv, FlowTypes, history
<1>20. ASSUME NEW s \in Sessions, PrepareReject(s) PROVE FlowTypes'
  <2>1. /\ Head(complCh) \in Urls /\ Tail(complCh) \in Seq(Urls)
        /\ Len(Tail(complCh)) <= ChanCapacity
    BY <1>20, TakenTypes DEF PrepareReject, IInv
  <2> QED
    BY <1>20, <2>1 DEF PrepareReject, IInv, FlowTypes, flow
<1>21. ASSUME NEW s \in Sessions, PrepareReturn(s) PROVE FlowTypes'
  BY <1>21 DEF PrepareReturn, IInv, flow, history, FlowTypes
<1>22. ASSUME NEW s \in Sessions, NilContext(s) PROVE FlowTypes'
  BY <1>22 DEF NilContext, FlowTypes, IInv, flow, history
<1>23. CASE Signal
  BY <1>23 DEF Signal, others, IInv, flow, history, FlowTypes
<1>24. CASE CloseComplCh
  BY <1>24 DEF CloseComplCh, others, IInv, flow, history, FlowTypes
<1>25. CASE Exit
  BY <1>25 DEF Exit, others, IInv, flow, history, FlowTypes
<1>26. CASE UNCHANGED vars
  BY <1>26 DEF vars, fields, sessions, handlers, launches, flow, bounds, history,
     IInv, FlowTypes
<1> QED
  BY <1>1, <1>2, <1>3, <1>4, <1>5, <1>6, <1>7, <1>8, <1>9, <1>10, <1>11, <1>12, <1>13,
     <1>14, <1>15, <1>16, <1>17, <1>18, <1>19, <1>20, <1>21, <1>22, <1>23, <1>24,
     <1>25, <1>26 DEF Next, Step, HandlerStep, LaunchStep, PrepareStep, ProcessStep

-----------------------------------------------------------------------------
(* The handlers                                                            *)

\* no start comes, and no context is made
LEMMA CountKept ==
    ASSUME FieldTypes, CountInv, Pending' \subseteq Pending, UNCHANGED <<made, starts>>
    PROVE  CountInv'
<1>1. Cardinality(Pending') <= Cardinality(Pending) /\ Cardinality(Pending') \in Nat
  BY PendingFinite, FS_Subset, FS_CardinalityType
<1>2. Cardinality(Pending)' = Cardinality(Pending')
  OBVIOUS
<1>3. made \in Nat /\ starts \in Nat
  BY Constants DEF FieldTypes, SessionOrNone, Sessions, None
<1> QED
  BY <1>1, <1>2, <1>3, PendingFinite DEF CountInv

\* Every step keeps the contexts no more than the starts.
LEMMA CountInvStep ==
    ASSUME IInv, [Next]_vars
    PROVE  CountInv'
<1>1. ASSUME NEW r \in Requests, BeginStart(r) PROVE CountInv'
  <2>1. r \notin Pending
    BY <1>1 DEF BeginStart, Begin, Pending
  <2>2. Pending' \subseteq Pending \cup {r}
    BY <1>1 DEF BeginStart, Begin, Goto, Pending, IInv, HandlerTypes
  <2>3. /\ Cardinality(Pending \cup {r}) = Cardinality(Pending) + 1
        /\ IsFiniteSet(Pending \cup {r})
    BY <2>1, PendingFinite, FS_AddElement
  <2>4. Cardinality(Pending') <= Cardinality(Pending) + 1 /\ Cardinality(Pending') \in Nat
    BY <2>2, <2>3, FS_Subset, FS_CardinalityType
  <2>5. starts' = starts + 1 /\ UNCHANGED made
    BY <1>1 DEF BeginStart, sessions
  <2>6. made \in Nat /\ starts \in Nat
    BY Constants DEF IInv, FieldTypes, SessionOrNone, Sessions, None
  <2>7. CountInv /\ (CountInv' <=> made' + Cardinality(Pending') <= starts')
    BY DEF IInv, CountInv
  <2> QED
    BY <2>4, <2>5, <2>6, <2>7, PendingFinite DEF CountInv
<1>2. ASSUME NEW r \in Requests, BeginStop(r) PROVE CountInv'
  <2>1. Pending' \subseteq Pending
    BY <1>2 DEF BeginStop, Begin, Goto, Pending, IInv, HandlerTypes
  <2>2. UNCHANGED <<made, starts>>
    BY <1>2 DEF BeginStop, sessions, bounds
  <2> QED
    BY <2>1, <2>2, CountKept DEF IInv
<1>3. ASSUME NEW r \in Requests, BeginAdd(r) PROVE CountInv'
  <2>1. Pending' \subseteq Pending
    BY <1>3 DEF BeginAdd, Begin, Goto, Pending, IInv, HandlerTypes
  <2>2. UNCHANGED <<made, starts>>
    BY <1>3 DEF BeginAdd, sessions, bounds
  <2> QED
    BY <2>1, <2>2, CountKept DEF IInv
<1>4. ASSUME NEW r \in Requests, IsRunningDone(r) PROVE CountInv'
  <2>1. Pending' \subseteq Pending
    BY <1>4 DEF IsRunningDone, Goto, Finish, Answer, First, OpInv, Pending, IInv,
       HandlerTypes
  <2>2. UNCHANGED <<made, starts>>
    BY <1>4 DEF IsRunningDone, sessions, bounds
  <2> QED
    BY <2>1, <2>2, CountKept DEF IInv
<1>5. ASSUME NEW r \in Requests, StartCtx(r) PROVE CountInv'
  <2>1. r \in Pending /\ Pending' \subseteq Pending \ {r}
    BY <1>5 DEF StartCtx, Goto, Pending, IInv, OpInv, HandlerTypes
  <2>2. /\ Cardinality(Pending \ {r}) = Cardinality(Pending) - 1
        /\ IsFiniteSet(Pending \ {r})
    BY <2>1, PendingFinite, FS_RemoveElement
  <2>3. Cardinality(Pending') <= Cardinality(Pending) - 1 /\ Cardinality(Pending') \in Nat
    BY <2>1, <2>2, FS_Subset, FS_CardinalityType
  <2>4. made' = made + 1 /\ UNCHANGED starts
    BY <1>5 DEF StartCtx, bounds
  <2>5. made \in Nat /\ starts \in Nat
    BY Constants DEF IInv, FieldTypes, SessionOrNone, Sessions, None
  <2>6. CountInv /\ (CountInv' <=> made' + Cardinality(Pending') <= starts')
    BY DEF IInv, CountInv
  <2> QED
    BY <2>3, <2>4, <2>5, <2>6, PendingFinite DEF CountInv
<1>6. ASSUME NEW r \in Requests, StartController(r) PROVE CountInv'
  <2>1. Pending' \subseteq Pending
    BY <1>6 DEF StartController, Goto, Pending, IInv, HandlerTypes
  <2>2. UNCHANGED <<made, starts>>
    BY <1>6 DEF StartController, sessions, bounds
  <2> QED
    BY <2>1, <2>2, CountKept DEF IInv
<1>7. ASSUME NEW r \in Requests, StartBuild(r) PROVE CountInv'
  <2>1. Pending' \subseteq Pending
    BY <1>7 DEF StartBuild, Goto, Finish, Pending, IInv, HandlerTypes
  <2>2. UNCHANGED <<made, starts>>
    BY <1>7 DEF StartBuild, sessions, bounds
  <2> QED
    BY <2>1, <2>2, CountKept DEF IInv
<1>8. ASSUME NEW r \in Requests, StartBuildFails(r) PROVE CountInv'
  <2>1. Pending' \subseteq Pending
    BY <1>8 DEF StartBuildFails, Goto, Finish, Pending, IInv, HandlerTypes
  <2>2. UNCHANGED <<made, starts>>
    BY <1>8 DEF StartBuildFails, sessions, bounds
  <2> QED
    BY <2>1, <2>2, CountKept DEF IInv
<1>9. ASSUME NEW r \in Requests, StopCancel(r) PROVE CountInv'
  <2>1. Pending' \subseteq Pending
    BY <1>9 DEF StopCancel, Goto, Finish, Pending, IInv, HandlerTypes
  <2>2. UNCHANGED <<made, starts>>
    BY <1>9 DEF StopCancel, sessions, bounds
  <2> QED
    BY <2>1, <2>2, CountKept DEF IInv
<1>10. ASSUME NEW r \in Requests, StopScraper(r) PROVE CountInv'
  <2>1. Pending' \subseteq Pending
    BY <1>10 DEF StopScraper, Goto, Pending, IInv, HandlerTypes
  <2>2. UNCHANGED <<made, starts>>
    BY <1>10 DEF StopScraper, sessions, bounds
  <2> QED
    BY <2>1, <2>2, CountKept DEF IInv
<1>11. ASSUME NEW r \in Requests, StopClear(r) PROVE CountInv'
  <2>1. Pending' \subseteq Pending
    BY <1>11 DEF StopClear, Goto, Finish, Pending, IInv, HandlerTypes
  <2>2. UNCHANGED <<made, starts>>
    BY <1>11 DEF StopClear, sessions, bounds
  <2> QED
    BY <2>1, <2>2, CountKept DEF IInv
<1>12. ASSUME NEW r \in Requests, AddSend(r) PROVE CountInv'
  BY <1>12 DEF AddSend, CountInv, IInv, Pending, handlers, sessions, bounds
<1>13. ASSUME NEW r \in Requests, AddReturns(r) PROVE CountInv'
  <2>1. Pending' \subseteq Pending
    BY <1>13 DEF AddReturns, Goto, Finish, Pending, IInv, HandlerTypes
  <2>2. UNCHANGED <<made, starts>>
    BY <1>13 DEF AddReturns, sessions, bounds
  <2> QED
    BY <2>1, <2>2, CountKept DEF IInv
<1>14. ASSUME NEW s \in Sessions, CallPrepareChan(s) PROVE CountInv'
  BY <1>14 DEF CallPrepareChan, CountInv, IInv, Pending, handlers, sessions, bounds
<1>15. ASSUME NEW s \in Sessions, CallRun(s) PROVE CountInv'
  BY <1>15 DEF CallRun, CountInv, IInv, Pending, handlers, sessions, bounds
<1>16. ASSUME NEW s \in Sessions, RunFails(s) PROVE CountInv'
  BY <1>16 DEF RunFails, CountInv, IInv, Pending, handlers, sessions, bounds
<1>17. ASSUME NEW s \in Sessions, Dispatch(s) PROVE CountInv'
  BY <1>17 DEF Dispatch, CountInv, IInv, Pending, handlers, sessions, bounds
<1>18. ASSUME NEW s \in Sessions, RunEnds(s) PROVE CountInv'
  BY <1>18 DEF RunEnds, CountInv, IInv, Pending, handlers, sessions, bounds
<1>19. ASSUME NEW s \in Sessions, PrepareTake(s) PROVE CountInv'
  BY <1>19 DEF PrepareTake, CountInv, IInv, Pending, handlers, sessions, bounds
<1>20. ASSUME NEW s \in Sessions, PrepareReject(s) PROVE CountInv'
  BY <1>20 DEF PrepareReject, CountInv, IInv, Pending, handlers, sessions, bounds
<1>21. ASSUME NEW s \in Sessions, PrepareReturn(s) PROVE CountInv'
  BY <1>21 DEF PrepareReturn, CountInv, IInv, Pending, handlers, sessions, bounds
<1>22. ASSUME NEW s \in Sessions, NilContext(s) PROVE CountInv'
  BY <1>22 DEF NilContext, CountInv, IInv, Pending, handlers, sessions, bounds
<1>23. CASE Signal
  <2>1. Pending' \subseteq Pending
    BY <1>23 DEF Signal, others, handlers, Pending, IInv, HandlerTypes
  <2>2. UNCHANGED <<made, starts>>
    BY <1>23 DEF Signal, others, sessions, bounds
  <2> QED
    BY <2>1, <2>2, CountKept DEF IInv
<1>24. CASE CloseComplCh
  <2>1. Pending' \subseteq Pending
    BY <1>24 DEF CloseComplCh, others, handlers, Pending, IInv, HandlerTypes
  <2>2. UNCHANGED <<made, starts>>
    BY <1>24 DEF CloseComplCh, others, sessions, bounds
  <2> QED
    BY <2>1, <2>2, CountKept DEF IInv
<1>25. CASE Exit
  <2>1. Pending' \subseteq Pending
    BY <1>25 DEF Exit, others, handlers, Pending, IInv, HandlerTypes
  <2>2. UNCHANGED <<made, starts>>
    BY <1>25 DEF Exit, others, sessions, bounds
  <2> QED
    BY <2>1, <2>2, CountKept DEF IInv
<1>26. CASE UNCHANGED vars
  BY <1>26 DEF vars, fields, sessions, handlers, launches, flow, bounds, history,
     IInv, Pending, CountInv
<1> QED
  BY <1>1, <1>2, <1>3, <1>4, <1>5, <1>6, <1>7, <1>8, <1>9, <1>10, <1>11, <1>12, <1>13,
     <1>14, <1>15, <1>16, <1>17, <1>18, <1>19, <1>20, <1>21, <1>22, <1>23, <1>24,
     <1>25, <1>26 DEF Next, Step, HandlerStep, LaunchStep, PrepareStep, ProcessStep

\* Every step keeps the operations at their labels.
LEMMA OpInvStep ==
    ASSUME IInv, [Next]_vars
    PROVE  OpInv'
<1>1. ASSUME NEW r \in Requests, BeginStart(r) PROVE OpInv'
  BY <1>1 DEF BeginStart, Begin, Goto, IInv, HandlerTypes, OpInv
<1>2. ASSUME NEW r \in Requests, BeginStop(r) PROVE OpInv'
  BY <1>2 DEF BeginStop, Begin, Goto, IInv, HandlerTypes, OpInv
<1>3. ASSUME NEW r \in Requests, BeginAdd(r) PROVE OpInv'
  BY <1>3 DEF BeginAdd, Begin, Goto, IInv, HandlerTypes, OpInv
<1>4. ASSUME NEW r \in Requests, IsRunningDone(r) PROVE OpInv'
  <2>1. \/ Finish(r)
        \/ Goto(r, First[op[r]]) /\ UNCHANGED <<op, own, rest>>
    BY <1>4 DEF IsRunningDone, Answer
  <2>2. op[r] \in {"start", "stop", "add"}
    BY <1>4 DEF IsRunningDone, IInv, OpInv, HandlerTypes, Operations
  <2>3. First[op[r]] = IF op[r] = "start" THEN "ctx" ELSE IF op[r] = "stop" THEN "cancel" ELSE "send"
    BY <2>2 DEF First
  <2> QED
    BY <2>1, <2>2, <2>3 DEF Finish, Goto, IInv, HandlerTypes, OpInv
<1>5. ASSUME NEW r \in Requests, StartCtx(r) PROVE OpInv'
  BY <1>5 DEF StartCtx, Goto, IInv, HandlerTypes, OpInv
<1>6. ASSUME NEW r \in Requests, StartController(r) PROVE OpInv'
  BY <1>6 DEF StartController, Goto, IInv, HandlerTypes, OpInv
<1>7. ASSUME NEW r \in Requests, StartBuild(r) PROVE OpInv'
  BY <1>7 DEF StartBuild, Finish, Goto, IInv, HandlerTypes, OpInv
<1>8. ASSUME NEW r \in Requests, StartBuildFails(r) PROVE OpInv'
  BY <1>8 DEF StartBuildFails, Finish, Goto, IInv, HandlerTypes, OpInv
<1>9. ASSUME NEW r \in Requests, StopCancel(r) PROVE OpInv'
  BY <1>9 DEF StopCancel, Finish, Goto, IInv, HandlerTypes, OpInv
<1>10. ASSUME NEW r \in Requests, StopScraper(r) PROVE OpInv'
  BY <1>10 DEF StopScraper, Goto, IInv, HandlerTypes, OpInv
<1>11. ASSUME NEW r \in Requests, StopClear(r) PROVE OpInv'
  BY <1>11 DEF StopClear, Finish, Goto, IInv, HandlerTypes, OpInv
<1>12. ASSUME NEW r \in Requests, AddSend(r) PROVE OpInv'
  BY <1>12 DEF AddSend, IInv, HandlerTypes, OpInv
<1>13. ASSUME NEW r \in Requests, AddReturns(r) PROVE OpInv'
  BY <1>13 DEF AddReturns, Finish, Goto, IInv, HandlerTypes, OpInv
<1>14. ASSUME NEW s \in Sessions, CallPrepareChan(s) PROVE OpInv'
  BY <1>14 DEF CallPrepareChan, OpInv, IInv, handlers
<1>15. ASSUME NEW s \in Sessions, CallRun(s) PROVE OpInv'
  BY <1>15 DEF CallRun, OpInv, IInv, handlers
<1>16. ASSUME NEW s \in Sessions, RunFails(s) PROVE OpInv'
  BY <1>16 DEF RunFails, OpInv, IInv, handlers
<1>17. ASSUME NEW s \in Sessions, Dispatch(s) PROVE OpInv'
  BY <1>17 DEF Dispatch, OpInv, IInv, handlers
<1>18. ASSUME NEW s \in Sessions, RunEnds(s) PROVE OpInv'
  BY <1>18 DEF RunEnds, OpInv, IInv, handlers
<1>19. ASSUME NEW s \in Sessions, PrepareTake(s) PROVE OpInv'
  BY <1>19 DEF PrepareTake, OpInv, IInv, handlers
<1>20. ASSUME NEW s \in Sessions, PrepareReject(s) PROVE OpInv'
  BY <1>20 DEF PrepareReject, OpInv, IInv, handlers
<1>21. ASSUME NEW s \in Sessions, PrepareReturn(s) PROVE OpInv'
  BY <1>21 DEF PrepareReturn, OpInv, IInv, handlers
<1>22. ASSUME NEW s \in Sessions, NilContext(s) PROVE OpInv'
  BY <1>22 DEF NilContext, OpInv, IInv, handlers
<1>23. CASE Signal
  BY <1>23 DEF Signal, others, handlers, IInv, HandlerTypes, OpInv
<1>24. CASE CloseComplCh
  BY <1>24 DEF CloseComplCh, others, handlers, IInv, HandlerTypes, OpInv
<1>25. CASE Exit
  BY <1>25 DEF Exit, others, handlers, IInv, HandlerTypes, OpInv
<1>26. CASE UNCHANGED vars
  BY <1>26 DEF vars, fields, sessions, handlers, launches, flow, bounds, history,
     IInv, OpInv
<1> QED
  BY <1>1, <1>2, <1>3, <1>4, <1>5, <1>6, <1>7, <1>8, <1>9, <1>10, <1>11, <1>12, <1>13,
     <1>14, <1>15, <1>16, <1>17, <1>18, <1>19, <1>20, <1>21, <1>22, <1>23, <1>24,
     <1>25, <1>26 DEF Next, Step, HandlerStep, LaunchStep, PrepareStep, ProcessStep

-----------------------------------------------------------------------------
(* The URLs                                                                *)

\* the first element of a sequence without repetitions is taken
LEMMA TakeFirst ==
    ASSUME NEW S, NEW q \in Seq(S), q # <<>>, Distinct(q)
    PROVE  /\ Head(q) \in Range(q) /\ Range(Tail(q)) = Range(q) \ {Head(q)}
           /\ Distinct(Tail(q)) /\ Tail(q) \in Seq(S)
<1>1. Len(q) \in Nat /\ Len(q) > 0 /\ DOMAIN q = 1 .. Len(q) /\ Head(q) = q[1]
  BY LenProperties
<1>2. /\ Tail(q) \in Seq(S) /\ DOMAIN Tail(q) = 1 .. Len(q) - 1
      /\ \A i \in 1 .. Len(q) - 1 : Tail(q)[i] = q[i + 1]
  BY HeadTailProperties, LenProperties
<1>3. Head(q) \in Range(q)
  BY <1>1 DEF Range
<1>4. \A i \in 1 .. Len(q) - 1 : i + 1 \in 1 .. Len(q) /\ i + 1 # 1
  BY <1>1
<1>5. Range(Tail(q)) \subseteq Range(q) \ {Head(q)}
  <2> SUFFICES ASSUME NEW i \in 1 .. Len(q) - 1
               PROVE  Tail(q)[i] \in Range(q) \ {Head(q)}
    BY <1>2 DEF Range
  <2>1. q[i + 1] \in Range(q) /\ q[i + 1] # q[1]
    <3>1. i + 1 \in DOMAIN q /\ 1 \in DOMAIN q /\ i + 1 # 1
      BY <1>1, <1>4
    <3> QED
      BY <3>1 DEF Range, Distinct
  <2> QED
    BY <1>1, <1>2, <2>1
<1>6. Range(q) \ {Head(q)} \subseteq Range(Tail(q))
  <2> SUFFICES ASSUME NEW i \in 1 .. Len(q), i # 1
               PROVE  q[i] \in Range(Tail(q))
    BY <1>1 DEF Range
  <2>1. i - 1 \in 1 .. Len(q) - 1 /\ (i - 1) + 1 = i
    BY <1>1
  <2>2. Tail(q)[i - 1] = q[i]
    BY <1>2, <2>1
  <2> QED
    BY <1>2, <2>1, <2>2 DEF Range
<1>7. Distinct(Tail(q))
  <2> SUFFICES ASSUME NEW i \in 1 .. Len(q) - 1, NEW j \in 1 .. Len(q) - 1, q[i + 1] = q[j + 1]
               PROVE  i = j
    BY <1>2 DEF Distinct
  <2>1. i + 1 \in DOMAIN q /\ j + 1 \in DOMAIN q
    BY <1>1
  <2>2. i + 1 = j + 1
    BY <2>1 DEF Distinct
  <2> QED
    BY <2>2
<1> QED
  BY <1>2, <1>3, <1>5, <1>6, <1>7

\* an element that it does not hold is put at its end
LEMMA PutLast ==
    ASSUME NEW S, NEW q \in Seq(S), NEW e \in S, Distinct(q), e \notin Range(q)
    PROVE  Range(Append(q, e)) = Range(q) \cup {e} /\ Distinct(Append(q, e))
<1>1. Len(q) \in Nat /\ DOMAIN q = 1 .. Len(q)
  BY LenProperties
<1>2. /\ DOMAIN Append(q, e) = 1 .. Len(q) + 1
      /\ \A i \in 1 .. Len(q) : Append(q, e)[i] = q[i]
      /\ Append(q, e)[Len(q) + 1] = e
  BY <1>1, AppendProperties, LenProperties
<1>3. \A i \in 1 .. Len(q) + 1 : i \in 1 .. Len(q) \/ i = Len(q) + 1
  BY <1>1
<1>4. 1 .. Len(q) \subseteq 1 .. Len(q) + 1 /\ Len(q) + 1 \in 1 .. Len(q) + 1
  BY <1>1
<1>5. Range(Append(q, e)) = Range(q) \cup {e}
  BY <1>1, <1>2, <1>3, <1>4 DEF Range
<1>6. \A i \in 1 .. Len(q) : q[i] # e
  BY <1>1 DEF Range
<1>7. Distinct(Append(q, e))
  BY <1>1, <1>2, <1>3, <1>6 DEF Distinct
<1> QED
  BY <1>5, <1>7

\* the empty channel
LEMMA EmptyIsDistinct == Distinct(<<>>) /\ Range(<<>>) = {}
  BY DEF Distinct, Range

\* handlers answer, and no URL is accepted
LEMMA RestKept ==
    ASSUME RestInv, UNCHANGED <<accepted, offered>>,
           \A q \in Requests : rest'[q] = rest[q] \/ rest'[q] = <<>>
    PROVE  RestInv'
<1>1. \A q \in Requests : Distinct(rest'[q]) /\ Range(rest'[q]) \subseteq Range(rest[q])
  BY EmptyIsDistinct DEF RestInv
<1>2. accepted' = accepted /\ Offered' = Offered
  BY DEF Offered
<1> QED
  BY <1>1, <1>2 DEF RestInv, Apart

\* the URLs of a new list are different, and none of them has come before
LEMMA NewList ==
    ASSUME NEW b \in Batches, b \notin offered, offered \subseteq Batches
    PROVE  Distinct(b) /\ Apart(Range(b), Offered)
<1>1. \A c, d \in Batches : \A i \in DOMAIN c, j \in DOMAIN d : c[i] = d[j] => c = d /\ i = j
  BY LifecycleAssumption DEF LifecycleAssumption
<1>2. Distinct(b)
  BY <1>1 DEF Distinct
<1>3. \A c \in offered : Apart(Range(b), Range(c))
  BY <1>1 DEF Range, Apart
<1> QED
  BY <1>2, <1>3 DEF Offered, Apart

\* Every step keeps the URLs still to be sent apart.
LEMMA RestInvStep ==
    ASSUME IInv, [Next]_vars
    PROVE  RestInv'
<1>1. ASSUME NEW r \in Requests, BeginStart(r) PROVE RestInv'
  BY <1>1 DEF BeginStart, IInv, history, Offered, RestInv
<1>2. ASSUME NEW r \in Requests, BeginStop(r) PROVE RestInv'
  BY <1>2 DEF BeginStop, IInv, history, Offered, RestInv
<1>3. ASSUME NEW r \in Requests, BeginAdd(r) PROVE RestInv'
  <2>1. PICK b \in Batches \ offered :
          offered' = offered \cup {b} /\ rest' = [rest EXCEPT ![r] = b] /\ accepted' = accepted
    BY <1>3 DEF BeginAdd
  <2>2. Distinct(b) /\ Apart(Range(b), Offered)
    BY <2>1, NewList DEF IInv, FlowTypes
  <2>3. Offered' = Offered \cup Range(b)
    BY <2>1 DEF Offered
  <2>4. \A q \in Requests : rest'[q] = IF q = r THEN b ELSE rest[q]
    BY <2>1 DEF IInv, HandlerTypes
  <2>5. \A q \in Requests : Distinct(rest'[q]) /\ Range(rest'[q]) \subseteq Offered'
    BY <2>2, <2>3, <2>4 DEF IInv, RestInv
  <2>6. \A q \in Requests : Apart(Range(rest'[q]), accepted)
    BY <2>2, <2>4 DEF IInv, RestInv, Apart
  <2>7. \A p, q \in Requests : p # q => Apart(Range(rest'[p]), Range(rest'[q]))
    BY <2>2, <2>4 DEF IInv, RestInv, Apart
  <2>8. accepted' \subseteq Offered'
    BY <2>1, <2>3 DEF IInv, RestInv
  <2> QED
    BY <2>1, <2>5, <2>6, <2>7, <2>8 DEF RestInv
<1>4. ASSUME NEW r \in Requests, IsRunningDone(r) PROVE RestInv'
  <2>1. UNCHANGED <<accepted, offered>>
    BY <1>4 DEF IsRunningDone, history
  <2>2. \A q \in Requests : rest'[q] = rest[q] \/ rest'[q] = <<>>
    BY <1>4 DEF IsRunningDone, Finish, Answer, IInv, HandlerTypes
  <2> QED
    BY <2>1, <2>2, RestKept DEF IInv
<1>5. ASSUME NEW r \in Requests, StartCtx(r) PROVE RestInv'
  BY <1>5 DEF StartCtx, RestInv, IInv, handlers, history, Offered
<1>6. ASSUME NEW r \in Requests, StartController(r) PROVE RestInv'
  BY <1>6 DEF StartController, RestInv, IInv, handlers, history, Offered
<1>7. ASSUME NEW r \in Requests, StartBuild(r) PROVE RestInv'
  <2>1. UNCHANGED <<accepted, offered>>
    BY <1>7 DEF StartBuild, history
  <2>2. \A q \in Requests : rest'[q] = rest[q] \/ rest'[q] = <<>>
    BY <1>7 DEF StartBuild, Finish, IInv, HandlerTypes
  <2> QED
    BY <2>1, <2>2, RestKept DEF IInv
<1>8. ASSUME NEW r \in Requests, StartBuildFails(r) PROVE RestInv'
  <2>1. UNCHANGED <<accepted, offered>>
    BY <1>8 DEF StartBuildFails, history
  <2>2. \A q \in Requests : rest'[q] = rest[q] \/ rest'[q] = <<>>
    BY <1>8 DEF StartBuildFails, Finish, IInv, HandlerTypes
  <2> QED
    BY <2>1, <2>2, RestKept DEF IInv
<1>9. ASSUME NEW r \in Requests, StopCancel(r) PROVE RestInv'
  <2>1. UNCHANGED <<accepted, offered>>
    BY <1>9 DEF StopCancel, history
  <2>2. \A q \in Requests : rest'[q] = rest[q] \/ rest'[q] = <<>>
    BY <1>9 DEF StopCancel, Finish, IInv, HandlerTypes
  <2> QED
    BY <2>1, <2>2, RestKept DEF IInv
<1>10. ASSUME NEW r \in Requests, StopScraper(r) PROVE RestInv'
  BY <1>10 DEF StopScraper, RestInv, IInv, handlers, history, Offered
<1>11. ASSUME NEW r \in Requests, StopClear(r) PROVE RestInv'
  <2>1. UNCHANGED <<accepted, offered>>
    BY <1>11 DEF StopClear, history
  <2>2. \A q \in Requests : rest'[q] = rest[q] \/ rest'[q] = <<>>
    BY <1>11 DEF StopClear, Finish, IInv, HandlerTypes
  <2> QED
    BY <2>1, <2>2, RestKept DEF IInv
<1>12. ASSUME NEW r \in Requests, AddSend(r) PROVE RestInv'
  <2> DEFINE e == Head(rest[r])
  <2>1. /\ rest[r] # <<>> /\ rest' = [rest EXCEPT ![r] = Tail(@)]
        /\ accepted' = accepted \cup {e} /\ offered' = offered
    BY <1>12 DEF AddSend
  <2>2. rest[r] \in Seq(Urls) /\ Distinct(rest[r])
    BY DEF IInv, HandlerTypes, RestInv
  <2>3. e \in Range(rest[r]) /\ Range(Tail(rest[r])) = Range(rest[r]) \ {e} /\ Distinct(Tail(rest[r]))
    BY <2>1, <2>2, TakeFirst
  <2> HIDE DEF e
  <2>4. \A q \in Requests : rest'[q] = IF q = r THEN Tail(rest[q]) ELSE rest[q]
    BY <2>1 DEF IInv, HandlerTypes
  <2>5. Offered' = Offered
    BY <2>1 DEF Offered
  <2>6. \A q \in Requests : Distinct(rest'[q]) /\ Range(rest'[q]) \subseteq Range(rest[q])
    BY <2>3, <2>4 DEF IInv, RestInv
  <2>7. \A q \in Requests : Apart(Range(rest'[q]), accepted \cup {e})
    BY <2>3, <2>4 DEF IInv, RestInv, Apart
  <2>8. \A p, q \in Requests : p # q => Apart(Range(rest'[p]), Range(rest'[q]))
    BY <2>6 DEF IInv, RestInv, Apart
  <2>9. accepted' \subseteq Offered
    BY <2>1, <2>3 DEF IInv, RestInv
  <2> QED
    BY <2>1, <2>5, <2>6, <2>7, <2>8, <2>9 DEF IInv, RestInv
<1>13. ASSUME NEW r \in Requests, AddReturns(r) PROVE RestInv'
  <2>1. UNCHANGED <<accepted, offered>>
    BY <1>13 DEF AddReturns, history
  <2>2. \A q \in Requests : rest'[q] = rest[q] \/ rest'[q] = <<>>
    BY <1>13 DEF AddReturns, Finish, IInv, HandlerTypes
  <2> QED
    BY <2>1, <2>2, RestKept DEF IInv
<1>14. ASSUME NEW s \in Sessions, CallPrepareChan(s) PROVE RestInv'
  BY <1>14 DEF CallPrepareChan, RestInv, IInv, handlers, history, Offered
<1>15. ASSUME NEW s \in Sessions, CallRun(s) PROVE RestInv'
  BY <1>15 DEF CallRun, RestInv, IInv, handlers, history, Offered
<1>16. ASSUME NEW s \in Sessions, RunFails(s) PROVE RestInv'
  BY <1>16 DEF RunFails, RestInv, IInv, handlers, history, Offered
<1>17. ASSUME NEW s \in Sessions, Dispatch(s) PROVE RestInv'
  BY <1>17 DEF Dispatch, RestInv, IInv, handlers, history, Offered
<1>18. ASSUME NEW s \in Sessions, RunEnds(s) PROVE RestInv'
  BY <1>18 DEF RunEnds, RestInv, IInv, handlers, history, Offered
<1>19. ASSUME NEW s \in Sessions, PrepareTake(s) PROVE RestInv'
  BY <1>19 DEF PrepareTake, RestInv, IInv, handlers, history, Offered
<1>20. ASSUME NEW s \in Sessions, PrepareReject(s) PROVE RestInv'
  BY <1>20 DEF PrepareReject, RestInv, IInv, handlers, history, Offered
<1>21. ASSUME NEW s \in Sessions, PrepareReturn(s) PROVE RestInv'
  BY <1>21 DEF PrepareReturn, RestInv, IInv, handlers, history, Offered
<1>22. ASSUME NEW s \in Sessions, NilContext(s) PROVE RestInv'
  BY <1>22 DEF NilContext, RestInv, IInv, handlers, history, Offered
<1>23. CASE Signal
  BY <1>23 DEF Signal, others, IInv, handlers, history, Offered, RestInv
<1>24. CASE CloseComplCh
  BY <1>24 DEF CloseComplCh, others, IInv, handlers, history, Offered, RestInv
<1>25. CASE Exit
  BY <1>25 DEF Exit, others, IInv, handlers, history, Offered, RestInv
<1>26. CASE UNCHANGED vars
  BY <1>26 DEF vars, fields, sessions, handlers, launches, flow, bounds, history,
     IInv, Offered, RestInv
<1> QED
  BY <1>1, <1>2, <1>3, <1>4, <1>5, <1>6, <1>7, <1>8, <1>9, <1>10, <1>11, <1>12, <1>13,
     <1>14, <1>15, <1>16, <1>17, <1>18, <1>19, <1>20, <1>21, <1>22, <1>23, <1>24,
     <1>25, <1>26 DEF Next, Step, HandlerStep, LaunchStep, PrepareStep, ProcessStep

\* Every step keeps each accepted URL in one place.
LEMMA PlaceInvStep ==
    ASSUME IInv, [Next]_vars
    PROVE  PlaceInv'
<1>1. ASSUME NEW r \in Requests, BeginStart(r) PROVE PlaceInv'
  BY <1>1 DEF BeginStart, PlaceInv, IInv, flow, history
<1>2. ASSUME NEW r \in Requests, BeginStop(r) PROVE PlaceInv'
  BY <1>2 DEF BeginStop, PlaceInv, IInv, flow, history
<1>3. ASSUME NEW r \in Requests, BeginAdd(r) PROVE PlaceInv'
  <2>1. UNCHANGED <<complCh, out, accepted, submitted, unparsed>>
    BY <1>3 DEF BeginAdd, flow
  <2> QED
    BY <2>1 DEF IInv, PlaceInv
<1>4. ASSUME NEW r \in Requests, IsRunningDone(r) PROVE PlaceInv'
  BY <1>4 DEF IsRunningDone, PlaceInv, IInv, flow, history
<1>5. ASSUME NEW r \in Requests, StartCtx(r) PROVE PlaceInv'
  BY <1>5 DEF StartCtx, PlaceInv, IInv, flow, history
<1>6. ASSUME NEW r \in Requests, StartController(r) PROVE PlaceInv'
  BY <1>6 DEF StartController, PlaceInv, IInv, flow, history
<1>7. ASSUME NEW r \in Requests, StartBuild(r) PROVE PlaceInv'
  BY <1>7 DEF StartBuild, PlaceInv, IInv, flow, history
<1>8. ASSUME NEW r \in Requests, StartBuildFails(r) PROVE PlaceInv'
  BY <1>8 DEF StartBuildFails, PlaceInv, IInv, flow, history
<1>9. ASSUME NEW r \in Requests, StopCancel(r) PROVE PlaceInv'
  BY <1>9 DEF StopCancel, PlaceInv, IInv, flow, history
<1>10. ASSUME NEW r \in Requests, StopScraper(r) PROVE PlaceInv'
  BY <1>10 DEF StopScraper, PlaceInv, IInv, flow, history
<1>11. ASSUME NEW r \in Requests, StopClear(r) PROVE PlaceInv'
  BY <1>11 DEF StopClear, PlaceInv, IInv, flow, history
<1>12. ASSUME NEW r \in Requests, AddSend(r) PROVE PlaceInv'
  <2> DEFINE e == Head(rest[r])
  <2>1. /\ rest[r] # <<>> /\ complCh' = Append(complCh, e) /\ accepted' = accepted \cup {e}
        /\ UNCHANGED <<out, submitted, unparsed>>
    BY <1>12 DEF AddSend, flow
  <2>2. rest[r] \in Seq(Urls) /\ Distinct(rest[r]) /\ complCh \in Seq(Urls) /\ Distinct(complCh)
    BY DEF IInv, HandlerTypes, FlowTypes, RestInv, PlaceInv
  <2>3. e \in Range(rest[r]) /\ e \in Urls
    BY <2>1, <2>2, TakeFirst, HeadTailProperties
  <2>4. e \notin accepted
    BY <2>3 DEF IInv, RestInv, Apart
  <2> HIDE DEF e
  <2>5. /\ e \notin Range(complCh) /\ e \notin submitted \cup unparsed
        /\ \A s \in Sessions : e \notin Range(out[s])
    BY <2>4 DEF IInv, PlaceInv
  <2>6. Range(complCh') = Range(complCh) \cup {e} /\ Distinct(complCh')
    BY <2>1, <2>2, <2>3, <2>5, PutLast
  <2> QED
    BY <2>1, <2>5, <2>6 DEF IInv, PlaceInv, Apart
<1>13. ASSUME NEW r \in Requests, AddReturns(r) PROVE PlaceInv'
  BY <1>13 DEF AddReturns, PlaceInv, IInv, flow, history
<1>14. ASSUME NEW s \in Sessions, CallPrepareChan(s) PROVE PlaceInv'
  BY <1>14 DEF CallPrepareChan, IInv, history, PlaceInv
<1>15. ASSUME NEW s \in Sessions, CallRun(s) PROVE PlaceInv'
  BY <1>15 DEF CallRun, PlaceInv, IInv, flow, history
<1>16. ASSUME NEW s \in Sessions, RunFails(s) PROVE PlaceInv'
  BY <1>16 DEF RunFails, PlaceInv, IInv, flow, history
<1>17. ASSUME NEW s \in Sessions, Dispatch(s) PROVE PlaceInv'
  <2> DEFINE e == Head(out[s])
  <2>1. /\ out[s] # <<>> /\ out' = [out EXCEPT ![s] = Tail(@)] /\ submitted' = submitted \cup {e}
        /\ UNCHANGED <<complCh, unparsed, accepted>>
    BY <1>17 DEF Dispatch
  <2>2. out[s] \in Seq(Urls) /\ Distinct(out[s])
    BY DEF IInv, FlowTypes, PlaceInv
  <2>3. e \in Range(out[s]) /\ Range(Tail(out[s])) = Range(out[s]) \ {e} /\ Distinct(Tail(out[s]))
    BY <2>1, <2>2, TakeFirst
  <2> HIDE DEF e
  <2>4. \A t \in Sessions : out'[t] = IF t = s THEN Tail(out[s]) ELSE out[t]
    BY <2>1 DEF IInv, FlowTypes
  <2>5. \A t \in Sessions : /\ Distinct(out'[t]) /\ Range(out'[t]) \subseteq Range(out[t])
                            /\ e \notin Range(out'[t])
    BY <2>3, <2>4 DEF IInv, PlaceInv, Apart
  <2>6. e \notin unparsed /\ e \notin Range(complCh)
    BY <2>3 DEF IInv, PlaceInv, Apart
  <2>7. UNION {Range(out[t]) : t \in Sessions} = {e} \cup UNION {Range(out'[t]) : t \in Sessions}
    BY <2>3, <2>4, <2>5
  <2>8. \A t \in Sessions : Apart(Range(out'[t]), submitted' \cup unparsed)
    BY <2>1, <2>5 DEF IInv, PlaceInv, Apart
  <2>9. \A t \in Sessions : Apart(Range(out'[t]), Range(complCh))
    BY <2>5 DEF IInv, PlaceInv, Apart
  <2>10. \A t, v \in Sessions : t # v => Apart(Range(out'[t]), Range(out'[v]))
    BY <2>5 DEF IInv, PlaceInv, Apart
  <2>11. Apart(submitted', unparsed) /\ Apart(Range(complCh), submitted' \cup unparsed)
    BY <2>1, <2>6 DEF IInv, PlaceInv, Apart
  <2>12. accepted = Range(complCh) \cup submitted' \cup unparsed
                      \cup UNION {Range(out'[t]) : t \in Sessions}
    BY <2>1, <2>7 DEF IInv, PlaceInv
  <2> QED
    BY <2>1, <2>5, <2>8, <2>9, <2>10, <2>11, <2>12 DEF IInv, PlaceInv
<1>18. ASSUME NEW s \in Sessions, RunEnds(s) PROVE PlaceInv'
  BY <1>18 DEF RunEnds, PlaceInv, IInv, flow, history
<1>19. ASSUME NEW s \in Sessions, PrepareTake(s) PROVE PlaceInv'
  <2> DEFINE e == Head(complCh)
  <2>1. /\ complCh # <<>> /\ complCh' = Tail(complCh)
        /\ out' = [out EXCEPT ![s] = Append(@, e)]
        /\ UNCHANGED <<submitted, unparsed, accepted>>
    BY <1>19 DEF PrepareTake, history, flow
  <2>2. complCh \in Seq(Urls) /\ Distinct(complCh)
    BY DEF IInv, FlowTypes, PlaceInv
  <2>3. /\ e \in Range(complCh) /\ e \in Urls
        /\ Range(complCh') = Range(complCh) \ {e} /\ Distinct(complCh')
    BY <2>1, <2>2, TakeFirst, HeadTailProperties
  <2> HIDE DEF e
  <2>4. /\ e \notin submitted \cup unparsed
        /\ \A t \in Sessions : e \notin Range(out[t])
    BY <2>3 DEF IInv, PlaceInv, Apart
  <2>5. out[s] \in Seq(Urls) /\ Distinct(out[s])
    BY DEF IInv, FlowTypes, PlaceInv
  <2>6. Range(Append(out[s], e)) = Range(out[s]) \cup {e} /\ Distinct(Append(out[s], e))
    BY <2>3, <2>4, <2>5, PutLast
  <2>7. \A t \in Sessions : out'[t] = IF t = s THEN Append(out[s], e) ELSE out[t]
    BY <2>1 DEF IInv, FlowTypes
  <2>8. /\ \A t \in Sessions : Distinct(out'[t])
        /\ Range(out'[s]) = Range(out[s]) \cup {e}
        /\ \A t \in Sessions \ {s} : Range(out'[t]) = Range(out[t])
    BY <2>6, <2>7 DEF IInv, PlaceInv
  <2>9. UNION {Range(out'[t]) : t \in Sessions} = {e} \cup UNION {Range(out[t]) : t \in Sessions}
    BY <2>8
  <2>10. \A t \in Sessions : Apart(Range(out'[t]), submitted \cup unparsed)
    BY <2>4, <2>8 DEF IInv, PlaceInv, Apart
  <2>11. \A t \in Sessions : Apart(Range(out'[t]), Range(complCh'))
    BY <2>3, <2>4, <2>8 DEF IInv, PlaceInv, Apart
  <2>12. \A t, v \in Sessions : t # v => Apart(Range(out'[t]), Range(out'[v]))
    BY <2>4, <2>8 DEF IInv, PlaceInv, Apart
  <2>13. Apart(Range(complCh'), submitted \cup unparsed)
    BY <2>3 DEF IInv, PlaceInv, Apart
  <2>14. accepted = Range(complCh') \cup submitted \cup unparsed
                      \cup UNION {Range(out'[t]) : t \in Sessions}
    BY <2>3, <2>9 DEF IInv, PlaceInv
  <2> QED
    BY <2>1, <2>3, <2>8, <2>10, <2>11, <2>12, <2>13, <2>14 DEF IInv, PlaceInv
<1>20. ASSUME NEW s \in Sessions, PrepareReject(s) PROVE PlaceInv'
  <2> DEFINE e == Head(complCh)
  <2>1. /\ complCh # <<>> /\ complCh' = Tail(complCh)
        /\ unparsed' = unparsed \cup {e} /\ UNCHANGED <<submitted, accepted, out>>
    BY <1>20 DEF PrepareReject, history, flow
  <2>2. complCh \in Seq(Urls) /\ Distinct(complCh)
    BY DEF IInv, FlowTypes, PlaceInv
  <2>3. /\ e \in Range(complCh) /\ e \in Urls
        /\ Range(complCh') = Range(complCh) \ {e} /\ Distinct(complCh')
    BY <2>1, <2>2, TakeFirst, HeadTailProperties
  <2> HIDE DEF e
  <2>4. /\ e \notin submitted \cup unparsed
        /\ \A t \in Sessions : e \notin Range(out[t])
    BY <2>3 DEF IInv, PlaceInv, Apart
  <2> QED
    BY <2>1, <2>3, <2>4 DEF IInv, PlaceInv, Apart
<1>21. ASSUME NEW s \in Sessions, PrepareReturn(s) PROVE PlaceInv'
  BY <1>21 DEF PrepareReturn, IInv, history, PlaceInv
<1>22. ASSUME NEW s \in Sessions, NilContext(s) PROVE PlaceInv'
  BY <1>22 DEF NilContext, PlaceInv, IInv, flow, history
<1>23. CASE Signal
  BY <1>23 DEF Signal, others, IInv, flow, history, PlaceInv
<1>24. CASE CloseComplCh
  BY <1>24 DEF CloseComplCh, others, IInv, flow, history, PlaceInv
<1>25. CASE Exit
  BY <1>25 DEF Exit, others, IInv, flow, history, PlaceInv
<1>26. CASE UNCHANGED vars
  BY <1>26 DEF vars, fields, sessions, handlers, launches, flow, bounds, history,
     IInv, PlaceInv
<1> QED
  BY <1>1, <1>2, <1>3, <1>4, <1>5, <1>6, <1>7, <1>8, <1>9, <1>10, <1>11, <1>12, <1>13,
     <1>14, <1>15, <1>16, <1>17, <1>18, <1>19, <1>20, <1>21, <1>22, <1>23, <1>24,
     <1>25, <1>26 DEF Next, Step, HandlerStep, LaunchStep, PrepareStep, ProcessStep

-----------------------------------------------------------------------------
(* A single start or stop                                                  *)

\* Every step keeps a single start or stop alone, until one meets another.
LEMMA SoloInvStep ==
    ASSUME IInv, [Next]_vars
    PROVE  SoloInv'
<1>1. ASSUME NEW r \in Requests, BeginStart(r) PROVE SoloInv'
  <2> SUFFICES ASSUME ~raced' PROVE Solo'
    BY DEF SoloInv
  <2>1. Solo /\ ~raced
    BY <1>1 DEF BeginStart, Begin, Goto, Contended, fields, sessions, handlers,
       launches, flow, IInv, SoloInv
  <2>2. main' # "panicked" /\ Alone'
    <3>1. UNCHANGED <<main, launch>> /\ (r \in Controlling' => ~Contended)
      BY <1>1, <2>1 DEF BeginStart, Begin, Goto, launches, IInv, Controlling,
         HandlerTypes
    <3>2. \A q \in Requests : q # r => at'[q] = at[q] /\ op'[q] = op[q]
      BY <1>1 DEF BeginStart, Begin, Goto, launches, IInv, HandlerTypes
    <3>3. Controlling' \subseteq Controlling \cup {r} /\ Unread' = Unread
      BY <3>1, <3>2 DEF Controlling, Unread
    <3> QED
      BY <2>1, <3>1, <3>3 DEF Solo, Alone, Contended
  <2>3. StartInv'
    BY <1>1, <2>1, Constants DEF BeginStart, Begin, Goto, Contended, fields, sessions,
       handlers, launches, flow, IInv, FieldTypes, HandlerTypes, LaunchTypes,
       SessionOrNone, Solo, StartInv, NoneLive, Live, Done, outer, Alone,
       Controlling, Unread, LaunchInv, Settled, OpInv, Fresh
  <2>4. Fresh'
    BY <1>1, <2>1, Constants DEF BeginStart, Begin, Goto, Contended, fields, sessions,
       handlers, launches, flow, IInv, FieldTypes, HandlerTypes, LaunchTypes,
       SessionOrNone, Solo, Fresh, StartInv
  <2>5. LaunchInv'
    BY <1>1, <2>1, Constants DEF BeginStart, Begin, Goto, Contended, fields, sessions,
       handlers, launches, flow, IInv, FieldTypes, HandlerTypes, LaunchTypes,
       SessionOrNone, Solo, LaunchInv, Unread, Live, Done, outer, Over, StartInv,
       NoneLive, Fresh
  <2>6. Settled'
    BY <1>1, <2>1, Constants DEF BeginStart, Begin, Goto, Contended, fields, sessions,
       handlers, launches, flow, IInv, FieldTypes, HandlerTypes, LaunchTypes,
       SessionOrNone, Solo, Settled, Controlling, Unread, StartInv, LaunchInv,
       OpInv, Alone
  <2> QED
    BY <2>2, <2>3, <2>4, <2>5, <2>6 DEF Solo
<1>2. ASSUME NEW r \in Requests, BeginStop(r) PROVE SoloInv'
  <2> SUFFICES ASSUME ~raced' PROVE Solo'
    BY DEF SoloInv
  <2>1. Solo /\ ~raced
    BY <1>2 DEF BeginStop, Begin, Goto, Contended, fields, sessions, handlers,
       launches, flow, IInv, SoloInv
  <2>2. main' # "panicked" /\ Alone'
    BY <1>2, <2>1, Constants DEF BeginStop, Begin, Goto, Contended, fields, sessions,
       handlers, launches, flow, IInv, FieldTypes, HandlerTypes, LaunchTypes,
       SessionOrNone, Solo, Alone, Controlling, Unread, OpInv
  <2>3. StartInv'
    BY <1>2, <2>1, Constants DEF BeginStop, Begin, Goto, Contended, fields, sessions,
       handlers, launches, flow, IInv, FieldTypes, HandlerTypes, LaunchTypes,
       SessionOrNone, Solo, StartInv, NoneLive, Live, Done, outer, Alone,
       Controlling, Unread, LaunchInv, Settled, OpInv, Fresh
  <2>4. Fresh'
    BY <1>2, <2>1, Constants DEF BeginStop, Begin, Goto, Contended, fields, sessions,
       handlers, launches, flow, IInv, FieldTypes, HandlerTypes, LaunchTypes,
       SessionOrNone, Solo, Fresh, StartInv
  <2>5. LaunchInv'
    BY <1>2, <2>1, Constants DEF BeginStop, Begin, Goto, Contended, fields, sessions,
       handlers, launches, flow, IInv, FieldTypes, HandlerTypes, LaunchTypes,
       SessionOrNone, Solo, LaunchInv, Unread, Live, Done, outer, Over, StartInv,
       NoneLive, Fresh
  <2>6. Settled'
    BY <1>2, <2>1, Constants DEF BeginStop, Begin, Goto, Contended, fields, sessions,
       handlers, launches, flow, IInv, FieldTypes, HandlerTypes, LaunchTypes,
       SessionOrNone, Solo, Settled, Controlling, Unread, StartInv, LaunchInv,
       OpInv, Alone
  <2> QED
    BY <2>2, <2>3, <2>4, <2>5, <2>6 DEF Solo
<1>3. ASSUME NEW r \in Requests, BeginAdd(r) PROVE SoloInv'
  <2> SUFFICES ASSUME ~raced' PROVE Solo'
    BY DEF SoloInv
  <2>1. Solo /\ ~raced
    BY <1>3 DEF BeginAdd, Begin, Goto, Contended, fields, sessions, handlers,
       launches, flow, IInv, SoloInv
  <2>2. main' # "panicked" /\ Alone'
    BY <1>3, <2>1, Constants DEF BeginAdd, Begin, Goto, Contended, fields, sessions,
       handlers, launches, flow, IInv, FieldTypes, HandlerTypes, LaunchTypes,
       SessionOrNone, Solo, Alone, Controlling, Unread, OpInv
  <2>3. StartInv'
    BY <1>3, <2>1, Constants DEF BeginAdd, Begin, Goto, Contended, fields, sessions,
       handlers, launches, flow, IInv, FieldTypes, HandlerTypes, LaunchTypes,
       SessionOrNone, Solo, StartInv, NoneLive, Live, Done, outer, Alone,
       Controlling, Unread, LaunchInv, Settled, OpInv, Fresh
  <2>4. Fresh'
    BY <1>3, <2>1, Constants DEF BeginAdd, Begin, Goto, Contended, fields, sessions,
       handlers, launches, flow, IInv, FieldTypes, HandlerTypes, LaunchTypes,
       SessionOrNone, Solo, Fresh, StartInv
  <2>5. LaunchInv'
    BY <1>3, <2>1, Constants DEF BeginAdd, Begin, Goto, Contended, fields, sessions,
       handlers, launches, flow, IInv, FieldTypes, HandlerTypes, LaunchTypes,
       SessionOrNone, Solo, LaunchInv, Unread, Live, Done, outer, Over, StartInv,
       NoneLive, Fresh
  <2>6. Settled'
    BY <1>3, <2>1, Constants DEF BeginAdd, Begin, Goto, Contended, fields, sessions,
       handlers, launches, flow, IInv, FieldTypes, HandlerTypes, LaunchTypes,
       SessionOrNone, Solo, Settled, Controlling, Unread, StartInv, LaunchInv,
       OpInv, Alone
  <2> QED
    BY <2>2, <2>3, <2>4, <2>5, <2>6 DEF Solo
<1>4. ASSUME NEW r \in Requests, IsRunningDone(r) PROVE SoloInv'
  <2> SUFFICES ASSUME ~raced' PROVE Solo'
    BY DEF SoloInv
  <2>1. Solo /\ ~raced
    BY <1>4 DEF IsRunningDone, Finish, Answer, First, Goto, Contended, fields,
       sessions, launches, flow, IInv, SoloInv
  <2>2. main' # "panicked" /\ Alone'
    <3>1. UNCHANGED <<main, launch>> /\ (r \in Controlling' => ~Contended)
      BY <1>4, <2>1 DEF IsRunningDone, Finish, Answer, First, Goto, launches, IInv,
         Controlling, HandlerTypes
    <3>2. \A q \in Requests : q # r => at'[q] = at[q] /\ op'[q] = op[q]
      BY <1>4 DEF IsRunningDone, Finish, Answer, First, Goto, launches, IInv,
         HandlerTypes
    <3>3. Controlling' \subseteq Controlling \cup {r} /\ Unread' = Unread
      BY <3>1, <3>2 DEF Controlling, Unread
    <3> QED
      BY <2>1, <3>1, <3>3 DEF Solo, Alone, Contended
  <2>3. StartInv'
    <3>1. UNCHANGED <<main, innerCtx, controller, made, canceled, launch>>
      BY <1>4 DEF IsRunningDone, fields, sessions, launches
    <3>2. \A q \in Requests : q # r => at'[q] = at[q] /\ own'[q] = own[q]
      BY <1>4 DEF IsRunningDone, Finish, Answer, Goto, IInv, HandlerTypes
    <3>3. CASE Finish(r)
      <4>1. at'[r] = "idle"
        BY <3>3 DEF Finish, Goto, IInv, HandlerTypes
      <4>2. NoneLive' <=> NoneLive
        BY <3>1 DEF NoneLive, Live, Done, outer
      <4> QED
        BY <2>1, <3>1, <3>2, <4>1, <4>2 DEF Solo, StartInv
    <3>4. CASE innerCtx # None /\ Answer(r, ~Done(innerCtx)) /\ ~Finish(r)
      <4>1. /\ at'[r] = First[op[r]] /\ op[r] \in {"start", "stop", "add"}
            /\ op[r] = "start" => Done(innerCtx)
        BY <1>4, <3>4 DEF IsRunningDone, Answer, Goto, IInv, HandlerTypes,
           Operations, OpInv
      <4>2. op[r] # "add" => ~Contended
        BY <2>1, <3>4 DEF Answer
      <4>3. at'[r] \in {"ctx", "cancel", "send"}
        BY <4>1 DEF First
      <4>4. at'[r] = "ctx" => op[r] = "start"
        BY <4>1 DEF First
      <4>5. at'[r] = "cancel" => op[r] # "add"
        BY <4>1 DEF First
      <4>6. at'[r] = "ctx" => NoneLive
        BY <2>1, <4>1, <4>2, <4>4 DEF NoneLive, Solo, LaunchInv, Live
      <4>7. at'[r] = "cancel" => controller = innerCtx
        BY <2>1, <3>4, <4>2, <4>5 DEF Solo, Settled, Contended
      <4>8. NoneLive' <=> NoneLive
        BY <3>1 DEF NoneLive, Live, Done, outer
      <4> QED
        BY <2>1, <3>1, <3>2, <3>4, <4>3, <4>6, <4>7, <4>8 DEF Solo, StartInv
    <3> QED
      BY <1>4, <3>3, <3>4 DEF IsRunningDone
  <2>4. Fresh'
    BY <1>4, <2>1, Constants DEF IsRunningDone, Finish, Answer, First, Goto,
       Contended, fields, sessions, launches, flow, IInv, FieldTypes, HandlerTypes,
       LaunchTypes, SessionOrNone, Solo, Fresh, StartInv
  <2>5. LaunchInv'
    BY <1>4, <2>1, Constants DEF IsRunningDone, Finish, Answer, First, Goto,
       Contended, fields, sessions, launches, flow, IInv, FieldTypes, HandlerTypes,
       LaunchTypes, SessionOrNone, Solo, LaunchInv, Unread, Live, Done, outer, Over,
       StartInv, NoneLive, Fresh
  <2>6. Settled'
    <3>1. UNCHANGED <<innerCtx, controller, launch>>
      BY <1>4 DEF IsRunningDone, fields, launches
    <3>2. r \notin Controlling
      BY <1>4 DEF IsRunningDone, Controlling
    <3>3. \A q \in Requests : q # r => at'[q] = at[q] /\ op'[q] = op[q]
      BY <1>4 DEF IsRunningDone, Finish, Answer, Goto, IInv, HandlerTypes
    <3>4. Controlling' = {} => Controlling = {}
      BY <3>2, <3>3 DEF Controlling
    <3> QED
      BY <2>1, <3>1, <3>4 DEF Solo, Settled
  <2> QED
    BY <2>2, <2>3, <2>4, <2>5, <2>6 DEF Solo
<1>5. ASSUME NEW r \in Requests, StartCtx(r) PROVE SoloInv'
  <2> SUFFICES ASSUME ~raced' PROVE Solo'
    BY DEF SoloInv
  <2>1. Solo /\ ~raced
    BY <1>5 DEF StartCtx, Goto, launches, flow, IInv, SoloInv
  <2>c. /\ r \in Controlling /\ Unread = {}
        /\ \A q \in Requests : q # r => at[q] \in {"idle", "done", "send"}
    BY <1>5, <2>1 DEF StartCtx, IInv, OpInv, HandlerTypes, Solo, Alone, Controlling,
       HandlerLabels
  <2>o. \A q \in Requests : q # r => at'[q] = at[q]
    BY <1>5 DEF StartCtx, Goto, IInv, HandlerTypes
  <2>n. /\ made' = made + 1 /\ innerCtx' = made' /\ own'[r] = made' /\ at'[r] = "controller"
        /\ UNCHANGED <<controller, scraper, main, canceled, ctxOf, stopped, launch, prep, ran,
                       preparing>>
    BY <1>5 DEF StartCtx, Goto, IInv, HandlerTypes, launches, flow
  <2>s. made' \in Sessions /\ made' # None /\ launch[made'] = "none" /\ NoneLive
    <3>1. made + 1 \in Sessions
      BY <1>5, ContextNumber DEF StartCtx, IInv, OpInv, Pending
    <3>2. made \in Nat
      BY Constants DEF IInv, FieldTypes, SessionOrNone, None
    <3>3. launch[made + 1] = "none"
      BY <2>1, <3>1, <3>2 DEF Solo, Fresh
    <3>4. NoneLive
      BY <1>5, <2>1 DEF StartCtx, Solo, StartInv
    <3> QED
      BY <2>n, <3>1, <3>3, <3>4, Constants
  <2>l. NoneLive'
    BY <2>n, <2>s DEF NoneLive, Live, Done, outer
  <2>2. main' # "panicked" /\ Alone'
    BY <1>5, <2>1, Constants DEF StartCtx, Goto, launches, flow, IInv, FieldTypes,
       HandlerTypes, LaunchTypes, SessionOrNone, Solo, Alone, Controlling, Unread,
       OpInv
  <2>3. StartInv'
    BY <2>c, <2>o, <2>n, <2>s, <2>l DEF StartInv
  <2>4. Fresh'
    BY <1>5, <2>1, Constants DEF StartCtx, Goto, launches, flow, IInv, FieldTypes,
       HandlerTypes, LaunchTypes, SessionOrNone, Solo, Fresh, StartInv
  <2>5. LaunchInv'
    <3>1. Unread' = {}
      BY <2>c, <2>n DEF Unread
    <3>2. \A q \in Sessions : ~Live(q)' /\ (Done(q)' <=> Done(q))
      BY <2>n, <2>l DEF NoneLive, Done, outer
    <3> QED
      BY <2>1, <2>n, <2>c, <3>1, <3>2 DEF Solo, LaunchInv
  <2>6. Settled'
    BY <1>5, <2>1, Constants DEF StartCtx, Goto, launches, flow, IInv, FieldTypes,
       HandlerTypes, LaunchTypes, SessionOrNone, Solo, Settled, Controlling, Unread,
       StartInv, LaunchInv, OpInv, Alone
  <2> QED
    BY <2>2, <2>3, <2>4, <2>5, <2>6 DEF Solo
<1>6. ASSUME NEW r \in Requests, StartController(r) PROVE SoloInv'
  <2> SUFFICES ASSUME ~raced' PROVE Solo'
    BY DEF SoloInv
  <2>1. Solo /\ ~raced
    BY <1>6 DEF StartController, Goto, sessions, launches, flow, IInv, SoloInv
  <2>2. main' # "panicked" /\ Alone'
    BY <1>6, <2>1, Constants DEF StartController, Goto, sessions, launches, flow,
       IInv, FieldTypes, HandlerTypes, LaunchTypes, SessionOrNone, Solo, Alone,
       Controlling, Unread, OpInv
  <2>3. StartInv'
    BY <1>6, <2>1, Constants DEF StartController, Goto, sessions, launches, flow,
       IInv, FieldTypes, HandlerTypes, LaunchTypes, SessionOrNone, Solo, StartInv,
       NoneLive, Live, Done, outer, Alone, Controlling, Unread, LaunchInv, Settled,
       OpInv, Fresh
  <2>4. Fresh'
    BY <1>6, <2>1, Constants DEF StartController, Goto, sessions, launches, flow,
       IInv, FieldTypes, HandlerTypes, LaunchTypes, SessionOrNone, Solo, Fresh,
       StartInv
  <2>5. LaunchInv'
    BY <1>6, <2>1, Constants DEF StartController, Goto, sessions, launches, flow,
       IInv, FieldTypes, HandlerTypes, LaunchTypes, SessionOrNone, Solo, LaunchInv,
       Unread, Live, Done, outer, Over, StartInv, NoneLive, Fresh
  <2>6. Settled'
    BY <1>6, <2>1, Constants DEF StartController, Goto, sessions, launches, flow,
       IInv, FieldTypes, HandlerTypes, LaunchTypes, SessionOrNone, Solo, Settled,
       Controlling, Unread, StartInv, LaunchInv, OpInv, Alone
  <2> QED
    BY <2>2, <2>3, <2>4, <2>5, <2>6 DEF Solo
<1>7. ASSUME NEW r \in Requests, StartBuild(r) PROVE SoloInv'
  <2> SUFFICES ASSUME ~raced' PROVE Solo'
    BY DEF SoloInv
  <2>1. Solo /\ ~raced
    BY <1>7 DEF StartBuild, Goto, Finish, flow, IInv, SoloInv
  <2>c. /\ r \in Controlling /\ Unread = {}
        /\ \A q \in Requests : q # r => at[q] \in {"idle", "done", "send"}
    BY <1>7, <2>1 DEF StartBuild, IInv, OpInv, HandlerTypes, Solo, Alone, Controlling,
       HandlerLabels
  <2>o. \A q \in Requests : q # r => at'[q] = at[q]
    BY <1>7 DEF StartBuild, Finish, Goto, IInv, HandlerTypes
  <2>n. /\ own[r] = made /\ innerCtx = made /\ controller = made /\ launch[made] = "none"
        /\ made \in Sessions /\ NoneLive
    BY <1>7, <2>1 DEF StartBuild, Solo, StartInv, IInv, FieldTypes, SessionOrNone
  <2>s. /\ at'[r] = "idle" /\ scraper' = made /\ ctxOf' = [ctxOf EXCEPT ![made] = made]
        /\ launch' = [launch EXCEPT ![made] = "launched"]
        /\ UNCHANGED <<innerCtx, controller, main, made, canceled, stopped, prep, ran, preparing>>
    BY <1>7, <2>n DEF StartBuild, Finish, Goto, IInv, HandlerTypes, flow
  <2>u. Controlling' = {} /\ Unread' = {made}
    <3>1. \A q \in Requests : at'[q] \in {"idle", "done", "send"}
      BY <2>c, <2>o, <2>s
    <3>2. \A q \in Requests : q # r => op'[q] = op[q]
      BY <1>7 DEF StartBuild, Finish, IInv, HandlerTypes
    <3>3. \A q \in Requests : at[q] = "send" => op[q] = "add"
      BY DEF IInv, OpInv
    <3>4. Controlling' = {}
      BY <2>o, <2>s, <3>1, <3>2, <3>3 DEF Controlling
    <3>5. \A q \in Sessions : launch'[q] = IF q = made THEN "launched" ELSE launch[q]
      BY <2>n, <2>s DEF IInv, LaunchTypes
    <3>6. Unread' = {made}
      BY <2>c, <2>n, <3>5 DEF Unread
    <3> QED
      BY <3>4, <3>6
  <2>2. main' # "panicked" /\ Alone'
    BY <2>1, <2>s, <2>u DEF Solo, Alone
  <2>3. StartInv'
    BY <2>c, <2>o, <2>s DEF StartInv
  <2>4. Fresh'
    BY <1>7, <2>1, Constants DEF StartBuild, Goto, Finish, flow, IInv, FieldTypes,
       HandlerTypes, LaunchTypes, SessionOrNone, Solo, Fresh, StartInv
  <2>5. LaunchInv'
    BY <1>7, <2>1, Constants DEF StartBuild, Goto, Finish, flow, IInv, FieldTypes,
       HandlerTypes, LaunchTypes, SessionOrNone, Solo, LaunchInv, Unread, Live,
       Done, outer, Over, StartInv, NoneLive, Fresh
  <2>6. Settled'
    BY <1>7, <2>1, Constants DEF StartBuild, Goto, Finish, flow, IInv, FieldTypes,
       HandlerTypes, LaunchTypes, SessionOrNone, Solo, Settled, Controlling, Unread,
       StartInv, LaunchInv, OpInv, Alone
  <2> QED
    BY <2>2, <2>3, <2>4, <2>5, <2>6 DEF Solo
<1>8. ASSUME NEW r \in Requests, StartBuildFails(r) PROVE SoloInv'
  <2> SUFFICES ASSUME ~raced' PROVE Solo'
    BY DEF SoloInv
  <2>1. Solo /\ ~raced
    BY <1>8 DEF StartBuildFails, Goto, Finish, sessions, flow, IInv, SoloInv
  <2>c. /\ r \in Controlling /\ Unread = {}
        /\ \A q \in Requests : q # r => at[q] \in {"idle", "done", "send"}
    BY <1>8, <2>1 DEF StartBuildFails, IInv, OpInv, HandlerTypes, Solo, Alone,
       Controlling, HandlerLabels
  <2>o. \A q \in Requests : q # r => at'[q] = at[q]
    BY <1>8 DEF StartBuildFails, Finish, Goto, IInv, HandlerTypes
  <2>2. main' # "panicked" /\ Alone'
    BY <1>8, <2>1, Constants DEF StartBuildFails, Goto, Finish, sessions, flow, IInv,
       FieldTypes, HandlerTypes, LaunchTypes, SessionOrNone, Solo, Alone,
       Controlling, Unread, OpInv
  <2>3. StartInv'
    <3>1. at'[r] = "idle"
      BY <1>8 DEF StartBuildFails, Finish, Goto, IInv, HandlerTypes
    <3> QED
      BY <2>c, <2>o, <3>1 DEF StartInv
  <2>4. Fresh'
    BY <1>8, <2>1, Constants DEF StartBuildFails, Goto, Finish, sessions, flow, IInv,
       FieldTypes, HandlerTypes, LaunchTypes, SessionOrNone, Solo, Fresh, StartInv
  <2>5. LaunchInv'
    BY <1>8, <2>1, Constants DEF StartBuildFails, Goto, Finish, sessions, flow, IInv,
       FieldTypes, HandlerTypes, LaunchTypes, SessionOrNone, Solo, LaunchInv,
       Unread, Live, Done, outer, Over, StartInv, NoneLive, Fresh
  <2>6. Settled'
    BY <1>8, <2>1, Constants DEF StartBuildFails, Goto, Finish, sessions, flow, IInv,
       FieldTypes, HandlerTypes, LaunchTypes, SessionOrNone, Solo, Settled,
       Controlling, Unread, StartInv, LaunchInv, OpInv, Alone
  <2> QED
    BY <2>2, <2>3, <2>4, <2>5, <2>6 DEF Solo
<1>9. ASSUME NEW r \in Requests, StopCancel(r) PROVE SoloInv'
  <2> SUFFICES ASSUME ~raced' PROVE Solo'
    BY DEF SoloInv
  <2>1. Solo /\ ~raced
    BY <1>9 DEF StopCancel, Goto, Finish, fields, launches, flow, IInv, SoloInv
  <2>2. main' # "panicked" /\ Alone'
    <3>1. Controlling' \subseteq Controlling /\ UNCHANGED <<main, launch>>
      BY <1>9 DEF StopCancel, Finish, Goto, IInv, HandlerTypes, Controlling, launches
    <3>2. Unread' = Unread
      BY <3>1 DEF Unread
    <3> QED
      BY <2>1, <3>1, <3>2 DEF Solo, Alone
  <2>3. StartInv'
    BY <1>9, <2>1, Constants DEF StopCancel, Goto, Finish, fields, launches, flow,
       IInv, FieldTypes, HandlerTypes, LaunchTypes, SessionOrNone, Solo, StartInv,
       NoneLive, Live, Done, outer, Alone, Controlling, Unread, LaunchInv, Settled,
       OpInv, Fresh
  <2>4. Fresh'
    BY <1>9, <2>1, Constants DEF StopCancel, Goto, Finish, fields, launches, flow,
       IInv, FieldTypes, HandlerTypes, LaunchTypes, SessionOrNone, Solo, Fresh,
       StartInv
  <2>5. LaunchInv'
    BY <1>9, <2>1, Constants DEF StopCancel, Goto, Finish, fields, launches, flow,
       IInv, FieldTypes, HandlerTypes, LaunchTypes, SessionOrNone, Solo, LaunchInv,
       Unread, Live, Done, outer, Over, StartInv, NoneLive, Fresh
  <2>6. Settled'
    BY <1>9, <2>1, Constants DEF StopCancel, Goto, Finish, fields, launches, flow,
       IInv, FieldTypes, HandlerTypes, LaunchTypes, SessionOrNone, Solo, Settled,
       Controlling, Unread, StartInv, LaunchInv, OpInv, Alone
  <2> QED
    BY <2>2, <2>3, <2>4, <2>5, <2>6 DEF Solo
<1>10. ASSUME NEW r \in Requests, StopScraper(r) PROVE SoloInv'
  <2> SUFFICES ASSUME ~raced' PROVE Solo'
    BY DEF SoloInv
  <2>1. Solo /\ ~raced
    BY <1>10 DEF StopScraper, Goto, sessions, launches, flow, IInv, SoloInv
  <2>c. /\ r \in Controlling /\ Unread = {}
        /\ \A q \in Requests : q # r => at[q] \in {"idle", "done", "send"}
    BY <1>10, <2>1 DEF StopScraper, IInv, OpInv, HandlerTypes, Solo, Alone,
       Controlling, HandlerLabels
  <2>2. main' # "panicked" /\ Alone'
    BY <1>10, <2>1, Constants DEF StopScraper, Goto, sessions, launches, flow, IInv,
       FieldTypes, HandlerTypes, LaunchTypes, SessionOrNone, Solo, Alone,
       Controlling, Unread, OpInv
  <2>3. StartInv'
    BY <1>10, <2>1, Constants DEF StopScraper, Goto, sessions, launches, flow, IInv,
       FieldTypes, HandlerTypes, LaunchTypes, SessionOrNone, Solo, StartInv,
       NoneLive, Live, Done, outer, Alone, Controlling, Unread, LaunchInv, Settled,
       OpInv, Fresh
  <2>4. Fresh'
    BY <1>10, <2>1, Constants DEF StopScraper, Goto, sessions, launches, flow, IInv,
       FieldTypes, HandlerTypes, LaunchTypes, SessionOrNone, Solo, Fresh, StartInv
  <2>5. LaunchInv'
    <3>1. /\ UNCHANGED <<innerCtx, controller, main, canceled, ctxOf, stopped, launch, prep, ran,
                        preparing>>
      BY <1>10 DEF StopScraper, sessions, launches, flow
    <3>2. Unread' = {}
      BY <2>c, <3>1 DEF Unread
    <3>3. \A q \in Sessions : (Live(q)' <=> Live(q)) /\ (Done(q)' <=> Done(q))
      BY <3>1 DEF Live, Done, outer
    <3> QED
      BY <2>1, <2>c, <3>1, <3>2, <3>3 DEF Solo, LaunchInv
  <2>6. Settled'
    BY <1>10, <2>1, Constants DEF StopScraper, Goto, sessions, launches, flow, IInv,
       FieldTypes, HandlerTypes, LaunchTypes, SessionOrNone, Solo, Settled,
       Controlling, Unread, StartInv, LaunchInv, OpInv, Alone
  <2> QED
    BY <2>2, <2>3, <2>4, <2>5, <2>6 DEF Solo
<1>11. ASSUME NEW r \in Requests, StopClear(r) PROVE SoloInv'
  <2> SUFFICES ASSUME ~raced' PROVE Solo'
    BY DEF SoloInv
  <2>1. Solo /\ ~raced
    BY <1>11 DEF StopClear, Goto, Finish, sessions, launches, flow, IInv, SoloInv
  <2>c. /\ r \in Controlling /\ Unread = {}
        /\ \A q \in Requests : q # r => at[q] \in {"idle", "done", "send"}
    BY <1>11, <2>1 DEF StopClear, IInv, OpInv, HandlerTypes, Solo, Alone, Controlling,
       HandlerLabels
  <2>o. \A q \in Requests : q # r => at'[q] = at[q]
    BY <1>11 DEF StopClear, Finish, Goto, IInv, HandlerTypes
  <2>2. main' # "panicked" /\ Alone'
    BY <1>11, <2>1, Constants DEF StopClear, Goto, Finish, sessions, launches, flow,
       IInv, FieldTypes, HandlerTypes, LaunchTypes, SessionOrNone, Solo, Alone,
       Controlling, Unread, OpInv
  <2>3. StartInv'
    <3>1. at'[r] = "idle"
      BY <1>11 DEF StopClear, Finish, Goto, IInv, HandlerTypes
    <3> QED
      BY <2>c, <2>o, <3>1 DEF StartInv
  <2>4. Fresh'
    BY <1>11, <2>1, Constants DEF StopClear, Goto, Finish, sessions, launches, flow,
       IInv, FieldTypes, HandlerTypes, LaunchTypes, SessionOrNone, Solo, Fresh,
       StartInv
  <2>5. LaunchInv'
    <3>1. /\ UNCHANGED <<controller, scraper, main, canceled, ctxOf, stopped, launch, prep, ran,
                        preparing>>
      BY <1>11 DEF StopClear, sessions, launches, flow
    <3>2. NoneLive
      BY <1>11, <2>1 DEF StopClear, Solo, StartInv
    <3>3. \A q \in Sessions : ~Live(q)' /\ (Done(q)' <=> Done(q))
      BY <3>1, <3>2 DEF NoneLive, Live, Done, outer
    <3>4. Unread' = {}
      BY <2>c, <3>1 DEF Unread
    <3> QED
      BY <2>1, <2>c, <3>1, <3>3, <3>4 DEF Solo, LaunchInv
  <2>6. Settled'
    BY <1>11, <2>1, Constants DEF StopClear, Goto, Finish, sessions, launches, flow,
       IInv, FieldTypes, HandlerTypes, LaunchTypes, SessionOrNone, Solo, Settled,
       Controlling, Unread, StartInv, LaunchInv, OpInv, Alone
  <2> QED
    BY <2>2, <2>3, <2>4, <2>5, <2>6 DEF Solo
<1>12. ASSUME NEW r \in Requests, AddSend(r) PROVE SoloInv'
  <2> SUFFICES ASSUME ~raced' PROVE Solo'
    BY DEF SoloInv
  <2>1. Solo /\ ~raced
    BY <1>12 DEF AddSend, fields, sessions, handlers, launches, flow, IInv, SoloInv
  <2>2. main' # "panicked" /\ Alone'
    BY <1>12, <2>1, Constants DEF AddSend, fields, sessions, handlers, launches, flow,
       IInv, FieldTypes, HandlerTypes, LaunchTypes, SessionOrNone, Solo, Alone,
       Controlling, Unread, OpInv
  <2>3. StartInv'
    BY <1>12, <2>1, Constants DEF AddSend, fields, sessions, handlers, launches, flow,
       IInv, FieldTypes, HandlerTypes, LaunchTypes, SessionOrNone, Solo, StartInv,
       NoneLive, Live, Done, outer, Alone, Controlling, Unread, LaunchInv, Settled,
       OpInv, Fresh
  <2>4. Fresh'
    BY <1>12, <2>1, Constants DEF AddSend, fields, sessions, handlers, launches, flow,
       IInv, FieldTypes, HandlerTypes, LaunchTypes, SessionOrNone, Solo, Fresh,
       StartInv
  <2>5. LaunchInv'
    BY <1>12, <2>1, Constants DEF AddSend, fields, sessions, handlers, launches, flow,
       IInv, FieldTypes, HandlerTypes, LaunchTypes, SessionOrNone, Solo, LaunchInv,
       Unread, Live, Done, outer, Over, StartInv, NoneLive, Fresh
  <2>6. Settled'
    BY <1>12, <2>1, Constants DEF AddSend, fields, sessions, handlers, launches, flow,
       IInv, FieldTypes, HandlerTypes, LaunchTypes, SessionOrNone, Solo, Settled,
       Controlling, Unread, StartInv, LaunchInv, OpInv, Alone
  <2> QED
    BY <2>2, <2>3, <2>4, <2>5, <2>6 DEF Solo
<1>13. ASSUME NEW r \in Requests, AddReturns(r) PROVE SoloInv'
  <2> SUFFICES ASSUME ~raced' PROVE Solo'
    BY DEF SoloInv
  <2>1. Solo /\ ~raced
    BY <1>13 DEF AddReturns, Finish, Goto, fields, sessions, launches, flow, IInv,
       SoloInv
  <2>2. main' # "panicked" /\ Alone'
    BY <1>13, <2>1, Constants DEF AddReturns, Finish, Goto, fields, sessions, launches,
       flow, IInv, FieldTypes, HandlerTypes, LaunchTypes, SessionOrNone, Solo,
       Alone, Controlling, Unread, OpInv
  <2>3. StartInv'
    BY <1>13, <2>1, Constants DEF AddReturns, Finish, Goto, fields, sessions, launches,
       flow, IInv, FieldTypes, HandlerTypes, LaunchTypes, SessionOrNone, Solo,
       StartInv, NoneLive, Live, Done, outer, Alone, Controlling, Unread, LaunchInv,
       Settled, OpInv, Fresh
  <2>4. Fresh'
    BY <1>13, <2>1, Constants DEF AddReturns, Finish, Goto, fields, sessions, launches,
       flow, IInv, FieldTypes, HandlerTypes, LaunchTypes, SessionOrNone, Solo,
       Fresh, StartInv
  <2>5. LaunchInv'
    BY <1>13, <2>1, Constants DEF AddReturns, Finish, Goto, fields, sessions, launches,
       flow, IInv, FieldTypes, HandlerTypes, LaunchTypes, SessionOrNone, Solo,
       LaunchInv, Unread, Live, Done, outer, Over, StartInv, NoneLive, Fresh
  <2>6. Settled'
    BY <1>13, <2>1, Constants DEF AddReturns, Finish, Goto, fields, sessions, launches,
       flow, IInv, FieldTypes, HandlerTypes, LaunchTypes, SessionOrNone, Solo,
       Settled, Controlling, Unread, StartInv, LaunchInv, OpInv, Alone
  <2> QED
    BY <2>2, <2>3, <2>4, <2>5, <2>6 DEF Solo
<1>14. ASSUME NEW s \in Sessions, CallPrepareChan(s) PROVE SoloInv'
  <2> SUFFICES ASSUME ~raced' PROVE Solo'
    BY DEF SoloInv
  <2>1. Solo /\ ~raced
    BY <1>14 DEF CallPrepareChan, Panic, fields, sessions, handlers, launches, IInv,
       SoloInv
  <2>2. main' # "panicked" /\ Alone'
    <3>1. scraper = s /\ s # None
      BY <1>14, <2>1, Constants DEF CallPrepareChan, Solo, LaunchInv, Unread
    <3>2. main' = main /\ launch' = [launch EXCEPT ![s] = "prepared"] /\ UNCHANGED <<op, at>>
      BY <1>14, <3>1 DEF CallPrepareChan, handlers
    <3>3. Unread' = Unread
      BY <1>14, <3>2 DEF CallPrepareChan, Unread, IInv, LaunchTypes
    <3>4. Controlling' = Controlling
      BY <3>2 DEF Controlling
    <3> QED
      BY <2>1, <3>2, <3>3, <3>4 DEF Solo, Alone
  <2>3. StartInv'
    BY <1>14, <2>1, Constants DEF CallPrepareChan, Panic, fields, sessions, handlers,
       launches, IInv, FieldTypes, HandlerTypes, LaunchTypes, SessionOrNone, Solo,
       StartInv, NoneLive, Live, Done, outer, Alone, Controlling, Unread, LaunchInv,
       Settled, OpInv, Fresh
  <2>4. Fresh'
    BY <1>14, <2>1, Constants DEF CallPrepareChan, Panic, fields, sessions, handlers,
       launches, IInv, FieldTypes, HandlerTypes, LaunchTypes, SessionOrNone, Solo,
       Fresh, StartInv
  <2>5. LaunchInv'
    BY <1>14, <2>1, Constants DEF CallPrepareChan, Panic, fields, sessions, handlers,
       launches, IInv, FieldTypes, HandlerTypes, LaunchTypes, SessionOrNone, Solo,
       LaunchInv, Unread, Live, Done, outer, Over, StartInv, NoneLive, Fresh
  <2>6. Settled'
    BY <1>14, <2>1, Constants DEF CallPrepareChan, Panic, fields, sessions, handlers,
       launches, IInv, FieldTypes, HandlerTypes, LaunchTypes, SessionOrNone, Solo,
       Settled, Controlling, Unread, StartInv, LaunchInv, OpInv, Alone
  <2> QED
    BY <2>2, <2>3, <2>4, <2>5, <2>6 DEF Solo
<1>15. ASSUME NEW s \in Sessions, CallRun(s) PROVE SoloInv'
  <2> SUFFICES ASSUME ~raced' PROVE Solo'
    BY DEF SoloInv
  <2>1. Solo /\ ~raced
    BY <1>15 DEF CallRun, Panic, fields, sessions, handlers, launches, flow, IInv,
       SoloInv
  <2>2. main' # "panicked" /\ Alone'
    <3>1. scraper = s /\ s # None
      BY <1>15, <2>1, Constants DEF CallRun, Solo, LaunchInv, Unread
    <3>2. main' = main /\ launch' = [launch EXCEPT ![s] = "running"] /\ UNCHANGED <<op, at>>
      BY <1>15, <3>1 DEF CallRun, handlers
    <3>3. Unread' \subseteq Unread
      BY <1>15, <3>2 DEF Unread, IInv, LaunchTypes
    <3>4. Controlling' = Controlling
      BY <3>2 DEF Controlling
    <3> QED
      BY <2>1, <3>2, <3>3, <3>4 DEF Solo, Alone
  <2>3. StartInv'
    BY <1>15, <2>1, Constants DEF CallRun, Panic, fields, sessions, handlers, launches,
       flow, IInv, FieldTypes, HandlerTypes, LaunchTypes, SessionOrNone, Solo,
       StartInv, NoneLive, Live, Done, outer, Alone, Controlling, Unread, LaunchInv,
       Settled, OpInv, Fresh
  <2>4. Fresh'
    BY <1>15, <2>1, Constants DEF CallRun, Panic, fields, sessions, handlers, launches,
       flow, IInv, FieldTypes, HandlerTypes, LaunchTypes, SessionOrNone, Solo,
       Fresh, StartInv
  <2>5. LaunchInv'
    BY <1>15, <2>1, Constants DEF CallRun, Panic, fields, sessions, handlers, launches,
       flow, IInv, FieldTypes, HandlerTypes, LaunchTypes, SessionOrNone, Solo,
       LaunchInv, Unread, Live, Done, outer, Over, StartInv, NoneLive, Fresh
  <2>6. Settled'
    BY <1>15, <2>1, Constants DEF CallRun, Panic, fields, sessions, handlers, launches,
       flow, IInv, FieldTypes, HandlerTypes, LaunchTypes, SessionOrNone, Solo,
       Settled, Controlling, Unread, StartInv, LaunchInv, OpInv, Alone
  <2> QED
    BY <2>2, <2>3, <2>4, <2>5, <2>6 DEF Solo
<1>16. ASSUME NEW s \in Sessions, RunFails(s) PROVE SoloInv'
  <2> SUFFICES ASSUME ~raced' PROVE Solo'
    BY DEF SoloInv
  <2>1. Solo /\ ~raced
    BY <1>16 DEF RunFails, fields, sessions, handlers, flow, IInv, SoloInv
  <2>2. main' # "panicked" /\ Alone'
    BY <1>16, <2>1, Constants DEF RunFails, fields, sessions, handlers, flow, IInv,
       FieldTypes, HandlerTypes, LaunchTypes, SessionOrNone, Solo, Alone,
       Controlling, Unread, OpInv
  <2>3. StartInv'
    BY <1>16, <2>1, Constants DEF RunFails, fields, sessions, handlers, flow, IInv,
       FieldTypes, HandlerTypes, LaunchTypes, SessionOrNone, Solo, StartInv,
       NoneLive, Live, Done, outer, Alone, Controlling, Unread, LaunchInv, Settled,
       OpInv, Fresh
  <2>4. Fresh'
    BY <1>16, <2>1, Constants DEF RunFails, fields, sessions, handlers, flow, IInv,
       FieldTypes, HandlerTypes, LaunchTypes, SessionOrNone, Solo, Fresh, StartInv
  <2>5. LaunchInv'
    BY <1>16, <2>1, Constants DEF RunFails, fields, sessions, handlers, flow, IInv,
       FieldTypes, HandlerTypes, LaunchTypes, SessionOrNone, Solo, LaunchInv,
       Unread, Live, Done, outer, Over, StartInv, NoneLive, Fresh
  <2>6. Settled'
    BY <1>16, <2>1, Constants DEF RunFails, fields, sessions, handlers, flow, IInv,
       FieldTypes, HandlerTypes, LaunchTypes, SessionOrNone, Solo, Settled,
       Controlling, Unread, StartInv, LaunchInv, OpInv, Alone
  <2> QED
    BY <2>2, <2>3, <2>4, <2>5, <2>6 DEF Solo
<1>17. ASSUME NEW s \in Sessions, Dispatch(s) PROVE SoloInv'
  <2> SUFFICES ASSUME ~raced' PROVE Solo'
    BY DEF SoloInv
  <2>1. Solo /\ ~raced
    BY <1>17 DEF Dispatch, fields, sessions, handlers, launches, IInv, SoloInv
  <2>2. main' # "panicked" /\ Alone'
    BY <1>17, <2>1, Constants DEF Dispatch, fields, sessions, handlers, launches, IInv,
       FieldTypes, HandlerTypes, LaunchTypes, SessionOrNone, Solo, Alone,
       Controlling, Unread, OpInv
  <2>3. StartInv'
    BY <1>17, <2>1, Constants DEF Dispatch, fields, sessions, handlers, launches, IInv,
       FieldTypes, HandlerTypes, LaunchTypes, SessionOrNone, Solo, StartInv,
       NoneLive, Live, Done, outer, Alone, Controlling, Unread, LaunchInv, Settled,
       OpInv, Fresh
  <2>4. Fresh'
    BY <1>17, <2>1, Constants DEF Dispatch, fields, sessions, handlers, launches, IInv,
       FieldTypes, HandlerTypes, LaunchTypes, SessionOrNone, Solo, Fresh, StartInv
  <2>5. LaunchInv'
    BY <1>17, <2>1, Constants DEF Dispatch, fields, sessions, handlers, launches, IInv,
       FieldTypes, HandlerTypes, LaunchTypes, SessionOrNone, Solo, LaunchInv,
       Unread, Live, Done, outer, Over, StartInv, NoneLive, Fresh
  <2>6. Settled'
    BY <1>17, <2>1, Constants DEF Dispatch, fields, sessions, handlers, launches, IInv,
       FieldTypes, HandlerTypes, LaunchTypes, SessionOrNone, Solo, Settled,
       Controlling, Unread, StartInv, LaunchInv, OpInv, Alone
  <2> QED
    BY <2>2, <2>3, <2>4, <2>5, <2>6 DEF Solo
<1>18. ASSUME NEW s \in Sessions, RunEnds(s) PROVE SoloInv'
  <2> SUFFICES ASSUME ~raced' PROVE Solo'
    BY DEF SoloInv
  <2>1. Solo /\ ~raced
    BY <1>18 DEF RunEnds, Panic, fields, handlers, launches, flow, IInv, SoloInv
  <2>n. ran[s] = s /\ s \notin stopped /\ launch[s] = "running"
    BY <1>18, <2>1 DEF RunEnds, Solo, LaunchInv
  <2>s. /\ launch' = [launch EXCEPT ![s] = "ended"]
        /\ UNCHANGED <<innerCtx, controller, main, made, canceled, at, op, own>>
    BY <1>18, <2>n DEF RunEnds, handlers, fields
  <2>2. main' # "panicked" /\ Alone'
    <3>1. Unread' \subseteq Unread
      BY <2>s DEF Unread, IInv, LaunchTypes
    <3>2. Controlling' = Controlling
      BY <2>s DEF Controlling
    <3> QED
      BY <2>1, <2>s, <3>1, <3>2 DEF Solo, Alone
  <2>3. StartInv'
    <3>1. NoneLive => NoneLive'
      BY <2>s DEF NoneLive, Live, Done, outer, IInv, LaunchTypes
    <3>2. \A q \in Sessions : launch[q] = "none" => launch'[q] = "none"
      BY <2>n, <2>s DEF IInv, LaunchTypes
    <3>3. made # None => made \in Sessions
      BY DEF IInv, FieldTypes, SessionOrNone
    <3> QED
      BY <2>1, <2>s, <3>1, <3>2, <3>3 DEF Solo, StartInv
  <2>4. Fresh'
    BY <1>18, <2>1, Constants DEF RunEnds, Panic, fields, handlers, launches, flow,
       IInv, FieldTypes, HandlerTypes, LaunchTypes, SessionOrNone, Solo, Fresh,
       StartInv
  <2>5. LaunchInv'
    BY <1>18, <2>1, Constants DEF RunEnds, Panic, fields, handlers, launches, flow,
       IInv, FieldTypes, HandlerTypes, LaunchTypes, SessionOrNone, Solo, LaunchInv,
       Unread, Live, Done, outer, Over, StartInv, NoneLive, Fresh
  <2>6. Settled'
    BY <1>18, <2>1, Constants DEF RunEnds, Panic, fields, handlers, launches, flow,
       IInv, FieldTypes, HandlerTypes, LaunchTypes, SessionOrNone, Solo, Settled,
       Controlling, Unread, StartInv, LaunchInv, OpInv, Alone
  <2> QED
    BY <2>2, <2>3, <2>4, <2>5, <2>6 DEF Solo
<1>19. ASSUME NEW s \in Sessions, PrepareTake(s) PROVE SoloInv'
  <2> SUFFICES ASSUME ~raced' PROVE Solo'
    BY DEF SoloInv
  <2>1. Solo /\ ~raced
    BY <1>19 DEF PrepareTake, fields, sessions, handlers, launches, IInv, SoloInv
  <2>2. main' # "panicked" /\ Alone'
    BY <1>19, <2>1, Constants DEF PrepareTake, fields, sessions, handlers, launches,
       IInv, FieldTypes, HandlerTypes, LaunchTypes, SessionOrNone, Solo, Alone,
       Controlling, Unread, OpInv
  <2>3. StartInv'
    BY <1>19, <2>1, Constants DEF PrepareTake, fields, sessions, handlers, launches,
       IInv, FieldTypes, HandlerTypes, LaunchTypes, SessionOrNone, Solo, StartInv,
       NoneLive, Live, Done, outer, Alone, Controlling, Unread, LaunchInv, Settled,
       OpInv, Fresh
  <2>4. Fresh'
    BY <1>19, <2>1, Constants DEF PrepareTake, fields, sessions, handlers, launches,
       IInv, FieldTypes, HandlerTypes, LaunchTypes, SessionOrNone, Solo, Fresh,
       StartInv
  <2>5. LaunchInv'
    BY <1>19, <2>1, Constants DEF PrepareTake, fields, sessions, handlers, launches,
       IInv, FieldTypes, HandlerTypes, LaunchTypes, SessionOrNone, Solo, LaunchInv,
       Unread, Live, Done, outer, Over, StartInv, NoneLive, Fresh
  <2>6. Settled'
    BY <1>19, <2>1, Constants DEF PrepareTake, fields, sessions, handlers, launches,
       IInv, FieldTypes, HandlerTypes, LaunchTypes, SessionOrNone, Solo, Settled,
       Controlling, Unread, StartInv, LaunchInv, OpInv, Alone
  <2> QED
    BY <2>2, <2>3, <2>4, <2>5, <2>6 DEF Solo
<1>20. ASSUME NEW s \in Sessions, PrepareReject(s) PROVE SoloInv'
  <2> SUFFICES ASSUME ~raced' PROVE Solo'
    BY DEF SoloInv
  <2>1. Solo /\ ~raced
    BY <1>20 DEF PrepareReject, fields, sessions, handlers, launches, flow, IInv,
       SoloInv
  <2>2. main' # "panicked" /\ Alone'
    BY <1>20, <2>1, Constants DEF PrepareReject, fields, sessions, handlers, launches,
       flow, IInv, FieldTypes, HandlerTypes, LaunchTypes, SessionOrNone, Solo,
       Alone, Controlling, Unread, OpInv
  <2>3. StartInv'
    BY <1>20, <2>1, Constants DEF PrepareReject, fields, sessions, handlers, launches,
       flow, IInv, FieldTypes, HandlerTypes, LaunchTypes, SessionOrNone, Solo,
       StartInv, NoneLive, Live, Done, outer, Alone, Controlling, Unread, LaunchInv,
       Settled, OpInv, Fresh
  <2>4. Fresh'
    BY <1>20, <2>1, Constants DEF PrepareReject, fields, sessions, handlers, launches,
       flow, IInv, FieldTypes, HandlerTypes, LaunchTypes, SessionOrNone, Solo,
       Fresh, StartInv
  <2>5. LaunchInv'
    BY <1>20, <2>1, Constants DEF PrepareReject, fields, sessions, handlers, launches,
       flow, IInv, FieldTypes, HandlerTypes, LaunchTypes, SessionOrNone, Solo,
       LaunchInv, Unread, Live, Done, outer, Over, StartInv, NoneLive, Fresh
  <2>6. Settled'
    BY <1>20, <2>1, Constants DEF PrepareReject, fields, sessions, handlers, launches,
       flow, IInv, FieldTypes, HandlerTypes, LaunchTypes, SessionOrNone, Solo,
       Settled, Controlling, Unread, StartInv, LaunchInv, OpInv, Alone
  <2> QED
    BY <2>2, <2>3, <2>4, <2>5, <2>6 DEF Solo
<1>21. ASSUME NEW s \in Sessions, PrepareReturn(s) PROVE SoloInv'
  <2> SUFFICES ASSUME ~raced' PROVE Solo'
    BY DEF SoloInv
  <2>1. Solo /\ ~raced
    BY <1>21 DEF PrepareReturn, fields, sessions, handlers, launches, IInv, SoloInv
  <2>2. main' # "panicked" /\ Alone'
    BY <1>21, <2>1, Constants DEF PrepareReturn, fields, sessions, handlers, launches,
       IInv, FieldTypes, HandlerTypes, LaunchTypes, SessionOrNone, Solo, Alone,
       Controlling, Unread, OpInv
  <2>3. StartInv'
    BY <1>21, <2>1, Constants DEF PrepareReturn, fields, sessions, handlers, launches,
       IInv, FieldTypes, HandlerTypes, LaunchTypes, SessionOrNone, Solo, StartInv,
       NoneLive, Live, Done, outer, Alone, Controlling, Unread, LaunchInv, Settled,
       OpInv, Fresh
  <2>4. Fresh'
    BY <1>21, <2>1, Constants DEF PrepareReturn, fields, sessions, handlers, launches,
       IInv, FieldTypes, HandlerTypes, LaunchTypes, SessionOrNone, Solo, Fresh,
       StartInv
  <2>5. LaunchInv'
    BY <1>21, <2>1, Constants DEF PrepareReturn, fields, sessions, handlers, launches,
       IInv, FieldTypes, HandlerTypes, LaunchTypes, SessionOrNone, Solo, LaunchInv,
       Unread, Live, Done, outer, Over, StartInv, NoneLive, Fresh
  <2>6. Settled'
    BY <1>21, <2>1, Constants DEF PrepareReturn, fields, sessions, handlers, launches,
       IInv, FieldTypes, HandlerTypes, LaunchTypes, SessionOrNone, Solo, Settled,
       Controlling, Unread, StartInv, LaunchInv, OpInv, Alone
  <2> QED
    BY <2>2, <2>3, <2>4, <2>5, <2>6 DEF Solo
<1>22. ASSUME NEW s \in Sessions, NilContext(s) PROVE SoloInv'
  <2> SUFFICES ASSUME ~raced' PROVE Solo'
    BY DEF SoloInv
  <2>1. Solo /\ ~raced
    BY <1>22 DEF NilContext, Panic, fields, sessions, handlers, launches, flow, IInv,
       SoloInv
  <2>2. main' # "panicked" /\ Alone'
    <3>1. \/ prep[s] = s /\ ctxOf[s] = s /\ ctxOf[prep[s]] = None
          \/ ran[s] = s /\ ctxOf[s] = s /\ ctxOf[ran[s]] = None
      BY <1>22, <2>1 DEF NilContext, Solo, LaunchInv
    <3> QED
      BY <3>1, Constants
  <2>3. StartInv'
    BY <1>22, <2>1, Constants DEF NilContext, Panic, fields, sessions, handlers,
       launches, flow, IInv, FieldTypes, HandlerTypes, LaunchTypes, SessionOrNone,
       Solo, StartInv, NoneLive, Live, Done, outer, Alone, Controlling, Unread,
       LaunchInv, Settled, OpInv, Fresh
  <2>4. Fresh'
    BY <1>22, <2>1, Constants DEF NilContext, Panic, fields, sessions, handlers,
       launches, flow, IInv, FieldTypes, HandlerTypes, LaunchTypes, SessionOrNone,
       Solo, Fresh, StartInv
  <2>5. LaunchInv'
    BY <1>22, <2>1, Constants DEF NilContext, Panic, fields, sessions, handlers,
       launches, flow, IInv, FieldTypes, HandlerTypes, LaunchTypes, SessionOrNone,
       Solo, LaunchInv, Unread, Live, Done, outer, Over, StartInv, NoneLive, Fresh
  <2>6. Settled'
    BY <1>22, <2>1, Constants DEF NilContext, Panic, fields, sessions, handlers,
       launches, flow, IInv, FieldTypes, HandlerTypes, LaunchTypes, SessionOrNone,
       Solo, Settled, Controlling, Unread, StartInv, LaunchInv, OpInv, Alone
  <2> QED
    BY <2>2, <2>3, <2>4, <2>5, <2>6 DEF Solo
<1>23. CASE Signal
  <2> SUFFICES ASSUME ~raced' PROVE Solo'
    BY DEF SoloInv
  <2>1. Solo /\ ~raced
    BY <1>23 DEF Signal, others, fields, sessions, handlers, launches, flow, IInv,
       SoloInv
  <2>2. main' # "panicked" /\ Alone'
    BY <1>23, <2>1, Constants DEF Signal, others, fields, sessions, handlers, launches,
       flow, IInv, FieldTypes, HandlerTypes, LaunchTypes, SessionOrNone, Solo,
       Alone, Controlling, Unread, OpInv
  <2>3. StartInv'
    BY <1>23, <2>1, Constants DEF Signal, others, fields, sessions, handlers, launches,
       flow, IInv, FieldTypes, HandlerTypes, LaunchTypes, SessionOrNone, Solo,
       StartInv, NoneLive, Live, Done, outer, Alone, Controlling, Unread, LaunchInv,
       Settled, OpInv, Fresh
  <2>4. Fresh'
    BY <1>23, <2>1, Constants DEF Signal, others, fields, sessions, handlers, launches,
       flow, IInv, FieldTypes, HandlerTypes, LaunchTypes, SessionOrNone, Solo,
       Fresh, StartInv
  <2>5. LaunchInv'
    BY <1>23, <2>1, Constants DEF Signal, others, fields, sessions, handlers, launches,
       flow, IInv, FieldTypes, HandlerTypes, LaunchTypes, SessionOrNone, Solo,
       LaunchInv, Unread, Live, Done, outer, Over, StartInv, NoneLive, Fresh
  <2>6. Settled'
    BY <1>23, <2>1, Constants DEF Signal, others, fields, sessions, handlers, launches,
       flow, IInv, FieldTypes, HandlerTypes, LaunchTypes, SessionOrNone, Solo,
       Settled, Controlling, Unread, StartInv, LaunchInv, OpInv, Alone
  <2> QED
    BY <2>2, <2>3, <2>4, <2>5, <2>6 DEF Solo
<1>24. CASE CloseComplCh
  <2> SUFFICES ASSUME ~raced' PROVE Solo'
    BY DEF SoloInv
  <2>1. Solo /\ ~raced
    BY <1>24 DEF CloseComplCh, others, fields, sessions, handlers, launches, flow,
       IInv, SoloInv
  <2>2. main' # "panicked" /\ Alone'
    BY <1>24, <2>1, Constants DEF CloseComplCh, others, fields, sessions, handlers,
       launches, flow, IInv, FieldTypes, HandlerTypes, LaunchTypes, SessionOrNone,
       Solo, Alone, Controlling, Unread, OpInv
  <2>3. StartInv'
    BY <1>24, <2>1, Constants DEF CloseComplCh, others, fields, sessions, handlers,
       launches, flow, IInv, FieldTypes, HandlerTypes, LaunchTypes, SessionOrNone,
       Solo, StartInv, NoneLive, Live, Done, outer, Alone, Controlling, Unread,
       LaunchInv, Settled, OpInv, Fresh
  <2>4. Fresh'
    BY <1>24, <2>1, Constants DEF CloseComplCh, others, fields, sessions, handlers,
       launches, flow, IInv, FieldTypes, HandlerTypes, LaunchTypes, SessionOrNone,
       Solo, Fresh, StartInv
  <2>5. LaunchInv'
    BY <1>24, <2>1, Constants DEF CloseComplCh, others, fields, sessions, handlers,
       launches, flow, IInv, FieldTypes, HandlerTypes, LaunchTypes, SessionOrNone,
       Solo, LaunchInv, Unread, Live, Done, outer, Over, StartInv, NoneLive, Fresh
  <2>6. Settled'
    BY <1>24, <2>1, Constants DEF CloseComplCh, others, fields, sessions, handlers,
       launches, flow, IInv, FieldTypes, HandlerTypes, LaunchTypes, SessionOrNone,
       Solo, Settled, Controlling, Unread, StartInv, LaunchInv, OpInv, Alone
  <2> QED
    BY <2>2, <2>3, <2>4, <2>5, <2>6 DEF Solo
<1>25. CASE Exit
  <2> SUFFICES ASSUME ~raced' PROVE Solo'
    BY DEF SoloInv
  <2>1. Solo /\ ~raced
    BY <1>25 DEF Exit, others, fields, sessions, handlers, launches, flow, IInv, SoloInv
  <2>2. main' # "panicked" /\ Alone'
    BY <1>25, <2>1, Constants DEF Exit, others, fields, sessions, handlers, launches,
       flow, IInv, FieldTypes, HandlerTypes, LaunchTypes, SessionOrNone, Solo,
       Alone, Controlling, Unread, OpInv
  <2>3. StartInv'
    BY <1>25, <2>1, Constants DEF Exit, others, fields, sessions, handlers, launches,
       flow, IInv, FieldTypes, HandlerTypes, LaunchTypes, SessionOrNone, Solo,
       StartInv, NoneLive, Live, Done, outer, Alone, Controlling, Unread, LaunchInv,
       Settled, OpInv, Fresh
  <2>4. Fresh'
    BY <1>25, <2>1, Constants DEF Exit, others, fields, sessions, handlers, launches,
       flow, IInv, FieldTypes, HandlerTypes, LaunchTypes, SessionOrNone, Solo,
       Fresh, StartInv
  <2>5. LaunchInv'
    BY <1>25, <2>1, Constants DEF Exit, others, fields, sessions, handlers, launches,
       flow, IInv, FieldTypes, HandlerTypes, LaunchTypes, SessionOrNone, Solo,
       LaunchInv, Unread, Live, Done, outer, Over, StartInv, NoneLive, Fresh
  <2>6. Settled'
    BY <1>25, <2>1, Constants DEF Exit, others, fields, sessions, handlers, launches,
       flow, IInv, FieldTypes, HandlerTypes, LaunchTypes, SessionOrNone, Solo,
       Settled, Controlling, Unread, StartInv, LaunchInv, OpInv, Alone
  <2> QED
    BY <2>2, <2>3, <2>4, <2>5, <2>6 DEF Solo
<1>26. CASE UNCHANGED vars
  BY <1>26 DEF vars, fields, sessions, handlers, launches, flow, bounds, history,
     IInv, SoloInv, Solo, Alone, StartInv, NoneLive, Fresh, LaunchInv, Settled,
     Controlling, Unread, Live, Done, outer
<1> QED
  BY <1>1, <1>2, <1>3, <1>4, <1>5, <1>6, <1>7, <1>8, <1>9, <1>10, <1>11, <1>12, <1>13,
     <1>14, <1>15, <1>16, <1>17, <1>18, <1>19, <1>20, <1>21, <1>22, <1>23, <1>24,
     <1>25, <1>26 DEF Next, Step, HandlerStep, LaunchStep, PrepareStep, ProcessStep

-----------------------------------------------------------------------------
(* The theorems                                                            *)

\* The invariant holds at the start.
LEMMA InitIInv == Init => IInv
<1> SUFFICES ASSUME Init PROVE IInv
  OBVIOUS
<1>1. FieldTypes
  <2>1. 0 \in 0..MaxStarts /\ 0 \in 0..MaxStops /\ 0 \in 0..MaxFaults
    BY Constants
  <2>2. made \in SessionOrNone
    BY DEF Init, SessionOrNone, None
  <2> QED
    BY <2>1, <2>2 DEF Init, FieldTypes, SessionOrNone
<1>2. HandlerTypes
  BY DEF Init, HandlerTypes, HandlerLabels, Operations, SessionOrNone
<1>3. LaunchTypes
  BY DEF Init, LaunchTypes, LaunchLabels, SessionOrNone
<1>4. FlowTypes
  <2>1. complCh = <<>> /\ Len(complCh) = 0 /\ \A s \in Sessions : out[s] = <<>>
    BY DEF Init
  <2> QED
    BY <2>1, Constants DEF Init, FlowTypes
<1>5. CountInv
  <2>1. Pending = {}
    BY DEF Init, Pending
  <2>2. Cardinality(Pending) = 0
    BY <2>1, FS_EmptySet
  <2> QED
    BY <2>2 DEF CountInv, Init
<1>6. OpInv
  BY DEF Init, OpInv
<1>7. SoloInv
  <2>1. Controlling = {} /\ Unread = {}
    BY DEF Init, Controlling, Unread
  <2>2. Alone /\ Settled /\ Fresh /\ StartInv
    BY <2>1 DEF Init, Alone, Settled, Fresh, StartInv
  <2>3. LaunchInv
    BY <2>1 DEF Init, LaunchInv, Live
  <2> QED
    BY <2>2, <2>3 DEF Init, SoloInv, Solo
<1>8. RestInv
  BY DEF Init, RestInv, Distinct, Apart, Range
<1>9. PlaceInv
  <2>1. complCh = <<>> /\ \A s \in Sessions : out[s] = <<>>
    BY DEF Init
  <2>2. Range(<<>>) = {} /\ Distinct(<<>>)
    BY DEF Range, Distinct
  <2> QED
    BY <2>1, <2>2 DEF Init, PlaceInv, Apart
<1> QED
  BY <1>1, <1>2, <1>3, <1>4, <1>5, <1>6, <1>7, <1>8, <1>9 DEF IInv

\* The inductive invariant: types, the count of the contexts, where an operation can be, a
\* single start or stop until one meets another, and the places of the URLs.
THEOREM Invariance == Spec => []IInv
<1>1. IInv /\ [Next]_vars => IInv'
  <2> SUFFICES ASSUME IInv, [Next]_vars PROVE IInv'
    OBVIOUS
  <2> QED
    BY FieldTypesStep, HandlerTypesStep, LaunchTypesStep, FlowTypesStep, CountInvStep,
       OpInvStep, SoloInvStep, RestInvStep, PlaceInvStep DEF IInv
<1> QED
  BY <1>1, InitIInv, PTL DEF Spec

\* The fields of the factory, the handlers, the launches and the channels keep their types,
\* whatever handlers, launches and sessions run together (app.go, api.go, main.go).
THEOREM TypeCorrect == Spec => []TypeOK
<1>1. IInv => TypeOK
  <2> SUFFICES ASSUME IInv PROVE TypeOK
    OBVIOUS
  <2>1. FieldTypes /\ HandlerTypes /\ LaunchTypes /\ FlowTypes
    BY DEF IInv
  <2> QED
    BY <2>1 DEF FieldTypes, HandlerTypes, LaunchTypes, FlowTypes, TypeOK, HandlerLabels,
       LaunchLabels, Operations
<1> QED
  BY <1>1, Invariance, PTL

\* isRunning tells the truth while no start or stop meets another (app.go): the session that
\* lives is the one that stop would cancel, and a context that counts as running has a
\* session that lives or that failed.
THEOREM RunningTrue == Spec => []RunningIsTrue
<1>1. IInv => RunningIsTrue
  <2> SUFFICES ASSUME IInv, ~raced PROVE RunningIsTrue
    BY DEF RunningIsTrue
  <2>1. Solo
    BY DEF IInv, SoloInv
  <2>2. \A s \in Sessions : Live(s) => innerCtx = s /\ controller = s
    BY <2>1 DEF Solo, LaunchInv
  <2>3. ASSUME innerCtx # None, ~Done(innerCtx), Controlling = {}
        PROVE  Live(innerCtx) \/ launch[innerCtx] = "failed"
    <3>1. innerCtx \in Sessions
      BY <2>3 DEF IInv, FieldTypes, SessionOrNone
    <3>2. launch[innerCtx] \in LaunchLabels
      BY <3>1 DEF IInv, LaunchTypes
    <3>3. launch[innerCtx] # "none"
      BY <2>1, <2>3 DEF Solo, Settled
    <3>4. launch[innerCtx] # "ended"
      BY <2>1, <2>3, <3>1 DEF Solo, LaunchInv
    <3> QED
      BY <2>3, <3>2, <3>3, <3>4 DEF Live, LaunchLabels
  <2> QED
    BY <2>2, <2>3 DEF RunningIsTrue
<1> QED
  BY <1>1, Invariance, PTL

\* A launch prepares and runs its own scraper under its own context, and nothing panics,
\* while no start or stop meets another (app.go).
THEOREM LaunchesKept == Spec => []LaunchesPaired
<1>1. IInv => LaunchesPaired
  BY DEF IInv, SoloInv, Solo, LaunchInv, LaunchesPaired
<1> QED
  BY <1>1, Invariance, PTL

\* in a sequence without repetitions a URL is once or not at all
LEMMA TimesOnce ==
    ASSUME NEW q \in Seq(Urls), Distinct(q), NEW u
    PROVE  Times(u, q) = IF u \in Range(q) THEN 1 ELSE 0
<1> DEFINE K == {k \in DOMAIN q : q[k] = u}
<1>1. CASE u \in Range(q)
  <2>1. PICK i \in DOMAIN q : q[i] = u
    BY <1>1 DEF Range
  <2>2. K = {i}
    BY <2>1 DEF Distinct
  <2> QED
    BY <1>1, <2>2, FS_Singleton DEF Times
<1>2. CASE u \notin Range(q)
  <2>1. K = {}
    BY <1>2 DEF Range
  <2> QED
    BY <1>2, <2>1, FS_EmptySet DEF Times
<1> QED
  BY <1>1, <1>2

\* A URL that AddUrlsToProcess took is in one place, in complCh, in the hands of one
\* PrepareChan, dispatched or rejected (app.go, scraper.go), whatever sessions run.
THEOREM UrlsKept == Spec => []UrlsConserved
<1>1. IInv => UrlsConserved
  <2> SUFFICES ASSUME IInv, NEW u \in accepted PROVE Places(u) = 1
    BY DEF UrlsConserved
  <2> DEFINE S == {s \in Sessions : Times(u, out[s]) = 1}
             H == {h \in {1, 2} : u \in <<submitted, unparsed>>[h]}
  <2>1. Times(u, complCh) = IF u \in Range(complCh) THEN 1 ELSE 0
    <3>1. complCh \in Seq(Urls) /\ Distinct(complCh)
      BY DEF IInv, FlowTypes, PlaceInv
    <3> QED
      BY <3>1, TimesOnce
  <2>2. \A s \in Sessions : Times(u, out[s]) = 1 <=> u \in Range(out[s])
    <3> SUFFICES ASSUME NEW s \in Sessions PROVE Times(u, out[s]) = 1 <=> u \in Range(out[s])
      OBVIOUS
    <3>1. out[s] \in Seq(Urls) /\ Distinct(out[s])
      BY DEF IInv, FlowTypes, PlaceInv
    <3>2. Times(u, out[s]) = IF u \in Range(out[s]) THEN 1 ELSE 0
      BY <3>1, TimesOnce
    <3> QED
      BY <3>2
  <2>3. S = {s \in Sessions : u \in Range(out[s])}
    BY <2>2
  <2>4. H = {h \in {1, 2} : (h = 1 /\ u \in submitted) \/ (h = 2 /\ u \in unparsed)}
    OBVIOUS
  <2>5. Places(u) = Times(u, complCh) + Cardinality(S) + Cardinality(H)
    BY DEF Places
  <2>6. \/ u \in Range(complCh) \/ u \in submitted \/ u \in unparsed
        \/ \E s \in Sessions : u \in Range(out[s])
    BY DEF IInv, PlaceInv
  <2>7. Cardinality({}) = 0 /\ \A x : Cardinality({x}) = 1
    BY FS_EmptySet, FS_Singleton
  <2> HIDE DEF S, H
  <2>8. CASE u \in Range(complCh)
    <3>1. u \notin submitted /\ u \notin unparsed /\ \A s \in Sessions : u \notin Range(out[s])
      BY <2>8 DEF IInv, PlaceInv, Apart
    <3>2. S = {} /\ H = {}
      BY <2>3, <2>4, <3>1
    <3> QED
      BY <2>1, <2>5, <2>7, <2>8, <3>2
  <2>9. CASE \E s \in Sessions : u \in Range(out[s])
    <3>1. PICK s \in Sessions : u \in Range(out[s])
      BY <2>9
    <3>2. /\ u \notin submitted /\ u \notin unparsed /\ u \notin Range(complCh)
          /\ \A t \in Sessions \ {s} : u \notin Range(out[t])
      BY <3>1 DEF IInv, PlaceInv, Apart
    <3>3. S = {s} /\ H = {}
      BY <2>3, <2>4, <3>1, <3>2
    <3>4. Cardinality(S) = 1 /\ Cardinality(H) = 0
      BY <2>7, <3>3
    <3> QED
      BY <2>1, <2>5, <3>2, <3>4
  <2>10. CASE u \in submitted \/ u \in unparsed
    <3>1. /\ u \notin Range(complCh) /\ \A s \in Sessions : u \notin Range(out[s])
          /\ ~(u \in submitted /\ u \in unparsed)
      BY <2>10 DEF IInv, PlaceInv, Apart
    <3>2. S = {} /\ (H = {1} \/ H = {2})
      BY <2>3, <2>4, <2>10, <3>1
    <3>3. Cardinality(S) = 0 /\ Cardinality(H) = 1
      BY <2>7, <3>2
    <3> QED
      BY <2>1, <2>5, <3>1, <3>3
  <2> QED
    BY <2>6, <2>8, <2>9, <2>10
<1> QED
  BY <1>1, Invariance, PTL
=============================================================================
