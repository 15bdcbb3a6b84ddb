------------------------------ MODULE Lifecycle ------------------------------
(***************************************************************************)
(* The application factory (app.go) behind the HTTP handlers (api.go) and  *)
(* the process around them (main.go): crawl sessions are started and       *)
(* stopped, URLs are added and travel through complCh and PrepareChan      *)
(* (scraper.go) to dispatch, the signal ends the process.                  *)
(*                                                                         *)
(* Handlers run concurrently and share the fields of the factory without a *)
(* lock, so each read and each write of a field is a step.  A panic in a   *)
(* handler is recovered by net/http and ends the request; one in another   *)
(* goroutine ends the process.                                             *)
(*                                                                         *)
(* A session is known by its number: context s, scraper s (the one that    *)
(* the same StartCrawling built) and launch s (the goroutine given to      *)
(* backupWG) are three objects, and may be paired wrongly.  The start URLs *)
(* that Run sends on the same channel are left to Crawler.                 *)
(***************************************************************************)
EXTENDS Naturals, Sequences, FiniteSets, SequencesExt

CONSTANTS
    Handlers,      \* how many handlers may run at the same time
    Batches,       \* the lists of URLs that clients add, each at most once
    ChanCapacity,  \* of complCh
    OutCapacity,   \* of the channel that PrepareChan makes
    MaxStarts,     \* bound: start requests
    MaxStops,      \* bound: stop requests
    MaxFaults      \* bound: failures of NewScraper and LoadVisitedUrls, in all

Requests == 1..Handlers
Urls     == UNION {Range(b) : b \in Batches}
Sessions == 1..MaxStarts
None     == 0

ASSUME LifecycleAssumption ==
    /\ Handlers \in Nat /\ Batches \subseteq Seq(Urls)
    \* a URL stands for one of its occurrences in one of the requests
    /\ \A b, c \in Batches : \A i \in DOMAIN b, j \in DOMAIN c : b[i] = c[j] => b = c /\ i = j
    /\ ChanCapacity \in Nat \ {0} /\ OutCapacity \in Nat
    /\ MaxStarts \in Nat /\ MaxStops \in Nat /\ MaxFaults \in Nat

VARIABLES
    innerCtx, controller, scraper,  \* the factory's fields: a session or None
    complCh, chClosed,
    main,       \* main.go: serving, waiting for backupWG after the signal, exited,
                \* or panicked
    made,       \* the contexts made so far
    canceled,   \* the contexts canceled by their controller
    ctxOf,      \* the context a scraper was built with
    stopped,    \* the scrapers whose pool was stopped
    op, at,     \* each handler: its operation, and where it is
    own,        \* the session it makes
    rest,       \* the URLs it has still to send
    launch,     \* each launch: where it is
    prep, ran,  \* the scrapers whose PrepareChan and Run it called
    preparing,  \* the goroutine of its PrepareChan runs
    out,        \* the channel between PrepareChan and dispatch, and at its end
                \* the URL of a send that is blocked
    starts, stops, faults,
    offered, accepted, submitted, unparsed,  \* histories of the URLs
    raced       \* control requests overlapped, or came before a launch had begun

fields   == <<innerCtx, controller, scraper>>
sessions == <<made, canceled, ctxOf, stopped>>
handlers == <<op, at, own, rest>>
launches == <<launch, prep, ran>>
flow     == <<preparing, out>>
bounds   == <<starts, stops, faults>>
history  == <<offered, accepted, submitted, unparsed>>
vars == <<fields, complCh, chClosed, main, sessions, handlers, launches,
          flow, bounds, history, raced>>

Init ==
    /\ innerCtx = None /\ controller = None /\ scraper = None
    /\ complCh = <<>> /\ chClosed = FALSE
    /\ main = "serving"
    /\ made = 0 /\ canceled = {} /\ stopped = {}
    /\ ctxOf = [s \in Sessions |-> None]
    /\ op = [r \in Requests |-> "none"] /\ at = [r \in Requests |-> "idle"]
    /\ own = [r \in Requests |-> None] /\ rest = [r \in Requests |-> <<>>]
    /\ launch = [s \in Sessions |-> "none"]
    /\ prep = [s \in Sessions |-> None] /\ ran = [s \in Sessions |-> None]
    /\ preparing = [s \in Sessions |-> FALSE]
    /\ out = [s \in Sessions |-> <<>>]
    /\ starts = 0 /\ stops = 0 /\ faults = 0
    /\ offered = {} /\ accepted = {} /\ submitted = {} /\ unparsed = {}
    /\ raced = FALSE

\* outerCtx is done
outer == main \in {"waiting", "exited"}

Up == main \in {"serving", "waiting"}

\* mutant: sessions are not derived from the process's context
DoneDetached(s) == s \in canceled

\* a session's context is a child of the process's
Done(s) == outer \/ s \in canceled

Goto(r, label) == at' = [at EXCEPT ![r] = label]

\* the handler answers, or panics and is recovered
Finish(r) ==
    /\ Goto(r, "idle")
    /\ op' = [op EXCEPT ![r] = "none"]
    /\ own' = [own EXCEPT ![r] = None]
    /\ rest' = [rest EXCEPT ![r] = <<>>]

-----------------------------------------------------------------------------
(* The handlers begin with isRunning, which reads innerCtx twice           *)

\* where an operation continues after isRunning
First == [start |-> "ctx", stop |-> "cancel", add |-> "send"]

\* the handlers between the check and the end of a start or a stop
Controlling == {r \in Requests : op[r] # "add" /\ at[r] \notin {"idle", "done"}}

\* the launches that have still to read the factory's scraper
Unread == {s \in Sessions : launch[s] \in {"launched", "prepared"}}

\* a start or a stop that passes its check now meets another, or a launch still to begin
Contended == Controlling # {} \/ Unread # {}

\* mutant: a start does not look whether a session runs
AnswerStartsAnyway(r, running) ==
    IF op[r] = "start" \/ running
    THEN /\ Goto(r, First[op[r]]) /\ UNCHANGED <<op, own, rest>>
         /\ raced' = (raced \/ (op[r] # "add" /\ Contended))
    ELSE Finish(r) /\ UNCHANGED raced

\* isRunning has returned: a start needs FALSE, a stop and an add TRUE
Answer(r, running) ==
    IF running = (op[r] # "start")
    THEN /\ Goto(r, First[op[r]]) /\ UNCHANGED <<op, own, rest>>
         /\ raced' = (raced \/ (op[r] # "add" /\ Contended))
    ELSE Finish(r) /\ UNCHANGED raced

\* A request comes, and isRunning looks at innerCtx for the first time.  Handlers differ
\* in nothing, so the request is given to the first free one.
Begin(r, o) ==
    /\ main = "serving"
    /\ at[r] = "idle" /\ \A q \in 1..(r - 1) : at[q] # "idle"
    /\ innerCtx = None => o = "start"
    /\ op' = [op EXCEPT ![r] = o]
    /\ Goto(r, IF innerCtx = None THEN "ctx" ELSE "done")
    /\ raced' = (raced \/ (innerCtx = None /\ Contended))

BeginStart(r) ==
    /\ starts < MaxStarts /\ starts' = starts + 1
    /\ Begin(r, "start")
    /\ UNCHANGED <<fields, complCh, chClosed, main, sessions, own, rest, launches,
                   flow, stops, faults, history>>

BeginStop(r) ==
    /\ stops < MaxStops /\ stops' = stops + 1
    /\ Begin(r, "stop")
    /\ UNCHANGED <<fields, complCh, chClosed, main, sessions, own, rest, launches,
                   flow, starts, faults, history>>

BeginAdd(r) ==
    /\ Begin(r, "add")
    /\ \E b \in Batches \ offered :
         /\ offered' = offered \cup {b}
         /\ rest' = [rest EXCEPT ![r] = b]
    /\ UNCHANGED <<fields, complCh, chClosed, main, sessions, own, launches,
                   flow, bounds, accepted, submitted, unparsed>>

\* innerCtx may have been set to nil since: the call panics
IsRunningDone(r) ==
    /\ Up /\ at[r] = "done"
    /\ IF innerCtx = None
       THEN Finish(r) /\ UNCHANGED raced
       ELSE Answer(r, ~Done(innerCtx))
    /\ UNCHANGED <<fields, complCh, chClosed, main, sessions, launches, flow,
                   bounds, history>>

-----------------------------------------------------------------------------
(* StartCrawling                                                           *)

StartCtx(r) ==
    /\ Up /\ at[r] = "ctx"
    /\ made' = made + 1
    /\ innerCtx' = made'
    /\ own' = [own EXCEPT ![r] = made']
    /\ Goto(r, "controller")
    /\ UNCHANGED <<controller, scraper, complCh, chClosed, main, canceled, ctxOf,
                   stopped, op, rest, launches, flow, bounds, history, raced>>

StartController(r) ==
    /\ Up /\ at[r] = "controller"
    /\ controller' = own[r]
    /\ Goto(r, "build")
    /\ UNCHANGED <<innerCtx, scraper, complCh, chClosed, main, sessions, op, own,
                   rest, launches, flow, bounds, history, raced>>

\* NewScraper takes the context from the factory, and the launch is given to backupWG:
\* what comes between the two changes nothing that the launch does not read later
StartBuild(r) ==
    /\ Up /\ at[r] = "build"
    /\ ctxOf' = [ctxOf EXCEPT ![own[r]] = innerCtx]
    /\ scraper' = own[r]
    /\ launch' = [launch EXCEPT ![own[r]] = "launched"]
    /\ Finish(r)
    /\ UNCHANGED <<innerCtx, controller, complCh, chClosed, main, made, canceled,
                   stopped, prep, ran, flow, bounds, history, raced>>

\* mutant: the error of NewScraper is not looked at
StartBuildFailsOn(r) ==
    /\ Up /\ at[r] = "build"
    /\ faults < MaxFaults /\ faults' = faults + 1
    /\ scraper' = None
    /\ launch' = [launch EXCEPT ![own[r]] = "launched"]
    /\ Finish(r)
    /\ UNCHANGED <<innerCtx, controller, complCh, chClosed, main, sessions, prep,
                   ran, flow, starts, stops, history, raced>>

\* the filter or the stack file cannot be opened: the context stays
StartBuildFails(r) ==
    /\ Up /\ at[r] = "build"
    /\ faults < MaxFaults /\ faults' = faults + 1
    /\ scraper' = None
    /\ launch' = [launch EXCEPT ![own[r]] = "failed"]
    /\ Finish(r)
    /\ UNCHANGED <<innerCtx, controller, complCh, chClosed, main, sessions, prep,
                   ran, flow, starts, stops, history, raced>>

-----------------------------------------------------------------------------
(* StopCrawling                                                            *)

\* the controller is nil until the first start has stored one: the call panics
StopCancel(r) ==
    /\ Up /\ at[r] = "cancel"
    /\ IF controller = None
       THEN Finish(r) /\ UNCHANGED canceled
       ELSE /\ canceled' = canceled \cup {controller}
            /\ Goto(r, "scraper") /\ UNCHANGED <<op, own, rest>>
    /\ UNCHANGED <<fields, complCh, chClosed, main, made, ctxOf, stopped, launches,
                   flow, bounds, history, raced>>

StopScraper(r) ==
    /\ Up /\ at[r] = "scraper"
    /\ scraper' = None
    /\ Goto(r, "clear")
    /\ UNCHANGED <<innerCtx, controller, complCh, chClosed, main, sessions, op, own,
                   rest, launches, flow, bounds, history, raced>>

StopClear(r) ==
    /\ Up /\ at[r] = "clear"
    /\ innerCtx' = None
    /\ Finish(r)
    /\ UNCHANGED <<controller, scraper, complCh, chClosed, main, sessions, launches,
                   flow, bounds, history, raced>>

-----------------------------------------------------------------------------
(* AddUrlsToProcess: a select over the send, the context and the default   *)

AddSend(r) ==
    /\ Up /\ at[r] = "send" /\ rest[r] # <<>>
    /\ innerCtx # None /\ ~chClosed /\ Len(complCh) < ChanCapacity
    /\ complCh' = Append(complCh, Head(rest[r]))
    /\ accepted' = accepted \cup {Head(rest[r])}
    /\ rest' = [rest EXCEPT ![r] = Tail(@)]
    /\ UNCHANGED <<fields, chClosed, main, sessions, op, at, own, launches, flow,
                   bounds, offered, submitted, unparsed, raced>>

\* all URLs are sent, the context is done, the channel is full, or the handler
\* panics: innerCtx is nil by now, or complCh is closed
AddReturns(r) ==
    /\ Up /\ at[r] = "send"
    /\ \/ rest[r] = <<>>
       \/ innerCtx = None
       \/ innerCtx # None /\ Done(innerCtx)
       \/ chClosed
       \/ Len(complCh) = ChanCapacity
    /\ Finish(r)
    /\ UNCHANGED <<fields, complCh, chClosed, main, sessions, launches, flow, bounds,
                   history, raced>>

-----------------------------------------------------------------------------
(* The goroutine of a launch: f.scraper.Run(f.scraper.PrepareChan(...))    *)

\* the context of scraper x is done
Over(x) == x # None /\ ctxOf[x] # None /\ Done(ctxOf[x])

Panic == main' = "panicked"

CallPrepareChan(s) ==
    /\ Up /\ launch[s] = "launched"
    /\ IF scraper = None
       THEN Panic /\ UNCHANGED <<launches, preparing>>
       ELSE /\ prep' = [prep EXCEPT ![s] = scraper]
            /\ preparing' = [preparing EXCEPT ![s] = TRUE]
            /\ launch' = [launch EXCEPT ![s] = "prepared"]
            /\ UNCHANGED <<main, ran>>
    /\ UNCHANGED <<fields, complCh, chClosed, sessions, handlers, out, bounds,
                   history, raced>>

\* Run on the scraper that the factory has now; it begins with LoadVisitedUrls
CallRun(s) ==
    /\ Up /\ launch[s] = "prepared"
    /\ IF scraper = None
       THEN Panic /\ UNCHANGED launches
       ELSE /\ ran' = [ran EXCEPT ![s] = scraper]
            /\ launch' = [launch EXCEPT ![s] = "running"]
            /\ UNCHANGED <<main, prep>>
    /\ UNCHANGED <<fields, complCh, chClosed, sessions, handlers, flow, bounds, history,
                   raced>>

\* LoadVisitedUrls fails: Run returns, the context stays
RunFails(s) ==
    /\ Up /\ launch[s] = "prepared" /\ scraper # None
    /\ faults < MaxFaults /\ faults' = faults + 1
    /\ launch' = [launch EXCEPT ![s] = "failed"]
    /\ UNCHANGED <<fields, complCh, chClosed, main, sessions, handlers, prep, ran,
                   flow, starts, stops, history, raced>>

Dispatch(s) ==
    /\ Up /\ launch[s] = "running" /\ out[s] # <<>>
    /\ out' = [out EXCEPT ![s] = Tail(@)]
    /\ submitted' = submitted \cup {Head(out[s])}
    /\ UNCHANGED <<fields, complCh, chClosed, main, sessions, handlers, launches,
                   preparing, bounds, offered, accepted, unparsed, raced>>

\* the context is done: dispatch returns, the pool is awaited and stopped, which
\* panics when another launch has stopped it, the visited URLs are saved
RunEnds(s) ==
    /\ Up /\ launch[s] = "running"
    /\ Over(ran[s])
    /\ IF ran[s] \in stopped
       THEN Panic /\ UNCHANGED <<stopped, launches>>
       ELSE /\ stopped' = stopped \cup {ran[s]}
            /\ launch' = [launch EXCEPT ![s] = "ended"]
            /\ UNCHANGED <<main, prep, ran>>
    /\ UNCHANGED <<fields, complCh, chClosed, made, canceled, ctxOf, handlers, flow,
                   bounds, history, raced>>

-----------------------------------------------------------------------------
(* The goroutine of PrepareChan                                            *)

\* the goroutine is not blocked in a send
Sent(s) == Len(out[s]) <= OutCapacity

\* mutant: the URL is dropped when the channel is full
PrepareTakeOrDrop(s) ==
    /\ Up /\ preparing[s] /\ complCh # <<>>
    /\ complCh' = Tail(complCh)
    /\ out' = IF Len(out[s]) < OutCapacity
              THEN [out EXCEPT ![s] = Append(@, Head(complCh))] ELSE out
    /\ UNCHANGED <<fields, chClosed, main, sessions, handlers, launches, preparing,
                   bounds, history, raced>>

\* a URL is taken, also when the context is done: the select takes any case that is ready
PrepareTake(s) ==
    /\ Up /\ preparing[s] /\ Sent(s) /\ complCh # <<>>
    /\ complCh' = Tail(complCh)
    /\ out' = [out EXCEPT ![s] = Append(@, Head(complCh))]
    /\ UNCHANGED <<fields, chClosed, main, sessions, handlers, launches, preparing,
                   bounds, history, raced>>

\* url.Parse rejects it
PrepareReject(s) ==
    /\ Up /\ preparing[s] /\ Sent(s) /\ complCh # <<>>
    /\ complCh' = Tail(complCh)
    /\ unparsed' = unparsed \cup {Head(complCh)}
    /\ UNCHANGED <<fields, chClosed, main, sessions, handlers, launches, flow, bounds,
                   offered, accepted, submitted, raced>>

\* mutant: the goroutine also returns when there is no URL
PrepareReturnIdle(s) ==
    /\ Up /\ preparing[s] /\ Sent(s)
    /\ Over(prep[s]) \/ complCh = <<>>
    /\ preparing' = [preparing EXCEPT ![s] = FALSE]
    /\ UNCHANGED <<fields, complCh, chClosed, main, sessions, handlers, launches,
                   out, bounds, history, raced>>

PrepareReturn(s) ==
    /\ Up /\ preparing[s] /\ Sent(s)
    /\ Over(prep[s])
    /\ preparing' = [preparing EXCEPT ![s] = FALSE]
    /\ UNCHANGED <<fields, complCh, chClosed, main, sessions, handlers, launches,
                   out, bounds, history, raced>>

\* the scraper was built while innerCtx was nil: its first use of it panics
NilContext(s) ==
    /\ Up
    /\ \/ preparing[s] /\ ctxOf[prep[s]] = None
       \/ launch[s] = "running" /\ ctxOf[ran[s]] = None
    /\ Panic
    /\ UNCHANGED <<fields, complCh, chClosed, sessions, handlers, launches, flow,
                   bounds, history, raced>>

-----------------------------------------------------------------------------
(* The process                                                             *)

others == <<fields, complCh, sessions, handlers, launches, flow, bounds, history, raced>>

\* The signal ends outerCtx, and Shutdown makes ListenAndServe return at once; handlers may
\* still run.  A request that slips in between finds what one just before the signal does.
Signal ==
    /\ main = "serving" /\ main' = "waiting"
    /\ UNCHANGED <<others, chClosed>>

CloseComplCh ==
    /\ Up /\ outer /\ ~chClosed /\ chClosed' = TRUE
    /\ UNCHANGED <<others, main>>

\* backupWG is empty; the goroutine of the repository leaves it after the signal
Exit ==
    /\ main = "waiting"
    /\ \A s \in Sessions : launch[s] \notin {"launched", "prepared", "running"}
    /\ main' = "exited"
    /\ UNCHANGED <<others, chClosed>>

-----------------------------------------------------------------------------
HandlerStep(r) ==
    \/ IsRunningDone(r) \/ StartCtx(r) \/ StartController(r) \/ StartBuild(r)
    \/ StopCancel(r) \/ StopScraper(r) \/ StopClear(r)
    \/ AddSend(r) \/ AddReturns(r)

LaunchStep(s) == CallPrepareChan(s) \/ CallRun(s) \/ Dispatch(s) \/ RunEnds(s) \/ NilContext(s)

PrepareStep(s) == PrepareTake(s) \/ PrepareReject(s) \/ PrepareReturn(s)

ProcessStep == CloseComplCh \/ Exit

\* the goroutines, as far as they run on by themselves
Step ==
    \/ \E r \in Requests : HandlerStep(r)
    \/ \E s \in Sessions : LaunchStep(s) \/ PrepareStep(s)
    \/ ProcessStep

Next ==
    \/ Step
    \/ \E r \in Requests : BeginStart(r) \/ BeginStop(r) \/ BeginAdd(r) \/ StartBuildFails(r)
    \/ \E s \in Sessions : RunFails(s)
    \/ Signal

Spec == Init /\ [][Next]_vars

\* While some goroutine can take a step, one does.  No fairness between goroutines is
\* needed: none of them can go on forever.
Fairness == WF_vars(Step)

FairSpec == Spec /\ Fairness

-----------------------------------------------------------------------------
SessionOrNone == Sessions \cup {None}

\* Type correctness of the factory, the handlers, the launches and the channels.
TypeOK ==
    /\ innerCtx \in SessionOrNone /\ controller \in SessionOrNone
    /\ scraper \in SessionOrNone
    /\ complCh \in Seq(Urls) /\ Len(complCh) <= ChanCapacity /\ chClosed \in BOOLEAN
    /\ main \in {"serving", "waiting", "exited", "panicked"}
    /\ made \in SessionOrNone /\ canceled \subseteq Sessions /\ stopped \subseteq Sessions
    /\ ctxOf \in [Sessions -> SessionOrNone]
    /\ op \in [Requests -> {"none", "start", "stop", "add"}]
    /\ at \in [Requests -> {"idle", "done", "send", "ctx", "controller", "build",
                            "cancel", "scraper", "clear"}]
    /\ own \in [Requests -> SessionOrNone]
    /\ rest \in [Requests -> Seq(Urls)]
    /\ launch \in [Sessions -> {"none", "launched", "prepared", "running", "failed", "ended"}]
    /\ prep \in [Sessions -> SessionOrNone] /\ ran \in [Sessions -> SessionOrNone]
    /\ preparing \in [Sessions -> BOOLEAN]
    /\ out \in [Sessions -> Seq(Urls)] /\ \A s \in Sessions : Len(out[s]) <= OutCapacity + 1
    /\ starts \in 0..MaxStarts /\ stops \in 0..MaxStops /\ faults \in 0..MaxFaults
    /\ offered \subseteq Batches /\ raced \in BOOLEAN
    /\ accepted \subseteq Urls /\ submitted \subseteq Urls /\ unparsed \subseteq Urls

Live(s) == launch[s] \in {"launched", "prepared", "running"} /\ ~Done(s)

\* While no start or stop overlaps another, or a launch that has not begun, isRunning
\* tells the truth: the one session that lives is the one stop would cancel, and a
\* context that counts as running belongs to a session that lives or that failed.
RunningIsTrue ==
    ~raced => /\ \A s \in Sessions : Live(s) => innerCtx = s /\ controller = s
              /\ innerCtx # None /\ ~Done(innerCtx) /\ Controlling = {}
                   => Live(innerCtx) \/ launch[innerCtx] = "failed"

\* While no start or stop overlaps another, or a launch that has not begun, a launch
\* prepares and runs its own scraper under its own context, and the process does not
\* panic.
LaunchesPaired ==
    ~raced => /\ main # "panicked"
              /\ \A s \in Sessions : {prep[s], ran[s], ctxOf[s]} \subseteq {None, s}

Times(u, q) == Cardinality({k \in DOMAIN q : q[k] = u})

Places(u) ==
    Times(u, complCh)
      + Cardinality({s \in Sessions : Times(u, out[s]) = 1})
      + Cardinality({h \in {1, 2} : u \in <<submitted, unparsed>>[h]})

\* A URL that AddUrlsToProcess took is at every moment in exactly one place, whatever
\* sessions come, overlap and go: in a channel, in the hands of a PrepareChan, dispatched
\* once, or rejected by url.Parse.
UrlsConserved == \A u \in accepted : Places(u) = 1

\* a session whose PrepareChan and dispatch both run
Serving ==
    /\ Up
    /\ \E s \in Sessions :
        /\ launch[s] = "running"
        /\ \A x \in {prep[s], ran[s]} : ctxOf[x] # None /\ ~Over(x)

\* u was taken by a launch that will not dispatch it
Stolen(u) ==
    \E s \in Sessions :
        /\ u \in Range(out[s])
        /\ launch[s] \in {"failed", "ended"} \/ Over(prep[s]) \/ Over(ran[s])

\* While a session serves, every URL that was accepted is on its way to dispatch: it gets
\* there, unless url.Parse rejects it, or a session that ends or has failed took it.
UrlsArrive ==
    \A u \in Urls : (u \in accepted /\ Serving)
                      ~> (u \in submitted \cup unparsed \/ Stolen(u) \/ ~Serving)

\* After the signal the process ends: every session ends, and backupWG with them.
ProcessEnds == outer ~> (main = "exited" \/ (raced /\ main = "panicked"))
=============================================================================
