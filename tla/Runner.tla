------------------------------- MODULE Runner --------------------------------
(***************************************************************************)
(* The life of a streaming scanner: Scanner.run (engine/scanner.py), the   *)
(* two tasks of StreamingBooks.run (engine/streaming.py), the heartbeat    *)
(* files (engine/heartbeat.py) and `polyarb healthcheck` (cli.py).         *)
(*                                                                         *)
(* Time is discrete.  A task has the time left until its timer fires, or   *)
(* within which its request is answered; time does not pass a timer.  A    *)
(* moment the code stores is an age here, which stops growing once it is   *)
(* beyond everything it is compared with, so runs have no horizon.         *)
(***************************************************************************)
EXTENDS Integers, FiniteSetsExt

CONSTANTS
    ScanInterval,
    Arguments,                         \* of Scanner.run: records of passes and seconds, 0: no bound
    SettleInterval,                    \* 0: settlement is off
    StaleCheck, ResyncInterval,        \* the resync loop
    StallTimeout,                      \* 0: the watchdog is off
    BaseBackoff, MaxBackoff, HealthyRun,
    MinWindow,                         \* the healthcheck's smallest window
    LongestPass, LongestResync         \* bounds: clients time out and retry a few times

ASSUME RunnerAssumption ==
    /\ {ScanInterval, StaleCheck, ResyncInterval, BaseBackoff, MaxBackoff, HealthyRun,
        MinWindow, LongestPass, LongestResync} \subseteq Nat \ {0}
    /\ {SettleInterval, StallTimeout} \subseteq Nat
    /\ \A a \in Arguments : {a.passes, a.seconds} \subseteq Nat

VARIABLES
    stop,      \* the stop event
    left,      \* task -> time left, Forever when it waits for something else
    args,
    scan,      \* "pass", "confirm", "settle", "sleep", "closing" or "stopped"
    attempts, ran, sinceSettle,
    link,      \* "backoff", "reading" or "ended"
    backoff, uptime,
    resync,    \* "sleep", "stale", "full" or "ended"
    sinceFull,
    tracked,   \* there are tokens to keep fresh
    refreshed, \* age of the last applied message or successful fetch
    beat, wsBeat,      \* ages of the moments in the two heartbeat files
    rest, disk,        \* external: the REST API answers; heartbeat files can be written
    fetched,           \* a fetch of the current batch succeeded
    idle               \* history: age of the last moment nothing was tracked

scanVars == <<args, scan, attempts, ran, sinceSettle>>
linkVars == <<link, backoff, uptime>>
resyncVars == <<resync, sinceFull, fetched>>
files == <<beat, wsBeat>>
vars == <<stop, left, scanVars, linkVars, resyncVars, tracked, refreshed, files, rest, disk, idle>>

Forever == -1

\* Variant (seeded fault): one missed resync is already too many.
WsWindowOfOne == ResyncInterval

\* The healthcheck's windows.
ScanWindow == Max({2 * ScanInterval, MinWindow})
WsWindow == Max({2 * ResyncInterval, MinWindow})

\* An age one tick later; beyond the bound all ages are alike.
Upto(bound, age) == Min({bound, age + 1})

\* No such moment yet.
Never == -1
Aged(window, age) == IF age = Never THEN Never ELSE Upto(window + 1, age)
Within(window, age) == age # Never /\ age <= window

Set(task, time) == left' = [left EXCEPT ![task] = time]

\* heartbeat.write: errors are swallowed.
Written(file, age) == IF disk THEN age ELSE file

Init ==
    /\ stop = FALSE
    /\ left = [scan |-> LongestPass, link |-> 0, resync |-> StaleCheck]
    /\ args \in Arguments /\ scan = "pass" /\ attempts = Min({1, args.passes}) /\ ran = 0 /\ sinceSettle = 0
    /\ link = "backoff" /\ backoff = BaseBackoff /\ uptime = 0
    /\ resync = "sleep" /\ sinceFull = ResyncInterval /\ fetched = FALSE
    /\ tracked \in BOOLEAN  \* FALSE: the first discovery failed or found nothing
    /\ refreshed = Never /\ beat = Never /\ wsBeat = Never
    /\ rest \in BOOLEAN /\ disk \in BOOLEAN
    /\ idle = IF tracked THEN Never ELSE 0

-----------------------------------------------------------------------------
\* Scanner.run: discovery gives the streaming runner its tokens.
SetTokens ==
    /\ scan = "pass"
    /\ scan' = "confirm"
    /\ tracked' \in BOOLEAN
    /\ idle' = IF tracked' THEN idle ELSE 0
    /\ UNCHANGED <<stop, left, args, attempts, ran, sinceSettle, linkVars, resyncVars, refreshed,
                   files, rest, disk>>

Finished ==
    \/ args.passes > 0 /\ attempts >= args.passes
    \/ args.seconds > 0 /\ ran >= args.seconds

\* What follows an attempt: `finally`, or the sleep that the stop event cuts short.
AfterAttempt ==
    IF Finished
    THEN scan' = "closing" /\ stop' = TRUE /\ Set("scan", Forever)
    ELSE scan' = "sleep" /\ stop' = stop /\ Set("scan", IF stop THEN 0 ELSE ScanInterval)

PassEnds ==
    /\ scan \in {"pass", "confirm"}
    /\ beat' = Written(beat, 0)
    /\ IF SettleInterval > 0 /\ sinceSettle >= SettleInterval
       THEN /\ scan' = "settle" /\ sinceSettle' = 0 /\ stop' = stop
            /\ Set("scan", LongestPass)
       ELSE AfterAttempt /\ UNCHANGED sinceSettle
    /\ UNCHANGED <<args, attempts, ran, linkVars, resyncVars, tracked, refreshed, wsBeat, rest, disk, idle>>

SettleEnds ==
    /\ scan = "settle"
    /\ AfterAttempt
    /\ UNCHANGED <<args, attempts, ran, sinceSettle, linkVars, resyncVars, tracked, refreshed, files,
                   rest, disk, idle>>

Wake ==
    /\ scan = "sleep" /\ left["scan"] = 0
    /\ IF stop
       THEN scan' = "closing" /\ attempts' = attempts /\ Set("scan", Forever)
       ELSE scan' = "pass" /\ attempts' = Upto(args.passes, attempts) /\ Set("scan", LongestPass)
    /\ UNCHANGED <<stop, args, ran, sinceSettle, linkVars, resyncVars, tracked, refreshed, files,
                   rest, disk, idle>>

\* SIGINT or SIGTERM.
Signal ==
    /\ ~stop /\ stop' = TRUE
    /\ Set("scan", IF scan = "sleep" THEN 0 ELSE left["scan"])
    /\ UNCHANGED <<scanVars, linkVars, resyncVars, tracked, refreshed, files, rest, disk, idle>>

\* `finally` waits for the streaming task without cancelling it.
Close ==
    /\ scan = "closing" /\ link = "ended" /\ resync = "ended"
    /\ scan' = "stopped"
    /\ UNCHANGED <<stop, left, args, attempts, ran, sinceSettle, linkVars, resyncVars, tracked,
                   refreshed, files, rest, disk, idle>>

-----------------------------------------------------------------------------
\* Variant (seeded fault): the cap is on the sleep alone.
UncappedBackOff(b) ==
    /\ link' = "backoff"
    /\ Set("link", Min({b, MaxBackoff}))
    /\ backoff' = 2 * b

\* _backoff_sleep after a failure, with up to a quarter of jitter (in whole ticks).
BackOff(b) ==
    /\ link' = "backoff"
    /\ \E jitter \in 0..(b + 3) \div 4 : Set("link", Min({b + jitter, MaxBackoff}))
    /\ backoff' = Min({2 * b, MaxBackoff})

LinkEnds == link' = "ended" /\ Set("link", Forever) /\ UNCHANGED backoff

\* Variant (seeded fault): a read has no deadline.
NoDeadline == Forever

\* The deadline of a read.
Deadline == IF StallTimeout > 0 THEN StallTimeout ELSE Forever

\* The head of _stream_loop: a connection is made, or its factory raises.
Connect ==
    /\ link = "backoff" /\ left["link"] = 0
    /\ \/ stop /\ LinkEnds /\ UNCHANGED uptime
       \/ ~stop /\ BackOff(backoff) /\ UNCHANGED uptime
       \/ /\ ~stop
          /\ link' = "reading" /\ uptime' = 0 /\ Set("link", Deadline)
          /\ UNCHANGED backoff
    /\ UNCHANGED <<stop, scanVars, resyncVars, tracked, refreshed, files, rest, disk, idle>>

\* A message is ingested; it need not change a book.
Message ==
    /\ link = "reading"
    /\ \/ refreshed' = 0
       \/ UNCHANGED refreshed
    /\ IF stop THEN LinkEnds
       ELSE Set("link", Deadline) /\ UNCHANGED <<link, backoff>>
    /\ UNCHANGED <<stop, scanVars, uptime, resyncVars, tracked, files, rest, disk, idle>>

AfterConnection ==
    IF stop THEN LinkEnds
    ELSE BackOff(IF uptime >= HealthyRun THEN BaseBackoff ELSE backoff)

\* The server closes, the connection fails, or the watchdog ends a silent one.
Disconnect ==
    /\ link = "reading"
    /\ AfterConnection
    /\ UNCHANGED <<stop, scanVars, uptime, resyncVars, tracked, refreshed, files, rest, disk, idle>>

Stall ==
    /\ link = "reading" /\ left["link"] = 0
    /\ AfterConnection
    /\ UNCHANGED <<stop, scanVars, uptime, resyncVars, tracked, refreshed, files, rest, disk, idle>>

-----------------------------------------------------------------------------
ResyncEnds == resync' = "ended" /\ Set("resync", Forever)

\* Variant (seeded fault): the heartbeat says when it was written.
FreshestNow == 0

\* The moment _publish_liveness writes; with nothing tracked, now.
Freshest == IF tracked THEN refreshed ELSE 0

\* _publish_liveness, and the loop's head.
Publish ==
    /\ wsBeat' = IF Freshest = Never THEN wsBeat ELSE Written(wsBeat, Freshest)
    /\ IF stop THEN ResyncEnds
       ELSE resync' = "sleep" /\ Set("resync", StaleCheck)

Fetch(batch) ==
    resync' = batch /\ fetched' = FALSE /\ Set("resync", LongestResync) /\ UNCHANGED wsBeat

\* The periodic full resync when it is due, else the end of the turn.
FullIfDue ==
    IF sinceFull >= ResyncInterval
    THEN sinceFull' = 0 /\ IF tracked THEN Fetch("full") ELSE Publish /\ UNCHANGED fetched
    ELSE Publish /\ UNCHANGED <<sinceFull, fetched>>

ResyncWake ==
    /\ resync = "sleep" /\ left["resync"] = 0
    /\ \/ stop /\ ResyncEnds /\ UNCHANGED <<sinceFull, fetched, wsBeat>>
       \/ ~stop /\ Fetch("stale") /\ UNCHANGED sinceFull
       \/ ~stop /\ FullIfDue
    /\ UNCHANGED <<stop, scanVars, linkVars, tracked, refreshed, beat, rest, disk, idle>>

\* A fetch of the batch is answered with a book and its token is still tracked.
Seed ==
    /\ resync \in {"stale", "full"} /\ rest /\ tracked
    /\ refreshed' = 0 /\ fetched' = TRUE
    /\ UNCHANGED <<stop, left, scanVars, linkVars, resync, sinceFull, tracked, files, rest, disk, idle>>

\* A batch ends; when the REST API answers, not before one of its books was applied.
BatchEnds ==
    /\ rest /\ tracked => fetched
    /\ \/ resync = "stale" /\ FullIfDue
       \/ resync = "full" /\ Publish /\ UNCHANGED <<sinceFull, fetched>>
    /\ UNCHANGED <<stop, scanVars, linkVars, tracked, refreshed, beat, rest, disk, idle>>

\* StreamingBooks.run cancels the resync task once the stream loop has ended.
CancelResync ==
    /\ link = "ended" /\ resync # "ended"
    /\ ResyncEnds
    /\ UNCHANGED <<stop, scanVars, linkVars, sinceFull, fetched, tracked, refreshed, files,
                   rest, disk, idle>>

-----------------------------------------------------------------------------
Tick ==
    /\ \A task \in DOMAIN left : left[task] # 0
    /\ left' = [task \in DOMAIN left |-> IF left[task] = Forever THEN Forever ELSE left[task] - 1]
    /\ ran' = Upto(args.seconds, ran)
    /\ sinceSettle' = Upto(SettleInterval, sinceSettle)
    /\ uptime' = IF link = "reading" THEN Upto(HealthyRun, uptime) ELSE 0
    /\ sinceFull' = Upto(ResyncInterval, sinceFull)
    /\ refreshed' = Aged(WsWindow, refreshed) /\ idle' = IF tracked THEN Aged(WsWindow, idle) ELSE 0
    /\ beat' = Aged(ScanWindow, beat) /\ wsBeat' = Aged(WsWindow, wsBeat)
    /\ UNCHANGED <<stop, args, scan, attempts, link, backoff, resync, fetched, tracked, rest, disk>>

Scanner == SetTokens \/ PassEnds \/ SettleEnds \/ Wake \/ Close
Stream == Connect \/ Message \/ Disconnect \/ Stall
Resync == ResyncWake \/ Seed \/ BatchEnds \/ CancelResync

Next == Scanner \/ Signal \/ Stream \/ Resync \/ Tick

\* The event loop runs what is due and time passes; the exchange owes no message and
\* no disconnection, and a fetch answers within its timeout.
Fairness ==
    /\ WF_vars(Tick)
    /\ WF_vars(PassEnds) /\ WF_vars(SettleEnds) /\ WF_vars(Wake) /\ WF_vars(Close)
    /\ WF_vars(Connect) /\ WF_vars(Stall)
    /\ WF_vars(ResyncWake) /\ WF_vars(Seed) /\ WF_vars(BatchEnds) /\ WF_vars(CancelResync)

Spec == Init /\ [][Next]_vars /\ Fairness

-----------------------------------------------------------------------------
TypeOK ==
    /\ {stop, tracked, rest, disk, fetched} \subseteq BOOLEAN
    /\ \A task \in {"scan", "link", "resync"} : left[task] \in Nat \cup {Forever}
    /\ scan \in {"pass", "confirm", "settle", "sleep", "closing", "stopped"}
    /\ link \in {"backoff", "reading", "ended"} /\ resync \in {"sleep", "stale", "full", "ended"}
    /\ backoff \in 1..Max({BaseBackoff, MaxBackoff}) /\ left["link"] <= Max({MaxBackoff, StallTimeout})
    /\ {refreshed, wsBeat, idle} \subseteq Never..WsWindow + 1 /\ beat \in Never..ScanWindow + 1

\* `polyarb healthcheck` passes.
Healthcheck == Within(ScanWindow, beat) /\ Within(WsWindow, wsBeat)

(* A frozen cache is never reported healthy: when the check passes, a book *)
(* was refreshed within the window, or nothing was tracked within it, on   *)
(* whatever paths the heartbeat is written and however late.               *)
FrozenIsSeen == Healthcheck => Within(WsWindow, refreshed) \/ Within(WsWindow, idle)

(* The window leaves room for the resync's own cadence: while fetches are  *)
(* answered, a running scanner is not reported dead over its books because *)
(* its feed is silent, a batch is slow, or a stale batch precedes a full   *)
(* one.                                                                    *)
MaskedFeedIsHealthy ==
    rest /\ disk /\ ~stop /\ idle = Never => wsBeat <= WsWindow

(* A signal or the end of the passes stops the scanner: the stream loop    *)
(* leaves even a silent connection, the resync task is cancelled, and the  *)
(* scanner's `finally` ends.                                               *)
ShutdownCompletes == stop ~> scan = "stopped"
=============================================================================
