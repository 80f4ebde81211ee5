----------------------------- MODULE RunnerProofs -----------------------------
(***************************************************************************)
(* A frozen cache is never reported healthy, for all intervals, timeouts   *)
(* and windows.  The heartbeat file holds a moment, not the moment it was  *)
(* written; the invariant (IInv) is that a refresh, or a moment without    *)
(* tracked tokens, is at least as recent as what the file says.            *)
(*                                                                         *)
(* Timers, back-off and ages stay within their bounds (TInv).              *)
(*                                                                         *)
(* And a healthy one is not reported dead: while the REST API answers and  *)
(* batches fit into the window, the file's moment stays within it (HInv).  *)
(***************************************************************************)
EXTENDS Runner, CollectionTheorems

Ages == {Never} \cup Nat

Typed ==
    /\ tracked \in BOOLEAN
    /\ {refreshed, wsBeat, idle} \subseteq Ages

NotOlder(age, other) == age # Never /\ age <= other

Backed == wsBeat # Never => NotOlder(refreshed, wsBeat) \/ NotOlder(idle, wsBeat)

IdleNow == ~tracked => idle = 0

IInv == Typed /\ Backed /\ IdleNow

moments == <<tracked, refreshed, wsBeat, idle>>

-----------------------------------------------------------------------------
\* Ages: their window and how they grow.
LEMMA WindowType == WsWindow \in Nat
<1> DEFINE S == {2 * ResyncInterval, MinWindow}
<1>1. ResyncInterval \in Nat /\ MinWindow \in Nat
  BY RunnerAssumption
<1>2. S \subseteq Nat
  BY <1>1
<1>3. \E x \in S : \A y \in S : x >= y
  BY <1>1
<1>4. Max(S) \in S
  <2>1. Max(S) = CHOOSE x \in S : \A y \in S : x >= y
    BY DEF Max
  <2> HIDE DEF S
  <2> QED
    BY <2>1, <1>3
<1> QED
  BY <1>2, <1>4 DEF WsWindow

LEMMA AgedType ==
    ASSUME NEW age \in Ages
    PROVE  /\ Aged(WsWindow, age) \in Ages
           /\ Aged(WsWindow, age) = Never <=> age = Never
<1>1. CASE age = Never
  BY <1>1 DEF Aged, Ages
<1>2. CASE age # Never
  <2>1. age \in Nat /\ age + 1 \in Int /\ WsWindow + 1 \in Int
    BY <1>2, WindowType DEF Ages
  <2>2. Aged(WsWindow, age) = IF WsWindow + 1 <= age + 1 THEN WsWindow + 1 ELSE age + 1
    BY <1>2, <2>1, MinOfTwo DEF Aged, Upto
  <2> QED
    BY <1>2, <2>1, <2>2, WindowType DEF Ages, Never
<1> QED
  BY <1>1, <1>2

LEMMA AgedMonotone ==
    ASSUME NEW a \in Ages, NEW b \in Ages, a # Never, b # Never, a <= b
    PROVE  Aged(WsWindow, a) <= Aged(WsWindow, b)
<1>1. a \in Nat /\ b \in Nat /\ WsWindow \in Nat
  BY WindowType DEF Ages
<1>2. /\ Aged(WsWindow, a) = IF WsWindow + 1 <= a + 1 THEN WsWindow + 1 ELSE a + 1
      /\ Aged(WsWindow, b) = IF WsWindow + 1 <= b + 1 THEN WsWindow + 1 ELSE b + 1
  BY <1>1, MinOfTwo DEF Aged, Upto
<1> QED
  BY <1>1, <1>2

-----------------------------------------------------------------------------
LEMMA InitInv == Init => IInv
BY DEF Init, IInv, Typed, Backed, IdleNow, Ages, Never

\* Most steps concern none of the moments.
LEMMA Frame == IInv /\ UNCHANGED moments => IInv'
BY DEF IInv, Typed, Backed, IdleNow, NotOlder, moments

LEMMA OtherSteps ==
    ASSUME \/ PassEnds \/ SettleEnds \/ Wake \/ Close \/ Signal
           \/ Connect \/ Disconnect \/ Stall \/ CancelResync \/ UNCHANGED vars
    PROVE  UNCHANGED moments
<1>1. CASE PassEnds \/ SettleEnds \/ Wake \/ Close \/ Signal
  BY <1>1 DEF PassEnds, SettleEnds, Wake, Close, Signal, files, moments
<1>2. CASE Connect \/ Disconnect \/ Stall
  BY <1>2 DEF Connect, Disconnect, Stall, files, moments
<1>3. CASE CancelResync \/ UNCHANGED vars
  BY <1>3 DEF CancelResync, vars, files, moments
<1> QED
  BY <1>1, <1>2, <1>3

LEMMA SetTokensStep == IInv /\ SetTokens => IInv'
BY DEF IInv, Typed, Backed, IdleNow, NotOlder, Ages, Never, SetTokens, files

\* A refresh is as recent as any moment.
LEMMA RefreshStep ==
    ASSUME IInv, refreshed' = 0, UNCHANGED <<tracked, wsBeat, idle>>
    PROVE  IInv'
BY DEF IInv, Typed, Backed, IdleNow, NotOlder, Ages, Never

\* What is published is a moment at which the books were refreshed or not needed.
LEMMA PublishStep ==
    ASSUME IInv, UNCHANGED <<tracked, refreshed, idle>>,
           wsBeat' = IF Freshest = Never THEN wsBeat ELSE Written(wsBeat, Freshest)
    PROVE  IInv'
<1>1. wsBeat' = wsBeat \/ (wsBeat' = Freshest /\ Freshest # Never)
  BY DEF Written
<1>2. CASE wsBeat' = wsBeat
  BY <1>2, Frame DEF moments
<1>3. CASE wsBeat' = Freshest /\ Freshest # Never
  BY <1>3 DEF Freshest, IInv, Typed, Backed, IdleNow, NotOlder, Ages, Never
<1> QED
  BY <1>1, <1>2, <1>3

LEMMA ResyncStep == IInv /\ (ResyncWake \/ BatchEnds) => IInv'
<1> SUFFICES ASSUME IInv, ResyncWake \/ BatchEnds
             PROVE  IInv'
  OBVIOUS
<1>1. UNCHANGED <<tracked, refreshed, idle>>
  BY DEF ResyncWake, BatchEnds
<1>2. \/ wsBeat' = wsBeat
      \/ wsBeat' = IF Freshest = Never THEN wsBeat ELSE Written(wsBeat, Freshest)
  <2> DEFINE Published == wsBeat' = IF Freshest = Never THEN wsBeat ELSE Written(wsBeat, Freshest)
  <2>1. Publish => Published
    BY DEF Publish
  <2>2. ASSUME NEW task, Fetch(task) PROVE wsBeat' = wsBeat
    BY <2>2 DEF Fetch
  <2> HIDE DEF Published
  <2>3. FullIfDue => wsBeat' = wsBeat \/ Published
    BY <2>1, <2>2 DEF FullIfDue
  <2>4. wsBeat' = wsBeat \/ Published
    BY <2>1, <2>2, <2>3 DEF ResyncWake, BatchEnds
  <2> QED
    BY <2>4 DEF Published
<1>3. CASE wsBeat' = wsBeat
  BY <1>1, <1>3, Frame DEF moments
<1> QED
  BY <1>1, <1>2, <1>3, PublishStep

LEMMA TickStep == IInv /\ Tick => IInv'
<1> SUFFICES ASSUME IInv, Tick
             PROVE  IInv'
  OBVIOUS
<1>1. /\ refreshed' = Aged(WsWindow, refreshed) /\ wsBeat' = Aged(WsWindow, wsBeat)
      /\ idle' = IF tracked THEN Aged(WsWindow, idle) ELSE 0
      /\ tracked' = tracked
  BY DEF Tick
<1>2. tracked \in BOOLEAN /\ refreshed \in Ages /\ wsBeat \in Ages /\ idle \in Ages
  BY DEF IInv, Typed
<1>3. Typed'
  <2>1. refreshed' \in Ages /\ wsBeat' \in Ages
    BY <1>1, <1>2, AgedType
  <2>2. idle' \in Ages
    BY <1>1, <1>2, AgedType DEF Ages
  <2> QED
    BY <1>1, <1>2, <2>1, <2>2 DEF Typed
<1>4. Backed'
  <2> SUFFICES ASSUME wsBeat' # Never
               PROVE  NotOlder(refreshed', wsBeat') \/ NotOlder(idle', wsBeat')
    BY DEF Backed
  <2>1. wsBeat # Never
    BY <1>1, <1>2, AgedType
  <2>2. CASE NotOlder(refreshed, wsBeat)
    BY <1>1, <1>2, <2>1, <2>2, AgedType, AgedMonotone DEF NotOlder
  <2>3. CASE NotOlder(idle, wsBeat) /\ tracked
    BY <1>1, <1>2, <2>1, <2>3, AgedType, AgedMonotone DEF NotOlder
  <2>4. CASE ~tracked
    BY <1>1, <1>3, <2>4 DEF NotOlder, Typed, Ages, Never
  <2> QED
    BY <2>1, <2>2, <2>3, <2>4 DEF IInv, Backed
<1>5. IdleNow'
  BY <1>1 DEF IdleNow
<1> QED
  BY <1>3, <1>4, <1>5 DEF IInv

LEMMA NextInv == IInv /\ [Next]_vars => IInv'
<1> SUFFICES ASSUME IInv, [Next]_vars
             PROVE  IInv'
  OBVIOUS
<1>1. CASE SetTokens
  BY <1>1, SetTokensStep
<1>2. CASE Message
  BY <1>2, RefreshStep, Frame DEF Message, files, moments
<1>3. CASE Seed
  BY <1>3, RefreshStep DEF Seed, files
<1>4. CASE ResyncWake \/ BatchEnds
  BY <1>4, ResyncStep
<1>5. CASE Tick
  BY <1>5, TickStep
<1>6. CASE \/ PassEnds \/ SettleEnds \/ Wake \/ Close \/ Signal
           \/ Connect \/ Disconnect \/ Stall \/ CancelResync \/ UNCHANGED vars
  BY <1>6, OtherSteps, Frame
<1> QED
  BY <1>1, <1>2, <1>3, <1>4, <1>5, <1>6 DEF Next, Scanner, Stream, Resync

(* When the healthcheck passes, a book was refreshed within its window, or *)
(* nothing was tracked within it (StreamingBooks._publish_liveness,        *)
(* cli.healthcheck), whatever the intervals and however late any loop is.  *)
THEOREM FrozenSeen == Spec => []FrozenIsSeen
<1>1. IInv => FrozenIsSeen
  <2> SUFFICES ASSUME IInv, Within(WsWindow, wsBeat)
               PROVE  Within(WsWindow, refreshed) \/ Within(WsWindow, idle)
    BY DEF FrozenIsSeen, Healthcheck
  <2>1. WsWindow \in Int /\ wsBeat # Never /\ wsBeat <= WsWindow
    BY WindowType DEF Within
  <2> QED
    BY <2>1 DEF IInv, Typed, Backed, NotOlder, Within, Ages, Never
<1> QED
  BY <1>1, InitInv, NextInv, PTL DEF Spec

-----------------------------------------------------------------------------
(* Types: timers, back-off and ages stay within their bounds.              *)

Tasks == {"scan", "link", "resync"}
Times == Nat \cup {Forever}
LongestSleep == Max({MaxBackoff, StallTimeout})
LargestBackoff == Max({BaseBackoff, MaxBackoff})

Flags == {stop, tracked, rest, disk, fetched} \subseteq BOOLEAN
Timers == left \in [Tasks -> Times] /\ left["link"] <= LongestSleep
Stages ==
    /\ scan \in {"pass", "confirm", "settle", "sleep", "closing", "stopped"}
    /\ link \in {"backoff", "reading", "ended"} /\ resync \in {"sleep", "stale", "full", "ended"}
BackoffType == backoff \in 1..LargestBackoff
AgesType == {refreshed, wsBeat, idle} \subseteq Never..WsWindow + 1 /\ beat \in Never..ScanWindow + 1

TInv == Flags /\ Timers /\ Stages /\ BackoffType /\ AgesType

\* The larger of two numbers is one of them and bounds both.
LEMMA MaxOfTwo ==
    ASSUME NEW a \in Nat, NEW b \in Nat
    PROVE  Max({a, b}) \in Nat /\ a <= Max({a, b}) /\ b <= Max({a, b})
<1>1. IsFiniteSet({a, b}) /\ {a, b} \subseteq Int /\ {a, b} # {}
  <2>1. IsFiniteSet({a} \cup {b})
    BY FS_Singleton, FS_AddElement
  <2>2. {a} \cup {b} = {a, b}
    OBVIOUS
  <2> QED
    BY <2>1, <2>2
<1>2. Max({a, b}) \in {a, b} /\ \A y \in {a, b} : y <= Max({a, b})
  BY <1>1, MaxOfSet
<1> QED
  BY <1>2

\* What the parameters bound.
LEMMA Bounds ==
    /\ ScanInterval \in Nat \ {0} /\ StaleCheck \in Nat \ {0} /\ LongestPass \in Nat \ {0}
    /\ LongestResync \in Nat \ {0} /\ StallTimeout \in Nat /\ SettleInterval \in Nat
    /\ BaseBackoff \in Nat \ {0} /\ MaxBackoff \in Nat \ {0}
    /\ WsWindow \in Nat /\ ScanWindow \in Nat
    /\ LongestSleep \in Nat /\ MaxBackoff <= LongestSleep /\ StallTimeout <= LongestSleep
    /\ LargestBackoff \in Nat /\ BaseBackoff <= LargestBackoff /\ MaxBackoff <= LargestBackoff
<1>1. /\ ScanInterval \in Nat \ {0} /\ StaleCheck \in Nat \ {0} /\ LongestPass \in Nat \ {0}
      /\ LongestResync \in Nat \ {0} /\ StallTimeout \in Nat /\ SettleInterval \in Nat
      /\ BaseBackoff \in Nat \ {0} /\ MaxBackoff \in Nat \ {0} /\ MinWindow \in Nat
  BY RunnerAssumption
<1>2. ScanWindow \in Nat
  BY <1>1, MaxOfTwo DEF ScanWindow
<1>3. LongestSleep \in Nat /\ MaxBackoff <= LongestSleep /\ StallTimeout <= LongestSleep
  BY <1>1, MaxOfTwo DEF LongestSleep
<1>4. LargestBackoff \in Nat /\ BaseBackoff <= LargestBackoff /\ MaxBackoff <= LargestBackoff
  BY <1>1, MaxOfTwo DEF LargestBackoff
<1> QED
  BY <1>1, <1>2, <1>3, <1>4, WindowType

\* An age stays within its window.
LEMMA AgedWithin ==
    ASSUME NEW window \in Nat, NEW age \in Never..window + 1
    PROVE  Aged(window, age) \in Never..window + 1
<1>1. CASE age = Never
  BY <1>1 DEF Aged, Never
<1>2. CASE age # Never
  <2>1. Aged(window, age) = IF window + 1 <= age + 1 THEN window + 1 ELSE age + 1
    BY <1>2, MinOfTwo DEF Aged, Upto, Never
  <2> QED
    BY <1>2, <2>1 DEF Never
<1> QED
  BY <1>1, <1>2

\* A timer that is set.
LEMMA SetTyped ==
    ASSUME Timers, NEW task \in Tasks, NEW time \in Times, Set(task, time),
           task = "link" => time <= LongestSleep
    PROVE  Timers'
<1>1. left' \in [Tasks -> Times]
  BY DEF Timers, Set
<1>2. left'["link"] <= LongestSleep
  BY DEF Timers, Set, Tasks
<1> QED
  BY <1>1, <1>2 DEF Timers, LongestSleep

\* A back-off is capped, jitter included, and so is the next one.
LEMMA BackOffTyped ==
    ASSUME Timers, NEW b \in 1..LargestBackoff, BackOff(b)
    PROVE  Timers' /\ BackoffType' /\ link' = "backoff"
<1>1. b \in Nat /\ b >= 1 /\ MaxBackoff \in Nat \ {0}
  BY Bounds
<1>2. PICK jitter \in 0..((b + 3) \div 4) : Set("link", Min({b + jitter, MaxBackoff}))
  BY DEF BackOff
<1>3. jitter \in Int /\ 0 <= jitter
  BY <1>2
<1>4. Min({b + jitter, MaxBackoff}) = IF b + jitter <= MaxBackoff THEN b + jitter ELSE MaxBackoff
  BY <1>1, <1>3, MinOfTwo
<1>5. Min({b + jitter, MaxBackoff}) \in Nat /\ Min({b + jitter, MaxBackoff}) <= LongestSleep
  BY <1>1, <1>3, <1>4, Bounds
<1>6. Timers'
  BY <1>2, <1>5, SetTyped DEF Tasks, Times
<1>7. backoff' = IF 2 * b <= MaxBackoff THEN 2 * b ELSE MaxBackoff
  BY <1>1, MinOfTwo DEF BackOff
<1>8. backoff' \in 1..LargestBackoff
  BY <1>1, <1>7, Bounds
<1> QED
  BY <1>6, <1>8 DEF BackOff, BackoffType, LargestBackoff

LEMMA LinkEndsTyped ==
    ASSUME Timers, BackoffType, LinkEnds
    PROVE  Timers' /\ BackoffType' /\ link' = "ended"
<1>1. Forever \in Times /\ Forever <= LongestSleep
  BY Bounds DEF Times, Forever
<1>2. Timers'
  BY <1>1, SetTyped DEF LinkEnds, Tasks
<1> QED
  BY <1>2 DEF LinkEnds, BackoffType, LargestBackoff

LEMMA DeadlineTyped == Deadline \in Times /\ Deadline <= LongestSleep
BY Bounds DEF Deadline, Times, Forever

\* Where the resync loop goes next.
LEMMA PublishTyped ==
    ASSUME TInv, Publish, UNCHANGED <<stop, tracked, refreshed, idle, disk>>
    PROVE  /\ Timers' /\ resync' \in {"sleep", "ended"}
           /\ wsBeat' \in Never..WsWindow + 1
<1>1. Timers' /\ resync' \in {"sleep", "ended"}
  <2>1. CASE stop
    BY <2>1, SetTyped DEF TInv, Publish, ResyncEnds, Tasks, Times
  <2>2. CASE ~stop
    BY <2>2, SetTyped, Bounds DEF TInv, Publish, Tasks, Times
  <2> QED
    BY <2>1, <2>2
<1>2. Freshest \in Never..WsWindow + 1
  BY Bounds DEF TInv, AgesType, Freshest, Never
<1> QED
  BY <1>1, <1>2 DEF Publish, Written, TInv, AgesType

LEMMA FetchTyped ==
    ASSUME TInv, NEW batch \in {"stale", "full"}, Fetch(batch)
    PROVE  /\ Timers' /\ resync' \in {"stale", "full"} /\ fetched' = FALSE
           /\ wsBeat' \in Never..WsWindow + 1
BY SetTyped, Bounds DEF TInv, Fetch, Tasks, Times, AgesType

LEMMA FullIfDueTyped ==
    ASSUME TInv, FullIfDue, UNCHANGED <<stop, tracked, refreshed, idle, disk>>
    PROVE  /\ Timers' /\ resync' \in {"sleep", "stale", "full", "ended"} /\ fetched' \in BOOLEAN
           /\ wsBeat' \in Never..WsWindow + 1
<1>1. CASE Fetch("full")
  BY <1>1, FetchTyped
<1>2. CASE Publish /\ UNCHANGED fetched
  BY <1>2, PublishTyped DEF TInv, Flags
<1> QED
  BY <1>1, <1>2 DEF FullIfDue

-----------------------------------------------------------------------------
\* What each task's step leaves alone keeps its type.
LEMMA ScannerTyped ==
    ASSUME TInv, SetTokens \/ PassEnds \/ SettleEnds \/ Wake \/ Close \/ Signal
    PROVE  TInv'
<1>1. ASSUME AfterAttempt
      PROVE  Timers' /\ stop' \in BOOLEAN /\ scan' \in {"closing", "sleep"}
  <2>1. Forever \in Times /\ 0 \in Times /\ ScanInterval \in Times
    BY Bounds DEF Times
  <2>2. CASE Finished
    BY <1>1, <2>1, <2>2, SetTyped DEF AfterAttempt, TInv, Tasks
  <2>3. CASE ~Finished
    BY <1>1, <2>1, <2>3, SetTyped DEF AfterAttempt, TInv, Flags, Tasks
  <2> QED
    BY <2>2, <2>3
<1>2. CASE SetTokens
  BY <1>2, Bounds DEF SetTokens, TInv, Flags, Timers, Stages, BackoffType, AgesType, Never,
          linkVars, resyncVars, files, LongestSleep, LargestBackoff, WsWindow, ScanWindow
<1>3. CASE PassEnds
  <2>1. Timers' /\ stop' \in BOOLEAN /\ scan' \in {"settle", "closing", "sleep"}
    <3>1. CASE AfterAttempt
      BY <3>1, <1>1
    <3>2. CASE scan' = "settle" /\ stop' = stop /\ Set("scan", LongestPass)
      BY <3>2, SetTyped, Bounds DEF TInv, Flags, Tasks, Times
    <3> QED
      BY <1>3, <3>1, <3>2 DEF PassEnds
  <2>2. beat' \in Never..ScanWindow + 1
    BY <1>3, Bounds DEF PassEnds, Written, TInv, AgesType, Never
  <2> QED
    BY <1>3, <2>1, <2>2 DEF PassEnds, TInv, Flags, Stages, BackoffType, AgesType, linkVars,
            resyncVars, files, LongestSleep, LargestBackoff, WsWindow, ScanWindow
<1>4. CASE SettleEnds
  BY <1>1, <1>4 DEF SettleEnds, TInv, Flags, Stages, BackoffType, AgesType, linkVars,
          resyncVars, files, LongestSleep, LargestBackoff, WsWindow, ScanWindow
<1>5. CASE Wake
  <2>1. Timers' /\ scan' \in {"closing", "pass"}
    BY <1>5, SetTyped, Bounds DEF Wake, TInv, Tasks, Times
  <2> QED
    BY <1>5, <2>1 DEF Wake, TInv, Flags, Stages, BackoffType, AgesType, linkVars,
            resyncVars, files, LongestSleep, LargestBackoff, WsWindow, ScanWindow
<1>6. CASE Close
  BY <1>6 DEF Close, TInv, Flags, Timers, Stages, BackoffType, AgesType, linkVars,
          resyncVars, files, LongestSleep, LargestBackoff, WsWindow, ScanWindow
<1>7. CASE Signal
  <2>1. left["scan"] \in Times
    BY DEF TInv, Timers, Tasks
  <2>2. Timers'
    BY <1>7, <2>1, SetTyped DEF Signal, TInv, Tasks, Times
  <2> QED
    BY <1>7, <2>2 DEF Signal, TInv, Flags, Stages, BackoffType, AgesType, scanVars, linkVars,
            resyncVars, files, LongestSleep, LargestBackoff, WsWindow, ScanWindow
<1> QED
  BY <1>2, <1>3, <1>4, <1>5, <1>6, <1>7

LEMMA StreamTyped ==
    ASSUME TInv, Connect \/ Message \/ Disconnect \/ Stall
    PROVE  TInv'
<1>1. Timers' /\ BackoffType' /\ link' \in {"backoff", "reading", "ended"}
  <2>1. backoff \in 1..LargestBackoff /\ BaseBackoff \in 1..LargestBackoff
    BY Bounds DEF TInv, BackoffType
  <2>2. CASE Connect
    <3>1. CASE LinkEnds
      BY <3>1, LinkEndsTyped DEF TInv
    <3>2. CASE BackOff(backoff)
      BY <3>2, <2>1, BackOffTyped DEF TInv
    <3>3. CASE link' = "reading" /\ Set("link", Deadline) /\ UNCHANGED backoff
      BY <3>3, SetTyped, DeadlineTyped DEF TInv, BackoffType, Tasks, LargestBackoff
    <3> QED
      BY <2>2, <3>1, <3>2, <3>3 DEF Connect
  <2>3. CASE Message
    <3>1. CASE LinkEnds
      BY <3>1, LinkEndsTyped DEF TInv
    <3>2. CASE Set("link", Deadline) /\ UNCHANGED <<link, backoff>>
      BY <3>2, SetTyped, DeadlineTyped DEF TInv, Stages, BackoffType, Tasks, LargestBackoff
    <3> QED
      BY <2>3, <3>1, <3>2 DEF Message
  <2>4. CASE AfterConnection
    <3>1. CASE LinkEnds
      BY <3>1, LinkEndsTyped DEF TInv
    <3>2. CASE BackOff(BaseBackoff)
      BY <3>2, <2>1, BackOffTyped DEF TInv
    <3>3. CASE BackOff(backoff)
      BY <3>3, <2>1, BackOffTyped DEF TInv
    <3> QED
      BY <2>4, <3>1, <3>2, <3>3 DEF AfterConnection
  <2> QED
    BY <2>2, <2>3, <2>4 DEF Disconnect, Stall
<1>2. /\ refreshed' \in {0, refreshed} /\ UNCHANGED <<wsBeat, idle, beat>>
      /\ UNCHANGED <<stop, scan, resync, fetched, tracked, rest, disk>>
  BY DEF Connect, Message, Disconnect, Stall, scanVars, resyncVars, files
<1>3. AgesType'
  BY <1>2, Bounds DEF TInv, AgesType, Never, WsWindow, ScanWindow
<1> QED
  BY <1>1, <1>2, <1>3 DEF TInv, Flags, Stages

LEMMA ResyncTyped ==
    ASSUME TInv, ResyncWake \/ Seed \/ BatchEnds \/ CancelResync
    PROVE  TInv'
<1>1. /\ UNCHANGED <<stop, scan, link, backoff, tracked, beat, idle, rest, disk>>
      /\ refreshed' \in {0, refreshed}
  BY DEF ResyncWake, Seed, BatchEnds, CancelResync, scanVars, linkVars, files
<1>2. /\ Timers' /\ resync' \in {"sleep", "stale", "full", "ended"} /\ fetched' \in BOOLEAN
      /\ wsBeat' \in Never..WsWindow + 1
  <2>1. CASE Seed
    BY <2>1 DEF Seed, TInv, Timers, Stages, AgesType, files, LongestSleep
  <2>2. CASE /\ ResyncEnds
             /\ UNCHANGED <<fetched, wsBeat>>
    <3>1. Forever \in Times /\ "resync" \in Tasks /\ "resync" # "link"
      BY DEF Times, Tasks
    <3>2. Timers'
      BY <2>2, <3>1, SetTyped DEF ResyncEnds, TInv
    <3> QED
      BY <2>2, <3>2 DEF ResyncEnds, TInv, Flags, AgesType
  <2>3. CASE Fetch("stale")
    BY <2>3, FetchTyped
  <2>4. CASE FullIfDue /\ UNCHANGED <<stop, tracked, refreshed, idle, disk>>
    BY <2>4, FullIfDueTyped
  <2>5. CASE Publish /\ UNCHANGED <<stop, tracked, refreshed, idle, disk, fetched>>
    BY <2>5, PublishTyped DEF TInv, Flags
  <2>6. CASE ResyncWake
    BY <2>6, <1>1, <2>2, <2>3, <2>4 DEF ResyncWake
  <2>7. CASE BatchEnds
    BY <2>7, <1>1, <2>4, <2>5 DEF BatchEnds
  <2>8. CASE CancelResync
    BY <2>8, <2>2 DEF CancelResync, files
  <2> QED
    BY <2>1, <2>6, <2>7, <2>8
<1>3. AgesType'
  BY <1>1, <1>2, Bounds DEF TInv, AgesType, Never, WsWindow, ScanWindow
<1> QED
  BY <1>1, <1>2, <1>3 DEF TInv, Flags, Stages, BackoffType, LargestBackoff

LEMMA TickTyped ==
    ASSUME TInv, Tick
    PROVE  TInv'
<1>1. DOMAIN left = Tasks /\ left \in [Tasks -> Times] /\ left["link"] <= LongestSleep
  BY DEF TInv, Timers
<1>2. left' = [task \in Tasks |-> IF left[task] = Forever THEN Forever ELSE left[task] - 1]
  BY <1>1 DEF Tick
<1>3. \A task \in Tasks : left[task] # 0 /\ left[task] \in Times
  BY <1>1 DEF Tick
<1>4. left' \in [Tasks -> Times]
  BY <1>2, <1>3 DEF Times, Forever
<1>5. left'["link"] <= LongestSleep
  BY <1>1, <1>2, <1>3, Bounds DEF Tasks, Times, Forever
<1>6. AgesType'
  <2>1. refreshed' = Aged(WsWindow, refreshed) /\ wsBeat' = Aged(WsWindow, wsBeat)
        /\ beat' = Aged(ScanWindow, beat)
        /\ idle' = IF tracked THEN Aged(WsWindow, idle) ELSE 0
    BY DEF Tick
  <2>2. refreshed \in Never..WsWindow + 1 /\ wsBeat \in Never..WsWindow + 1
        /\ idle \in Never..WsWindow + 1 /\ beat \in Never..ScanWindow + 1
    BY DEF TInv, AgesType
  <2>3. refreshed' \in Never..WsWindow + 1 /\ wsBeat' \in Never..WsWindow + 1
        /\ beat' \in Never..ScanWindow + 1
    BY <2>1, <2>2, AgedWithin, Bounds
  <2>4. idle' \in Never..WsWindow + 1
    BY <2>1, <2>2, AgedWithin, Bounds DEF Never
  <2> QED
    BY <2>3, <2>4 DEF AgesType, WsWindow, ScanWindow
<1> QED
  BY <1>4, <1>5, <1>6 DEF Tick, TInv, Flags, Timers, Stages, BackoffType, LongestSleep, LargestBackoff

\* The bounds hold throughout.
LEMMA TypesKept == Spec => []TInv
<1>1. Init => TInv
  <2> SUFFICES ASSUME Init PROVE TInv
    OBVIOUS
  <2>1. Timers
    BY Bounds DEF Init, Timers, Tasks, Times
  <2>2. Flags /\ Stages
    BY DEF Init, Flags, Stages
  <2>3. BackoffType
    BY Bounds DEF Init, BackoffType
  <2>4. AgesType
    BY Bounds DEF Init, AgesType, Never
  <2> QED
    BY <2>1, <2>2, <2>3, <2>4 DEF TInv
<1>2. TInv /\ [Next]_vars => TInv'
  <2> SUFFICES ASSUME TInv, [Next]_vars PROVE TInv'
    OBVIOUS
  <2>1. CASE UNCHANGED vars
    BY <2>1 DEF vars, scanVars, linkVars, resyncVars, files, TInv, Flags, Timers, Stages,
            BackoffType, AgesType, LongestSleep, LargestBackoff, WsWindow, ScanWindow
  <2> QED
    BY <2>1, ScannerTyped, StreamTyped, ResyncTyped, TickTyped DEF Next, Scanner, Stream, Resync
<1> QED
  BY <1>1, <1>2, PTL DEF Spec

(* Timers, back-off and ages stay within their bounds in every run: a      *)
(* back-off doubles no further than its cap and its sleep, jitter          *)
(* included, is never longer (StreamingBooks._backoff_sleep), and the      *)
(* moment in a heartbeat file is one the scanner has seen.                 *)
THEOREM TypeCorrect == Spec => []TypeOK
<1>1. TInv => TypeOK
  BY DEF TInv, Flags, Timers, Stages, BackoffType, AgesType, TypeOK, Tasks, Times,
         LongestSleep, LargestBackoff
<1> QED
  BY <1>1, TypesKept, PTL

-----------------------------------------------------------------------------
(* A silent feed does not make a scanner look dead while its resync works. *)
(* The invariant (Paced) follows one round of the resync loop: how old the *)
(* refresh is that a batch, or a turn without one, will publish, and how   *)
(* old the published one has become since.                                 *)

Steady == rest /\ disk /\ ~stop /\ idle = Never

\* The oldest refresh that is published: of a turn in which no full resync is due, or of
\* the first book of a full one.
Oldest == Max({ResyncInterval - 1, LongestResync})

\* A turn has time for both batches before the window ends.
BatchesFit == Oldest + StaleCheck + 2 * LongestResync <= WsWindow

\* At most so much time has passed since the last refresh was published.
SinceWritten ==
    (IF resync = "sleep" THEN StaleCheck
     ELSE IF resync = "stale" THEN StaleCheck + LongestResync
     ELSE StaleCheck + 2 * LongestResync) - left["resync"]

FreshSinceFull ==
    sinceFull < ResyncInterval /\ (resync = "full" => fetched) => refreshed \in 0 .. sinceFull

FreshInBatch ==
    resync = "full" /\ fetched => refreshed \in 0 .. LongestResync - left["resync"]

Timed == left["resync"] \in Nat /\ (resync = "full" => left["resync"] <= LongestResync)

Paced == FreshSinceFull /\ FreshInBatch /\ Timed /\ wsBeat <= Oldest + SinceWritten

\* The loops end only when they are stopped.
EndsStopped == link = "ended" \/ resync = "ended" => stop

HInv == sinceFull \in Nat /\ EndsStopped /\ (Steady => Paced)

\* What the proof uses of the types.
LEMMA PaceTypes ==
    ASSUME TInv, IInv, HInv, Steady
    PROVE  /\ tracked = TRUE /\ resync \in {"sleep", "stale", "full"} /\ link # "ended"
           /\ left["resync"] \in Nat /\ fetched \in BOOLEAN
           /\ refreshed \in Never .. WsWindow + 1 /\ wsBeat \in Never .. WsWindow + 1
           /\ sinceFull \in Nat /\ WsWindow \in Nat
<1>1. tracked \in BOOLEAN /\ fetched \in BOOLEAN
  BY DEF TInv, Flags
<1>2. tracked
  BY <1>1 DEF IInv, IdleNow, Steady, Never
<1>3. resync # "ended" /\ link # "ended"
  BY DEF HInv, EndsStopped, Steady
<1>4. left["resync"] \in Nat
  BY DEF HInv, Paced, Timed
<1> QED
  BY <1>1, <1>2, <1>3, <1>4, Bounds DEF TInv, Stages, AgesType, HInv

LEMMA OldestIs ==
    /\ Oldest \in Nat /\ ResyncInterval - 1 <= Oldest /\ LongestResync <= Oldest
    /\ ResyncInterval \in Nat \ {0} /\ StaleCheck \in Nat /\ LongestResync \in Nat
<1>1. ResyncInterval \in Nat \ {0} /\ LongestResync \in Nat /\ StaleCheck \in Nat
  BY RunnerAssumption
<1>2. ResyncInterval - 1 \in Nat
  BY <1>1
<1> QED
  BY <1>1, <1>2, MaxOfTwo DEF Oldest

\* Nothing becomes steady again.
LEMMA SteadyBefore ==
    ASSUME TInv, [Next]_vars, Steady'
    PROVE  Steady
<1>1. rest' = rest /\ disk' = disk
  BY DEF Next, Scanner, Stream, Resync, SetTokens, PassEnds, SettleEnds, Wake, Close, Signal, Connect,
         Message, Disconnect, Stall, ResyncWake, Seed, BatchEnds, CancelResync, Tick, vars
<1>2. stop => stop'
  <2>1. AfterAttempt => (stop => stop')
    BY DEF AfterAttempt
  <2> QED
    BY <2>1 DEF Next, Scanner, Stream, Resync, SetTokens, PassEnds, SettleEnds, Wake, Close, Signal,
         Connect, Message, Disconnect, Stall, ResyncWake, Seed, BatchEnds, CancelResync, Tick, vars
<1>3. idle' = Never => idle = Never
  <2>1. CASE Tick
    <3>1. idle' = IF tracked THEN Aged(WsWindow, idle) ELSE 0
      BY <2>1 DEF Tick
    <3>2. idle \in Ages
      BY Bounds DEF TInv, AgesType, Ages, Never
    <3> QED
      BY <3>1, <3>2, AgedType DEF Never
  <2>2. CASE ~Tick
    BY <2>2 DEF Next, Scanner, Stream, Resync, SetTokens, PassEnds, SettleEnds, Wake, Close, Signal,
         Connect, Message, Disconnect, Stall, ResyncWake, Seed, BatchEnds, CancelResync, vars, Never
  <2> QED
    BY <2>1, <2>2
<1> QED
  BY <1>1, <1>2, <1>3 DEF Steady

\* A timer of another task.
LEMMA SetOther ==
    ASSUME TInv, NEW task \in Tasks, task # "resync", NEW time, Set(task, time)
    PROVE  left'["resync"] = left["resync"]
BY DEF TInv, Timers, Set, Tasks

\* A step that concerns the resync at most by a refresh.
LEMMA RefreshKeeps ==
    ASSUME TInv, IInv, HInv, [Next]_vars, EndsStopped',
           UNCHANGED <<resync, sinceFull, fetched, wsBeat>>, left'["resync"] = left["resync"],
           refreshed' \in {0, refreshed}
    PROVE  HInv'
<1>1. ASSUME Steady'
      PROVE  Paced'
  <2>1. Steady
    BY <1>1, SteadyBefore
  <2>2. /\ left["resync"] \in Nat /\ sinceFull \in Nat /\ LongestResync \in Nat
        /\ FreshSinceFull /\ FreshInBatch /\ wsBeat <= Oldest + SinceWritten
    BY <2>1, PaceTypes, OldestIs DEF HInv, Paced
  <2>3. FreshSinceFull'
    BY <2>2 DEF FreshSinceFull
  <2>4. Timed'
    BY <2>1 DEF HInv, Paced, Timed
  <2>5. resync = "full" /\ fetched => refreshed' \in 0 .. LongestResync - left["resync"]
    BY <2>2 DEF FreshInBatch
  <2> QED
    BY <2>2, <2>3, <2>4, <2>5 DEF FreshInBatch, Paced, SinceWritten, Oldest
<1> QED
  BY <1>1 DEF HInv

LEMMA ScannerKeeps ==
    ASSUME TInv, IInv, HInv, [Next]_vars, SetTokens \/ PassEnds \/ SettleEnds \/ Wake \/ Close \/ Signal
    PROVE  HInv'
<1>1. left'["resync"] = left["resync"] /\ (stop => stop')
  <2>1. "scan" \in Tasks /\ "scan" # "resync"
    BY DEF Tasks
  <2>2. ASSUME AfterAttempt
        PROVE  left'["resync"] = left["resync"] /\ (stop => stop')
    BY <2>1, <2>2, SetOther DEF AfterAttempt
  <2>3. CASE SetTokens \/ Close
    BY <2>3 DEF SetTokens, Close
  <2>4. CASE PassEnds
    BY <2>1, <2>2, <2>4, SetOther DEF PassEnds
  <2>5. CASE SettleEnds
    BY <2>2, <2>5 DEF SettleEnds
  <2>6. CASE Wake
    BY <2>1, <2>6, SetOther DEF Wake
  <2>7. CASE Signal
    BY <2>1, <2>7, SetOther DEF Signal
  <2> QED
    BY <2>3, <2>4, <2>5, <2>6, <2>7
<1>2. UNCHANGED <<resync, sinceFull, fetched, wsBeat, refreshed, link>>
  BY DEF SetTokens, PassEnds, SettleEnds, Wake, Close, Signal, linkVars, resyncVars, files
<1>3. EndsStopped'
  BY <1>1, <1>2 DEF HInv, EndsStopped
<1> QED
  BY <1>1, <1>2, <1>3, RefreshKeeps

LEMMA StreamKeeps ==
    ASSUME TInv, IInv, HInv, [Next]_vars, Connect \/ Message \/ Disconnect \/ Stall
    PROVE  HInv'
<1>1. left'["resync"] = left["resync"] /\ (link' = "ended" => stop)
  <2>1. "link" \in Tasks /\ "link" # "resync"
    BY DEF Tasks
  <2>2. ASSUME NEW b, BackOff(b)
        PROVE  left'["resync"] = left["resync"] /\ link' # "ended"
    BY <2>1, <2>2, SetOther DEF BackOff
  <2>3. ASSUME LinkEnds
        PROVE  left'["resync"] = left["resync"]
    BY <2>1, <2>3, SetOther DEF LinkEnds
  <2>4. CASE Connect
    BY <2>1, <2>2, <2>3, <2>4, SetOther DEF Connect
  <2>5. CASE Message
    BY <2>1, <2>3, <2>5, SetOther DEF Message
  <2>6. ASSUME AfterConnection
        PROVE  left'["resync"] = left["resync"] /\ (link' = "ended" => stop)
    BY <2>2, <2>3, <2>6 DEF AfterConnection
  <2>7. CASE Disconnect \/ Stall
    BY <2>6, <2>7 DEF Disconnect, Stall
  <2> QED
    BY <2>4, <2>5, <2>7
<1>2. UNCHANGED <<resync, sinceFull, fetched, wsBeat, stop>> /\ refreshed' \in {0, refreshed}
  BY DEF Connect, Message, Disconnect, Stall, resyncVars, files
<1>3. EndsStopped'
  BY <1>1, <1>2 DEF HInv, EndsStopped
<1> QED
  BY <1>1, <1>2, <1>3, RefreshKeeps

LEMMA SeedKeeps ==
    ASSUME TInv, IInv, HInv, [Next]_vars, Seed
    PROVE  HInv'
<1>1. UNCHANGED <<stop, left, link, resync, sinceFull, wsBeat>> /\ refreshed' = 0 /\ fetched' = TRUE
  BY DEF Seed, linkVars, files
<1>2. EndsStopped' /\ sinceFull' \in Nat
  BY <1>1 DEF HInv, EndsStopped
<1>3. ASSUME Steady'
      PROVE  Paced'
  <2>1. Steady
    BY <1>3, SteadyBefore
  <2>2. /\ left["resync"] \in Nat /\ sinceFull \in Nat /\ LongestResync \in Nat
        /\ Timed /\ wsBeat <= Oldest + SinceWritten
    BY <2>1, PaceTypes, OldestIs DEF HInv, Paced
  <2>3. FreshSinceFull' /\ FreshInBatch' /\ Timed'
    BY <1>1, <2>2 DEF FreshSinceFull, FreshInBatch, Timed
  <2> QED
    BY <1>1, <2>2, <2>3 DEF Paced, SinceWritten, Oldest
<1> QED
  BY <1>2, <1>3 DEF HInv

\* The resync loop publishes a refresh that is young enough and sleeps.
LEMMA PublishKeeps ==
    ASSUME TInv, IInv, HInv, [Next]_vars, Publish, EndsStopped', sinceFull' \in Nat,
           UNCHANGED <<stop, tracked, refreshed, sinceFull, fetched, disk>>,
           resync # "full" => sinceFull < ResyncInterval,
           resync = "full" /\ Steady => fetched
    PROVE  HInv'
<1>1. ASSUME Steady'
      PROVE  Paced'
  <2>1. Steady
    BY <1>1, SteadyBefore
  <2>2. /\ left["resync"] \in Nat /\ sinceFull \in Nat /\ tracked = TRUE
        /\ FreshSinceFull /\ FreshInBatch /\ resync \in {"sleep", "stale", "full"}
        /\ disk = TRUE /\ stop # TRUE
    BY <2>1, PaceTypes DEF HInv, Paced, Steady, TInv, Flags
  <2>3. refreshed \in 0 .. Oldest
    <3>1. CASE resync = "full"
      BY <2>1, <2>2, <3>1, OldestIs DEF FreshInBatch
    <3>2. CASE resync # "full"
      BY <2>2, <3>2, OldestIs DEF FreshSinceFull
    <3> QED
      BY <3>1, <3>2
  <2>4. wsBeat' = refreshed
    BY <2>2, <2>3, OldestIs DEF Publish, Freshest, Written, Never
  <2>5. resync' = "sleep" /\ left'["resync"] = StaleCheck
    BY <2>2 DEF Publish, Set, TInv, Timers, Tasks
  <2>6. FreshSinceFull'
    BY <2>1, <2>2 DEF FreshSinceFull
  <2>7. FreshInBatch' /\ Timed'
    BY <2>5, OldestIs DEF FreshInBatch, Timed
  <2>8. SinceWritten' = 0
    BY <2>5, OldestIs DEF SinceWritten
  <2> QED
    BY <2>3, <2>4, <2>6, <2>7, <2>8, OldestIs DEF Paced, Oldest
<1> QED
  BY <1>1 DEF HInv

\* A batch starts in time.
LEMMA FetchKeeps ==
    ASSUME TInv, IInv, HInv, [Next]_vars, NEW batch \in {"stale", "full"}, Fetch(batch),
           EndsStopped', sinceFull' \in Nat, UNCHANGED refreshed,
           resync = "sleep" => left["resync"] = 0,
           resync # "full",
           batch = "stale" => resync = "sleep" /\ sinceFull' = sinceFull
    PROVE  HInv'
<1>1. ASSUME Steady'
      PROVE  Paced'
  <2>1. Steady
    BY <1>1, SteadyBefore
  <2>2. /\ left["resync"] \in Nat /\ sinceFull \in Nat /\ resync \in {"sleep", "stale"}
        /\ FreshSinceFull /\ wsBeat <= Oldest + SinceWritten /\ wsBeat \in Int
    BY <2>1, PaceTypes DEF HInv, Paced
  <2>3. resync' = batch /\ left'["resync"] = LongestResync /\ fetched' = FALSE /\ wsBeat' = wsBeat
    BY DEF Fetch, Set, TInv, Timers, Tasks
  <2>4. FreshSinceFull' /\ FreshInBatch' /\ Timed'
    BY <2>2, <2>3, OldestIs DEF FreshSinceFull, FreshInBatch, Timed
  <2>5. SinceWritten \in Int /\ SinceWritten' \in Int /\ SinceWritten <= SinceWritten'
    <3>1. CASE batch = "stale"
      BY <2>2, <2>3, <3>1, OldestIs DEF SinceWritten
    <3>2. CASE batch = "full"
      BY <2>2, <2>3, <3>2, OldestIs DEF SinceWritten
    <3> QED
      BY <3>1, <3>2
  <2> QED
    BY <2>2, <2>3, <2>4, <2>5, OldestIs DEF Paced, Oldest
<1> QED
  BY <1>1 DEF HInv

LEMMA FullIfDueKeeps ==
    ASSUME TInv, IInv, HInv, [Next]_vars, FullIfDue, UNCHANGED <<stop, link, tracked, refreshed, disk>>,
           resync \in {"sleep", "stale"}, resync = "sleep" => left["resync"] = 0
    PROVE  HInv'
<1>1. resync' = "ended" => stop
  BY DEF FullIfDue, Publish, Fetch
<1>2. EndsStopped' /\ sinceFull' \in Nat
  BY <1>1 DEF FullIfDue, HInv, EndsStopped
<1>3. CASE Fetch("full")
  BY <1>2, <1>3, FetchKeeps
<1>4. CASE sinceFull < ResyncInterval /\ Publish /\ UNCHANGED <<sinceFull, fetched>>
  BY <1>2, <1>4, PublishKeeps
<1>5. CASE ~tracked
  <2>1. ~Steady'
    <3>1. ~Steady
      BY <1>5, PaceTypes
    <3> QED
      BY <3>1, SteadyBefore
  <2> QED
    BY <1>2, <2>1 DEF HInv
<1> QED
  BY <1>3, <1>4, <1>5, OldestIs DEF FullIfDue, HInv

LEMMA ResyncKeeps ==
    ASSUME TInv, IInv, HInv, [Next]_vars, ResyncWake \/ BatchEnds \/ CancelResync
    PROVE  HInv'
<1>1. UNCHANGED <<stop, link, tracked, refreshed, disk>>
  BY DEF ResyncWake, BatchEnds, CancelResync, linkVars
<1>2. ASSUME stop, UNCHANGED <<stop, sinceFull>>
      PROVE  HInv'
  BY <1>2 DEF HInv, EndsStopped, Steady
<1>3. CASE ResyncWake
  <2>1. resync = "sleep" /\ left["resync"] = 0
    BY <1>3 DEF ResyncWake
  <2>2. CASE stop /\ ResyncEnds /\ UNCHANGED sinceFull
    BY <1>1, <1>2, <2>2
  <2>3. CASE ~stop /\ Fetch("stale") /\ UNCHANGED sinceFull
    <3>1. EndsStopped' /\ sinceFull' \in Nat
      BY <1>1, <2>3 DEF Fetch, HInv, EndsStopped
    <3> QED
      BY <1>1, <2>1, <2>3, <3>1, FetchKeeps
  <2>4. CASE FullIfDue
    BY <1>1, <2>1, <2>4, FullIfDueKeeps
  <2> QED
    BY <1>3, <2>2, <2>3, <2>4 DEF ResyncWake
<1>4. CASE BatchEnds
  <2>1. CASE resync = "stale" /\ FullIfDue
    BY <1>1, <2>1, FullIfDueKeeps
  <2>2. CASE resync = "full" /\ Publish /\ UNCHANGED <<sinceFull, fetched>>
    <3>1. Steady => fetched
      BY <1>4, PaceTypes DEF BatchEnds, Steady
    <3>2. EndsStopped' /\ sinceFull' \in Nat
      BY <1>1, <2>2 DEF Publish, HInv, EndsStopped
    <3> QED
      BY <1>1, <2>2, <3>1, <3>2, PublishKeeps
  <2> QED
    BY <1>4, <2>1, <2>2 DEF BatchEnds
<1>5. CASE CancelResync
  <2>1. stop /\ UNCHANGED sinceFull
    BY <1>5 DEF CancelResync, HInv, EndsStopped
  <2> QED
    BY <1>1, <1>2, <2>1
<1> QED
  BY <1>3, <1>4, <1>5

\* Time passes for the refresh, the timers and the file alike.
LEMMA TickKeeps ==
    ASSUME TInv, IInv, HInv, [Next]_vars, Tick
    PROVE  HInv'
<1>1. UNCHANGED <<stop, link, resync, fetched>>
  BY DEF Tick
<1>2. sinceFull' = IF ResyncInterval <= sinceFull + 1 THEN ResyncInterval ELSE sinceFull + 1
  <2>1. sinceFull' = Min({ResyncInterval, sinceFull + 1})
    BY DEF Tick, Upto
  <2>2. ResyncInterval \in Int /\ sinceFull + 1 \in Int
    BY OldestIs DEF HInv
  <2> QED
    BY <2>1, <2>2, MinOfTwo
<1>3. EndsStopped' /\ sinceFull' \in Nat
  BY <1>1, <1>2, OldestIs DEF HInv, EndsStopped
<1>4. ASSUME Steady'
      PROVE  Paced'
  <2>1. Steady
    BY <1>4, SteadyBefore
  <2>2. /\ left["resync"] \in Nat /\ sinceFull \in Nat /\ fetched \in BOOLEAN
        /\ refreshed \in Never .. WsWindow + 1 /\ wsBeat \in Never .. WsWindow + 1 /\ WsWindow \in Nat
        /\ FreshSinceFull /\ FreshInBatch /\ Timed /\ wsBeat <= Oldest + SinceWritten
    BY <2>1, PaceTypes DEF HInv, Paced
  <2>3. left["resync"] > 0 /\ left'["resync"] = left["resync"] - 1
    BY <2>2 DEF Tick, TInv, Timers, Tasks, Forever
  <2>4. ASSUME NEW age \in Never .. WsWindow + 1
        PROVE  /\ Aged(WsWindow, age) <= age + 1
               /\ age # Never => Aged(WsWindow, age) \in Nat
    <3>1. CASE age = Never
      BY <3>1 DEF Aged, Never
    <3>2. CASE age # Never
      <4>1. Aged(WsWindow, age) = IF WsWindow + 1 <= age + 1 THEN WsWindow + 1 ELSE age + 1
        BY <2>2, <3>2, MinOfTwo DEF Aged, Upto, Never
      <4> QED
        BY <2>2, <3>2, <4>1 DEF Never
    <3> QED
      BY <3>1, <3>2
  <2>5. refreshed' = Aged(WsWindow, refreshed) /\ wsBeat' = Aged(WsWindow, wsBeat)
    BY DEF Tick
  <2>6. /\ wsBeat' <= wsBeat + 1 /\ wsBeat' \in Int
        /\ refreshed \in Nat => refreshed' \in Nat /\ refreshed' <= refreshed + 1
    <3>1. wsBeat' <= wsBeat + 1 /\ refreshed' <= refreshed + 1
      BY <2>2, <2>4, <2>5
    <3>2. wsBeat' \in Int
      BY <2>2, <2>5, AgedWithin DEF Never
    <3>3. refreshed \in Nat => refreshed' \in Nat
      BY <2>2, <2>4, <2>5 DEF Never
    <3> QED
      BY <3>1, <3>2, <3>3
  <2>7. FreshSinceFull'
    BY <1>1, <1>2, <2>2, <2>6, OldestIs DEF FreshSinceFull
  <2>8. FreshInBatch'
    BY <1>1, <2>2, <2>3, <2>6, OldestIs DEF FreshInBatch, Timed
  <2>9. Timed'
    BY <1>1, <2>2, <2>3, OldestIs DEF Timed
  <2>10. SinceWritten \in Int /\ SinceWritten' = SinceWritten + 1
    BY <1>1, <2>2, <2>3, OldestIs DEF SinceWritten
  <2>11. wsBeat' <= Oldest + SinceWritten'
    BY <2>2, <2>6, <2>10, OldestIs DEF Never
  <2> QED
    BY <2>7, <2>8, <2>9, <2>11 DEF Paced, Oldest
<1> QED
  BY <1>3, <1>4 DEF HInv

(* When a turn of the resync loop has time for both of its batches before  *)
(* the window ends (BatchesFit), a running scanner with a working REST API *)
(* is never reported dead over its books, however silent its feed: the     *)
(* file holds a refresh of the last turn (StreamingBooks._resync_loop).    *)
THEOREM MaskedHealthy == ASSUME BatchesFit PROVE Spec => []MaskedFeedIsHealthy
<1>1. Init => IInv /\ HInv
  <2> SUFFICES ASSUME Init PROVE HInv
    BY InitInv
  <2>1. sinceFull \in Nat /\ EndsStopped
    BY OldestIs DEF Init, EndsStopped
  <2>2. FreshSinceFull /\ FreshInBatch /\ Timed
    BY OldestIs DEF Init, FreshSinceFull, FreshInBatch, Timed
  <2>3. wsBeat <= Oldest + SinceWritten
    BY OldestIs DEF Init, SinceWritten, Never
  <2> QED
    BY <2>1, <2>2, <2>3 DEF HInv, Paced
<1>2. TInv /\ IInv /\ HInv /\ [Next]_vars => IInv' /\ HInv'
  <2> SUFFICES ASSUME TInv, IInv, HInv, [Next]_vars PROVE HInv'
    BY NextInv
  <2>1. CASE UNCHANGED vars
    BY <2>1 DEF vars, scanVars, linkVars, resyncVars, files, HInv, EndsStopped, Steady, Paced,
            FreshSinceFull, FreshInBatch, Timed, SinceWritten, Oldest
  <2> QED
    BY <2>1, ScannerKeeps, StreamKeeps, SeedKeeps, ResyncKeeps, TickKeeps
    DEF Next, Scanner, Stream, Resync
<1>3. TInv /\ IInv /\ HInv => MaskedFeedIsHealthy
  <2> SUFFICES ASSUME TInv, IInv, HInv, Steady PROVE wsBeat <= WsWindow
    BY DEF MaskedFeedIsHealthy, Steady
  <2>1. /\ resync \in {"sleep", "stale", "full"} /\ left["resync"] \in Nat
        /\ wsBeat \in Never .. WsWindow + 1 /\ WsWindow \in Nat /\ wsBeat <= Oldest + SinceWritten
    BY PaceTypes DEF HInv, Paced
  <2>2. SinceWritten \in Int /\ SinceWritten <= StaleCheck + 2 * LongestResync
    BY <2>1, OldestIs DEF SinceWritten
  <2> QED
    BY <2>1, <2>2, OldestIs DEF BatchesFit, Never
<1> QED
  BY <1>1, <1>2, <1>3, TypesKept, PTL DEF Spec
=============================================================================
