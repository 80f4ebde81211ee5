------------------------------ MODULE Requests -------------------------------
(***************************************************************************)
(* The REST clients' pacing: BaseHTTPClient._get_json (clients/base.py)    *)
(* through with_backoff and one endpoint's TokenBucket                     *)
(* (clients/ratelimit.py), for concurrent callers and a server that        *)
(* answers, fails or throttles as it likes.                                *)
(*                                                                         *)
(* Time is discrete.  A token is counted in Window parts, so that a tick   *)
(* refills Limit of them and all arithmetic is exact.                      *)
(***************************************************************************)
EXTENDS Integers, Sequences, FiniteSets, FiniteSetsExt

CONSTANTS
    Callers,
    Limit, Window,             \* the endpoint's Quota
    MaxAttempts, BaseDelay, MaxDelay,
    Timeout                    \* of one request

ASSUME RequestsAssumption ==
    {Limit, Window, MaxAttempts, BaseDelay, MaxDelay, Timeout} \subseteq Nat \ {0}

VARIABLES
    pc,        \* caller -> "idle", "waiting", "asked", "backoff"
    attempt,   \* caller -> failed attempts of its call
    left,      \* caller -> time left of its sleep or its request
    queue,     \* the callers waiting for the bucket's lock; its head holds it
    tokens, since,  \* the bucket's count, and the time since it was updated
    sent       \* history: age -> requests sent at that moment, over a window

vars == <<pc, attempt, left, queue, tokens, since, sent>>

Capacity == Limit * Window

Init ==
    /\ pc = [c \in Callers |-> "idle"]
    /\ attempt = [c \in Callers |-> 0]
    /\ left = [c \in Callers |-> 0]
    /\ queue = <<>> /\ tokens = Capacity /\ since = 0
    /\ sent = [age \in 0..Window - 1 |-> 0]

\* A client's get: its first attempt asks for a token.
Call(c) ==
    /\ pc[c] = "idle"
    /\ pc' = [pc EXCEPT ![c] = "waiting"]
    /\ attempt' = [attempt EXCEPT ![c] = 0]
    /\ queue' = Append(queue, c)
    /\ UNCHANGED <<left, tokens, since, sent>>

\* Variant (seeded fault): idle time earns more than a window's burst.
RefilledForEver == tokens + since * Limit

Refilled == Min({Capacity, tokens + since * Limit})

\* A turn of acquire: a token is taken and the request sent, or the holder of the
\* lock sleeps until one has been refilled.
Acquire(c) ==
    /\ queue # <<>> /\ c = Head(queue) /\ left[c] = 0
    /\ since' = 0
    /\ IF Refilled >= Window
       THEN /\ tokens' = Refilled - Window
            /\ queue' = Tail(queue)
            /\ pc' = [pc EXCEPT ![c] = "asked"]
            /\ left' = [left EXCEPT ![c] = Timeout]
            /\ sent' = [sent EXCEPT ![0] = @ + 1]
       ELSE /\ tokens' = Refilled
            /\ left' = [left EXCEPT ![c] = (Window - Refilled + Limit - 1) \div Limit]
            /\ UNCHANGED <<queue, pc, sent>>
    /\ UNCHANGED attempt

\* The answer, or an exception that is not retried.
Done(c) ==
    /\ pc[c] = "asked"
    /\ pc' = [pc EXCEPT ![c] = "idle"]
    /\ left' = [left EXCEPT ![c] = 0]
    /\ UNCHANGED <<attempt, queue, tokens, since, sent>>

\* Variant (seeded fault): the count starts anew with every attempt.
Uncounted(c) == 1

Failures(c) == attempt[c] + 1

Ceiling(n) == Min({MaxDelay, BaseDelay * 2 ^ (n - 1)})

\* 429, 5xx or a transport error: the last attempt raises, others sleep with full jitter.
Retryable(c) ==
    /\ pc[c] = "asked"
    /\ attempt' = [attempt EXCEPT ![c] = Failures(c)]
    /\ IF Failures(c) >= MaxAttempts
       THEN pc' = [pc EXCEPT ![c] = "idle"] /\ left' = [left EXCEPT ![c] = 0]
       ELSE /\ pc' = [pc EXCEPT ![c] = "backoff"]
            /\ \E delay \in 0..Ceiling(attempt'[c]) : left' = [left EXCEPT ![c] = delay]
    /\ UNCHANGED <<queue, tokens, since, sent>>

\* The next attempt pays for a token like the first.
Retry(c) ==
    /\ pc[c] = "backoff" /\ left[c] = 0
    /\ pc' = [pc EXCEPT ![c] = "waiting"]
    /\ queue' = Append(queue, c)
    /\ UNCHANGED <<attempt, left, tokens, since, sent>>

\* Time does not pass a timer that is due or a free lock's next holder.
Due(c) ==
    /\ left[c] = 0
    /\ \/ pc[c] \in {"asked", "backoff"}
       \/ queue # <<>> /\ c = Head(queue)

Tick ==
    /\ \A c \in Callers : ~Due(c)
    /\ left' = [c \in Callers |-> IF left[c] = 0 THEN 0 ELSE left[c] - 1]
    /\ since' = Min({Window, since + 1})
    /\ sent' = [age \in DOMAIN sent |-> IF age = 0 THEN 0 ELSE sent[age - 1]]
    /\ UNCHANGED <<pc, attempt, queue, tokens>>

Next == Tick \/ \E c \in Callers : Call(c) \/ Acquire(c) \/ Done(c) \/ Retryable(c) \/ Retry(c)

\* The event loop runs what is due; a request ends within its timeout.
Fairness ==
    /\ WF_vars(Tick)
    /\ \A c \in Callers :
         WF_vars(Acquire(c)) /\ WF_vars(Done(c) \/ Retryable(c)) /\ WF_vars(Retry(c))

Spec == Init /\ [][Next]_vars /\ Fairness

-----------------------------------------------------------------------------
(* Over any window the requests sent, retries included, are at most a full *)
(* bucket and what the window refills: twice the quota, and never more     *)
(* after an idle time or because callers retry together.                   *)
SentAtMostTwiceQuota == MapThenSumSet(LAMBDA age : sent[age], DOMAIN sent) <= 2 * Limit

(* Every call ends, by an answer or by the exception of its last attempt,  *)
(* however many callers share the bucket and even if the server never      *)
(* recovers: the lock is first come first served.                          *)
CallsEnd == \A c \in Callers : pc[c] = "waiting" ~> pc[c] = "idle"
=============================================================================
