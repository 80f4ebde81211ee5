------------------------------ MODULE BookSync -------------------------------
(***************************************************************************)
(* StreamingBooks (src/polyarb/engine/streaming.py) keeping the order-book *)
(* cache in step with the exchange: the stream loop feeds it WebSocket     *)
(* frames, the resync loop REST snapshots, and the scanner changes the     *)
(* tracked set under both.  The exchange and the network are external.     *)
(*                                                                         *)
(* All of it runs on one event loop, so a step is the code between two     *)
(* awaits.  Frames carry no hash here (RevertDetection covers hashes).     *)
(***************************************************************************)
EXTENDS BookCache, FiniteSets

CONSTANTS
    ResyncConcurrency,  \* _RESYNC_CONCURRENCY
    StrictClock,        \* TRUE: two changes of a book never share a millisecond
    MaxChanges,         \* bound: book changes at the exchange
    MaxChurn,           \* bound: set_tokens calls that change the set
    MaxLosses,          \* bound: deltas the exchange fails to send
    MaxFailures         \* bound: disconnects and failed REST fetches

ASSUME BookSyncAssumption ==
    /\ ResyncConcurrency \in Nat \ {0}
    /\ StrictClock \in BOOLEAN
    /\ MaxChanges \in Nat
    /\ MaxChurn \in Nat
    /\ MaxLosses \in Nat
    /\ MaxFailures \in Nat

VARIABLES
    \* external: the exchange and the network
    exch,      \* the true book of each token
    exchTs,    \* timestamp of its last change
    touched,   \* per level, timestamp of the last change of that level
    clock,     \* the exchange's clock, in milliseconds
    subs,      \* tokens the live connection is subscribed to
    wire,      \* frames sent on the live connection, not yet received
    \* the stream loop
    conn,      \* "down" (backing off), "opening" (handshake) or "up"
    want,      \* the token list the handshake will send
    control,   \* _control, queued (un)subscribe operations
    tracked,   \* _tracked and _token_ids
    stamped,   \* tokens with an entry in _last_update
    \* the resync loop
    phase,     \* "sleep", or the _resync_tokens call it awaits: "stale", "full"
    fullDone,  \* a full resync has run (last_full_resync # -inf)
    todo,      \* tokens of that call still waiting for the semaphore
    fetch,     \* per token: "idle", "sent" or "served"
    snapBook,  \* the book of a served, undelivered REST response
    snapTs,    \* its timestamp
    \* how much of each bound is used
    changes, churn, losses, failures

exchVars == <<exch, exchTs, touched, clock, changes>>
connVars == <<conn, want, control, subs, wire>>
resyncVars == <<phase, fullDone, todo, fetch, snapBook, snapTs>>
budgetVars == <<churn, losses, failures>>
vars == <<cacheVars, exchVars, connVars, tracked, stamped, resyncVars, budgetVars>>

-----------------------------------------------------------------------------
\* Frames and control operations.
BookFrame(tokens) ==
    [kind |-> "book", tokens |-> tokens,
     book |-> [t \in Tokens |-> IF t \in tokens THEN exch[t] ELSE EmptyBook],
     ts |-> [t \in Tokens |-> IF t \in tokens THEN exchTs[t] ELSE 0]]

Snaps(m) ==
    [t \in m.tokens |-> [ts |-> m.ts[t], book |-> m.book[t], hash |-> NoHash]]

DeltaFrame(t, l, time, b) ==
    [kind |-> "price_change", token |-> t, ts |-> time,
     entry |-> [level |-> l, size |-> b[l], hash |-> NoHash,
                best |-> [side \in Sides |-> Best(b, side)]]]

Dump(tokens) == IF tokens = {} THEN <<>> ELSE <<BookFrame(tokens)>>

Operation(op, tokens) ==
    IF tokens = {} THEN <<>> ELSE <<[operation |-> op, tokens |-> tokens]>>

InFlight == {t \in Tokens : fetch[t] # "idle"}

-----------------------------------------------------------------------------
Init ==
    /\ CacheInit
    /\ exch = [t \in Tokens |-> EmptyBook]
    /\ exchTs = [t \in Tokens |-> 0]
    /\ touched = [t \in Tokens |-> [l \in Levels |-> 0]]
    /\ clock = 0
    /\ tracked \in SUBSET Tokens
    /\ conn = "down" /\ want = {} /\ control = <<>> /\ subs = {} /\ wire = <<>>
    /\ stamped = {}
    /\ phase = "sleep" /\ fullDone = FALSE /\ todo = {}
    /\ fetch = [t \in Tokens |-> "idle"]
    /\ snapBook = [t \in Tokens |-> EmptyBook]
    /\ snapTs = [t \in Tokens |-> 0]
    /\ changes = 0 /\ churn = 0 /\ losses = 0 /\ failures = 0

-----------------------------------------------------------------------------
(* The exchange (external).                                                *)

\* A level of a book changes; subscribers are sent the delta, unless the
\* exchange loses it (the "missed delta" of bookcache.py:355-356).
Change(t, l, size, time, lost) ==
    LET b == [exch[t] EXCEPT ![l] = size]
    IN  /\ changes < MaxChanges
        /\ size # exch[t][l]
        /\ StrictClock => time > exchTs[t]
        /\ lost => losses < MaxLosses /\ t \in subs
        /\ changes' = changes + 1
        /\ losses' = IF lost THEN losses + 1 ELSE losses
        /\ clock' = time
        /\ exch' = [exch EXCEPT ![t] = b]
        /\ exchTs' = [exchTs EXCEPT ![t] = time]
        /\ touched' = [touched EXCEPT ![t][l] = time]
        /\ wire' = IF t \in subs /\ ~lost
                   THEN Append(wire, DeltaFrame(t, l, time, b))
                   ELSE wire
        /\ UNCHANGED <<cacheVars, conn, want, control, subs, tracked, stamped,
                       resyncVars, churn, failures>>

-----------------------------------------------------------------------------
(* The stream loop.                                                        *)

\* _stream_loop makes a connection attempt: the control queue is drained and
\* the current token list captured for the handshake.
Attempt ==
    /\ conn = "down"
    /\ conn' = "opening"
    /\ control' = <<>>
    /\ want' = tracked
    /\ UNCHANGED <<cacheVars, exchVars, subs, wire, tracked, stamped,
                   resyncVars, budgetVars>>

\* The handshake is through: the exchange subscribes the captured list and
\* sends its books in one frame.
Opened ==
    /\ conn = "opening"
    /\ conn' = "up"
    /\ subs' = want
    /\ wire' = Dump(want)
    /\ want' = {}
    /\ UNCHANGED <<cacheVars, exchVars, control, tracked, stamped,
                   resyncVars, budgetVars>>

\* MarketWebSocket.stream sends the next control operation.  A new
\* subscription is answered with the books of its tokens.
SendOp ==
    /\ conn = "up"
    /\ control # <<>>
    /\ control' = Tail(control)
    /\ LET op == Head(control)
       IN  IF op.operation = "subscribe"
           THEN /\ subs' = subs \cup op.tokens
                /\ wire' = wire \o Dump(op.tokens)
           ELSE /\ subs' = subs \ op.tokens
                /\ UNCHANGED wire
    /\ UNCHANGED <<cacheVars, exchVars, conn, want, tracked, stamped,
                   resyncVars, budgetVars>>

\* Variant: every token a frame names is stamped, whether it was applied or not.
IngestStampsAll ==
    /\ conn = "up"
    /\ wire # <<>>
    /\ wire' = Tail(wire)
    /\ LET m == Head(wire)
       IN  IF m.kind = "book"
           THEN /\ HandleBook(Snaps(m))
                /\ stamped' = stamped \cup m.tokens
           ELSE /\ HandlePriceChange(m.ts, [t \in {m.token} |-> m.entry])
                /\ stamped' = stamped \cup {m.token}
    /\ UNCHANGED <<exchVars, conn, want, control, subs, tracked,
                   resyncVars, budgetVars>>

\* _ingest: apply one frame and stamp the tokens it changed.  Nothing asks
\* whether the token is still tracked.
Ingest ==
    /\ conn = "up"
    /\ wire # <<>>
    /\ wire' = Tail(wire)
    /\ LET m == Head(wire)
       IN  IF m.kind = "book"
           THEN /\ HandleBook(Snaps(m))
                /\ stamped' = stamped \cup m.tokens
           ELSE /\ HandlePriceChange(m.ts, [t \in {m.token} |-> m.entry])
                /\ stamped' = stamped \cup ({m.token} \cap known)
    /\ UNCHANGED <<exchVars, conn, want, control, subs, tracked,
                   resyncVars, budgetVars>>

\* The connection, or the attempt to open one, ends: closed by the server, an
\* error, or dropped by the stall watchdog.  Undelivered frames are lost.
Disconnect ==
    /\ conn # "down"
    /\ failures < MaxFailures
    /\ failures' = failures + 1
    /\ conn' = "down"
    /\ subs' = {} /\ wire' = <<>> /\ want' = {}
    /\ UNCHANGED <<cacheVars, exchVars, control, tracked, stamped, resyncVars,
                   churn, losses>>

-----------------------------------------------------------------------------
\* Variant: operations are queued only while a connection is up.
SetTokensQueuesWhenUp(new) ==
    LET added == new \ tracked
        dropped == tracked \ new
    IN  /\ new # tracked
        /\ churn < MaxChurn
        /\ churn' = churn + 1
        /\ tracked' = new
        /\ control' = IF conn # "up" THEN control
                      ELSE control \o Operation("subscribe", added)
                                   \o Operation("unsubscribe", dropped)
        /\ Evict(dropped)
        /\ stamped' = stamped \ dropped
        /\ UNCHANGED <<exchVars, conn, want, subs, wire, resyncVars,
                       losses, failures>>

\* set_tokens, called by the scanner between any two steps of both loops.
SetTokens(new) ==
    LET added == new \ tracked
        dropped == tracked \ new
    IN  /\ new # tracked
        /\ churn < MaxChurn
        /\ churn' = churn + 1
        /\ tracked' = new
        /\ control' = control \o Operation("subscribe", added)
                              \o Operation("unsubscribe", dropped)
        /\ Evict(dropped)
        /\ stamped' = stamped \ dropped
        /\ UNCHANGED <<exchVars, conn, want, subs, wire, resyncVars,
                       losses, failures>>

-----------------------------------------------------------------------------
(* The resync loop.                                                        *)

\* The sleep ends: flush the flagged tokens, if there are any.
WakeStale ==
    /\ phase = "sleep"
    /\ stale # {}
    /\ TakeStale
    /\ phase' = "stale"
    /\ todo' = stale
    /\ UNCHANGED <<exchVars, connVars, tracked, stamped, fullDone, fetch,
                   snapBook, snapTs, budgetVars>>

\* One call of _resync_tokens is through when every fetch of it is.
BatchDone == todo = {} /\ InFlight = {}

\* Variant: the periodic resync trusts the flags and fetches nothing else.
FullResyncTrustsFlags ==
    /\ \/ phase = "sleep" /\ stale = {}
       \/ phase = "stale" /\ BatchDone
    /\ phase' = "full"
    /\ fullDone' = TRUE
    /\ todo' = stale \cap tracked
    /\ UNCHANGED <<cacheVars, exchVars, connVars, tracked, stamped, fetch,
                   snapBook, snapTs, budgetVars>>

\* ws_resync_interval_s has passed: fetch every tracked token.  With nothing
\* flagged this is the first thing after the sleep.
FullResync ==
    /\ \/ phase = "sleep" /\ stale = {}
       \/ phase = "stale" /\ BatchDone
    /\ phase' = "full"
    /\ fullDone' = TRUE
    /\ todo' = tracked
    /\ UNCHANGED <<cacheVars, exchVars, connVars, tracked, stamped, fetch,
                   snapBook, snapTs, budgetVars>>

\* Back to sleep: after a full resync, or after the flagged tokens when the
\* interval has not passed (the first wake always does a full one).
Sleep ==
    /\ BatchDone
    /\ \/ phase = "full"
       \/ phase = "stale" /\ fullDone
    /\ phase' = "sleep"
    /\ UNCHANGED <<cacheVars, exchVars, connVars, tracked, stamped, fullDone,
                   todo, fetch, snapBook, snapTs, budgetVars>>

\* _one gets the semaphore and awaits get_order_book.
SendFetch(t) ==
    /\ t \in todo
    /\ Cardinality(InFlight) < ResyncConcurrency
    /\ todo' = todo \ {t}
    /\ fetch' = [fetch EXCEPT ![t] = "sent"]
    /\ UNCHANGED <<cacheVars, exchVars, connVars, tracked, stamped, phase,
                   fullDone, snapBook, snapTs, budgetVars>>

\* The exchange answers with the book of that moment (external).
Serve(t) ==
    /\ fetch[t] = "sent"
    /\ fetch' = [fetch EXCEPT ![t] = "served"]
    /\ snapBook' = [snapBook EXCEPT ![t] = exch[t]]
    /\ snapTs' = [snapTs EXCEPT ![t] = exchTs[t]]
    /\ UNCHANGED <<cacheVars, exchVars, connVars, tracked, stamped, phase,
                   fullDone, todo, budgetVars>>

\* The response is in a response slot no more.
Forget(t) ==
    /\ fetch' = [fetch EXCEPT ![t] = "idle"]
    /\ snapBook' = [snapBook EXCEPT ![t] = EmptyBook]
    /\ snapTs' = [snapTs EXCEPT ![t] = 0]

\* Variant: the token is not looked up again after the await.
CompleteUnchecked(t) ==
    /\ fetch[t] = "served"
    /\ Forget(t)
    /\ Seed(t, snapTs[t], snapBook[t])
    /\ stamped' = stamped \cup {t}
    /\ UNCHANGED <<exchVars, connVars, tracked, phase, fullDone, todo, budgetVars>>

\* _one resumes with the response: seed and stamp, if still tracked.
Complete(t) ==
    /\ fetch[t] = "served"
    /\ Forget(t)
    /\ IF t \in tracked
       THEN /\ Seed(t, snapTs[t], snapBook[t])
            /\ stamped' = stamped \cup {t}
       ELSE UNCHANGED <<cacheVars, stamped>>
    /\ UNCHANGED <<exchVars, connVars, tracked, phase, fullDone, todo, budgetVars>>

\* _one catches the exception get_order_book raised; the flag that made the
\* loop fetch this token is not put back.
FetchFails(t) ==
    /\ fetch[t] # "idle"
    /\ failures < MaxFailures
    /\ failures' = failures + 1
    /\ Forget(t)
    /\ UNCHANGED <<cacheVars, exchVars, connVars, tracked, stamped, phase,
                   fullDone, todo, churn, losses>>

-----------------------------------------------------------------------------
Exchange ==
    \E t \in Tokens, l \in Levels, size \in Sizes \cup {0},
       time \in {clock, clock + 1}, lost \in BOOLEAN : Change(t, l, size, time, lost)

StreamLoop == Attempt \/ Opened \/ SendOp \/ Ingest \/ Disconnect

Scanner == \E new \in SUBSET Tokens : SetTokens(new)

ResyncLoop ==
    \/ WakeStale \/ FullResync \/ Sleep
    \/ \E t \in Tokens : SendFetch(t) \/ Serve(t) \/ Complete(t) \/ FetchFails(t)

Next == Exchange \/ StreamLoop \/ Scanner \/ ResyncLoop

Spec == Init /\ [][Next]_vars

\* The scheduling asyncio gives: a runnable task runs, a sleep ends, and a
\* request is answered or fails.  A full resync falls due again and again
\* however often flagged tokens are flushed in between.
Fairness ==
    /\ WF_vars(Attempt) /\ WF_vars(Opened) /\ WF_vars(SendOp) /\ WF_vars(Ingest)
    /\ WF_vars(WakeStale) /\ WF_vars(Sleep) /\ SF_vars(FullResync)
    /\ \A t \in Tokens :
         /\ WF_vars(SendFetch(t))
         /\ WF_vars(Serve(t) \/ FetchFails(t))
         /\ WF_vars(Complete(t) \/ FetchFails(t))

FairSpec == Spec /\ Fairness

-----------------------------------------------------------------------------
Frame ==
    [kind : {"book"}, tokens : SUBSET Tokens,
     book : [Tokens -> Book], ts : [Tokens -> Nat]]
    \cup [kind : {"price_change"}, token : Tokens, ts : Nat, entry : Entry]

ControlOp == [operation : {"subscribe", "unsubscribe"}, tokens : SUBSET Tokens]

TypeOK ==
    /\ CacheTypeOK
    /\ exch \in [Tokens -> Book]
    /\ exchTs \in [Tokens -> Nat]
    /\ touched \in [Tokens -> [Levels -> Nat]]
    /\ clock \in Nat
    /\ subs \subseteq Tokens
    /\ wire \in Seq(Frame)
    /\ conn \in {"down", "opening", "up"}
    /\ want \subseteq Tokens
    /\ control \in Seq(ControlOp)
    /\ tracked \subseteq Tokens
    /\ stamped \subseteq Tokens
    /\ phase \in {"sleep", "stale", "full"}
    /\ fullDone \in BOOLEAN
    /\ todo \subseteq Tokens
    /\ fetch \in [Tokens -> {"idle", "sent", "served"}]
    /\ snapBook \in [Tokens -> Book]
    /\ snapTs \in [Tokens -> Nat]
    /\ changes \in Nat /\ churn \in Nat /\ losses \in Nat /\ failures \in Nat

-----------------------------------------------------------------------------
\* Whether a frame, or a queued operation, concerns a token.
About(m, t) == IF m.kind = "book" THEN t \in m.tokens ELSE m.token = t

Drained(t) == \A i \in 1 .. Len(wire) : ~About(wire[i], t)

Mentioned(t) == \E i \in 1 .. Len(control) : t \in control[i].tokens

\* Once the operations about a tracked token are sent and the frames about it
\* applied, the cached book is the exchange's: no interleaving of deltas, REST
\* snapshots, evictions and reconnects leaves a wrong level behind.  Only for
\* a feed that loses nothing and a clock that separates changes; it is the
\* purpose of seed's last-write-wins rule (bookcache.py:221-253) and of
\* re-subscribing on every connect (streaming.py:244-254).
Coherent ==
    conn = "up" =>
        \A t \in tracked :
            ~Mentioned(t) /\ Drained(t) => t \in known /\ book[t] = exch[t]

\* With no operation left to send, the connection is subscribed to exactly the
\* tracked tokens, although set_tokens may run while the handshake is under
\* way or the queue of the previous connection is not yet drained
\* (streaming.py:103-106, 175-196, 250-254).
SubscriptionConverges ==
    conn = "up" /\ control = <<>> => subs = tracked

\* A freshness stamp exists exactly for the cached tokens: an eviction between
\* the request and the response of a resync leaves neither behind
\* (streaming.py:194-196, 296-305, 392-399).
StampedIsKnown == stamped = known

\* A REST response never puts a token back that was dropped while the request
\* was in flight: only a WebSocket frame can (streaming.py:392-397).
RestNeverResurrects ==
    [][\A t \in (known' \ known) : t \in tracked \/ wire' # wire]_vars

\* A REST response never undoes a change the cache has already applied: a level
\* that agrees with the exchange, in a book stamped no earlier than the level's
\* last change, agrees after the seed.  This is the last-write-wins rule read
\* level by level (bookcache.py:229-234); it needs a clock that separates changes.
SeedNeverRegresses ==
    [][\A t \in known \cap known', l \in Levels :
         (/\ fetch[t] = "served" /\ fetch'[t] = "idle"
          /\ ts[t] >= touched[t][l] /\ book[t][l] = exch[t][l])
           => book'[t][l] = exch[t][l]]_vars

\* The safety net closes: when changes, losses, disconnects and failures stop,
\* every tracked token ends with the exchange's book, also one whose delta was
\* lost, whose flag was lost, or whose fetch was rejected (streaming.py:319-353).
Heals == <>[](tracked \subseteq known /\ \A t \in tracked : book[t] = exch[t])

-----------------------------------------------------------------------------
(* The inductive invariant behind Coherent and SubscriptionConverges.      *)

Touches(m, t, l) == About(m, t) /\ (m.kind = "book" \/ m.entry.level = l)

ValueIn(m, t, l) == IF m.kind = "book" THEN m.book[t][l] ELSE m.entry.size

TimeIn(m, t) == IF m.kind = "book" THEN m.ts[t] ELSE m.ts

TouchedAfter(i, t, l) == \E j \in (i + 1) .. Len(wire) : Touches(wire[j], t, l)

DumpPending(t) == \E i \in 1 .. Len(wire) : wire[i].kind = "book" /\ About(wire[i], t)

LastMention(ops, i, t) ==
    /\ t \in ops[i].tokens
    /\ \A j \in (i + 1) .. Len(ops) : t \notin ops[j].tokens

\* Carried out in order, the operations take one token set to another: for each
\* token the last one that names it decides.
TurnInto(ops, from, to) ==
    \A t \in Tokens :
        /\ \A i \in 1 .. Len(ops) :
             LastMention(ops, i, t) => (ops[i].operation = "subscribe" <=> t \in to)
        /\ (\A i \in 1 .. Len(ops) : t \notin ops[i].tokens) => (t \in from <=> t \in to)

\* Frames and subscriptions belong to a live connection.
OnlyWhenUp == conn # "up" => subs = {} /\ wire = <<>>

\* The queued operations turn what the exchange has subscribed, or will be told
\* to by the handshake, into the tracked set.
ControlAccurate ==
    /\ conn = "opening" => TurnInto(control, want, tracked)
    /\ conn = "up" => TurnInto(control, subs, tracked)

\* The frames about a subscribed token lead to the exchange's book: the last
\* one to touch a level carries its value, and no frame is older than a change
\* that only earlier frames carried.
WireAccurate ==
    \A t \in subs, l \in Levels : \A i \in 1 .. Len(wire) :
        About(wire[i], t) =>
            \/ TouchedAfter(i, t, l)
            \/ /\ touched[t][l] <= TimeIn(wire[i], t)
               /\ Touches(wire[i], t, l) => ValueIn(wire[i], t, l) = exch[t][l]

TouchedInTime == \A t \in Tokens, l \in Levels : touched[t][l] <= exchTs[t]

\* A response is wrong only about levels that changed after its timestamp.
SnapshotAccurate ==
    \A t \in Tokens : fetch[t] = "served" =>
        /\ snapTs[t] <= exchTs[t]
        /\ \A l \in Levels : snapBook[t][l] = exch[t][l] \/ snapTs[t] < touched[t][l]

\* A settled token is wrong only about levels a frame on the wire will set, and
\* its timestamp covers every change of the others.
CacheAccurate ==
    conn = "up" =>
        \A t \in tracked :
            ~Mentioned(t) /\ ~DumpPending(t) =>
                /\ t \in known
                /\ \A l \in Levels :
                     \/ TouchedAfter(0, t, l)
                     \/ book[t][l] = exch[t][l] /\ touched[t][l] <= ts[t]

IInv ==
    /\ TypeOK
    /\ OnlyWhenUp
    /\ ControlAccurate
    /\ WireAccurate
    /\ TouchedInTime
    /\ SnapshotAccurate
    /\ CacheAccurate
=============================================================================
