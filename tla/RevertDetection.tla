--------------------------- MODULE RevertDetection ---------------------------
(***************************************************************************)
(* The order-book cache driven by every message it accepts, next to the    *)
(* unbounded record of the hashes it has observed.  The cache keeps only   *)
(* a deque of HashHistorySize hashes, carries it across snapshots and must *)
(* not let REST hashes into it; the record says what it must remember.     *)
(***************************************************************************)
EXTENDS BookCache

CONSTANTS
    MaxTime,  \* bound: timestamps of messages and snapshots are 0 .. MaxTime
    MaxSeen   \* bound: hashes observed per token between two evictions

ASSUME RevertAssumption == MaxTime \in Nat /\ MaxSeen \in Nat

VARIABLE seen  \* per token: hashes the feed announced since the last eviction,
               \* an immediate repeat counted once

revertVars == <<cacheVars, seen>>

Announced(t, h) ==
    IF h = NoHash \/ Echo(seen[t], h) THEN seen[t] ELSE Append(seen[t], h)

\* A `book` frame for the tokens of DOMAIN snaps.
WsBook(snaps) ==
    /\ HandleBook(snaps)
    /\ seen' = [t \in Tokens |->
                  IF t \in DOMAIN snaps THEN Announced(t, snaps[t].hash) ELSE seen[t]]

\* A price_change; an entry for an unknown token is not applied.
WsPriceChange(time, entries) ==
    /\ HandlePriceChange(time, entries)
    /\ seen' = [t \in Tokens |->
                  IF t \in DOMAIN entries \cap known
                  THEN Announced(t, entries[t].hash) ELSE seen[t]]

RestSeed(t, time, b) ==
    /\ Seed(t, time, b)
    /\ UNCHANGED seen

Drop(gone) ==
    /\ Evict(gone)
    /\ seen' = [t \in Tokens |-> IF t \in gone THEN <<>> ELSE seen[t]]

Flush ==
    /\ TakeStale
    /\ UNCHANGED seen

RevertInit ==
    /\ CacheInit
    /\ seen = [t \in Tokens |-> <<>>]

RevertNext ==
    \/ \E hit \in (SUBSET Tokens) \ {{}} :
         \E snaps \in [hit -> [ts : 0 .. MaxTime, book : Book,
                               hash : Hashes \cup {NoHash}]] :
           /\ \A t \in hit : Len(seen[t]) < MaxSeen
           /\ WsBook(snaps)
    \/ \E time \in 0 .. MaxTime, hit \in (SUBSET Tokens) \ {{}} :
         \E entries \in [hit -> Entry] :
           /\ \A t \in hit : Len(seen[t]) < MaxSeen
           /\ WsPriceChange(time, entries)
    \/ \E t \in Tokens, time \in 0 .. MaxTime, b \in Book : RestSeed(t, time, b)
    \/ \E gone \in (SUBSET Tokens) \ {{}} : Drop(gone)
    \/ Flush

RevertSpec == RevertInit /\ [][RevertNext]_revertVars

-----------------------------------------------------------------------------
Lesser(m, n) == IF m < n THEN m ELSE n

\* The last HashHistorySize hashes announced for a token.
Window(t) ==
    {seen[t][i] : i \in (Len(seen[t]) - Lesser(Len(seen[t]), HashHistorySize) + 1)
                        .. Len(seen[t])}

RevertTypeOK ==
    /\ CacheTypeOK
    /\ seen \in [Tokens -> Seq(Hashes)]

\* The deque is exactly the tail of what the feed announced, through every
\* mix of snapshots, deltas and REST seeds (bookcache.py:221-226, 292-296:
\* a snapshot and a seed carry the history over, a REST hash never enters it).
HistoryIsTail ==
    \A t \in Tokens :
        LET n == Lesser(Len(seen[t]), HashHistorySize)
        IN  hashes[t] = SubSeq(seen[t], Len(seen[t]) - n + 1, Len(seen[t]))

\* A message that takes a token back to a hash still in the window leaves it
\* flagged, even a snapshot, which otherwise clears the flag
\* (bookcache.py:106-120, 298-304, 352-353).
RevertIsFlagged ==
    [][\A t \in Tokens :
         (/\ seen'[t] # seen[t] /\ seen'[t] # <<>>
          /\ seen'[t][Len(seen'[t])] \in Window(t))
           => t \in stale']_revertVars
=============================================================================
