----------------------------- MODULE CacheProofs ------------------------------
(***************************************************************************)
(* Proofs about the order-book cache.  BookSync, for every set of tokens,  *)
(* prices and sizes, every number of changes, set_tokens calls and         *)
(* failures; and RevertDetection: the hash history is the tail of what the *)
(* feed announced, a return to a hash in it is flagged, and the cache      *)
(* keeps its types under every message, for all tokens, prices, hashes and *)
(* lengths of the history.                                                 *)
(***************************************************************************)
EXTENDS BookSync, RevertDetection, TLAPS

-----------------------------------------------------------------------------
(* The values the operators of the cache and of the feed return.           *)

\* A level changed in a book leaves a book.
LEMMA EntryInBook ==
    ASSUME NEW b \in Book, NEW l \in Levels, NEW n \in Sizes \cup {0}
    PROVE  [b EXCEPT ![l] = n] \in Book
BY DEF Book

LEMMA EmptyBookInBook == EmptyBook \in Book
BY DEF Book, EmptyBook

\* The frames the exchange sends are frames.
LEMMA BookFrameType ==
    ASSUME TypeOK, NEW S \in SUBSET Tokens
    PROVE  BookFrame(S) \in Frame
BY EmptyBookInBook DEF TypeOK, BookFrame, Frame

LEMMA DumpType ==
    ASSUME TypeOK, NEW S \in SUBSET Tokens
    PROVE  Dump(S) \in Seq(Frame)
BY BookFrameType DEF Dump

LEMMA DeltaFrameType ==
    ASSUME NEW t \in Tokens, NEW l \in Levels, NEW time \in Nat, NEW b \in Book
    PROVE  DeltaFrame(t, l, time, b) \in Frame
<1>1. b[l] \in Sizes \cup {0}
  BY DEF Book
<1>2. [side \in Sides |-> Best(b, side)] \in [Sides -> Bests \cup {NoBest}]
  BY DEF Bests
<1>3. [level |-> l, size |-> b[l], hash |-> NoHash,
       best |-> [side \in Sides |-> Best(b, side)]] \in Entry
  BY <1>1, <1>2 DEF Entry
<1> QED
  BY <1>3 DEF DeltaFrame, Frame

LEMMA OperationType ==
    ASSUME NEW S \in SUBSET Tokens, NEW op \in {"subscribe", "unsubscribe"}
    PROVE  Operation(op, S) \in Seq(ControlOp)
<1>1. [operation |-> op, tokens |-> S] \in ControlOp
  BY DEF ControlOp
<1> QED
  BY <1>1 DEF Operation

\* The methods of the cache keep its types.
LEMMA HandleBookType ==
    ASSUME CacheTypeOK, NEW m \in Frame, m.kind = "book", HandleBook(Snaps(m))
    PROVE  CacheTypeOK'
<1>1. m.tokens \subseteq Tokens /\ m.book \in [Tokens -> Book] /\ m.ts \in [Tokens -> Nat]
  BY DEF Frame
<1>2. DOMAIN Snaps(m) = m.tokens
  BY DEF Snaps
<1>3. \A t \in m.tokens : /\ Snaps(m)[t].book \in Book
                          /\ Snaps(m)[t].ts \in Nat
                          /\ Snaps(m)[t].hash = NoHash
  BY <1>1 DEF Snaps
<1>4. hashes' = hashes
  BY <1>2, <1>3 DEF HandleBook, Observed, CacheTypeOK
<1> QED
  BY <1>1, <1>2, <1>3, <1>4 DEF HandleBook, CacheTypeOK

LEMMA HandlePriceChangeType ==
    ASSUME CacheTypeOK, NEW m \in Frame, m.kind = "price_change",
           HandlePriceChange(m.ts, [t \in {m.token} |-> m.entry])
    PROVE  CacheTypeOK'
<1> DEFINE entries == [t \in {m.token} |-> m.entry]
<1>1. m.token \in Tokens /\ m.ts \in Nat /\ m.entry \in Entry
  BY DEF Frame
<1>2. DOMAIN entries = {m.token} /\ entries[m.token] = m.entry
  OBVIOUS
<1>3. book[m.token] \in Book
  BY <1>1 DEF CacheTypeOK
<1>4. AfterEntry(book[m.token], m.entry) \in Book
  BY <1>1, <1>3, EntryInBook DEF AfterEntry, Entry
<1>5. hashes[m.token] \in Seq(Hashes)
  BY <1>1 DEF CacheTypeOK
<1>6. Observed(hashes[m.token], m.entry.hash) \in Seq(Hashes)
  BY <1>1, <1>5 DEF Observed, Entry
<1>7. known' \subseteq Tokens /\ stale' \subseteq Tokens
  BY <1>1, <1>2 DEF HandlePriceChange, CacheTypeOK
<1>8. ts' \in [Tokens -> Nat]
  BY <1>1, <1>2 DEF HandlePriceChange, CacheTypeOK
<1>9. book' \in [Tokens -> Book]
  BY <1>1, <1>2, <1>4 DEF HandlePriceChange, CacheTypeOK
<1>10. hashes' \in [Tokens -> Seq(Hashes)]
  BY <1>1, <1>2, <1>6 DEF HandlePriceChange, CacheTypeOK
<1> QED
  BY <1>7, <1>8, <1>9, <1>10 DEF CacheTypeOK

LEMMA SeedType ==
    ASSUME CacheTypeOK, NEW t \in Tokens, NEW time \in Nat, NEW b \in Book,
           Seed(t, time, b)
    PROVE  CacheTypeOK'
BY DEF CacheTypeOK, Seed, cacheVars

LEMMA EvictType ==
    ASSUME CacheTypeOK, NEW gone \in SUBSET Tokens, Evict(gone)
    PROVE  CacheTypeOK'
BY EmptyBookInBook DEF CacheTypeOK, Evict

-----------------------------------------------------------------------------
(* Type correctness, one step per action.                                  *)

LEMMA ChangeType ==
    ASSUME TypeOK, NEW t \in Tokens, NEW l \in Levels, NEW size \in Sizes \cup {0},
           NEW time \in {clock, clock + 1}, NEW lost \in BOOLEAN,
           Change(t, l, size, time, lost)
    PROVE  TypeOK'
<1> DEFINE b == [exch[t] EXCEPT ![l] = size]
<1>1. time \in Nat
  BY DEF TypeOK
<1>2. b \in Book
  BY EntryInBook DEF TypeOK
<1>3. DeltaFrame(t, l, time, b) \in Frame
  BY <1>1, <1>2, DeltaFrameType
<1>4. wire' \in Seq(Frame)
  BY <1>3 DEF Change, TypeOK
<1>5. CacheTypeOK'
  BY DEF Change, TypeOK, CacheTypeOK, cacheVars
<1>6. exch' \in [Tokens -> Book]
  BY <1>2 DEF Change, TypeOK
<1>7. touched' \in [Tokens -> [Levels -> Nat]] /\ exchTs' \in [Tokens -> Nat]
  BY <1>1 DEF Change, TypeOK
<1> QED
  BY <1>1, <1>4, <1>5, <1>6, <1>7 DEF Change, TypeOK, resyncVars

LEMMA AttemptType == TypeOK /\ Attempt => TypeOK'
BY DEF TypeOK, Attempt, CacheTypeOK, cacheVars, exchVars, resyncVars, budgetVars

LEMMA OpenedType == TypeOK /\ Opened => TypeOK'
<1> SUFFICES ASSUME TypeOK, Opened PROVE TypeOK'
  OBVIOUS
<1>1. wire' \in Seq(Frame)
  BY DumpType DEF Opened, TypeOK
<1> QED
  BY <1>1 DEF TypeOK, Opened, CacheTypeOK, cacheVars, exchVars, resyncVars, budgetVars

LEMMA SendOpType == TypeOK /\ SendOp => TypeOK'
<1> SUFFICES ASSUME TypeOK, SendOp PROVE TypeOK'
  OBVIOUS
<1>1. control \in Seq(ControlOp) /\ control # <<>> /\ wire \in Seq(Frame)
  BY DEF TypeOK, SendOp
<1>2. Head(control) \in ControlOp /\ control' \in Seq(ControlOp)
  BY <1>1 DEF SendOp
<1>3. Head(control).tokens \in SUBSET Tokens
  BY <1>2 DEF ControlOp
<1>4. Dump(Head(control).tokens) \in Seq(Frame)
  BY <1>3, DumpType
<1>5. wire' \in Seq(Frame) /\ subs' \subseteq Tokens
  <2>1. subs \subseteq Tokens
    BY DEF TypeOK
  <2>2. CASE Head(control).operation = "subscribe"
    <3>1. /\ subs' = subs \cup Head(control).tokens
          /\ wire' = wire \o Dump(Head(control).tokens)
      BY <2>2 DEF SendOp
    <3>2. wire \o Dump(Head(control).tokens) \in Seq(Frame)
      BY <1>1, <1>4
    <3> QED
      BY <1>3, <2>1, <3>1, <3>2
  <2>3. CASE Head(control).operation # "subscribe"
    BY <1>1, <1>3, <2>1, <2>3 DEF SendOp
  <2> QED
    BY <2>2, <2>3
<1> QED
  BY <1>2, <1>5 DEF TypeOK, SendOp, CacheTypeOK, cacheVars, exchVars, resyncVars, budgetVars

LEMMA IngestType == TypeOK /\ Ingest => TypeOK'
<1> SUFFICES ASSUME TypeOK, Ingest PROVE TypeOK'
  OBVIOUS
<1> DEFINE m == Head(wire)
<1>1. m \in Frame /\ wire' \in Seq(Frame)
  BY DEF TypeOK, Ingest
<1>2. CacheTypeOK' /\ stamped' \subseteq Tokens
  <2>1. CASE m.kind = "book"
    <3>1. HandleBook(Snaps(m)) /\ stamped' = stamped \cup m.tokens
      BY <2>1 DEF Ingest
    <3>2. m.tokens \subseteq Tokens
      BY <1>1, <2>1 DEF Frame
    <3> QED
      BY <1>1, <2>1, <3>1, <3>2, HandleBookType DEF TypeOK
  <2>2. CASE m.kind # "book"
    <3>1. m.kind = "price_change" /\ m.token \in Tokens
      BY <1>1, <2>2 DEF Frame
    <3>2. /\ HandlePriceChange(m.ts, [t \in {m.token} |-> m.entry])
          /\ stamped' = stamped \cup ({m.token} \cap known)
      BY <2>2 DEF Ingest
    <3> HIDE DEF m
    <3> QED
      BY <1>1, <3>1, <3>2, HandlePriceChangeType DEF TypeOK
  <2> QED
    BY <2>1, <2>2
<1> QED
  BY <1>1, <1>2 DEF TypeOK, Ingest, exchVars, resyncVars, budgetVars

LEMMA DisconnectType == TypeOK /\ Disconnect => TypeOK'
BY DEF TypeOK, Disconnect, CacheTypeOK, cacheVars, exchVars, resyncVars

LEMMA SetTokensType ==
    ASSUME TypeOK, NEW new \in SUBSET Tokens, SetTokens(new)
    PROVE  TypeOK'
<1>1. Evict(tracked \ new) /\ tracked \ new \in SUBSET Tokens
  BY DEF SetTokens, TypeOK
<1>2. CacheTypeOK'
  BY <1>1, EvictType DEF TypeOK
<1>3. /\ Operation("subscribe", new \ tracked) \in Seq(ControlOp)
      /\ Operation("unsubscribe", tracked \ new) \in Seq(ControlOp)
  BY <1>1, OperationType
<1>4. control' \in Seq(ControlOp)
  BY <1>3 DEF SetTokens, TypeOK
<1> QED
  BY <1>2, <1>4 DEF TypeOK, SetTokens, exchVars, resyncVars

LEMMA ResyncType ==
    ASSUME TypeOK, ResyncLoop
    PROVE  TypeOK'
<1> USE DEF TypeOK, CacheTypeOK
<1>1. CASE WakeStale
  BY <1>1 DEF WakeStale, TakeStale, exchVars, connVars, budgetVars
<1>2. CASE FullResync
  BY <1>2 DEF FullResync, cacheVars, exchVars, connVars, budgetVars
<1>3. CASE Sleep
  BY <1>3 DEF Sleep, cacheVars, exchVars, connVars, budgetVars
<1>4. ASSUME NEW t \in Tokens, SendFetch(t) PROVE TypeOK'
  BY <1>4 DEF SendFetch, cacheVars, exchVars, connVars, budgetVars
<1>5. ASSUME NEW t \in Tokens, Serve(t) PROVE TypeOK'
  BY <1>5 DEF Serve, cacheVars, exchVars, connVars, budgetVars
<1>6. ASSUME NEW t \in Tokens, Complete(t) PROVE TypeOK'
  <2>1. CacheTypeOK' /\ stamped' \subseteq Tokens
    <3>1. CASE t \in tracked
      <4>1. Seed(t, snapTs[t], snapBook[t])
        BY <1>6, <3>1 DEF Complete
      <4>2. snapTs[t] \in Nat /\ snapBook[t] \in Book
        OBVIOUS
      <4>3. CacheTypeOK'
        BY <4>1, <4>2, SeedType
      <4> QED
        BY <1>6, <3>1, <4>3 DEF Complete
    <3>2. CASE t \notin tracked
      BY <1>6, <3>2 DEF Complete, cacheVars
    <3> QED
      BY <3>1, <3>2
  <2> QED
    BY <1>6, <2>1, EmptyBookInBook
    DEF Complete, Forget, exchVars, connVars, budgetVars
<1>7. ASSUME NEW t \in Tokens, FetchFails(t) PROVE TypeOK'
  BY <1>7, EmptyBookInBook DEF FetchFails, Forget, cacheVars, exchVars, connVars
<1> QED
  BY <1>1, <1>2, <1>3, <1>4, <1>5, <1>6, <1>7 DEF ResyncLoop

LEMMA InitType == Init => TypeOK
<1> SUFFICES ASSUME Init PROVE TypeOK
  OBVIOUS
<1>1. CacheTypeOK
  BY EmptyBookInBook DEF Init, CacheInit, CacheTypeOK
<1>2. fullDone \in BOOLEAN
  BY DEF Init
<1> QED
  BY <1>1, <1>2, EmptyBookInBook DEF Init, TypeOK

LEMMA NextType == TypeOK /\ [Next]_vars => TypeOK'
<1> SUFFICES ASSUME TypeOK, [Next]_vars PROVE TypeOK'
  OBVIOUS
<1>1. CASE Exchange
  BY <1>1, ChangeType DEF Exchange
<1>2. CASE StreamLoop
  BY <1>2, AttemptType, OpenedType, SendOpType, IngestType, DisconnectType
  DEF StreamLoop
<1>3. CASE Scanner
  BY <1>3, SetTokensType DEF Scanner
<1>4. CASE ResyncLoop
  BY <1>4, ResyncType
<1>5. CASE UNCHANGED vars
  BY <1>5 DEF TypeOK, CacheTypeOK, vars, cacheVars, exchVars, connVars,
              resyncVars, budgetVars
<1> QED
  BY <1>1, <1>2, <1>3, <1>4, <1>5 DEF Next

\* Every variable keeps its type (all of BookSync's state).
THEOREM TypeCorrect == Spec => []TypeOK
BY InitType, NextType, PTL DEF Spec

-----------------------------------------------------------------------------
(* What the steps of each actor leave alone.                               *)

LEMMA ExchangeFrame ==
    ASSUME Exchange
    PROVE  UNCHANGED <<cacheVars, conn, want, control, subs, tracked, stamped,
                       resyncVars>>
<1>1. PICK t \in Tokens, l \in Levels, size \in Sizes \cup {0},
           time \in {clock, clock + 1}, lost \in BOOLEAN :
             Change(t, l, size, time, lost)
  BY DEF Exchange
<1> QED
  BY <1>1 DEF Change

LEMMA StreamFrame ==
    ASSUME StreamLoop
    PROVE  UNCHANGED <<exchVars, tracked, resyncVars>>
<1>1. CASE Attempt
  BY <1>1 DEF Attempt
<1>2. CASE Opened
  BY <1>2 DEF Opened
<1>3. CASE SendOp
  BY <1>3 DEF SendOp
<1>4. CASE Ingest
  BY <1>4 DEF Ingest
<1>5. CASE Disconnect
  BY <1>5 DEF Disconnect
<1> QED
  BY <1>1, <1>2, <1>3, <1>4, <1>5 DEF StreamLoop

LEMMA IngestFrame ==
    ASSUME Ingest
    PROVE  UNCHANGED <<conn, want, control, subs, tracked>>
BY DEF Ingest

LEMMA ScannerFrame ==
    ASSUME Scanner
    PROVE  UNCHANGED <<exchVars, conn, want, subs, wire, resyncVars>>
<1>1. PICK new \in SUBSET Tokens : SetTokens(new)
  BY DEF Scanner
<1> QED
  BY <1>1 DEF SetTokens

LEMMA ResyncFrame ==
    ASSUME ResyncLoop
    PROVE  UNCHANGED <<exchVars, connVars, tracked>>
<1>1. CASE WakeStale
  BY <1>1 DEF WakeStale
<1>2. CASE FullResync
  BY <1>2 DEF FullResync
<1>3. CASE Sleep
  BY <1>3 DEF Sleep
<1>4. ASSUME NEW t \in Tokens, SendFetch(t)
      PROVE  UNCHANGED <<exchVars, connVars, tracked>>
  BY <1>4 DEF SendFetch
<1>5. ASSUME NEW t \in Tokens, Serve(t)
      PROVE  UNCHANGED <<exchVars, connVars, tracked>>
  BY <1>5 DEF Serve
<1>6. ASSUME NEW t \in Tokens, Complete(t)
      PROVE  UNCHANGED <<exchVars, connVars, tracked>>
  BY <1>6 DEF Complete
<1>7. ASSUME NEW t \in Tokens, FetchFails(t)
      PROVE  UNCHANGED <<exchVars, connVars, tracked>>
  BY <1>7 DEF FetchFails
<1> QED
  BY <1>1, <1>2, <1>3, <1>4, <1>5, <1>6, <1>7 DEF ResyncLoop

LEMMA VarsFrame ==
    ASSUME UNCHANGED vars
    PROVE  UNCHANGED <<cacheVars, exchVars, connVars, tracked, stamped, resyncVars>>
BY DEF vars

-----------------------------------------------------------------------------
(* What a REST response knows, for a clock that separates the changes of a *)
(* book.  Nothing here asks the feed to be complete.                       *)

RestInv == TypeOK /\ TouchedInTime /\ SnapshotAccurate

LEMMA RestInit == Init => RestInv
<1> SUFFICES ASSUME Init PROVE TouchedInTime /\ SnapshotAccurate
  BY InitType DEF RestInv
<1> QED
  BY DEF Init, TouchedInTime, SnapshotAccurate

\* A change is later than every response served before it.
LEMMA ChangeKeepsRest ==
    ASSUME StrictClock, RestInv, NEW t \in Tokens, NEW l \in Levels,
           NEW size \in Sizes \cup {0}, NEW time \in {clock, clock + 1},
           NEW lost \in BOOLEAN, Change(t, l, size, time, lost)
    PROVE  TouchedInTime' /\ SnapshotAccurate'
<1>1. /\ exch \in [Tokens -> Book] /\ exchTs \in [Tokens -> Nat]
      /\ touched \in [Tokens -> [Levels -> Nat]] /\ snapTs \in [Tokens -> Nat]
      /\ snapBook \in [Tokens -> Book] /\ time \in Nat
  BY DEF RestInv, TypeOK
<1>2. /\ time > exchTs[t]
      /\ exch' = [exch EXCEPT ![t] = [exch[t] EXCEPT ![l] = size]]
      /\ exchTs' = [exchTs EXCEPT ![t] = time]
      /\ touched' = [touched EXCEPT ![t][l] = time]
      /\ fetch' = fetch /\ snapTs' = snapTs /\ snapBook' = snapBook
  BY DEF Change, resyncVars
<1>3. \A u \in Tokens, k \in Levels :
        /\ exchTs[u] <= exchTs'[u]
        /\ \/ u = t /\ k = l /\ touched'[u][k] = exchTs'[u] /\ exchTs[u] < exchTs'[u]
           \/ touched'[u][k] = touched[u][k] /\ exch'[u][k] = exch[u][k]
  BY <1>1, <1>2 DEF Book
<1>4. TouchedInTime'
  <2> SUFFICES ASSUME NEW u \in Tokens, NEW k \in Levels
               PROVE  touched'[u][k] <= exchTs'[u]
    BY DEF TouchedInTime
  <2>1. touched[u][k] \in Nat /\ exchTs[u] \in Nat /\ exchTs'[u] \in Nat
    BY <1>1, <1>2
  <2>2. touched[u][k] <= exchTs[u]
    BY DEF RestInv, TouchedInTime
  <2> QED
    BY <1>3, <2>1, <2>2
<1>5. SnapshotAccurate'
  <2> SUFFICES ASSUME NEW u \in Tokens, fetch'[u] = "served"
               PROVE  /\ snapTs'[u] <= exchTs'[u]
                      /\ \A k \in Levels : \/ snapBook'[u][k] = exch'[u][k]
                                           \/ snapTs'[u] < touched'[u][k]
    BY DEF SnapshotAccurate
  <2>1. snapTs[u] \in Nat /\ exchTs[u] \in Nat /\ exchTs'[u] \in Nat
    BY <1>1, <1>2
  <2>2. /\ snapTs[u] <= exchTs[u]
        /\ \A k \in Levels : snapBook[u][k] = exch[u][k] \/ snapTs[u] < touched[u][k]
    BY <1>2 DEF RestInv, SnapshotAccurate
  <2>3. snapTs'[u] <= exchTs'[u]
    BY <1>2, <2>1, <2>2, <1>3
  <2>4. ASSUME NEW k \in Levels
        PROVE  snapBook'[u][k] = exch'[u][k] \/ snapTs'[u] < touched'[u][k]
    BY <1>2, <1>3, <2>1, <2>2
  <2> QED
    BY <2>3, <2>4
<1> QED
  BY <1>4, <1>5

LEMMA ResyncKeepsRest ==
    ASSUME RestInv, ResyncLoop
    PROVE  TouchedInTime' /\ SnapshotAccurate'
<1>1. exch' = exch /\ exchTs' = exchTs /\ touched' = touched
  BY DEF ResyncLoop, WakeStale, FullResync, Sleep, SendFetch, Serve, Complete,
         FetchFails, exchVars
<1>2. TouchedInTime'
  BY <1>1 DEF RestInv, TouchedInTime
<1> DEFINE Waiting(u) == /\ fetch[u] = "served" /\ snapTs'[u] = snapTs[u]
                         /\ snapBook'[u] = snapBook[u]
           Answered(u) == snapTs'[u] = exchTs[u] /\ snapBook'[u] = exch[u]
<1>3. ASSUME NEW u \in Tokens, fetch'[u] = "served"
      PROVE  Waiting(u) \/ Answered(u)
  <2> USE DEF RestInv, TypeOK
  <2>1. CASE WakeStale \/ FullResync \/ Sleep
    <3>1. fetch' = fetch /\ snapTs' = snapTs /\ snapBook' = snapBook
      BY <2>1 DEF WakeStale, FullResync, Sleep
    <3> QED
      BY <1>3, <3>1
  <2>2. ASSUME NEW t \in Tokens, SendFetch(t) PROVE Waiting(u) \/ Answered(u)
    BY <1>3, <2>2 DEF SendFetch
  <2>3. ASSUME NEW t \in Tokens, Serve(t) PROVE Waiting(u) \/ Answered(u)
    BY <1>3, <2>3 DEF Serve
  <2>4. ASSUME NEW t \in Tokens, Complete(t) \/ FetchFails(t) PROVE Waiting(u) \/ Answered(u)
    <3>1. Forget(t)
      BY <2>4 DEF Complete, FetchFails
    <3>2. fetch'[t] = "idle" /\ u # t
      BY <1>3, <3>1 DEF Forget
    <3> QED
      BY <1>3, <3>1, <3>2 DEF Forget
  <2> HIDE DEF Waiting, Answered, RestInv, TypeOK
  <2> QED
    BY <2>1, <2>2, <2>3, <2>4 DEF ResyncLoop
<1>4. exchTs \in [Tokens -> Nat]
  BY DEF RestInv, TypeOK
<1>5. SnapshotAccurate'
  BY <1>1, <1>3, <1>4 DEF RestInv, SnapshotAccurate
<1> QED
  BY <1>2, <1>5

LEMMA RestStep ==
    ASSUME StrictClock, RestInv, [Next]_vars
    PROVE  RestInv'
<1>1. TypeOK'
  BY NextType DEF RestInv
<1>2. TouchedInTime' /\ SnapshotAccurate'
  <2>1. CASE Exchange
    BY <2>1, ChangeKeepsRest DEF Exchange
  <2>2. CASE ResyncLoop
    BY <2>2, ResyncKeepsRest
  <2>3. CASE StreamLoop \/ Scanner \/ UNCHANGED vars
    <3>1. UNCHANGED <<exchVars, resyncVars>>
      BY <2>3, StreamFrame, ScannerFrame, VarsFrame
    <3> QED
      BY <3>1 DEF exchVars, resyncVars, RestInv, TouchedInTime, SnapshotAccurate
  <2> QED
    BY <2>1, <2>2, <2>3 DEF Next
<1> QED
  BY <1>1, <1>2 DEF RestInv

\* A seed changes no level the cache's timestamp covers away from the truth.
LEMMA SeedStep ==
    ASSUME RestInv, [Next]_vars, NEW t \in known \cap known', NEW l \in Levels,
           fetch[t] = "served", fetch'[t] = "idle",
           ts[t] >= touched[t][l], book[t][l] = exch[t][l]
    PROVE  book'[t][l] = exch[t][l]
<1>1. t \in Tokens
  BY DEF RestInv, TypeOK, CacheTypeOK
<1>2. ResyncLoop
  <2>1. fetch' # fetch
    OBVIOUS
  <2>2. CASE Exchange \/ StreamLoop \/ Scanner \/ UNCHANGED vars
    <3>1. UNCHANGED resyncVars
      BY <2>2, ExchangeFrame, StreamFrame, ScannerFrame, VarsFrame
    <3> QED
      BY <2>1, <3>1 DEF resyncVars
  <2> QED
    BY <2>2 DEF Next
<1>3. Complete(t) \/ FetchFails(t)
  <2> USE DEF RestInv, TypeOK
  <2>1. ~(WakeStale \/ FullResync \/ Sleep)
    BY DEF WakeStale, FullResync, Sleep
  <2>2. ASSUME NEW u \in Tokens, u # t,
               SendFetch(u) \/ Serve(u) \/ Complete(u) \/ FetchFails(u)
        PROVE  fetch'[t] = fetch[t]
    BY <1>1, <2>2 DEF SendFetch, Serve, Complete, FetchFails, Forget
  <2>3. ~(SendFetch(t) \/ Serve(t))
    BY <1>1 DEF SendFetch, Serve
  <2> QED
    BY <1>2, <2>1, <2>2, <2>3 DEF ResyncLoop
<1>4. CASE FetchFails(t) \/ t \notin tracked \/ Regresses(t, snapTs[t])
  <2>1. book' = book
    BY <1>3, <1>4 DEF FetchFails, Complete, Seed, cacheVars
  <2> QED
    BY <2>1
<1>5. CASE Complete(t) /\ t \in tracked /\ ~Regresses(t, snapTs[t])
  <2>1. ts[t] \in Nat /\ snapTs[t] \in Nat /\ touched[t][l] \in Nat
    BY <1>1 DEF RestInv, TypeOK, CacheTypeOK
  <2>2. ts[t] <= snapTs[t]
    BY <1>5, <2>1 DEF Regresses
  <2>3. snapBook[t][l] = exch[t][l]
    BY <1>1, <2>1, <2>2 DEF RestInv, SnapshotAccurate
  <2>4. book' = [book EXCEPT ![t] = snapBook[t]]
    BY <1>5 DEF Complete, Seed
  <2>5. book \in [Tokens -> Book]
    BY DEF RestInv, TypeOK, CacheTypeOK
  <2> QED
    BY <1>1, <2>3, <2>4, <2>5
<1> QED
  BY <1>3, <1>4, <1>5

\* With a clock that separates the changes of a book, no REST response ever
\* undoes a change the cache has applied, whatever the feed loses.
THEOREM SeedIsSafe == ASSUME StrictClock PROVE Spec => SeedNeverRegresses
<1>1. Init => RestInv
  BY RestInit
<1>2. RestInv /\ [Next]_vars => RestInv'
  BY RestStep
<1>3. RestInv /\ [Next]_vars =>
        [\A t \in known \cap known', l \in Levels :
            (/\ fetch[t] = "served" /\ fetch'[t] = "idle"
             /\ ts[t] >= touched[t][l] /\ book[t][l] = exch[t][l])
              => book'[t][l] = exch[t][l]]_vars
  BY SeedStep
<1> QED
  BY <1>1, <1>2, <1>3, PTL DEF Spec, SeedNeverRegresses

-----------------------------------------------------------------------------
(* The queued operations always lead from what the exchange has to what is *)
(* tracked.                                                                *)

\* One more operation at the end of the queue decides for its own tokens.
LEMMA TurnIntoAppend ==
    ASSUME NEW ops \in Seq(ControlOp), NEW from, NEW to,
           NEW op \in {"subscribe", "unsubscribe"}, NEW S \in SUBSET Tokens,
           TurnInto(ops, from, to)
    PROVE  TurnInto(ops \o Operation(op, S), from,
                    IF op = "subscribe" THEN to \cup S ELSE to \ S)
<1> DEFINE to2 == IF op = "subscribe" THEN to \cup S ELSE to \ S
           ops2 == ops \o Operation(op, S)
<1>1. CASE S = {}
  <2>1. ops2 = ops
    BY <1>1 DEF Operation
  <2>2. to2 = (to \cup {}) \/ to2 = to \ {}
    BY <1>1
  <2>3. \A t : t \in to2 <=> t \in to
    BY <1>1
  <2> QED
    BY <2>1, <2>3 DEF TurnInto
<1>2. CASE S # {}
  <2> DEFINE new == [operation |-> op, tokens |-> S]
  <2>1. ops2 = Append(ops, new)
    BY <1>2 DEF Operation
  <2>2. /\ Len(ops2) = Len(ops) + 1 /\ Len(ops) \in Nat
        /\ \A i \in 1 .. Len(ops) : ops2[i] = ops[i]
        /\ ops2[Len(ops) + 1] = new
    BY <2>1
  <2>3. new.tokens = S /\ new.operation = op
    OBVIOUS
  <2>4. \A t : t \notin S => (t \in to2 <=> t \in to)
    OBVIOUS
  <2>5. \A t \in S : t \in to2 <=> op = "subscribe"
    OBVIOUS
  <2> SUFFICES ASSUME NEW t \in Tokens
               PROVE  /\ \A i \in 1 .. Len(ops2) :
                           LastMention(ops2, i, t) =>
                             (ops2[i].operation = "subscribe" <=> t \in to2)
                      /\ (\A i \in 1 .. Len(ops2) : t \notin ops2[i].tokens)
                           => (t \in from <=> t \in to2)
    BY DEF TurnInto
  <2> HIDE DEF ops2, to2, new
  <2>6. CASE t \in S
    <3>1. ASSUME NEW i \in 1 .. Len(ops2), LastMention(ops2, i, t)
          PROVE  i = Len(ops) + 1
      BY <2>2, <2>3, <2>6, <3>1 DEF LastMention
    <3>2. t \in ops2[Len(ops) + 1].tokens /\ Len(ops) + 1 \in 1 .. Len(ops2)
      BY <2>2, <2>3, <2>6
    <3> QED
      BY <2>2, <2>3, <2>5, <2>6, <3>1, <3>2
  <2>7. CASE t \notin S
    <3>1. ASSUME NEW i \in 1 .. Len(ops2), LastMention(ops2, i, t)
          PROVE  i \in 1 .. Len(ops) /\ LastMention(ops, i, t)
      BY <2>2, <2>3, <2>7, <3>1 DEF LastMention
    <3>2. ASSUME \A i \in 1 .. Len(ops2) : t \notin ops2[i].tokens
          PROVE  \A i \in 1 .. Len(ops) : t \notin ops[i].tokens
      BY <2>2, <3>2
    <3> QED
      BY <2>2, <2>4, <2>7, <3>1, <3>2 DEF TurnInto
  <2> QED
    BY <2>6, <2>7
<1> QED
  BY <1>1, <1>2

\* Carrying out the first operation leaves the rest to turn the result into
\* the same set.
LEMMA TurnIntoTail ==
    ASSUME NEW ops \in Seq(ControlOp), ops # <<>>, NEW from, NEW to,
           TurnInto(ops, from, to)
    PROVE  TurnInto(Tail(ops),
                    IF Head(ops).operation = "subscribe"
                    THEN from \cup Head(ops).tokens ELSE from \ Head(ops).tokens,
                    to)
<1> DEFINE rest == Tail(ops)
           from2 == IF Head(ops).operation = "subscribe"
                    THEN from \cup Head(ops).tokens ELSE from \ Head(ops).tokens
<1>1. /\ Len(rest) = Len(ops) - 1 /\ Len(ops) \in Nat /\ Len(ops) >= 1
      /\ \A i \in 1 .. Len(rest) : rest[i] = ops[i + 1]
      /\ Head(ops) = ops[1]
  OBVIOUS
<1> SUFFICES ASSUME NEW t \in Tokens
             PROVE  /\ \A i \in 1 .. Len(rest) :
                         LastMention(rest, i, t) =>
                           (rest[i].operation = "subscribe" <=> t \in to)
                    /\ (\A i \in 1 .. Len(rest) : t \notin rest[i].tokens)
                         => (t \in from2 <=> t \in to)
  BY DEF TurnInto
<1>2. ASSUME NEW i \in 1 .. Len(rest), LastMention(rest, i, t)
      PROVE  rest[i].operation = "subscribe" <=> t \in to
  <2>1. i + 1 \in 1 .. Len(ops) /\ rest[i] = ops[i + 1]
    BY <1>1
  <2>2. ASSUME NEW j \in (i + 2) .. Len(ops) PROVE t \notin ops[j].tokens
    <3>1. j - 1 \in (i + 1) .. Len(rest) /\ ops[j] = rest[j - 1]
      BY <1>1
    <3> QED
      BY <1>2, <3>1 DEF LastMention
  <2>3. LastMention(ops, i + 1, t)
    BY <1>2, <2>1, <2>2 DEF LastMention
  <2> QED
    BY <2>1, <2>3 DEF TurnInto
<1>3. ASSUME \A i \in 1 .. Len(rest) : t \notin rest[i].tokens
      PROVE  t \in from2 <=> t \in to
  <2>1. \A j \in 2 .. Len(ops) : t \notin ops[j].tokens
    <3> SUFFICES ASSUME NEW j \in 2 .. Len(ops) PROVE t \notin ops[j].tokens
      OBVIOUS
    <3>1. j - 1 \in 1 .. Len(rest) /\ ops[j] = rest[j - 1]
      BY <1>1
    <3> QED
      BY <1>3, <3>1
  <2>2. CASE t \in Head(ops).tokens
    <3>1. LastMention(ops, 1, t) /\ 1 \in 1 .. Len(ops)
      BY <1>1, <2>1, <2>2 DEF LastMention
    <3>2. ops[1].operation = "subscribe" <=> t \in to
      BY <3>1 DEF TurnInto
    <3> QED
      BY <1>1, <2>2, <3>2
  <2>3. CASE t \notin Head(ops).tokens
    <3>1. \A i \in 1 .. Len(ops) : t \notin ops[i].tokens
      BY <1>1, <2>1, <2>3
    <3>2. t \in from <=> t \in to
      BY <3>1 DEF TurnInto
    <3> QED
      BY <2>3, <3>2
  <2> QED
    BY <2>2, <2>3
<1> QED
  BY <1>2, <1>3

\* A connection attempt drains the queue and captures the tracked set at once;
\* from there every queued operation and every one sent keeps the balance.
LEMMA ControlStep ==
    ASSUME TypeOK, ControlAccurate, [Next]_vars
    PROVE  ControlAccurate'
<1>1. control \in Seq(ControlOp) /\ tracked \subseteq Tokens
  BY DEF TypeOK
<1>2. CASE Attempt
  <2>1. TurnInto(<<>>, tracked, tracked)
    BY DEF TurnInto
  <2> QED
    BY <1>2, <2>1 DEF Attempt, ControlAccurate
<1>3. CASE Opened
  BY <1>3 DEF Opened, ControlAccurate
<1>4. CASE SendOp
  <2>1. TurnInto(control, subs, tracked) /\ control # <<>> /\ conn = "up"
    BY <1>4 DEF SendOp, ControlAccurate
  <2>2. subs' = IF Head(control).operation = "subscribe"
                THEN subs \cup Head(control).tokens ELSE subs \ Head(control).tokens
    BY <1>4 DEF SendOp
  <2>3. TurnInto(Tail(control), subs', tracked)
    BY <1>1, <2>1, <2>2, TurnIntoTail
  <2> QED
    BY <1>4, <2>1, <2>3 DEF SendOp, ControlAccurate
<1>5. CASE Disconnect
  BY <1>5 DEF Disconnect, ControlAccurate
<1>6. ASSUME NEW new \in SUBSET Tokens, SetTokens(new)
      PROVE  ControlAccurate'
  <2> DEFINE added == new \ tracked
             dropped == tracked \ new
             first == control \o Operation("subscribe", added)
  <2>1. added \in SUBSET Tokens /\ dropped \in SUBSET Tokens
    BY <1>1
  <2>2. first \in Seq(ControlOp)
    BY <1>1, <2>1, OperationType
  <2>3. control' = first \o Operation("unsubscribe", dropped) /\ tracked' = new
    BY <1>6 DEF SetTokens
  <2>4. UNCHANGED <<conn, want, subs>>
    BY <1>6 DEF SetTokens
  <2>5. ASSUME NEW from, TurnInto(control, from, tracked)
        PROVE  TurnInto(control', from, tracked')
    <3>1. TurnInto(first, from, tracked \cup added)
      BY <1>1, <2>1, <2>5, TurnIntoAppend
    <3>2. TurnInto(control', from, (tracked \cup added) \ dropped)
      BY <2>1, <2>2, <2>3, <3>1, TurnIntoAppend
    <3>3. (tracked \cup added) \ dropped = tracked'
      BY <2>3
    <3> QED
      BY <3>2, <3>3
  <2> QED
    BY <2>4, <2>5 DEF ControlAccurate
<1>7. CASE Exchange \/ Ingest \/ ResyncLoop \/ UNCHANGED vars
  <2>1. UNCHANGED <<conn, want, control, subs, tracked>>
    BY <1>7, ExchangeFrame, IngestFrame, ResyncFrame, VarsFrame DEF connVars
  <2> QED
    BY <2>1 DEF ControlAccurate
<1> QED
  BY <1>2, <1>3, <1>4, <1>5, <1>6, <1>7 DEF Next, StreamLoop, Scanner

\* The exchange ends up subscribed to exactly the tracked tokens, whatever the
\* order of set_tokens calls, handshakes and disconnects.
THEOREM SubscriptionsConverge == Spec => []SubscriptionConverges
<1>1. Init => TypeOK /\ ControlAccurate
  BY InitType DEF Init, ControlAccurate
<1>2. TypeOK /\ ControlAccurate /\ [Next]_vars => (TypeOK /\ ControlAccurate)'
  BY NextType, ControlStep
<1>3. TypeOK /\ ControlAccurate => SubscriptionConverges
  <2> SUFFICES ASSUME TypeOK, ControlAccurate, conn = "up", control = <<>>
               PROVE  subs = tracked
    BY DEF SubscriptionConverges
  <2>1. TurnInto(<<>>, subs, tracked)
    BY DEF ControlAccurate
  <2>2. ASSUME NEW t \in Tokens PROVE t \in subs <=> t \in tracked
    <3>1. 1 .. Len(<<>>) = {}
      OBVIOUS
    <3>2. \A i \in 1 .. Len(<<>>) : t \notin <<>>[i].tokens
      BY <3>1
    <3> QED
      BY <2>1, <3>2, Zenon DEF TurnInto
  <2> QED
    BY <2>2 DEF TypeOK
<1> QED
  BY <1>1, <1>2, <1>3, PTL DEF Spec

-----------------------------------------------------------------------------
(* A feed that loses nothing.                                              *)

LEMMA OnlyWhenUpStep ==
    ASSUME TypeOK, OnlyWhenUp, [Next]_vars
    PROVE  OnlyWhenUp'
<1>1. CASE Exchange
  BY <1>1 DEF Exchange, Change, OnlyWhenUp
<1>2. CASE StreamLoop
  BY <1>2 DEF StreamLoop, Attempt, Opened, SendOp, Ingest, Disconnect, OnlyWhenUp
<1>3. CASE Scanner \/ ResyncLoop \/ UNCHANGED vars
  <2>1. UNCHANGED <<conn, subs, wire>>
    BY <1>3, ScannerFrame, ResyncFrame, VarsFrame DEF connVars
  <2> QED
    BY <2>1 DEF OnlyWhenUp
<1> QED
  BY <1>1, <1>2, <1>3 DEF Next

\* What a frame says of each token and level it concerns.
LEMMA DumpFrame ==
    ASSUME TypeOK, NEW S \in SUBSET Tokens, NEW t \in Tokens, NEW l \in Levels
    PROVE  /\ About(BookFrame(S), t) <=> t \in S
           /\ Touches(BookFrame(S), t, l) <=> t \in S
           /\ t \in S => /\ ValueIn(BookFrame(S), t, l) = exch[t][l]
                         /\ TimeIn(BookFrame(S), t) = exchTs[t]
           /\ BookFrame(S).kind = "book"
BY DEF BookFrame, About, Touches, ValueIn, TimeIn

LEMMA DeltaFrameSays ==
    ASSUME NEW t \in Tokens, NEW l \in Levels, NEW time, NEW b,
           NEW u \in Tokens, NEW k \in Levels
    PROVE  /\ About(DeltaFrame(t, l, time, b), u) <=> u = t
           /\ Touches(DeltaFrame(t, l, time, b), u, k) <=> u = t /\ k = l
           /\ ValueIn(DeltaFrame(t, l, time, b), u, k) = b[l]
           /\ TimeIn(DeltaFrame(t, l, time, b), u) = time
           /\ DeltaFrame(t, l, time, b).kind = "price_change"
BY DEF DeltaFrame, About, Touches, ValueIn, TimeIn

\* WireAccurate, one frame, one level.
FrameAccurate(i, t, l) ==
    About(wire[i], t) =>
        \/ TouchedAfter(i, t, l)
        \/ /\ touched[t][l] <= TimeIn(wire[i], t)
           /\ Touches(wire[i], t, l) => ValueIn(wire[i], t, l) = exch[t][l]

\* Sending the current books of some tokens keeps the wire accurate, for them
\* and for the tokens subscribed before.
LEMMA SendingDump ==
    ASSUME TypeOK, TouchedInTime, WireAccurate, NEW S \in SUBSET Tokens,
           wire' = wire \o Dump(S), UNCHANGED <<exch, exchTs, touched>>,
           subs' \subseteq subs \cup S
    PROVE  WireAccurate'
<1> SUFFICES ASSUME NEW t \in subs', NEW l \in Levels, NEW i \in 1 .. Len(wire')
             PROVE  FrameAccurate(i, t, l)'
  BY DEF WireAccurate, FrameAccurate
<1>1. t \in Tokens /\ wire \in Seq(Frame)
  BY DEF TypeOK
<1>2. CASE S = {}
  <2>1. wire' = wire /\ t \in subs
    BY <1>1, <1>2 DEF Dump
  <2>2. FrameAccurate(i, t, l)
    BY <2>1 DEF WireAccurate, FrameAccurate
  <2> QED
    BY <2>1, <2>2 DEF FrameAccurate, TouchedAfter
<1>3. CASE S # {}
  <2>1. /\ Len(wire') = Len(wire) + 1 /\ Len(wire) \in Nat
        /\ \A j \in 1 .. Len(wire) : wire'[j] = wire[j]
        /\ wire'[Len(wire) + 1] = BookFrame(S)
    BY <1>1, <1>3 DEF Dump
  <2>2. CASE i = Len(wire) + 1
    <3>1. wire'[i] = BookFrame(S)
      BY <2>1, <2>2
    <3>2. touched[t][l] <= exchTs[t]
      BY <1>1 DEF TouchedInTime
    <3>3. /\ About(wire'[i], t) <=> t \in S
          /\ t \in S => /\ ValueIn(wire'[i], t, l) = exch[t][l]
                        /\ TimeIn(wire'[i], t) = exchTs[t]
      BY <1>1, <3>1, DumpFrame
    <3> QED
      BY <3>2, <3>3 DEF FrameAccurate
  <2>3. CASE i # Len(wire) + 1 /\ t \in S
    <3>1. Touches(wire'[Len(wire) + 1], t, l) /\ Len(wire) + 1 \in (i + 1) .. Len(wire')
      BY <1>1, <2>1, <2>3, DumpFrame
    <3> QED
      BY <3>1 DEF FrameAccurate, TouchedAfter
  <2>4. CASE i # Len(wire) + 1 /\ t \notin S
    <3>1. i \in 1 .. Len(wire) /\ wire'[i] = wire[i] /\ t \in subs
      BY <2>1, <2>4
    <3>2. FrameAccurate(i, t, l)
      BY <3>1 DEF WireAccurate, FrameAccurate
    <3>3. TouchedAfter(i, t, l) => TouchedAfter(i, t, l)'
      BY <2>1, <3>1 DEF TouchedAfter
    <3> QED
      BY <3>1, <3>2, <3>3 DEF FrameAccurate
  <2> QED
    BY <2>2, <2>3, <2>4
<1> QED
  BY <1>2, <1>3

\* What a change that is not lost does to the wire and to the exchange.
LEMMA ChangeEffect ==
    ASSUME MaxLosses = 0, StrictClock, TypeOK, TouchedInTime,
           NEW t \in Tokens, NEW l \in Levels,
           NEW size \in Sizes \cup {0}, NEW time \in {clock, clock + 1},
           NEW lost \in BOOLEAN, Change(t, l, size, time, lost)
    PROVE  LET d == DeltaFrame(t, l, time, exch'[t])
           IN  /\ IF t \in subs THEN wire' = Append(wire, d) ELSE wire' = wire
               /\ exch'[t][l] = size /\ touched'[t][l] = time
               /\ \A k \in Levels : touched[t][k] <= time
               /\ \A u \in Tokens, k \in Levels : u # t \/ k # l =>
                    touched'[u][k] = touched[u][k] /\ exch'[u][k] = exch[u][k]
               /\ UNCHANGED <<subs, conn, tracked, control, known, book, ts>>
<1>1. /\ exch \in [Tokens -> Book] /\ exchTs \in [Tokens -> Nat] /\ time \in Nat
      /\ touched \in [Tokens -> [Levels -> Nat]]
  BY DEF TypeOK
<1>2. ~lost
  BY DEF Change, TypeOK
<1>3. /\ exch' = [exch EXCEPT ![t] = [exch[t] EXCEPT ![l] = size]]
      /\ touched' = [touched EXCEPT ![t][l] = time]
      /\ time > exchTs[t]
      /\ UNCHANGED <<subs, conn, tracked, control, known, book, ts>>
  BY DEF Change, cacheVars
<1>4. exch'[t] = [exch[t] EXCEPT ![l] = size]
  BY <1>1, <1>3
<1>5. IF t \in subs THEN wire' = Append(wire, DeltaFrame(t, l, time, exch'[t]))
      ELSE wire' = wire
  BY <1>2, <1>4 DEF Change
<1>6. \A k \in Levels : touched[t][k] <= time
  <2> TAKE k \in Levels
  <2>1. touched[t][k] \in Nat /\ exchTs[t] \in Nat /\ touched[t][k] <= exchTs[t]
    BY <1>1 DEF TouchedInTime
  <2> QED
    BY <1>1, <1>3, <2>1
<1>7. exch'[t][l] = size /\ touched'[t][l] = time
  BY <1>1, <1>3 DEF Book
<1>8. \A u \in Tokens, k \in Levels : u # t \/ k # l =>
        touched'[u][k] = touched[u][k] /\ exch'[u][k] = exch[u][k]
  BY <1>1, <1>3 DEF Book
<1> QED
  BY <1>3, <1>5, <1>6, <1>7, <1>8

LEMMA ChangeKeepsWire ==
    ASSUME MaxLosses = 0, StrictClock, TypeOK, TouchedInTime, WireAccurate,
           NEW t \in Tokens, NEW l \in Levels,
           NEW size \in Sizes \cup {0}, NEW time \in {clock, clock + 1},
           NEW lost \in BOOLEAN, Change(t, l, size, time, lost)
    PROVE  WireAccurate'
<1> DEFINE d == DeltaFrame(t, l, time, exch'[t])
<1>1. /\ IF t \in subs THEN wire' = Append(wire, d) ELSE wire' = wire
      /\ exch'[t][l] = size /\ touched'[t][l] = time
      /\ \A k \in Levels : touched[t][k] <= time
      /\ \A u \in Tokens, k \in Levels : u # t \/ k # l =>
           touched'[u][k] = touched[u][k] /\ exch'[u][k] = exch[u][k]
      /\ subs' = subs
  BY ChangeEffect
<1>2. wire \in Seq(Frame) /\ subs \subseteq Tokens /\ time \in Nat
  BY DEF TypeOK
<1> SUFFICES ASSUME NEW u \in subs, NEW k \in Levels, NEW i \in 1 .. Len(wire')
             PROVE  FrameAccurate(i, u, k)'
  BY <1>1 DEF WireAccurate, FrameAccurate
<1>3. CASE t \notin subs
  <2>1. wire' = wire /\ u # t /\ u \in Tokens
    BY <1>1, <1>2, <1>3
  <2>2. FrameAccurate(i, u, k)
    BY <2>1 DEF WireAccurate, FrameAccurate
  <2>3. touched'[u][k] = touched[u][k] /\ exch'[u][k] = exch[u][k]
    BY <1>1, <2>1
  <2> QED
    BY <2>1, <2>2, <2>3 DEF FrameAccurate, TouchedAfter
<1>4. CASE t \in subs
  <2>1. /\ Len(wire') = Len(wire) + 1 /\ Len(wire) \in Nat
        /\ \A j \in 1 .. Len(wire) : wire'[j] = wire[j]
        /\ wire'[Len(wire) + 1] = d
    BY <1>1, <1>2, <1>4
  <2>2. /\ About(d, u) <=> u = t
        /\ Touches(d, u, k) <=> u = t /\ k = l
        /\ ValueIn(d, u, k) = exch'[t][l]
        /\ TimeIn(d, u) = time
    BY <1>2, DeltaFrameSays
  <2>3. CASE i = Len(wire) + 1
    <3>1. wire'[i] = d
      BY <2>1, <2>3
    <3>2. u = t => touched'[u][k] <= time
      BY <1>1, <1>2
    <3> QED
      BY <2>2, <3>1, <3>2 DEF FrameAccurate
  <2>4. CASE i # Len(wire) + 1
    <3>1. i \in 1 .. Len(wire) /\ wire'[i] = wire[i]
      BY <2>1, <2>4
    <3>2. CASE u = t /\ k = l
      <4>1. Touches(wire'[Len(wire) + 1], u, k) /\ Len(wire) + 1 \in (i + 1) .. Len(wire')
        BY <2>1, <2>2, <3>1, <3>2
      <4> QED
        BY <4>1 DEF FrameAccurate, TouchedAfter
    <3>3. CASE ~(u = t /\ k = l)
      <4>1. FrameAccurate(i, u, k)
        BY <3>1 DEF WireAccurate, FrameAccurate
      <4>2. TouchedAfter(i, u, k) => TouchedAfter(i, u, k)'
        BY <2>1, <3>1 DEF TouchedAfter
      <4>3. touched'[u][k] = touched[u][k] /\ exch'[u][k] = exch[u][k]
        BY <1>1, <1>2, <3>3
      <4> QED
        BY <3>1, <4>1, <4>2, <4>3 DEF FrameAccurate
    <3> QED
      BY <3>2, <3>3
  <2> QED
    BY <2>3, <2>4
<1> QED
  BY <1>3, <1>4

\* Receiving a frame shifts the others.
LEMMA TailEffect ==
    ASSUME TypeOK, wire # <<>>, wire' = Tail(wire), NEW t, NEW l
    PROVE  /\ Len(wire') = Len(wire) - 1 /\ Len(wire) \in Nat /\ Len(wire) >= 1
           /\ \A i \in 1 .. Len(wire') : wire'[i] = wire[i + 1]
           /\ Head(wire) = wire[1] /\ wire[1] \in Frame
           /\ \A i \in Nat : TouchedAfter(i + 1, t, l) => TouchedAfter(i, t, l)'
<1>1. wire \in Seq(Frame)
  BY DEF TypeOK
<1>2. /\ Len(wire') = Len(wire) - 1 /\ Len(wire) \in Nat /\ Len(wire) >= 1
      /\ \A i \in 1 .. Len(wire') : wire'[i] = wire[i + 1]
      /\ Head(wire) = wire[1] /\ wire[1] \in Frame
  BY <1>1
<1>3. ASSUME NEW i \in Nat, TouchedAfter(i + 1, t, l)
      PROVE  TouchedAfter(i, t, l)'
  <2>1. PICK j \in ((i + 1) + 1) .. Len(wire) : Touches(wire[j], t, l)
    BY <1>3 DEF TouchedAfter
  <2>2. j - 1 \in (i + 1) .. Len(wire') /\ wire'[j - 1] = wire[j]
    BY <1>2, <2>1
  <2> QED
    BY <2>1, <2>2 DEF TouchedAfter
<1> QED
  BY <1>2, <1>3

LEMMA IngestKeepsWire ==
    ASSUME TypeOK, WireAccurate, Ingest
    PROVE  WireAccurate'
<1>1. wire # <<>> /\ wire' = Tail(wire) /\ UNCHANGED <<exch, touched, subs>>
  BY DEF Ingest, exchVars
<1> SUFFICES ASSUME NEW t \in subs, NEW l \in Levels, NEW i \in 1 .. Len(wire')
             PROVE  FrameAccurate(i, t, l)'
  BY <1>1 DEF WireAccurate, FrameAccurate
<1>2. i + 1 \in 1 .. Len(wire) /\ wire'[i] = wire[i + 1]
  BY <1>1, TailEffect
<1>3. FrameAccurate(i + 1, t, l)
  BY <1>2 DEF WireAccurate, FrameAccurate
<1>4. TouchedAfter(i + 1, t, l) => TouchedAfter(i, t, l)'
  BY <1>1, TailEffect
<1> QED
  BY <1>1, <1>2, <1>3, <1>4 DEF FrameAccurate

LEMMA SendOpEffect ==
    ASSUME TypeOK, SendOp
    PROVE  /\ control \in Seq(ControlOp) /\ control # <<>>
           /\ Head(control).tokens \in SUBSET Tokens
           /\ Head(control).operation \in {"subscribe", "unsubscribe"}
<1>1. control \in Seq(ControlOp) /\ control # <<>>
  BY DEF TypeOK, SendOp
<1>2. Head(control) \in ControlOp
  BY <1>1
<1> QED
  BY <1>1, <1>2 DEF ControlOp

LEMMA WireStep ==
    ASSUME MaxLosses = 0, StrictClock, TypeOK, OnlyWhenUp, TouchedInTime,
           WireAccurate, [Next]_vars
    PROVE  WireAccurate'
<1>1. CASE Exchange
  BY <1>1, ChangeKeepsWire DEF Exchange
<1>2. CASE Opened
  <2>1. wire' = wire \o Dump(want) /\ subs' = subs \cup want
    <3>1. wire = <<>> /\ subs = {} /\ Dump(want) \in Seq(Frame)
      BY <1>2, DumpType DEF Opened, OnlyWhenUp, TypeOK
    <3> QED
      BY <1>2, <3>1 DEF Opened
  <2> QED
    BY <1>2, <2>1, SendingDump DEF Opened, exchVars, TypeOK
<1>3. CASE SendOp
  <2> DEFINE S == Head(control).tokens
  <2>1. S \in SUBSET Tokens
    BY <1>3, SendOpEffect
  <2>2. UNCHANGED <<exch, exchTs, touched>>
    BY <1>3 DEF SendOp, exchVars
  <2>3. CASE Head(control).operation = "subscribe"
    <3>1. wire' = wire \o Dump(S) /\ subs' \subseteq subs \cup S
      BY <1>3, <2>3 DEF SendOp
    <3> QED
      BY <2>1, <2>2, <3>1, SendingDump
  <2>4. CASE Head(control).operation # "subscribe"
    <3>1. wire' = wire /\ subs' \subseteq subs
      BY <1>3, <2>4 DEF SendOp
    <3> QED
      BY <2>2, <3>1 DEF WireAccurate, TouchedAfter
  <2> QED
    BY <2>3, <2>4
<1>4. CASE Ingest
  BY <1>4, IngestKeepsWire
<1>5. CASE Disconnect
  BY <1>5 DEF Disconnect, WireAccurate
<1>6. CASE Attempt \/ Scanner \/ ResyncLoop \/ UNCHANGED vars
  <2>1. UNCHANGED <<exch, touched, subs, wire>>
    <3>1. CASE Attempt
      BY <3>1 DEF Attempt, exchVars
    <3> QED
      BY <1>6, <3>1, ScannerFrame, ResyncFrame, VarsFrame DEF exchVars, connVars
  <2> QED
    BY <2>1 DEF WireAccurate, TouchedAfter
<1> QED
  BY <1>1, <1>2, <1>3, <1>4, <1>5, <1>6 DEF Next, StreamLoop

\* CacheAccurate, one token.
TokenAccurate(t) ==
    ~Mentioned(t) /\ ~DumpPending(t) =>
        /\ t \in known
        /\ \A l \in Levels :
             \/ TouchedAfter(0, t, l)
             \/ book[t][l] = exch[t][l] /\ touched[t][l] <= ts[t]

\* A tracked token no queued operation names is subscribed.
LEMMA SettledIsSubscribed ==
    ASSUME ControlAccurate, conn = "up", NEW t \in Tokens, t \in tracked, ~Mentioned(t)
    PROVE  t \in subs
BY DEF ControlAccurate, TurnInto, Mentioned

LEMMA ChangeKeepsCache ==
    ASSUME MaxLosses = 0, StrictClock, TypeOK, TouchedInTime, ControlAccurate,
           CacheAccurate, NEW t \in Tokens, NEW l \in Levels,
           NEW size \in Sizes \cup {0}, NEW time \in {clock, clock + 1},
           NEW lost \in BOOLEAN, Change(t, l, size, time, lost)
    PROVE  CacheAccurate'
<1> DEFINE d == DeltaFrame(t, l, time, exch'[t])
<1>1. /\ IF t \in subs THEN wire' = Append(wire, d) ELSE wire' = wire
      /\ \A u \in Tokens, k \in Levels : u # t \/ k # l =>
           touched'[u][k] = touched[u][k] /\ exch'[u][k] = exch[u][k]
  BY ChangeEffect
<1>2. UNCHANGED <<subs, conn, tracked, control, known, book, ts>>
  BY DEF Change, cacheVars
<1> SUFFICES ASSUME conn = "up", NEW u \in tracked, ~Mentioned(u), ~DumpPending(u)'
             PROVE  /\ u \in known'
                    /\ \A k \in Levels :
                         \/ TouchedAfter(0, u, k)'
                         \/ /\ book'[u][k] = exch'[u][k]
                            /\ touched'[u][k] <= ts'[u]
  BY <1>2 DEF CacheAccurate, Mentioned
<1>3. u \in Tokens /\ wire \in Seq(Frame)
  BY DEF TypeOK
<1>4. u \in subs
  BY <1>3, SettledIsSubscribed
<1>5. /\ Len(wire') >= Len(wire) /\ Len(wire) \in Nat /\ Len(wire') \in Nat
      /\ \A j \in 1 .. Len(wire) : wire'[j] = wire[j]
  BY <1>1, <1>3
<1>6. ~DumpPending(u)
  BY <1>5 DEF DumpPending
<1>7. TokenAccurate(u)
  BY <1>6 DEF CacheAccurate, TokenAccurate
<1>8. ASSUME NEW k \in Levels
      PROVE  \/ TouchedAfter(0, u, k)'
             \/ book'[u][k] = exch'[u][k] /\ touched'[u][k] <= ts'[u]
  <2>1. CASE u = t /\ k = l
    <3>1. wire' = Append(wire, d)
      BY <1>1, <1>4, <2>1
    <3>2. wire'[Len(wire) + 1] = d /\ Len(wire) + 1 \in (0 + 1) .. Len(wire')
      BY <1>3, <3>1
    <3>3. Touches(d, u, k)
      BY <2>1, DeltaFrameSays
    <3> QED
      BY <3>2, <3>3 DEF TouchedAfter
  <2>2. CASE ~(u = t /\ k = l)
    <3>1. TouchedAfter(0, u, k) => TouchedAfter(0, u, k)'
      BY <1>5 DEF TouchedAfter
    <3>2. touched'[u][k] = touched[u][k] /\ exch'[u][k] = exch[u][k]
      BY <1>1, <1>3, <2>2
    <3> QED
      BY <1>2, <1>6, <1>7, <3>1, <3>2 DEF TokenAccurate
  <2> QED
    BY <2>1, <2>2
<1> QED
  BY <1>2, <1>6, <1>7, <1>8 DEF TokenAccurate

LEMMA OpenedMakesCache ==
    ASSUME TypeOK, ControlAccurate, Opened
    PROVE  CacheAccurate'
<1> SUFFICES ASSUME NEW t \in tracked, ~Mentioned(t)
             PROVE  DumpPending(t)'
  BY DEF Opened, CacheAccurate, Mentioned
<1>1. t \in Tokens /\ want \subseteq Tokens
  BY DEF TypeOK
<1>2. t \in want
  BY <1>1 DEF Opened, ControlAccurate, TurnInto, Mentioned
<1>3. wire' = <<BookFrame(want)>>
  BY <1>2 DEF Opened, Dump
<1>4. BookFrame(want).kind = "book" /\ About(BookFrame(want), t)
  BY <1>2 DEF BookFrame, About
<1>5. wire'[1] = BookFrame(want) /\ 1 \in 1 .. Len(wire')
  BY <1>3
<1> QED
  BY <1>4, <1>5 DEF DumpPending

LEMMA SendOpKeepsCache ==
    ASSUME TypeOK, ControlAccurate, CacheAccurate, SendOp
    PROVE  CacheAccurate'
<1> DEFINE S == Head(control).tokens
<1>1. /\ control \in Seq(ControlOp) /\ control # <<>> /\ S \in SUBSET Tokens
      /\ Head(control).operation \in {"subscribe", "unsubscribe"}
  BY SendOpEffect
<1>2. /\ control' = Tail(control) /\ conn = "up"
      /\ UNCHANGED <<conn, tracked, known, book, ts, exch, touched>>
  BY DEF SendOp, cacheVars, exchVars
<1>3. /\ Head(control) = control[1] /\ Len(control) \in Nat /\ Len(control) >= 1
      /\ Len(control') = Len(control) - 1
      /\ \A i \in 1 .. Len(control') : control'[i] = control[i + 1]
  BY <1>1, <1>2
<1> SUFFICES ASSUME NEW t \in tracked, ~Mentioned(t)', ~DumpPending(t)'
             PROVE  /\ t \in known'
                    /\ \A l \in Levels :
                         \/ TouchedAfter(0, t, l)'
                         \/ /\ book'[t][l] = exch'[t][l]
                            /\ touched'[t][l] <= ts'[t]
  BY <1>2 DEF CacheAccurate
<1>4. t \in Tokens /\ wire \in Seq(Frame)
  BY DEF TypeOK
<1>5. \A j \in 2 .. Len(control) : t \notin control[j].tokens
  <2> SUFFICES ASSUME NEW j \in 2 .. Len(control) PROVE t \notin control[j].tokens
    OBVIOUS
  <2>1. j - 1 \in 1 .. Len(control') /\ control'[j - 1] = control[j]
    BY <1>3
  <2> QED
    BY <2>1 DEF Mentioned
<1>6. CASE t \in S
  <2>1. LastMention(control, 1, t) /\ 1 \in 1 .. Len(control)
    BY <1>3, <1>5, <1>6 DEF LastMention
  <2>2. Head(control).operation = "subscribe"
    BY <1>2, <1>3, <1>4, <2>1 DEF ControlAccurate, TurnInto
  <2>3. wire' = Append(wire, BookFrame(S))
    BY <1>4, <1>6, <2>2 DEF SendOp, Dump
  <2>4. wire'[Len(wire) + 1] = BookFrame(S) /\ Len(wire) + 1 \in 1 .. Len(wire')
    BY <1>4, <2>3
  <2>5. BookFrame(S).kind = "book" /\ About(BookFrame(S), t)
    BY <1>6 DEF BookFrame, About
  <2> QED
    BY <2>4, <2>5 DEF DumpPending
<1>7. CASE t \notin S
  <2>1. ~Mentioned(t)
    BY <1>3, <1>5, <1>7 DEF Mentioned
  <2>2. /\ Len(wire') >= Len(wire) /\ Len(wire) \in Nat /\ Len(wire') \in Nat
        /\ \A j \in 1 .. Len(wire) : wire'[j] = wire[j]
    <3>1. CASE Head(control).operation = "subscribe"
      <4>1. Dump(S) \in Seq(Frame) /\ wire' = wire \o Dump(S)
        BY <1>1, <3>1, DumpType DEF SendOp
      <4> QED
        BY <1>4, <4>1
    <3>2. CASE Head(control).operation # "subscribe"
      BY <1>4, <3>2 DEF SendOp
    <3> QED
      BY <3>1, <3>2
  <2>3. ~DumpPending(t)
    BY <2>2 DEF DumpPending
  <2>4. \A l \in Levels : TouchedAfter(0, t, l) => TouchedAfter(0, t, l)'
    BY <2>2 DEF TouchedAfter
  <2> QED
    BY <1>2, <2>1, <2>3, <2>4 DEF CacheAccurate
<1> QED
  BY <1>6, <1>7

\* What receiving a frame does to one token, by what the frame is.
LEMMA IngestEffect ==
    ASSUME TypeOK, Ingest, NEW t \in Tokens
    PROVE  LET m == wire[1]
           IN  /\ m.kind = "book" /\ About(m, t) =>
                    t \in known' /\ book'[t] = m.book[t] /\ ts'[t] = m.ts[t]
               /\ m.kind # "book" /\ About(m, t) /\ t \in known =>
                    /\ t \in known' /\ ts'[t] = m.ts
                    /\ book'[t] = [book[t] EXCEPT ![m.entry.level] = m.entry.size]
               /\ ~About(m, t) /\ t \in known =>
                    t \in known' /\ book'[t] = book[t] /\ ts'[t] = ts[t]
<1> DEFINE m == Head(wire)
<1>1. m = wire[1]
  BY DEF TypeOK, Ingest
<1>2. CASE m.kind = "book"
  <2>1. HandleBook(Snaps(m))
    BY <1>2 DEF Ingest
  <2>2. DOMAIN Snaps(m) = m.tokens
    BY DEF Snaps
  <2>3. \A u \in m.tokens : Snaps(m)[u].book = m.book[u] /\ Snaps(m)[u].ts = m.ts[u]
    BY DEF Snaps
  <2>4. About(m, t) <=> t \in m.tokens
    BY <1>2 DEF About
  <2> HIDE DEF m
  <2>5. /\ known' = known \cup m.tokens
        /\ book'[t] = IF t \in m.tokens THEN m.book[t] ELSE book[t]
        /\ ts'[t] = IF t \in m.tokens THEN m.ts[t] ELSE ts[t]
    BY <2>1, <2>2, <2>3 DEF HandleBook
  <2> QED
    BY <1>1, <1>2, <2>4, <2>5
<1>3. CASE m.kind # "book"
  <2> DEFINE entries == [u \in {m.token} |-> m.entry]
  <2>1. HandlePriceChange(m.ts, entries)
    BY <1>3 DEF Ingest
  <2>2. DOMAIN entries = {m.token} /\ entries[m.token] = m.entry
    OBVIOUS
  <2>3. About(m, t) <=> m.token = t
    BY <1>3 DEF About
  <2> HIDE DEF m, entries
  <2>4. /\ known' = known
        /\ book'[t] = IF t = m.token /\ t \in known
                      THEN AfterEntry(book[t], m.entry) ELSE book[t]
        /\ ts'[t] = IF t = m.token /\ t \in known THEN m.ts ELSE ts[t]
    BY <2>1, <2>2 DEF HandlePriceChange
  <2> QED
    BY <1>1, <1>3, <2>3, <2>4 DEF AfterEntry
<1> QED
  BY <1>2, <1>3

LEMMA IngestKeepsCache ==
    ASSUME TypeOK, ControlAccurate, WireAccurate, CacheAccurate, Ingest
    PROVE  CacheAccurate'
<1> DEFINE m == wire[1]
<1>1. /\ wire # <<>> /\ wire' = Tail(wire) /\ conn = "up"
      /\ UNCHANGED <<conn, tracked, control, subs, exch, touched>>
  BY DEF Ingest, exchVars
<1> SUFFICES ASSUME NEW t \in tracked, ~Mentioned(t), ~DumpPending(t)'
             PROVE  /\ t \in known'
                    /\ \A l \in Levels :
                         \/ TouchedAfter(0, t, l)'
                         \/ /\ book'[t][l] = exch[t][l]
                            /\ touched[t][l] <= ts'[t]
  BY <1>1 DEF CacheAccurate, Mentioned
<1>2. t \in Tokens
  BY DEF TypeOK
<1>3. t \in subs
  BY <1>1, <1>2, SettledIsSubscribed
<1>4. /\ Len(wire') = Len(wire) - 1 /\ Len(wire) \in Nat /\ Len(wire) >= 1
      /\ \A i \in 1 .. Len(wire') : wire'[i] = wire[i + 1]
      /\ m \in Frame
  BY <1>1, TailEffect
<1>5. \A l \in Levels : TouchedAfter(1, t, l) => TouchedAfter(0, t, l)'
  BY <1>1, TailEffect
<1>6. \A l \in Levels : About(m, t) =>
        \/ TouchedAfter(1, t, l)
        \/ /\ touched[t][l] <= TimeIn(m, t)
           /\ Touches(m, t, l) => ValueIn(m, t, l) = exch[t][l]
  BY <1>3, <1>4 DEF WireAccurate
<1>7. CASE m.kind = "book" /\ About(m, t)
  <2>1. t \in known' /\ book'[t] = m.book[t] /\ ts'[t] = m.ts[t]
    BY <1>2, <1>7, IngestEffect
  <2> QED
    BY <1>5, <1>6, <1>7, <2>1 DEF Touches, ValueIn, TimeIn
<1>8. CASE ~(m.kind = "book" /\ About(m, t))
  <2>1. ~DumpPending(t)
    <3> SUFFICES ASSUME NEW i \in 1 .. Len(wire), wire[i].kind = "book", About(wire[i], t)
                 PROVE  FALSE
      BY DEF DumpPending
    <3>1. i # 1
      BY <1>8
    <3>2. i - 1 \in 1 .. Len(wire') /\ wire'[i - 1] = wire[i]
      BY <1>4, <3>1
    <3> QED
      BY <3>2 DEF DumpPending
  <2>2. /\ t \in known
        /\ \A l \in Levels : \/ TouchedAfter(0, t, l)
                             \/ book[t][l] = exch[t][l] /\ touched[t][l] <= ts[t]
    BY <1>1, <2>1 DEF CacheAccurate
  <2>3. \A l \in Levels : TouchedAfter(0, t, l) => Touches(m, t, l) \/ TouchedAfter(1, t, l)
    BY <1>4 DEF TouchedAfter
  <2>4. CASE About(m, t)
    <3>1. m.kind # "book"
      BY <1>8, <2>4
    <3>2. /\ t \in known' /\ ts'[t] = m.ts
          /\ book'[t] = [book[t] EXCEPT ![m.entry.level] = m.entry.size]
      BY <1>2, <2>2, <2>4, <3>1, IngestEffect
    <3>3. book[t] \in Book
      BY <1>2 DEF TypeOK, CacheTypeOK
    <3>4. \A l \in Levels : book'[t][l] = IF l = m.entry.level THEN m.entry.size ELSE book[t][l]
      BY <3>2, <3>3 DEF Book
    <3>5. TimeIn(m, t) = m.ts /\ \A l \in Levels : ValueIn(m, t, l) = m.entry.size
      BY <3>1 DEF TimeIn, ValueIn
    <3>6. \A l \in Levels : Touches(m, t, l) <=> m.entry.level = l
      BY <2>4, <3>1 DEF Touches
    <3> HIDE DEF m
    <3> QED
      BY <1>5, <1>6, <2>2, <2>3, <2>4, <3>2, <3>4, <3>5, <3>6
  <2>5. CASE ~About(m, t)
    <3>1. t \in known' /\ book'[t] = book[t] /\ ts'[t] = ts[t]
      BY <1>2, <2>2, <2>5, IngestEffect
    <3>2. \A l \in Levels : ~Touches(m, t, l)
      BY <2>5 DEF Touches
    <3> QED
      BY <1>5, <2>2, <2>3, <3>1, <3>2
  <2> QED
    BY <2>4, <2>5
<1> QED
  BY <1>7, <1>8

\* A token that stays tracked keeps its cached book; one that is added is named
\* by a queued operation.
LEMMA SetTokensKeepsCache ==
    ASSUME TypeOK, CacheAccurate, NEW new \in SUBSET Tokens, SetTokens(new)
    PROVE  CacheAccurate'
<1> DEFINE added == new \ tracked
           dropped == tracked \ new
           first == control \o Operation("subscribe", added)
<1>1. /\ tracked' = new /\ UNCHANGED <<conn, wire, exch, touched>>
      /\ control' = first \o Operation("unsubscribe", dropped)
      /\ Evict(dropped)
  BY DEF SetTokens, exchVars
<1>2. control \in Seq(ControlOp) /\ tracked \subseteq Tokens
  BY DEF TypeOK
<1>3. /\ Operation("subscribe", added) \in Seq(ControlOp)
      /\ Operation("unsubscribe", dropped) \in Seq(ControlOp)
  BY <1>2, OperationType
<1>4. first \in Seq(ControlOp) /\ Len(first) >= Len(control) /\ Len(first) \in Nat
      /\ \A i \in 1 .. Len(control) : first[i] = control[i]
  BY <1>2, <1>3
<1> HIDE DEF first
<1>5. Len(control') >= Len(first) /\ \A i \in 1 .. Len(first) : control'[i] = first[i]
  BY <1>1, <1>3, <1>4
<1> SUFFICES ASSUME conn = "up", NEW t \in new, ~Mentioned(t)', ~DumpPending(t)'
             PROVE  /\ t \in known'
                    /\ \A l \in Levels :
                         \/ TouchedAfter(0, t, l)
                         \/ book'[t][l] = exch[t][l] /\ touched[t][l] <= ts'[t]
  BY <1>1 DEF CacheAccurate, TouchedAfter
<1>6. ~Mentioned(t)
  <2> SUFFICES ASSUME NEW i \in 1 .. Len(control), t \in control[i].tokens PROVE FALSE
    BY DEF Mentioned
  <2>1. i \in 1 .. Len(control') /\ control'[i] = control[i]
    BY <1>2, <1>4, <1>5
  <2> QED
    BY <2>1 DEF Mentioned
<1>7. t \in tracked
  <2> SUFFICES ASSUME t \notin tracked PROVE FALSE
    OBVIOUS
  <2> DEFINE op == [operation |-> "subscribe", tokens |-> added]
  <2>1. Operation("subscribe", added) = <<op>> /\ op.tokens = added
    BY DEF Operation
  <2>2. op \in ControlOp
    BY DEF TypeOK, ControlOp
  <2> HIDE DEF op
  <2>3. first = control \o <<op>>
    BY <2>1 DEF first
  <2>4. first[Len(control) + 1] = op /\ Len(first) = Len(control) + 1
    BY <1>2, <2>2, <2>3
  <2>5. Len(control) + 1 \in 1 .. Len(control') /\ t \in control'[Len(control) + 1].tokens
    BY <1>2, <1>4, <1>5, <2>1, <2>4
  <2> QED
    BY <2>5 DEF Mentioned
<1>8. ~DumpPending(t)
  BY <1>1 DEF DumpPending
<1>9. book'[t] = book[t] /\ ts'[t] = ts[t] /\ (t \in known => t \in known')
  BY <1>1, <1>2, <1>7 DEF Evict
<1> QED
  BY <1>6, <1>7, <1>8, <1>9 DEF CacheAccurate

\* A response that is accepted is no older than the cached book, so it is right
\* about every level whose changes have all been received.
LEMMA CompleteKeepsCache ==
    ASSUME TypeOK, SnapshotAccurate, CacheAccurate, NEW t \in Tokens, Complete(t)
    PROVE  CacheAccurate'
<1>1. UNCHANGED <<conn, tracked, control, wire, exch, touched>>
  BY DEF Complete, exchVars, connVars
<1> SUFFICES ASSUME conn = "up", NEW u \in tracked, ~Mentioned(u), ~DumpPending(u)
             PROVE  /\ u \in known'
                    /\ \A l \in Levels :
                         \/ TouchedAfter(0, u, l)
                         \/ book'[u][l] = exch[u][l] /\ touched[u][l] <= ts'[u]
  BY <1>1 DEF CacheAccurate, TouchedAfter, Mentioned, DumpPending
<1>2. /\ u \in known
      /\ \A l \in Levels : \/ TouchedAfter(0, u, l)
                           \/ book[u][l] = exch[u][l] /\ touched[u][l] <= ts[u]
  BY DEF CacheAccurate
<1>3. /\ u \in Tokens /\ book \in [Tokens -> Book] /\ ts \in [Tokens -> Nat]
      /\ snapTs[t] \in Nat /\ ts[t] \in Nat
      /\ \A l \in Levels : touched[t][l] \in Nat
  BY DEF TypeOK, CacheTypeOK
<1>4. CASE t # u \/ t \notin tracked \/ Regresses(t, snapTs[t])
  <2>1. u \in known' /\ book'[u] = book[u] /\ ts'[u] = ts[u]
    BY <1>2, <1>3, <1>4 DEF Complete, Seed, cacheVars
  <2> QED
    BY <1>2, <2>1
<1>5. CASE t = u /\ t \in tracked /\ ~Regresses(t, snapTs[t])
  <2>1. u \in known' /\ book'[u] = snapBook[u] /\ ts'[u] = snapTs[u]
    BY <1>3, <1>5 DEF Complete, Seed
  <2>2. ts[u] <= snapTs[u]
    BY <1>2, <1>3, <1>5 DEF Regresses
  <2>3. ASSUME NEW l \in Levels, touched[u][l] <= ts[u]
        PROVE  snapBook[u][l] = exch[u][l] /\ touched[u][l] <= snapTs[u]
    <3>1. touched[u][l] <= snapTs[u]
      BY <1>3, <1>5, <2>2, <2>3
    <3>2. snapBook[u][l] = exch[u][l] \/ snapTs[u] < touched[u][l]
      BY <1>3, <1>5 DEF Complete, SnapshotAccurate
    <3> QED
      BY <1>3, <1>5, <3>1, <3>2
  <2> QED
    BY <1>2, <2>1, <2>3
<1> QED
  BY <1>4, <1>5

LEMMA CacheStep ==
    ASSUME MaxLosses = 0, StrictClock, IInv, [Next]_vars
    PROVE  CacheAccurate'
<1> USE DEF IInv
<1>1. CASE Exchange
  BY <1>1, ChangeKeepsCache DEF Exchange
<1>2. CASE Opened
  BY <1>2, OpenedMakesCache
<1>3. CASE SendOp
  BY <1>3, SendOpKeepsCache
<1>4. CASE Ingest
  BY <1>4, IngestKeepsCache
<1>5. CASE Attempt \/ Disconnect
  BY <1>5 DEF Attempt, Disconnect, CacheAccurate
<1>6. CASE Scanner
  BY <1>6, SetTokensKeepsCache DEF Scanner
<1>7. ASSUME NEW t \in Tokens, Complete(t) PROVE CacheAccurate'
  BY <1>7, CompleteKeepsCache
<1>8. CASE \/ WakeStale \/ FullResync \/ Sleep
           \/ \E t \in Tokens : SendFetch(t) \/ Serve(t) \/ FetchFails(t)
           \/ UNCHANGED vars
  <2>1. UNCHANGED <<known, book, ts, conn, control, tracked, wire, exch, touched>>
    BY <1>8 DEF WakeStale, TakeStale, FullResync, Sleep, SendFetch, Serve,
                FetchFails, vars, cacheVars, exchVars, connVars
  <2> QED
    BY <2>1 DEF CacheAccurate, TouchedAfter, Mentioned, DumpPending
<1> QED
  BY <1>1, <1>2, <1>3, <1>4, <1>5, <1>6, <1>7, <1>8
  DEF Next, StreamLoop, ResyncLoop

\* Over a feed that loses nothing, and with a clock that separates the changes
\* of a book, the cache, the wire and the snapshots under way together always
\* account for the exchange's books: what the cache lacks is on the wire, and
\* what a snapshot lacks was touched after it was taken.
THEOREM InvariantHolds ==
    ASSUME MaxLosses = 0, StrictClock
    PROVE  Spec => []IInv
<1>1. Init => IInv
  <2> SUFFICES ASSUME Init PROVE IInv
    OBVIOUS
  <2>1. TypeOK /\ TouchedInTime /\ SnapshotAccurate
    BY RestInit DEF RestInv
  <2>2. OnlyWhenUp /\ ControlAccurate /\ WireAccurate /\ CacheAccurate
    BY DEF Init, OnlyWhenUp, ControlAccurate, WireAccurate, CacheAccurate
  <2> QED
    BY <2>1, <2>2 DEF IInv
<1>2. IInv /\ [Next]_vars => IInv'
  <2> SUFFICES ASSUME IInv, [Next]_vars PROVE IInv'
    OBVIOUS
  <2>1. TypeOK' /\ TouchedInTime' /\ SnapshotAccurate'
    BY RestStep DEF IInv, RestInv
  <2>2. ControlAccurate' /\ OnlyWhenUp'
    BY ControlStep, OnlyWhenUpStep DEF IInv
  <2>3. WireAccurate' /\ CacheAccurate'
    BY WireStep, CacheStep DEF IInv
  <2> QED
    BY <2>1, <2>2, <2>3 DEF IInv
<1> QED
  BY <1>1, <1>2, PTL DEF Spec

\* Over a feed that loses nothing, and with a clock that separates the changes
\* of a book, every tracked token that is settled and drained is cached with
\* exactly the exchange's book.
THEOREM CacheIsCoherent ==
    ASSUME MaxLosses = 0, StrictClock
    PROVE  Spec => []Coherent
<1>1. IInv => Coherent
  <2> SUFFICES ASSUME IInv, conn = "up", NEW t \in tracked, ~Mentioned(t), Drained(t)
               PROVE  t \in known /\ book[t] = exch[t]
    BY DEF Coherent
  <2>1. ~DumpPending(t) /\ \A l \in Levels : ~TouchedAfter(0, t, l)
    BY DEF Drained, DumpPending, TouchedAfter, Touches
  <2>2. t \in known /\ \A l \in Levels : book[t][l] = exch[t][l]
    BY <2>1 DEF IInv, CacheAccurate
  <2>3. book[t] \in Book /\ exch[t] \in Book
    BY DEF IInv, TypeOK, CacheTypeOK
  <2> QED
    BY <2>2, <2>3 DEF Book
<1> QED
  BY <1>1, InvariantHolds, PTL

-----------------------------------------------------------------------------
(* What is cached, and what is stamped.                                    *)

\* A step that caches a new token, or none, with its stamp.
LEMMA IngestCaches ==
    ASSUME StampedIsKnown, Ingest
    PROVE  StampedIsKnown'
<1> DEFINE m == Head(wire)
<1>1. CASE m.kind = "book"
  BY <1>1 DEF Ingest, HandleBook, Snaps, StampedIsKnown
<1>2. CASE m.kind # "book"
  <2>1. known' = known /\ stamped' = stamped \cup ({m.token} \cap known)
    BY <1>2 DEF Ingest, HandlePriceChange
  <2> QED
    BY <2>1 DEF StampedIsKnown
<1> QED
  BY <1>1, <1>2

\* A response caches and stamps its token, if that is still tracked.
LEMMA CompleteCaches ==
    ASSUME NEW t, Complete(t)
    PROVE  \/ t \in tracked /\ known' = known \cup {t} /\ stamped' = stamped \cup {t}
           \/ UNCHANGED <<known, stamped>>
<1>1. CASE t \in tracked
  <2>1. Seed(t, snapTs[t], snapBook[t]) /\ stamped' = stamped \cup {t}
    BY <1>1 DEF Complete
  <2>2. known' = known \cup {t}
    BY <2>1 DEF Seed, Regresses, cacheVars
  <2> QED
    BY <1>1, <2>1, <2>2
<1>2. CASE t \notin tracked
  BY <1>2 DEF Complete, cacheVars
<1> QED
  BY <1>1, <1>2

\* The other steps cache no token and stamp none; an eviction takes both away.
LEMMA OthersCacheNothing ==
    ASSUME \/ Exchange \/ Attempt \/ Opened \/ SendOp \/ Disconnect \/ Scanner
           \/ WakeStale \/ FullResync \/ Sleep
           \/ (\E t \in Tokens : SendFetch(t) \/ Serve(t) \/ FetchFails(t))
           \/ UNCHANGED vars
    PROVE  \E gone : known' = known \ gone /\ stamped' = stamped \ gone
<1>1. CASE Scanner
  BY <1>1 DEF Scanner, SetTokens, Evict
<1>2. CASE \/ Exchange \/ Attempt \/ Opened \/ SendOp \/ Disconnect
            \/ WakeStale \/ FullResync \/ Sleep
            \/ (\E t \in Tokens : SendFetch(t) \/ Serve(t) \/ FetchFails(t))
            \/ UNCHANGED vars
  <2>1. UNCHANGED <<known, stamped>>
    <3>1. CASE Exchange
      BY <3>1 DEF Exchange, Change, cacheVars
    <3>2. CASE Attempt \/ Opened \/ SendOp \/ Disconnect
      BY <3>2 DEF Attempt, Opened, SendOp, Disconnect, cacheVars
    <3>3. CASE WakeStale \/ FullResync \/ Sleep
      BY <3>3 DEF WakeStale, TakeStale, FullResync, Sleep, cacheVars
    <3>4. ASSUME NEW t \in Tokens, SendFetch(t) \/ Serve(t) \/ FetchFails(t)
          PROVE  UNCHANGED <<known, stamped>>
      BY <3>4 DEF SendFetch, Serve, FetchFails, cacheVars
    <3>5. CASE UNCHANGED vars
      BY <3>5 DEF vars, cacheVars
    <3> QED
      BY <1>2, <3>1, <3>2, <3>3, <3>4, <3>5
  <2>2. known' = known \ {} /\ stamped' = stamped \ {}
    BY <2>1
  <2> QED
    BY <2>2
<1> QED
  BY <1>1, <1>2

\* What is stamped is what is cached: no eviction, and no response that comes after
\* one, leaves a stamp without a book or a book without a stamp.
THEOREM StampsAreBooks == Spec => []StampedIsKnown
<1>1. Init => StampedIsKnown
  BY DEF Init, CacheInit, StampedIsKnown
<1>2. StampedIsKnown /\ [Next]_vars => StampedIsKnown'
  <2> SUFFICES ASSUME StampedIsKnown, [Next]_vars
               PROVE  StampedIsKnown'
    OBVIOUS
  <2>1. CASE Ingest
    BY <2>1, IngestCaches
  <2>2. ASSUME NEW t \in Tokens, Complete(t)
        PROVE  StampedIsKnown'
    BY <2>2, CompleteCaches DEF StampedIsKnown
  <2>3. CASE \E gone : known' = known \ gone /\ stamped' = stamped \ gone
    BY <2>3 DEF StampedIsKnown
  <2> QED
    BY <2>1, <2>2, <2>3, OthersCacheNothing DEF Next, StreamLoop, ResyncLoop
<1> QED
  BY <1>1, <1>2, PTL DEF Spec

\* A response never caches a token that is no longer tracked: only a frame can.
THEOREM DroppedStaysDropped == Spec => RestNeverResurrects
<1>1. TypeOK /\ [Next]_vars => [\A t \in known' \ known : t \in tracked \/ wire' # wire]_vars
  <2> SUFFICES ASSUME TypeOK, Next, NEW t \in known' \ known
               PROVE  t \in tracked \/ wire' # wire
    OBVIOUS
  <2>1. CASE Ingest
    <3>1. wire \in Seq(Frame) /\ wire # <<>> /\ wire' = Tail(wire)
      BY <2>1 DEF TypeOK, Ingest
    <3>2. Len(wire') # Len(wire)
      BY <3>1
    <3> QED
      BY <3>2
  <2>2. ASSUME NEW u \in Tokens, Complete(u)
        PROVE  t \in tracked
    BY <2>2, CompleteCaches
  <2>3. CASE \E gone : known' = known \ gone /\ stamped' = stamped \ gone
    BY <2>3
  <2> QED
    BY <2>1, <2>2, <2>3, OthersCacheNothing DEF Next, StreamLoop, ResyncLoop
<1> QED
  BY <1>1, TypeCorrect, PTL DEF Spec, RestNeverResurrects

-----------------------------------------------------------------------------
(* Revert detection.                                                        *)
\* The last hashes of a sequence that fit into the history.
TailOf(s) == SubSeq(s, Len(s) - Lesser(Len(s), HashHistorySize) + 1, Len(s))

SeenType == seen \in [Tokens -> Seq(Hashes)]

HInv == SeenType /\ HistoryIsTail

-----------------------------------------------------------------------------
(* Sequences.                                                              *)

LEMMA TailFacts ==
    ASSUME NEW s \in Seq(Hashes)
    PROVE  /\ TailOf(s) \in Seq(Hashes)
           /\ Len(TailOf(s)) = Lesser(Len(s), HashHistorySize)
           /\ \A i \in 1 .. Len(TailOf(s)) : TailOf(s)[i] = s[Len(s) - Len(TailOf(s)) + i]
<1> DEFINE n == Lesser(Len(s), HashHistorySize)
<1>1. n \in Nat /\ n <= Len(s) /\ Len(s) \in Nat
  BY BookCacheAssumption DEF Lesser
<1> HIDE DEF n
<1>2. SubSeq(s, Len(s) - n + 1, Len(s)) \in Seq(Hashes)
  BY <1>1
<1>3. Len(SubSeq(s, Len(s) - n + 1, Len(s))) = n
  BY <1>1
<1>4. \A i \in 1 .. n : SubSeq(s, Len(s) - n + 1, Len(s))[i] = s[Len(s) - n + i]
  BY <1>1
<1> QED
  BY <1>2, <1>3, <1>4 DEF TailOf, n

\* A sequence and its tail end alike.
LEMMA SameEcho ==
    ASSUME NEW s \in Seq(Hashes), NEW h
    PROVE  Echo(TailOf(s), h) <=> Echo(s, h)
<1>1. Len(TailOf(s)) = Lesser(Len(s), HashHistorySize) /\ TailOf(s) \in Seq(Hashes)
  BY TailFacts
<1>2. CASE s = <<>>
  <2>1. Len(TailOf(s)) = 0
    BY <1>1, <1>2, BookCacheAssumption DEF Lesser
  <2>2. TailOf(s) = <<>>
    BY <1>1, <2>1
  <2> QED
    BY <1>2, <2>2 DEF Echo
<1>3. CASE s # <<>>
  <2>1. Len(s) \in Nat /\ Len(s) > 0
    BY <1>3
  <2>2. Len(TailOf(s)) \in Nat /\ Len(TailOf(s)) > 0 /\ Len(TailOf(s)) <= Len(s)
    BY <1>1, <2>1, BookCacheAssumption DEF Lesser
  <2>3. TailOf(s)[Len(TailOf(s))] = s[Len(s)]
    <3>1. Len(TailOf(s)) \in 1 .. Len(TailOf(s))
      BY <2>2
    <3>2. TailOf(s)[Len(TailOf(s))] = s[Len(s) - Len(TailOf(s)) + Len(TailOf(s))]
      BY <3>1, TailFacts
    <3> QED
      BY <2>1, <2>2, <3>2
  <2>4. TailOf(s) # <<>>
    BY <2>2
  <2> QED
    BY <1>3, <2>3, <2>4 DEF Echo
<1> QED
  BY <1>2, <1>3

\* Remembering one more hash commutes with forgetting the oldest.
LEMMA ObservedIsTail ==
    ASSUME NEW s \in Seq(Hashes), NEW h \in Hashes \cup {NoHash}
    PROVE  Observed(TailOf(s), h)
           = TailOf(IF h = NoHash \/ Echo(s, h) THEN s ELSE Append(s, h))
<1>1. CASE h = NoHash \/ Echo(s, h)
  BY <1>1, SameEcho DEF Observed
<1>2. CASE ~(h = NoHash \/ Echo(s, h))
  <2> DEFINE u == TailOf(s)
             r == Append(s, h)
             v == TailOf(r)
             w == IF Len(u) < HashHistorySize THEN Append(u, h) ELSE Tail(Append(u, h))
  <2>1. h \in Hashes /\ Observed(u, h) = w
    BY <1>2, SameEcho DEF Observed
  <2>2. /\ u \in Seq(Hashes) /\ Len(u) = Lesser(Len(s), HashHistorySize)
        /\ \A i \in 1 .. Len(u) : u[i] = s[Len(s) - Len(u) + i]
    BY TailFacts
  <2>3. /\ r \in Seq(Hashes) /\ Len(r) = Len(s) + 1 /\ r[Len(s) + 1] = h
        /\ \A i \in 1 .. Len(s) : r[i] = s[i]
    BY <2>1
  <2> HIDE DEF u, r
  <2>4. /\ v \in Seq(Hashes) /\ Len(v) = Lesser(Len(r), HashHistorySize)
        /\ \A i \in 1 .. Len(v) : v[i] = r[Len(r) - Len(v) + i]
    BY <2>3, TailFacts
  <2> HIDE DEF v
  <2>5. Len(s) \in Nat /\ HashHistorySize \in Nat /\ HashHistorySize > 0
    BY BookCacheAssumption
  <2>6. CASE Len(s) < HashHistorySize
    <3>1. Len(u) = Len(s) /\ Len(v) = Len(s) + 1 /\ w = Append(u, h)
      BY <2>2, <2>3, <2>4, <2>5, <2>6 DEF Lesser
    <3>2. w \in Seq(Hashes) /\ Len(w) = Len(s) + 1
      BY <2>1, <2>2, <3>1
    <3>3. ASSUME NEW i \in 1 .. Len(s) + 1 PROVE w[i] = v[i]
      <4>1. v[i] = r[i]
        BY <2>3, <2>4, <2>5, <3>1
      <4>2. CASE i = Len(s) + 1
        BY <2>1, <2>2, <2>3, <2>5, <3>1, <4>1, <4>2
      <4>3. CASE i \in 1 .. Len(s)
        <5>1. w[i] = u[i]
          BY <2>1, <2>2, <3>1, <4>3
        <5>2. u[i] = s[i] /\ r[i] = s[i]
          BY <2>2, <2>3, <2>5, <3>1, <4>3
        <5> QED
          BY <4>1, <5>1, <5>2
      <4>4. i = Len(s) + 1 \/ i \in 1 .. Len(s)
        BY <2>5
      <4> QED
        BY <4>2, <4>3, <4>4
    <3>4. w = v
      BY <2>4, <3>1, <3>2, <3>3
    <3> QED
      BY <1>2, <2>1, <3>4 DEF u, v, r
  <2>7. CASE Len(s) >= HashHistorySize
    <3> DEFINE k == HashHistorySize
    <3>1. Len(u) = k /\ Len(v) = k /\ w = Tail(Append(u, h))
      BY <2>2, <2>3, <2>4, <2>5, <2>7 DEF Lesser
    <3>2. /\ w \in Seq(Hashes) /\ Len(w) = k
          /\ \A i \in 1 .. k : w[i] = Append(u, h)[i + 1]
      <4> DEFINE long == Append(u, h)
      <4>1. long \in Seq(Hashes) /\ Len(long) = k + 1
        BY <2>1, <2>2, <3>1
      <4> HIDE DEF long
      <4>2. long # <<>>
        BY <2>5, <4>1
      <4>3. /\ Tail(long) \in Seq(Hashes) /\ Len(Tail(long)) = k
            /\ \A i \in 1 .. k : Tail(long)[i] = long[i + 1]
        BY <2>5, <4>1, <4>2
      <4> QED
        BY <3>1, <4>3 DEF long
    <3>3. ASSUME NEW i \in 1 .. k PROVE w[i] = v[i]
      <4>1. v[i] = r[Len(s) + 1 - k + i] /\ w[i] = Append(u, h)[i + 1]
        BY <2>3, <2>4, <2>5, <3>1, <3>2
      <4>2. CASE i = k
        <5>1. Append(u, h)[i + 1] = h
          BY <2>1, <2>2, <2>5, <3>1, <4>2
        <5>2. r[Len(s) + 1 - k + i] = h
          BY <2>3, <2>5, <4>2
        <5> QED
          BY <4>1, <5>1, <5>2
      <4>3. CASE i + 1 \in 1 .. k
        <5>1. Append(u, h)[i + 1] = u[i + 1]
          BY <2>1, <2>2, <3>1, <4>3
        <5>2. u[i + 1] = s[Len(s) - k + (i + 1)]
          BY <2>2, <3>1, <4>3
        <5>3. Len(s) + 1 - k + i = Len(s) - k + (i + 1) /\ Len(s) - k + (i + 1) \in 1 .. Len(s)
          BY <2>5, <2>7, <4>3
        <5> QED
          BY <2>3, <4>1, <5>1, <5>2, <5>3
      <4>4. i = k \/ i + 1 \in 1 .. k
        BY <2>5
      <4> HIDE DEF w
      <4> QED
        BY <4>2, <4>3, <4>4
    <3>4. w = v
      BY <2>4, <3>1, <3>2, <3>3
    <3> QED
      BY <1>2, <2>1, <3>4 DEF u, v, r
  <2> QED
    BY <2>5, <2>6, <2>7
<1> QED
  BY <1>1, <1>2

-----------------------------------------------------------------------------
(* The cache.                                                              *)

LEMMA TailOfNothing == TailOf(<<>>) = <<>> /\ <<>> \in Seq(Hashes)
<1>1. <<>> \in Seq(Hashes) /\ Len(<<>>) = 0
  OBVIOUS
<1>2. TailOf(<<>>) \in Seq(Hashes) /\ Len(TailOf(<<>>)) = Lesser(Len(<<>>), HashHistorySize)
  BY <1>1, TailFacts
<1>3. Lesser(0, HashHistorySize) = 0
  BY BookCacheAssumption DEF Lesser
<1>4. Len(TailOf(<<>>)) = 0
  BY <1>1, <1>2, <1>3
<1> QED
  BY <1>1, <1>2, <1>4

LEMMA HistoryFact == HistoryIsTail <=> \A t \in Tokens : hashes[t] = TailOf(seen[t])
BY DEF HistoryIsTail, TailOf

\* The hashes in the window are those in the history.
LEMMA WindowIsHistory ==
    ASSUME HInv, NEW t \in Tokens, NEW h \in Window(t)
    PROVE  \E i \in 1 .. Len(hashes[t]) : hashes[t][i] = h
<1> DEFINE s == seen[t]
           n == Lesser(Len(s), HashHistorySize)
<1>1. s \in Seq(Hashes) /\ hashes[t] = TailOf(s)
  BY HistoryFact DEF HInv, SeenType
<1>2. PICK j \in (Len(s) - n + 1) .. Len(s) : h = s[j]
  BY DEF Window
<1>3. Len(s) \in Nat /\ n \in Nat /\ n <= Len(s)
  BY <1>1, BookCacheAssumption DEF Lesser
<1>4. Len(TailOf(s)) = n /\ \A i \in 1 .. n : TailOf(s)[i] = s[Len(s) - n + i]
  BY <1>1, TailFacts
<1> HIDE DEF n, s
<1> DEFINE k == j - (Len(s) - n)
<1>5. k \in 1 .. n /\ Len(s) - n + k = j
  BY <1>2, <1>3
<1> QED
  BY <1>1, <1>2, <1>4, <1>5

\* A hash is remembered as it is announced, and one that takes the token back to a
\* hash in the window is a revert.
LEMMA AnnouncedStep ==
    ASSUME HInv, NEW t \in Tokens, NEW h \in Hashes \cup {NoHash}
    PROVE  /\ Announced(t, h) \in Seq(Hashes)
           /\ Observed(hashes[t], h) = TailOf(Announced(t, h))
           /\ Announced(t, h) # seen[t] /\ Announced(t, h)[Len(Announced(t, h))] \in Window(t)
                => Reverts(hashes[t], h)
<1>1. seen[t] \in Seq(Hashes) /\ hashes[t] = TailOf(seen[t])
  BY HistoryFact DEF HInv, SeenType
<1>2. Announced(t, h) \in Seq(Hashes)
  BY <1>1 DEF Announced
<1>3. Observed(hashes[t], h) = TailOf(Announced(t, h))
  BY <1>1, ObservedIsTail DEF Announced
<1>4. ASSUME Announced(t, h) # seen[t], Announced(t, h)[Len(Announced(t, h))] \in Window(t)
      PROVE  Reverts(hashes[t], h)
  <2>1. h # NoHash /\ ~Echo(seen[t], h) /\ Announced(t, h) = Append(seen[t], h)
    BY <1>4 DEF Announced
  <2>2. Append(seen[t], h)[Len(Append(seen[t], h))] = h
    BY <1>1, <2>1
  <2>3. h \in Window(t)
    BY <1>4, <2>1, <2>2
  <2>4. ~Echo(hashes[t], h)
    BY <1>1, <2>1, SameEcho
  <2> QED
    BY <2>1, <2>3, <2>4, WindowIsHistory DEF Reverts
<1> QED
  BY <1>2, <1>3, <1>4

\* What a step does to a token: nothing, an observed hash, or an eviction.
Keeps(t) == hashes'[t] = hashes[t] /\ seen'[t] = seen[t]

Observes(t) ==
    \E h \in Hashes \cup {NoHash} :
        /\ hashes'[t] = Observed(hashes[t], h)
        /\ seen'[t] = Announced(t, h)
        /\ Reverts(hashes[t], h) => t \in stale'

Forgets(t) == hashes'[t] = <<>> /\ seen'[t] = <<>>

LEMMA BookEffect ==
    ASSUME NEW hit \in SUBSET Tokens,
           NEW snaps \in [hit -> [ts : 0 .. MaxTime, book : Book, hash : Hashes \cup {NoHash}]],
           WsBook(snaps), NEW t \in Tokens
    PROVE  Keeps(t) \/ Observes(t)
<1>1. CASE t \in hit
  <2>1. snaps[t].hash \in Hashes \cup {NoHash}
    BY <1>1
  <2> QED
    BY <1>1, <2>1 DEF WsBook, HandleBook, Observes
<1>2. CASE t \notin hit
  BY <1>2 DEF WsBook, HandleBook, Keeps
<1> QED
  BY <1>1, <1>2

LEMMA PriceChangeEffect ==
    ASSUME NEW hit \in SUBSET Tokens, NEW entries \in [hit -> Entry], NEW time,
           WsPriceChange(time, entries), NEW t \in Tokens
    PROVE  Keeps(t) \/ Observes(t)
<1>1. CASE t \in hit \cap known
  <2>1. entries[t].hash \in Hashes \cup {NoHash}
    BY <1>1 DEF Entry
  <2>2. hashes'[t] = Observed(hashes[t], entries[t].hash)
    BY <1>1 DEF WsPriceChange, HandlePriceChange
  <2>3. seen'[t] = Announced(t, entries[t].hash)
    BY <1>1 DEF WsPriceChange
  <2>4. Reverts(hashes[t], entries[t].hash) => t \in stale'
    BY <1>1 DEF WsPriceChange, HandlePriceChange
  <2> QED
    BY <2>1, <2>2, <2>3, <2>4 DEF Observes
<1>2. CASE t \notin hit \cap known
  BY <1>2 DEF WsPriceChange, HandlePriceChange, Keeps
<1> QED
  BY <1>1, <1>2

LEMMA StepEffect ==
    ASSUME [RevertNext]_revertVars, NEW t \in Tokens
    PROVE  Keeps(t) \/ Observes(t) \/ Forgets(t)
<1>1. ASSUME NEW u \in Tokens, NEW time, NEW b, RestSeed(u, time, b)
      PROVE  Keeps(t)
  BY <1>1 DEF RestSeed, Seed, cacheVars, Keeps
<1>2. ASSUME NEW gone, Drop(gone)
      PROVE  Keeps(t) \/ Forgets(t)
  BY <1>2 DEF Drop, Evict, Keeps, Forgets
<1>3. CASE Flush
  BY <1>3 DEF Flush, TakeStale, Keeps
<1>4. CASE UNCHANGED revertVars
  BY <1>4 DEF revertVars, cacheVars, Keeps
<1> QED
  BY <1>1, <1>2, <1>3, <1>4, BookEffect, PriceChangeEffect DEF RevertNext

LEMMA SeenIsFunction ==
    ASSUME SeenType, [RevertNext]_revertVars
    PROVE  seen' = [t \in Tokens |-> seen'[t]]
<1>1. seen = [t \in Tokens |-> seen[t]]
  BY DEF SeenType
<1>2. \/ UNCHANGED seen
      \/ \E f : seen' = [t \in Tokens |-> f[t]]
  <2>1. ASSUME NEW snaps, WsBook(snaps)
        PROVE  \E f : seen' = [t \in Tokens |-> f[t]]
    <3> DEFINE f == [t \in Tokens |-> IF t \in DOMAIN snaps THEN Announced(t, snaps[t].hash)
                                      ELSE seen[t]]
    <3>1. seen' = [t \in Tokens |-> f[t]]
      BY <2>1 DEF WsBook
    <3> QED
      BY <3>1
  <2>2. ASSUME NEW time, NEW entries, WsPriceChange(time, entries)
        PROVE  \E f : seen' = [t \in Tokens |-> f[t]]
    <3> DEFINE f == [t \in Tokens |-> IF t \in DOMAIN entries \cap known
                                      THEN Announced(t, entries[t].hash) ELSE seen[t]]
    <3>1. seen' = [t \in Tokens |-> f[t]]
      BY <2>2 DEF WsPriceChange
    <3> QED
      BY <3>1
  <2>3. ASSUME NEW gone, Drop(gone)
        PROVE  \E f : seen' = [t \in Tokens |-> f[t]]
    <3> DEFINE f == [t \in Tokens |-> IF t \in gone THEN <<>> ELSE seen[t]]
    <3>1. seen' = [t \in Tokens |-> f[t]]
      BY <2>3 DEF Drop
    <3> QED
      BY <3>1
  <2>4. CASE Flush \/ (\E t \in Tokens, time \in 0 .. MaxTime, b \in Book : RestSeed(t, time, b))
             \/ UNCHANGED revertVars
    BY <2>4 DEF Flush, RestSeed, revertVars
  <2> QED
    BY <2>1, <2>2, <2>3, <2>4 DEF RevertNext
<1> QED
  BY <1>1, <1>2

LEMMA HistoryStep == HInv /\ [RevertNext]_revertVars => HInv'
<1> SUFFICES ASSUME HInv, [RevertNext]_revertVars
             PROVE  HInv'
  OBVIOUS
<1>1. ASSUME NEW t \in Tokens
      PROVE  seen'[t] \in Seq(Hashes) /\ hashes'[t] = TailOf(seen'[t])
  <2>1. seen[t] \in Seq(Hashes) /\ hashes[t] = TailOf(seen[t])
    BY HistoryFact DEF HInv, SeenType
  <2>2. CASE Keeps(t)
    BY <2>1, <2>2 DEF Keeps
  <2>3. CASE Observes(t)
    BY <2>3, AnnouncedStep DEF Observes
  <2>4. CASE Forgets(t)
    BY <2>4, TailOfNothing DEF Forgets
  <2> QED
    BY <2>2, <2>3, <2>4, StepEffect
<1>2. SeenType'
  <2>1. seen' = [t \in Tokens |-> seen'[t]]
    BY SeenIsFunction DEF HInv
  <2> QED
    BY <1>1, <2>1 DEF SeenType
<1>3. HistoryIsTail'
  BY <1>1 DEF HistoryIsTail, TailOf
<1> QED
  BY <1>2, <1>3 DEF HInv

LEMMA InitHistory == RevertInit => HInv
<1> SUFFICES ASSUME RevertInit PROVE HInv
  OBVIOUS
<1>1. \A t \in Tokens : hashes[t] = TailOf(seen[t])
  BY TailOfNothing DEF RevertInit, CacheInit
<1> QED
  BY <1>1, HistoryFact DEF HInv, SeenType, RevertInit

\* The history is the tail of what the feed announced, through snapshots, deltas,
\* REST seeds and evictions (bookcache.py:221-226, 292-296).
THEOREM HistoryHolds == RevertSpec => []HistoryIsTail
<1>1. HInv => HistoryIsTail
  BY DEF HInv
<1> QED
  BY <1>1, InitHistory, HistoryStep, PTL DEF RevertSpec

\* A return to a hash in the window flags the token (bookcache.py:106-120, 298-304).
THEOREM RevertFlagged == RevertSpec => RevertIsFlagged
<1>1. HInv /\ [RevertNext]_revertVars =>
        [\A t \in Tokens :
            (/\ seen'[t] # seen[t] /\ seen'[t] # <<>>
             /\ seen'[t][Len(seen'[t])] \in Window(t))
              => t \in stale']_revertVars
  <2> SUFFICES ASSUME HInv, RevertNext, NEW t \in Tokens,
                      seen'[t] # seen[t], seen'[t] # <<>>,
                      seen'[t][Len(seen'[t])] \in Window(t)
               PROVE  t \in stale'
    OBVIOUS
  <2>1. Observes(t)
    BY StepEffect DEF Keeps, Forgets
  <2> QED
    BY <2>1, AnnouncedStep DEF Observes
<1> QED
  BY <1>1, InitHistory, HistoryStep, PTL DEF RevertSpec, RevertIsFlagged

-----------------------------------------------------------------------------
(* Type correctness, method by method.                                     *)

LEMMA ObservedType ==
    ASSUME NEW history \in Seq(Hashes), NEW h \in Hashes \cup {NoHash}
    PROVE  Observed(history, h) \in Seq(Hashes)
<1>1. CASE h = NoHash \/ Echo(history, h)
  BY <1>1 DEF Observed
<1>2. CASE ~(h = NoHash \/ Echo(history, h))
  <2> DEFINE long == Append(history, h)
  <2>1. long \in Seq(Hashes) /\ Len(long) = Len(history) + 1 /\ Len(history) \in Nat
    BY <1>2
  <2>2. Observed(history, h) \in {long, Tail(long)}
    BY <1>2 DEF Observed
  <2> HIDE DEF long
  <2>3. long # <<>>
    BY <2>1
  <2>4. Tail(long) \in Seq(Hashes)
    BY <2>1, <2>3
  <2> QED
    BY <2>1, <2>2, <2>4
<1> QED
  BY <1>1, <1>2

LEMMA BookType ==
    ASSUME CacheTypeOK, NEW hit \in SUBSET Tokens,
           NEW snaps \in [hit -> [ts : 0 .. MaxTime, book : Book, hash : Hashes \cup {NoHash}]],
           HandleBook(snaps)
    PROVE  CacheTypeOK'
<1>1. DOMAIN snaps = hit
  OBVIOUS
<1>2. \A t \in hit : /\ snaps[t].ts \in Nat /\ snaps[t].book \in Book
                     /\ snaps[t].hash \in Hashes \cup {NoHash}
  BY RevertAssumption
<1>3. \A t \in hit : Observed(hashes[t], snaps[t].hash) \in Seq(Hashes)
  BY <1>2, ObservedType DEF CacheTypeOK
<1>4. known' \subseteq Tokens /\ stale' \subseteq Tokens
  BY <1>1 DEF HandleBook, CacheTypeOK
<1>5. book' \in [Tokens -> Book]
  BY <1>1, <1>2 DEF HandleBook, CacheTypeOK
<1>6. ts' \in [Tokens -> Nat]
  BY <1>1, <1>2 DEF HandleBook, CacheTypeOK
<1>7. hashes' \in [Tokens -> Seq(Hashes)]
  BY <1>1, <1>3 DEF HandleBook, CacheTypeOK
<1> QED
  BY <1>4, <1>5, <1>6, <1>7 DEF CacheTypeOK

LEMMA PriceChangeType ==
    ASSUME CacheTypeOK, NEW hit \in SUBSET Tokens, NEW entries \in [hit -> Entry],
           NEW time \in Nat, HandlePriceChange(time, entries)
    PROVE  CacheTypeOK'
<1> DEFINE applied == hit \cap known
<1>1. DOMAIN entries = hit
  OBVIOUS
<1>2. \A t \in applied : /\ entries[t].level \in Levels /\ entries[t].size \in Sizes \cup {0}
                         /\ entries[t].hash \in Hashes \cup {NoHash}
  BY DEF Entry
<1>3. ASSUME NEW t \in applied
      PROVE  AfterEntry(book[t], entries[t]) \in Book
  <2>1. book[t] \in Book
    BY DEF CacheTypeOK
  <2> QED
    BY <1>2, <2>1 DEF AfterEntry, Book
<1>4. \A t \in applied : Observed(hashes[t], entries[t].hash) \in Seq(Hashes)
  BY <1>2, ObservedType DEF CacheTypeOK
<1>5. known' \subseteq Tokens /\ stale' \subseteq Tokens
  BY <1>1 DEF HandlePriceChange, CacheTypeOK
<1>6. book' \in [Tokens -> Book]
  BY <1>1, <1>3 DEF HandlePriceChange, CacheTypeOK
<1>7. ts' \in [Tokens -> Nat]
  BY <1>1 DEF HandlePriceChange, CacheTypeOK
<1>8. hashes' \in [Tokens -> Seq(Hashes)]
  BY <1>1, <1>4 DEF HandlePriceChange, CacheTypeOK
<1> QED
  BY <1>5, <1>6, <1>7, <1>8 DEF CacheTypeOK

LEMMA TypesStep == CacheTypeOK /\ [RevertNext]_revertVars => CacheTypeOK'
<1> SUFFICES ASSUME CacheTypeOK, [RevertNext]_revertVars
             PROVE  CacheTypeOK'
  OBVIOUS
<1>1. ASSUME NEW hit \in (SUBSET Tokens) \ {{}},
             NEW snaps \in [hit -> [ts : 0 .. MaxTime, book : Book, hash : Hashes \cup {NoHash}]],
             WsBook(snaps)
      PROVE  CacheTypeOK'
  BY <1>1, BookType DEF WsBook
<1>2. ASSUME NEW time \in 0 .. MaxTime, NEW hit \in (SUBSET Tokens) \ {{}},
             NEW entries \in [hit -> Entry], WsPriceChange(time, entries)
      PROVE  CacheTypeOK'
  <2>1. time \in Nat
    BY RevertAssumption
  <2> QED
    BY <1>2, <2>1, PriceChangeType DEF WsPriceChange
<1>3. ASSUME NEW t \in Tokens, NEW time \in 0 .. MaxTime, NEW b \in Book, RestSeed(t, time, b)
      PROVE  CacheTypeOK'
  <2>1. time \in Nat
    BY RevertAssumption
  <2>2. CASE Regresses(t, time)
    BY <1>3, <2>2 DEF RestSeed, Seed, CacheTypeOK, cacheVars
  <2>3. CASE ~Regresses(t, time)
    BY <1>3, <2>1, <2>3 DEF RestSeed, Seed, CacheTypeOK
  <2> QED
    BY <2>2, <2>3
<1>4. ASSUME NEW gone \in SUBSET Tokens, Drop(gone)
      PROVE  CacheTypeOK'
  BY <1>4, EmptyBookInBook DEF Drop, Evict, CacheTypeOK
<1>5. CASE Flush \/ UNCHANGED revertVars
  BY <1>5 DEF Flush, TakeStale, revertVars, cacheVars, CacheTypeOK
<1> QED
  BY <1>1, <1>2, <1>3, <1>4, <1>5 DEF RevertNext

\* The cache's state and the record of what was announced have their types.
THEOREM RevertTypeCorrect == RevertSpec => []RevertTypeOK
<1>1. RevertInit => CacheTypeOK /\ HInv
  BY InitHistory, EmptyBookInBook DEF RevertInit, CacheInit, CacheTypeOK
<1>2. CacheTypeOK /\ HInv /\ [RevertNext]_revertVars => (CacheTypeOK /\ HInv)'
  BY TypesStep, HistoryStep
<1>3. CacheTypeOK /\ HInv => RevertTypeOK
  BY DEF HInv, SeenType, RevertTypeOK
<1> QED
  BY <1>1, <1>2, <1>3, PTL DEF RevertSpec
=============================================================================
