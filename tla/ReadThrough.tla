----------------------------- MODULE ReadThrough -----------------------------
(***************************************************************************)
(* The backend's three read-through caches, each a key, a time to live and *)
(* an awaited read between the miss and the store:                         *)
(*   summary  GET /v1/users/:address/summary   (stream.controller.ts)      *)
(*   metrics  GET /v1/admin/metrics            (admin.routes.ts)           *)
(*   health   checkRpcHealth                   (sorobanService.ts)         *)
(* What is read is abstracted to the moment it was true.                   *)
(***************************************************************************)
EXTENDS Naturals

CONSTANTS RtCallers, RtTtl,
          MaxRtClock   \* bound on the clock

NobodyRt == "nobody"

ASSUME RtAssumption == {RtTtl, MaxRtClock} \subseteq Nat \ {0} /\ NobodyRt \notin RtCallers

RtKinds == {"summary", "metrics", "health"}

VARIABLES
  rtKind,     \* the cache the callers use: they share nothing, so one is watched at a time
  rtEntry,    \* its entry: when it was true, when stored, when it expires
  rtCall,     \* per caller its request
  rtFlight,   \* rpcHealthPromise: the caller whose probe is under way, or none
  rtClock,
  rtServed,   \* the last answer
  rtOverlap   \* history: whether two reads were ever under way together

rtVars == <<rtKind, rtEntry, rtCall, rtFlight, rtClock, rtServed, rtOverlap>>

NoEntry == [readAt |-> 0, storedAt |-> 0, expiresAt |-> 0]
NoCall == [phase |-> "idle"]

RtTypeOK ==
  /\ rtKind \in RtKinds \cup {"none"}
  /\ rtEntry \in [readAt : 0..MaxRtClock, storedAt : 0..MaxRtClock, expiresAt : 0..(MaxRtClock + RtTtl)]
  /\ \A r \in RtCallers :
       \/ rtCall[r] = NoCall
       \/ rtCall[r] \in [phase : {"reading", "storing", "waiting"},
                         nowMs : 0..MaxRtClock, readAt : 0..MaxRtClock]
  /\ rtFlight \in RtCallers \cup {NobodyRt}
  /\ rtClock \in 0..MaxRtClock
  /\ rtServed \in [hit : BOOLEAN, readAt : 0..MaxRtClock, storedAt : 0..MaxRtClock]
  /\ rtOverlap \in BOOLEAN

RtInit ==
  /\ rtKind = "none" /\ rtEntry = NoEntry
  /\ rtCall = [r \in RtCallers |-> NoCall]
  /\ rtFlight = NobodyRt
  /\ rtClock = 1
  /\ rtServed = [hit |-> FALSE, readAt |-> 0, storedAt |-> 0]
  /\ rtOverlap = FALSE

Fresh == rtEntry.expiresAt > rtClock
Served(hit, entry) == [hit |-> hit, readAt |-> entry.readAt, storedAt |-> entry.storedAt]
InPhase(phases) == {r \in RtCallers : rtCall[r].phase \in phases}

(* A hit is answered at once. *)
RtHit(r) ==
  /\ rtCall[r] = NoCall /\ Fresh
  /\ rtServed' = Served(TRUE, rtEntry)
  /\ UNCHANGED <<rtKind, rtEntry, rtCall, rtFlight, rtClock, rtOverlap>>

(* Only the health check joins a read that is already under way. *)
Joins(kind) == kind = "health" /\ rtFlight # NobodyRt

(* A miss.  The summary handler prunes what expired, its own entry included. *)
RtMiss(r, kind) ==
  /\ rtKind \in {kind, "none"} /\ rtCall[r] = NoCall /\ ~Fresh
  /\ rtKind' = kind
  /\ rtCall' = [rtCall EXCEPT ![r] =
       [phase |-> IF Joins(kind) THEN "waiting" ELSE "reading", nowMs |-> rtClock, readAt |-> 0]]
  /\ rtFlight' = IF kind = "health" /\ ~Joins(kind) THEN r ELSE rtFlight
  /\ rtEntry' = IF kind = "summary" THEN NoEntry ELSE rtEntry
  /\ rtOverlap' = (rtOverlap \/ (~Joins(kind) /\ InPhase({"reading", "storing"}) # {}))
  /\ UNCHANGED <<rtClock, rtServed>>

(* The database, or the RPC endpoint, answers with what holds now. *)
RtRead(r) ==
  /\ rtCall[r].phase = "reading"
  /\ rtCall' = [rtCall EXCEPT ![r].phase = "storing", ![r].readAt = rtClock]
  /\ UNCHANGED <<rtKind, rtEntry, rtFlight, rtClock, rtServed, rtOverlap>>

(* The read throws: the handlers of summary and metrics answer 500 and store
   nothing; the health check stores the failure like any other outcome. *)
RtFails(r) ==
  /\ rtCall[r].phase = "reading" /\ rtKind # "health"
  /\ rtCall' = [rtCall EXCEPT ![r] = NoCall]
  /\ UNCHANGED <<rtKind, rtEntry, rtFlight, rtClock, rtServed, rtOverlap>>

(* The summary expires a time to live after the request began, the other two a
   time to live after they are stored. *)
Expiry(call) == (IF rtKind = "summary" THEN call.nowMs ELSE rtClock) + RtTtl

(* The answer is stored and given; those who joined the health probe get it too. *)
RtStore(r) ==
  /\ rtCall[r].phase = "storing"
  /\ LET entry == [readAt |-> rtCall[r].readAt, storedAt |-> rtClock, expiresAt |-> Expiry(rtCall[r])]
     IN /\ rtEntry' = entry
        /\ rtServed' = Served(FALSE, entry)
  /\ rtFlight' = NobodyRt
  /\ rtCall' = [s \in RtCallers |-> IF s \in {r} \cup InPhase({"waiting"}) THEN NoCall ELSE rtCall[s]]
  /\ UNCHANGED <<rtKind, rtClock, rtOverlap>>

(* The timers that prune the summaries and sweep the MemoryCache. *)
RtPrune ==
  /\ rtKind # "health" /\ ~Fresh /\ rtEntry # NoEntry
  /\ rtEntry' = NoEntry
  /\ UNCHANGED <<rtKind, rtCall, rtFlight, rtClock, rtServed, rtOverlap>>

RtTick ==
  /\ rtClock < MaxRtClock
  /\ rtClock' = rtClock + 1
  /\ UNCHANGED <<rtKind, rtEntry, rtCall, rtFlight, rtServed, rtOverlap>>

RtNext ==
  \/ \E r \in RtCallers :
       \/ RtHit(r) \/ RtRead(r) \/ RtFails(r) \/ RtStore(r)
       \/ \E kind \in RtKinds : RtMiss(r, kind)
  \/ RtPrune \/ RtTick

RtSpec == RtInit /\ [][RtNext]_rtVars

-----------------------------------------------------------------------------
(* A summary served from the cache was true less than the time to live ago,
   however long its queries took (stream.controller.ts:605); the other two only
   promise that they were stored less than that ago. *)
RtHitsAreFresh ==
  rtServed' # rtServed /\ rtServed'.hit =>
    rtClock - (IF rtKind = "summary" THEN rtServed'.readAt ELSE rtServed'.storedAt) < RtTtl

(* What the cache holds never goes back in time, unless two reads were under way
   together and the slower one overwrote the newer entry; the promise that
   checkRpcHealth shares rules that out for the health check. *)
RtNeverGoesBack ==
  rtEntry'.readAt < rtEntry.readAt =>
    rtEntry' = NoEntry \/ (rtKind # "health" /\ rtOverlap)
=============================================================================
