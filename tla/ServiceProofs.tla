---------------------------- MODULE ServiceProofs ----------------------------
(***************************************************************************)
(* The services beside the indexer, for any number of endpoints, calls,    *)
(* streams, checks, batches, signals, events and attempts: the RPC pool is *)
(* sound, the runway worker repeats no alert unless it was disturbed, a    *)
(* shutdown is clean, and webhooks report what was delivered.              *)
(***************************************************************************)
EXTENDS MCServices, SumsProofs, FunctionTheorems, FiniteSetTheorems, TLAPS

-----------------------------------------------------------------------------
(* The RPC pool. *)

RpcCall == [result : {"none", "trying", "ok", "failed"}, todo : Seq(Endpoints),
            offered : SUBSET Endpoints, tried : SUBSET Endpoints, ran : BOOLEAN]

RpcTyped ==
  /\ failures \in [Endpoints -> 0..FailureThreshold]
  /\ circuit \in [Endpoints -> {"CLOSED", "OPEN", "HALF_OPEN"}]
  /\ openFor \in [Endpoints -> (0..Cooldown) \cup {NoTime}]
  /\ up \in [Endpoints -> BOOLEAN]
  /\ call \in [Calls -> RpcCall]
  /\ probesOn \in BOOLEAN /\ sinceRound \in 0..ProbeEvery /\ probing \subseteq Endpoints

Listed(todo) == {todo[i] : i \in DOMAIN todo}

Distinct(todo) == \A i, j \in DOMAIN todo : todo[i] = todo[j] => i = j

(* A call under way has endpoints left, each once: those offered, not tried. *)
RpcCallInv ==
  \A k \in Calls :
    /\ call[k].tried \subseteq call[k].offered
    /\ call[k].result = "ok" => call[k].ran
    /\ call[k].result = "failed" => call[k].tried = call[k].offered
    /\ call[k].result = "trying" => /\ call[k].todo # <<>> /\ Distinct(call[k].todo)
                                    /\ Listed(call[k].todo) = call[k].offered \ call[k].tried

(* While the probes run no circuit has been open for long: an endpoint whose
   probe is over opened, if at all, in this round; another, since the last. *)
RpcAges ==
  probesOn =>
    /\ probing # {} => sinceRound <= TimeoutTicks
    /\ \A e \in Endpoints : openFor[e] # NoTime =>
         openFor[e] <= IF e \in probing THEN sinceRound + ProbeEvery ELSE sinceRound

RpcIInv == RpcTyped /\ RpcCircuitConsistent /\ RpcHalfOpenOnlyUnprobed /\ RpcCallInv /\ RpcAges

(* What the sort returns lists every endpoint it was given, once. *)
LEMMA PreferredLists ==
  ASSUME NEW S \in SUBSET Endpoints, NEW q \in Preferred(S)
  PROVE  /\ q \in Seq(Endpoints) /\ Distinct(q) /\ Listed(q) = S
         /\ q = <<>> <=> S = {}
<1> DEFINE n == Cardinality(S)
<1>1. IsFiniteSet(S) /\ n \in Nat
  BY RpcAssumption, FS_Subset, FS_CardinalityType
<1>2. q \in [1..n -> S] /\ \A i, j \in DOMAIN q : i < j => q[i] # q[j]
  BY DEF Preferred
<1>3. n = 0 <=> S = {}
  BY <1>1, FS_EmptySet
<1>4. IsFiniteSet(1..n) /\ Cardinality(1..n) = n
  BY <1>1, FS_Interval
<1> HIDE DEF n
<1>5. DOMAIN q = 1..n /\ Distinct(q)
  BY <1>1, <1>2 DEF Distinct
<1>6. q \in Injection(1..n, S)
  BY <1>2, <1>5 DEF Injection, IsInjective, Distinct
<1>7. q \in Surjection(1..n, S)
  BY <1>1, <1>4, <1>6, FS_Injection DEF n
<1>8. Listed(q) = S
  BY <1>2, <1>5, <1>7 DEF Listed, Surjection
<1>9. q \in Seq(Endpoints) /\ Len(q) = n
  BY <1>1, <1>2
<1> QED
  BY <1>3, <1>5, <1>8, <1>9

(* What is left after the first of a list of different endpoints. *)
LEMMA TailLists ==
  ASSUME NEW q \in Seq(Endpoints), q # <<>>, Distinct(q)
  PROVE  /\ Head(q) \in Listed(q)
         /\ Tail(q) \in Seq(Endpoints) /\ Distinct(Tail(q))
         /\ Listed(Tail(q)) = Listed(q) \ {Head(q)}
         /\ Tail(q) = <<>> => Listed(q) = {Head(q)}
<1>1. /\ Len(q) \in Nat /\ Len(q) >= 1 /\ DOMAIN q = 1..Len(q) /\ Head(q) = q[1]
      /\ Tail(q) \in Seq(Endpoints) /\ Len(Tail(q)) = Len(q) - 1
      /\ DOMAIN Tail(q) = 1..(Len(q) - 1)
      /\ \A i \in 1..(Len(q) - 1) : Tail(q)[i] = q[i + 1]
  OBVIOUS
<1>2. Distinct(Tail(q))
  BY <1>1 DEF Distinct
<1>3. ASSUME NEW e PROVE e \in Listed(Tail(q)) <=> e \in Listed(q) \ {Head(q)}
  <2>1. ASSUME e \in Listed(Tail(q)) PROVE e \in Listed(q) \ {Head(q)}
    BY <1>1, <2>1 DEF Listed, Distinct
  <2>2. ASSUME e \in Listed(q) \ {Head(q)} PROVE e \in Listed(Tail(q))
    <3>1. PICK i \in 1..Len(q) : e = q[i]
      BY <1>1, <2>2 DEF Listed
    <3>2. i # 1 /\ i - 1 \in 1..(Len(q) - 1) /\ (i - 1) + 1 = i
      BY <1>1, <2>2, <3>1
    <3> QED
      BY <1>1, <3>1, <3>2 DEF Listed
  <2> QED
    BY <2>1, <2>2
<1>4. Head(q) \in Listed(q)
  BY <1>1 DEF Listed
<1>5. ASSUME Len(Tail(q)) = 0 PROVE Listed(q) = {Head(q)}
  <2>1. Len(q) - 1 = 0 /\ Len(q) \in Nat
    BY <1>1, <1>5, Zenon
  <2>2. Len(q) = 1
    BY <2>1
  <2>3. ASSUME NEW e PROVE e \in Listed(q) <=> e = q[1]
    BY <1>1, <2>2 DEF Listed
  <2> QED
    BY <1>1, <2>3
<1>6. Len(<<>>) = 0
  OBVIOUS
<1>7. Tail(q) = <<>> => Listed(q) = {Head(q)}
  BY <1>5, <1>6, Zenon
<1> QED
  BY <1>1, <1>2, <1>3, <1>4, <1>7

(* The invariant holds when the pool is built. *)
LEMMA RpcInitInv == ASSUME RpcInit PROVE RpcIInv
<1> USE RpcAssumption DEF RpcInit
<1>1. RpcTyped
  BY DEF RpcTyped, RpcCall, NotStarted
<1>2. RpcCircuitConsistent /\ RpcHalfOpenOnlyUnprobed /\ RpcAges
  BY DEF RpcCircuitConsistent, RpcHalfOpenOnlyUnprobed, RpcAges
<1>3. RpcCallInv
  BY DEF RpcCallInv, NotStarted
<1> QED
  BY <1>1, <1>2, <1>3 DEF RpcIInv

(* An answer resets the endpoint's circuit: nothing about the circuits breaks,
   whether the answer is a call's or that of the endpoint's probe. *)
LEMMA SuccessKeeps ==
  ASSUME RpcIInv, NEW e \in Endpoints, RecordSuccess(e),
         UNCHANGED <<up, probesOn, sinceRound>>, probing' \in {probing, probing \ {e}}
  PROVE  /\ failures' \in [Endpoints -> 0..FailureThreshold]
         /\ circuit' \in [Endpoints -> {"CLOSED", "OPEN", "HALF_OPEN"}]
         /\ openFor' \in [Endpoints -> (0..Cooldown) \cup {NoTime}]
         /\ RpcCircuitConsistent' /\ RpcHalfOpenOnlyUnprobed' /\ RpcAges'
<1> USE RpcAssumption
<1>1. RpcTyped /\ RpcCircuitConsistent /\ RpcHalfOpenOnlyUnprobed /\ RpcAges
  BY DEF RpcIInv
<1>2. /\ failures' \in [Endpoints -> 0..FailureThreshold]
      /\ circuit' \in [Endpoints -> {"CLOSED", "OPEN", "HALF_OPEN"}]
      /\ openFor' \in [Endpoints -> (0..Cooldown) \cup {NoTime}]
  BY <1>1 DEF RpcTyped, RecordSuccess
<1>3. RpcCircuitConsistent'
  BY <1>1 DEF RpcTyped, RecordSuccess, RpcCircuitConsistent
<1>4. RpcHalfOpenOnlyUnprobed'
  BY <1>1 DEF RpcTyped, RecordSuccess, RpcHalfOpenOnlyUnprobed
<1>5. RpcAges'
  BY <1>1 DEF RpcTyped, RecordSuccess, RpcAges
<1> QED
  BY <1>2, <1>3, <1>4, <1>5

(* A failure counts, and opens the circuit now or leaves it as it is.  An
   endpoint that is not open stays below the threshold. *)
LEMMA FailureKeeps ==
  ASSUME RpcIInv, NEW e \in Endpoints, RecordFailure(e),
         UNCHANGED <<up, probesOn, sinceRound>>, probing' \in {probing, probing \ {e}}
  PROVE  /\ failures' \in [Endpoints -> 0..FailureThreshold]
         /\ circuit' \in [Endpoints -> {"CLOSED", "OPEN", "HALF_OPEN"}]
         /\ openFor' \in [Endpoints -> (0..Cooldown) \cup {NoTime}]
         /\ RpcCircuitConsistent' /\ RpcHalfOpenOnlyUnprobed' /\ RpcAges'
<1> USE RpcAssumption
<1> DEFINE n == IF failures[e] = FailureThreshold THEN FailureThreshold ELSE failures[e] + 1
<1>1. RpcTyped /\ RpcCircuitConsistent /\ RpcHalfOpenOnlyUnprobed /\ RpcAges
  BY DEF RpcIInv
<1>2. /\ failures' = [failures EXCEPT ![e] = n]
      /\ circuit' = [circuit EXCEPT ![e] = IF n = FailureThreshold THEN "OPEN" ELSE @]
      /\ openFor' = [openFor EXCEPT ![e] = IF n = FailureThreshold THEN 0 ELSE @]
  BY DEF RecordFailure
<1>3. n \in 0..FailureThreshold
  BY <1>1 DEF RpcTyped
<1>4. n # FailureThreshold => circuit[e] = "CLOSED" /\ openFor[e] = NoTime
  BY <1>1, <1>3 DEF RpcTyped, RpcCircuitConsistent
<1> HIDE DEF n
<1>5. /\ failures' \in [Endpoints -> 0..FailureThreshold]
      /\ circuit' \in [Endpoints -> {"CLOSED", "OPEN", "HALF_OPEN"}]
      /\ openFor' \in [Endpoints -> (0..Cooldown) \cup {NoTime}]
  BY <1>1, <1>2, <1>3 DEF RpcTyped
<1>6. RpcCircuitConsistent'
  BY <1>1, <1>2, <1>3, <1>4 DEF RpcTyped, RpcCircuitConsistent
<1>7. RpcHalfOpenOnlyUnprobed'
  BY <1>1, <1>2 DEF RpcTyped, RpcHalfOpenOnlyUnprobed
<1>8. RpcAges'
  <2> SUFFICES ASSUME probesOn', NEW f \in Endpoints, openFor'[f] # NoTime
               PROVE  openFor'[f] <= IF f \in probing' THEN sinceRound' + ProbeEvery ELSE sinceRound'
    BY <1>1 DEF RpcAges
  <2>1. CASE f = e
    BY <1>1, <1>2, <1>4, <2>1 DEF RpcTyped
  <2>2. CASE f # e
    BY <1>1, <1>2, <2>2 DEF RpcTyped, RpcAges
  <2> QED
    BY <2>1, <2>2
<1> QED
  BY <1>5, <1>6, <1>7, <1>8

(* StartCall: the calls made while probes run find no cooled circuit. *)
LEMMA StartCallKeeps ==
  ASSUME RpcIInv, NEW k \in Calls, StartCall(k)
  PROVE  RpcIInv'
<1> USE RpcAssumption
<1>1. RpcTyped /\ RpcCircuitConsistent /\ RpcHalfOpenOnlyUnprobed /\ RpcCallInv /\ RpcAges
  BY DEF RpcIInv
<1> DEFINE A == AvailableEndpoints
           Fresh(q) == [result |-> IF q = <<>> THEN "failed" ELSE "trying", todo |-> q,
                        offered |-> A, tried |-> {}, ran |-> FALSE]
<1>2. A \in SUBSET Endpoints
  BY DEF AvailableEndpoints
<1>3. PICK q \in Preferred(A) : call' = [call EXCEPT ![k] = Fresh(q)]
  BY DEF StartCall
<1>4. /\ q \in Seq(Endpoints) /\ Distinct(q) /\ Listed(q) = A
      /\ q = <<>> <=> A = {}
  BY <1>2, <1>3, PreferredLists
<1>5. /\ circuit' = [e \in Endpoints |-> IF Cooled(e) THEN "HALF_OPEN" ELSE circuit[e]]
      /\ UNCHANGED <<failures, openFor, up, probesOn, sinceRound, probing>>
  BY DEF StartCall
<1> HIDE DEF A
<1>6. Fresh(q) \in RpcCall
  BY <1>2, <1>4 DEF RpcCall
<1>7. RpcTyped'
  BY <1>1, <1>3, <1>5, <1>6 DEF RpcTyped
<1>8. RpcCircuitConsistent'
  BY <1>1, <1>5 DEF RpcTyped, RpcCircuitConsistent, Cooled
<1>9. RpcHalfOpenOnlyUnprobed'
  <2> SUFFICES ASSUME probesOn, NEW e \in Endpoints PROVE ~Cooled(e)
    BY <1>1, <1>5 DEF RpcTyped, RpcHalfOpenOnlyUnprobed
  <2>1. CASE openFor[e] = NoTime
    BY <2>1 DEF Cooled
  <2>2. CASE openFor[e] # NoTime
    BY <1>1, <2>2, RpcTimingAssumption DEF RpcTyped, RpcAges, Cooled
  <2> QED
    BY <2>1, <2>2
<1>10. RpcCallInv'
  <2> SUFFICES ASSUME NEW j \in Calls
               PROVE  /\ call'[j].tried \subseteq call'[j].offered
                      /\ call'[j].result = "ok" => call'[j].ran
                      /\ call'[j].result = "failed" => call'[j].tried = call'[j].offered
                      /\ call'[j].result = "trying" =>
                           /\ call'[j].todo # <<>> /\ Distinct(call'[j].todo)
                           /\ Listed(call'[j].todo) = call'[j].offered \ call'[j].tried
    BY DEF RpcCallInv
  <2>1. CASE j = k
    <3>1. call'[j] = Fresh(q)
      BY <1>1, <1>3, <2>1 DEF RpcTyped
    <3> QED
      BY <1>4, <3>1
  <2>2. CASE j # k
    <3>1. call'[j] = call[j]
      BY <1>1, <1>3, <2>2 DEF RpcTyped
    <3> QED
      BY <1>1, <3>1 DEF RpcCallInv
  <2> QED
    BY <2>1, <2>2
<1>11. RpcAges'
  BY <1>1, <1>5 DEF RpcAges
<1> QED
  BY <1>7, <1>8, <1>9, <1>10, <1>11 DEF RpcIInv

(* A call that goes on or ends replaces its own record by one the invariant allows. *)
LEMMA CallRecordKeeps ==
  ASSUME RpcIInv, NEW k \in Calls, NEW r \in RpcCall, call' = [call EXCEPT ![k] = r],
         r.tried \subseteq r.offered, r.result = "ok" => r.ran,
         r.result = "failed" => r.tried = r.offered,
         r.result = "trying" => /\ r.todo # <<>> /\ Distinct(r.todo)
                                /\ Listed(r.todo) = r.offered \ r.tried
  PROVE  call' \in [Calls -> RpcCall] /\ RpcCallInv'
<1>1. call \in [Calls -> RpcCall] /\ RpcCallInv
  BY DEF RpcIInv, RpcTyped
<1>2. call' \in [Calls -> RpcCall]
  BY <1>1
<1>3. ASSUME NEW j \in Calls
      PROVE  /\ call'[j].tried \subseteq call'[j].offered
             /\ call'[j].result = "ok" => call'[j].ran
             /\ call'[j].result = "failed" => call'[j].tried = call'[j].offered
             /\ call'[j].result = "trying" =>
                  /\ call'[j].todo # <<>> /\ Distinct(call'[j].todo)
                  /\ Listed(call'[j].todo) = call'[j].offered \ call'[j].tried
  <2>1. CASE j = k
    <3>1. call'[j] = r
      BY <1>1, <2>1
    <3> QED
      BY <3>1
  <2>2. CASE j # k
    <3>1. call'[j] = call[j]
      BY <1>1, <2>2
    <3> QED
      BY <1>1, <3>1 DEF RpcCallInv
  <2> QED
    BY <2>1, <2>2
<1> QED
  BY <1>2, <1>3 DEF RpcCallInv

(* The endpoint a call is at. *)
LEMMA CallAt ==
  ASSUME RpcIInv, NEW k \in Calls, call[k].result = "trying"
  PROVE  /\ call[k] \in RpcCall
         /\ call[k].todo \in Seq(Endpoints) /\ call[k].todo # <<>> /\ Distinct(call[k].todo)
         /\ Listed(call[k].todo) = call[k].offered \ call[k].tried
         /\ call[k].tried \subseteq call[k].offered /\ call[k].offered \subseteq Endpoints
         /\ Head(call[k].todo) \in Listed(call[k].todo) /\ Head(call[k].todo) \in Endpoints
<1>1. /\ call[k] \in RpcCall /\ call[k].todo \in Seq(Endpoints)
      /\ call[k].offered \subseteq Endpoints
  BY DEF RpcIInv, RpcTyped, RpcCall
<1>2. /\ call[k].todo # <<>> /\ Distinct(call[k].todo)
      /\ Listed(call[k].todo) = call[k].offered \ call[k].tried
      /\ call[k].tried \subseteq call[k].offered
  BY DEF RpcIInv, RpcCallInv
<1>3. Head(call[k].todo) \in Listed(call[k].todo)
  BY <1>1, <1>2, TailLists
<1> QED
  BY <1>1, <1>2, <1>3

(* A call that is answered closes the circuit of its endpoint. *)
LEMMA CallSucceedsKeeps ==
  ASSUME RpcIInv, NEW k \in Calls, CallSucceeds(k)
  PROVE  RpcIInv'
<1> DEFINE e == Head(call[k].todo)
           r == [call[k] EXCEPT !.result = "ok", !.ran = TRUE, !.tried = @ \cup {e}]
<1>1. /\ call[k].result = "trying" /\ RecordSuccess(e)
      /\ call' = [call EXCEPT ![k].result = "ok", ![k].ran = TRUE, ![k].tried = @ \cup {e}]
      /\ UNCHANGED <<up, probesOn, sinceRound, probing>>
  BY DEF CallSucceeds
<1>2. /\ call[k] \in RpcCall /\ call[k].tried \subseteq call[k].offered
      /\ e \in call[k].offered /\ e \in Endpoints
  BY <1>1, CallAt
<1> HIDE DEF e
<1>3. call' = [call EXCEPT ![k] = r]
  BY <1>1 DEF RpcIInv, RpcTyped
<1>4. /\ r \in RpcCall /\ r.tried \subseteq r.offered /\ r.result = "ok" /\ r.ran
  BY <1>2 DEF RpcCall
<1> HIDE DEF r
<1>5. call' \in [Calls -> RpcCall] /\ RpcCallInv'
  BY <1>3, <1>4, CallRecordKeeps
<1>6. /\ failures' \in [Endpoints -> 0..FailureThreshold]
      /\ circuit' \in [Endpoints -> {"CLOSED", "OPEN", "HALF_OPEN"}]
      /\ openFor' \in [Endpoints -> (0..Cooldown) \cup {NoTime}]
      /\ RpcCircuitConsistent' /\ RpcHalfOpenOnlyUnprobed' /\ RpcAges'
  BY <1>1, <1>2, SuccessKeeps
<1> QED
  BY <1>1, <1>5, <1>6 DEF RpcIInv, RpcTyped

(* A failing attempt goes on to the next endpoint, or the call has failed at all of them. *)
LEMMA CallFailsKeeps ==
  ASSUME RpcIInv, NEW k \in Calls, NEW ran \in BOOLEAN, CallFails(k, ran)
  PROVE  RpcIInv'
<1> DEFINE e == Head(call[k].todo)
           rst == Tail(call[k].todo)
           r == [call[k] EXCEPT !.todo = rst, !.tried = @ \cup {e}, !.ran = @ \/ ran,
                                !.result = IF rst = <<>> THEN "failed" ELSE "trying"]
<1>1. /\ call[k].result = "trying" /\ RecordFailure(e)
      /\ call' = [call EXCEPT ![k].todo = rst, ![k].tried = @ \cup {e}, ![k].ran = @ \/ ran,
                              ![k].result = IF rst = <<>> THEN "failed" ELSE "trying"]
      /\ UNCHANGED <<up, probesOn, sinceRound, probing>>
  BY DEF CallFails
<1>2. /\ call[k] \in RpcCall /\ call[k].tried \subseteq call[k].offered
      /\ call[k].offered \subseteq Endpoints
      /\ Listed(call[k].todo) = call[k].offered \ call[k].tried
      /\ e \in call[k].offered /\ e \in Endpoints
  BY <1>1, CallAt
<1>3. /\ rst \in Seq(Endpoints) /\ Distinct(rst)
      /\ Listed(rst) = Listed(call[k].todo) \ {e}
      /\ rst = <<>> => Listed(call[k].todo) = {e}
  BY <1>1, CallAt, TailLists
<1> HIDE DEF e, rst
<1>4. call' = [call EXCEPT ![k] = r]
  BY <1>1 DEF RpcIInv, RpcTyped
<1>5. /\ r \in RpcCall /\ r.offered = call[k].offered /\ r.tried = call[k].tried \cup {e}
      /\ r.todo = rst /\ r.result = IF rst = <<>> THEN "failed" ELSE "trying"
  BY <1>2, <1>3 DEF RpcCall
<1> HIDE DEF r
<1>6. /\ r.tried \subseteq r.offered
      /\ r.result = "failed" => r.tried = r.offered
      /\ r.result = "trying" => /\ r.todo # <<>> /\ Distinct(r.todo)
                                /\ Listed(r.todo) = r.offered \ r.tried
  BY <1>2, <1>3, <1>5
<1>7. call' \in [Calls -> RpcCall] /\ RpcCallInv'
  BY <1>4, <1>5, <1>6, CallRecordKeeps
<1>8. /\ failures' \in [Endpoints -> 0..FailureThreshold]
      /\ circuit' \in [Endpoints -> {"CLOSED", "OPEN", "HALF_OPEN"}]
      /\ openFor' \in [Endpoints -> (0..Cooldown) \cup {NoTime}]
      /\ RpcCircuitConsistent' /\ RpcHalfOpenOnlyUnprobed' /\ RpcAges'
  BY <1>1, <1>2, FailureKeeps
<1> QED
  BY <1>1, <1>7, <1>8 DEF RpcIInv, RpcTyped

(* A call that was returned is forgotten. *)
LEMMA ReturnKeeps ==
  ASSUME RpcIInv, NEW k \in Calls, Return(k)
  PROVE  RpcIInv'
<1>1. /\ call' = [call EXCEPT ![k] = NotStarted]
      /\ UNCHANGED <<failures, circuit, openFor, up, probesOn, sinceRound, probing>>
  BY DEF Return
<1>2. NotStarted \in RpcCall /\ NotStarted.result = "none" /\ NotStarted.tried = {}
  BY DEF NotStarted, RpcCall
<1>3. call' \in [Calls -> RpcCall] /\ RpcCallInv'
  BY <1>1, <1>2, CallRecordKeeps
<1>4. RpcCircuitConsistent' /\ RpcHalfOpenOnlyUnprobed' /\ RpcAges'
  BY <1>1 DEF RpcIInv, RpcCircuitConsistent, RpcHalfOpenOnlyUnprobed, RpcAges
<1> QED
  BY <1>1, <1>3, <1>4 DEF RpcIInv, RpcTyped

(* A probe counts like a call. *)
LEMMA ProbeEndsKeeps ==
  ASSUME RpcIInv, NEW e \in Endpoints, ProbeEnds(e)
  PROVE  RpcIInv'
<1>1. /\ RecordSuccess(e) \/ RecordFailure(e)
      /\ probing' = probing \ {e} /\ UNCHANGED <<up, call, probesOn, sinceRound>>
  BY DEF ProbeEnds
<1>2. /\ failures' \in [Endpoints -> 0..FailureThreshold]
      /\ circuit' \in [Endpoints -> {"CLOSED", "OPEN", "HALF_OPEN"}]
      /\ openFor' \in [Endpoints -> (0..Cooldown) \cup {NoTime}]
      /\ RpcCircuitConsistent' /\ RpcHalfOpenOnlyUnprobed' /\ RpcAges'
  BY <1>1, SuccessKeeps, FailureKeeps
<1>3. RpcCallInv'
  BY <1>1 DEF RpcIInv, RpcCallInv
<1> QED
  BY <1>1, <1>2, <1>3 DEF RpcIInv, RpcTyped

(* The probes of a round are over when the next begins, so that no circuit has
   been open for longer than a round by then. *)
LEMMA ProbeRoundKeeps ==
  ASSUME RpcIInv, ProbeRound
  PROVE  RpcIInv'
<1> USE RpcAssumption
<1>1. /\ probesOn /\ sinceRound = ProbeEvery /\ probing' = Endpoints /\ sinceRound' = 0
      /\ UNCHANGED <<failures, circuit, openFor, up, call, probesOn>>
  BY DEF ProbeRound
<1>2. RpcTyped /\ RpcAges
  BY DEF RpcIInv
<1>3. probing = {}
  BY <1>1, <1>2, RpcTimingAssumption DEF RpcTyped, RpcAges
<1>4. RpcAges'
  BY <1>1, <1>2, <1>3 DEF RpcTyped, RpcAges
<1>5. RpcTyped'
  BY <1>1, <1>2 DEF RpcTyped
<1>6. RpcCircuitConsistent' /\ RpcHalfOpenOnlyUnprobed' /\ RpcCallInv'
  BY <1>1 DEF RpcIInv, RpcCircuitConsistent, RpcHalfOpenOnlyUnprobed, RpcCallInv
<1> QED
  BY <1>4, <1>5, <1>6 DEF RpcIInv

(* Without probes nothing is said of how long a circuit is open. *)
LEMMA StopProbesKeeps ==
  ASSUME RpcIInv, StopHealthProbes
  PROVE  RpcIInv'
<1>1. /\ probesOn' = FALSE /\ sinceRound' = 0
      /\ UNCHANGED <<failures, circuit, openFor, up, call, probing>>
  BY DEF StopHealthProbes
<1>2. probesOn' \in BOOLEAN
  BY <1>1, Zenon
<1>3. RpcTyped'
  BY <1>1, <1>2, RpcAssumption DEF RpcIInv, RpcTyped
<1> QED
  BY <1>1, <1>3 DEF RpcIInv, RpcCircuitConsistent, RpcHalfOpenOnlyUnprobed, RpcCallInv, RpcAges

(* Time passes only while no timer is due, so no circuit reaches its cooldown under the probes. *)
LEMMA RpcTickKeeps ==
  ASSUME RpcIInv, Tick
  PROVE  RpcIInv'
<1> USE RpcAssumption
<1>1. RpcTyped /\ RpcCircuitConsistent /\ RpcHalfOpenOnlyUnprobed /\ RpcCallInv /\ RpcAges
  BY DEF RpcIInv
<1>2. /\ probesOn => sinceRound < ProbeEvery
      /\ probing # {} => sinceRound < TimeoutTicks
      /\ sinceRound' = IF probesOn THEN sinceRound + 1
                       ELSE IF probing # {} THEN sinceRound + 1 ELSE 0
      /\ openFor' = [e \in Endpoints |->
           IF openFor[e] \in 0..Cooldown - 1 THEN openFor[e] + 1 ELSE openFor[e]]
      /\ UNCHANGED <<failures, circuit, up, call, probesOn, probing>>
  BY DEF Tick
<1>3. sinceRound' \in 0..ProbeEvery
  BY <1>1, <1>2, RpcTimingAssumption DEF RpcTyped
<1>4. ASSUME NEW e \in Endpoints
      PROVE  /\ openFor'[e] \in (0..Cooldown) \cup {NoTime}
             /\ openFor'[e] = NoTime <=> openFor[e] = NoTime
             /\ openFor[e] # NoTime => openFor'[e] <= openFor[e] + 1
  <2>1. openFor[e] \in (0..Cooldown) \cup {NoTime}
    BY <1>1 DEF RpcTyped
  <2> QED
    BY <1>2, <2>1
<1>5. RpcTyped'
  BY <1>1, <1>2, <1>3, <1>4 DEF RpcTyped
<1>6. RpcCircuitConsistent' /\ RpcHalfOpenOnlyUnprobed' /\ RpcCallInv'
  BY <1>1, <1>2, <1>4 DEF RpcCircuitConsistent, RpcHalfOpenOnlyUnprobed, RpcCallInv
<1>7. RpcAges'
  <2> SUFFICES ASSUME probesOn
               PROVE  /\ probing # {} => sinceRound + 1 <= TimeoutTicks
                      /\ \A e \in Endpoints : openFor'[e] # NoTime =>
                           openFor'[e] <= IF e \in probing THEN sinceRound + 1 + ProbeEvery
                                          ELSE sinceRound + 1
    BY <1>2 DEF RpcAges
  <2>1. probing # {} => sinceRound + 1 <= TimeoutTicks
    BY <1>1, <1>2 DEF RpcTyped
  <2>2. ASSUME NEW e \in Endpoints, openFor'[e] # NoTime
        PROVE  openFor'[e] <= IF e \in probing THEN sinceRound + 1 + ProbeEvery ELSE sinceRound + 1
    <3>1. /\ openFor[e] \in 0..Cooldown /\ openFor'[e] \in 0..Cooldown
          /\ openFor'[e] <= openFor[e] + 1
      BY <1>1, <1>4, <2>2 DEF RpcTyped
    <3>2. openFor[e] <= IF e \in probing THEN sinceRound + ProbeEvery ELSE sinceRound
      BY <1>1, <1>4, <2>2 DEF RpcAges
    <3> QED
      BY <1>1, <3>1, <3>2 DEF RpcTyped
  <2> QED
    BY <2>1, <2>2
<1> QED
  BY <1>5, <1>6, <1>7 DEF RpcIInv

(* The pool does not see an endpoint go up or down. *)
LEMMA FlipKeeps ==
  ASSUME RpcIInv, NEW e \in Endpoints, EndpointFlips(e)
  PROVE  RpcIInv'
<1> DEFINE flipped == ~up[e]
<1>1. up' = [up EXCEPT ![e] = flipped] /\ up \in [Endpoints -> BOOLEAN] /\ flipped \in BOOLEAN
  BY DEF EndpointFlips, RpcIInv, RpcTyped
<1> HIDE DEF flipped
<1>2. up' \in [Endpoints -> BOOLEAN]
  BY <1>1
<1>3. RpcTyped'
  <2>1. UNCHANGED <<failures, circuit, openFor, call, probesOn, sinceRound, probing>>
    BY DEF EndpointFlips
  <2> QED
    BY <1>2, <2>1 DEF RpcIInv, RpcTyped
<1> QED
  BY <1>3 DEF EndpointFlips, RpcIInv, RpcCircuitConsistent, RpcHalfOpenOnlyUnprobed,
              RpcCallInv, RpcAges

(* Every step of the pool keeps its invariant. *)
LEMMA RpcNextKeeps == ASSUME RpcIInv, [RpcNext]_rpcVars PROVE RpcIInv'
<1>1. CASE RpcNext
  BY <1>1, StartCallKeeps, CallSucceedsKeeps, CallFailsKeeps, ReturnKeeps, ProbeEndsKeeps,
     ProbeRoundKeeps, StopProbesKeeps, RpcTickKeeps, FlipKeeps DEF RpcNext
<1>2. CASE UNCHANGED rpcVars
  BY <1>2 DEF rpcVars, RpcIInv, RpcTyped, RpcCircuitConsistent, RpcHalfOpenOnlyUnprobed,
              RpcCallInv, RpcAges
<1> QED
  BY <1>1, <1>2

(* RpcPool is sound for every pool and every load: circuits agree with the
   failures they count, none is half open while the probes run, and a call gives
   up only when all it was offered failed (rpc-pool.ts). *)
THEOREM RpcPoolSound == RpcSpec => []RpcSound
<1>1. RpcIInv => RpcSound
  BY DEF RpcIInv, RpcSound, RpcCallInv, RpcCallSettles, Listed
<1> QED
  BY <1>1, RpcInitInv, RpcNextKeeps, PTL DEF RpcSpec

-----------------------------------------------------------------------------
(* The runway worker. *)

NoOne == Sleeping.stream

RunwayCheck == [at : {"sleep", "next", "sending", "recording"}, todo : SUBSET RunwayStreams,
                rows : [RunwayStreams -> Nat], stream : RunwayStreams \cup {NoOne}]

RunwayTyped ==
  /\ runway \in [RunwayStreams -> Nat]
  /\ check \in [Checks -> RunwayCheck]
  /\ alertHistory \in [Alerts -> Nat] /\ lastSent \in [Alerts -> Nat]
  /\ disturbed \in BOOLEAN /\ repeated \in BOOLEAN

(* An alert on its way is one the stream was due when its row was read, and one
   being recorded has been sent. *)
RunwayUnderWay ==
  \A k \in Checks :
    /\ check[k].at \in {"sending", "recording"} => Due(k) \in Alerts
    /\ check[k].at = "recording" => Due(k) \in everSent

(* As long as nothing was disturbed one check runs at a time, the history is at
   least as fresh as what was sent, save for the alert about to be recorded, and
   an alert about to be sent is not in the window. *)
RunwayUndisturbed ==
  ~disturbed =>
    /\ \A j, k \in Checks : check[j].at # "sleep" /\ check[k].at # "sleep" => j = k
    /\ \A a \in Alerts : \/ alertHistory[a] <= lastSent[a]
                         \/ \E k \in Checks : check[k].at = "recording" /\ a = Due(k)
    /\ \A k \in Checks : check[k].at = "sending" => alertHistory[Due(k)] > DedupWindow

RunwayIInv == RunwayTyped /\ RunwayUnderWay /\ RunwayUndisturbed /\ RunwaySound


(* Of the records of the checks only what Due reads matters: a check that is
   changed to one that neither sends nor records disturbs nothing. *)
LEMMA SleepingIsCheck ==
  ASSUME RunwayAssumption
  PROVE  Sleeping \in RunwayCheck /\ Sleeping.at = "sleep" /\ Sleeping.stream = NoOne
  BY DEF Sleeping, RunwayCheck, NoOne

(* The invariant holds before the first check. *)
LEMMA RunwayInitInv ==
  ASSUME RunwayInit, RunwayAssumption
  PROVE  RunwayIInv
<1>1. Never \in Nat /\ MaxRunway \in Nat
  BY DEF RunwayAssumption, Never
<1>2. RunwayTyped
  <2>1. disturbed \in BOOLEAN /\ repeated \in BOOLEAN
    BY Zenon DEF RunwayInit
  <2>2. QED
    BY <1>1, <2>1, SleepingIsCheck DEF RunwayInit, RunwayTyped
<1>3. \A k \in Checks : check[k].at = "sleep"
  BY SleepingIsCheck DEF RunwayInit
<1>4. QED
  BY <1>1, <1>2, <1>3
  DEF RunwayInit, RunwayIInv, RunwayUnderWay, RunwayUndisturbed, RunwaySound,
      RunwayNoDuplicates, RunwayRecordedWasSent

(* A check that leaves a stream is between two streams or asleep. *)
LEMMA LeaveFacts ==
  ASSUME RunwayTyped, RunwayAssumption,
         NEW k \in Checks, NEW s \in RunwayStreams, Leave(k, s)
  PROVE  /\ check' \in [Checks -> RunwayCheck]
         /\ check'[k].at \in {"sleep", "next"}
         /\ \A j \in Checks \ {k} : check'[j] = check[j]
<1> DEFINE r == IF check[k].todo \ {s} = {} THEN Sleeping
                ELSE [at |-> "next", todo |-> check[k].todo \ {s}, stream |-> Sleeping.stream,
                      rows |-> [check[k].rows EXCEPT ![s] = 0]]
<1>1. check \in [Checks -> RunwayCheck] /\ check[k] \in RunwayCheck
  BY DEF RunwayTyped
<1>2. check' = [check EXCEPT ![k] = r]
  BY DEF Leave
<1>3. r \in RunwayCheck /\ r.at \in {"sleep", "next"}
  BY <1>1, SleepingIsCheck DEF RunwayCheck
<1>4. QED
  <2> HIDE DEF r
  <2> QED BY <1>1, <1>2, <1>3

(* A check that starts has read the rows of the live streams. *)
LEMMA StartCheckKeeps ==
  ASSUME RunwayIInv, RunwayAssumption, NEW k \in Checks, StartCheck(k)
  PROVE  RunwayIInv'
<1> DEFINE r == [at |-> "next", todo |-> {s \in RunwayStreams : live[s]},
                 rows |-> [s \in RunwayStreams |->
                             IF s \in {t \in RunwayStreams : live[t]} THEN runway[s] ELSE 0],
                 stream |-> Sleeping.stream]
<1>1. RunwayTyped /\ check \in [Checks -> RunwayCheck]
  BY DEF RunwayIInv, RunwayTyped
<1>2. check' = [check EXCEPT ![k] = r]
  BY DEF StartCheck
<1>3. r \in RunwayCheck /\ r.at = "next"
  BY <1>1, SleepingIsCheck DEF RunwayCheck, RunwayTyped
<1>4. disturbed' \in BOOLEAN
  BY <1>1, Zenon DEF StartCheck, RunwayTyped
<1>5. disturbed' = (disturbed \/ \E j \in Checks : check[j].at # "sleep")
  BY DEF StartCheck
<1>6. UNCHANGED <<runway, live, alertHistory, lastSent, everRecorded, everSent, repeated>>
  BY DEF StartCheck
<1> HIDE DEF r
<1>7. RunwayTyped'
  BY <1>1, <1>2, <1>3, <1>4, <1>6 DEF RunwayTyped
<1>8. check'[k].at = "next" /\ \A j \in Checks \ {k} : check'[j] = check[j]
  BY <1>1, <1>2, <1>3
<1>9. RunwayUnderWay'
  BY <1>6, <1>8 DEF RunwayIInv, RunwayUnderWay, Due
<1>10. RunwayUndisturbed'
  <2>1. SUFFICES ASSUME ~disturbed'
                 PROVE  /\ \A i, j \in Checks : check'[i].at # "sleep" /\ check'[j].at # "sleep" => i = j
                        /\ \A a \in Alerts : alertHistory[a] <= lastSent[a]
                        /\ \A j \in Checks : check'[j].at # "sending"
    BY <1>6 DEF RunwayUndisturbed
  <2>2. ~disturbed /\ \A j \in Checks : check[j].at = "sleep"
    BY <1>5, <2>1
  <2>3. \A a \in Alerts : alertHistory[a] <= lastSent[a]
    BY <2>2 DEF RunwayIInv, RunwayUndisturbed
  <2>4. QED
    BY <1>8, <2>2, <2>3
<1>11. QED
  BY <1>5, <1>6, <1>7, <1>9, <1>10
  DEF RunwayIInv, RunwaySound, RunwayNoDuplicates, RunwayRecordedWasSent

(* A check that leaves a stream without having sent anything for it. *)
LEMMA LeavingKeeps ==
  ASSUME RunwayIInv, RunwayAssumption, NEW k \in Checks, NEW s \in RunwayStreams, Leave(k, s),
         check[k].at = "next",
         UNCHANGED <<runway, live, alertHistory, lastSent, everRecorded, everSent, repeated, disturbed>>
  PROVE  RunwayIInv'
<1>1. RunwayTyped
  BY DEF RunwayIInv
<1>2. /\ check' \in [Checks -> RunwayCheck]
      /\ check'[k].at \in {"sleep", "next"}
      /\ \A j \in Checks \ {k} : check'[j] = check[j]
  BY <1>1, LeaveFacts
<1>3. RunwayTyped'
  BY <1>1, <1>2 DEF RunwayTyped
<1>4. RunwayUnderWay'
  BY <1>2 DEF RunwayIInv, RunwayUnderWay, Due
<1>5. RunwayUndisturbed'
  <2>1. SUFFICES ASSUME ~disturbed
                 PROVE  RunwayUndisturbed'
    BY DEF RunwayUndisturbed
  <2>2. /\ \A i, j \in Checks : check[i].at # "sleep" /\ check[j].at # "sleep" => i = j
        /\ \A j \in Checks : check[j].at = "recording" => FALSE
        /\ \A a \in Alerts : alertHistory[a] <= lastSent[a]
    BY <2>1 DEF RunwayIInv, RunwayUndisturbed
  <2>3. \A j \in Checks : check'[j].at \notin {"sending", "recording"}
    BY <1>2, <2>2
  <2>4. \A i, j \in Checks : check'[i].at # "sleep" /\ check'[j].at # "sleep" => i = j
    BY <1>2, <2>2
  <2>5. QED
    BY <2>2, <2>3, <2>4 DEF RunwayUndisturbed
<1>6. QED
  BY <1>3, <1>4, <1>5 DEF RunwayIInv, RunwaySound, RunwayNoDuplicates, RunwayRecordedWasSent

(* The lookup goes on to the alert only if none was recorded in the window. *)
LEMMA LookUpKeeps ==
  ASSUME RunwayIInv, RunwayAssumption,
         NEW k \in Checks, NEW s \in RunwayStreams, NEW ok \in BOOLEAN, LookUp(k, s, ok)
  PROVE  RunwayIInv'
<1> DEFINE type == AlertType(check[k].rows[s])
<1>1. /\ check[k].at = "next" /\ s \in check[k].todo
      /\ UNCHANGED <<runway, live, alertHistory, lastSent, everRecorded, everSent, repeated, disturbed>>
  BY DEF LookUp
<1>2. CASE Leave(k, s)
  BY <1>1, <1>2, LeavingKeeps
<1>3. CASE ~Leave(k, s)
  <2>1. /\ type # "none" /\ ~WasAlertRecentlySent(s, type)
        /\ check' = [check EXCEPT ![k].at = "sending", ![k].stream = s]
    BY <1>3 DEF LookUp
  <2>2. RunwayTyped /\ check \in [Checks -> RunwayCheck] /\ check[k] \in RunwayCheck
    BY DEF RunwayIInv, RunwayTyped
  <2> DEFINE r == [check[k] EXCEPT !.at = "sending", !.stream = s]
  <2>3. check' = [check EXCEPT ![k] = r]
    BY <2>1, <2>2 DEF RunwayCheck
  <2>4. r \in RunwayCheck /\ r.at = "sending" /\ r.stream = s /\ r.rows = check[k].rows
    BY <2>2 DEF RunwayCheck
  <2> HIDE DEF r
  <2>5. RunwayTyped'
    BY <1>1, <2>2, <2>3, <2>4 DEF RunwayTyped
  <2>6. check'[k] = r /\ \A j \in Checks \ {k} : check'[j] = check[j]
    BY <2>2, <2>3
  <2>7. Due(k)' = <<s, type>>
    BY <2>4, <2>6 DEF Due
  <2>8. type \in AlertTypes
    BY <2>1 DEF AlertType, AlertTypes
  <2>9. Due(k)' \in Alerts /\ \A j \in Checks \ {k} : Due(j)' = Due(j)
    BY <2>6, <2>7, <2>8 DEF Due, Alerts
  <2> HIDE DEF type
  <2>10. RunwayUnderWay'
    BY <1>1, <2>4, <2>6, <2>9 DEF RunwayIInv, RunwayUnderWay
  <2>11. RunwayUndisturbed'
    <3>1. SUFFICES ASSUME ~disturbed
                   PROVE  RunwayUndisturbed'
      BY <1>1 DEF RunwayUndisturbed
    <3>2. \A i, j \in Checks : check[i].at # "sleep" /\ check[j].at # "sleep" => i = j
      BY <3>1 DEF RunwayIInv, RunwayUndisturbed
    <3>3. \A j \in Checks \ {k} : check[j].at = "sleep"
      BY <1>1, <3>2
    <3>4. \A a \in Alerts : alertHistory[a] <= lastSent[a]
      BY <1>1, <3>1, <3>3 DEF RunwayIInv, RunwayUndisturbed
    <3>5. alertHistory[Due(k)'] > DedupWindow
      <4>1. DedupWindow \in Nat /\ alertHistory[Due(k)'] \in Nat
        BY <2>2, <2>9 DEF RunwayTyped, RunwayAssumption
      <4>2. ~(alertHistory[Due(k)'] <= DedupWindow)
        BY <2>1, <2>7 DEF WasAlertRecentlySent
      <4>3. QED
        BY <4>1, <4>2
    <3>6. \A j \in Checks : check'[j].at = "sending" => j = k
      BY <2>6, <3>3
    <3>7. \A i, j \in Checks : check'[i].at # "sleep" /\ check'[j].at # "sleep" => i = j
      BY <2>6, <3>3
    <3>8. QED
      BY <1>1, <3>4, <3>5, <3>6, <3>7 DEF RunwayUndisturbed
  <2>12. QED
    BY <1>1, <2>5, <2>10, <2>11
    DEF RunwayIInv, RunwaySound, RunwayNoDuplicates, RunwayRecordedWasSent
<1>4. QED
  BY <1>2, <1>3

(* Sending: a repeated alert means that the worker was disturbed. *)
LEMMA SendKeeps ==
  ASSUME RunwayIInv, RunwayAssumption, NEW k \in Checks, SendLowBalanceAlert(k)
  PROVE  RunwayIInv'
<1> DEFINE r == [check[k] EXCEPT !.at = "recording"]
           d == Due(k)
<1>1. RunwayTyped /\ check \in [Checks -> RunwayCheck] /\ check[k] \in RunwayCheck
  BY DEF RunwayIInv, RunwayTyped
<1>2. /\ check[k].at = "sending"
      /\ repeated' = (repeated \/ lastSent[d] <= DedupWindow)
      /\ lastSent' = [lastSent EXCEPT ![d] = 0]
      /\ everSent' = everSent \cup {d}
      /\ UNCHANGED <<runway, live, alertHistory, everRecorded, disturbed>>
  BY DEF SendLowBalanceAlert
<1>3. check' = [check EXCEPT ![k] = r]
  BY <1>1 DEF SendLowBalanceAlert, RunwayCheck
<1>4. r \in RunwayCheck /\ r.at = "recording" /\ r.stream = check[k].stream /\ r.rows = check[k].rows
  BY <1>1 DEF RunwayCheck
<1> HIDE DEF r
<1>5. check'[k] = r /\ \A j \in Checks \ {k} : check'[j] = check[j]
  BY <1>1, <1>3
<1>6. \A j \in Checks : Due(j)' = Due(j)
  BY <1>4, <1>5 DEF Due
<1>7. d \in Alerts
  BY <1>2 DEF RunwayIInv, RunwayUnderWay
<1> HIDE DEF d
<1>8. repeated' \in BOOLEAN
  BY <1>1, <1>2, Zenon DEF RunwayTyped
<1>9. RunwayTyped'
  BY <1>1, <1>2, <1>3, <1>4, <1>7, <1>8 DEF RunwayTyped
<1>10. RunwayUnderWay'
  <2>1. Due(k)' = d
    BY <1>6 DEF d
  <2>2. QED
    BY <1>2, <1>5, <1>6, <1>7, <2>1 DEF RunwayIInv, RunwayUnderWay
<1>11. ~disturbed => lastSent[d] > DedupWindow
  <2>1. SUFFICES ASSUME ~disturbed
                 PROVE  lastSent[d] > DedupWindow
    OBVIOUS
  <2>2. alertHistory[d] > DedupWindow
    BY <1>2, <2>1 DEF RunwayIInv, RunwayUndisturbed, d
  <2>3. \A j \in Checks : check[j].at # "recording"
    BY <1>2, <2>1 DEF RunwayIInv, RunwayUndisturbed
  <2>4. alertHistory[d] <= lastSent[d]
    BY <1>7, <2>1, <2>3 DEF RunwayIInv, RunwayUndisturbed
  <2>5. alertHistory[d] \in Nat /\ lastSent[d] \in Nat /\ DedupWindow \in Nat
    BY <1>1, <1>7 DEF RunwayTyped, RunwayAssumption
  <2>6. QED
    BY <2>2, <2>4, <2>5
<1>12. RunwayUndisturbed'
  <2>1. SUFFICES ASSUME ~disturbed
                 PROVE  RunwayUndisturbed'
    BY <1>2 DEF RunwayUndisturbed
  <2>2. \A i, j \in Checks : check[i].at # "sleep" /\ check[j].at # "sleep" => i = j
    BY <2>1 DEF RunwayIInv, RunwayUndisturbed
  <2>3. \A j \in Checks \ {k} : check[j].at = "sleep"
    BY <1>2, <2>2
  <2>4. \A a \in Alerts : alertHistory[a] <= lastSent[a]
    BY <1>2, <2>1, <2>3 DEF RunwayIInv, RunwayUndisturbed
  <2>5. \A a \in Alerts : a # d => lastSent'[a] = lastSent[a]
    BY <1>1, <1>2 DEF RunwayTyped
  <2>6. \A a \in Alerts : \/ alertHistory'[a] <= lastSent'[a]
                          \/ \E j \in Checks : check'[j].at = "recording" /\ a = Due(j)'
    BY <1>2, <1>4, <1>5, <1>6, <2>4, <2>5 DEF d
  <2>7. /\ \A i, j \in Checks : check'[i].at # "sleep" /\ check'[j].at # "sleep" => i = j
        /\ \A j \in Checks : check'[j].at # "sending"
    BY <1>4, <1>5, <2>3
  <2>8. QED
    BY <2>6, <2>7 DEF RunwayUndisturbed
<1>13. RunwaySound'
  <2>1. repeated => disturbed
    BY DEF RunwayIInv, RunwaySound, RunwayNoDuplicates
  <2>2. lastSent[d] \in Nat /\ DedupWindow \in Nat
    BY <1>1, <1>7 DEF RunwayTyped, RunwayAssumption
  <2>3. lastSent[d] <= DedupWindow => disturbed
    BY <1>11, <2>2
  <2>4. RunwayNoDuplicates'
    BY <1>2, <2>1, <2>3 DEF RunwayNoDuplicates
  <2>5. RunwayRecordedWasSent'
    BY <1>2 DEF RunwayIInv, RunwaySound, RunwayRecordedWasSent
  <2>6. QED
    BY <2>4, <2>5 DEF RunwaySound
<1>14. QED
  BY <1>9, <1>10, <1>12, <1>13 DEF RunwayIInv

(* Recording: what is written down was sent. *)
LEMMA RecordKeeps ==
  ASSUME RunwayIInv, RunwayAssumption, NEW k \in Checks, NEW ok \in BOOLEAN, RecordAlert(k, ok)
  PROVE  RunwayIInv'
<1> DEFINE d == Due(k)
<1>1. RunwayTyped
  BY DEF RunwayIInv
<1>2. /\ check[k].at = "recording"
      /\ UNCHANGED <<runway, live, lastSent, everSent, repeated>>
      /\ Leave(k, check[k].stream)
  BY DEF RecordAlert
<1>3. d \in Alerts /\ d \in everSent
  BY <1>2 DEF RunwayIInv, RunwayUnderWay
<1>4. check[k].stream \in RunwayStreams
  BY <1>3 DEF Due, Alerts
<1>5. /\ check' \in [Checks -> RunwayCheck]
      /\ check'[k].at \in {"sleep", "next"}
      /\ \A j \in Checks \ {k} : check'[j] = check[j]
  BY <1>1, <1>2, <1>4, LeaveFacts
<1> HIDE DEF d
<1>6. \/ /\ alertHistory' = [alertHistory EXCEPT ![d] = 0]
         /\ everRecorded' = everRecorded \cup {d}
         /\ disturbed' = disturbed
      \/ disturbed' = TRUE /\ UNCHANGED <<alertHistory, everRecorded>>
  BY DEF RecordAlert, d
<1>7. disturbed' \in BOOLEAN
  BY <1>1, <1>6, Zenon DEF RunwayTyped
<1>8. alertHistory' \in [Alerts -> Nat]
  BY <1>1, <1>3, <1>6 DEF RunwayTyped
<1>9. RunwayTyped'
  BY <1>1, <1>2, <1>5, <1>7, <1>8 DEF RunwayTyped
<1>10. RunwayUnderWay'
  BY <1>2, <1>5 DEF RunwayIInv, RunwayUnderWay, Due
<1>11. RunwayUndisturbed'
  <2>1. SUFFICES ASSUME ~disturbed'
                 PROVE  RunwayUndisturbed'
    BY DEF RunwayUndisturbed
  <2>2. ~disturbed /\ alertHistory' = [alertHistory EXCEPT ![d] = 0]
    BY <1>6, <2>1
  <2>3. \A i, j \in Checks : check[i].at # "sleep" /\ check[j].at # "sleep" => i = j
    BY <2>2 DEF RunwayIInv, RunwayUndisturbed
  <2>4. \A j \in Checks \ {k} : check[j].at = "sleep"
    BY <1>2, <2>3
  <2>5. \A a \in Alerts : a # d => alertHistory[a] <= lastSent[a]
    BY <2>2, <2>4 DEF RunwayIInv, RunwayUndisturbed, d
  <2>6. \A a \in Alerts : a # d => alertHistory'[a] = alertHistory[a]
    BY <1>1, <2>2 DEF RunwayTyped
  <2>7. alertHistory'[d] = 0 /\ lastSent[d] \in Nat
    BY <1>1, <1>3, <2>2 DEF RunwayTyped
  <2>8. \A a \in Alerts : alertHistory'[a] <= lastSent'[a]
    BY <1>2, <2>5, <2>6, <2>7
  <2>9. /\ \A i, j \in Checks : check'[i].at # "sleep" /\ check'[j].at # "sleep" => i = j
        /\ \A j \in Checks : check'[j].at \notin {"sending", "recording"}
    BY <1>5, <2>4
  <2>10. QED
    BY <2>8, <2>9 DEF RunwayUndisturbed
<1>12. RunwaySound'
  BY <1>2, <1>3, <1>6 DEF RunwayIInv, RunwaySound, RunwayNoDuplicates, RunwayRecordedWasSent
<1>13. QED
  BY <1>9, <1>10, <1>11, <1>12 DEF RunwayIInv

(* A restart forgets the checks under way, and counts as a disturbance. *)
LEMMA RestartKeeps ==
  ASSUME RunwayIInv, RunwayAssumption, Restart
  PROVE  RunwayIInv'
<1>1. /\ check' = [k \in Checks |-> Sleeping] /\ disturbed' = TRUE
      /\ UNCHANGED <<runway, live, alertHistory, lastSent, everRecorded, everSent, repeated>>
  BY DEF Restart
<1>2. disturbed' \in BOOLEAN
  BY <1>1, Zenon
<1>3. RunwayTyped'
  BY <1>1, <1>2, SleepingIsCheck DEF RunwayIInv, RunwayTyped
<1>4. \A k \in Checks : check'[k].at = "sleep"
  BY <1>1, SleepingIsCheck
<1>5. QED
  BY <1>1, <1>3, <1>4
  DEF RunwayIInv, RunwayUnderWay, RunwayUndisturbed, RunwaySound, RunwayNoDuplicates,
      RunwayRecordedWasSent

(* Time passes between checks and ages every alert alike. *)
LEMMA HalfDayKeeps ==
  ASSUME RunwayIInv, RunwayAssumption, HalfDay
  PROVE  RunwayIInv'
<1> DEFINE Older(age) == IF age < Never THEN age + 1 ELSE age
<1>1. /\ \A k \in Checks : check[k].at = "sleep"
      /\ runway' = [s \in RunwayStreams |-> IF live[s] /\ runway[s] > 0 THEN runway[s] - 1 ELSE runway[s]]
      /\ alertHistory' = [a \in Alerts |-> Older(alertHistory[a])]
      /\ lastSent' = [a \in Alerts |-> Older(lastSent[a])]
      /\ UNCHANGED <<live, check, everRecorded, everSent, repeated, disturbed>>
  BY DEF HalfDay
<1>2. RunwayTyped /\ Never \in Nat
  BY DEF RunwayIInv, RunwayAssumption, Never
<1>3. \A x \in Nat : Older(x) \in Nat
  BY <1>2
<1>4. \A x, y \in Nat : x <= y => Older(x) <= Older(y)
  BY <1>2
<1> HIDE DEF Older
<1>5. runway' \in [RunwayStreams -> Nat]
  BY <1>1, <1>2 DEF RunwayTyped
<1>6. RunwayTyped'
  BY <1>1, <1>2, <1>3, <1>5 DEF RunwayTyped
<1>7. RunwayUndisturbed'
  <2>1. ~disturbed => \A a \in Alerts : alertHistory[a] <= lastSent[a]
    BY <1>1 DEF RunwayIInv, RunwayUndisturbed
  <2>2. ~disturbed => \A a \in Alerts : alertHistory'[a] <= lastSent'[a]
    BY <1>1, <1>2, <1>4, <2>1 DEF RunwayTyped
  <2>3. QED
    BY <1>1, <2>2 DEF RunwayUndisturbed
<1>8. QED
  BY <1>1, <1>6, <1>7
  DEF RunwayIInv, RunwayUnderWay, RunwaySound, RunwayNoDuplicates, RunwayRecordedWasSent

(* Every step of the runway worker keeps its invariant. *)
LEMMA RunwayNextKeeps ==
  ASSUME RunwayIInv, [RunwayNext]_runwayVars, RunwayAssumption
  PROVE  RunwayIInv'
<1>1. CASE UNCHANGED <<check, alertHistory, lastSent, everRecorded, everSent, repeated, disturbed>>
           /\ runway' \in [RunwayStreams -> Nat]
  BY <1>1
  DEF RunwayIInv, RunwayTyped, RunwayUnderWay, RunwayUndisturbed, RunwaySound,
      RunwayNoDuplicates, RunwayRecordedWasSent, Due
<1>2. runway \in [RunwayStreams -> Nat] /\ MaxRunway \in Nat
  BY DEF RunwayIInv, RunwayTyped, RunwayAssumption
<1>3. ASSUME NEW s \in RunwayStreams, TopUpRunway(s) \/ FlipLive(s)
      PROVE  RunwayIInv'
  <2>1. UNCHANGED <<check, alertHistory, lastSent, everRecorded, everSent, repeated, disturbed>>
    BY <1>3 DEF TopUpRunway, FlipLive
  <2>2. runway' \in [RunwayStreams -> Nat]
    BY <1>2, <1>3 DEF TopUpRunway, FlipLive
  <2>3. QED
    BY <1>1, <2>1, <2>2
<1>4. ASSUME NEW k \in Checks, StartCheck(k) \/ CheckProgress(k)
      PROVE  RunwayIInv'
  BY <1>4, StartCheckKeeps, LookUpKeeps, SendKeeps, RecordKeeps, Zenon DEF CheckProgress
<1>5. CASE UNCHANGED runwayVars
  BY <1>1, <1>2, <1>5 DEF runwayVars
<1>6. QED
  BY <1>3, <1>4, <1>5, RestartKeeps, HalfDayKeeps DEF RunwayNext

(* For any number of streams and of checks under way at once, and for any
   window and thresholds: an alert is repeated within the deduplication window
   only after checks overlapped, the process died or a record failed, and what
   alertHistory says was sent was sent (runStreamRunwayCheck, stream-runway-worker.ts). *)
THEOREM RunwayWorkerSound == RunwaySpec => []RunwaySound
<1>1. RunwayIInv => RunwaySound
  BY DEF RunwayIInv
<1>2. QED
  BY <1>1, RunwayAssumption, RunwayInitInv, RunwayNextKeeps, PTL DEF RunwaySpec

-----------------------------------------------------------------------------
(* Start and shutdown of the process.  The gate waitForDrain read is the newest
   batch of the chain, or none when all had settled; batches settle in order. *)
LcTyped ==
  /\ chained \in Nat /\ ended \in Nat /\ ended <= chained
  /\ drained \in [Signals -> Nat] /\ known \in [Signals -> Nat]
  /\ shutdowns \in [Signals -> {"none", "importing", "draining", "redis", "database", "done"}]

LcGates ==
  \A s \in Signals :
    shutdowns[s] \in {"draining", "redis", "database", "done"} =>
      drained[s] = known[s] \/ ended >= known[s]

(* The server takes connections from the moment it listens to the first signal. *)
LcListens == boot \in {"listening", "polling"} => accepting

LcIInv == LcTyped /\ LcGates /\ LcListens /\ ShutdownIsClean

(* The invariant holds when the process starts. *)
LEMMA LcInitInv ==
  ASSUME LcInit
  PROVE  LcIInv
  BY DEF LcInit, LcIInv, LcTyped, LcGates, LcListens, ShutdownIsClean, LcDrainedBeforeClose,
         LcStopsForGood

(* The steps of start-up and of the worker's scheduling leave the shutdowns alone
   and only move the chain and what has settled of it forward. *)
LEMMA LcRunningKeeps ==
  ASSUME LcIInv, LifecycleAssumption,
         ConnectDatabase \/ ConnectRedis \/ StartWorkers \/ FirstPollDone
         \/ PollTimerFires \/ TriggerPoll \/ BatchEnds
  PROVE  LcIInv'
<1>1. UNCHANGED <<shutdowns, drained, known, lcTimedOut>>
  BY DEF ConnectDatabase, ConnectRedis, StartWorkers, FirstPollDone, PollTimerFires, TriggerPoll,
         BatchEnds
<1>2. LcTyped
  BY DEF LcIInv
<1>3. chained' \in Nat /\ ended' \in Nat /\ ended' <= chained' /\ ended <= ended'
  BY <1>2 DEF LcTyped, ConnectDatabase, ConnectRedis, StartWorkers, FirstPollDone, PollTimerFires,
              TriggerPoll, BatchEnds, JoinsChain
<1>4. LcTyped'
  BY <1>1, <1>2, <1>3 DEF LcTyped
<1>5. \A s \in Signals : known[s] \in Nat /\ (ended >= known[s] => ended' >= known[s])
  BY <1>2, <1>3 DEF LcTyped
<1>6. LcGates'
  BY <1>1, <1>5 DEF LcIInv, LcGates
<1>7. LcDrainedBeforeClose'
  BY <1>1, <1>5 DEF LcIInv, ShutdownIsClean, LcDrainedBeforeClose
<1>8. LcListens' /\ LcStopsForGood'
  <2>1. LcListens /\ LcStopsForGood
    BY DEF LcIInv, ShutdownIsClean
  <2>2. CASE ConnectDatabase
    BY <2>1, <2>2 DEF ConnectDatabase, LcListens, LcStopsForGood
  <2>3. CASE ConnectRedis
    BY <2>1, <2>3 DEF ConnectRedis, LcListens, LcStopsForGood
  <2>4. CASE StartWorkers
    BY <2>1, <2>4 DEF StartWorkers, LcListens, LcStopsForGood
  <2>5. CASE FirstPollDone
    BY <2>1, <2>5 DEF FirstPollDone, LcListens, LcStopsForGood
  <2>6. CASE PollTimerFires
    BY <2>1, <2>6 DEF PollTimerFires, LcListens, LcStopsForGood
  <2>7. CASE TriggerPoll
    BY <2>1, <2>7 DEF TriggerPoll, LcListens, LcStopsForGood
  <2>8. CASE BatchEnds
    <3>1. UNCHANGED <<boot, accepting, lcRunning>> /\ (pollTimer' = pollTimer \/ pollTimer' = lcRunning)
      BY <2>8 DEF BatchEnds, ScheduleNext
    <3>2. QED
      BY <2>1, <3>1 DEF LcListens, LcStopsForGood
  <2>9. QED
    BY <2>2, <2>3, <2>4, <2>5, <2>6, <2>7, <2>8
<1>9. QED
  BY <1>4, <1>6, <1>7, <1>8 DEF LcIInv, ShutdownIsClean

(* A signal stops the timers and starts its shutdown, or ends a process that is not up yet. *)
LEMMA SignalledKeeps ==
  ASSUME LcIInv, NEW s \in Signals, Signalled(s)
  PROVE  LcIInv'
<1>1. UNCHANGED <<boot, chained, ended, drained, known, lcTimedOut>>
  BY DEF Signalled
<1>2. shutdowns' = shutdowns \/ shutdowns' = [shutdowns EXCEPT ![s] = "importing"]
  BY DEF Signalled
<1>3. LcTyped' /\ LcGates' /\ LcDrainedBeforeClose'
  BY <1>1, <1>2 DEF LcIInv, LcTyped, LcGates, ShutdownIsClean, LcDrainedBeforeClose
<1>4. LcListens' /\ LcStopsForGood'
  BY <1>1 DEF Signalled, LcIInv, LcListens, ShutdownIsClean, LcStopsForGood
<1>5. QED
  BY <1>3, <1>4 DEF LcIInv, ShutdownIsClean

(* A shutdown waits for the batches chained so far. *)
LEMMA WaitForDrainKeeps ==
  ASSUME LcIInv, NEW s \in Signals, WaitForDrain(s)
  PROVE  LcIInv'
<1>1. LcTyped
  BY DEF LcIInv
<1>2. /\ shutdowns' = [shutdowns EXCEPT ![s] = "draining"]
      /\ drained' = [drained EXCEPT ![s] = ActiveBatch]
      /\ known' = [known EXCEPT ![s] = chained]
      /\ UNCHANGED <<boot, accepting, lcRunning, pollTimer, chained, ended, lcTimedOut>>
  BY DEF WaitForDrain
<1>3. ActiveBatch \in Nat /\ (ActiveBatch = chained \/ ended >= chained)
  BY <1>1 DEF ActiveBatch, LcTyped
<1>4. LcTyped'
  BY <1>1, <1>2, <1>3 DEF LcTyped
<1>5. LcGates'
  BY <1>1, <1>2, <1>3 DEF LcIInv, LcTyped, LcGates
<1>6. LcDrainedBeforeClose'
  BY <1>1, <1>2 DEF LcIInv, LcTyped, ShutdownIsClean, LcDrainedBeforeClose
<1>7. QED
  BY <1>2, <1>4, <1>5, <1>6 DEF LcIInv, LcListens, ShutdownIsClean, LcStopsForGood

(* The wait ends with the chain drained or the timer gone off. *)
LEMMA DrainKeeps ==
  ASSUME LcIInv, NEW s \in Signals, DrainOrTimeout(s)
  PROVE  LcIInv'
<1>1. LcTyped
  BY DEF LcIInv
<1>2. /\ shutdowns[s] = "draining"
      /\ shutdowns' = [shutdowns EXCEPT ![s] = "redis"]
      /\ lcTimedOut' = IF ended < drained[s] THEN lcTimedOut \cup {s} ELSE lcTimedOut
      /\ UNCHANGED <<boot, accepting, lcRunning, pollTimer, chained, ended, drained, known>>
  BY DEF DrainOrTimeout
<1>3. LcTyped'
  BY <1>1, <1>2 DEF LcTyped
<1>4. LcGates'
  BY <1>1, <1>2 DEF LcIInv, LcTyped, LcGates
<1>5. s \notin lcTimedOut' => ended >= known[s]
  BY <1>1, <1>2 DEF LcIInv, LcGates, LcTyped
<1>6. LcDrainedBeforeClose'
  BY <1>1, <1>2, <1>5 DEF LcIInv, LcTyped, ShutdownIsClean, LcDrainedBeforeClose
<1>7. QED
  BY <1>2, <1>3, <1>4, <1>6 DEF LcIInv, LcListens, ShutdownIsClean, LcStopsForGood

(* Closing Redis and the database keeps a shutdown among the steps that had to
   wait for the drain. *)
LEMMA CloseKeeps ==
  ASSUME LcIInv, NEW s \in Signals, DisconnectRedis(s) \/ Exit(s)
  PROVE  LcIInv'
<1>1. UNCHANGED <<boot, accepting, lcRunning, pollTimer, chained, ended, drained, known, lcTimedOut>>
  BY DEF DisconnectRedis, Exit
<1>2. \/ shutdowns' = shutdowns
      \/ /\ shutdowns[s] \in {"redis", "database"}
         /\ \E step \in {"database", "done"} : shutdowns' = [shutdowns EXCEPT ![s] = step]
  BY DEF DisconnectRedis, Exit
<1>3. LcTyped'
  BY <1>1, <1>2 DEF LcIInv, LcTyped
<1>4. LcGates' /\ LcDrainedBeforeClose'
  BY <1>1, <1>2 DEF LcIInv, LcTyped, LcGates, ShutdownIsClean, LcDrainedBeforeClose
<1>5. QED
  BY <1>1, <1>3, <1>4 DEF LcIInv, LcListens, ShutdownIsClean, LcStopsForGood

(* Every step of start and shutdown keeps the invariant. *)
LEMMA LcNextKeeps ==
  ASSUME LcIInv, [LcNext]_lcVars, LifecycleAssumption
  PROVE  LcIInv'
<1>1. CASE UNCHANGED lcVars
  BY <1>1
  DEF lcVars, LcIInv, LcTyped, LcGates, LcListens, ShutdownIsClean, LcDrainedBeforeClose,
      LcStopsForGood
<1>2. ASSUME NEW s \in Signals,
             Signalled(s) \/ WaitForDrain(s) \/ DrainOrTimeout(s) \/ DisconnectRedis(s) \/ Exit(s)
      PROVE  LcIInv'
  BY <1>2, SignalledKeeps, WaitForDrainKeeps, DrainKeeps, CloseKeeps
<1>3. QED
  BY <1>1, <1>2, LcRunningKeeps DEF LcNext

(* Whatever the number of batches and of signals, and however their shutdowns
   interleave: Redis and the database are closed only when every batch in the
   chain as the wait began has settled or that wait timed out, and no batch that
   ends late arms the timer of the stopped worker again (shutdown, index.ts;
   waitForDrain and scheduleNext, soroban-event-worker.ts). *)
THEOREM ShutdownClean == LcSpec => []ShutdownIsClean
<1>1. LcIInv => ShutdownIsClean
  BY DEF LcIInv
<1>2. QED
  BY <1>1, LifecycleAssumption, LcInitInv, LcNextKeeps, PTL DEF LcSpec

-----------------------------------------------------------------------------
(* Webhooks. *)

WhRow == [event : Events, attempts : 0..MAX_RETRY_ATTEMPTS, delivered : BOOLEAN]

WhStages == {"idle", "read", "posting", "checking", "disabling", "delivered", "failed", "unchecked", "threw"}

WhTask == [at : WhStages, attempt : 0..MAX_RETRY_ATTEMPTS, secretKey : 0..MaxSecrets]

WhTyped ==
  /\ subscription \in [isActive : BOOLEAN, secretKey : 0..MaxSecrets, created : BOOLEAN]
  /\ deliveries \in Seq(WhRow)
  /\ task \in [Events -> WhTask]
  /\ receipts \in [Events -> Nat]
  /\ exhausted \subseteq Events

(* What the rows of an event say at every stage of its delivery: there is none
   before it was written, it is not delivered while attempts are made or after
   the last of them, and delivered once a receiver's answer was recorded. *)
WhRowsSay ==
  \A e \in Events :
    /\ task[e].at \in {"idle", "read"} => Row(e) = {}
    /\ task[e].at \in {"posting", "checking", "disabling", "failed", "unchecked", "delivered"} => Row(e) # {}
    /\ \A i \in Row(e) :
         /\ deliveries[i].delivered = (task[e].at = "delivered")
         /\ task[e].at \in {"checking", "disabling", "failed", "unchecked"} =>
              deliveries[i].attempts = MAX_RETRY_ATTEMPTS

(* The receiver took what was delivered, once per attempt at most. *)
WhTaken ==
  \A e \in Events :
    /\ task[e].at \in {"idle", "read"} => receipts[e] = 0
    /\ task[e].at \in {"idle", "read", "posting", "threw"} => task[e].attempt < MAX_RETRY_ATTEMPTS
    /\ receipts[e] <= task[e].attempt + (IF task[e].at = "threw" THEN 1 ELSE 0)
    /\ task[e].at = "delivered" => receipts[e] > 0

(* A subscription is about to be disabled only after a full window of failures. *)
WhDisabling ==
  \A e \in Events : task[e].at = "disabling" => exhausted # {} /\ Len(deliveries) >= DisableAfter

WebhookIInv == WhTyped /\ WhRowsSay /\ WhTaken /\ WhDisabling

(* The newest delivered row is one of the rows. *)
LEMMA MaxOfPositions ==
  ASSUME NEW n \in Nat, NEW hits \in SUBSET (1..n), hits # {}
  PROVE  Max(hits) \in hits
<1> DEFINE T == {m \in 0..n : n - m \in hits}
<1>1. T # {}
  <2>1. PICK i \in hits : i \in 1..n
    OBVIOUS
  <2>2. n - i \in 0..n /\ n - (n - i) = i
    BY <2>1
  <2>3. n - i \in T
    BY <2>1, <2>2
  <2> QED BY <2>3
<1>2. PICK x \in T : \A y \in T : x <= y
  <2>1. T \in SUBSET Nat
    OBVIOUS
  <2> QED BY <1>1, <2>1, LeastNat
<1>3. n - x \in hits /\ x \in Nat
  BY <1>2
<1>4. \A j \in hits : n - x >= j
  <2>1. SUFFICES ASSUME NEW j \in hits PROVE n - x >= j
    OBVIOUS
  <2>2. j \in 1..n /\ n - j \in 0..n /\ n - (n - j) = j
    BY <2>1
  <2>3. n - j \in T
    BY <2>1, <2>2
  <2>4. x <= n - j
    BY <1>2, <2>3
  <2> QED BY <1>3, <2>2, <2>4
<1> QED
  BY <1>3, <1>4 DEF Max

(* A count of failures that reaches the limit was taken over that many rows. *)
LEMMA FailuresAreRows ==
  ASSUME WebhookAssumption, WhTyped, ConsecutiveFailures >= DisableAfter
  PROVE  Len(deliveries) >= DisableAfter
<1> DEFINE n == Len(deliveries)
           oldest == IF n > DisableAfter THEN n - DisableAfter + 1 ELSE 1
           hits == {i \in oldest..n : deliveries[i].delivered}
<1>1. n \in Nat /\ DisableAfter \in Nat \ {0}
  BY DEF WebhookAssumption, WhTyped
<1>2. oldest \in Nat /\ oldest >= 1
  BY <1>1
<1>3. hits \in SUBSET (1..n)
  BY <1>1, <1>2
<1> HIDE DEF hits
<1>4. hits # {} => Max(hits) \in 1..n
  BY <1>1, <1>3, MaxOfPositions
<1>5. ConsecutiveFailures = IF hits = {} THEN n - oldest + 1 ELSE n - Max(hits)
  BY DEF ConsecutiveFailures, hits
<1> QED
  BY <1>1, <1>4, <1>5

(* The invariant holds before the subscription exists. *)
LEMMA WebhookInitInv ==
  ASSUME WebhookInit, WebhookAssumption
  PROVE  WebhookIInv
<1> USE DEF WebhookInit, Idle
<1>1. MAX_RETRY_ATTEMPTS \in Nat \ {0} /\ MaxSecrets \in Nat
  BY DEF WebhookAssumption
<1>2. subscription \in [isActive : BOOLEAN, secretKey : 0..MaxSecrets, created : BOOLEAN]
  BY <1>1
<1>3. WhTyped
  BY <1>1, <1>2 DEF WhTyped, WhTask, WhStages
<1> QED
  BY <1>1, <1>3 DEF WebhookIInv, WhRowsSay, WhTaken, WhDisabling, Row

(* Managing the subscription touches no delivery. *)
LEMMA ManageKeeps ==
  ASSUME WebhookIInv, WebhookAssumption,
         UNCHANGED <<deliveries, task, receipts, exhausted>>,
         subscription' \in [isActive : BOOLEAN, secretKey : 0..MaxSecrets, created : BOOLEAN]
  PROVE  WebhookIInv'
  BY DEF WebhookIInv, WhTyped, WhRowsSay, WhTaken, WhDisabling, Row

(* The management calls write a subscription row of its type. *)
LEMMA ManageTyped ==
  ASSUME WebhookIInv, WebhookAssumption, NEW who \in Owners, NEW b \in BOOLEAN,
         \/ CreateWebhook(b) \/ DeleteWebhook(who) \/ RegenerateSecret(who)
         \/ UpdateWebhook(who, b)
  PROVE  /\ UNCHANGED <<deliveries, task, receipts, exhausted>>
         /\ subscription' \in [isActive : BOOLEAN, secretKey : 0..MaxSecrets, created : BOOLEAN]
<1> USE DEF WebhookIInv, WhTyped
<1>1. MaxSecrets \in Nat \ {0}
  BY DEF WebhookAssumption
<1>2. CASE CreateWebhook(b)
  BY <1>1, <1>2 DEF CreateWebhook
<1>3. CASE DeleteWebhook(who)
  <2> DEFINE a == subscription.isActive /\ who # "owner"
  <2>1. a \in BOOLEAN
    BY Zenon
  <2>2. subscription' = [subscription EXCEPT !.isActive = a]
    BY <1>3 DEF DeleteWebhook
  <2> HIDE DEF a
  <2> QED
    BY <1>3, <2>1, <2>2 DEF DeleteWebhook
<1>4. CASE RegenerateSecret(who)
  BY <1>1, <1>4 DEF RegenerateSecret
<1>5. CASE UpdateWebhook(who, b)
  BY <1>5 DEF UpdateWebhook
<1> QED
  BY <1>2, <1>3, <1>4, <1>5

(* A step of one delivery: it is enough to look at the event it is about. *)
LEMMA DeliveryStep ==
  ASSUME WebhookIInv, NEW e \in Events, NEW t \in WhTask,
         task' = [task EXCEPT ![e] = t],
         subscription' \in [isActive : BOOLEAN, secretKey : 0..MaxSecrets, created : BOOLEAN],
         deliveries' \in Seq(WhRow), Len(deliveries') >= Len(deliveries),
         \A f \in Events \ {e} : Row(f)' = Row(f) /\ \A i \in Row(f) : deliveries'[i] = deliveries[i],
         receipts' \in [Events -> Nat], \A f \in Events \ {e} : receipts'[f] = receipts[f],
         exhausted' \in SUBSET Events, exhausted \subseteq exhausted',
         t.at \in {"idle", "read"} => Row(e)' = {},
         t.at \in {"posting", "checking", "disabling", "failed", "unchecked", "delivered"} => Row(e)' # {},
         \A i \in Row(e)' : /\ deliveries'[i].delivered = (t.at = "delivered")
                            /\ t.at \in {"checking", "disabling", "failed", "unchecked"} =>
                                 deliveries'[i].attempts = MAX_RETRY_ATTEMPTS,
         t.at \in {"idle", "read"} => receipts'[e] = 0,
         t.at \in {"idle", "read", "posting", "threw"} => t.attempt < MAX_RETRY_ATTEMPTS,
         receipts'[e] <= t.attempt + (IF t.at = "threw" THEN 1 ELSE 0),
         t.at = "delivered" => receipts'[e] > 0,
         t.at = "disabling" => exhausted' # {} /\ Len(deliveries') >= DisableAfter
  PROVE  WebhookIInv'
<1>1. WhTyped /\ WhRowsSay /\ WhTaken /\ WhDisabling
  BY DEF WebhookIInv
<1>2. task \in [Events -> WhTask] /\ task'[e] = t /\ \A f \in Events \ {e} : task'[f] = task[f]
  BY <1>1 DEF WhTyped
<1>3. WhTyped'
  BY <1>2 DEF WhTyped
<1>4. WhRowsSay'
  <2>1. SUFFICES ASSUME NEW f \in Events
                 PROVE  /\ task'[f].at \in {"idle", "read"} => Row(f)' = {}
                        /\ task'[f].at \in {"posting", "checking", "disabling", "failed", "unchecked", "delivered"} =>
                             Row(f)' # {}
                        /\ \A i \in Row(f)' :
                             /\ deliveries'[i].delivered = (task'[f].at = "delivered")
                             /\ task'[f].at \in {"checking", "disabling", "failed", "unchecked"} =>
                                  deliveries'[i].attempts = MAX_RETRY_ATTEMPTS
    BY DEF WhRowsSay
  <2>2. CASE f = e
    BY <1>2, <2>2
  <2>3. CASE f # e
    <3>1. f \in Events \ {e} /\ task'[f] = task[f]
      BY <1>2, <2>3
    <3>2. Row(f)' = Row(f) /\ \A i \in Row(f) : deliveries'[i] = deliveries[i]
      BY <3>1
    <3> QED BY <1>1, <3>1, <3>2 DEF WhRowsSay
  <2> QED BY <2>2, <2>3
<1>5. WhTaken'
  <2>1. SUFFICES ASSUME NEW f \in Events
                 PROVE  /\ task'[f].at \in {"idle", "read"} => receipts'[f] = 0
                        /\ task'[f].at \in {"idle", "read", "posting", "threw"} =>
                             task'[f].attempt < MAX_RETRY_ATTEMPTS
                        /\ receipts'[f] <= task'[f].attempt + (IF task'[f].at = "threw" THEN 1 ELSE 0)
                        /\ task'[f].at = "delivered" => receipts'[f] > 0
    BY DEF WhTaken
  <2> QED BY <1>1, <1>2 DEF WhTaken
<1>6. WhDisabling'
  <2>1. Len(deliveries) \in Nat /\ Len(deliveries') \in Nat
    BY <1>1 DEF WhTyped
  <2>2. SUFFICES ASSUME NEW f \in Events, task'[f].at = "disabling"
                 PROVE  exhausted' # {} /\ Len(deliveries') >= DisableAfter
    BY DEF WhDisabling
  <2>3. CASE f = e
    BY <1>2, <2>2, <2>3
  <2>4. CASE f # e
    <3>1. exhausted # {} /\ Len(deliveries) >= DisableAfter
      BY <1>1, <1>2, <2>2, <2>4 DEF WhDisabling
    <3> QED BY <2>1, <3>1, WebhookAssumption DEF WebhookAssumption
  <2> QED BY <2>3, <2>4
<1> QED
  BY <1>3, <1>4, <1>5, <1>6 DEF WebhookIInv

(* Dispatching an event that was not dispatched before. *)
LEMMA DispatchKeeps ==
  ASSUME WebhookIInv, NEW e \in Events, Dispatch(e)
  PROVE  WebhookIInv'
<1> DEFINE t == [at |-> "read", attempt |-> 0, secretKey |-> subscription.secretKey]
<1>1. MAX_RETRY_ATTEMPTS \in Nat \ {0}
  BY WebhookAssumption DEF WebhookAssumption
<1>2. WhTyped /\ WhRowsSay /\ WhTaken
  BY DEF WebhookIInv
<1>3. t \in WhTask /\ t.at = "read" /\ t.attempt = 0
  BY <1>1, <1>2 DEF WhTyped, WhTask, WhStages
<1>4. /\ task[e].at = "idle" /\ task' = [task EXCEPT ![e] = t]
      /\ UNCHANGED <<subscription, deliveries, receipts, exhausted>>
  BY DEF Dispatch
<1> HIDE DEF t
<1>5. Row(e)' = {} /\ \A f \in Events : Row(f)' = Row(f)
  BY <1>2, <1>4 DEF WhRowsSay, Row
<1>6. receipts[e] = 0
  BY <1>2, <1>4 DEF WhTaken
<1>7. receipts'[e] <= t.attempt + (IF t.at = "threw" THEN 1 ELSE 0)
  BY <1>3, <1>4, <1>6
<1>8. t.attempt < MAX_RETRY_ATTEMPTS
  BY <1>1, <1>3
<1>9. Len(deliveries') >= Len(deliveries) /\ deliveries' \in Seq(WhRow)
  BY <1>2, <1>4 DEF WhTyped
<1>10. receipts' \in [Events -> Nat] /\ exhausted' \in SUBSET Events /\ exhausted \subseteq exhausted'
       /\ subscription' \in [isActive : BOOLEAN, secretKey : 0..MaxSecrets, created : BOOLEAN]
  BY <1>2, <1>4 DEF WhTyped
<1>11. /\ \A f \in Events \ {e} : Row(f)' = Row(f) /\ \A i \in Row(f) : deliveries'[i] = deliveries[i]
       /\ \A f \in Events \ {e} : receipts'[f] = receipts[f]
       /\ receipts'[e] = 0
  BY <1>4, <1>5, <1>6
<1> QED
  BY <1>3, <1>4, <1>5, <1>7, <1>8, <1>9, <1>10, <1>11, DeliveryStep

(* Writing the delivery row, or giving up for want of it. *)
LEMMA CreateRowKeeps ==
  ASSUME WebhookIInv, NEW e \in Events, NEW dbOk \in BOOLEAN, CreateRow(e, dbOk)
  PROVE  WebhookIInv'
<1> DEFINE t == [task[e] EXCEPT !.at = IF dbOk THEN "posting" ELSE "threw"]
           r == [event |-> e, attempts |-> 0, delivered |-> FALSE]
<1>1. MAX_RETRY_ATTEMPTS \in Nat \ {0}
  BY WebhookAssumption DEF WebhookAssumption
<1>2. WhTyped /\ WhRowsSay /\ WhTaken
  BY DEF WebhookIInv
<1>3. task[e] \in WhTask /\ task[e].attempt \in Nat /\ deliveries \in Seq(WhRow)
  BY <1>2 DEF WhTyped, WhTask
<1>4. t \in WhTask /\ t.attempt = task[e].attempt /\ t.at = IF dbOk THEN "posting" ELSE "threw"
  BY <1>3 DEF WhTask, WhStages
<1>5. /\ task[e].at = "read" /\ UNCHANGED <<subscription, receipts, exhausted>>
      /\ deliveries' = IF dbOk THEN Append(deliveries, r) ELSE deliveries
  BY DEF CreateRow
<1>6. task' = [task EXCEPT ![e] = t]
  BY <1>2 DEF CreateRow, WhTyped, WhTask
<1>7. r \in WhRow /\ r.event = e /\ r.delivered = FALSE
  BY <1>1 DEF WhRow
<1> HIDE DEF t, r
<1>8. Row(e) = {} /\ receipts[e] = 0 /\ t.attempt < MAX_RETRY_ATTEMPTS
  BY <1>2, <1>4, <1>5 DEF WhRowsSay, WhTaken
<1>9. CASE dbOk
  <2>1. deliveries' = Append(deliveries, r)
    BY <1>5, <1>9
  <2>2. /\ deliveries' \in Seq(WhRow) /\ Len(deliveries') = Len(deliveries) + 1
        /\ \A i \in 1..Len(deliveries) : deliveries'[i] = deliveries[i]
        /\ deliveries'[Len(deliveries) + 1] = r
    BY <1>3, <1>7, <2>1
  <2>3. Len(deliveries) \in Nat /\ DOMAIN deliveries = 1..Len(deliveries)
        /\ DOMAIN deliveries' = 1..(Len(deliveries) + 1)
    BY <1>3, <2>2
  <2>4. \A f \in Events \ {e} : Row(f)' = Row(f) /\ \A i \in Row(f) : deliveries'[i] = deliveries[i]
    BY <1>7, <2>2, <2>3 DEF Row
  <2>5. Row(e)' = {Len(deliveries) + 1}
    BY <1>7, <1>8, <2>2, <2>3 DEF Row
  <2>6. t.at = "posting"
    BY <1>4, <1>9
  <2>7. \A i \in Row(e)' : deliveries'[i].delivered = FALSE
    BY <1>7, <2>2, <2>5
  <2>8. \A i \in Row(e)' : deliveries'[i].delivered = (t.at = "delivered")
    BY <2>6, <2>7
  <2>9. /\ receipts'[e] <= t.attempt + (IF t.at = "threw" THEN 1 ELSE 0)
        /\ Len(deliveries') >= Len(deliveries)
    BY <1>3, <1>4, <1>5, <1>8, <2>2, <2>3, <2>6
  <2>10. /\ receipts' \in [Events -> Nat] /\ exhausted' \in SUBSET Events /\ exhausted \subseteq exhausted'
         /\ subscription' \in [isActive : BOOLEAN, secretKey : 0..MaxSecrets, created : BOOLEAN]
         /\ \A f \in Events \ {e} : receipts'[f] = receipts[f]
    BY <1>2, <1>5 DEF WhTyped
  <2> QED
    BY <1>4, <1>6, <1>8, <2>2, <2>4, <2>5, <2>6, <2>8, <2>9, <2>10, DeliveryStep
<1>10. CASE ~dbOk
  <2>1. UNCHANGED deliveries /\ t.at = "threw"
    BY <1>4, <1>5, <1>10
  <2>2. \A f \in Events : Row(f)' = Row(f) /\ \A i \in Row(f) : deliveries'[i] = deliveries[i]
    BY <2>1 DEF Row
  <2>3. /\ receipts' \in [Events -> Nat] /\ exhausted' \in SUBSET Events /\ exhausted \subseteq exhausted'
        /\ subscription' \in [isActive : BOOLEAN, secretKey : 0..MaxSecrets, created : BOOLEAN]
        /\ \A f \in Events \ {e} : receipts'[f] = receipts[f]
        /\ deliveries' \in Seq(WhRow) /\ Len(deliveries') >= Len(deliveries)
    BY <1>2, <1>5, <2>1 DEF WhTyped
  <2>4. receipts'[e] <= t.attempt + (IF t.at = "threw" THEN 1 ELSE 0)
    BY <1>3, <1>4, <1>5, <1>8, <2>1
  <2>5. Row(e)' = {}
    BY <1>8, <2>2
  <2> QED
    BY <1>4, <1>6, <1>8, <2>1, <2>2, <2>3, <2>4, <2>5, DeliveryStep
<1> QED
  BY <1>9, <1>10

(* Updating the rows of an event leaves the others, and the log's length. *)
LEMMA UpdateRowFacts ==
  ASSUME WhTyped, WebhookAssumption, NEW e \in Events, NEW d \in BOOLEAN,
         task[e].attempt < MAX_RETRY_ATTEMPTS, UpdateRow(e, d)
  PROVE  /\ deliveries' \in Seq(WhRow) /\ Len(deliveries') = Len(deliveries)
         /\ \A f \in Events : Row(f)' = Row(f)
         /\ \A f \in Events \ {e} : \A i \in Row(f) : deliveries'[i] = deliveries[i]
         /\ \A i \in Row(e) : /\ deliveries'[i].delivered = d
                              /\ deliveries'[i].attempts = task[e].attempt + 1
<1> DEFINE n == Len(deliveries)
           New(i) == [deliveries[i] EXCEPT !.attempts = task[e].attempt + 1, !.delivered = d]
<1>1. deliveries \in [1..n -> WhRow] /\ n \in Nat /\ DOMAIN deliveries = 1..n
  BY DEF WhTyped
<1>2. task[e].attempt \in Nat /\ task[e].attempt + 1 \in 0..MAX_RETRY_ATTEMPTS
  BY DEF WhTyped, WhTask, WebhookAssumption
<1>3. \A i \in 1..n : /\ New(i) \in WhRow /\ New(i).event = deliveries[i].event
                      /\ New(i).delivered = d /\ New(i).attempts = task[e].attempt + 1
  BY <1>1, <1>2 DEF WhRow
<1>4. deliveries' = [i \in 1..n |-> IF deliveries[i].event # e THEN deliveries[i] ELSE New(i)]
  BY <1>1 DEF UpdateRow
<1> HIDE DEF New
<1>5. deliveries' \in [1..n -> WhRow]
  BY <1>1, <1>3, <1>4
<1>6. deliveries' \in Seq(WhRow) /\ Len(deliveries') = n /\ DOMAIN deliveries' = 1..n
  BY <1>1, <1>5
<1>7. \A i \in 1..n : /\ deliveries'[i].event = deliveries[i].event
                      /\ deliveries[i].event # e => deliveries'[i] = deliveries[i]
                      /\ deliveries[i].event = e => deliveries'[i] = New(i)
  BY <1>3, <1>4
<1> QED
  BY <1>1, <1>3, <1>6, <1>7 DEF Row

(* One attempt, whatever the receiver and the database do. *)
LEMMA AttemptKeeps ==
  ASSUME WebhookIInv, NEW e \in Events, NEW taken \in BOOLEAN, NEW dbOk \in BOOLEAN,
         NEW logOk \in BOOLEAN, NEW answer \in {"2xx", "status", "error"},
         Attempt(e, taken, answer, dbOk, logOk)
  PROVE  WebhookIInv'
<1> DEFINE more == IF taken THEN 1 ELSE 0
           n == task[e].attempt + 1
<1>1. MAX_RETRY_ATTEMPTS \in Nat \ {0}
  BY WebhookAssumption DEF WebhookAssumption
<1>2. WhTyped /\ WhRowsSay /\ WhTaken
  BY DEF WebhookIInv
<1>3. /\ task \in [Events -> WhTask] /\ task[e] \in WhTask /\ task[e].attempt \in Nat
      /\ deliveries \in Seq(WhRow) /\ receipts \in [Events -> Nat]
  BY <1>2 DEF WhTyped, WhTask
<1>4. /\ task[e].at = "posting" /\ (answer = "2xx" => taken)
      /\ receipts' = [receipts EXCEPT ![e] = @ + more] /\ UNCHANGED <<subscription, exhausted>>
  BY DEF Attempt
<1>5. /\ receipts[e] \in Nat /\ receipts[e] <= task[e].attempt
      /\ task[e].attempt < MAX_RETRY_ATTEMPTS /\ n \in Nat /\ n <= MAX_RETRY_ATTEMPTS
      /\ Row(e) # {} /\ \A i \in Row(e) : deliveries[i].delivered = FALSE
  <2>1. receipts[e] \in Nat /\ task[e].attempt < MAX_RETRY_ATTEMPTS /\ Row(e) # {}
    BY <1>2, <1>3, <1>4 DEF WhTaken, WhRowsSay
  <2>2. receipts[e] <= task[e].attempt + 0
    BY <1>2, <1>4 DEF WhTaken
  <2>3. \A i \in Row(e) : deliveries[i].delivered = FALSE
    BY <1>2, <1>4 DEF WhRowsSay
  <2> QED BY <1>1, <1>3, <2>1, <2>2, <2>3
<1>6. n \in 0..MAX_RETRY_ATTEMPTS
  BY <1>1, <1>5
<1>7. more \in {0, 1} /\ (answer = "2xx" => more = 1)
  BY <1>4
<1> HIDE DEF more
<1>8. /\ receipts' \in [Events -> Nat] /\ receipts'[e] = receipts[e] + more
      /\ \A f \in Events \ {e} : receipts'[f] = receipts[f]
      /\ receipts'[e] \in Nat /\ receipts'[e] <= n /\ (answer = "2xx" => receipts'[e] > 0)
  BY <1>3, <1>4, <1>5, <1>7
<1>9. /\ exhausted' \in SUBSET Events /\ exhausted \subseteq exhausted'
      /\ subscription' \in [isActive : BOOLEAN, secretKey : 0..MaxSecrets, created : BOOLEAN]
  BY <1>2, <1>4 DEF WhTyped
<1>10. CASE answer = "2xx" /\ UpdateRow(e, TRUE) /\ AfterDelivery(e)
  <2> DEFINE t == [task[e] EXCEPT !.at = "delivered", !.attempt = n]
  <2>1. t \in WhTask /\ t.at = "delivered" /\ t.attempt = n
    BY <1>3, <1>6 DEF WhTask, WhStages
  <2>2. task' = [task EXCEPT ![e] = t]
    BY <1>3, <1>10 DEF AfterDelivery, WhTask
  <2> HIDE DEF t
  <2>3. /\ deliveries' \in Seq(WhRow) /\ Len(deliveries') = Len(deliveries)
        /\ \A f \in Events : Row(f)' = Row(f)
        /\ \A f \in Events \ {e} : \A i \in Row(f) : deliveries'[i] = deliveries[i]
        /\ \A i \in Row(e) : deliveries'[i].delivered = TRUE
    BY <1>2, <1>5, <1>10, WebhookAssumption, UpdateRowFacts
  <2>4. \A i \in Row(e)' : deliveries'[i].delivered = (t.at = "delivered")
    BY <2>1, <2>3
  <2>5. Len(deliveries') >= Len(deliveries) /\ Row(e)' # {}
    BY <1>3, <1>5, <2>3
  <2>6. receipts'[e] <= t.attempt + (IF t.at = "threw" THEN 1 ELSE 0)
    BY <1>5, <1>8, <2>1
  <2>7. receipts'[e] > 0
    BY <1>8, <1>10
  <2>8. \A f \in Events \ {e} : Row(f)' = Row(f) /\ \A i \in Row(f) : deliveries'[i] = deliveries[i]
    BY <2>3
  <2>9. t.at \notin {"idle", "read", "posting", "checking", "disabling", "failed", "unchecked", "threw"}
    BY <2>1
  <2> QED
    BY <1>8, <1>9, <2>1, <2>2, <2>3, <2>4, <2>5, <2>6, <2>7, <2>8, <2>9, DeliveryStep
<1>11. CASE UpdateRow(e, FALSE) /\ AfterAttempt(e)
  <2> DEFINE stage == IF n = MAX_RETRY_ATTEMPTS THEN "checking" ELSE "posting"
             t == [task[e] EXCEPT !.attempt = n, !.at = stage]
  <2> HIDE DEF n
  <2>1. t \in WhTask /\ t.at = stage /\ t.attempt = n
    BY <1>3, <1>6 DEF WhTask, WhStages
  <2>2. task' = [task EXCEPT ![e] = t]
    BY <1>3, <1>11 DEF AfterAttempt, WhTask, n
  <2> HIDE DEF t
  <2>3. /\ deliveries' \in Seq(WhRow) /\ Len(deliveries') = Len(deliveries)
        /\ \A f \in Events : Row(f)' = Row(f)
        /\ \A f \in Events \ {e} : \A i \in Row(f) : deliveries'[i] = deliveries[i]
        /\ \A i \in Row(e) : deliveries'[i].delivered = FALSE /\ deliveries'[i].attempts = n
    BY <1>2, <1>5, <1>11, WebhookAssumption, UpdateRowFacts DEF n
  <2>4. /\ t.at \in {"checking", "posting"} /\ (t.at = "checking" => n = MAX_RETRY_ATTEMPTS)
        /\ (t.at = "posting" => n < MAX_RETRY_ATTEMPTS)
    BY <1>1, <1>5, <2>1
  <2> HIDE DEF stage
  <2>5. \A i \in Row(e)' : /\ deliveries'[i].delivered = (t.at = "delivered")
                           /\ t.at \in {"checking", "disabling", "failed", "unchecked"} =>
                                deliveries'[i].attempts = MAX_RETRY_ATTEMPTS
    BY <2>3, <2>4
  <2>6. Len(deliveries') >= Len(deliveries) /\ Row(e)' # {}
    BY <1>3, <1>5, <2>3
  <2>7. receipts'[e] <= t.attempt + (IF t.at = "threw" THEN 1 ELSE 0)
    BY <1>5, <1>8, <2>1, <2>4
  <2>8. \A f \in Events \ {e} : Row(f)' = Row(f) /\ \A i \in Row(f) : deliveries'[i] = deliveries[i]
    BY <2>3
  <2>9. /\ t.at \notin {"idle", "read", "disabling", "delivered", "threw"}
        /\ t.at \in {"idle", "read", "posting", "threw"} => t.attempt < MAX_RETRY_ATTEMPTS
    BY <2>1, <2>4
  <2> QED
    BY <1>8, <1>9, <2>1, <2>2, <2>3, <2>5, <2>6, <2>7, <2>8, <2>9, DeliveryStep
<1>12. CASE UNCHANGED deliveries /\ task' = [task EXCEPT ![e].at = "threw"]
  <2> DEFINE t == [task[e] EXCEPT !.at = "threw"]
  <2>1. t \in WhTask /\ t.at = "threw" /\ t.attempt = task[e].attempt
    BY <1>3 DEF WhTask, WhStages
  <2>2. task' = [task EXCEPT ![e] = t]
    BY <1>3, <1>12 DEF WhTask
  <2> HIDE DEF t
  <2>3. \A f \in Events : Row(f)' = Row(f) /\ \A i \in Row(f) : deliveries'[i] = deliveries[i]
    BY <1>12 DEF Row
  <2>4. \A i \in Row(e)' : deliveries'[i].delivered = (t.at = "delivered")
    BY <1>5, <2>1, <2>3
  <2>5. Len(deliveries') >= Len(deliveries) /\ deliveries' \in Seq(WhRow)
    BY <1>3, <1>12
  <2>6. receipts'[e] <= t.attempt + (IF t.at = "threw" THEN 1 ELSE 0)
    BY <1>8, <2>1
  <2>7. /\ t.at \notin {"idle", "read", "posting", "checking", "disabling", "failed", "unchecked", "delivered"}
        /\ t.attempt < MAX_RETRY_ATTEMPTS
    BY <1>5, <2>1
  <2> QED
    BY <1>8, <1>9, <2>1, <2>2, <2>3, <2>4, <2>5, <2>6, <2>7, DeliveryStep
<1>13. RowDelivered(e) = FALSE
  BY <1>5 DEF RowDelivered, Row
<1> QED
  BY <1>10, <1>11, <1>12, <1>13 DEF Attempt

(* The count of failures is read after the last attempt ... *)
LEMMA CheckFailuresKeeps ==
  ASSUME WebhookIInv, NEW e \in Events, NEW dbOk \in BOOLEAN, CheckConsecutiveFailures(e, dbOk)
  PROVE  WebhookIInv'
<1> DEFINE stage == IF ~dbOk THEN "unchecked"
                    ELSE IF ConsecutiveFailures >= DisableAfter THEN "disabling" ELSE "failed"
           t == [task[e] EXCEPT !.at = stage]
<1>1. WhTyped /\ WhRowsSay /\ WhTaken
  BY DEF WebhookIInv
<1>2. task \in [Events -> WhTask] /\ task[e] \in WhTask /\ task[e].attempt \in Nat
  BY <1>1 DEF WhTyped, WhTask
<1>3. /\ task[e].at = "checking" /\ exhausted' = exhausted \cup {e}
      /\ UNCHANGED <<subscription, deliveries, receipts>>
  BY DEF CheckConsecutiveFailures
<1>4. t \in WhTask /\ t.at = stage /\ t.attempt = task[e].attempt
  BY <1>2 DEF WhTask, WhStages
<1>5. task' = [task EXCEPT ![e] = t]
  BY <1>2 DEF CheckConsecutiveFailures, WhTask
<1> HIDE DEF t
<1>6. t.at \in {"disabling", "failed", "unchecked"} /\ (t.at = "disabling" => Len(deliveries) >= DisableAfter)
  BY <1>1, <1>4, WebhookAssumption, FailuresAreRows
<1> HIDE DEF stage
<1>7. \A f \in Events : Row(f)' = Row(f) /\ \A i \in Row(f) : deliveries'[i] = deliveries[i]
  BY <1>3 DEF Row
<1>8. \A i \in Row(e) : /\ deliveries[i].delivered = FALSE
                        /\ deliveries[i].attempts = MAX_RETRY_ATTEMPTS
  BY <1>1, <1>3 DEF WhRowsSay
<1>9. \A i \in Row(e)' : /\ deliveries'[i].delivered = (t.at = "delivered")
                         /\ deliveries'[i].attempts = MAX_RETRY_ATTEMPTS
  BY <1>6, <1>7, <1>8
<1>10. Row(e)' # {}
  BY <1>1, <1>3, <1>7 DEF WhRowsSay
<1>11. receipts'[e] <= t.attempt + (IF t.at = "threw" THEN 1 ELSE 0)
  <2>1. receipts[e] <= task[e].attempt + 0
    BY <1>1, <1>3 DEF WhTaken
  <2> QED BY <1>2, <1>3, <1>4, <1>6, <2>1
<1>12. /\ receipts' \in [Events -> Nat] /\ exhausted' \in SUBSET Events /\ exhausted \subseteq exhausted'
       /\ subscription' \in [isActive : BOOLEAN, secretKey : 0..MaxSecrets, created : BOOLEAN]
       /\ deliveries' \in Seq(WhRow) /\ Len(deliveries') >= Len(deliveries) /\ exhausted' # {}
       /\ Len(deliveries') = Len(deliveries)
  BY <1>1, <1>3 DEF WhTyped
<1>13. t.at \notin {"idle", "read", "posting", "threw", "delivered"}
  BY <1>6
<1>14. \A f \in Events \ {e} : receipts'[f] = receipts[f]
  BY <1>3
<1>15. t.at = "disabling" => exhausted' # {} /\ Len(deliveries') >= DisableAfter
  BY <1>6, <1>12
<1>16. t \in WhTask
  BY <1>4
<1> QED
  BY <1>5, <1>7, <1>9, <1>10, <1>11, <1>12, <1>13, <1>14, <1>15, <1>16, DeliveryStep

(* ... and the subscription disabled in a statement of its own. *)
LEMMA DisableKeeps ==
  ASSUME WebhookIInv, NEW e \in Events, NEW dbOk \in BOOLEAN, Disable(e, dbOk)
  PROVE  WebhookIInv'
<1> DEFINE stage == IF dbOk THEN "failed" ELSE "unchecked"
           t == [task[e] EXCEPT !.at = stage]
<1>1. WhTyped /\ WhRowsSay /\ WhTaken
  BY DEF WebhookIInv
<1>2. task \in [Events -> WhTask] /\ task[e] \in WhTask /\ task[e].attempt \in Nat
  BY <1>1 DEF WhTyped, WhTask
<1>3. /\ task[e].at = "disabling" /\ UNCHANGED <<deliveries, receipts, exhausted>>
      /\ subscription' = [subscription EXCEPT !.isActive = @ /\ ~dbOk]
  BY DEF Disable
<1>4. t \in WhTask /\ t.at \in {"failed", "unchecked"} /\ t.attempt = task[e].attempt
  BY <1>2 DEF WhTask, WhStages
<1>5. task' = [task EXCEPT ![e] = t]
  BY <1>2 DEF Disable, WhTask
<1> HIDE DEF t
<1>6. \A f \in Events : Row(f)' = Row(f) /\ \A i \in Row(f) : deliveries'[i] = deliveries[i]
  BY <1>3 DEF Row
<1>7. \A i \in Row(e) : /\ deliveries[i].delivered = FALSE
                        /\ deliveries[i].attempts = MAX_RETRY_ATTEMPTS
  BY <1>1, <1>3 DEF WhRowsSay
<1>8. \A i \in Row(e)' : /\ deliveries'[i].delivered = (t.at = "delivered")
                         /\ deliveries'[i].attempts = MAX_RETRY_ATTEMPTS
  BY <1>4, <1>6, <1>7
<1>9. Row(e)' # {}
  BY <1>1, <1>3, <1>6 DEF WhRowsSay
<1>10. receipts'[e] <= t.attempt + (IF t.at = "threw" THEN 1 ELSE 0)
  <2>1. receipts[e] <= task[e].attempt + 0
    BY <1>1, <1>3 DEF WhTaken
  <2> QED BY <1>2, <1>3, <1>4, <2>1
<1>11. subscription' \in [isActive : BOOLEAN, secretKey : 0..MaxSecrets, created : BOOLEAN]
  <2>1. subscription \in [isActive : BOOLEAN, secretKey : 0..MaxSecrets, created : BOOLEAN]
    BY <1>1 DEF WhTyped
  <2>2. (subscription.isActive /\ ~dbOk) \in BOOLEAN
    BY <2>1
  <2> QED BY <1>3, <2>1, <2>2
<1>12. /\ receipts' \in [Events -> Nat] /\ exhausted' \in SUBSET Events /\ exhausted \subseteq exhausted'
       /\ deliveries' \in Seq(WhRow) /\ Len(deliveries') >= Len(deliveries)
  BY <1>1, <1>3 DEF WhTyped
<1> QED
  BY <1>3, <1>4, <1>5, <1>6, <1>8, <1>9, <1>10, <1>11, <1>12, DeliveryStep

(* Every step of the webhook service keeps its invariant. *)
LEMMA WebhookNextKeeps ==
  ASSUME WebhookIInv, [WebhookNext]_webhookVars
  PROVE  WebhookIInv'
<1> USE WebhookAssumption
<1>1. CASE UNCHANGED webhookVars
  BY <1>1 DEF webhookVars, WebhookIInv, WhTyped, WhRowsSay, WhTaken, WhDisabling, Row
<1>2. ASSUME NEW https \in BOOLEAN, CreateWebhook(https)
      PROVE  WebhookIInv'
  <2>1. "owner" \in Owners
    BY DEF Owners
  <2> QED BY <1>2, <2>1, ManageTyped, ManageKeeps
<1>3. ASSUME NEW who \in Owners, DeleteWebhook(who) \/ RegenerateSecret(who)
      PROVE  WebhookIInv'
  <2>1. TRUE \in BOOLEAN
    OBVIOUS
  <2> QED BY <1>3, <2>1, ManageTyped, ManageKeeps
<1>4. ASSUME NEW who \in Owners, NEW active \in BOOLEAN, UpdateWebhook(who, active)
      PROVE  WebhookIInv'
  BY <1>4, ManageTyped, ManageKeeps
<1>5. ASSUME NEW e \in Events, Dispatch(e) \/ Progress(e)
      PROVE  WebhookIInv'
  BY <1>5, DispatchKeeps, CreateRowKeeps, AttemptKeeps, CheckFailuresKeeps, DisableKeeps DEF Progress
<1> QED
  BY <1>1, <1>2, <1>3, <1>4, <1>5 DEF WebhookNext

(* A row that was delivered is not written again: its delivery is over. *)
LEMMA DeliveredRowsStay ==
  ASSUME WebhookIInv, [WebhookNext]_webhookVars
  PROVE  WebhookDeliveredForGood
<1>1. SUFFICES ASSUME NEW i \in DOMAIN deliveries, deliveries[i].delivered
               PROVE  deliveries'[i] = deliveries[i] /\ receipts[deliveries[i].event] > 0
  BY DEF WebhookDeliveredForGood
<1> DEFINE f == deliveries[i].event
<1>2. /\ deliveries \in Seq(WhRow) /\ DOMAIN deliveries = 1..Len(deliveries) /\ Len(deliveries) \in Nat
      /\ f \in Events /\ i \in Row(f)
  <2>1. deliveries \in Seq(WhRow) /\ deliveries[i] \in WhRow
    BY <1>1 DEF WebhookIInv, WhTyped
  <2> QED BY <1>1, <2>1 DEF WhRow, Row
<1>3. task[f].at = "delivered"
  BY <1>1, <1>2 DEF WebhookIInv, WhRowsSay
<1>4. receipts[f] > 0
  BY <1>2, <1>3 DEF WebhookIInv, WhTaken
<1>5. CASE UNCHANGED deliveries
  BY <1>4, <1>5
<1>6. ASSUME NEW e \in Events, NEW d, UpdateRow(e, d), task[e].at = "posting"
      PROVE  deliveries'[i] = deliveries[i]
  <2>1. e # f
    BY <1>3, <1>6
  <2> QED BY <1>1, <1>6, <2>1 DEF UpdateRow
<1>7. ASSUME NEW e \in Events, NEW dbOk \in BOOLEAN, CreateRow(e, dbOk)
      PROVE  deliveries'[i] = deliveries[i]
  BY <1>1, <1>2, <1>7 DEF CreateRow
<1>8. ASSUME NEW e \in Events, NEW taken \in BOOLEAN, NEW dbOk \in BOOLEAN, NEW logOk \in BOOLEAN,
             NEW answer \in {"2xx", "status", "error"}, Attempt(e, taken, answer, dbOk, logOk)
      PROVE  deliveries'[i] = deliveries[i]
  BY <1>6, <1>8 DEF Attempt
<1> QED
  BY <1>4, <1>5, <1>7, <1>8
  DEF WebhookNext, webhookVars, Progress, CreateWebhook, DeleteWebhook, RegenerateSecret, UpdateWebhook,
      Dispatch, CheckConsecutiveFailures, Disable

(* A delivery that turns the subscription off had counted enough failures. *)
LEMMA OnlyFailuresDisable ==
  ASSUME WebhookIInv, [WebhookNext]_webhookVars
  PROVE  WebhookDisabledByFailure
<1>1. SUFFICES ASSUME subscription # subscription', task' # task
               PROVE  exhausted # {} /\ Len(deliveries) >= DisableAfter
  BY DEF WebhookDisabledByFailure
<1>2. PICK e \in Events, dbOk \in BOOLEAN : Disable(e, dbOk)
  BY <1>1
  DEF WebhookNext, webhookVars, Progress, CreateWebhook, DeleteWebhook, RegenerateSecret, UpdateWebhook,
      Dispatch, CreateRow, Attempt, CheckConsecutiveFailures
<1> QED
  BY <1>2 DEF Disable, WebhookIInv, WhDisabling

(* What the webhook service records is true: a step leaves every report in
   agreement with its row, takes no delivery back, and turns the subscription off
   only for a full window of failures or for its owner (deliverWebhook and
   checkConsecutiveFailures, webhook.service.ts). *)
THEOREM WebhooksAreHonest == WebhookSpec => WebhookHonest
<1>1. WebhookInit => WebhookIInv
  BY WebhookInitInv, WebhookAssumption
<1>2. WebhookIInv /\ [WebhookNext]_webhookVars => WebhookIInv'
  BY WebhookNextKeeps
<1>3. WebhookIInv /\ [WebhookNext]_webhookVars =>
        [WebhookReportMatchesRow' /\ WebhookDeliveredForGood /\ WebhookDisabledByFailure]_webhookVars
  <2>1. SUFFICES ASSUME WebhookIInv, [WebhookNext]_webhookVars
                 PROVE  WebhookReportMatchesRow' /\ WebhookDeliveredForGood /\ WebhookDisabledByFailure
    OBVIOUS
  <2>2. WebhookIInv'
    BY <2>1, WebhookNextKeeps
  <2>3. WebhookReportMatchesRow'
    BY <2>2 DEF WebhookIInv, WhRowsSay, WebhookReportMatchesRow
  <2> QED BY <2>1, <2>3, DeliveredRowsStay, OnlyFailuresDisable
<1> QED
  BY <1>1, <1>2, <1>3, PTL DEF WebhookSpec, WebhookHonest

(* What the invariant says of the rows and tasks gives them their types. *)
LEMMA WebhookStateTyped ==
  ASSUME WebhookIInv
  PROVE  WebhookTypeOK
<1>1. ASSUME NEW e \in Events PROVE receipts[e] \in 0..MAX_RETRY_ATTEMPTS
  <2>1. /\ receipts[e] \in Nat /\ task[e].attempt \in 0..MAX_RETRY_ATTEMPTS
        /\ MAX_RETRY_ATTEMPTS \in Nat
    BY WebhookAssumption DEF WebhookIInv, WhTyped, WhTask, WebhookAssumption
  <2>2. receipts[e] <= task[e].attempt + (IF task[e].at = "threw" THEN 1 ELSE 0)
        /\ (task[e].at = "threw" => task[e].attempt < MAX_RETRY_ATTEMPTS)
    BY DEF WebhookIInv, WhTaken
  <2> QED BY <2>1, <2>2
<1>2. receipts \in [Events -> 0..MAX_RETRY_ATTEMPTS]
  BY <1>1 DEF WebhookIInv, WhTyped
<1>3. \A i \in DOMAIN deliveries : deliveries[i] \in WhRow
  BY DEF WebhookIInv, WhTyped
<1>4. /\ subscription \in [isActive : BOOLEAN, secretKey : 0..MaxSecrets, created : BOOLEAN]
      /\ task \in [Events -> WhTask] /\ exhausted \subseteq Events
  BY DEF WebhookIInv, WhTyped
<1> QED
  BY <1>2, <1>3, <1>4 DEF WhTask, WhStages, WhRow, WebhookTypeOK

(* The rows and tasks of the webhook service keep their types, the attempts and
   receipts their bounds. *)
THEOREM WebhooksTyped == WebhookSpec => []WebhookTypeOK
<1>1. WebhookInit => WebhookIInv
  BY WebhookInitInv, WebhookAssumption
<1>2. WebhookIInv /\ [WebhookNext]_webhookVars => WebhookIInv'
  BY WebhookNextKeeps
<1> QED
  BY <1>1, <1>2, WebhookStateTyped, PTL DEF WebhookSpec

-----------------------------------------------------------------------------
(* The types of the services together. *)

RunwayRow == [at : {"sleep", "next", "sending", "recording"}, todo : SUBSET RunwayStreams,
              rows : [RunwayStreams -> 0..MaxRunway],
              stream : RunwayStreams \cup {Sleeping.stream}]

(* What a check under way holds, and the ages of the alerts, within their bounds. *)
RunwayBounded ==
  /\ runway \in [RunwayStreams -> 0..MaxRunway] /\ live \in [RunwayStreams -> BOOLEAN]
  /\ check \in [Checks -> RunwayRow]
  /\ alertHistory \in [Alerts -> 0..Never] /\ lastSent \in [Alerts -> 0..Never]
  /\ everRecorded \subseteq Alerts /\ everSent \subseteq Alerts

RunwayFlags == disturbed \in BOOLEAN /\ repeated \in BOOLEAN /\ runwayTroubles \in 0..MaxRunwayTroubles

(* A check asleep is a check. *)
LEMMA SleepingIsRow == Sleeping \in RunwayRow /\ Never \in Nat /\ MaxRunway \in Nat
  BY RunwayAssumption DEF RunwayAssumption, Sleeping, RunwayRow, Never

(* Leaving a stream leaves a check. *)
LEMMA LeaveTyped ==
  ASSUME check \in [Checks -> RunwayRow], NEW k \in Checks, NEW s \in RunwayStreams, Leave(k, s)
  PROVE  check' \in [Checks -> RunwayRow]
<1> DEFINE r == IF check[k].todo \ {s} = {} THEN Sleeping
                ELSE [at |-> "next", todo |-> check[k].todo \ {s}, stream |-> Sleeping.stream,
                      rows |-> [check[k].rows EXCEPT ![s] = 0]]
<1>1. check[k] \in RunwayRow
  OBVIOUS
<1>2. [check[k].rows EXCEPT ![s] = 0] \in [RunwayStreams -> 0..MaxRunway]
  BY <1>1, SleepingIsRow DEF RunwayRow
<1>3. r \in RunwayRow
  BY <1>1, <1>2, SleepingIsRow DEF RunwayRow
<1>4. check' = [check EXCEPT ![k] = r]
  BY DEF Leave
<1> HIDE DEF r
<1> QED BY <1>3, <1>4

(* Every step of the runway worker keeps its types. *)
LEMMA RunwayBoundedKept ==
  ASSUME RunwayBounded, RunwayIInv, [RunwayNext]_runwayVars
  PROVE  RunwayBounded'
<1> USE SleepingIsRow
<1>1. CASE UNCHANGED runwayVars
  BY <1>1 DEF runwayVars, RunwayBounded
<1>2. ASSUME NEW s \in RunwayStreams, TopUpRunway(s) \/ FlipLive(s)
      PROVE  RunwayBounded'
  <2>1. CASE TopUpRunway(s)
    BY <2>1 DEF RunwayBounded, TopUpRunway
  <2>2. CASE FlipLive(s)
    <3> DEFINE flipped == ~live[s]
    <3>1. flipped \in BOOLEAN
      BY Zenon
    <3>2. live' = [live EXCEPT ![s] = flipped]
      BY <2>2 DEF FlipLive
    <3> HIDE DEF flipped
    <3> QED BY <2>2, <3>1, <3>2 DEF RunwayBounded, FlipLive
  <2> QED BY <1>2, <2>1, <2>2
<1>3. ASSUME NEW k \in Checks, StartCheck(k)
      PROVE  RunwayBounded'
  <2> DEFINE r == [at |-> "next", todo |-> {s \in RunwayStreams : live[s]},
                   rows |-> [s \in RunwayStreams |->
                               IF s \in {t \in RunwayStreams : live[t]} THEN runway[s] ELSE 0],
                   stream |-> Sleeping.stream]
  <2>1. check' = [check EXCEPT ![k] = r]
    BY <1>3 DEF StartCheck
  <2>2. r \in RunwayRow
    BY DEF RunwayRow, RunwayBounded
  <2> HIDE DEF r
  <2> QED BY <1>3, <2>1, <2>2 DEF RunwayBounded, StartCheck
<1>4. ASSUME NEW k \in Checks, NEW s \in RunwayStreams, NEW ok \in BOOLEAN, LookUp(k, s, ok)
      PROVE  RunwayBounded'
  <2>1. UNCHANGED <<runway, live, alertHistory, lastSent, everRecorded, everSent>>
    BY <1>4 DEF LookUp
  <2>2. check' \in [Checks -> RunwayRow]
    <3>1. CASE Leave(k, s)
      BY <3>1, LeaveTyped DEF RunwayBounded
    <3>2. CASE check' = [check EXCEPT ![k].at = "sending", ![k].stream = s]
      BY <3>2 DEF RunwayBounded, RunwayRow
    <3> QED BY <1>4, <3>1, <3>2 DEF LookUp
  <2> QED BY <2>1, <2>2 DEF RunwayBounded
<1>5. ASSUME NEW k \in Checks, check[k].at \in {"sending", "recording"}
      PROVE  Due(k) \in Alerts /\ check[k].stream \in RunwayStreams
  <2>1. Due(k) \in Alerts
    BY <1>5 DEF RunwayIInv, RunwayUnderWay
  <2> QED BY <2>1 DEF Alerts, Due
<1>6. ASSUME NEW k \in Checks, SendLowBalanceAlert(k)
      PROVE  RunwayBounded'
  <2>1. Due(k) \in Alerts
    BY <1>5, <1>6 DEF SendLowBalanceAlert
  <2>2. check' \in [Checks -> RunwayRow]
    BY <1>6 DEF SendLowBalanceAlert, RunwayBounded, RunwayRow
  <2>3. lastSent' \in [Alerts -> 0..Never]
    BY <1>6, <2>1 DEF SendLowBalanceAlert, RunwayBounded
  <2> QED BY <1>6, <2>1, <2>2, <2>3 DEF SendLowBalanceAlert, RunwayBounded
<1>7. ASSUME NEW k \in Checks, NEW ok \in BOOLEAN, RecordAlert(k, ok)
      PROVE  RunwayBounded'
  <2>1. Due(k) \in Alerts /\ check[k].stream \in RunwayStreams
    BY <1>5, <1>7 DEF RecordAlert
  <2>2. check' \in [Checks -> RunwayRow]
    BY <1>7, <2>1, LeaveTyped DEF RecordAlert, RunwayBounded
  <2>3. alertHistory' \in [Alerts -> 0..Never] /\ everRecorded' \subseteq Alerts
    BY <1>7, <2>1 DEF RecordAlert, RunwayBounded
  <2> QED BY <1>7, <2>2, <2>3 DEF RecordAlert, RunwayBounded
<1>8. CASE Restart
  BY <1>8 DEF Restart, RunwayBounded
<1>9. CASE HalfDay
  <2>1. alertHistory' \in [Alerts -> 0..Never] /\ lastSent' \in [Alerts -> 0..Never]
    BY <1>9 DEF HalfDay, RunwayBounded
  <2>2. runway' \in [RunwayStreams -> 0..MaxRunway]
    BY <1>9 DEF HalfDay, RunwayBounded
  <2> QED BY <1>9, <2>1, <2>2 DEF HalfDay, RunwayBounded
<1> QED
  BY <1>1, <1>2, <1>3, <1>4, <1>6, <1>7, <1>8, <1>9 DEF RunwayNext, CheckProgress

(* The troubles stay within their bound. *)
LEMMA RunwayFlagsKept ==
  ASSUME RunwayFlags, RunwayIInv', [RunwayNext]_runwayVars
  PROVE  RunwayFlags'
<1>1. disturbed' \in BOOLEAN /\ repeated' \in BOOLEAN
  BY DEF RunwayIInv, RunwayTyped
<1>2. MaxRunwayTroubles \in Nat
  BY RunwayAssumption DEF RunwayAssumption
<1>3. \/ UNCHANGED runwayTroubles
      \/ runwayTroubles < MaxRunwayTroubles /\ runwayTroubles' = runwayTroubles + 1
  BY DEF RunwayNext, runwayVars, CheckProgress, StartCheck, LookUp, SendLowBalanceAlert, RecordAlert,
         TopUpRunway, FlipLive, Restart, HalfDay
<1>4. runwayTroubles' \in 0..MaxRunwayTroubles
  BY <1>2, <1>3 DEF RunwayFlags
<1> QED BY <1>1, <1>4 DEF RunwayFlags

(* What the process's state may be, apart from the shutdowns and their gates. *)
LcBounded ==
  /\ boot \in {"connecting", "redis", "listening", "polling", "up"}
  /\ exitCode \in {NoExit, "0", "1", "signal"}
  /\ lcTimedOut \subseteq Signals
  /\ chained \in 0..MaxLcBatches /\ scheduledBatch \in 0..MaxLcBatches
  /\ drained \in [Signals -> 0..MaxLcBatches] /\ known \in [Signals -> 0..MaxLcBatches]

LcFlags == /\ redis \in BOOLEAN /\ database \in BOOLEAN /\ accepting \in BOOLEAN
           /\ lcRunning \in BOOLEAN /\ pollTimer \in BOOLEAN /\ runwayTimer \in BOOLEAN

(* The batches stay within their bound and the stages within theirs. *)
LEMMA LcBoundedKept ==
  ASSUME LcBounded, LcTyped, [LcNext]_lcVars
  PROVE  LcBounded'
<1>1. MaxLcBatches \in Nat /\ chained \in Nat /\ ended \in Nat /\ ended <= chained
  BY LifecycleAssumption DEF LifecycleAssumption, LcTyped
<1>2. CASE UNCHANGED lcVars
  BY <1>2 DEF lcVars, LcBounded
<1>3. CASE ConnectDatabase \/ ConnectRedis \/ FirstPollDone
  BY <1>3 DEF ConnectDatabase, ConnectRedis, FirstPollDone, LcBounded, Alive, NoExit
<1>4. CASE StartWorkers \/ PollTimerFires \/ TriggerPoll
  BY <1>1, <1>4 DEF StartWorkers, PollTimerFires, TriggerPoll, JoinsChain, LcBounded
<1>5. CASE BatchEnds
  BY <1>1, <1>5 DEF BatchEnds, LcBounded
<1>6. ASSUME NEW s \in Signals, WaitForDrain(s)
      PROVE  LcBounded'
  BY <1>1, <1>6 DEF WaitForDrain, ActiveBatch, LcBounded
<1>7. ASSUME NEW s \in Signals, Signalled(s) \/ DrainOrTimeout(s) \/ DisconnectRedis(s) \/ Exit(s)
      PROVE  LcBounded'
  BY <1>7 DEF Signalled, DrainOrTimeout, DisconnectRedis, Exit, LcBounded, Alive, NoExit
<1> QED
  BY <1>2, <1>3, <1>4, <1>5, <1>6, <1>7 DEF LcNext

(* The flags of the process are flags. *)
LEMMA LcFlagsKept ==
  ASSUME LcFlags, [LcNext]_lcVars
  PROVE  LcFlags'
<1>1. CASE UNCHANGED lcVars
  BY <1>1, Zenon DEF lcVars, LcFlags
<1>2. CASE ConnectDatabase \/ ConnectRedis \/ FirstPollDone
  BY <1>2, Zenon DEF ConnectDatabase, ConnectRedis, FirstPollDone, LcFlags
<1>3. CASE StartWorkers \/ PollTimerFires \/ TriggerPoll
  BY <1>3, Zenon DEF StartWorkers, PollTimerFires, TriggerPoll, LcFlags
<1>4. CASE BatchEnds
  BY <1>4, Zenon DEF BatchEnds, ScheduleNext, LcFlags
<1>5. ASSUME NEW s \in Signals,
             Signalled(s) \/ WaitForDrain(s) \/ DrainOrTimeout(s) \/ DisconnectRedis(s) \/ Exit(s)
      PROVE  LcFlags'
  BY <1>5, Zenon DEF Signalled, WaitForDrain, DrainOrTimeout, DisconnectRedis, Exit, LcFlags
<1> QED
  BY <1>1, <1>2, <1>3, <1>4, <1>5, Zenon DEF LcNext

ServicesVars == <<focus, rpcVars, webhookVars, runwayVars, lcVars>>

(* Of the services composed each takes a step of its own or none. *)
LEMMA EachServiceSteps ==
  ASSUME [ServicesNext]_ServicesVars
  PROVE  /\ [RpcNext]_rpcVars /\ [WebhookNext]_webhookVars
         /\ [RunwayNext]_runwayVars /\ [LcNext]_lcVars
<1>1. CASE UNCHANGED ServicesVars
  BY <1>1 DEF ServicesVars
<1>2. CASE ServicesNext
  BY <1>2 DEF ServicesNext
<1> QED BY <1>1, <1>2

(* Whatever the services do, for any number of endpoints, calls, events, streams,
   checks, batches and signals, each keeps the types its code gives its state:
   failure counts stop at the threshold, attempts at the last retry, batches that
   ended are among those chained, a check reads rows of streams there are. *)
THEOREM ServicesTypes == ServicesSpec => []ServicesTypeOK
<1> DEFINE Types == RunwayBounded /\ RunwayFlags /\ LcBounded /\ LcFlags
           Inv == RpcIInv /\ WebhookIInv /\ RunwayIInv /\ LcIInv /\ Types
<1>1. ServicesInit => Inv
  <2> SUFFICES ASSUME ServicesInit PROVE Inv
    OBVIOUS
  <2>1. RpcInit /\ WebhookInit /\ RunwayInit /\ LcInit
    BY DEF ServicesInit
  <2>2. RpcIInv /\ WebhookIInv /\ RunwayIInv /\ LcIInv
    BY <2>1, RpcInitInv, WebhookInitInv, RunwayInitInv, LcInitInv, WebhookAssumption, RunwayAssumption
  <2>3. RunwayBounded
    BY <2>1, SleepingIsRow DEF RunwayInit, RunwayBounded
  <2>4. RunwayFlags
    <3>1. disturbed \in BOOLEAN /\ repeated \in BOOLEAN
      BY <2>1, Zenon DEF RunwayInit
    <3> QED BY <2>1, <3>1, RunwayAssumption DEF RunwayInit, RunwayFlags, RunwayAssumption
  <2>5. LcBounded
    BY <2>1, LifecycleAssumption DEF LcInit, LcBounded, LifecycleAssumption
  <2>6. LcFlags
    BY <2>1, Zenon DEF LcInit, LcFlags
  <2> QED BY <2>2, <2>3, <2>4, <2>5, <2>6
<1>2. Inv /\ [ServicesNext]_ServicesVars => Inv'
  <2> SUFFICES ASSUME Inv, [ServicesNext]_ServicesVars PROVE Inv'
    OBVIOUS
  <2>1. /\ [RpcNext]_rpcVars /\ [WebhookNext]_webhookVars
        /\ [RunwayNext]_runwayVars /\ [LcNext]_lcVars
    BY EachServiceSteps
  <2>2. RpcIInv'
    BY <2>1, RpcNextKeeps
  <2>3. WebhookIInv'
    BY <2>1, WebhookNextKeeps
  <2>4. RunwayIInv'
    BY <2>1, RunwayNextKeeps, RunwayAssumption
  <2>5. LcIInv'
    BY <2>1, LcNextKeeps, LifecycleAssumption
  <2>6. RunwayBounded' /\ RunwayFlags'
    BY <2>1, <2>4, RunwayBoundedKept, RunwayFlagsKept
  <2>7. LcBounded' /\ LcFlags'
    <3>1. LcTyped
      BY DEF LcIInv
    <3> QED BY <2>1, <3>1, LcBoundedKept, LcFlagsKept
  <2> QED BY <2>2, <2>3, <2>4, <2>5, <2>6, <2>7
<1>3. Inv => ServicesTypeOK
  <2> SUFFICES ASSUME Inv PROVE ServicesTypeOK
    OBVIOUS
  <2>1. RpcTypeOK
    <3>1. RpcTyped /\ RpcCallInv
      BY DEF RpcIInv
    <3>2. ASSUME NEW k \in Calls
          PROVE  /\ call[k].result \in {"none", "trying", "ok", "failed"}
                 /\ call[k].tried \subseteq call[k].offered
                 /\ call[k].offered \subseteq Endpoints
      BY <3>1 DEF RpcTyped, RpcCallInv, RpcCall
    <3> QED BY <3>1, <3>2 DEF RpcTyped, RpcTypeOK
  <2>2. WebhookTypeOK
    BY WebhookStateTyped
  <2>3. RunwayTypeOK
    BY DEF RunwayBounded, RunwayFlags, RunwayRow, RunwayTypeOK
  <2>4. LcTypeOK
    <3>1. {redis, database, accepting, lcRunning, pollTimer, runwayTimer} \subseteq BOOLEAN
      BY Zenon DEF LcFlags
    <3>2. ended \in 0..chained
          /\ shutdowns \in [Signals -> {"none", "importing", "draining", "redis", "database", "done"}]
      BY DEF LcIInv, LcTyped
    <3> QED BY <3>1, <3>2 DEF LcBounded, LcTypeOK
  <2> QED BY <2>1, <2>2, <2>3, <2>4 DEF ServicesTypeOK
<1> HIDE DEF Inv
<1> QED
  BY <1>1, <1>2, <1>3, PTL DEF ServicesSpec, ServicesVars
=============================================================================
