------------------------------- MODULE RpcPool -------------------------------
(***************************************************************************)
(* The pool of Soroban RPC endpoints (lib/rpc-pool.ts): each endpoint has a *)
(* circuit that opens after FailureThreshold failures and may be tried      *)
(* again after Cooldown; calls fail over along a list made when they start, *)
(* and every ProbeEvery ticks all endpoints are probed, open or not.        *)
(***************************************************************************)
EXTENDS Naturals, Sequences, FiniteSets

CONSTANTS
  Endpoints,
  Calls,              \* concurrent executions of `execute`
  FailureThreshold,
  Cooldown, ProbeEvery, TimeoutTicks, \* in ticks: 6, 3 and 1 for 60 s, 30 s and 10 s
  NoTime

ASSUME RpcAssumption ==
  /\ {FailureThreshold, Cooldown, ProbeEvery, TimeoutTicks} \subseteq Nat \ {0}
  /\ NoTime \notin Nat
  /\ IsFiniteSet(Endpoints)

(* The default times: a probe is over before the next round, and a round and the
   time-out of its probes together are shorter than the cooldown (10, 30, 60 s). *)
ASSUME RpcTimingAssumption ==
  TimeoutTicks < ProbeEvery /\ ProbeEvery + TimeoutTicks < Cooldown

VARIABLES
  failures, circuit,
  openFor,     \* ticks since openedAt, capped at Cooldown; NoTime when openedAt is null
  up,          \* external: whether the endpoint answers at the moment
  call,        \* per call: the endpoints left to try, tried and offered; where it ran; its result
  probesOn, sinceRound, probing

rpcVars == <<failures, circuit, openFor, up, call, probesOn, sinceRound, probing>>

NotStarted == [result |-> "none", todo |-> <<>>, offered |-> {}, tried |-> {}, ran |-> FALSE]

RpcTypeOK ==
  /\ failures \in [Endpoints -> 0..FailureThreshold]
  /\ circuit \in [Endpoints -> {"CLOSED", "OPEN", "HALF_OPEN"}]
  /\ openFor \in [Endpoints -> (0..Cooldown) \cup {NoTime}]
  /\ up \in [Endpoints -> BOOLEAN]
  /\ \A k \in Calls :
       /\ call[k].result \in {"none", "trying", "ok", "failed"}
       /\ call[k].tried \subseteq call[k].offered
       /\ call[k].offered \subseteq Endpoints
  /\ probesOn \in BOOLEAN /\ sinceRound \in 0..ProbeEvery /\ probing \subseteq Endpoints

(* The constructor, and startHealthProbes at import: the first round is under way. *)
RpcInit ==
  /\ failures = [e \in Endpoints |-> 0]
  /\ circuit = [e \in Endpoints |-> "CLOSED"]
  /\ openFor = [e \in Endpoints |-> NoTime]
  /\ up = [e \in Endpoints |-> TRUE]
  /\ call = [k \in Calls |-> NotStarted]
  /\ probesOn = TRUE
  /\ sinceRound = 0
  /\ probing = Endpoints

(* failures is capped at the threshold: beyond it only the order of the list could
   tell counts apart, and an open endpoint is last in any case. *)
RecordSuccess(e) ==
  /\ failures' = [failures EXCEPT ![e] = 0]
  /\ circuit' = [circuit EXCEPT ![e] = "CLOSED"]
  /\ openFor' = [openFor EXCEPT ![e] = NoTime]

RecordFailure(e) ==
  LET n == IF failures[e] = FailureThreshold THEN FailureThreshold ELSE failures[e] + 1
      trips == n = FailureThreshold
  IN /\ failures' = [failures EXCEPT ![e] = n]
     /\ circuit' = [circuit EXCEPT ![e] = IF trips THEN "OPEN" ELSE @]
     /\ openFor' = [openFor EXCEPT ![e] = IF trips THEN 0 ELSE @]

Cooled(e) == circuit[e] = "OPEN" /\ openFor[e] = Cooldown

AvailableEndpoints == {e \in Endpoints : circuit[e] # "OPEN" \/ Cooled(e)}

(* The orders the sort may return: fewest failures first, then by latency, which
   is left open here. *)
Preferred(S) ==
  {q \in [1..Cardinality(S) -> S] :
     /\ \A i, j \in DOMAIN q : i < j => q[i] # q[j] /\ failures[q[i]] <= failures[q[j]]}

(* execute, up to its first await: cooled circuits become half open. *)
StartCall(k) ==
  /\ call[k].result = "none"
  /\ \E q \in Preferred(AvailableEndpoints) :
       call' = [call EXCEPT ![k] = [result |-> IF q = <<>> THEN "failed" ELSE "trying",
                                    todo |-> q, offered |-> AvailableEndpoints,
                                    tried |-> {}, ran |-> FALSE]]
  /\ circuit' = [e \in Endpoints |-> IF Cooled(e) THEN "HALF_OPEN" ELSE circuit[e]]
  /\ UNCHANGED <<failures, openFor, up, probesOn, sinceRound, probing>>

CallSucceeds(k) ==
  LET e == Head(call[k].todo) IN
  /\ call[k].result = "trying" /\ up[e]
  /\ RecordSuccess(e)
  /\ call' = [call EXCEPT ![k].result = "ok", ![k].ran = TRUE, ![k].tried = @ \cup {e}]
  /\ UNCHANGED <<up, probesOn, sinceRound, probing>>

\* A variant: the first failure is thrown at the caller.
CallFailsAtOnce(k, ran) ==
  LET e == Head(call[k].todo) IN
  /\ call[k].result = "trying"
  /\ RecordFailure(e)
  /\ call' = [call EXCEPT ![k].todo = Tail(@), ![k].tried = @ \cup {e}, ![k].ran = @ \/ ran,
                          ![k].result = "failed"]
  /\ UNCHANGED <<up, probesOn, sinceRound, probing>>

(* A rejection or a time-out: after a time-out the endpoint may have carried the
   operation out all the same. *)
CallFails(k, ran) ==
  LET e == Head(call[k].todo)
      rest == Tail(call[k].todo)
  IN /\ call[k].result = "trying"
     /\ RecordFailure(e)
     /\ call' = [call EXCEPT ![k].todo = rest, ![k].tried = @ \cup {e}, ![k].ran = @ \/ ran,
                             ![k].result = IF rest = <<>> THEN "failed" ELSE "trying"]
     /\ UNCHANGED <<up, probesOn, sinceRound, probing>>

(* The caller has its answer and may call again. *)
Return(k) ==
  /\ call[k].result \in {"ok", "failed"}
  /\ call' = [call EXCEPT ![k] = NotStarted]
  /\ UNCHANGED <<failures, circuit, openFor, up, probesOn, sinceRound, probing>>

ProbeRound ==
  /\ probesOn /\ sinceRound = ProbeEvery
  /\ probing' = Endpoints
  /\ sinceRound' = 0
  /\ UNCHANGED <<failures, circuit, openFor, up, call, probesOn>>

ProbeEnds(e) ==
  /\ e \in probing
  /\ IF up[e] THEN RecordSuccess(e) ELSE RecordFailure(e)
  /\ probing' = probing \ {e}
  /\ UNCHANGED <<up, call, probesOn, sinceRound>>

StopHealthProbes ==
  /\ probesOn
  /\ probesOn' = FALSE
  /\ sinceRound' = 0
  /\ UNCHANGED <<failures, circuit, openFor, up, call, probing>>

(* Time passes: a probe in flight is over within its time-out and a round is
   started when it is due. *)
Tick ==
  /\ probesOn => sinceRound < ProbeEvery
  /\ probing # {} => sinceRound < TimeoutTicks
  /\ sinceRound' = IF probesOn THEN sinceRound + 1
                   ELSE IF probing # {} THEN sinceRound + 1 ELSE 0
  /\ openFor' = [e \in Endpoints |->
       IF openFor[e] \in 0..Cooldown - 1 THEN openFor[e] + 1 ELSE openFor[e]]
  /\ sinceRound' # sinceRound \/ openFor' # openFor
  /\ UNCHANGED <<failures, circuit, up, call, probesOn, probing>>

EndpointFlips(e) ==
  /\ up' = [up EXCEPT ![e] = ~@]
  /\ UNCHANGED <<failures, circuit, openFor, call, probesOn, sinceRound, probing>>

RpcNext ==
  \/ \E k \in Calls : StartCall(k) \/ CallSucceeds(k) \/ Return(k) \/ \E ran \in BOOLEAN : CallFails(k, ran)
  \/ \E e \in Endpoints : ProbeEnds(e) \/ EndpointFlips(e)
  \/ ProbeRound \/ StopHealthProbes \/ Tick

(* Timers fire and probes end, by their answer or by their time-out. *)
RpcFairness ==
  /\ WF_rpcVars(Tick) /\ WF_rpcVars(ProbeRound)
  /\ \A e \in Endpoints : WF_rpcVars(ProbeEnds(e))

RpcSpec == RpcInit /\ [][RpcNext]_rpcVars /\ RpcFairness

-----------------------------------------------------------------------------
(* A circuit is closed exactly while the endpoint is below the threshold, and has
   a time of opening exactly while it is not, however late answers of earlier
   calls and probes interleave (recordSuccess and recordFailure, rpc-pool.ts:105). *)
RpcCircuitConsistent ==
  \A e \in Endpoints :
    /\ circuit[e] = "CLOSED" <=> failures[e] < FailureThreshold
    /\ circuit[e] = "CLOSED" <=> openFor[e] = NoTime

(* While the probes run no circuit is ever half open: a failing probe renews
   openedAt every round, sooner than the cooldown ends, and a passing one closes
   the circuit outright (probeAll, rpc-pool.ts:126). *)
RpcHalfOpenOnlyUnprobed ==
  probesOn => \A e \in Endpoints : circuit[e] # "HALF_OPEN"

(* A call is given up only when every endpoint it was offered failed it, each
   tried once; an answer comes from an endpoint that ran the operation. *)
RpcCallSettles ==
  \A k \in Calls :
    /\ call[k].result = "ok" => call[k].ran
    /\ call[k].result = "failed" => call[k].tried = call[k].offered
    /\ call[k].result = "trying" => {call[k].todo[i] : i \in DOMAIN call[k].todo}
                                    = call[k].offered \ call[k].tried

(* The circuits and the calls that read them agree whatever late answers, probes
   and time-outs do to them in between: see the three parts. *)
RpcSound == RpcCircuitConsistent /\ RpcHalfOpenOnlyUnprobed /\ RpcCallSettles

(* An endpoint that stays up is closed again and again as long as probes run,
   whatever errors callers bring about in between. *)
RpcRecovers ==
  \A e \in Endpoints : <>[](up[e] /\ probesOn) => []<>(circuit[e] = "CLOSED")
=============================================================================
