------------------------- MODULE StreamContractProofs -------------------------
(***************************************************************************)
(* The stream contract, for any number of accounts, tokens and streams, any *)
(* amounts, fees and integer widths: first its solvency, then what an       *)
(* invocation may do to a stream that exists.                              *)
(*                                                                         *)
(* The inductive invariant joins TypeOK, StreamsCoherent and Solvent: a    *)
(* payout stays within what its own stream holds because the record is     *)
(* coherent, so the balance the other streams rely on is untouched.  It is *)
(* stated over an explicit store, fields and token ledger, so that the     *)
(* same lemmas serve single calls and every iteration of batch_withdraw.   *)
(***************************************************************************)
EXTENDS StreamContract, VestingProofs, SequenceTheorems

Balances == [Tokens -> [Holder -> Nat]]

Loaded(st, fl, id) == decode_stream(st[id], fl[id])

Dues(st, fl, token) == [id \in StreamIds |-> Due(Loaded(st, fl, id), token)]

LedgerInv(st, fl, b, t) ==
  /\ st \in [StreamIds -> Stream \cup {NoStream}]
  /\ fl \in [StreamIds -> Nat]
  /\ b \in Balances
  /\ \A id \in StreamIds : Loaded(st, fl, id) # NoStream => Coherent(Loaded(st, fl, id), t)
  /\ \A token \in Tokens : b[token][Contract] >= SumTo(Dues(st, fl, token), MaxStreams)

-----------------------------------------------------------------------------
(* A loaded record is a stream, and its balances are amounts. *)
LEMMA LoadedType ==
  ASSUME NEW st, NEW fl, NEW id \in StreamIds, st \in [StreamIds -> Stream \cup {NoStream}]
  PROVE  Loaded(st, fl, id) \in Stream \cup {NoStream}
<1>1. st[id] \in Stream \cup {NoStream}
  OBVIOUS
<1>2. ASSUME st[id] \in Stream PROVE upgrade_legacy_stream(st[id]) \in Stream
  BY <1>2 DEF upgrade_legacy_stream, Stream, Schedule
<1> QED
  BY <1>1, <1>2 DEF Loaded, decode_stream

(* What is due on a coherent stream is never negative. *)
LEMMA DueNat ==
  ASSUME NEW s \in Stream \cup {NoStream}, NEW t, NEW token,
         s # NoStream => Coherent(s, t)
  PROVE  Due(s, token) \in Nat
<1>1. CASE s = NoStream
  BY <1>1 DEF Due
<1>2. CASE s # NoStream
  <2>1. s \in Stream /\ Coherent(s, t)
    BY <1>2
  <2>2. /\ s.deposited_amount \in Int /\ s.withdrawn_amount \in Int
        /\ s.withdrawn_amount <= s.deposited_amount
    BY <2>1, WidthAssumption DEF Stream, Amount, Coherent
  <2> QED
    BY <1>2, <2>2 DEF Due
<1> QED
  BY <1>1, <1>2

(* A coherent stream is one the vesting arithmetic can work on. *)
LEMMA CoherentVestable ==
  ASSUME NEW s \in Stream, NEW t, Coherent(s, t)
  PROVE  Vestable(s)
<1>1. /\ s.rate_per_second \in Nat /\ s.deposited_amount \in Nat
      /\ s.withdrawn_amount \in Nat /\ s.paused \in BOOLEAN
      /\ s.last_update_time \in Nat /\ s.paused_at \in Int
  BY WidthAssumption DEF Stream, Amount, Time, NONE
<1>2. s.withdrawn_amount <= s.deposited_amount
  BY DEF Coherent
<1>3. s.schedule \in Schedule
  BY DEF Coherent, Stream
<1>4. CASE s.schedule \in [kind : {"HybridCliffLinear"}, cliff_time : Time,
                           cliff_unlock_amount : Amount]
  <2>1. /\ s.schedule.kind = "HybridCliffLinear" /\ s.schedule.cliff_time \in Nat
        /\ s.schedule.cliff_unlock_amount \in Nat
    BY <1>4, WidthAssumption DEF Time, Amount
  <2>2. s.schedule.cliff_unlock_amount <= s.deposited_amount
    BY <1>1, <2>1 DEF Coherent
  <2> QED
    BY <1>1, <1>2, <2>1, <2>2 DEF Vestable
<1>5. CASE s.schedule \in [kind : {"StepTranches"}, steps : Seq(VestingStep)]
  BY <1>1, <1>2, <1>5 DEF Vestable
<1>6. CASE s.schedule = Linear
  BY <1>1, <1>2, <1>6 DEF Vestable, Linear
<1> QED
  BY <1>3, <1>4, <1>5, <1>6 DEF Schedule

(* A claim on a coherent stream is covered by what the stream holds. *)
LEMMA ClaimCovered ==
  ASSUME NEW s \in Stream, NEW t \in Nat, Coherent(s, t)
  PROVE  calculate_claimable(s, t) \in 0..(s.deposited_amount - s.withdrawn_amount)
BY CoherentVestable, ClaimableBounds

(* A funded transfer keeps balances natural; only the two parties' balances *)
(* in the one token move.                                                   *)
LEMMA TransferEffect ==
  ASSUME NEW b \in Balances, NEW token \in Tokens, NEW from \in Holder, NEW to \in Holder,
         NEW amount \in Nat, b[token][from] >= amount
  PROVE  LET c == Transfer(b, token, from, to, amount) IN
         /\ c \in Balances
         /\ \A tok \in Tokens : tok # token => c[tok] = b[tok]
         /\ from = Contract /\ to # Contract =>
              c[token][Contract] = b[token][Contract] - amount
         /\ from # Contract /\ to = Contract =>
              c[token][Contract] = b[token][Contract] + amount
         /\ from = Contract /\ to = Contract => c[token][Contract] = b[token][Contract]
<1> DEFINE one == [b[token] EXCEPT ![from] = @ - amount]
           two == [one EXCEPT ![to] = @ + amount]
<1>1. b[token] \in [Holder -> Nat]
  BY DEF Balances
<1>2. one \in [Holder -> Nat]
  BY <1>1
<1>3. two \in [Holder -> Nat]
  BY <1>2
<1>4. Transfer(b, token, from, to, amount) = [b EXCEPT ![token] = two]
  BY DEF Transfer
<1>5. Transfer(b, token, from, to, amount) \in Balances
  BY <1>3, <1>4 DEF Balances
<1>6. Contract \in Holder
  BY DEF Holder
<1>7. from = Contract /\ to # Contract => two[Contract] = b[token][Contract] - amount
  BY <1>1, <1>6
<1>8. from # Contract /\ to = Contract => two[Contract] = b[token][Contract] + amount
  BY <1>1, <1>6
<1>9. from = Contract /\ to = Contract => two[Contract] = b[token][Contract]
  BY <1>1, <1>6
<1>10. /\ [b EXCEPT ![token] = two][token] = two
       /\ \A tok \in Tokens : tok # token => [b EXCEPT ![token] = two][tok] = b[tok]
  BY DEF Balances
<1> HIDE DEF one, two
<1> QED
  BY <1>4, <1>5, <1>7, <1>8, <1>9, <1>10

(* Saving a coherent record keeps the ledger invariant when the contract's  *)
(* balance moves at least as much as what the stream is due.                *)
LEMMA SaveKeepsLedger ==
  ASSUME NEW st, NEW fl, NEW b, NEW c, NEW t, NEW id \in StreamIds, NEW r \in Stream,
         LedgerInv(st, fl, b, t), Coherent(r, t), c \in Balances,
         \A token \in Tokens : c[token][Contract] - b[token][Contract]
                                 >= Due(r, token) - Due(Loaded(st, fl, id), token)
  PROVE  LedgerInv([st EXCEPT ![id] = r], [fl EXCEPT ![id] = StreamFields], c, t)
<1> DEFINE st2 == [st EXCEPT ![id] = r]
           fl2 == [fl EXCEPT ![id] = StreamFields]
<1>1. /\ st \in [StreamIds -> Stream \cup {NoStream}] /\ fl \in [StreamIds -> Nat]
      /\ b \in Balances
  BY DEF LedgerInv
<1>2. st2 \in [StreamIds -> Stream \cup {NoStream}] /\ fl2 \in [StreamIds -> Nat]
  BY <1>1, FieldAssumption
<1>3. Loaded(st2, fl2, id) \in {r, NoStream}
  <2>1. st2[id] = r /\ fl2[id] = StreamFields
    BY <1>1
  <2>2. StreamFields # LEGACY_STREAM_FIELD_COUNT
    BY FieldAssumption DEF STREAM_FIELD_COUNT, LEGACY_STREAM_FIELD_COUNT
  <2> QED
    BY <2>1, <2>2 DEF Loaded, decode_stream
<1>4. ASSUME NEW i \in StreamIds, i # id PROVE Loaded(st2, fl2, i) = Loaded(st, fl, i)
  <2>1. st2[i] = st[i] /\ fl2[i] = fl[i]
    BY <1>1, <1>4
  <2> QED
    BY <2>1 DEF Loaded
<1>5. \A i \in StreamIds : Loaded(st2, fl2, i) # NoStream => Coherent(Loaded(st2, fl2, i), t)
  BY <1>3, <1>4 DEF LedgerInv
<1> HIDE DEF st2, fl2
<1>6. ASSUME NEW token \in Tokens
      PROVE  c[token][Contract] >= SumTo(Dues(st2, fl2, token), MaxStreams)
  <2>1. ASSUME NEW i \in StreamIds
        PROVE  /\ Due(Loaded(st, fl, i), token) \in Nat
               /\ Due(Loaded(st2, fl2, i), token) \in Nat
    <3>1. Loaded(st, fl, i) \in Stream \cup {NoStream}
          /\ (Loaded(st, fl, i) # NoStream => Coherent(Loaded(st, fl, i), t))
      BY <1>1, LoadedType DEF LedgerInv
    <3>2. Loaded(st2, fl2, i) \in Stream \cup {NoStream}
          /\ (Loaded(st2, fl2, i) # NoStream => Coherent(Loaded(st2, fl2, i), t))
      BY <1>2, <1>5, LoadedType
    <3> QED
      BY <3>1, <3>2, DueNat
  <2>2. Dues(st, fl, token) \in [1..MaxStreams -> Int]
        /\ Dues(st2, fl2, token) \in [1..MaxStreams -> Int]
    BY <2>1 DEF Dues, StreamIds
  <2>3. \A i \in 1..MaxStreams : i # id =>
          Dues(st2, fl2, token)[i] = Dues(st, fl, token)[i]
    BY <1>4 DEF Dues, StreamIds
  <2>4. SumTo(Dues(st2, fl2, token), MaxStreams)
          = SumTo(Dues(st, fl, token), MaxStreams)
            + Dues(st2, fl2, token)[id] - Dues(st, fl, token)[id]
    BY <2>2, <2>3, SumUpdate, BoundAssumption DEF StreamIds
  <2>5. /\ Dues(st2, fl2, token)[id] = Due(Loaded(st2, fl2, id), token)
        /\ Dues(st, fl, token)[id] = Due(Loaded(st, fl, id), token)
    BY DEF Dues
  <2>6. Due(Loaded(st2, fl2, id), token) <= Due(r, token) /\ Due(r, token) \in Nat
    <3>1. Due(r, token) \in Nat
      BY DueNat
    <3>2. Due(NoStream, token) = 0
      BY DEF Due
    <3> QED
      BY <1>3, <3>1, <3>2
  <2>7. b[token][Contract] \in Nat /\ c[token][Contract] \in Nat
    BY <1>1 DEF Balances, Holder
  <2>8. SumTo(Dues(st, fl, token), MaxStreams) \in Nat
    <3>1. Dues(st, fl, token) \in [1..MaxStreams -> Nat]
      BY <2>1 DEF Dues, StreamIds
    <3> QED
      BY <3>1, SumNat, BoundAssumption
  <2>9. b[token][Contract] >= SumTo(Dues(st, fl, token), MaxStreams)
    BY DEF LedgerInv
  <2>10. c[token][Contract] - b[token][Contract]
           >= Due(r, token) - Due(Loaded(st, fl, id), token)
    OBVIOUS
  <2> HIDE DEF LedgerInv
  <2> QED
    BY <2>1, <2>4, <2>5, <2>6, <2>7, <2>8, <2>9, <2>10
<1> QED
  BY <1>2, <1>5, <1>6 DEF LedgerInv, st2, fl2

(* Pruning a record on which nothing is due keeps the ledger invariant. *)
LEMMA RemoveKeepsLedger ==
  ASSUME NEW st, NEW fl, NEW b, NEW t, NEW id \in StreamIds, LedgerInv(st, fl, b, t)
  PROVE  LedgerInv([st EXCEPT ![id] = NoStream], [fl EXCEPT ![id] = 0], b, t)
<1> DEFINE st2 == [st EXCEPT ![id] = NoStream]
           fl2 == [fl EXCEPT ![id] = 0]
<1>1. /\ st \in [StreamIds -> Stream \cup {NoStream}] /\ fl \in [StreamIds -> Nat]
      /\ b \in Balances
  BY DEF LedgerInv
<1>2. st2 \in [StreamIds -> Stream \cup {NoStream}] /\ fl2 \in [StreamIds -> Nat]
  BY <1>1
<1>3. Loaded(st2, fl2, id) = NoStream
  BY <1>1 DEF Loaded, decode_stream
<1>4. ASSUME NEW i \in StreamIds, i # id PROVE Loaded(st2, fl2, i) = Loaded(st, fl, i)
  <2>1. st2[i] = st[i] /\ fl2[i] = fl[i]
    BY <1>1, <1>4
  <2> QED
    BY <2>1 DEF Loaded
<1>5. \A i \in StreamIds : Loaded(st2, fl2, i) # NoStream => Coherent(Loaded(st2, fl2, i), t)
  BY <1>3, <1>4 DEF LedgerInv
<1> HIDE DEF st2, fl2
<1>6. ASSUME NEW token \in Tokens
      PROVE  b[token][Contract] >= SumTo(Dues(st2, fl2, token), MaxStreams)
  <2>1. ASSUME NEW i \in StreamIds PROVE Due(Loaded(st, fl, i), token) \in Nat
    BY <1>1, LoadedType, DueNat DEF LedgerInv
  <2>2. Due(Loaded(st2, fl2, id), token) = 0
    BY <1>3 DEF Due
  <2>3. Dues(st, fl, token) \in [1..MaxStreams -> Nat]
        /\ Dues(st2, fl2, token) \in [1..MaxStreams -> Nat]
    BY <1>4, <2>1, <2>2 DEF Dues, StreamIds
  <2>4. \A i \in 1..MaxStreams : i # id =>
          Dues(st2, fl2, token)[i] = Dues(st, fl, token)[i]
    BY <1>4 DEF Dues, StreamIds
  <2>5. SumTo(Dues(st2, fl2, token), MaxStreams)
          = SumTo(Dues(st, fl, token), MaxStreams)
            + Dues(st2, fl2, token)[id] - Dues(st, fl, token)[id]
    <3> DEFINE f == Dues(st, fl, token)
               h == Dues(st2, fl2, token)
    <3>1. f \in [1..MaxStreams -> Int] /\ h \in [1..MaxStreams -> Int]
      BY <2>3
    <3>2. MaxStreams \in Nat /\ id \in 1..MaxStreams
      BY BoundAssumption DEF StreamIds
    <3>3. \A i \in 1..MaxStreams : i # id => h[i] = f[i]
      BY <2>4
    <3> HIDE DEF f, h
    <3>4. SumTo(h, MaxStreams) = SumTo(f, MaxStreams) + h[id] - f[id]
      BY <3>1, <3>2, <3>3, SumUpdate
    <3> QED BY <3>4 DEF f, h
  <2>6. Dues(st2, fl2, token)[id] = 0 /\ Dues(st, fl, token)[id] \in Nat
    BY <2>1, <2>2 DEF Dues
  <2>7. SumTo(Dues(st, fl, token), MaxStreams) \in Nat
    BY <2>3, SumNat, BoundAssumption
  <2>8. b[token][Contract] \in Nat /\ b[token][Contract] >= SumTo(Dues(st, fl, token), MaxStreams)
    BY <1>1 DEF LedgerInv, Balances, Holder
  <2> QED
    BY <2>5, <2>6, <2>7, <2>8
<1> QED
  BY <1>1, <1>2, <1>5, <1>6 DEF LedgerInv, st2, fl2

(* The ledger invariant survives the passing of time. *)
LEMMA TimeKeepsLedger ==
  ASSUME NEW st, NEW fl, NEW b, NEW t \in Nat, LedgerInv(st, fl, b, t)
  PROVE  LedgerInv(st, fl, b, t + 1)
<1>1. st \in [StreamIds -> Stream \cup {NoStream}]
  BY DEF LedgerInv
<1>2. ASSUME NEW s \in Stream, Coherent(s, t) PROVE Coherent(s, t + 1)
  <2>1. s.last_update_time \in Int /\ s.paused_at \in Int
    BY WidthAssumption DEF Stream, Time, NONE
  <2>2. s.last_update_time <= t /\ (s.paused => s.paused_at <= t)
    BY <1>2 DEF Coherent
  <2>3. s.last_update_time <= t + 1 /\ (s.paused => s.paused_at <= t + 1)
    BY <2>1, <2>2
  <2> QED
    BY <1>2, <2>3 DEF Coherent
<1>3. ASSUME NEW id \in StreamIds, Loaded(st, fl, id) # NoStream
      PROVE  Coherent(Loaded(st, fl, id), t + 1)
  <2>1. Loaded(st, fl, id) \in Stream /\ Coherent(Loaded(st, fl, id), t)
    BY <1>1, <1>3, LoadedType DEF LedgerInv
  <2> QED
    BY <1>2, <2>1
<1> QED
  BY <1>3 DEF LedgerInv

-----------------------------------------------------------------------------
(* Integer division by a positive number never exceeds the dividend. *)
LEMMA DivBounds ==
  ASSUME NEW a \in Nat, NEW d \in Nat \ {0}
  PROVE  a \div d \in 0..a
<1> DEFINE q == a \div d
<1>1. q \in Int /\ d * q <= a /\ a < d * q + d
  OBVIOUS
<1>2. q >= 0
  <2> SUFFICES ASSUME q <= -1 PROVE FALSE
    BY <1>1
  <2>1. d * q <= d * (-1)
    BY <1>1
  <2> QED
    BY <1>1, <2>1
<1>3. d * q >= q
  BY <1>1, <1>2
<1> QED
  BY <1>1, <1>2, <1>3

(* The fee of a positive amount leaves something to stream: the rate is at  *)
(* most MAX_FEE_RATE_BPS out of BPS_DENOMINATOR.                            *)
LEMMA FeeBounds ==
  ASSUME NEW amount \in Nat \ {0}, config \in ProtocolConfig \cup {NoConfig}
  PROVE  fee_on(amount) \in 0..(amount - 1)
<1>1. CASE ~charges_fee
  BY <1>1 DEF fee_on
<1>2. CASE charges_fee
  <2> DEFINE bps == try_load_config.fee_rate_bps
  <2>1. bps \in 0..1000
    BY <1>2 DEF charges_fee, try_load_config, ProtocolConfig, MAX_FEE_RATE_BPS
  <2>2. fee_on(amount) = (amount * bps) \div 10000
    BY <1>2 DEF fee_on, BPS_DENOMINATOR
  <2> HIDE DEF bps
  <2>3. amount * bps \in Nat /\ amount * bps <= amount * 1000
    BY <2>1
  <2> QED
    BY <2>2, <2>3
<1> QED
  BY <1>1, <1>2

(* pay_in: the contract's balance in the token rises by at least the net    *)
(* amount, whoever the treasury is, the contract itself included; no other  *)
(* token moves.                                                             *)
LEMMA PayInEffect ==
  ASSUME NEW sender \in Addr, NEW token \in Tokens, NEW amount \in Nat \ {0},
         balance \in Balances, config \in ProtocolConfig \cup {NoConfig},
         pay_in(sender, token, amount)
  PROVE  /\ balance' \in Balances
         /\ \A tok \in Tokens : tok # token => balance'[tok] = balance[tok]
         /\ balance'[token][Contract]
              >= balance[token][Contract] + amount - fee_on(amount)
<1> DEFINE gross == Transfer(balance, token, sender, Contract, amount)
           fee == fee_on(amount)
           treasury == try_load_config.treasury
<1>1. sender \in Holder /\ sender # Contract /\ Contract \in Holder
  BY AddressAssumption DEF Holder
<1>2. balance[token][sender] >= amount
  BY DEF pay_in
<1>3. /\ gross \in Balances
      /\ \A tok \in Tokens : tok # token => gross[tok] = balance[tok]
      /\ gross[token][Contract] = balance[token][Contract] + amount
  BY <1>1, <1>2, TransferEffect
<1>4. fee \in 0..(amount - 1)
  BY FeeBounds
<1>5. balance[token][Contract] \in Nat /\ gross[token][Contract] \in Nat
  BY <1>1, <1>3 DEF Balances
<1>6. CASE ~(fee > 0)
  <2>1. balance' = gross
    BY <1>6 DEF pay_in
  <2> HIDE DEF gross, fee
  <2> QED
    BY <1>3, <1>4, <1>5, <1>6, <2>1 DEF fee
<1>7. CASE fee > 0
  <2> DEFINE net == Transfer(gross, token, Contract, treasury, fee)
  <2>1. balance' = net
    BY <1>7 DEF pay_in
  <2>2. treasury \in Holder
    BY <1>7 DEF fee_on, charges_fee, try_load_config, ProtocolConfig
  <2>3. fee \in Nat /\ gross[token][Contract] >= fee
    BY <1>3, <1>4, <1>5
  <2> HIDE DEF gross, fee, treasury
  <2>4. /\ net \in Balances
        /\ \A tok \in Tokens : tok # token => net[tok] = gross[tok]
        /\ treasury # Contract => net[token][Contract] = gross[token][Contract] - fee
        /\ treasury = Contract => net[token][Contract] = gross[token][Contract]
    BY <1>1, <1>3, <2>2, <2>3, TransferEffect
  <2> HIDE DEF net
  <2>5. net[token][Contract] >= gross[token][Contract] - fee
    BY <1>5, <2>3, <2>4
  <2> QED
    BY <1>3, <1>5, <2>1, <2>3, <2>4, <2>5 DEF fee
<1> QED
  BY <1>6, <1>7

-----------------------------------------------------------------------------
(* The rest of the type invariant: instance storage, the clock, and that    *)
(* ids the counter has not reached are unused.                              *)
InstanceInv ==
  /\ stream_counter \in 0..MaxStreams
  /\ config \in ProtocolConfig \cup {NoConfig}
  /\ contract_version \in 0..CURRENT_DATA_VERSION
  /\ wasm_hash \in WasmHashes \cup {NoHash}
  /\ now \in 0..MaxTime
  /\ \A id \in StreamIds : id > stream_counter => streams[id] = NoStream

(* The inductive invariant. *)
IInv == LedgerInv(streams, fields, balance, now) /\ InstanceInv

(* It is exactly the conjunction of the three invariants the runs check. *)
LEMMA IInvMeaning == IInv <=> TypeOK /\ StreamsCoherent /\ Solvent
<1>1. \A id \in StreamIds : Loaded(streams, fields, id) = try_load_stream(id)
  BY DEF Loaded, try_load_stream
<1>2. \A token \in Tokens : Dues(streams, fields, token)
         = [id \in StreamIds |-> Due(try_load_stream(id), token)]
  BY <1>1 DEF Dues
<1>3. \A token \in Tokens : Owed(token) = SumTo(Dues(streams, fields, token), MaxStreams)
  BY <1>2 DEF Owed
<1> QED
  BY <1>1, <1>3
  DEF IInv, LedgerInv, InstanceInv, TypeOK, StreamsCoherent, Solvent, Balances

(* What a step that saves one record must show: the record is coherent and  *)
(* the contract's balance follows what is due on it.                        *)
LEMMA SaveKeepsIInv ==
  ASSUME IInv, NEW id \in StreamIds, NEW r \in Stream, save_stream(id, r),
         Coherent(r, now), balance' \in Balances,
         \A token \in Tokens : balance'[token][Contract] - balance[token][Contract]
                                 >= Due(r, token) - Due(try_load_stream(id), token),
         id <= stream_counter', stream_counter' \in stream_counter..MaxStreams,
         UNCHANGED <<instance, now>>
  PROVE  IInv'
<1>1. Loaded(streams, fields, id) = try_load_stream(id)
  BY DEF Loaded, try_load_stream
<1>2. LedgerInv([streams EXCEPT ![id] = r], [fields EXCEPT ![id] = StreamFields],
                balance', now)
  BY <1>1, SaveKeepsLedger DEF IInv
<1>3. LedgerInv(streams', fields', balance', now')
  BY <1>2 DEF save_stream
<1>4. ASSUME NEW i \in StreamIds, i > stream_counter' PROVE streams'[i] = NoStream
  <2>1. i # id /\ i > stream_counter
    BY <1>4, BoundAssumption DEF IInv, InstanceInv, StreamIds
  <2> QED
    BY <2>1 DEF IInv, InstanceInv, LedgerInv, save_stream
<1>5. InstanceInv'
  BY <1>4, BoundAssumption DEF IInv, InstanceInv, instance
<1>6. LedgerInv(streams, fields, balance, now)'
  BY <1>3
<1> QED
  BY <1>5, <1>6 DEF IInv

-----------------------------------------------------------------------------
(* A creating call with a rate and a schedule that fit each other. *)
LEMMA OpenKeepsIInv ==
  ASSUME IInv, NEW sender \in Senders, NEW recipient \in Recipients, NEW token,
         NEW amount \in Amounts, NEW rate \in Amount, NEW schedule \in Schedule, NEW event,
         open_stream(sender, recipient, token, amount, rate, schedule, event),
         rate = 0 <=> schedule.kind = "StepTranches",
         schedule.kind = "HybridCliffLinear" =>
           schedule.cliff_unlock_amount < amount - fee_on(amount)
  PROVE  IInv'
<1> DEFINE id == next_stream_id
           net == amount - fee_on(amount)
           r == new_stream(sender, recipient, token, rate, net, schedule)
<1>1. /\ sender \in Addr /\ recipient \in Holder /\ token \in Tokens
      /\ amount \in Nat \ {0} /\ amount \in Amount /\ amount <= I128_MAX
  BY InputAssumption, WidthAssumption DEF open_stream, validate_token_contract, Amount
<1>2. /\ id = stream_counter + 1 /\ id <= MaxStreams /\ stream_counter' = id
      /\ pay_in(sender, token, amount) /\ save_stream(id, r) /\ UNCHANGED <<instance, now>>
  BY DEF open_stream, next_stream_id, save_stream_counter
<1>3. stream_counter \in 0..MaxStreams /\ config \in ProtocolConfig \cup {NoConfig}
      /\ now \in 0..MaxTime /\ now \in Time /\ balance \in Balances
  BY BoundAssumption, WidthAssumption DEF IInv, InstanceInv, LedgerInv, Time
<1>4. fee_on(amount) \in 0..(amount - 1)
  BY <1>1, <1>3, FeeBounds
<1>5. net \in Amount /\ net > 0 /\ net \in Nat
  BY <1>1, <1>4, WidthAssumption DEF Amount
<1>6. id \in StreamIds /\ id <= stream_counter' /\ stream_counter' \in stream_counter..MaxStreams
  BY <1>2, <1>3, BoundAssumption DEF StreamIds
<1>7. /\ balance' \in Balances
      /\ \A tok \in Tokens : tok # token => balance'[tok] = balance[tok]
      /\ balance'[token][Contract] >= balance[token][Contract] + amount - fee_on(amount)
  BY <1>1, <1>2, <1>3, PayInEffect
<1>8. schedule # NoSchedule
  BY DEF Schedule, NoSchedule, Linear
<1> HIDE DEF id, net
<1>9. r \in Stream
  BY <1>1, <1>3, <1>5, WidthAssumption DEF new_stream, Stream, Amount, StreamStatus
<1>10. Coherent(r, now)
  <2>1. NONE = NONE /\ now <= now
    BY <1>3
  <2> QED
    BY <1>3, <1>5, <1>8, <2>1 DEF Coherent, new_stream, net
<1>11. ASSUME NEW tok \in Tokens
       PROVE  balance'[tok][Contract] - balance[tok][Contract]
                >= Due(r, tok) - Due(try_load_stream(id), tok)
  <2>1. try_load_stream(id) = NoStream
    BY <1>2, <1>3, <1>6 DEF IInv, InstanceInv, try_load_stream, decode_stream
  <2>2. Due(try_load_stream(id), tok) = 0
    BY <2>1 DEF Due
  <2>3. Due(r, tok) = IF token = tok THEN net ELSE 0
    <3>1. r # NoStream /\ r.is_active = TRUE /\ r.token_address = token
          /\ r.deposited_amount = net /\ r.withdrawn_amount = 0
      BY <1>9, NoneAssumption DEF new_stream
    <3> HIDE DEF r
    <3> QED
      BY <1>5, <3>1 DEF Due
  <2>4. balance'[tok][Contract] \in Nat /\ balance[tok][Contract] \in Nat
    BY <1>3, <1>7 DEF Balances, Holder
  <2> HIDE DEF r
  <2>5. CASE tok = token
    BY <1>1, <1>4, <1>7, <2>2, <2>3, <2>4, <2>5 DEF net
  <2>6. CASE tok # token
    BY <1>7, <2>2, <2>3, <2>4, <2>6
  <2> QED
    BY <2>5, <2>6
<1> HIDE DEF r
<1> QED
  BY <1>2, <1>6, <1>7, <1>9, <1>10, <1>11, SaveKeepsIInv

(* The three creating entrypoints keep the invariant. *)
LEMMA CreateKeepsIInv == ASSUME IInv, Create PROVE IInv'
<1>1. PICK sender \in Senders, recipient \in Recipients, token \in Tokens \cup Holder,
           amount \in Amounts :
        \/ \E d \in Durations : create_stream(sender, recipient, token, amount, d)
        \/ \E steps \in StepSchedules :
             create_step_vesting_stream(sender, recipient, token, amount, steps)
        \/ \E cliff \in Cliffs :
             create_hybrid_cliff_stream(sender, recipient, token, amount, cliff)
  BY DEF Create
<1> DEFINE net == amount - fee_on(amount)
<1>2. ASSUME amount > 0 PROVE net \in Nat \ {0} /\ net <= I128_MAX
  <2>1. amount \in Nat \ {0} /\ amount <= I128_MAX
    BY <1>2, InputAssumption, WidthAssumption
  <2>2. fee_on(amount) \in 0..(amount - 1)
    BY <2>1, FeeBounds DEF IInv, InstanceInv
  <2> QED
    BY <2>1, <2>2, WidthAssumption
<1> HIDE DEF net
<1>3. ASSUME NEW d \in Durations, create_stream(sender, recipient, token, amount, d)
      PROVE  IInv'
  <2> DEFINE rate == net \div d
  <2>1. /\ d > 0 /\ rate # 0 /\ amount > 0
        /\ open_stream(sender, recipient, token, amount, rate, Linear, "stream_created")
    BY <1>3 DEF create_stream, open_stream, net
  <2>2. d \in Nat \ {0}
    BY <2>1, InputAssumption, WidthAssumption DEF Time
  <2>3. rate \in 0..net
    BY <1>2, <2>1, <2>2, DivBounds
  <2>4. rate \in Amount
    BY <1>2, <2>1, <2>3, WidthAssumption DEF Amount
  <2>5. Linear \in Schedule /\ Linear.kind = "Linear"
    BY DEF Schedule, Linear
  <2> HIDE DEF rate
  <2> QED
    BY <2>1, <2>4, <2>5, OpenKeepsIInv
<1>4. ASSUME NEW steps \in StepSchedules,
             create_step_vesting_stream(sender, recipient, token, amount, steps)
      PROVE  IInv'
  <2>1. open_stream(sender, recipient, token, amount, 0, StepTranches(steps),
                    "step_vesting_stream_created")
    BY <1>4 DEF create_step_vesting_stream
  <2>2. StepTranches(steps) \in Schedule /\ StepTranches(steps).kind = "StepTranches"
    BY InputAssumption DEF Schedule, StepTranches
  <2>3. 0 \in Amount
    BY WidthAssumption DEF Amount
  <2> QED
    BY <2>1, <2>2, <2>3, OpenKeepsIInv
<1>5. ASSUME NEW cliff \in Cliffs,
             create_hybrid_cliff_stream(sender, recipient, token, amount, cliff)
      PROVE  IInv'
  <2> DEFINE tail == net - cliff.cliff_unlock_amount
             rate == tail \div cliff.linear_duration
             schedule == HybridCliffLinear(cliff.cliff_time, cliff.cliff_unlock_amount)
  <2>1. /\ cliff.linear_duration > 0 /\ cliff.cliff_unlock_amount < net
        /\ rate # 0 /\ amount > 0
        /\ open_stream(sender, recipient, token, amount, rate, schedule,
                       "hybrid_cliff_stream_created")
    BY <1>5 DEF create_hybrid_cliff_stream, open_stream, net
  <2>2. /\ cliff.cliff_time \in Time /\ cliff.cliff_unlock_amount \in Amount
        /\ cliff.linear_duration \in Time
    BY InputAssumption
  <2>3. cliff.linear_duration \in Nat \ {0}
    BY <2>1, <2>2, WidthAssumption DEF Time
  <2>4. tail \in Nat /\ tail <= I128_MAX
    BY <1>2, <2>1, <2>2, WidthAssumption DEF Amount
  <2>5. rate \in 0..tail
    BY <2>3, <2>4, DivBounds
  <2>6. rate \in Amount
    BY <2>4, <2>5, WidthAssumption DEF Amount
  <2>7. /\ schedule \in Schedule /\ schedule.kind = "HybridCliffLinear"
        /\ schedule.cliff_unlock_amount = cliff.cliff_unlock_amount
    BY <2>2 DEF Schedule, HybridCliffLinear
  <2> HIDE DEF rate, schedule
  <2> QED
    BY <2>1, <2>6, <2>7, OpenKeepsIInv DEF net
<1> QED
  BY <1>1, <1>3, <1>4, <1>5

-----------------------------------------------------------------------------
(* What a handler may rely on once it has loaded a stream. *)
LEMMA LoadedFacts ==
  ASSUME IInv, NEW id \in StreamIds, try_load_stream(id) # NoStream
  PROVE  /\ try_load_stream(id) \in Stream /\ Coherent(try_load_stream(id), now)
         /\ id <= stream_counter /\ stream_counter \in 0..MaxStreams
         /\ now \in Nat /\ now \in Time /\ balance \in Balances
         /\ config \in ProtocolConfig \cup {NoConfig}
<1>1. Loaded(streams, fields, id) = try_load_stream(id)
  BY DEF Loaded, try_load_stream
<1>2. try_load_stream(id) \in Stream /\ Coherent(try_load_stream(id), now)
  BY <1>1, LoadedType DEF IInv, LedgerInv
<1>3. streams[id] # NoStream
  BY DEF try_load_stream, decode_stream
<1>4. id <= stream_counter
  BY <1>3, BoundAssumption DEF IInv, InstanceInv, StreamIds
<1> QED
  BY <1>2, <1>4, BoundAssumption, WidthAssumption DEF IInv, InstanceInv, LedgerInv, Time

(* Typed views of the numeric fields of a coherent stream. *)
LEMMA StreamNumbers ==
  ASSUME NEW s \in Stream, NEW t, Coherent(s, t)
  PROVE  /\ s.deposited_amount \in Nat /\ s.deposited_amount <= I128_MAX
         /\ s.withdrawn_amount \in Nat /\ s.withdrawn_amount <= s.deposited_amount
         /\ s.last_update_time \in Nat /\ s.paused_at \in Int
         /\ s.start_time \in Nat /\ s.start_time <= s.last_update_time
         /\ s.last_update_time <= t
         /\ s.token_address \in Tokens /\ s.recipient \in Holder /\ s.sender \in Addr
         /\ s # NoStream
BY WidthAssumption, NoneAssumption DEF Stream, Amount, Time, NONE, Coherent

(* What is due on a live stream, and on a settled one. *)
LEMMA DueLive ==
  ASSUME NEW s, NEW token, s # NoStream, s.is_active
  PROVE  Due(s, token) = IF s.token_address = token
                         THEN s.deposited_amount - s.withdrawn_amount ELSE 0
BY Zenon DEF Due

\* A settled stream is owed nothing in any token.
LEMMA DueSettled == ASSUME NEW s, NEW token, ~s.is_active PROVE Due(s, token) = 0
BY Zenon DEF Due

(* A top-up brings in at least what it adds to the deposit. *)
LEMMA TopUpKeepsIInv ==
  ASSUME IInv, NEW sender \in Addr, NEW id \in StreamIds, NEW amount \in TopUps,
         top_up_stream(sender, id, amount)
  PROVE  IInv'
<1> DEFINE s == try_load_stream(id)
           net == amount - fee_on(amount)
           r == topped_up(s, net)
<1>1. /\ amount > 0 /\ s # NoStream /\ s.is_active
      /\ pay_in(sender, s.token_address, amount)
      /\ r.deposited_amount <= I128_MAX
      /\ save_stream(id, r) /\ UNCHANGED <<stream_counter, instance, now>>
  BY DEF top_up_stream
<1>2. /\ s \in Stream /\ Coherent(s, now) /\ id <= stream_counter
      /\ stream_counter \in 0..MaxStreams /\ balance \in Balances
      /\ config \in ProtocolConfig \cup {NoConfig}
  BY <1>1, LoadedFacts
<1> HIDE DEF s
<1>3. /\ s.deposited_amount \in Nat /\ s.withdrawn_amount \in Nat
      /\ s.withdrawn_amount <= s.deposited_amount /\ s.token_address \in Tokens
  BY <1>2, StreamNumbers
<1>4. amount \in Nat \ {0}
  BY <1>1, InputAssumption, WidthAssumption
<1>5. fee_on(amount) \in 0..(amount - 1)
  BY <1>2, <1>4, FeeBounds
<1>6. net \in Nat \ {0}
  BY <1>4, <1>5
<1> HIDE DEF net
<1>7. /\ balance' \in Balances
      /\ \A tok \in Tokens : tok # s.token_address => balance'[tok] = balance[tok]
      /\ balance'[s.token_address][Contract]
           >= balance[s.token_address][Contract] + amount - fee_on(amount)
  BY <1>1, <1>2, <1>3, <1>4, PayInEffect
<1>8. r = [s EXCEPT !.deposited_amount = s.deposited_amount + net]
  BY DEF topped_up
<1>9. /\ r \in Stream /\ r.deposited_amount = s.deposited_amount + net
      /\ r.withdrawn_amount = s.withdrawn_amount /\ r.is_active = s.is_active
      /\ r.token_address = s.token_address /\ r # NoStream
  <2>1. s.deposited_amount + net \in Amount
    BY <1>1, <1>2, <1>3, <1>6, <1>8, WidthAssumption DEF Stream, Amount
  <2>2. r \in Stream
    BY <1>2, <1>8, <2>1 DEF Stream
  <2> QED
    BY <1>2, <1>8, <2>2, NoneAssumption DEF Stream
<1>10. Coherent(r, now)
  <2>1. /\ r.schedule = s.schedule /\ r.status = s.status /\ r.paused = s.paused
        /\ r.paused_at = s.paused_at /\ r.start_time = s.start_time
        /\ r.last_update_time = s.last_update_time /\ r.rate_per_second = s.rate_per_second
    BY <1>2, <1>8 DEF Stream
  <2>2. s.status # "Completed"
    BY <1>1, <1>2 DEF Coherent
  <2>3. s.schedule.kind = "HybridCliffLinear" => s.schedule.cliff_unlock_amount \in Nat
    BY <1>2, WidthAssumption DEF Stream, Schedule, Amount, NoSchedule, Linear
  <2> HIDE DEF r
  <2> QED
    BY <1>2, <1>3, <1>6, <1>9, <2>1, <2>2, <2>3 DEF Coherent
<1> HIDE DEF r
<1>11. r.is_active
  BY <1>1, <1>9, Zenon
<1>12. ASSUME NEW tok \in Tokens
       PROVE  balance'[tok][Contract] - balance[tok][Contract] >= Due(r, tok) - Due(s, tok)
  <2>1. balance'[tok][Contract] \in Nat /\ balance[tok][Contract] \in Nat
    BY <1>2, <1>7 DEF Balances, Holder
  <2>2. CASE tok = s.token_address
    <3>1. Due(r, tok) = r.deposited_amount - r.withdrawn_amount
          /\ Due(s, tok) = s.deposited_amount - s.withdrawn_amount
      BY <1>1, <1>11, <1>9, <2>2, DueLive
    <3> QED
      BY <1>3, <1>4, <1>5, <1>7, <1>9, <2>1, <2>2, <3>1 DEF net
  <2>3. CASE tok # s.token_address
    <3>1. Due(r, tok) = 0 /\ Due(s, tok) = 0
      BY <1>1, <1>11, <1>9, <2>3, DueLive
    <3> QED
      BY <1>7, <2>1, <2>3, <3>1
  <2> QED
    BY <2>2, <2>3
<1>13. stream_counter' \in stream_counter..MaxStreams /\ id <= stream_counter'
  BY <1>1, <1>2, BoundAssumption DEF StreamIds
<1> QED
  BY <1>1, <1>7, <1>9, <1>10, <1>12, <1>13, SaveKeepsIInv DEF s

-----------------------------------------------------------------------------
(* The record apply_withdrawal saves is coherent and owes `amount` less. *)
LEMMA WithdrawnRecord ==
  ASSUME NEW s \in Stream, now \in Time, now \in Nat, Coherent(s, now), s.is_active, ~s.paused,
         NEW amount \in Nat \ {0}, amount <= s.deposited_amount - s.withdrawn_amount
  PROVE  LET r == apply_withdrawal(s, amount) IN
         /\ r \in Stream /\ Coherent(r, now)
         /\ \A tok : Due(r, tok) = Due(s, tok) - IF tok = s.token_address THEN amount ELSE 0
<1> DEFINE r == apply_withdrawal(s, amount)
           w == s.withdrawn_amount + amount
           drained == w >= s.deposited_amount
<1>1. /\ s.deposited_amount \in Nat /\ s.deposited_amount <= I128_MAX
      /\ s.withdrawn_amount \in Nat /\ s.withdrawn_amount <= s.deposited_amount
      /\ s.start_time \in Nat /\ s.last_update_time \in Nat
      /\ s.start_time <= s.last_update_time /\ s.last_update_time <= now
      /\ s # NoStream
  BY StreamNumbers
<1>2. w \in Nat /\ w \in Amount /\ w <= s.deposited_amount
  BY <1>1, WidthAssumption DEF Amount
<1>3. s.status = "Active" /\ s.paused = FALSE /\ s.paused_at = NONE /\ s.is_active = TRUE
  <2>1. s.paused \in BOOLEAN /\ s.is_active \in BOOLEAN
    BY DEF Stream
  <2>2. s.status = "Active"
    BY DEF Coherent
  <2>3. s.paused_at = NONE
    BY DEF Coherent
  <2> QED
    BY <2>1, <2>2, <2>3, Zenon
<1>4. s.start_time <= now
  BY <1>1
<1>5. \A tok : Due(s, tok) = IF s.token_address = tok
                             THEN s.deposited_amount - s.withdrawn_amount ELSE 0
  BY <1>1, DueLive
<1>6. CASE drained
  <2>1. r = [s EXCEPT !.withdrawn_amount = w, !.last_update_time = now,
                      !.is_active = FALSE, !.status = "Completed"]
    BY <1>3, <1>6 DEF apply_withdrawal
  <2> HIDE DEF r, w
  <2>2. r \in Stream
    BY <1>2, <2>1 DEF Stream, StreamStatus
  <2>3. /\ r.withdrawn_amount = w /\ r.last_update_time = now
        /\ r.is_active = FALSE /\ r.status = "Completed" /\ r.paused = FALSE
        /\ r.paused_at = NONE /\ r.deposited_amount = s.deposited_amount
        /\ r.start_time = s.start_time /\ r.schedule = s.schedule
        /\ r.rate_per_second = s.rate_per_second
    BY <1>3, <2>1 DEF Stream
  <2>4. w = s.deposited_amount
    BY <1>1, <1>2, <1>6
  <2>5. Coherent(r, now)
    BY <1>1, <1>2, <1>4, <2>3, <2>4 DEF Coherent
  <2>6. \A tok : Due(r, tok) = 0
    BY <2>3, DueSettled
  <2>7. s.deposited_amount - s.withdrawn_amount = amount
    BY <1>1, <2>4 DEF w
  <2>8. \A tok : Due(r, tok) = Due(s, tok) - IF tok = s.token_address THEN amount ELSE 0
    BY <1>5, <2>6, <2>7
  <2> QED
    BY <2>2, <2>5, <2>8 DEF r
<1>7. CASE ~drained
  <2>1. r = [s EXCEPT !.withdrawn_amount = w, !.last_update_time = now]
    <3>1. r = [s EXCEPT !.withdrawn_amount = w, !.last_update_time = now,
                        !.is_active = TRUE, !.status = s.status]
      BY <1>3, <1>7 DEF apply_withdrawal
    <3> QED
      BY <1>3, <3>1 DEF Stream
  <2>2. w < s.deposited_amount
    BY <1>1, <1>2, <1>7
  <2> HIDE DEF r, w
  <2>3. r \in Stream
    BY <1>2, <2>1 DEF Stream
  <2>4. /\ r.withdrawn_amount = w /\ r.last_update_time = now
        /\ r.is_active = TRUE /\ r.status = "Active" /\ r.paused = FALSE
        /\ r.paused_at = NONE /\ r.deposited_amount = s.deposited_amount
        /\ r.start_time = s.start_time /\ r.schedule = s.schedule
        /\ r.rate_per_second = s.rate_per_second /\ r.token_address = s.token_address
    BY <1>3, <2>1 DEF Stream
  <2>5. Coherent(r, now)
    BY <1>1, <1>2, <1>4, <2>2, <2>4 DEF Coherent
  <2>6. r # NoStream
    BY <2>3, NoneAssumption
  <2>7. \A tok : Due(r, tok) = IF s.token_address = tok
                               THEN s.deposited_amount - w ELSE 0
    BY <2>4, <2>6, DueLive
  <2>8. \A tok : Due(r, tok) = Due(s, tok) - IF tok = s.token_address THEN amount ELSE 0
    BY <1>1, <1>5, <2>7 DEF w
  <2> QED
    BY <2>3, <2>5, <2>8 DEF r
<1> QED
  BY <1>6, <1>7

(* A withdrawal pays what it takes off its own stream, on any ledger. *)
LEMMA WithdrawalKeepsLedger ==
  ASSUME NEW st, NEW fl, NEW b, LedgerInv(st, fl, b, now), now \in Time, now \in Nat,
         NEW id \in StreamIds, NEW s, s = Loaded(st, fl, id), s # NoStream, s.is_active,
         ~s.paused, NEW recipient \in Addr, NEW amount, amount = calculate_claimable(s, now),
         amount > 0, b[s.token_address][Contract] >= amount
  PROVE  LedgerInv([st EXCEPT ![id] = apply_withdrawal(s, amount)],
                   [fl EXCEPT ![id] = StreamFields],
                   Transfer(b, s.token_address, Contract, recipient, amount), now)
<1> DEFINE r == apply_withdrawal(s, amount)
           c == Transfer(b, s.token_address, Contract, recipient, amount)
<1>1. s \in Stream /\ Coherent(s, now) /\ b \in Balances
  BY LoadedType DEF LedgerInv
<1>2. amount \in Nat \ {0} /\ amount <= s.deposited_amount - s.withdrawn_amount
  <2>1. amount \in 0..(s.deposited_amount - s.withdrawn_amount)
    BY <1>1, ClaimCovered
  <2>2. s.deposited_amount \in Nat /\ s.withdrawn_amount \in Nat
    BY <1>1, StreamNumbers
  <2> QED
    BY <2>1, <2>2
<1>3. /\ r \in Stream /\ Coherent(r, now)
      /\ \A tok : Due(r, tok) = Due(s, tok) - IF tok = s.token_address THEN amount ELSE 0
  BY <1>1, <1>2, WithdrawnRecord
<1>4. s.token_address \in Tokens /\ Contract \in Holder /\ recipient \in Holder
      /\ recipient # Contract
  BY <1>1, StreamNumbers, AddressAssumption DEF Holder
<1>5. /\ c \in Balances
      /\ \A tok \in Tokens : tok # s.token_address => c[tok] = b[tok]
      /\ c[s.token_address][Contract] = b[s.token_address][Contract] - amount
  BY <1>1, <1>2, <1>4, TransferEffect
<1> HIDE DEF r, c
<1>6. ASSUME NEW tok \in Tokens
      PROVE  c[tok][Contract] - b[tok][Contract] >= Due(r, tok) - Due(s, tok)
  <2>1. c[tok][Contract] \in Nat /\ b[tok][Contract] \in Nat /\ Due(s, tok) \in Nat
    BY <1>1, <1>4, <1>5, DueNat DEF Balances
  <2> QED
    BY <1>2, <1>3, <1>5, <2>1
<1>7. LedgerInv([st EXCEPT ![id] = r], [fl EXCEPT ![id] = StreamFields], c, now)
  BY <1>3, <1>5, <1>6, SaveKeepsLedger
<1> QED
  BY <1>7 DEF r, c

(* A step that changes only stored streams and balances, and opens no id. *)
LEMMA LedgerStep ==
  ASSUME IInv, LedgerInv(streams', fields', balance', now),
         UNCHANGED <<stream_counter, instance, now>>,
         \A i \in StreamIds : i > stream_counter => streams'[i] = NoStream
  PROVE  IInv'
<1>1. LedgerInv(streams', fields', balance', now')
  BY Zenon
<1>2. LedgerInv(streams, fields, balance, now)'
  BY <1>1
<1> QED
  BY <1>2 DEF IInv, InstanceInv, instance

(* withdraw. *)
LEMMA WithdrawKeepsIInv ==
  ASSUME IInv, NEW recipient \in Addr, NEW id \in StreamIds, withdraw(recipient, id)
  PROVE  IInv'
<1> DEFINE s == try_load_stream(id)
           amount == calculate_claimable(s, now)
<1>1. /\ s # NoStream /\ s.is_active /\ ~s.paused /\ amount > 0
      /\ balance[s.token_address][Contract] >= amount
      /\ save_stream(id, apply_withdrawal(s, amount))
      /\ balance' = Transfer(balance, s.token_address, Contract, recipient, amount)
      /\ UNCHANGED <<stream_counter, instance, now>>
  BY DEF withdraw
<1>2. s = Loaded(streams, fields, id) /\ LedgerInv(streams, fields, balance, now)
  BY DEF Loaded, try_load_stream, IInv
<1>3. now \in Time /\ now \in Nat /\ id <= stream_counter
  BY <1>1, LoadedFacts
<1> HIDE DEF s, amount
<1>4. LedgerInv([streams EXCEPT ![id] = apply_withdrawal(s, amount)],
                [fields EXCEPT ![id] = StreamFields],
                Transfer(balance, s.token_address, Contract, recipient, amount), now)
  BY <1>1, <1>2, <1>3, WithdrawalKeepsLedger DEF amount
<1>5. LedgerInv(streams', fields', balance', now)
  BY <1>1, <1>4 DEF save_stream
<1>6. \A i \in StreamIds : i > stream_counter => streams'[i] = NoStream
  <2> SUFFICES ASSUME NEW i \in StreamIds, i > stream_counter PROVE streams'[i] = NoStream
    OBVIOUS
  <2>1. i # id
    BY <1>3, BoundAssumption DEF IInv, InstanceInv, StreamIds
  <2>2. streams[i] = NoStream /\ streams \in [StreamIds -> Stream \cup {NoStream}]
    BY DEF IInv, InstanceInv, LedgerInv
  <2> QED
    BY <1>1, <2>1, <2>2 DEF save_stream
<1> QED
  BY <1>1, <1>5, <1>6, LedgerStep

-----------------------------------------------------------------------------
(* batch_withdraw: the accumulator of the loop satisfies the invariant      *)
(* until an iteration aborts the call.                                      *)
BatchInv(acc) ==
  \E st, fl, b, ok, es :
    /\ acc = [streams |-> st, fields |-> fl, balance |-> b, ok |-> ok, events |-> es]
    /\ ok => /\ LedgerInv(st, fl, b, now)
             /\ \A i \in StreamIds : i > stream_counter => st[i] = NoStream

\* One id of a batch_withdraw keeps the ledger invariant, whether it pays,
\* skips a dry stream or aborts the whole call.
LEMMA BatchStepKeeps ==
  ASSUME NEW acc, BatchInv(acc), NEW recipient \in Addr, NEW id \in StreamIds,
         now \in Time, now \in Nat, stream_counter \in Nat
  PROVE  BatchInv(batch_step(acc, recipient, id))
<1>1. PICK st, fl, b, ok, es :
        /\ acc = [streams |-> st, fields |-> fl, balance |-> b, ok |-> ok, events |-> es]
        /\ ok => /\ LedgerInv(st, fl, b, now)
                 /\ \A i \in StreamIds : i > stream_counter => st[i] = NoStream
  BY DEF BatchInv
<1> DEFINE s == Loaded(st, fl, id)
           amount == calculate_claimable(s, now)
           t == apply_withdrawal(s, amount)
           es2 == es \o withdrawal_events(id, t, amount)
           c == Transfer(b, s.token_address, Contract, recipient, amount)
           ok2 == ok /\ b[s.token_address][Contract] >= amount
           st2 == [st EXCEPT ![id] = t]
           fl2 == [fl EXCEPT ![id] = StreamFields]
           next == batch_step(acc, recipient, id)
<1>2. /\ acc.streams = st /\ acc.fields = fl /\ acc.balance = b
      /\ acc.ok = ok /\ acc.events = es
  BY <1>1
<1>3. decode_stream(acc.streams[id], acc.fields[id]) = s
  BY <1>2 DEF Loaded
<1> HIDE DEF s
<1>4. CASE s = NoStream \/ s.recipient # recipient
  <2>1. next = [acc EXCEPT !.ok = FALSE]
    BY <1>3, <1>4, Zenon DEF batch_step
  <2>2. next = [streams |-> st, fields |-> fl, balance |-> b, ok |-> FALSE, events |-> es]
    BY <1>1, <2>1
  <2> QED
    BY <2>2, Zenon DEF BatchInv
<1>5. CASE /\ ~(s = NoStream \/ s.recipient # recipient)
           /\ ~s.is_active \/ s.paused \/ amount <= 0
  <2>1. next = acc
    BY <1>3, <1>5, Zenon DEF batch_step
  <2> QED
    BY <2>1, Zenon
<1>6. CASE /\ ~(s = NoStream \/ s.recipient # recipient)
           /\ ~(~s.is_active \/ s.paused \/ amount <= 0)
           /\ ~withdrawal_fits(s, amount)
  <2> DEFINE es3 == acc.events \o withdrawal_events(id, s, amount)
  <2>1. next = [acc EXCEPT !.events = es3]
    BY <1>3, <1>6, Zenon DEF batch_step
  <2> HIDE DEF es3
  <2>2. next = [streams |-> st, fields |-> fl, balance |-> b, ok |-> ok, events |-> es3]
    BY <1>1, <2>1
  <2> QED
    BY <1>1, <2>2, Zenon DEF BatchInv
<1>7. CASE /\ ~(s = NoStream \/ s.recipient # recipient)
           /\ ~(~s.is_active \/ s.paused \/ amount <= 0)
           /\ withdrawal_fits(s, amount)
  <2>1. next = [streams |-> st2, fields |-> fl2, balance |-> c, ok |-> ok2, events |-> es2]
    BY <1>2, <1>3, <1>7, Zenon DEF batch_step
  <2>2. ASSUME ok2
        PROVE  /\ LedgerInv(st2, fl2, c, now)
               /\ \A i \in StreamIds : i > stream_counter => st2[i] = NoStream
    <3>1. LedgerInv(st, fl, b, now) /\ b[s.token_address][Contract] >= amount
      BY <1>1, <2>2
    <3>2. s \in Stream \cup {NoStream} /\ (s # NoStream => Coherent(s, now))
      BY <3>1, LoadedType DEF LedgerInv, s
    <3>3. amount > 0
      <4>1. amount \in Int
        BY <1>7, <3>2, ClaimCovered, StreamNumbers
      <4> QED
        BY <1>7, <4>1
    <3>4. LedgerInv(st2, fl2, c, now)
      BY <1>7, <3>1, <3>3, WithdrawalKeepsLedger DEF s
    <3>5. ASSUME NEW i \in StreamIds, i > stream_counter PROVE st2[i] = NoStream
      <4>1. st[i] = NoStream /\ st \in [StreamIds -> Stream \cup {NoStream}]
        BY <1>1, <2>2, <3>1, <3>5 DEF LedgerInv
      <4>2. st[id] # NoStream
        BY <1>7 DEF s, Loaded, decode_stream
      <4> QED
        BY <4>1, <4>2
    <3> QED
      BY <3>4, <3>5
  <2> HIDE DEF st2, fl2, c, ok2, es2
  <2> QED
    BY <2>1, <2>2, Zenon DEF BatchInv
<1> QED
  BY <1>4, <1>5, <1>6, <1>7

(* The accumulators of the first n iterations of a batch. *)
IsRun(g, recipient, ids, n) ==
  g = [i \in 0..n |-> IF i = 0 THEN batch_start ELSE batch_step(g[i - 1], recipient, ids[i])]

(* They exist, iteration by iteration. *)
LEMMA RunExists ==
  ASSUME NEW N \in Nat, NEW recipient, NEW ids
  PROVE  \E g : IsRun(g, recipient, ids, N)
<1> DEFINE S == {n \in Nat : \E g : IsRun(g, recipient, ids, n)}
<1>1. 0 \in S
  <2> DEFINE g == [i \in 0..0 |-> batch_start]
  <2>1. g = [i \in 0..0 |-> IF i = 0 THEN batch_start
                            ELSE batch_step(g[i - 1], recipient, ids[i])]
    OBVIOUS
  <2> QED
    BY <2>1 DEF IsRun
<1>2. ASSUME NEW n \in S PROVE n + 1 \in S
  <2>1. PICK g : IsRun(g, recipient, ids, n)
    OBVIOUS
  <2> DEFINE h == [i \in 0..(n + 1) |-> IF i = n + 1
                     THEN batch_step(g[n], recipient, ids[n + 1]) ELSE g[i]]
  <2>2. ASSUME NEW i \in 0..(n + 1)
        PROVE  h[i] = IF i = 0 THEN batch_start ELSE batch_step(h[i - 1], recipient, ids[i])
    <3>1. CASE i = n + 1
      BY <3>1
    <3>2. CASE i # n + 1
      <4>1. g[i] = IF i = 0 THEN batch_start ELSE batch_step(g[i - 1], recipient, ids[i])
        BY <2>1, <3>2 DEF IsRun
      <4> QED
        BY <4>1, <3>2
    <3> QED
      BY <3>1, <3>2
  <2>3. IsRun(h, recipient, ids, n + 1)
    BY <2>2 DEF IsRun
  <2> QED
    BY <2>3
<1>3. S = Nat
  <2>1. S \in SUBSET Nat
    OBVIOUS
  <2> HIDE DEF S
  <2> QED
    BY <1>1, <1>2, <2>1, SetInduction
<1> QED
  BY <1>3

(* The state a whole batch ends in satisfies the invariant. *)
LEMMA BatchRunKeeps ==
  ASSUME IInv, NEW recipient \in Addr, NEW ids \in Seq(StreamIds)
  PROVE  BatchInv(batch_run(recipient, ids))
<1> DEFINE N == Len(ids)
           g == CHOOSE f : IsRun(f, recipient, ids, N)
           S == {n \in Nat : n <= N => BatchInv(g[n])}
<1>1. N \in Nat /\ \A i \in 1..N : ids[i] \in StreamIds
  OBVIOUS
<1>2. IsRun(g, recipient, ids, N)
  BY <1>1, RunExists
<1>3. batch_run(recipient, ids) = g[N]
  BY DEF batch_run, IsRun
<1> HIDE DEF g, N
<1>4. now \in Time /\ now \in Nat /\ stream_counter \in Nat
  BY BoundAssumption, WidthAssumption DEF IInv, InstanceInv, Time
<1>5. 0 \in S
  <2>1. g[0] = batch_start
    BY <1>1, <1>2 DEF IsRun
  <2>2. /\ LedgerInv(streams, fields, balance, now)
        /\ \A i \in StreamIds : i > stream_counter => streams[i] = NoStream
    BY DEF IInv, InstanceInv
  <2>3. BatchInv(g[0])
    BY <2>1, <2>2, Zenon DEF BatchInv, batch_start
  <2> QED
    BY <2>3
<1>6. ASSUME NEW n \in S PROVE n + 1 \in S
  <2> SUFFICES ASSUME n + 1 <= N PROVE BatchInv(g[n + 1])
    BY <1>1
  <2>1. BatchInv(g[n]) /\ n + 1 \in 1..N /\ n + 1 \in 0..N /\ n + 1 # 0 /\ (n + 1) - 1 = n
    BY <1>1
  <2>2. g[n + 1] = batch_step(g[n], recipient, ids[n + 1])
    BY <1>2, <2>1 DEF IsRun
  <2>3. BatchInv(batch_step(g[n], recipient, ids[n + 1]))
    BY <1>1, <1>4, <2>1, BatchStepKeeps
  <2> QED
    BY <2>2, <2>3
<1>7. S = Nat
  <2>1. S \in SUBSET Nat
    OBVIOUS
  <2> HIDE DEF S
  <2> QED
    BY <1>5, <1>6, <2>1, SetInduction
<1>8. N \in S
  BY <1>1, <1>7
<1>9. BatchInv(g[N])
  BY <1>1, <1>8
<1> QED
  BY <1>3, <1>9

(* batch_withdraw. *)
LEMMA BatchKeepsIInv ==
  ASSUME IInv, NEW recipient \in Addr, NEW ids \in Batches, batch_withdraw(recipient, ids)
  PROVE  IInv'
<1> DEFINE done == batch_run(recipient, ids)
<1>1. BatchInv(done)
  BY InputAssumption, BatchRunKeeps
<1>2. /\ done.ok /\ streams' = done.streams /\ fields' = done.fields /\ balance' = done.balance
      /\ UNCHANGED <<stream_counter, instance, now>>
  BY DEF batch_withdraw
<1> HIDE DEF done
<1>3. PICK st, fl, b, ok, es :
        /\ done = [streams |-> st, fields |-> fl, balance |-> b, ok |-> ok, events |-> es]
        /\ ok => /\ LedgerInv(st, fl, b, now)
                 /\ \A i \in StreamIds : i > stream_counter => st[i] = NoStream
  BY <1>1 DEF BatchInv
<1>4. done.ok = ok /\ done.streams = st /\ done.fields = fl /\ done.balance = b
  BY <1>3
<1>5. ok
  BY <1>2, <1>4, Zenon
<1>6. /\ LedgerInv(streams', fields', balance', now)
      /\ \A i \in StreamIds : i > stream_counter => streams'[i] = NoStream
  BY <1>2, <1>3, <1>4, <1>5, Zenon
<1> QED
  BY <1>2, <1>6, LedgerStep

-----------------------------------------------------------------------------
(* cancel_stream: the two payouts together are what the stream held. *)
LEMMA CancelKeepsIInv ==
  ASSUME IInv, NEW sender \in Addr, NEW id \in StreamIds, cancel_stream(sender, id)
  PROVE  IInv'
<1> DEFINE s == try_load_stream(id)
           accrued == calculate_claimable(s, now)
           r == cancelled(s, accrued)
           refunded == r.deposited_amount - r.withdrawn_amount
           token == s.token_address
           paid == Transfer(balance, token, Contract, s.recipient, accrued)
           c == Transfer(paid, token, Contract, sender, refunded)
<1>1. /\ s # NoStream /\ s.is_active
      /\ balance[token][Contract] >= accrued /\ paid[token][Contract] >= refunded
      /\ save_stream(id, r) /\ balance' = c
      /\ UNCHANGED <<stream_counter, instance, now>>
  BY DEF cancel_stream
<1>2. /\ s \in Stream /\ Coherent(s, now) /\ id <= stream_counter
      /\ stream_counter \in 0..MaxStreams /\ now \in Nat /\ now \in Time /\ balance \in Balances
  BY <1>1, LoadedFacts
<1> HIDE DEF s
<1>3. /\ s.deposited_amount \in Nat /\ s.deposited_amount <= I128_MAX
      /\ s.withdrawn_amount \in Nat /\ s.withdrawn_amount <= s.deposited_amount
      /\ s.start_time \in Nat /\ s.last_update_time \in Nat
      /\ s.start_time <= s.last_update_time /\ s.last_update_time <= now
      /\ token \in Tokens /\ s.recipient \in Holder
  BY <1>2, StreamNumbers
<1>4. accrued \in Nat /\ accrued <= s.deposited_amount - s.withdrawn_amount
  <2>1. accrued \in 0..(s.deposited_amount - s.withdrawn_amount)
    BY <1>2, ClaimCovered
  <2> QED
    BY <1>3, <2>1
<1> HIDE DEF accrued
<1> DEFINE w == s.withdrawn_amount + accrued
<1>5. w \in Nat /\ w \in Amount /\ w <= s.deposited_amount
      /\ SatAdd(s.withdrawn_amount, accrued) = w
  BY <1>3, <1>4, WidthAssumption DEF Amount, SatAdd, Least
<1> HIDE DEF w
<1>6. r = [s EXCEPT !.withdrawn_amount = w, !.is_active = FALSE, !.status = "Cancelled",
                    !.paused = FALSE, !.paused_at = NONE, !.last_update_time = now]
  BY <1>5 DEF cancelled
<1>7. r \in Stream
  <2> HIDE DEF r
  <2> QED
    BY <1>2, <1>5, <1>6 DEF Stream, StreamStatus, NONE
<1>8. /\ r.withdrawn_amount = w /\ r.last_update_time = now
      /\ r.is_active = FALSE /\ r.status = "Cancelled" /\ r.paused = FALSE
      /\ r.paused_at = NONE /\ r.deposited_amount = s.deposited_amount
      /\ r.start_time = s.start_time /\ r.schedule = s.schedule
      /\ r.rate_per_second = s.rate_per_second
  <2> HIDE DEF r
  <2> QED
    BY <1>2, <1>6 DEF Stream
<1> HIDE DEF r
<1>9. Coherent(r, now)
  <2>1. s.start_time <= now
    BY <1>2, <1>3
  <2> QED
    BY <1>2, <1>3, <1>5, <1>8, <2>1 DEF Coherent
<1>10. refunded \in Nat /\ refunded = s.deposited_amount - w
  BY <1>3, <1>5, <1>8
<1> HIDE DEF refunded
<1>11. /\ paid \in Balances
       /\ \A tok \in Tokens : tok # token => paid[tok] = balance[tok]
       /\ s.recipient # Contract => paid[token][Contract] = balance[token][Contract] - accrued
       /\ s.recipient = Contract => paid[token][Contract] = balance[token][Contract]
  <2>1. Contract \in Holder
    BY DEF Holder
  <2> QED
    BY <1>1, <1>2, <1>3, <1>4, <2>1, TransferEffect
<1> HIDE DEF paid
<1>12. /\ c \in Balances
       /\ \A tok \in Tokens : tok # token => c[tok] = paid[tok]
       /\ c[token][Contract] = paid[token][Contract] - refunded
  <2>1. Contract \in Holder /\ sender \in Holder /\ sender # Contract
    BY AddressAssumption DEF Holder
  <2> QED
    BY <1>1, <1>3, <1>10, <1>11, <2>1, TransferEffect
<1> HIDE DEF c
<1>13. ASSUME NEW tok \in Tokens
       PROVE  balance'[tok][Contract] - balance[tok][Contract]
                >= Due(r, tok) - Due(try_load_stream(id), tok)
  <2>1. /\ c[tok][Contract] \in Nat /\ balance[tok][Contract] \in Nat
        /\ paid[tok][Contract] \in Nat
    BY <1>2, <1>11, <1>12 DEF Balances, Holder
  <2>2. Due(r, tok) = 0
    BY <1>8, DueSettled
  <2>3. Due(s, tok) = IF token = tok THEN s.deposited_amount - s.withdrawn_amount ELSE 0
    BY <1>1, DueLive
  <2>4. CASE tok = token
    <3>1. paid[token][Contract] >= balance[token][Contract] - accrued
      BY <1>4, <1>11, <2>1, <2>4
    <3>2. Due(s, tok) = s.deposited_amount - s.withdrawn_amount
      BY <2>3, <2>4
    <3> QED
      BY <1>1, <1>3, <1>4, <1>10, <1>12, <2>1, <2>2, <2>4, <3>1, <3>2 DEF s, w
  <2>5. CASE tok # token
    <3>1. c[tok][Contract] = balance[tok][Contract] /\ Due(s, tok) = 0
      BY <1>11, <1>12, <2>3, <2>5
    <3> QED
      BY <1>1, <2>1, <2>2, <3>1 DEF s
  <2> QED
    BY <2>4, <2>5
<1>14. stream_counter' \in stream_counter..MaxStreams /\ id <= stream_counter'
  BY <1>1, <1>2, BoundAssumption DEF StreamIds
<1> QED
  BY <1>1, <1>7, <1>9, <1>12, <1>13, <1>14, SaveKeepsIInv

-----------------------------------------------------------------------------
(* close_stream prunes the record; no balance moves. *)
LEMMA CloseKeepsIInv ==
  ASSUME IInv, NEW caller \in Addr, NEW id \in StreamIds, close_stream(caller, id)
  PROVE  IInv'
<1>1. remove_stream(id) /\ UNCHANGED <<stream_counter, instance, balance, now>>
  BY DEF close_stream
<1>2. LedgerInv([streams EXCEPT ![id] = NoStream], [fields EXCEPT ![id] = 0], balance, now)
  BY RemoveKeepsLedger DEF IInv
<1>3. LedgerInv(streams', fields', balance', now)
  BY <1>1, <1>2, Zenon DEF remove_stream
<1>4. streams \in [StreamIds -> Stream \cup {NoStream}]
      /\ \A i \in StreamIds : i > stream_counter => streams[i] = NoStream
  BY DEF IInv, InstanceInv, LedgerInv
<1>5. \A i \in StreamIds : i > stream_counter => streams'[i] = NoStream
  BY <1>1, <1>4 DEF remove_stream
<1> QED
  BY <1>1, <1>3, <1>5, LedgerStep

(* A save that leaves the amounts, the token and the activity of a live     *)
(* stream alone, and moves no balance.                                      *)
LEMMA QuietSaveKeepsIInv ==
  ASSUME IInv, NEW id \in StreamIds, NEW r \in Stream, save_stream(id, r), Coherent(r, now),
         try_load_stream(id) # NoStream, try_load_stream(id).is_active, r.is_active,
         r.token_address = try_load_stream(id).token_address,
         r.deposited_amount = try_load_stream(id).deposited_amount,
         r.withdrawn_amount = try_load_stream(id).withdrawn_amount,
         UNCHANGED <<stream_counter, instance, balance, now>>
  PROVE  IInv'
<1>1. /\ try_load_stream(id) \in Stream /\ Coherent(try_load_stream(id), now)
      /\ id <= stream_counter /\ stream_counter \in 0..MaxStreams /\ balance \in Balances
  BY LoadedFacts
<1>2. r # NoStream
  BY NoneAssumption
<1>3. ASSUME NEW tok \in Tokens
      PROVE  balance'[tok][Contract] - balance[tok][Contract]
               >= Due(r, tok) - Due(try_load_stream(id), tok)
  <2>1. Due(r, tok) = Due(try_load_stream(id), tok)
    <3>1. Due(r, tok) = IF r.token_address = tok
                        THEN r.deposited_amount - r.withdrawn_amount ELSE 0
      BY <1>2, DueLive
    <3>2. Due(try_load_stream(id), tok) = IF try_load_stream(id).token_address = tok
            THEN try_load_stream(id).deposited_amount - try_load_stream(id).withdrawn_amount
            ELSE 0
      BY DueLive
    <3> QED
      BY <3>1, <3>2
  <2>2. Due(try_load_stream(id), tok) \in Nat
    BY <1>1, DueNat
  <2>3. balance[tok][Contract] \in Nat
    BY <1>1 DEF Balances, Holder
  <2> QED
    BY <2>1, <2>2, <2>3
<1>4. /\ stream_counter' \in stream_counter..MaxStreams /\ id <= stream_counter'
      /\ balance' \in Balances
  BY <1>1, BoundAssumption DEF StreamIds
<1> QED
  BY <1>3, <1>4, SaveKeepsIInv

(* pause_stream. *)
LEMMA PauseKeepsIInv ==
  ASSUME IInv, NEW sender \in Addr, NEW id \in StreamIds, pause_stream(sender, id)
  PROVE  IInv'
<1> DEFINE s == try_load_stream(id)
           r == [s EXCEPT !.paused = TRUE, !.paused_at = now, !.status = "Paused"]
<1>1. /\ s # NoStream /\ s.is_active /\ ~s.paused /\ save_stream(id, r)
      /\ UNCHANGED <<stream_counter, instance, balance, now>>
  BY DEF pause_stream
<1>2. s \in Stream /\ Coherent(s, now) /\ now \in Nat /\ now \in Time
  BY <1>1, LoadedFacts
<1> HIDE DEF s
<1>3. r \in Stream
  BY <1>2 DEF Stream, StreamStatus
<1>4. /\ r.withdrawn_amount = s.withdrawn_amount /\ r.last_update_time = s.last_update_time
      /\ r.is_active = s.is_active /\ r.status = "Paused" /\ r.paused = TRUE
      /\ r.paused_at = now /\ r.deposited_amount = s.deposited_amount
      /\ r.start_time = s.start_time /\ r.schedule = s.schedule
      /\ r.rate_per_second = s.rate_per_second /\ r.token_address = s.token_address
  BY <1>2 DEF Stream
<1> HIDE DEF r
<1>5. now # NONE /\ now <= now
  BY <1>2 DEF NONE
<1>6. r.is_active
  BY <1>1, <1>4, Zenon
<1>7. Coherent(r, now)
  <2>1. s.last_update_time <= now /\ s.withdrawn_amount < s.deposited_amount
    BY <1>1, <1>2 DEF Coherent
  <2> QED
    BY <1>2, <1>4, <1>5, <1>6, <2>1 DEF Coherent
<1> QED
  BY <1>1, <1>3, <1>4, <1>6, <1>7, QuietSaveKeepsIInv DEF s

(* resume_stream: the moved anchor does not pass the clock. *)
LEMMA ResumeKeepsIInv ==
  ASSUME IInv, NEW sender \in Addr, NEW id \in StreamIds, resume_stream(sender, id)
  PROVE  IInv'
<1> DEFINE s == try_load_stream(id)
           r == resumed(s)
           anchor == SatAddTime(s.last_update_time, SatSubTime(now, s.paused_at))
<1>1. /\ s # NoStream /\ s.is_active /\ s.paused /\ save_stream(id, r)
      /\ UNCHANGED <<stream_counter, instance, balance, now>>
  BY DEF resume_stream
<1>2. s \in Stream /\ Coherent(s, now) /\ now \in Nat /\ now \in Time
  BY <1>1, LoadedFacts
<1> HIDE DEF s
<1>3. /\ s.start_time \in Nat /\ s.last_update_time \in Nat /\ s.paused_at \in Int
      /\ s.start_time <= s.last_update_time
  BY <1>2, StreamNumbers
<1>4. s.paused_at # NONE /\ s.last_update_time <= s.paused_at /\ s.paused_at <= now
  BY <1>1, <1>2 DEF Coherent
<1>5. anchor \in Time /\ anchor \in Nat /\ anchor <= now /\ s.start_time <= anchor
  BY <1>2, <1>3, <1>4, WidthAssumption
  DEF SatAddTime, SatSubTime, Least, Greatest, Time
<1>6. r = [s EXCEPT !.last_update_time = anchor, !.paused = FALSE, !.paused_at = NONE,
                    !.status = "Active"]
  BY <1>4 DEF resumed
<1> HIDE DEF r, anchor
<1>7. r \in Stream
  BY <1>2, <1>5, <1>6 DEF Stream, StreamStatus
<1>8. /\ r.withdrawn_amount = s.withdrawn_amount /\ r.last_update_time = anchor
      /\ r.is_active = s.is_active /\ r.status = "Active" /\ r.paused = FALSE
      /\ r.paused_at = NONE /\ r.deposited_amount = s.deposited_amount
      /\ r.start_time = s.start_time /\ r.schedule = s.schedule
      /\ r.rate_per_second = s.rate_per_second /\ r.token_address = s.token_address
  BY <1>2, <1>6 DEF Stream
<1>9. r.is_active
  BY <1>1, <1>8, Zenon
<1>10. Coherent(r, now)
  BY <1>1, <1>2, <1>5, <1>8, <1>9 DEF Coherent
<1> QED
  BY <1>1, <1>7, <1>8, <1>9, <1>10, QuietSaveKeepsIInv DEF s

(* Every call on an existing stream keeps the invariant. *)
LEMMA OperateKeepsIInv == ASSUME IInv, Operate PROVE IInv'
<1>1. PICK caller \in Addr :
        \/ \E id \in StreamIds :
             \/ \E amount \in TopUps : top_up_stream(caller, id, amount)
             \/ withdraw(caller, id)
             \/ cancel_stream(caller, id)
             \/ close_stream(caller, id)
             \/ pause_stream(caller, id)
             \/ resume_stream(caller, id)
        \/ \E ids \in Batches : batch_withdraw(caller, ids)
  BY DEF Operate
<1> QED
  BY <1>1, TopUpKeepsIInv, WithdrawKeepsIInv, CancelKeepsIInv, CloseKeepsIInv,
     PauseKeepsIInv, ResumeKeepsIInv, BatchKeepsIInv

-----------------------------------------------------------------------------
(* The decoded configuration is a configuration. *)
LEMMA ConfigType ==
  ASSUME config \in ProtocolConfig \cup {NoConfig}, try_load_config # NoConfig
  PROVE  try_load_config \in ProtocolConfig
<1>1. config \in ProtocolConfig
  BY DEF try_load_config
<1>2. [config EXCEPT !.fields = CONFIG_FIELD_COUNT,
                     !.is_protocol_paused = FALSE, !.emergency_guardian = NoAddr]
        \in ProtocolConfig
  BY <1>1 DEF ProtocolConfig
<1> QED
  BY <1>1, <1>2 DEF try_load_config

(* An administrative call moves no stream and no token, and whatever config *)
(* and version it writes have their types.                                  *)
LEMMA InstanceStep ==
  ASSUME IInv, UNCHANGED <<stored, stream_counter, balance, now>>,
         config' \in ProtocolConfig \cup {NoConfig},
         contract_version' \in 0..CURRENT_DATA_VERSION, wasm_hash' \in WasmHashes \cup {NoHash}
  PROVE  IInv'
<1>1. UNCHANGED <<streams, fields, stream_counter, balance, now>>
  BY DEF stored
<1>2. LedgerInv(streams', fields', balance', now')
  BY <1>1 DEF IInv
<1>3. LedgerInv(streams, fields, balance, now)'
  BY <1>2
<1> QED
  BY <1>1, <1>3 DEF IInv, InstanceInv

(* The administrative entrypoints keep the invariant. *)
LEMMA AdministerKeepsIInv == ASSUME IInv, Administer PROVE IInv'
<1>1. PICK caller \in Addr :
        \/ \E treasury \in Treasuries, bps \in FeeRates :
             \/ initialize(caller, treasury, bps)
             \/ update_fee_config(caller, treasury, bps)
        \/ \E a \in Addr : transfer_admin(caller, a)
        \/ \E p \in BOOLEAN : set_protocol_pause(caller, p)
        \/ \E g \in Addr \cup {NoAddr} : set_emergency_guardian(caller, g)
        \/ \E h \in WasmHashes : upgrade(caller, h)
        \/ \E v \in Versions : migrate(caller, v)
  BY DEF Administer
<1>2. /\ config \in ProtocolConfig \cup {NoConfig}
      /\ contract_version \in 0..CURRENT_DATA_VERSION /\ wasm_hash \in WasmHashes \cup {NoHash}
  BY DEF IInv, InstanceInv
<1>3. ASSUME NEW a \in Addr, is_admin(a) PROVE try_load_config \in ProtocolConfig
  BY <1>2, <1>3, ConfigType DEF is_admin
<1>4. ASSUME NEW treasury \in Treasuries, NEW bps \in FeeRates,
             initialize(caller, treasury, bps)
      PROVE  IInv'
  <2>1. config' \in ProtocolConfig
    <3>1. treasury \in Holder /\ bps \in 0..MAX_FEE_RATE_BPS
      BY <1>4, InputAssumption DEF initialize, MAX_FEE_RATE_BPS
    <3>2. config' = [fields |-> CONFIG_FIELD_COUNT, admin |-> caller, treasury |-> treasury,
                     fee_rate_bps |-> bps, is_protocol_paused |-> FALSE,
                     emergency_guardian |-> NoAddr]
      BY <1>4 DEF initialize, save_config
    <3> QED
      BY <3>1, <3>2 DEF ProtocolConfig
  <2>2. contract_version' \in 0..CURRENT_DATA_VERSION
    BY <1>4 DEF initialize, CURRENT_DATA_VERSION
  <2> QED
    BY <1>2, <1>4, <2>1, <2>2, InstanceStep DEF initialize
<1>5. ASSUME NEW treasury \in Treasuries, NEW bps \in FeeRates,
             update_fee_config(caller, treasury, bps)
      PROVE  IInv'
  <2>1. try_load_config \in ProtocolConfig
    BY <1>3, <1>5 DEF update_fee_config
  <2>2. treasury \in Holder /\ bps \in 0..MAX_FEE_RATE_BPS
    <3>1. bps <= MAX_FEE_RATE_BPS
      BY <1>5, Zenon DEF update_fee_config
    <3> QED
      BY <3>1, InputAssumption DEF MAX_FEE_RATE_BPS
  <2>3. config' \in ProtocolConfig
    BY <1>5, <2>1, <2>2 DEF update_fee_config, save_config, ProtocolConfig
  <2> QED
    BY <1>2, <1>5, <2>3, InstanceStep DEF update_fee_config
<1>6. ASSUME NEW a \in Addr, transfer_admin(caller, a) PROVE IInv'
  <2>1. try_load_config \in ProtocolConfig
    BY <1>3, <1>6 DEF transfer_admin
  <2>2. config' \in ProtocolConfig
    BY <1>6, <2>1 DEF transfer_admin, save_config, ProtocolConfig
  <2> QED
    BY <1>2, <1>6, <2>2, InstanceStep DEF transfer_admin
<1>7. ASSUME NEW p \in BOOLEAN, set_protocol_pause(caller, p) PROVE IInv'
  <2>1. try_load_config \in ProtocolConfig
    BY <1>2, <1>7, ConfigType DEF set_protocol_pause
  <2>2. config' \in ProtocolConfig
    BY <1>7, <2>1 DEF set_protocol_pause, save_config, ProtocolConfig
  <2> QED
    BY <1>2, <1>7, <2>2, InstanceStep DEF set_protocol_pause
<1>8. ASSUME NEW g \in Addr \cup {NoAddr}, set_emergency_guardian(caller, g) PROVE IInv'
  <2>1. try_load_config \in ProtocolConfig
    BY <1>3, <1>8 DEF set_emergency_guardian
  <2>2. config' \in ProtocolConfig
    BY <1>8, <2>1 DEF set_emergency_guardian, save_config, ProtocolConfig
  <2> QED
    BY <1>2, <1>8, <2>2, InstanceStep DEF set_emergency_guardian
<1>9. ASSUME NEW h \in WasmHashes, upgrade(caller, h) PROVE IInv'
  BY <1>2, <1>9, InstanceStep DEF upgrade
<1>10. ASSUME NEW v \in Versions, migrate(caller, v) PROVE IInv'
  <2>1. try_load_config \in ProtocolConfig
    BY <1>3, <1>10 DEF migrate
  <2>2. config' \in ProtocolConfig \cup {NoConfig}
    BY <1>2, <1>10, <2>1 DEF migrate, save_config
  <2>3. contract_version' \in 0..CURRENT_DATA_VERSION
    BY <1>2, <1>10 DEF migrate, CURRENT_DATA_VERSION
  <2> QED
    BY <1>2, <1>10, <2>2, <2>3, InstanceStep DEF migrate
<1> QED
  BY <1>1, <1>4, <1>5, <1>6, <1>7, <1>8, <1>9, <1>10

(* The clock advances. *)
LEMMA TickKeepsIInv == ASSUME IInv, Tick PROVE IInv'
<1>1. /\ now' = now + 1 /\ now < MaxTime
      /\ UNCHANGED <<streams, fields, stream_counter, config, contract_version, wasm_hash,
                     balance>>
  BY DEF Tick, stored, instance
<1>2. now \in Nat /\ now' \in 0..MaxTime
  BY <1>1, BoundAssumption, WidthAssumption DEF IInv, InstanceInv, Time
<1>3. LedgerInv(streams, fields, balance, now + 1)
  BY <1>2, TimeKeepsLedger DEF IInv
<1>4. LedgerInv(streams', fields', balance', now')
  BY <1>1, <1>3, Zenon
<1>5. LedgerInv(streams, fields, balance, now)'
  BY <1>4
<1> QED
  BY <1>1, <1>2, <1>5 DEF IInv, InstanceInv

-----------------------------------------------------------------------------
(* A ledger whose loaded records, and dues, are those of at most stream 1. *)
LEMMA FirstStreamLedger ==
  ASSUME NEW st \in [StreamIds -> Stream \cup {NoStream}], NEW fl \in [StreamIds -> Nat],
         NEW b \in Balances, NEW t,
         \A i \in StreamIds : i # 1 => Loaded(st, fl, i) = NoStream,
         MaxStreams >= 1 /\ Loaded(st, fl, 1) # NoStream => Coherent(Loaded(st, fl, 1), t),
         \A token \in Tokens : MaxStreams >= 1 =>
           b[token][Contract] >= Due(Loaded(st, fl, 1), token)
  PROVE  LedgerInv(st, fl, b, t)
<1>1. \A i \in StreamIds : Loaded(st, fl, i) # NoStream => Coherent(Loaded(st, fl, i), t)
  BY BoundAssumption DEF StreamIds
<1>2. ASSUME NEW token \in Tokens
      PROVE  b[token][Contract] >= SumTo(Dues(st, fl, token), MaxStreams)
  <2> DEFINE zero == [i \in 1..MaxStreams |-> 0]
  <2>1. \A i \in 1..MaxStreams : Dues(st, fl, token)[i] \in Nat
    <3> SUFFICES ASSUME NEW i \in StreamIds PROVE Due(Loaded(st, fl, i), token) \in Nat
      BY DEF Dues, StreamIds
    <3> QED
      BY <1>1, LoadedType, DueNat
  <2>2. Dues(st, fl, token) \in [1..MaxStreams -> Int]
    BY <2>1 DEF Dues, StreamIds
  <2>3. \A i \in 1..MaxStreams : i # 1 => Dues(st, fl, token)[i] = 0
    BY DEF Dues, StreamIds, Due
  <2>4. zero \in [1..MaxStreams -> Int] /\ \A i \in 1..MaxStreams : zero[i] = 0
    OBVIOUS
  <2>5. b[token][Contract] \in Nat
    BY DEF Balances, Holder
  <2> HIDE DEF zero
  <2>6. SumTo(zero, MaxStreams) = 0
    BY <2>4, SumZero, BoundAssumption
  <2>7. CASE MaxStreams >= 1
    <3>1. 1 \in 1..MaxStreams
      BY <2>7, BoundAssumption
    <3>2. SumTo(Dues(st, fl, token), MaxStreams)
            = SumTo(zero, MaxStreams) + Dues(st, fl, token)[1] - zero[1]
      BY <2>2, <2>3, <2>4, <3>1, SumUpdate, BoundAssumption
    <3>3. Dues(st, fl, token)[1] = Due(Loaded(st, fl, 1), token)
      BY <3>1 DEF Dues, StreamIds
    <3> QED
      BY <2>1, <2>4, <2>5, <2>6, <2>7, <3>1, <3>2, <3>3
  <2>8. CASE MaxStreams = 0
    <3>1. \A i \in 1..MaxStreams : Dues(st, fl, token)[i] = 0
      BY <2>8
    <3>2. SumTo(Dues(st, fl, token), MaxStreams) = 0
      BY <2>2, <3>1, SumZero, BoundAssumption
    <3> QED
      BY <2>5, <3>2
  <2> QED
    BY <2>7, <2>8, BoundAssumption
<1> QED
  BY <1>1, <1>2 DEF LedgerInv

(* A fresh deployment, and one still in the pre-v2 shape, satisfy it. *)
LEMMA InitIInv == ASSUME Init PROVE IInv
<1>1. now = 0 /\ wasm_hash = NoHash /\ 0 \in 0..MaxTime /\ 0 \in Time
  BY BoundAssumption, WidthAssumption DEF Init, Time
<1>2. CASE NothingStored
  <2>1. /\ streams = [id \in StreamIds |-> NoStream] /\ fields = [id \in StreamIds |-> 0]
        /\ stream_counter = 0 /\ config = NoConfig /\ contract_version = 0
    BY <1>2 DEF NothingStored
  <2>2. balance \in Balances
    BY <1>2, InputAssumption DEF NothingStored, Balances
  <2>3. \A i \in StreamIds : Loaded(streams, fields, i) = NoStream
    BY <2>1 DEF Loaded, decode_stream
  <2>4. ASSUME NEW token \in Tokens, MaxStreams >= 1
        PROVE  balance[token][Contract] >= Due(Loaded(streams, fields, 1), token)
    <3>1. 1 \in StreamIds
      BY <2>4, BoundAssumption DEF StreamIds
    <3>2. balance[token][Contract] \in Nat
      BY <2>2 DEF Balances, Holder
    <3> QED
      BY <2>3, <3>1, <3>2 DEF Due
  <2>5. LedgerInv(streams, fields, balance, now)
    <3>1. streams \in [StreamIds -> Stream \cup {NoStream}] /\ fields \in [StreamIds -> Nat]
      BY <2>1
    <3>2. MaxStreams >= 1 => Loaded(streams, fields, 1) = NoStream
      BY <2>3, BoundAssumption DEF StreamIds
    <3> QED
      BY <2>2, <2>3, <2>4, <3>1, <3>2, FirstStreamLedger
  <2>6. InstanceInv
    BY <1>1, <2>1, BoundAssumption DEF InstanceInv, CURRENT_DATA_VERSION
  <2> QED
    BY <2>5, <2>6 DEF IInv
<1>3. ASSUME NEW admin \in Addr, NEW sender \in Senders, NEW recipient \in Recipients,
             NEW token \in Tokens, NEW amount \in LegacyDeposits, NEW paused \in BOOLEAN,
             LegacyDeployment(admin, sender, recipient, token, amount, paused)
      PROVE  IInv
  <2> DEFINE at == IF paused THEN 0 ELSE NONE
             status == IF paused THEN "Paused" ELSE "Active"
             n == new_stream(sender, recipient, token, 1, amount, NoSchedule)
             r == [n EXCEPT !.paused = paused, !.paused_at = at, !.status = status]
             u == upgrade_legacy_stream(r)
  <2>1. /\ streams = [id \in StreamIds |-> IF id # 1 THEN NoStream ELSE r]
        /\ fields = [id \in StreamIds |-> IF id = 1 THEN LEGACY_STREAM_FIELD_COUNT ELSE 0]
        /\ MaxStreams >= 1 /\ stream_counter = 1 /\ contract_version = 0
    BY <1>3 DEF LegacyDeployment
  <2>2. amount \in Nat \ {0} /\ amount \in Amount /\ 1 \in Amount /\ 0 \in Amount
    BY InputAssumption, WidthAssumption DEF Amount
  <2>3. sender \in Addr /\ recipient \in Holder /\ 1 \in StreamIds
    BY <2>1, InputAssumption, BoundAssumption DEF StreamIds
  <2>4. n \in Stream
    BY <1>1, <2>2, <2>3 DEF new_stream, Stream, StreamStatus
  <2>5. at \in Time \cup {NONE} /\ status \in StreamStatus
    BY <1>1 DEF StreamStatus
  <2>6. /\ paused <=> status = "Paused"
        /\ paused <=> at # NONE
        /\ paused => at = 0
        /\ status \in {"Active", "Paused"}
    BY DEF NONE
  <2> HIDE DEF at, status
  <2>7. r \in Stream
    <3> HIDE DEF n
    <3> QED
      BY <2>4, <2>5 DEF Stream
  <2>8. /\ u.token_address = token /\ u.rate_per_second = 1 /\ u.deposited_amount = amount
        /\ u.withdrawn_amount = 0 /\ u.start_time = 0 /\ u.last_update_time = 0
        /\ u.is_active = TRUE /\ u.paused = paused /\ u.paused_at = at /\ u.status = status
        /\ u.schedule = Linear /\ u \in Stream
    <3>1. /\ n.token_address = token /\ n.rate_per_second = 1 /\ n.deposited_amount = amount
          /\ n.withdrawn_amount = 0 /\ n.start_time = 0 /\ n.last_update_time = 0
          /\ n.is_active = TRUE
      BY <1>1 DEF new_stream
    <3> HIDE DEF n
    <3>2. /\ r.token_address = token /\ r.rate_per_second = 1 /\ r.deposited_amount = amount
          /\ r.withdrawn_amount = 0 /\ r.start_time = 0 /\ r.last_update_time = 0
          /\ r.is_active = TRUE /\ r.paused = paused /\ r.paused_at = at
          /\ r.status = status
      BY <2>4, <3>1 DEF Stream
    <3> HIDE DEF r
    <3>3. u = [r EXCEPT !.schedule = Linear]
      BY DEF upgrade_legacy_stream
    <3> HIDE DEF u
    <3>4. u \in Stream
      BY <2>7, <3>3 DEF Stream, Schedule
    <3> QED
      BY <2>7, <3>2, <3>3, <3>4 DEF Stream
  <2> HIDE DEF n, r, u
  <2>9. u \in Stream /\ u # NoStream
    BY <2>8, NoneAssumption
  <2>10. Coherent(u, 0)
    BY <2>2, <2>6, <2>8 DEF Coherent, Linear, NoSchedule
  <2>11. Loaded(streams, fields, 1) = u
    <3>1. streams[1] = r /\ fields[1] = LEGACY_STREAM_FIELD_COUNT
      BY <2>1, <2>3
    <3>2. r # NoStream
      BY <2>7, NoneAssumption
    <3> QED
      BY <3>1, <3>2
      DEF Loaded, decode_stream, STREAM_FIELD_COUNT, LEGACY_STREAM_FIELD_COUNT, u
  <2>12. \A i \in StreamIds : i # 1 => Loaded(streams, fields, i) = NoStream
    BY <2>1 DEF Loaded, decode_stream
  <2>13. balance = [tok \in Tokens |-> [h \in Holder |->
           IF h # Contract THEN Supply ELSE IF tok = token THEN amount ELSE 0]]
    BY <1>3 DEF LegacyDeployment
  <2>14. balance \in Balances
    BY <2>2, <2>13, InputAssumption DEF Balances
  <2>15. ASSUME NEW tok \in Tokens
         PROVE  balance[tok][Contract] >= Due(Loaded(streams, fields, 1), tok)
    <3>1. Due(u, tok) = IF token = tok THEN amount - 0 ELSE 0
      <4>1. u.is_active /\ u.token_address = token /\ u.deposited_amount = amount
            /\ u.withdrawn_amount = 0
        BY <2>8
      <4> QED
        BY <2>9, <4>1, DueLive
    <3>2. balance[tok][Contract] = IF tok = token THEN amount ELSE 0
      BY <2>13 DEF Holder
    <3> QED
      BY <2>2, <2>11, <3>1, <3>2
  <2>16. streams \in [StreamIds -> Stream \cup {NoStream}] /\ fields \in [StreamIds -> Nat]
    BY <2>1, <2>7 DEF LEGACY_STREAM_FIELD_COUNT
  <2>17. LedgerInv(streams, fields, balance, now)
    BY <1>1, <2>10, <2>11, <2>12, <2>14, <2>15, <2>16, FirstStreamLedger
  <2>18. config \in ProtocolConfig
    BY <1>3 DEF LegacyDeployment, ProtocolConfig, Holder, MAX_FEE_RATE_BPS
  <2>19. \A i \in StreamIds : i > stream_counter => streams[i] = NoStream
    BY <2>1, BoundAssumption DEF StreamIds
  <2>20. InstanceInv
    BY <1>1, <2>1, <2>18, <2>19, BoundAssumption DEF InstanceInv, CURRENT_DATA_VERSION
  <2> QED
    BY <2>17, <2>20 DEF IInv
<1> QED
  BY <1>2, <1>3 DEF Init

(* Every step keeps the invariant. *)
LEMMA NextKeepsIInv == ASSUME IInv, [Next]_vars PROVE IInv'
<1>1. CASE UNCHANGED vars
  <2>1. UNCHANGED <<streams, fields, stream_counter, config, contract_version, wasm_hash,
                    balance, now>>
    BY <1>1 DEF vars
  <2>2. LedgerInv(streams', fields', balance', now')
    BY <2>1, Zenon DEF IInv
  <2>3. LedgerInv(streams, fields, balance, now)'
    BY <2>2
  <2> QED
    BY <2>1, <2>3 DEF IInv, InstanceInv
<1>2. CASE Next
  BY <1>2, CreateKeepsIInv, OperateKeepsIInv, AdministerKeepsIInv, TickKeepsIInv DEF Next
<1> QED
  BY <1>1, <1>2

-----------------------------------------------------------------------------
(* The inductive invariant holds in every reachable state. *)
THEOREM Invariance == Spec => []IInv
BY InitIInv, NextKeepsIInv, PTL DEF Spec

(* Type correctness: storage, instance data and token ledgers always have   *)
(* the types the contract's decoders assume, no token balance goes below    *)
(* zero, and ids beyond the counter are unused.                             *)
THEOREM TypeCorrect == Spec => []TypeOK
BY Invariance, IInvMeaning, PTL

(* Solvency of the contract, for any accounts, tokens, amounts, fee rates,  *)
(* schedules, batches and widths: whatever calls interleave, every token    *)
(* balance of the contract covers all its live streams together.            *)
THEOREM Solvency == Spec => []Solvent
BY Invariance, IInvMeaning, PTL

(* The redundant fields of every stream record (is_active, paused,          *)
(* paused_at, status, the accrual anchor) agree in every reachable state.   *)
THEOREM Coherence == Spec => []StreamsCoherent
BY Invariance, IInvMeaning, PTL

-----------------------------------------------------------------------------
(***************************************************************************)
(* What an invocation may do to a stream that exists: the action           *)
(* properties of the contract (settled streams, vested amounts, the        *)
(* circuit breaker, the published events), that every stored record stays  *)
(* readable, and that its linear streams implement DripStream.             *)
(*                                                                         *)
(* One lemma, EveryStep, lists what any step does to the record loaded     *)
(* under an id: nothing but the passing of time, one of the six calls on a *)
(* stream, its creation, or its pruning.  A batch is among them because an *)
(* id listed twice finds nothing to claim the second time.  The properties *)
(* are then facts about pairs of records.  The events are followed call by *)
(* call instead, since a batch publishes a sequence of them.               *)
(***************************************************************************)


(* A saved record is read back, or lost when its shape is not recognised. *)
ReadBack(r) == IF StreamFields = STREAM_FIELD_COUNT THEN r ELSE NoStream

Claim(s) == calculate_claimable(s, now)

Paused(s) == [s EXCEPT !.paused = TRUE, !.paused_at = now, !.status = "Paused"]

(* The record a live stream is replaced by, in one call. *)
Replaced(s, r) ==
  \/ \E net \in Nat \ {0} : r = topped_up(s, net) /\ s.deposited_amount + net <= I128_MAX
  \/ ~s.paused /\ Claim(s) > 0 /\ r = apply_withdrawal(s, Claim(s))
  \/ r = cancelled(s, Claim(s))
  \/ ~s.paused /\ r = Paused(s)
  \/ s.paused /\ r = resumed(s)

(* What a step does to the record loaded under id, s before and r after it. *)
RecordStep(id, s, r) ==
  \/ r = s /\ now' \in {now, now + 1}
  \/ /\ now' = now /\ s = NoStream /\ id > stream_counter
     /\ \E sender, recipient, token, rate, net, schedule :
          /\ rate \in Nat /\ net \in Nat \ {0} /\ (schedule.kind = "Linear" => rate > 0)
          /\ r = ReadBack(new_stream(sender, recipient, token, rate, net, schedule))
  \/ now' = now /\ s # NoStream /\ ~s.is_active /\ r = NoStream
  \/ /\ now' = now /\ s # NoStream /\ s.is_active
     /\ \E x \in Stream : Replaced(s, x) /\ r = ReadBack(x)

(* What decode_stream makes of a record save_stream has written. *)
LEMMA DecodeSaved ==
  ASSUME NEW r
  PROVE  r # NoStream => decode_stream(r, StreamFields) = ReadBack(r)
<1>1. StreamFields # LEGACY_STREAM_FIELD_COUNT
  BY FieldAssumption DEF STREAM_FIELD_COUNT, LEGACY_STREAM_FIELD_COUNT
<1> QED
  BY <1>1 DEF decode_stream, ReadBack

(* A save changes what is loaded under its id and under no other. *)
LEMMA SaveLoads ==
  ASSUME IInv, NEW id \in StreamIds, NEW r, r # NoStream, save_stream(id, r)
  PROVE  /\ (try_load_stream(id))' = ReadBack(r)
         /\ \A i \in StreamIds \ {id} : (try_load_stream(i))' = try_load_stream(i)
<1>1. streams \in [StreamIds -> Stream \cup {NoStream}] /\ fields \in [StreamIds -> Nat]
  BY DEF IInv, LedgerInv
<1>2. streams'[id] = r /\ fields'[id] = StreamFields
  BY <1>1 DEF save_stream
<1>3. \A i \in StreamIds \ {id} : streams'[i] = streams[i] /\ fields'[i] = fields[i]
  BY <1>1 DEF save_stream
<1> QED
  BY <1>2, <1>3, DecodeSaved DEF try_load_stream

(* A step that leaves storage alone changes no record. *)
LEMMA Untouched ==
  ASSUME UNCHANGED stored
  PROVE  \A i \in StreamIds : (try_load_stream(i))' = try_load_stream(i)
BY DEF stored, try_load_stream

(* The numbers of a live record: its claim, and the record it becomes. *)
LEMMA LiveNumbers ==
  ASSUME IInv, NEW id \in StreamIds, NEW s, s = try_load_stream(id), s # NoStream
  PROVE  /\ s \in Stream /\ Coherent(s, now) /\ Vestable(s)
         /\ now \in Nat /\ now \in Time
         /\ Claim(s) \in Nat /\ Claim(s) <= s.deposited_amount - s.withdrawn_amount
         /\ s.deposited_amount \in Nat /\ s.withdrawn_amount \in Nat
         /\ s.deposited_amount <= I128_MAX /\ s.withdrawn_amount <= s.deposited_amount
         /\ s.rate_per_second \in Nat /\ s.last_update_time \in Nat
<1>1. s \in Stream /\ Coherent(s, now) /\ now \in Nat /\ now \in Time
  BY LoadedFacts
<1>2. Claim(s) \in 0..(s.deposited_amount - s.withdrawn_amount)
  BY <1>1, ClaimCovered DEF Claim
<1>3. /\ s.deposited_amount \in Nat /\ s.withdrawn_amount \in Nat
      /\ s.deposited_amount <= I128_MAX /\ s.withdrawn_amount <= s.deposited_amount
      /\ s.last_update_time \in Nat
  BY <1>1, StreamNumbers
<1>4. s.rate_per_second \in Nat
  BY <1>1, WidthAssumption DEF Stream, Amount
<1> QED
  BY <1>1, <1>2, <1>3, <1>4, CoherentVestable

(* A call that saves a record for a live stream. *)
LEMMA LiveStep ==
  ASSUME IInv, NEW id \in StreamIds, NEW s, s = try_load_stream(id), s # NoStream, s.is_active,
         NEW x \in Stream, Replaced(s, x), save_stream(id, x), now' = now
  PROVE  \A i \in StreamIds : RecordStep(i, try_load_stream(i), (try_load_stream(i))')
<1>1. x # NoStream
  BY NoneAssumption
<1>2. /\ (try_load_stream(id))' = ReadBack(x)
      /\ \A i \in StreamIds \ {id} : (try_load_stream(i))' = try_load_stream(i)
  BY <1>1, SaveLoads
<1> QED
  BY <1>2 DEF RecordStep

(* top_up_stream replaces one record by its topped-up form. *)
LEMMA TopUpSteps ==
  ASSUME IInv, NEW sender \in Addr, NEW id \in StreamIds, NEW amount \in TopUps,
         top_up_stream(sender, id, amount)
  PROVE  \A i \in StreamIds : RecordStep(i, try_load_stream(i), (try_load_stream(i))')
<1> DEFINE s == try_load_stream(id)
           net == amount - fee_on(amount)
           r == topped_up(s, net)
<1>1. /\ amount > 0 /\ s # NoStream /\ s.is_active /\ r.deposited_amount <= I128_MAX
      /\ save_stream(id, r) /\ now' = now
  BY DEF top_up_stream
<1>2. s \in Stream /\ s.deposited_amount \in Nat /\ config \in ProtocolConfig \cup {NoConfig}
  BY <1>1, LiveNumbers, LoadedFacts
<1>3. amount \in Nat \ {0}
  BY <1>1, InputAssumption, WidthAssumption
<1>4. net \in Nat \ {0}
  BY <1>2, <1>3, FeeBounds
<1> HIDE DEF net, s
<1>5. r.deposited_amount = s.deposited_amount + net
  BY <1>2 DEF topped_up, Stream
<1>6. r \in Stream
  <2>1. s.deposited_amount + net \in Amount
    BY <1>1, <1>2, <1>4, <1>5 DEF Amount
  <2> QED
    BY <1>2, <2>1 DEF topped_up, Stream
<1>7. Replaced(s, r)
  BY <1>1, <1>4, <1>5 DEF Replaced
<1> HIDE DEF r
<1> QED
  BY <1>1, <1>6, <1>7, LiveStep DEF s

(* withdraw replaces one record by what apply_withdrawal makes of it. *)
LEMMA WithdrawSteps ==
  ASSUME IInv, NEW recipient \in Addr, NEW id \in StreamIds, withdraw(recipient, id)
  PROVE  \A i \in StreamIds : RecordStep(i, try_load_stream(i), (try_load_stream(i))')
<1> DEFINE s == try_load_stream(id)
           r == apply_withdrawal(s, Claim(s))
<1>1. /\ s # NoStream /\ s.is_active /\ ~s.paused /\ Claim(s) > 0
      /\ save_stream(id, r) /\ now' = now
  BY DEF withdraw, Claim
<1>2. /\ s \in Stream /\ Coherent(s, now) /\ now \in Time /\ now \in Nat
      /\ Claim(s) \in Nat \ {0} /\ Claim(s) <= s.deposited_amount - s.withdrawn_amount
  BY <1>1, LiveNumbers
<1>3. r \in Stream
  BY <1>1, <1>2, WithdrawnRecord
<1>4. Replaced(s, r)
  BY <1>1 DEF Replaced
<1> HIDE DEF r
<1> QED
  BY <1>1, <1>3, <1>4, LiveStep

(* cancel_stream replaces one record by its cancelled form. *)
LEMMA CancelSteps ==
  ASSUME IInv, NEW sender \in Addr, NEW id \in StreamIds, cancel_stream(sender, id)
  PROVE  \A i \in StreamIds : RecordStep(i, try_load_stream(i), (try_load_stream(i))')
<1> DEFINE s == try_load_stream(id)
           r == cancelled(s, Claim(s))
<1>1. s # NoStream /\ s.is_active /\ save_stream(id, r) /\ now' = now
  BY DEF cancel_stream, Claim
<1>2. /\ s \in Stream /\ now \in Time /\ Claim(s) \in Nat /\ s.withdrawn_amount \in Nat
  BY <1>1, LiveNumbers
<1>3. SatAdd(s.withdrawn_amount, Claim(s)) \in Amount
  BY <1>2, WidthAssumption DEF SatAdd, Least, Amount
<1>4. r \in Stream
  BY <1>2, <1>3 DEF cancelled, Stream, StreamStatus, NONE
<1>5. Replaced(s, r)
  BY DEF Replaced
<1> HIDE DEF r
<1> QED
  BY <1>1, <1>4, <1>5, LiveStep

(* pause_stream replaces one record by its paused form. *)
LEMMA PauseSteps ==
  ASSUME IInv, NEW sender \in Addr, NEW id \in StreamIds, pause_stream(sender, id)
  PROVE  \A i \in StreamIds : RecordStep(i, try_load_stream(i), (try_load_stream(i))')
<1> DEFINE s == try_load_stream(id)
<1>1. s # NoStream /\ s.is_active /\ ~s.paused /\ save_stream(id, Paused(s)) /\ now' = now
  BY DEF pause_stream, Paused
<1>2. s \in Stream /\ now \in Time
  BY <1>1, LiveNumbers
<1>3. Paused(s) \in Stream
  BY <1>2 DEF Paused, Stream, StreamStatus
<1>4. Replaced(s, Paused(s))
  BY <1>1 DEF Replaced
<1> QED
  BY <1>1, <1>3, <1>4, LiveStep

(* resume_stream replaces one record by its resumed form. *)
LEMMA ResumeSteps ==
  ASSUME IInv, NEW sender \in Addr, NEW id \in StreamIds, resume_stream(sender, id)
  PROVE  \A i \in StreamIds : RecordStep(i, try_load_stream(i), (try_load_stream(i))')
<1> DEFINE s == try_load_stream(id)
           at == IF s.paused_at # NONE THEN s.paused_at ELSE now
           anchor == SatAddTime(s.last_update_time, SatSubTime(now, at))
<1>1. s # NoStream /\ s.is_active /\ s.paused /\ save_stream(id, resumed(s)) /\ now' = now
  BY DEF resume_stream
<1>2. s \in Stream /\ now \in Time /\ s.last_update_time \in Nat /\ s.paused_at \in Int
  BY <1>1, LiveNumbers, StreamNumbers
<1>3. anchor \in Time
  BY <1>2, WidthAssumption DEF SatAddTime, SatSubTime, Least, Greatest, Time
<1>4. resumed(s) = [s EXCEPT !.last_update_time = anchor, !.paused = FALSE, !.paused_at = NONE,
                             !.status = "Active"]
  BY DEF resumed
<1> HIDE DEF anchor
<1>5. resumed(s) \in Stream
  BY <1>2, <1>3, <1>4 DEF Stream, StreamStatus
<1>6. Replaced(s, resumed(s))
  BY <1>1 DEF Replaced
<1> QED
  BY <1>1, <1>5, <1>6, LiveStep

(* close_stream prunes one settled record. *)
LEMMA CloseSteps ==
  ASSUME IInv, NEW caller \in Addr, NEW id \in StreamIds, close_stream(caller, id)
  PROVE  \A i \in StreamIds : RecordStep(i, try_load_stream(i), (try_load_stream(i))')
<1>1. /\ try_load_stream(id) # NoStream /\ ~try_load_stream(id).is_active
      /\ remove_stream(id) /\ now' = now
  BY DEF close_stream
<1>2. streams \in [StreamIds -> Stream \cup {NoStream}] /\ fields \in [StreamIds -> Nat]
  BY DEF IInv, LedgerInv
<1>3. (try_load_stream(id))' = NoStream
  BY <1>1, <1>2 DEF remove_stream, try_load_stream, decode_stream
<1>4. \A i \in StreamIds \ {id} : (try_load_stream(i))' = try_load_stream(i)
  BY <1>1, <1>2 DEF remove_stream, try_load_stream
<1> QED
  BY <1>1, <1>3, <1>4 DEF RecordStep

(* A creating call fills the next id, which nothing was stored under. *)
LEMMA OpenSteps ==
  ASSUME IInv, NEW sender \in Senders, NEW recipient \in Recipients, NEW token,
         NEW amount \in Amounts, NEW rate \in Amount, NEW schedule \in Schedule, NEW event,
         open_stream(sender, recipient, token, amount, rate, schedule, event),
         schedule.kind = "Linear" => rate > 0
  PROVE  \A i \in StreamIds : RecordStep(i, try_load_stream(i), (try_load_stream(i))')
<1>0. PICK id : id = next_stream_id
  OBVIOUS
<1> DEFINE net == amount - fee_on(amount)
           r == new_stream(sender, recipient, token, rate, net, schedule)
<1>1. /\ sender \in Addr /\ recipient \in Holder /\ token \in Tokens
      /\ amount \in Nat \ {0} /\ amount <= I128_MAX
  BY InputAssumption, WidthAssumption DEF open_stream, validate_token_contract
<1>2. /\ id = stream_counter + 1 /\ id <= MaxStreams /\ save_stream(id, r) /\ now' = now
  BY <1>0 DEF open_stream, next_stream_id
<1>3. stream_counter \in 0..MaxStreams /\ config \in ProtocolConfig \cup {NoConfig}
      /\ now \in Time
  BY BoundAssumption, WidthAssumption DEF IInv, InstanceInv, Time
<1>4. fee_on(amount) \in 0..(amount - 1)
  BY <1>1, <1>3, FeeBounds
<1>5. net \in Amount /\ net \in Nat \ {0} /\ rate \in Nat
  BY <1>1, <1>4, WidthAssumption DEF Amount
<1>6. id \in StreamIds /\ id > stream_counter
  BY <1>2, <1>3, BoundAssumption DEF StreamIds
<1>7. try_load_stream(id) = NoStream
  BY <1>6 DEF IInv, InstanceInv, try_load_stream, decode_stream
<1> HIDE DEF net
<1>8. r \in Stream
  BY <1>1, <1>3, <1>5, WidthAssumption DEF new_stream, Stream, Amount, StreamStatus
<1>9. r # NoStream
  BY <1>8, NoneAssumption
<1> HIDE DEF r
<1>10. /\ (try_load_stream(id))' = ReadBack(r)
       /\ \A i \in StreamIds \ {id} : (try_load_stream(i))' = try_load_stream(i)
  BY <1>2, <1>6, <1>9, SaveLoads
<1>11. RecordStep(id, try_load_stream(id), (try_load_stream(id))')
  BY <1>2, <1>5, <1>6, <1>7, <1>10, Zenon DEF RecordStep, r
<1>12. ASSUME NEW i \in StreamIds \ {id}
       PROVE  RecordStep(i, try_load_stream(i), (try_load_stream(i))')
  BY <1>2, <1>10 DEF RecordStep
<1> QED
  BY <1>11, <1>12

(* The three create entrypoints open a stream under a fresh id. *)
LEMMA CreateSteps ==
  ASSUME IInv, Create
  PROVE  \A i \in StreamIds : RecordStep(i, try_load_stream(i), (try_load_stream(i))')
<1>1. PICK sender \in Senders, recipient \in Recipients, token \in Tokens \cup Holder,
           amount \in Amounts :
        \/ \E d \in Durations : create_stream(sender, recipient, token, amount, d)
        \/ \E steps \in StepSchedules :
             create_step_vesting_stream(sender, recipient, token, amount, steps)
        \/ \E cliff \in Cliffs :
             create_hybrid_cliff_stream(sender, recipient, token, amount, cliff)
  BY DEF Create
<1> DEFINE net == amount - fee_on(amount)
<1>2. ASSUME amount > 0 PROVE net \in Nat \ {0} /\ net <= I128_MAX
  <2>1. amount \in Nat \ {0} /\ amount <= I128_MAX
    BY <1>2, InputAssumption, WidthAssumption
  <2>2. fee_on(amount) \in 0..(amount - 1)
    BY <2>1, FeeBounds DEF IInv, InstanceInv
  <2> QED
    BY <2>1, <2>2, WidthAssumption
<1> HIDE DEF net
<1>3. ASSUME NEW d \in Durations, create_stream(sender, recipient, token, amount, d)
      PROVE  \A i \in StreamIds : RecordStep(i, try_load_stream(i), (try_load_stream(i))')
  <2> DEFINE rate == net \div d
  <2>1. /\ d > 0 /\ rate # 0 /\ amount > 0
        /\ open_stream(sender, recipient, token, amount, rate, Linear, "stream_created")
    BY <1>3 DEF create_stream, open_stream, net
  <2>2. d \in Nat \ {0}
    BY <2>1, InputAssumption, WidthAssumption DEF Time
  <2>3. rate \in 0..net
    BY <1>2, <2>1, <2>2, DivBounds
  <2>4. rate \in Amount /\ rate > 0
    BY <1>2, <2>1, <2>3, WidthAssumption DEF Amount
  <2>5. Linear \in Schedule
    BY DEF Schedule
  <2> HIDE DEF rate
  <2> QED
    BY <2>1, <2>4, <2>5, OpenSteps
<1>4. ASSUME NEW steps \in StepSchedules,
             create_step_vesting_stream(sender, recipient, token, amount, steps)
      PROVE  \A i \in StreamIds : RecordStep(i, try_load_stream(i), (try_load_stream(i))')
  <2>1. open_stream(sender, recipient, token, amount, 0, StepTranches(steps),
                    "step_vesting_stream_created")
    BY <1>4 DEF create_step_vesting_stream
  <2>2. StepTranches(steps) \in Schedule /\ StepTranches(steps).kind = "StepTranches"
    BY InputAssumption DEF Schedule, StepTranches
  <2>3. 0 \in Amount
    BY WidthAssumption DEF Amount
  <2> QED
    BY <2>1, <2>2, <2>3, OpenSteps
<1>5. ASSUME NEW cliff \in Cliffs,
             create_hybrid_cliff_stream(sender, recipient, token, amount, cliff)
      PROVE  \A i \in StreamIds : RecordStep(i, try_load_stream(i), (try_load_stream(i))')
  <2> DEFINE tail == net - cliff.cliff_unlock_amount
             rate == tail \div cliff.linear_duration
             schedule == HybridCliffLinear(cliff.cliff_time, cliff.cliff_unlock_amount)
  <2>1. /\ cliff.linear_duration > 0 /\ cliff.cliff_unlock_amount < net /\ amount > 0
        /\ open_stream(sender, recipient, token, amount, rate, schedule,
                       "hybrid_cliff_stream_created")
    BY <1>5 DEF create_hybrid_cliff_stream, open_stream, net
  <2>2. /\ cliff.cliff_time \in Time /\ cliff.cliff_unlock_amount \in Amount
        /\ cliff.linear_duration \in Time
    BY InputAssumption
  <2>3. cliff.linear_duration \in Nat \ {0}
    BY <2>1, <2>2, WidthAssumption DEF Time
  <2>4. tail \in Nat /\ tail <= I128_MAX
    BY <1>2, <2>1, <2>2, WidthAssumption DEF Amount
  <2>5. rate \in 0..tail
    BY <2>3, <2>4, DivBounds
  <2>6. rate \in Amount
    BY <2>4, <2>5, WidthAssumption DEF Amount
  <2>7. schedule \in Schedule /\ schedule.kind = "HybridCliffLinear"
    BY <2>2 DEF Schedule, HybridCliffLinear
  <2> HIDE DEF rate, schedule
  <2> QED
    BY <2>1, <2>6, <2>7, OpenSteps
<1> QED
  BY <1>1, <1>3, <1>4, <1>5

-----------------------------------------------------------------------------
(* The record a withdrawal leaves, field by field. *)
LEMMA WithdrawnFields ==
  ASSUME NEW s \in Stream, NEW amount
  PROVE  LET r == apply_withdrawal(s, amount) IN
         /\ r.withdrawn_amount = s.withdrawn_amount + amount /\ r.last_update_time = now
         /\ r.is_active = (s.is_active /\ ~(s.withdrawn_amount + amount >= s.deposited_amount))
         /\ r.status = IF s.withdrawn_amount + amount >= s.deposited_amount
                       THEN "Completed" ELSE s.status
         /\ r.deposited_amount = s.deposited_amount /\ r.schedule = s.schedule
         /\ r.rate_per_second = s.rate_per_second
         /\ r.paused = s.paused /\ r.paused_at = s.paused_at
<1> DEFINE w == s.withdrawn_amount + amount
           drained == w >= s.deposited_amount
           active == s.is_active /\ ~drained
           status == IF drained THEN "Completed" ELSE s.status
<1>1. apply_withdrawal(s, amount) = [s EXCEPT !.withdrawn_amount = w, !.last_update_time = now,
                                              !.is_active = active, !.status = status]
  BY DEF apply_withdrawal
<1> HIDE DEF w, drained, active, status
<1>2. LET r == apply_withdrawal(s, amount) IN
      /\ r.withdrawn_amount = w /\ r.last_update_time = now
      /\ r.is_active = active /\ r.status = status
      /\ r.deposited_amount = s.deposited_amount /\ r.schedule = s.schedule
      /\ r.rate_per_second = s.rate_per_second
      /\ r.paused = s.paused /\ r.paused_at = s.paused_at
  BY <1>1 DEF Stream
<1> QED
  BY <1>2, Zenon DEF w, drained, active, status

(* A withdrawal takes all there is: a stream it leaves live has nothing to  *)
(* claim at the same moment, whatever its schedule.                         *)
LEMMA ClaimAgain ==
  ASSUME NEW s \in Stream, now \in Nat, now \in Time, Coherent(s, now), s.is_active, ~s.paused,
         Claim(s) > 0, apply_withdrawal(s, Claim(s)).is_active
  PROVE  Claim(apply_withdrawal(s, Claim(s))) = 0
<1> DEFINE amount == Claim(s)
           r == apply_withdrawal(s, amount)
           rem == s.deposited_amount - s.withdrawn_amount
           left == rem - amount
<1>1. amount \in 0..rem
  BY ClaimCovered DEF Claim
<1>2. s.deposited_amount \in Nat /\ s.withdrawn_amount \in Nat /\ s.rate_per_second \in Nat
      /\ s.withdrawn_amount <= s.deposited_amount
  BY StreamNumbers, WidthAssumption DEF Stream, Amount
<1>3. amount \in Nat \ {0} /\ rem \in Nat /\ left \in Nat
  BY <1>1, <1>2
<1> HIDE DEF amount
<1>4. /\ r.withdrawn_amount = s.withdrawn_amount + amount /\ r.last_update_time = now
      /\ r.is_active = (s.is_active /\ ~(s.withdrawn_amount + amount >= s.deposited_amount))
      /\ r.deposited_amount = s.deposited_amount /\ r.schedule = s.schedule
      /\ r.rate_per_second = s.rate_per_second
      /\ r.paused = s.paused /\ r.paused_at = s.paused_at
  BY WithdrawnFields
<1>5. amount < rem
  <2>1. r.is_active
    BY DEF amount
  <2>2. ~(s.withdrawn_amount + amount >= s.deposited_amount)
    BY <1>4, <2>1
  <2> QED
    BY <1>2, <1>3, <2>2
<1>6. Vestable(s) /\ effective_now(s, now) = now /\ effective_now(r, now) = now
  BY <1>4, CoherentVestable DEF effective_now
<1> HIDE DEF r
<1>7. remaining(s) = rem /\ remaining(r) = left
  BY <1>2, <1>3, <1>4 DEF remaining, Greatest
<1>8. CASE s.schedule.kind = "Linear"
  <2>1. calculate_claimable(r, now) = dripped(SatSubTime(now, now), r.rate_per_second, left)
    BY <1>4, <1>6, <1>7, <1>8 DEF calculate_claimable
  <2>2. SatSubTime(now, now) = 0
    BY DEF SatSubTime, Greatest
  <2>3. 0 * r.rate_per_second = 0
    BY <1>2, <1>4
  <2>4. dripped(0, r.rate_per_second, left) = 0
    BY <1>3, <2>3, WidthAssumption DEF dripped, Least
  <2> QED
    BY <2>1, <2>2, <2>4 DEF Claim, amount, r
<1>9. ASSUME NEW x \in Int, amount = Least(Greatest(x - s.withdrawn_amount, 0), rem)
      PROVE  Least(Greatest(x - r.withdrawn_amount, 0), left) = 0
  <2>1. amount = x - s.withdrawn_amount
    BY <1>2, <1>3, <1>5, <1>9 DEF Least, Greatest
  <2>2. x - r.withdrawn_amount = 0
    BY <1>2, <1>3, <1>4, <2>1
  <2> QED
    BY <1>3, <2>2 DEF Least, Greatest
<1>10. CASE s.schedule.kind = "StepTranches"
  <2> DEFINE x == unlocked_steps(s.schedule.steps, now)
  <2>1. x \in Int
    BY <1>6, <1>10, UnlockedStepsNat DEF Vestable
  <2>2. /\ calculate_claimable(s, now) = Least(Greatest(x - s.withdrawn_amount, 0), rem)
        /\ calculate_claimable(r, now) = Least(Greatest(x - r.withdrawn_amount, 0), left)
    BY <1>4, <1>6, <1>7, <1>10 DEF calculate_claimable
  <2> HIDE DEF x
  <2> QED
    BY <1>9, <2>1, <2>2 DEF Claim, amount, r
<1>11. CASE s.schedule.kind = "HybridCliffLinear"
  <2> DEFINE cliff == s.schedule.cliff_unlock_amount
             tail == s.deposited_amount - cliff
             drip == dripped(SatSubTime(now, s.schedule.cliff_time), s.rate_per_second, tail)
             x == SatAdd(cliff, drip)
  <2>1. unlocked_hybrid(s, now) = x /\ unlocked_hybrid(r, now) = x
    BY <1>4 DEF unlocked_hybrid
  <2>2. /\ calculate_claimable(s, now) = IF now < s.schedule.cliff_time THEN 0
                                         ELSE Least(Greatest(x - s.withdrawn_amount, 0), rem)
        /\ calculate_claimable(r, now) = IF now < s.schedule.cliff_time THEN 0
                                         ELSE Least(Greatest(x - r.withdrawn_amount, 0), left)
    BY <1>4, <1>6, <1>7, <1>11, <2>1 DEF calculate_claimable
  <2>3. cliff \in Nat /\ tail \in Nat /\ s.schedule.cliff_time \in Nat
    BY <1>2, <1>6, <1>11 DEF Vestable
  <2>4. SatSubTime(now, s.schedule.cliff_time) \in Nat
    BY <2>3 DEF SatSubTime, Greatest
  <2>5. drip \in 0..tail
    BY <1>2, <2>3, <2>4, DrippedBounds
  <2> HIDE DEF drip
  <2>6. x \in Int
    BY <2>3, <2>5, WidthAssumption DEF SatAdd, Least
  <2> HIDE DEF x
  <2> QED
    BY <1>9, <2>2, <2>6 DEF Claim, amount, r
<1> QED
  BY <1>6, <1>8, <1>10, <1>11 DEF Vestable

-----------------------------------------------------------------------------
(* A batch: each stream is as it was, or was withdrawn from once. *)
PaidOnce(s, r) ==
  \/ r = s
  \/ /\ s # NoStream /\ s.is_active /\ ~s.paused /\ Claim(s) > 0
     /\ r = ReadBack(apply_withdrawal(s, Claim(s)))

BatchStory(acc) ==
  acc.ok =>
    /\ \A i \in StreamIds : PaidOnce(try_load_stream(i), Loaded(acc.streams, acc.fields, i))
    /\ \A token \in Tokens : acc.balance[token][Contract] <= balance[token][Contract]
    /\ \A i \in StreamIds : acc.streams[i] # NoStream =>
         streams[i] # NoStream /\ acc.fields[i] \in {fields[i], StreamFields}

(* One id of a batch pays its stream, or finds nothing to pay. *)
LEMMA BatchStepTells ==
  ASSUME IInv, NEW acc, BatchInv(acc), BatchStory(acc), NEW recipient \in Addr,
         NEW id \in StreamIds
  PROVE  BatchStory(batch_step(acc, recipient, id))
<1>1. PICK st, fl, b, ok, es :
        /\ acc = [streams |-> st, fields |-> fl, balance |-> b, ok |-> ok, events |-> es]
        /\ ok => /\ LedgerInv(st, fl, b, now)
                 /\ \A i \in StreamIds : i > stream_counter => st[i] = NoStream
  BY DEF BatchInv
<1> DEFINE s == Loaded(st, fl, id)
           amount == calculate_claimable(s, now)
           t == apply_withdrawal(s, amount)
           es2 == es \o withdrawal_events(id, t, amount)
           c == Transfer(b, s.token_address, Contract, recipient, amount)
           ok2 == ok /\ b[s.token_address][Contract] >= amount
           st2 == [st EXCEPT ![id] = t]
           fl2 == [fl EXCEPT ![id] = StreamFields]
           next == batch_step(acc, recipient, id)
<1>2. /\ acc.streams = st /\ acc.fields = fl /\ acc.balance = b
      /\ acc.ok = ok /\ acc.events = es
  BY <1>1
<1>3. decode_stream(acc.streams[id], acc.fields[id]) = s
  BY <1>2 DEF Loaded
<1> HIDE DEF s
<1>4. CASE s = NoStream \/ s.recipient # recipient
  <2>1. next = [acc EXCEPT !.ok = FALSE]
    BY <1>3, <1>4, Zenon DEF batch_step
  <2>2. next = [streams |-> st, fields |-> fl, balance |-> b, ok |-> FALSE, events |-> es]
    BY <1>1, <2>1
  <2>3. next.ok = FALSE
    BY <2>2
  <2> QED
    BY <2>3, Zenon DEF BatchStory
<1>5. CASE /\ ~(s = NoStream \/ s.recipient # recipient)
           /\ ~s.is_active \/ s.paused \/ amount <= 0
  <2>1. next = acc
    BY <1>3, <1>5, Zenon DEF batch_step
  <2> QED
    BY <2>1, Zenon
<1>6. CASE /\ ~(s = NoStream \/ s.recipient # recipient)
           /\ ~(~s.is_active \/ s.paused \/ amount <= 0)
           /\ ~withdrawal_fits(s, amount)
  <2> DEFINE es3 == acc.events \o withdrawal_events(id, s, amount)
  <2>1. next = [acc EXCEPT !.events = es3]
    BY <1>3, <1>6, Zenon DEF batch_step
  <2> HIDE DEF es3
  <2>2. next = [streams |-> st, fields |-> fl, balance |-> b, ok |-> ok, events |-> es3]
    BY <1>1, <2>1
  <2>3. next.streams = st /\ next.fields = fl /\ next.balance = b /\ next.ok = ok
    BY <2>2
  <2> HIDE DEF next
  <2>4. BatchStory(next)
    BY <1>2, <2>3 DEF BatchStory
  <2> QED
    BY <2>4 DEF next
<1>7. CASE /\ ~(s = NoStream \/ s.recipient # recipient)
           /\ ~(~s.is_active \/ s.paused \/ amount <= 0)
           /\ withdrawal_fits(s, amount)
  <2>1. next = [streams |-> st2, fields |-> fl2, balance |-> c, ok |-> ok2, events |-> es2]
    BY <1>2, <1>3, <1>7, Zenon DEF batch_step
  <2>2. next.streams = st2 /\ next.fields = fl2 /\ next.balance = c /\ next.ok = ok2
    BY <2>1
  <2>3. ASSUME ok2
        PROVE  /\ \A i \in StreamIds : PaidOnce(try_load_stream(i), Loaded(st2, fl2, i))
               /\ \A token \in Tokens : c[token][Contract] <= balance[token][Contract]
               /\ \A i \in StreamIds : st2[i] # NoStream =>
                    streams[i] # NoStream /\ fl2[i] \in {fields[i], StreamFields}
    <3>1. LedgerInv(st, fl, b, now) /\ b[s.token_address][Contract] >= amount
      BY <1>1, <2>3
    <3>2. s \in Stream /\ Coherent(s, now) /\ s # NoStream
      BY <1>7, <3>1, LoadedType DEF LedgerInv, s
    <3>3. /\ s.token_address \in Tokens /\ s.deposited_amount \in Nat
          /\ s.withdrawn_amount \in Nat
      BY <3>2, StreamNumbers
    <3>4. now \in Nat /\ now \in Time /\ balance \in Balances
      BY BoundAssumption, WidthAssumption DEF IInv, InstanceInv, LedgerInv, Time
    <3>5. amount \in 0..(s.deposited_amount - s.withdrawn_amount)
      BY <3>2, <3>4, ClaimCovered
    <3> HIDE DEF amount
    <3>6. amount \in Nat \ {0} /\ amount <= s.deposited_amount - s.withdrawn_amount
      BY <1>7, <3>3, <3>5
    <3>7. t \in Stream /\ t # NoStream
      BY <1>7, <3>2, <3>4, <3>6, WithdrawnRecord, NoneAssumption
    <3>8. /\ Loaded(st2, fl2, id) = ReadBack(t)
          /\ \A i \in StreamIds \ {id} : Loaded(st2, fl2, i) = Loaded(st, fl, i)
      <4> HIDE DEF t
      <4>1. st \in [StreamIds -> Stream \cup {NoStream}] /\ fl \in [StreamIds -> Nat]
        BY <3>1 DEF LedgerInv
      <4>2. st2[id] = t /\ fl2[id] = StreamFields
        BY <4>1
      <4>3. \A i \in StreamIds \ {id} : st2[i] = st[i] /\ fl2[i] = fl[i]
        BY <4>1
      <4> HIDE DEF st2, fl2
      <4> QED
        BY <3>7, <4>2, <4>3, DecodeSaved DEF Loaded
    <3>9. acc.ok /\ \A i \in StreamIds : PaidOnce(try_load_stream(i), Loaded(st, fl, i))
      BY <1>2, <2>3 DEF BatchStory
    <3>10. PaidOnce(try_load_stream(id), s)
      BY <3>9 DEF s
    <3>13. \A i \in StreamIds : st2[i] # NoStream =>
             streams[i] # NoStream /\ fl2[i] \in {fields[i], StreamFields}
      <4>1. st \in [StreamIds -> Stream \cup {NoStream}] /\ fl \in [StreamIds -> Nat]
        BY <3>1 DEF LedgerInv
      <4>2. st[id] # NoStream
        BY <3>2 DEF s, Loaded, decode_stream
      <4>3. \A i \in StreamIds : st[i] # NoStream =>
              streams[i] # NoStream /\ fl[i] \in {fields[i], StreamFields}
        BY <1>2, <3>9 DEF BatchStory
      <4> HIDE DEF t
      <4> QED
        BY <4>1, <4>2, <4>3
    <3>11. CASE s = try_load_stream(id)
      <4>1. PaidOnce(try_load_stream(id), ReadBack(t))
        BY <1>7, <3>2, <3>6, <3>11 DEF PaidOnce, Claim, amount
      <4>2. \A i \in StreamIds : PaidOnce(try_load_stream(i), Loaded(st2, fl2, i))
        <5> HIDE DEF st2, fl2, t
        <5> QED
          BY <3>8, <3>9, <4>1
      <4>3. /\ \A tok \in Tokens : tok # s.token_address => c[tok] = b[tok]
            /\ c[s.token_address][Contract] = b[s.token_address][Contract] - amount
            /\ b \in Balances /\ c \in Balances
        <5>1. b \in Balances /\ recipient \in Holder /\ recipient # Contract /\ Contract \in Holder
          BY <3>1, AddressAssumption DEF LedgerInv, Holder
        <5> QED
          BY <3>1, <3>3, <3>6, <5>1, TransferEffect
      <4> HIDE DEF c
      <4>4. ASSUME NEW token \in Tokens PROVE c[token][Contract] <= balance[token][Contract]
        <5>1. b[token][Contract] <= balance[token][Contract]
          BY <1>2, <3>9 DEF BatchStory
        <5>2. /\ b[token][Contract] \in Nat /\ balance[token][Contract] \in Nat
              /\ c[token][Contract] \in Nat
          BY <3>4, <4>3 DEF Balances, Holder
        <5> QED
          BY <3>6, <4>3, <5>1, <5>2
      <4> QED
        BY <3>13, <4>2, <4>4
    <3>12. CASE s # try_load_stream(id)
      <4> DEFINE o == try_load_stream(id)
      <4>1. /\ o # NoStream /\ o.is_active /\ ~o.paused /\ Claim(o) > 0
            /\ s = ReadBack(apply_withdrawal(o, Claim(o)))
        BY <3>10, <3>12 DEF PaidOnce
      <4>2. s = apply_withdrawal(o, Claim(o))
        BY <3>2, <4>1 DEF ReadBack
      <4>3. o \in Stream /\ Coherent(o, now)
        BY <4>1, LoadedFacts
      <4>4. Claim(s) = 0
        BY <1>7, <3>4, <4>1, <4>2, <4>3, ClaimAgain
      <4> QED
        BY <3>6, <4>4 DEF Claim, amount
    <3> QED
      BY <3>11, <3>12
  <2> HIDE DEF st2, fl2, c, ok2, next
  <2>4. BatchStory(next)
    BY <2>2, <2>3 DEF BatchStory
  <2> QED
    BY <2>4 DEF next
<1> QED
  BY <1>4, <1>5, <1>6, <1>7

(* Along the whole batch, by induction on its length. *)
LEMMA BatchRunTells ==
  ASSUME IInv, NEW recipient \in Addr, NEW ids \in Seq(StreamIds)
  PROVE  BatchStory(batch_run(recipient, ids))
<1> DEFINE N == Len(ids)
           g == CHOOSE f : IsRun(f, recipient, ids, N)
           S == {n \in Nat : n <= N => BatchInv(g[n]) /\ BatchStory(g[n])}
<1>1. N \in Nat /\ \A i \in 1..N : ids[i] \in StreamIds
  OBVIOUS
<1>2. IsRun(g, recipient, ids, N)
  BY <1>1, RunExists
<1>3. batch_run(recipient, ids) = g[N]
  BY DEF batch_run, IsRun
<1> HIDE DEF g, N
<1>4. now \in Time /\ now \in Nat /\ stream_counter \in Nat /\ balance \in Balances
  BY BoundAssumption, WidthAssumption DEF IInv, InstanceInv, LedgerInv, Time
<1>5. 0 \in S
  <2>1. g[0] = batch_start
    BY <1>1, <1>2 DEF IsRun
  <2>2. /\ LedgerInv(streams, fields, balance, now)
        /\ \A i \in StreamIds : i > stream_counter => streams[i] = NoStream
    BY DEF IInv, InstanceInv
  <2>3. BatchInv(g[0])
    BY <2>1, <2>2, Zenon DEF BatchInv, batch_start
  <2>4. g[0].streams = streams /\ g[0].fields = fields /\ g[0].balance = balance
    BY <2>1 DEF batch_start
  <2>5. \A token \in Tokens : balance[token][Contract] <= balance[token][Contract]
    BY <1>4 DEF Balances, Holder
  <2>6. BatchStory(g[0])
    BY <2>4, <2>5 DEF BatchStory, PaidOnce, Loaded, try_load_stream
  <2> QED
    BY <2>3, <2>6
<1>6. ASSUME NEW n \in S PROVE n + 1 \in S
  <2> SUFFICES ASSUME n + 1 <= N PROVE BatchInv(g[n + 1]) /\ BatchStory(g[n + 1])
    BY <1>1
  <2>1. /\ BatchInv(g[n]) /\ BatchStory(g[n]) /\ n + 1 \in 1..N /\ n + 1 \in 0..N
        /\ n + 1 # 0 /\ (n + 1) - 1 = n
    BY <1>1
  <2>2. g[n + 1] = batch_step(g[n], recipient, ids[n + 1])
    BY <1>2, <2>1 DEF IsRun
  <2>3. BatchInv(batch_step(g[n], recipient, ids[n + 1]))
    BY <1>1, <1>4, <2>1, BatchStepKeeps
  <2>4. BatchStory(batch_step(g[n], recipient, ids[n + 1]))
    BY <1>1, <2>1, BatchStepTells
  <2> QED
    BY <2>2, <2>3, <2>4
<1>7. S = Nat
  <2>1. S \in SUBSET Nat
    OBVIOUS
  <2> HIDE DEF S
  <2> QED
    BY <1>5, <1>6, <2>1, SetInduction
<1>8. N \in S
  BY <1>1, <1>7
<1>9. BatchStory(g[N])
  BY <1>1, <1>8
<1> QED
  BY <1>3, <1>9

(* batch_withdraw does to each stream what one withdrawal does, or nothing. *)
LEMMA BatchSteps ==
  ASSUME IInv, NEW recipient \in Addr, NEW ids \in Batches, batch_withdraw(recipient, ids)
  PROVE  /\ \A i \in StreamIds : RecordStep(i, try_load_stream(i), (try_load_stream(i))')
         /\ \A token \in Tokens : balance'[token][Contract] <= balance[token][Contract]
         /\ \A i \in StreamIds : streams'[i] # NoStream =>
              streams[i] # NoStream /\ fields'[i] \in {fields[i], StreamFields}
<1> DEFINE done == batch_run(recipient, ids)
<1>1. BatchStory(done)
  BY InputAssumption, BatchRunTells
<1>2. /\ done.ok /\ streams' = done.streams /\ fields' = done.fields /\ balance' = done.balance
      /\ now' = now
  BY DEF batch_withdraw
<1>3. /\ \A i \in StreamIds : PaidOnce(try_load_stream(i), Loaded(streams', fields', i))
      /\ \A token \in Tokens : balance'[token][Contract] <= balance[token][Contract]
      /\ \A i \in StreamIds : streams'[i] # NoStream =>
           streams[i] # NoStream /\ fields'[i] \in {fields[i], StreamFields}
  <2> HIDE DEF done
  <2> QED
    BY <1>1, <1>2 DEF BatchStory
<1> HIDE DEF done
<1>4. ASSUME NEW i \in StreamIds
      PROVE  RecordStep(i, try_load_stream(i), (try_load_stream(i))')
  <2>1. (try_load_stream(i))' = Loaded(streams', fields', i)
    BY DEF try_load_stream, Loaded
  <2> DEFINE s == try_load_stream(i)
             x == apply_withdrawal(s, Claim(s))
  <2>2. PaidOnce(s, (try_load_stream(i))')
    BY <1>3, <2>1
  <2>3. CASE (try_load_stream(i))' = s
    BY <1>2, <2>3 DEF RecordStep
  <2>4. CASE /\ s # NoStream /\ s.is_active /\ ~s.paused /\ Claim(s) > 0
             /\ (try_load_stream(i))' = ReadBack(x)
    <3>1. /\ s \in Stream /\ Coherent(s, now) /\ now \in Nat /\ now \in Time
          /\ Claim(s) \in Nat \ {0} /\ Claim(s) <= s.deposited_amount - s.withdrawn_amount
      BY <2>4, LiveNumbers
    <3>2. x \in Stream
      BY <2>4, <3>1, WithdrawnRecord
    <3>3. Replaced(s, x)
      BY <2>4 DEF Replaced
    <3> HIDE DEF x
    <3> QED
      BY <1>2, <2>4, <3>2, <3>3 DEF RecordStep
  <2> QED
    BY <2>2, <2>3, <2>4 DEF PaidOnce
<1> QED
  BY <1>3, <1>4

-----------------------------------------------------------------------------
(* The whole next-state relation, seen from one id. *)
LEMMA EveryStep ==
  ASSUME IInv, [Next]_vars
  PROVE  \A i \in StreamIds : RecordStep(i, try_load_stream(i), (try_load_stream(i))')
<1>1. ASSUME UNCHANGED stored, now' \in {now, now + 1}
      PROVE  \A i \in StreamIds : RecordStep(i, try_load_stream(i), (try_load_stream(i))')
  BY <1>1, Untouched DEF RecordStep
<1>2. CASE Create
  BY <1>2, CreateSteps
<1>3. CASE Operate
  <2>1. PICK caller \in Addr :
          \/ \E id \in StreamIds :
               \/ \E amount \in TopUps : top_up_stream(caller, id, amount)
               \/ withdraw(caller, id)
               \/ cancel_stream(caller, id)
               \/ close_stream(caller, id)
               \/ pause_stream(caller, id)
               \/ resume_stream(caller, id)
          \/ \E ids \in Batches : batch_withdraw(caller, ids)
    BY <1>3, Zenon DEF Operate
  <2> QED
    BY <2>1, TopUpSteps, WithdrawSteps, CancelSteps, CloseSteps, PauseSteps, ResumeSteps,
       BatchSteps
<1>4. CASE Administer
  <2>1. UNCHANGED stored /\ now' = now
    BY <1>4 DEF Administer, initialize, update_fee_config, transfer_admin, set_protocol_pause,
                set_emergency_guardian, upgrade, migrate
  <2> QED
    BY <1>1, <2>1
<1>5. CASE Tick
  BY <1>1, <1>5 DEF Tick
<1>6. CASE UNCHANGED vars
  BY <1>1, <1>6 DEF vars, stored
<1> QED
  BY <1>2, <1>3, <1>4, <1>5, <1>6 DEF Next

(* A record that was settled, or an id whose record is gone, stays so. *)
LEMMA SettledStep ==
  ASSUME IInv, [Next]_vars, NEW id \in StreamIds, NEW s, s = try_load_stream(id)
  PROVE  IF s = NoStream THEN id <= stream_counter => (try_load_stream(id))' = NoStream
         ELSE ~s.is_active => (try_load_stream(id))' \in {s, NoStream}
<1>1. RecordStep(id, s, (try_load_stream(id))')
  BY EveryStep
<1>2. id > stream_counter => ~(id <= stream_counter)
  BY BoundAssumption DEF IInv, InstanceInv, StreamIds
<1> QED
  BY <1>1, <1>2 DEF RecordStep

(* A completed or cancelled record is never changed again, only pruned by
   close_stream, and a pruned id is never handed out again by next_stream_id. *)
THEOREM SettledStaysSettled == Spec => SettledForGood
<1>1. IInv /\ [Next]_vars => IInv'
  BY NextKeepsIInv
<1>2. IInv /\ [Next]_vars =>
        [\A id \in StreamIds :
           LET s == try_load_stream(id)
           IN  IF s = NoStream THEN id <= stream_counter => (try_load_stream(id))' = NoStream
               ELSE ~s.is_active => (try_load_stream(id))' \in {s, NoStream}]_vars
  BY SettledStep
<1> QED
  BY <1>1, <1>2, InitIInv, PTL DEF Spec, SettledForGood

-----------------------------------------------------------------------------
(* The records the other calls leave, field by field. *)
LEMMA ToppedUpFields ==
  ASSUME NEW s \in Stream, NEW net
  PROVE  LET r == topped_up(s, net) IN
         /\ r.deposited_amount = s.deposited_amount + net
         /\ r.withdrawn_amount = s.withdrawn_amount /\ r.is_active = s.is_active
         /\ r.status = s.status /\ r.schedule = s.schedule /\ r.paused = s.paused
         /\ r.paused_at = s.paused_at /\ r.last_update_time = s.last_update_time
         /\ r.rate_per_second = s.rate_per_second
BY DEF topped_up, Stream

(* Cancelling pays the accrued amount and settles the record. *)
LEMMA CancelledFields ==
  ASSUME NEW s \in Stream, NEW amount \in Nat, s.withdrawn_amount \in Nat,
         s.withdrawn_amount + amount <= I128_MAX
  PROVE  LET r == cancelled(s, amount) IN
         /\ r.withdrawn_amount = s.withdrawn_amount + amount /\ r.is_active = FALSE
         /\ r.status = "Cancelled" /\ r.schedule = s.schedule
         /\ r.deposited_amount = s.deposited_amount
         /\ r.rate_per_second = s.rate_per_second
<1>1. SatAdd(s.withdrawn_amount, amount) = s.withdrawn_amount + amount
  BY DEF SatAdd, Least
<1> QED
  BY <1>1 DEF cancelled, Stream

(* Pausing touches neither the amounts nor the anchor. *)
LEMMA PausedFields ==
  ASSUME NEW s \in Stream
  PROVE  LET r == Paused(s) IN
         /\ r.paused = TRUE /\ r.paused_at = now /\ r.status = "Paused"
         /\ r.withdrawn_amount = s.withdrawn_amount /\ r.is_active = s.is_active
         /\ r.schedule = s.schedule /\ r.deposited_amount = s.deposited_amount
         /\ r.last_update_time = s.last_update_time
         /\ r.rate_per_second = s.rate_per_second
BY DEF Paused, Stream

(* The anchor of a resumed stream moves by exactly the length of the pause. *)
LEMMA ResumedFields ==
  ASSUME NEW s \in Stream, Coherent(s, now), now \in Nat, now \in Time, s.paused
  PROVE  LET r == resumed(s) IN
         /\ r.paused = FALSE /\ r.paused_at = NONE /\ r.status = "Active"
         /\ r.last_update_time = s.last_update_time + now - s.paused_at
         /\ s.paused_at \in Nat /\ s.paused_at <= now /\ s.last_update_time <= s.paused_at
         /\ r.withdrawn_amount = s.withdrawn_amount /\ r.is_active = s.is_active
         /\ r.schedule = s.schedule /\ r.deposited_amount = s.deposited_amount
         /\ r.rate_per_second = s.rate_per_second
<1>1. /\ s.paused_at # NONE /\ s.paused_at \in Nat /\ s.last_update_time \in Nat
      /\ s.paused_at <= now /\ s.last_update_time <= s.paused_at
  BY WidthAssumption DEF Coherent, Stream, Time
<1>2. SatAddTime(s.last_update_time, SatSubTime(now, s.paused_at))
        = s.last_update_time + now - s.paused_at
  BY <1>1, WidthAssumption DEF SatAddTime, SatSubTime, Least, Greatest, Time
<1>3. resumed(s) = [s EXCEPT !.last_update_time = s.last_update_time + now - s.paused_at,
                             !.paused = FALSE, !.paused_at = NONE, !.status = "Active"]
  BY <1>1, <1>2 DEF resumed
<1> QED
  BY <1>1, <1>3 DEF Stream

-----------------------------------------------------------------------------
(* One step never lowers what the recipient of a stream has earned. *)
EarnedAt(s, t) == s.withdrawn_amount + IF s.is_active THEN calculate_claimable(s, t) ELSE 0

(* No record a step leaves has earned less than the one it replaced. *)
LEMMA EarnedStep ==
  ASSUME IInv, [Next]_vars, NEW id \in StreamIds, NEW s, s = try_load_stream(id), s # NoStream,
         NEW r, r = (try_load_stream(id))', r # NoStream
  PROVE  EarnedAt(r, now') >= EarnedAt(s, now)
<1>1. /\ s \in Stream /\ Coherent(s, now) /\ Vestable(s)
      /\ now \in Nat /\ now \in Time
      /\ Claim(s) \in Nat /\ Claim(s) <= s.deposited_amount - s.withdrawn_amount
      /\ s.deposited_amount \in Nat /\ s.withdrawn_amount \in Nat
      /\ s.deposited_amount <= I128_MAX /\ s.withdrawn_amount <= s.deposited_amount
      /\ s.last_update_time \in Nat
  BY LiveNumbers
<1>2. r \in Stream /\ Coherent(r, now') /\ now' \in Nat
  <2>1. IInv'
    BY NextKeepsIInv
  <2>2. LedgerInv(streams', fields', balance', now') /\ now' \in Nat
    BY <2>1, BoundAssumption, WidthAssumption DEF IInv, InstanceInv, Time
  <2>3. r = Loaded(streams', fields', id)
    BY DEF try_load_stream, Loaded
  <2> QED
    BY <2>2, <2>3, LoadedType DEF LedgerInv
<1>3. Vestable(r)
  BY <1>2, CoherentVestable
<1>4. /\ calculate_claimable(r, now') \in Nat /\ r.withdrawn_amount \in Nat
  <2>1. calculate_claimable(r, now') \in 0..(r.deposited_amount - r.withdrawn_amount)
    BY <1>2, <1>3, ClaimableBounds
  <2>2. r.deposited_amount \in Nat /\ r.withdrawn_amount \in Nat
    BY <1>3 DEF Vestable
  <2> QED
    BY <2>1, <2>2
<1>5. RecordStep(id, s, r)
  BY EveryStep
<1>6. ASSUME r.schedule = s.schedule, r.rate_per_second = s.rate_per_second,
             r.withdrawn_amount = s.withdrawn_amount, r.is_active = s.is_active,
             s.deposited_amount <= r.deposited_amount,
             IF s.schedule.kind = "Linear"
             THEN effective_now(s, now) - s.last_update_time
                    <= effective_now(r, now') - r.last_update_time
             ELSE effective_now(s, now) <= effective_now(r, now')
      PROVE  EarnedAt(r, now') >= EarnedAt(s, now)
  <2>1. calculate_claimable(s, now) <= calculate_claimable(r, now')
    BY <1>1, <1>2, <1>3, <1>6, ClaimableMonotone
  <2> QED
    BY <1>1, <1>4, <1>6, <2>1 DEF EarnedAt, Claim
<1>7. CASE r = s /\ now' \in {now, now + 1}
  <2>1. effective_now(s, now) \in Int /\ effective_now(r, now') \in Int
        /\ effective_now(s, now) <= effective_now(r, now')
    BY <1>1, <1>7 DEF effective_now, Vestable
  <2>2. effective_now(s, now) - s.last_update_time <= effective_now(r, now') - r.last_update_time
    BY <1>1, <1>7, <2>1
  <2> QED
    BY <1>1, <1>6, <1>7, <2>1, <2>2
<1>8. CASE now' = now /\ s.is_active /\ \E x : Replaced(s, x) /\ r = ReadBack(x)
  <2>1. Replaced(s, r)
    BY <1>8 DEF ReadBack
  <2>2. effective_now(s, now) \in Int /\ effective_now(s, now) <= effective_now(s, now)
    BY <1>1 DEF effective_now, Vestable
  <2>3. ASSUME NEW net \in Nat \ {0}, r = topped_up(s, net)
        PROVE  EarnedAt(r, now') >= EarnedAt(s, now)
    <3>1. /\ r.deposited_amount = s.deposited_amount + net
          /\ r.withdrawn_amount = s.withdrawn_amount /\ r.is_active = s.is_active
          /\ r.schedule = s.schedule /\ r.paused = s.paused
          /\ r.paused_at = s.paused_at /\ r.last_update_time = s.last_update_time
          /\ r.rate_per_second = s.rate_per_second
      BY <1>1, <2>3, ToppedUpFields
    <3>2. effective_now(r, now') = effective_now(s, now)
      BY <1>8, <3>1 DEF effective_now
    <3> QED
      BY <1>1, <1>6, <2>2, <3>1, <3>2
  <2>4. ASSUME r = apply_withdrawal(s, Claim(s)) PROVE EarnedAt(r, now') >= EarnedAt(s, now)
    <3>1. r.withdrawn_amount = s.withdrawn_amount + Claim(s)
      BY <1>1, <2>4, WithdrawnFields
    <3> QED
      BY <1>1, <1>4, <1>8, <3>1 DEF EarnedAt, Claim
  <2>5. ASSUME r = cancelled(s, Claim(s)) PROVE EarnedAt(r, now') >= EarnedAt(s, now)
    <3>0. s.withdrawn_amount + Claim(s) <= I128_MAX
      BY <1>1, WidthAssumption
    <3>1. r.withdrawn_amount = s.withdrawn_amount + Claim(s)
      BY <1>1, <2>5, <3>0, CancelledFields
    <3> QED
      BY <1>1, <1>4, <1>8, <3>1 DEF EarnedAt, Claim
  <2>6. ASSUME ~s.paused, r = Paused(s) PROVE EarnedAt(r, now') >= EarnedAt(s, now)
    <3>1. /\ r.paused = TRUE /\ r.paused_at = now
          /\ r.withdrawn_amount = s.withdrawn_amount /\ r.is_active = s.is_active
          /\ r.schedule = s.schedule /\ r.deposited_amount = s.deposited_amount
          /\ r.last_update_time = s.last_update_time
          /\ r.rate_per_second = s.rate_per_second
      BY <1>1, <2>6, PausedFields
    <3>2. now # NONE
      BY <1>1 DEF NONE
    <3>3. effective_now(r, now') = now /\ effective_now(s, now) = now
      BY <2>6, <3>1, <3>2 DEF effective_now
    <3> QED
      BY <1>1, <1>6, <2>2, <3>1, <3>3
  <2>7. ASSUME s.paused, r = resumed(s) PROVE EarnedAt(r, now') >= EarnedAt(s, now)
    <3>1. /\ r.paused = FALSE
          /\ r.last_update_time = s.last_update_time + now - s.paused_at
          /\ s.paused_at \in Nat /\ s.paused_at <= now
          /\ r.withdrawn_amount = s.withdrawn_amount /\ r.is_active = s.is_active
          /\ r.schedule = s.schedule /\ r.deposited_amount = s.deposited_amount
          /\ r.rate_per_second = s.rate_per_second
      BY <1>1, <2>7, ResumedFields
    <3>2. s.paused_at # NONE
      BY <3>1 DEF NONE
    <3>3. effective_now(r, now') = now /\ effective_now(s, now) = s.paused_at
      BY <1>8, <2>7, <3>1, <3>2 DEF effective_now
    <3>4. effective_now(s, now) - s.last_update_time <= effective_now(r, now') - r.last_update_time
      BY <1>1, <3>1, <3>3
    <3> QED
      BY <1>1, <1>6, <3>1, <3>3, <3>4
  <2> QED
    BY <2>1, <2>3, <2>4, <2>5, <2>6, <2>7 DEF Replaced
<1> QED
  BY <1>5, <1>7, <1>8 DEF RecordStep

(* Vested is vested: no call and no passing of time lowers what a recipient
   has earned (calculate_claimable over pauses, resumes, top-ups, withdrawals
   and cancellation). *)
THEOREM VestedStaysVested == Spec => EarnedNeverShrinks
<1>1. IInv /\ [Next]_vars => IInv'
  BY NextKeepsIInv
<1>2. ASSUME IInv, [Next]_vars, NEW id \in StreamIds, try_load_stream(id) # NoStream,
             (try_load_stream(id))' # NoStream
      PROVE  (Earned(try_load_stream(id)))' >= Earned(try_load_stream(id))
  <2>1. EarnedAt((try_load_stream(id))', now') >= EarnedAt(try_load_stream(id), now)
    BY <1>2, EarnedStep
  <2> QED
    BY <2>1 DEF EarnedAt, Earned
<1>3. IInv /\ [Next]_vars =>
        [\A id \in StreamIds :
           (try_load_stream(id) # NoStream /\ (try_load_stream(id))' # NoStream)
             => (Earned(try_load_stream(id)))' >= Earned(try_load_stream(id))]_vars
  BY <1>2
<1> QED
  BY <1>1, <1>3, InitIInv, PTL DEF Spec, EarnedNeverShrinks

-----------------------------------------------------------------------------
(* What a step may do while the circuit breaker is engaged. *)
Held ==
  /\ stream_counter' = stream_counter
  /\ \A token \in Tokens : balance'[token][Contract] <= balance[token][Contract]
  /\ \/ is_protocol_paused'
     \/ \E a \in Addr : is_admin(a) /\ events' = <<[type |-> "protocol_pause_status",
                                                  caller |-> a, paused |-> FALSE]>>

(* An engaged breaker stands in a decoded, current configuration. *)
LEMMA EngagedConfig ==
  ASSUME IInv, is_protocol_paused
  PROVE  /\ config # NoConfig /\ try_load_config = config /\ config \in ProtocolConfig
         /\ config.fields = CONFIG_FIELD_COUNT /\ config.is_protocol_paused = TRUE
<1>1. config \in ProtocolConfig \cup {NoConfig}
  BY DEF IInv, InstanceInv
<1>2. try_load_config # NoConfig /\ try_load_config.is_protocol_paused /\ config # NoConfig
  BY DEF is_protocol_paused, try_load_config
<1>3. config \in ProtocolConfig
  BY <1>1, <1>2
<1>4. CASE config.fields # CONFIG_FIELD_COUNT
  <2>1. try_load_config = [config EXCEPT !.fields = CONFIG_FIELD_COUNT,
                      !.is_protocol_paused = FALSE, !.emergency_guardian = NoAddr]
    BY <1>2, <1>4 DEF try_load_config
  <2>2. try_load_config.is_protocol_paused = FALSE
    BY <1>3, <2>1 DEF ProtocolConfig
  <2> QED
    BY <1>2, <2>2
<1>5. CASE config.fields = CONFIG_FIELD_COUNT
  <2>1. try_load_config = config
    BY <1>5 DEF try_load_config
  <2>2. config.is_protocol_paused \in BOOLEAN
    BY <1>3 DEF ProtocolConfig
  <2>3. config.is_protocol_paused = TRUE
    BY <1>2, <2>1, <2>2, Zenon
  <2> QED
    BY <1>2, <1>3, <1>5, <2>1, <2>3
<1> QED
  BY <1>4, <1>5

(* A step that leaves the configuration alone, or writes one that keeps the *)
(* breaker engaged.                                                         *)
LEMMA StaysEngaged ==
  ASSUME config' \in ProtocolConfig, config'.fields = CONFIG_FIELD_COUNT,
         config'.is_protocol_paused = TRUE
  PROVE  is_protocol_paused'
<1>1. config' # NoConfig
  BY NoneAssumption
<1>2. try_load_config' = config'
  BY DEF try_load_config
<1> QED
  BY <1>1, <1>2 DEF is_protocol_paused

(* No call on a stream ends the breaker or brings tokens in under it. *)
LEMMA BreakerOperate ==
  ASSUME IInv, is_protocol_paused, Operate
  PROVE  Held
<1>1. /\ config # NoConfig /\ try_load_config = config /\ config \in ProtocolConfig
      /\ config.fields = CONFIG_FIELD_COUNT /\ config.is_protocol_paused = TRUE
  BY EngagedConfig
<1>2. balance \in Balances /\ now \in Nat /\ now \in Time
  BY BoundAssumption, WidthAssumption DEF IInv, InstanceInv, LedgerInv, Time
<1>3. ASSUME UNCHANGED <<stream_counter, instance>>,
             \A token \in Tokens : balance'[token][Contract] <= balance[token][Contract]
      PROVE  Held
  <2>1. config' = config
    BY <1>3 DEF instance
  <2>2. is_protocol_paused'
    BY <1>1, <2>1, StaysEngaged
  <2> QED
    BY <1>3, <2>2 DEF Held
<1>4. ASSUME UNCHANGED <<stream_counter, instance, balance>> PROVE Held
  <2>1. \A token \in Tokens : balance'[token][Contract] <= balance[token][Contract]
    BY <1>2, <1>4 DEF Balances, Holder
  <2> QED
    BY <1>3, <1>4, <2>1
<1>5. PICK caller \in Addr :
        \/ \E id \in StreamIds :
             \/ \E amount \in TopUps : top_up_stream(caller, id, amount)
             \/ withdraw(caller, id)
             \/ cancel_stream(caller, id)
             \/ close_stream(caller, id)
             \/ pause_stream(caller, id)
             \/ resume_stream(caller, id)
        \/ \E ids \in Batches : batch_withdraw(caller, ids)
  BY Zenon DEF Operate
<1>6. caller \in Holder /\ caller # Contract /\ Contract \in Holder
  BY AddressAssumption DEF Holder
<1>7. ASSUME NEW id \in StreamIds, NEW amount \in TopUps, top_up_stream(caller, id, amount)
      PROVE  Held
  BY <1>7 DEF top_up_stream
<1>8. ASSUME NEW id \in StreamIds, withdraw(caller, id) PROVE Held
  <2> DEFINE s == try_load_stream(id)
             amount == calculate_claimable(s, now)
  <2>1. /\ s # NoStream /\ amount > 0 /\ balance[s.token_address][Contract] >= amount
        /\ balance' = Transfer(balance, s.token_address, Contract, caller, amount)
        /\ UNCHANGED <<stream_counter, instance>>
    BY <1>8 DEF withdraw
  <2>2. s \in Stream /\ amount \in Nat
    BY <2>1, LiveNumbers DEF Claim
  <2>3. s.token_address \in Tokens
    BY <2>2 DEF Stream
  <2> HIDE DEF s, amount
  <2>4. /\ balance' \in Balances
        /\ \A tok \in Tokens : tok # s.token_address => balance'[tok] = balance[tok]
        /\ balance'[s.token_address][Contract] = balance[s.token_address][Contract] - amount
    BY <1>2, <1>6, <2>1, <2>2, <2>3, TransferEffect
  <2>5. \A token \in Tokens : balance'[token][Contract] <= balance[token][Contract]
    BY <1>2, <1>6, <2>2, <2>4 DEF Balances
  <2> QED
    BY <1>3, <2>1, <2>5
<1>9. ASSUME NEW id \in StreamIds, cancel_stream(caller, id) PROVE Held
  <2> DEFINE s == try_load_stream(id)
             accrued == calculate_claimable(s, now)
             r == cancelled(s, accrued)
             refunded == r.deposited_amount - r.withdrawn_amount
             token == s.token_address
             paid == Transfer(balance, token, Contract, s.recipient, accrued)
  <2>1. /\ s # NoStream /\ balance[token][Contract] >= accrued
        /\ paid[token][Contract] >= refunded
        /\ balance' = Transfer(paid, token, Contract, caller, refunded)
        /\ UNCHANGED <<stream_counter, instance>>
    BY <1>9 DEF cancel_stream
  <2>2. /\ s \in Stream /\ accrued \in Nat /\ s.withdrawn_amount \in Nat
        /\ s.deposited_amount \in Nat /\ s.deposited_amount <= I128_MAX
        /\ accrued <= s.deposited_amount - s.withdrawn_amount
    BY <2>1, LiveNumbers DEF Claim
  <2>3. token \in Tokens /\ s.recipient \in Holder
    BY <2>2 DEF Stream
  <2> HIDE DEF s, accrued
  <2>4. s.withdrawn_amount + accrued <= I128_MAX
    BY <2>2, WidthAssumption
  <2>5. r.withdrawn_amount = s.withdrawn_amount + accrued
        /\ r.deposited_amount = s.deposited_amount
    BY <2>2, <2>4, CancelledFields
  <2>6. refunded \in Nat
    BY <2>2, <2>5
  <2> HIDE DEF r, refunded, token
  <2>7. /\ paid \in Balances
        /\ \A tok \in Tokens : tok # token => paid[tok] = balance[tok]
        /\ s.recipient # Contract => paid[token][Contract] = balance[token][Contract] - accrued
        /\ s.recipient = Contract => paid[token][Contract] = balance[token][Contract]
    BY <1>2, <1>6, <2>1, <2>2, <2>3, TransferEffect
  <2> HIDE DEF paid
  <2>8. /\ balance' \in Balances
        /\ \A tok \in Tokens : tok # token => balance'[tok] = paid[tok]
        /\ balance'[token][Contract] = paid[token][Contract] - refunded
    BY <1>6, <2>1, <2>3, <2>6, <2>7, TransferEffect
  <2>9. ASSUME NEW tok \in Tokens PROVE balance'[tok][Contract] <= balance[tok][Contract]
    <3>1. /\ balance'[tok][Contract] \in Nat /\ balance[tok][Contract] \in Nat
          /\ paid[tok][Contract] \in Nat
      BY <1>2, <1>6, <2>7, <2>8 DEF Balances
    <3> QED
      BY <2>2, <2>6, <2>7, <2>8, <3>1
  <2> QED
    BY <1>3, <2>1, <2>9
<1>10. ASSUME NEW id \in StreamIds,
              close_stream(caller, id) \/ pause_stream(caller, id) \/ resume_stream(caller, id)
       PROVE  Held
  BY <1>4, <1>10 DEF close_stream, pause_stream, resume_stream
<1>11. ASSUME NEW ids \in Batches, batch_withdraw(caller, ids) PROVE Held
  <2>1. UNCHANGED <<stream_counter, instance>>
    BY <1>11 DEF batch_withdraw
  <2>2. \A token \in Tokens : balance'[token][Contract] <= balance[token][Contract]
    BY <1>11, BatchSteps
  <2> QED
    BY <1>3, <2>1, <2>2
<1> QED
  BY <1>5, <1>7, <1>8, <1>9, <1>10, <1>11

(* Of the administration, only set_protocol_pause ends the breaker. *)
LEMMA BreakerAdminister ==
  ASSUME IInv, is_protocol_paused, Administer
  PROVE  Held
<1>1. /\ config # NoConfig /\ try_load_config = config /\ config \in ProtocolConfig
      /\ config.fields = CONFIG_FIELD_COUNT /\ config.is_protocol_paused = TRUE
  BY EngagedConfig
<1>2. PICK caller \in Addr :
        \/ \E treasury \in Treasuries, bps \in FeeRates :
             \/ initialize(caller, treasury, bps)
             \/ update_fee_config(caller, treasury, bps)
        \/ \E a \in Addr : transfer_admin(caller, a)
        \/ \E p \in BOOLEAN : set_protocol_pause(caller, p)
        \/ \E g \in Addr \cup {NoAddr} : set_emergency_guardian(caller, g)
        \/ \E h \in WasmHashes : upgrade(caller, h)
        \/ \E v \in Versions : migrate(caller, v)
  BY DEF Administer
<1>3. UNCHANGED <<stream_counter, balance>>
  BY <1>2 DEF initialize, update_fee_config, transfer_admin, set_protocol_pause,
              set_emergency_guardian, upgrade, migrate
<1>4. \A token \in Tokens : balance'[token][Contract] <= balance[token][Contract]
  BY <1>3 DEF IInv, LedgerInv, Balances, Holder
<1>5. ASSUME config' \in ProtocolConfig, config'.fields = CONFIG_FIELD_COUNT,
             config'.is_protocol_paused = TRUE
      PROVE  Held
  BY <1>3, <1>4, <1>5, StaysEngaged DEF Held
<1>6. ASSUME config' = config PROVE Held
  BY <1>1, <1>5, <1>6
<1>7. ASSUME NEW treasury \in Treasuries, NEW bps \in FeeRates,
             initialize(caller, treasury, bps)
      PROVE  Held
  BY <1>1, <1>7 DEF initialize
<1>8. ASSUME NEW treasury \in Treasuries, NEW bps \in FeeRates,
             update_fee_config(caller, treasury, bps)
      PROVE  Held
  <2>1. bps <= MAX_FEE_RATE_BPS
    BY <1>8, Zenon DEF update_fee_config
  <2>2. treasury \in Holder /\ bps \in 0..MAX_FEE_RATE_BPS
    BY <2>1, InputAssumption DEF MAX_FEE_RATE_BPS
  <2>3. config' = [config EXCEPT !.treasury = treasury, !.fee_rate_bps = bps]
    BY <1>1, <1>8 DEF update_fee_config, save_config
  <2>4. /\ config' \in ProtocolConfig /\ config'.fields = CONFIG_FIELD_COUNT
        /\ config'.is_protocol_paused = TRUE
    BY <1>1, <2>2, <2>3 DEF ProtocolConfig
  <2> QED
    BY <1>5, <2>4
<1>9. ASSUME NEW a \in Addr, transfer_admin(caller, a) PROVE Held
  <2>1. config' = [config EXCEPT !.admin = a]
    BY <1>1, <1>9 DEF transfer_admin, save_config
  <2>2. /\ config' \in ProtocolConfig /\ config'.fields = CONFIG_FIELD_COUNT
        /\ config'.is_protocol_paused = TRUE
    BY <1>1, <2>1 DEF ProtocolConfig
  <2> QED
    BY <1>5, <2>2
<1>10. ASSUME set_protocol_pause(caller, TRUE) PROVE Held
  <2>1. config' = [config EXCEPT !.is_protocol_paused = TRUE]
    BY <1>1, <1>10 DEF set_protocol_pause, save_config
  <2>2. /\ config' \in ProtocolConfig /\ config'.fields = CONFIG_FIELD_COUNT
        /\ config'.is_protocol_paused = TRUE
    BY <1>1, <2>1 DEF ProtocolConfig
  <2> QED
    BY <1>5, <2>2
<1>11. ASSUME set_protocol_pause(caller, FALSE) PROVE Held
  <2>1. is_admin(caller) /\ events' = <<[type |-> "protocol_pause_status", caller |-> caller,
                                         paused |-> FALSE]>>
    BY <1>11, Zenon DEF set_protocol_pause
  <2> QED
    BY <1>3, <1>4, <2>1, Zenon DEF Held
<1>12. ASSUME NEW g \in Addr \cup {NoAddr}, set_emergency_guardian(caller, g) PROVE Held
  <2>1. config' = [config EXCEPT !.emergency_guardian = g]
    BY <1>1, <1>12 DEF set_emergency_guardian, save_config
  <2>2. /\ config' \in ProtocolConfig /\ config'.fields = CONFIG_FIELD_COUNT
        /\ config'.is_protocol_paused = TRUE
    BY <1>1, <2>1 DEF ProtocolConfig
  <2> QED
    BY <1>5, <2>2
<1>13. ASSUME NEW h \in WasmHashes, upgrade(caller, h) PROVE Held
  BY <1>6, <1>13 DEF upgrade
<1>14. ASSUME NEW v \in Versions, migrate(caller, v) PROVE Held
  BY <1>1, <1>6, <1>14 DEF migrate, save_config
<1>15. ASSUME NEW p \in BOOLEAN, set_protocol_pause(caller, p) PROVE Held
  BY <1>10, <1>11, <1>15, Zenon
<1> QED
  BY <1>2, <1>7, <1>8, <1>9, <1>12, <1>13, <1>14, <1>15

(* Every step, while the breaker is engaged. *)
LEMMA BreakerStep ==
  ASSUME IInv, [Next]_vars, is_protocol_paused
  PROVE  Held
<1>1. CASE Create
  BY <1>1 DEF Create, create_stream, create_step_vesting_stream, create_hybrid_cliff_stream,
              open_stream
<1>2. ASSUME UNCHANGED <<stream_counter, instance, balance>> PROVE Held
  <2>1. \A token \in Tokens : balance'[token][Contract] <= balance[token][Contract]
    BY <1>2 DEF IInv, LedgerInv, Balances, Holder
  <2>2. is_protocol_paused'
    BY <1>2 DEF instance, is_protocol_paused, try_load_config
  <2> QED
    BY <1>2, <2>1, <2>2 DEF Held
<1>3. CASE Tick
  BY <1>2, <1>3 DEF Tick
<1>4. CASE UNCHANGED vars
  BY <1>2, <1>4 DEF vars, instance
<1> QED
  BY <1>1, <1>3, <1>4, BreakerOperate, BreakerAdminister DEF Next

(* While the circuit breaker is engaged no call opens a stream or brings
   tokens in, and only set_protocol_pause, called by the admin of the moment,
   ends it. *)
THEOREM BreakerHoldsAlways == Spec => BreakerHolds
<1>1. IInv /\ [Next]_vars => IInv'
  BY NextKeepsIInv
<1>2. IInv /\ [Next]_vars =>
        [is_protocol_paused =>
           /\ stream_counter' = stream_counter
           /\ \A token \in Tokens : balance'[token][Contract] <= balance[token][Contract]
           /\ \/ is_protocol_paused'
              \/ \E a \in Addr : is_admin(a) /\ events' = <<[type |-> "protocol_pause_status",
                                                        caller |-> a, paused |-> FALSE]>>]_vars
  BY BreakerStep DEF Held
<1> QED
  BY <1>1, <1>2, InitIInv, PTL DEF Spec, BreakerHolds

-----------------------------------------------------------------------------
(* Refinement.  Two rounded quantities meet in CountedSeconds, so the       *)
(* argument needs that a live linear stream has always been paid whole      *)
(* seconds: only the withdrawal that drains it pays a fraction.             *)
WholeSeconds(s) == \E k \in 0..s.withdrawn_amount : s.withdrawn_amount = k * s.rate_per_second

PaidWholeSeconds ==
  \A id \in StreamIds :
    LET s == try_load_stream(id)
    IN  s # NoStream /\ s.is_active /\ s.schedule.kind = "Linear" => WholeSeconds(s)

(* A product divided by one of its factors. *)
LEMMA DivExact == ASSUME NEW k \in Nat, NEW r \in Nat \ {0} PROVE (k * r) \div r = k
<1> DEFINE q == (k * r) \div r
<1>1. k * r \in Nat
  OBVIOUS
<1>2. q \in Int /\ r * q <= k * r /\ k * r < r * q + r
  BY <1>1
<1> HIDE DEF q
<1>3. ~(q < k)
  <2> SUFFICES ASSUME q + 1 <= k PROVE FALSE
    BY <1>2
  <2>1. r * (q + 1) <= r * k
    BY <1>2
  <2> QED
    BY <1>1, <1>2, <2>1
<1>4. ~(q > k)
  <2> SUFFICES ASSUME k + 1 <= q PROVE FALSE
    BY <1>2
  <2>1. r * (k + 1) <= r * q
    BY <1>2
  <2> QED
    BY <1>1, <1>2, <2>1
<1> QED
  BY <1>2, <1>3, <1>4 DEF q

(* The seconds a live linear record stands for, and what they vest. *)
Seconds(s, t) == s.withdrawn_amount \div s.rate_per_second + effective_now(s, t) - s.last_update_time

(* A linear stream that has paid whole seconds owes whole seconds. *)
LEMMA LinearClaim ==
  ASSUME NEW s \in Stream, now \in Nat, Coherent(s, now), s.is_active,
         s.schedule.kind = "Linear", WholeSeconds(s)
  PROVE  /\ s.rate_per_second \in Nat \ {0}
         /\ Seconds(s, now) \in Nat
         /\ s.withdrawn_amount + Claim(s)
              = Least(s.rate_per_second * Seconds(s, now), s.deposited_amount)
         /\ Claim(s) < s.deposited_amount - s.withdrawn_amount =>
              s.withdrawn_amount + Claim(s) = Seconds(s, now) * s.rate_per_second
<1> DEFINE rate == s.rate_per_second
           w == s.withdrawn_amount
           d == s.deposited_amount
           e == effective_now(s, now) - s.last_update_time
<1>1. w \in Nat /\ d \in Nat /\ w <= d /\ d <= I128_MAX /\ s.last_update_time \in Nat
      /\ s.last_update_time <= now
  BY StreamNumbers
<1>2. rate \in Nat \ {0}
  BY WidthAssumption DEF Coherent, Stream, Amount
<1>3. e \in Nat /\ effective_now(s, now) \in Nat
  <2>1. CASE ~s.paused
    BY <1>1, <2>1 DEF effective_now
  <2>2. CASE s.paused
    <3>1. s.paused_at # NONE /\ s.last_update_time <= s.paused_at /\ s.paused_at \in Nat
      BY <2>2, WidthAssumption DEF Coherent, Stream, Time
    <3> QED
      BY <1>1, <2>2, <3>1 DEF effective_now
  <2> QED
    BY <2>1, <2>2
<1>4. PICK k \in Nat : w = k * rate
  BY <1>1 DEF WholeSeconds
<1>5. w \div rate = k
  BY <1>2, <1>4, DivExact
<1>6. Seconds(s, now) = k + e
  BY <1>1, <1>3, <1>5 DEF Seconds
<1>7. Claim(s) = dripped(e, rate, d - w)
  <2>1. remaining(s) = d - w
    BY <1>1 DEF remaining, Greatest
  <2>2. SatSubTime(effective_now(s, now), s.last_update_time) = e
    BY <1>1, <1>3 DEF SatSubTime, Greatest
  <2> QED
    BY <2>1, <2>2 DEF Claim, calculate_claimable
<1> HIDE DEF e, rate, w, d
<1> DEFINE x == e * rate
<1>8. x \in Nat
  BY <1>2, <1>3
<1>9. rate * (k + e) = w + x /\ (k + e) * rate = w + x
  BY <1>2, <1>3, <1>4
<1>10. Claim(s) = IF x > I128_MAX THEN d - w ELSE Least(x, d - w)
  BY <1>7 DEF dripped
<1> HIDE DEF x
<1>11. Claim(s) = Least(x, d - w)
  BY <1>1, <1>8, <1>10, WidthAssumption DEF Least
<1>12. /\ w + Claim(s) = Least(w + x, d)
       /\ Claim(s) < d - w => w + Claim(s) = w + x
  BY <1>1, <1>8, <1>11 DEF Least
<1>13. k + e \in Nat
  BY <1>3
<1> QED
  BY <1>2, <1>6, <1>9, <1>12, <1>13 DEF rate, w, d

(* Whole seconds stay whole: a withdrawal that leaves the stream live pays  *)
(* every counted second and nothing else.                                   *)
LEMMA WholeStep ==
  ASSUME IInv, PaidWholeSeconds, [Next]_vars
  PROVE  PaidWholeSeconds'
<1> SUFFICES ASSUME NEW id \in StreamIds, NEW r, r = (try_load_stream(id))', r # NoStream,
                    r.is_active, r.schedule.kind = "Linear"
             PROVE  WholeSeconds(r)
  BY DEF PaidWholeSeconds, WholeSeconds
<1>1. PICK s : s = try_load_stream(id)
  OBVIOUS
<1>2. RecordStep(id, s, r)
  BY <1>1, EveryStep
<1>3. s # NoStream /\ s.is_active /\ s.schedule.kind = "Linear" => WholeSeconds(s)
  BY <1>1 DEF PaidWholeSeconds
<1>4. CASE r = s
  BY <1>3, <1>4
<1>5. ASSUME NEW sender, NEW recipient, NEW token, NEW rate \in Nat, NEW net, NEW schedule,
             r = ReadBack(new_stream(sender, recipient, token, rate, net, schedule))
      PROVE  WholeSeconds(r)
  <2>1. r = new_stream(sender, recipient, token, rate, net, schedule)
    BY <1>5 DEF ReadBack
  <2>2. r.withdrawn_amount = 0 /\ r.rate_per_second = rate
    BY <2>1 DEF new_stream
  <2>3. 0 \in 0..0 /\ 0 = 0 * rate
    BY <1>5
  <2> QED
    BY <2>2, <2>3 DEF WholeSeconds
<1>6. ASSUME s # NoStream, s.is_active, Replaced(s, r) PROVE WholeSeconds(r)
  <2>1. /\ s \in Stream /\ Coherent(s, now) /\ now \in Nat /\ now \in Time
        /\ Claim(s) \in Nat /\ Claim(s) <= s.deposited_amount - s.withdrawn_amount
        /\ s.withdrawn_amount \in Nat /\ s.deposited_amount \in Nat
        /\ s.deposited_amount <= I128_MAX
    BY <1>1, <1>6, LiveNumbers
  <2>2. ASSUME r.schedule = s.schedule, r.rate_per_second = s.rate_per_second,
               r.withdrawn_amount = s.withdrawn_amount
        PROVE  WholeSeconds(r)
    BY <1>3, <1>6, <2>2 DEF WholeSeconds
  <2>3. ASSUME NEW net, r = topped_up(s, net) PROVE WholeSeconds(r)
    BY <2>1, <2>2, <2>3, ToppedUpFields
  <2>4. ASSUME r = Paused(s) PROVE WholeSeconds(r)
    BY <2>1, <2>2, <2>4, PausedFields
  <2>5. ASSUME s.paused, r = resumed(s) PROVE WholeSeconds(r)
    BY <2>1, <2>2, <2>5, ResumedFields
  <2>6. ASSUME r = cancelled(s, Claim(s)) PROVE WholeSeconds(r)
    <3>1. s.withdrawn_amount + Claim(s) <= I128_MAX
      BY <2>1, WidthAssumption
    <3>2. r.is_active = FALSE
      BY <2>1, <2>6, <3>1, CancelledFields
    <3> QED
      BY <3>2
  <2>7. ASSUME r = apply_withdrawal(s, Claim(s)) PROVE WholeSeconds(r)
    <3> DEFINE q == apply_withdrawal(s, Claim(s))
    <3>0. /\ q.withdrawn_amount = s.withdrawn_amount + Claim(s)
          /\ q.is_active = (s.is_active
                            /\ ~(s.withdrawn_amount + Claim(s) >= s.deposited_amount))
          /\ q.schedule = s.schedule /\ q.rate_per_second = s.rate_per_second
      BY <2>1, WithdrawnFields
    <3> HIDE DEF q
    <3>1. /\ r.withdrawn_amount = s.withdrawn_amount + Claim(s)
          /\ r.is_active = (s.is_active
                            /\ ~(s.withdrawn_amount + Claim(s) >= s.deposited_amount))
          /\ r.schedule = s.schedule /\ r.rate_per_second = s.rate_per_second
      BY <2>7, <3>0, Zenon DEF q
    <3>2. ~(s.withdrawn_amount + Claim(s) >= s.deposited_amount)
      BY <3>1
    <3>3. Claim(s) < s.deposited_amount - s.withdrawn_amount
      BY <2>1, <3>2
    <3> DEFINE n == Seconds(s, now)
    <3>4. /\ s.rate_per_second \in Nat \ {0} /\ n \in Nat
          /\ s.withdrawn_amount + Claim(s) = n * s.rate_per_second
      BY <1>3, <1>6, <2>1, <3>1, <3>3, LinearClaim
    <3> HIDE DEF n
    <3>5. n * s.rate_per_second >= n
      BY <3>4
    <3>6. n \in 0..r.withdrawn_amount
      BY <2>1, <3>1, <3>4, <3>5
    <3> QED
      BY <3>1, <3>4, <3>6 DEF WholeSeconds
  <2> QED
    BY <1>6, <2>3, <2>4, <2>5, <2>6, <2>7 DEF Replaced
<1>7. ASSUME NEW x, Replaced(s, x), r = ReadBack(x) PROVE r = x
  BY <1>7 DEF ReadBack
<1> QED
  BY <1>2, <1>4, <1>5, <1>6, <1>7 DEF RecordStep

(* The abstract values that stand for record s at time t. *)
LinearRecord(s) == s # NoStream /\ s.schedule.kind = "Linear"

Shows(s, t, phase, deposited, rate, secs, paid) ==
  IF s = NoStream THEN /\ phase = "none" /\ deposited = 0 /\ rate = 0 /\ secs = 0 /\ paid = 0
  ELSE IF s.schedule.kind # "Linear"
       THEN /\ phase = "none" /\ deposited = 0 /\ rate = 0 /\ secs = 0 /\ paid = 0
       ELSE /\ s.status = "Active" => phase = "running"
            /\ s.status = "Paused" => phase = "paused"
            /\ s.status \notin {"Active", "Paused"} => phase = "settled"
            /\ deposited = s.deposited_amount /\ rate = s.rate_per_second
            /\ s.is_active => secs = Seconds(s, t)
            /\ ~s.is_active => secs = 0
            /\ paid = s.withdrawn_amount

(* What DripStream sees of a linear record in this state ... *)
LEMMA ShownNow ==
  ASSUME NEW id
  PROVE  Shows(try_load_stream(id), now, Phase(id),
               Linearly(id, try_load_stream(id).deposited_amount, 0),
               Linearly(id, try_load_stream(id).rate_per_second, 0),
               CountedSeconds(id), Linearly(id, try_load_stream(id).withdrawn_amount, 0))
BY DEF Shows, Phase, CountedSeconds, Linearly, IsLinear, Seconds

(* ... and in the next. *)
LEMMA ShownNext ==
  ASSUME NEW id
  PROVE  Shows((try_load_stream(id))', now', Phase(id)',
               Linearly(id, try_load_stream(id).deposited_amount, 0)',
               Linearly(id, try_load_stream(id).rate_per_second, 0)',
               CountedSeconds(id)', Linearly(id, try_load_stream(id).withdrawn_amount, 0)')
BY DEF Shows, Phase, CountedSeconds, Linearly, IsLinear, Seconds

(* One step of the contract is, on every id, a step of DripStream or none. *)
LEMMA DripStep ==
  ASSUME StreamFields = STREAM_FIELD_COUNT, IInv, PaidWholeSeconds, [Next]_vars,
         NEW id \in StreamIds
  PROVE  Drip(id)!Next \/ UNCHANGED Drip(id)!dvars
<1> DEFINE phase == Phase(id)
           deposited == Linearly(id, try_load_stream(id).deposited_amount, 0)
           rate == Linearly(id, try_load_stream(id).rate_per_second, 0)
           secs == CountedSeconds(id)
           paid == Linearly(id, try_load_stream(id).withdrawn_amount, 0)
<1>1. PICK s : s = try_load_stream(id)
  OBVIOUS
<1>2. PICK r : r = (try_load_stream(id))'
  OBVIOUS
<1>3. Shows(s, now, phase, deposited, rate, secs, paid)
  BY <1>1, ShownNow
<1>4. Shows(r, now', phase', deposited', rate', secs', paid')
  BY <1>2, ShownNext
<1>5. RecordStep(id, s, r)
  BY <1>1, <1>2, EveryStep
<1>6. ASSUME UNCHANGED <<phase, deposited, rate, secs, paid>>
      PROVE  Drip(id)!Next \/ UNCHANGED Drip(id)!dvars
  BY <1>6 DEF Drip!dvars
<1> HIDE DEF phase, deposited, rate, secs, paid
<1>7. ASSUME ~LinearRecord(s), ~LinearRecord(r)
      PROVE  Drip(id)!Next \/ UNCHANGED Drip(id)!dvars
  BY <1>3, <1>4, <1>6, <1>7 DEF Shows, LinearRecord
<1>8. ASSUME s # NoStream
      PROVE  /\ s \in Stream /\ Coherent(s, now) /\ now \in Nat /\ now \in Time
             /\ Claim(s) \in Nat /\ Claim(s) <= s.deposited_amount - s.withdrawn_amount
             /\ s.deposited_amount \in Nat /\ s.withdrawn_amount \in Nat
             /\ s.deposited_amount <= I128_MAX /\ s.withdrawn_amount <= s.deposited_amount
             /\ s.last_update_time \in Nat
  BY <1>1, <1>8, LiveNumbers
<1>9. ASSUME LinearRecord(s), s.is_active
      PROVE  /\ s.rate_per_second \in Nat \ {0}
             /\ Seconds(s, now) \in Nat
             /\ s.withdrawn_amount + Claim(s)
                  = Least(s.rate_per_second * Seconds(s, now), s.deposited_amount)
             /\ Claim(s) < s.deposited_amount - s.withdrawn_amount =>
                  s.withdrawn_amount + Claim(s) = Seconds(s, now) * s.rate_per_second
             /\ s.withdrawn_amount < s.deposited_amount
             /\ s.status \in {"Active", "Paused"} /\ (s.paused <=> s.status = "Paused")
  <2>1. WholeSeconds(s)
    BY <1>1, <1>9 DEF PaidWholeSeconds, LinearRecord
  <2> QED
    BY <1>8, <1>9, <2>1, LinearClaim DEF LinearRecord, Coherent
<1>10. CASE r = s /\ now' \in {now, now + 1}
  <2>1. CASE ~LinearRecord(s)
    BY <1>7, <1>10, <2>1
  <2>2. CASE LinearRecord(s) /\ ~s.is_active
    <3>1. s.status \notin {"Active", "Paused"}
      BY <1>8, <2>2 DEF LinearRecord, Coherent
    <3> QED
      BY <1>3, <1>4, <1>6, <1>10, <2>2, <3>1 DEF Shows, LinearRecord
  <2>3. CASE LinearRecord(s) /\ s.is_active /\ s.paused
    <3>1. Seconds(s, now') = Seconds(s, now)
      BY <2>3 DEF Seconds, effective_now
    <3>2. s.status = "Paused"
      BY <1>9, <2>3
    <3> QED
      BY <1>3, <1>4, <1>6, <1>10, <2>3, <3>1, <3>2 DEF Shows, LinearRecord
  <2>4. CASE LinearRecord(s) /\ s.is_active /\ ~s.paused
    <3>1. s.status = "Active"
      BY <1>9, <2>4
    <3>2. CASE now' = now
      BY <1>3, <1>4, <1>6, <1>10, <2>4, <3>1, <3>2 DEF Shows, LinearRecord
    <3>3. CASE now' = now + 1
      <4>1. Seconds(s, now') = Seconds(s, now) + 1
        <5>1. s.withdrawn_amount \div s.rate_per_second \in Int
          BY <1>8, <1>9, <2>4 DEF LinearRecord
        <5> QED
          BY <1>8, <2>4, <3>3, <5>1 DEF Seconds, effective_now, LinearRecord
      <4>2. /\ phase = "running" /\ secs' = secs + 1
            /\ UNCHANGED <<phase, deposited, rate, paid>>
        BY <1>3, <1>4, <1>10, <2>4, <3>1, <4>1 DEF Shows, LinearRecord
      <4>3. Drip(id)!Second
        BY <4>2 DEF Drip!Second, phase, deposited, rate, secs, paid
      <4> QED
        BY <4>3 DEF Drip!Next
    <3> QED
      BY <1>10, <3>2, <3>3
  <2> QED
    BY <2>1, <2>2, <2>3, <2>4
<1>11. CASE /\ now' = now /\ s = NoStream
            /\ \E sender, recipient, token, perSecond, net, schedule :
                 /\ perSecond \in Nat /\ net \in Nat \ {0}
                 /\ (schedule.kind = "Linear" => perSecond > 0)
                 /\ r = ReadBack(new_stream(sender, recipient, token, perSecond, net, schedule))
  <2>1. PICK sender, recipient, token, perSecond, net, schedule :
          /\ perSecond \in Nat /\ net \in Nat \ {0}
          /\ (schedule.kind = "Linear" => perSecond > 0)
          /\ r = new_stream(sender, recipient, token, perSecond, net, schedule)
    BY <1>11 DEF ReadBack
  <2>2. CASE ~LinearRecord(r)
    BY <1>7, <1>11, <2>2 DEF LinearRecord
  <2>3. CASE LinearRecord(r)
    <3>1. /\ r.schedule = schedule /\ r.rate_per_second = perSecond /\ r.deposited_amount = net
          /\ r.withdrawn_amount = 0 /\ r.status = "Active" /\ r.is_active = TRUE
          /\ r.paused = FALSE /\ r.last_update_time = now
      BY <2>1 DEF new_stream
    <3>2. perSecond \in Nat \ {0}
      BY <2>1, <2>3, <3>1 DEF LinearRecord
    <3>3. 0 \div perSecond = 0
      <4>1. (0 * perSecond) \div perSecond = 0 /\ 0 * perSecond = 0
        BY <3>2, DivExact
      <4> QED
        BY <4>1
    <3>4. now \in Nat
      BY BoundAssumption, WidthAssumption DEF IInv, InstanceInv, Time
    <3>5. Seconds(r, now') = 0
      BY <1>11, <3>1, <3>3, <3>4 DEF Seconds, effective_now
    <3>6. /\ phase' = "running" /\ secs' = 0 /\ paid' = 0 /\ deposited' = net
          /\ rate' = perSecond
      BY <1>4, <2>3, <3>1, <3>5 DEF Shows, LinearRecord
    <3>7. phase = "none"
      BY <1>3, <1>11 DEF Shows
    <3>8. Drip(id)!Open
      BY <2>1, <3>2, <3>6, <3>7 DEF Drip!Open, phase, deposited, rate, secs, paid
    <3> QED
      BY <3>8 DEF Drip!Next
  <2> QED
    BY <2>2, <2>3
<1>12. CASE s # NoStream /\ ~s.is_active /\ r = NoStream
  <2>1. CASE ~LinearRecord(s)
    BY <1>7, <1>12, <2>1 DEF LinearRecord
  <2>2. CASE LinearRecord(s)
    <3>1. s.status \notin {"Active", "Paused"}
      BY <1>8, <1>12 DEF Coherent
    <3>2. phase = "settled"
      BY <1>3, <2>2, <3>1 DEF Shows, LinearRecord
    <3>3. phase' = "none" /\ deposited' = 0 /\ rate' = 0 /\ secs' = 0 /\ paid' = 0
      BY <1>4, <1>12 DEF Shows
    <3>4. Drip(id)!Prune
      BY <3>2, <3>3 DEF Drip!Prune, phase, deposited, rate, secs, paid
    <3> QED
      BY <3>4 DEF Drip!Next
  <2> QED
    BY <2>1, <2>2
<1>13. CASE /\ now' = now /\ s # NoStream /\ s.is_active
            /\ \E x \in Stream : Replaced(s, x) /\ r = ReadBack(x)
  <2>1. r \in Stream /\ r # NoStream /\ Replaced(s, r)
    BY <1>13, NoneAssumption DEF ReadBack
  <2>2. /\ s \in Stream /\ Coherent(s, now) /\ now \in Nat /\ now \in Time
        /\ Claim(s) \in Nat /\ Claim(s) <= s.deposited_amount - s.withdrawn_amount
        /\ s.deposited_amount \in Nat /\ s.withdrawn_amount \in Nat
        /\ s.deposited_amount <= I128_MAX /\ s.withdrawn_amount <= s.deposited_amount
        /\ s.last_update_time \in Nat
    BY <1>8, <1>13
  <2>3. s.withdrawn_amount + Claim(s) <= I128_MAX
    BY <2>2, WidthAssumption
  <2>4. r.schedule = s.schedule
    <3>1. \A net : topped_up(s, net).schedule = s.schedule
      BY <2>2, ToppedUpFields
    <3>2. apply_withdrawal(s, Claim(s)).schedule = s.schedule
      BY <2>2, WithdrawnFields
    <3>3. cancelled(s, Claim(s)).schedule = s.schedule
      BY <2>2, <2>3, CancelledFields
    <3>4. Paused(s).schedule = s.schedule
      BY <2>2, PausedFields
    <3>5. s.paused => resumed(s).schedule = s.schedule
      BY <2>2, ResumedFields
    <3> QED
      BY <2>1, <3>1, <3>2, <3>3, <3>4, <3>5, Zenon DEF Replaced
  <2>5. CASE ~LinearRecord(s)
    BY <1>7, <2>4, <2>5, <1>13 DEF LinearRecord
  <2>6. CASE LinearRecord(s)
    <3>1. LinearRecord(r)
      BY <2>1, <2>4, <2>6 DEF LinearRecord
    <3>2. /\ s.rate_per_second \in Nat \ {0}
          /\ Seconds(s, now) \in Nat
          /\ s.withdrawn_amount + Claim(s)
               = Least(s.rate_per_second * Seconds(s, now), s.deposited_amount)
          /\ Claim(s) < s.deposited_amount - s.withdrawn_amount =>
               s.withdrawn_amount + Claim(s) = Seconds(s, now) * s.rate_per_second
          /\ s.withdrawn_amount < s.deposited_amount
          /\ s.status \in {"Active", "Paused"} /\ (s.paused <=> s.status = "Paused")
      BY <1>9, <1>13, <2>6
    <3>3. /\ s.status = "Active" => phase = "running"
          /\ s.status = "Paused" => phase = "paused"
          /\ deposited = s.deposited_amount /\ rate = s.rate_per_second
          /\ secs = Seconds(s, now) /\ paid = s.withdrawn_amount
      BY <1>3, <1>13, <2>6 DEF Shows, LinearRecord
    <3>4. /\ r.status = "Active" => phase' = "running"
          /\ r.status = "Paused" => phase' = "paused"
          /\ r.status \notin {"Active", "Paused"} => phase' = "settled"
          /\ deposited' = r.deposited_amount /\ rate' = r.rate_per_second
          /\ r.is_active => secs' = Seconds(r, now)
          /\ ~r.is_active => secs' = 0
          /\ paid' = r.withdrawn_amount
      BY <1>4, <1>13, <3>1 DEF Shows, LinearRecord
    <3>5. Drip(id)!Vested = s.withdrawn_amount + Claim(s)
      BY <3>2, <3>3 DEF Drip!Vested, Least, phase, deposited, rate, secs, paid
    <3>6. ASSUME NEW net \in Nat \ {0}, r = topped_up(s, net) PROVE Drip(id)!TopUp
      <4>1. /\ r.deposited_amount = s.deposited_amount + net
            /\ r.withdrawn_amount = s.withdrawn_amount /\ r.is_active = s.is_active
            /\ r.status = s.status /\ r.paused = s.paused
            /\ r.paused_at = s.paused_at /\ r.last_update_time = s.last_update_time
            /\ r.rate_per_second = s.rate_per_second
        BY <2>2, <3>6, ToppedUpFields
      <4>2. Seconds(r, now) = Seconds(s, now)
        BY <4>1 DEF Seconds, effective_now
      <4>3. phase \in {"running", "paused"} /\ deposited' > deposited
            /\ UNCHANGED <<phase, rate, secs, paid>>
        BY <1>13, <2>2, <3>2, <3>3, <3>4, <4>1, <4>2
      <4> QED
        BY <4>3 DEF Drip!TopUp, phase, deposited, rate, secs, paid
    <3>7. ASSUME ~s.paused, Claim(s) > 0, r = apply_withdrawal(s, Claim(s))
          PROVE  Drip(id)!Withdraw
      <4> DEFINE q == apply_withdrawal(s, Claim(s))
      <4>1. /\ q.withdrawn_amount = s.withdrawn_amount + Claim(s) /\ q.last_update_time = now
            /\ q.is_active = (s.is_active
                              /\ ~(s.withdrawn_amount + Claim(s) >= s.deposited_amount))
            /\ q.status = IF s.withdrawn_amount + Claim(s) >= s.deposited_amount
                          THEN "Completed" ELSE s.status
            /\ q.deposited_amount = s.deposited_amount
            /\ q.rate_per_second = s.rate_per_second /\ q.paused = s.paused
        BY <2>2, WithdrawnFields
      <4> HIDE DEF q
      <4>2. /\ r.withdrawn_amount = s.withdrawn_amount + Claim(s) /\ r.last_update_time = now
            /\ r.is_active = (s.is_active
                              /\ ~(s.withdrawn_amount + Claim(s) >= s.deposited_amount))
            /\ r.status = IF s.withdrawn_amount + Claim(s) >= s.deposited_amount
                          THEN "Completed" ELSE s.status
            /\ r.deposited_amount = s.deposited_amount
            /\ r.rate_per_second = s.rate_per_second /\ r.paused = s.paused
        BY <3>7, <4>1, Zenon DEF q
      <4>3. /\ phase = "running" /\ paid < s.withdrawn_amount + Claim(s)
            /\ paid' = s.withdrawn_amount + Claim(s) /\ UNCHANGED <<deposited, rate>>
            /\ s.status = "Active"
        BY <2>2, <3>2, <3>3, <3>4, <3>7, <4>2
      <4>4. CASE s.withdrawn_amount + Claim(s) >= s.deposited_amount
        <5>1. r.status = "Completed" /\ ~r.is_active
          BY <4>2, <4>4, Zenon
        <5>2. s.withdrawn_amount + Claim(s) = deposited
          BY <2>2, <3>3, <4>4
        <5>3. phase' = "settled" /\ secs' = 0
          BY <3>4, <5>1
        <5> QED
          BY <3>5, <4>3, <5>2, <5>3
          DEF Drip!Withdraw, Drip!Settle, phase, deposited, rate, secs, paid
      <4>5. CASE ~(s.withdrawn_amount + Claim(s) >= s.deposited_amount)
        <5>1. r.status = "Active" /\ r.is_active
          BY <1>13, <4>2, <4>3, <4>5, Zenon
        <5>2. s.withdrawn_amount + Claim(s) # deposited
          BY <2>2, <3>3, <4>5
        <5>3. Claim(s) < s.deposited_amount - s.withdrawn_amount
          BY <2>2, <4>5
        <5>4. r.withdrawn_amount = Seconds(s, now) * s.rate_per_second
          BY <3>2, <4>2, <5>3
        <5> DEFINE n == Seconds(s, now)
        <5>5. r.withdrawn_amount \div r.rate_per_second = n
          <6>1. n \in Nat /\ r.withdrawn_amount = n * s.rate_per_second
            BY <3>2, <5>4
          <6> HIDE DEF n
          <6>2. (n * s.rate_per_second) \div s.rate_per_second = n
            BY <3>2, <6>1, DivExact
          <6> QED
            BY <4>2, <6>1, <6>2
        <5>6. effective_now(r, now) = now
          BY <3>7, <4>2 DEF effective_now
        <5>7. Seconds(r, now) = n
          <6>1. n \in Nat
            BY <3>2
          <6> HIDE DEF n
          <6> QED
            BY <2>2, <4>2, <5>5, <5>6, <6>1 DEF Seconds
        <5>8. UNCHANGED <<phase, deposited, rate, secs>>
          BY <3>3, <3>4, <4>3, <5>1, <5>7
        <5> QED
          BY <3>5, <4>3, <5>2, <5>8
          DEF Drip!Withdraw, Drip!Settle, phase, deposited, rate, secs, paid
      <4> QED
        BY <4>4, <4>5
    <3>8. ASSUME r = cancelled(s, Claim(s)) PROVE Drip(id)!Cancel
      <4>1. /\ r.withdrawn_amount = s.withdrawn_amount + Claim(s) /\ r.is_active = FALSE
            /\ r.status = "Cancelled" /\ r.deposited_amount = s.deposited_amount
            /\ r.rate_per_second = s.rate_per_second
        BY <2>2, <2>3, <3>8, CancelledFields
      <4>2. /\ phase \in {"running", "paused"} /\ paid' = s.withdrawn_amount + Claim(s)
            /\ phase' = "settled" /\ secs' = 0 /\ UNCHANGED <<deposited, rate>>
        BY <3>2, <3>3, <3>4, <4>1
      <4> QED
        BY <3>5, <4>2 DEF Drip!Cancel, Drip!Settle, phase, deposited, rate, secs, paid
    <3>9. ASSUME ~s.paused, r = Paused(s) PROVE Drip(id)!Pause
      <4>1. /\ r.paused = TRUE /\ r.paused_at = now /\ r.status = "Paused"
            /\ r.withdrawn_amount = s.withdrawn_amount /\ r.is_active = s.is_active
            /\ r.deposited_amount = s.deposited_amount
            /\ r.last_update_time = s.last_update_time
            /\ r.rate_per_second = s.rate_per_second
        BY <2>2, <3>9, PausedFields
      <4>2. now # NONE
        BY <2>2 DEF NONE
      <4>3. Seconds(r, now) = Seconds(s, now)
        BY <3>9, <4>1, <4>2 DEF Seconds, effective_now
      <4>4. phase = "running" /\ phase' = "paused" /\ UNCHANGED <<deposited, rate, secs, paid>>
        BY <1>13, <3>2, <3>3, <3>4, <3>9, <4>1, <4>3
      <4> QED
        BY <4>4 DEF Drip!Pause, phase, deposited, rate, secs, paid
    <3>10. ASSUME s.paused, r = resumed(s) PROVE Drip(id)!Resume
      <4>1. /\ r.paused = FALSE /\ r.status = "Active"
            /\ r.last_update_time = s.last_update_time + now - s.paused_at
            /\ s.paused_at \in Nat /\ s.paused_at <= now
            /\ r.withdrawn_amount = s.withdrawn_amount /\ r.is_active = s.is_active
            /\ r.deposited_amount = s.deposited_amount
            /\ r.rate_per_second = s.rate_per_second
        BY <2>2, <3>10, ResumedFields
      <4>2. s.paused_at # NONE
        BY <4>1 DEF NONE
      <4>3. effective_now(r, now) = now /\ effective_now(s, now) = s.paused_at
        BY <3>10, <4>1, <4>2 DEF effective_now
      <4>4. s.withdrawn_amount \div s.rate_per_second \in Int
        BY <2>2, <3>2
      <4>5. Seconds(r, now) = Seconds(s, now)
        BY <2>2, <4>1, <4>3, <4>4 DEF Seconds
      <4>6. phase = "paused" /\ phase' = "running" /\ UNCHANGED <<deposited, rate, secs, paid>>
        BY <1>13, <3>2, <3>3, <3>4, <3>10, <4>1, <4>5
      <4> QED
        BY <4>6 DEF Drip!Resume, phase, deposited, rate, secs, paid
    <3> QED
      BY <2>1, <3>6, <3>7, <3>8, <3>9, <3>10 DEF Replaced, Drip!Next
  <2> QED
    BY <2>5, <2>6
<1> QED
  BY <1>5, <1>10, <1>11, <1>12, <1>13 DEF RecordStep

(* The states the contract is deployed in map to initial states. *)
LEMMA DripStart ==
  ASSUME Init
  PROVE  PaidWholeSeconds /\ \A id \in StreamIds : Drip(id)!Init
<1> SUFFICES ASSUME NEW id \in StreamIds
             PROVE  /\ LET s == try_load_stream(id)
                       IN  s # NoStream /\ s.is_active /\ s.schedule.kind = "Linear"
                             => WholeSeconds(s)
                    /\ Drip(id)!Init
  BY DEF PaidWholeSeconds
<1> DEFINE phase == Phase(id)
           deposited == Linearly(id, try_load_stream(id).deposited_amount, 0)
           rate == Linearly(id, try_load_stream(id).rate_per_second, 0)
           secs == CountedSeconds(id)
           paid == Linearly(id, try_load_stream(id).withdrawn_amount, 0)
<1>1. PICK s : s = try_load_stream(id)
  OBVIOUS
<1>2. Shows(s, now, phase, deposited, rate, secs, paid)
  BY <1>1, ShownNow
<1> HIDE DEF phase, deposited, rate, secs, paid
<1>3. CASE s = NoStream
  <2>1. phase = "none" /\ deposited = 0 /\ rate = 0 /\ secs = 0 /\ paid = 0
    BY <1>2, <1>3 DEF Shows
  <2> QED
    BY <1>1, <1>3, <2>1 DEF Drip!Init, phase, deposited, rate, secs, paid
<1>4. CASE s # NoStream
  <2>1. streams[id] # NoStream
    BY <1>1, <1>4 DEF try_load_stream, decode_stream
  <2>2. ~NothingStored
    BY <2>1 DEF NothingStored
  <2>3. PICK admin \in Addr, sender \in Senders, recipient \in Recipients, token \in Tokens,
             amount \in LegacyDeposits, paused \in BOOLEAN :
          LegacyDeployment(admin, sender, recipient, token, amount, paused)
    BY <2>2 DEF Init
  <2> DEFINE old == [new_stream(sender, recipient, token, 1, amount, NoSchedule) EXCEPT
                       !.paused = paused, !.paused_at = IF paused THEN 0 ELSE NONE,
                       !.status = IF paused THEN "Paused" ELSE "Active"]
  <2>4. streams[id] = IF id # 1 THEN NoStream ELSE old
    BY <2>3 DEF LegacyDeployment
  <2>5. id = 1 /\ streams[id] = old /\ fields[id] = LEGACY_STREAM_FIELD_COUNT
    BY <2>1, <2>3, <2>4 DEF LegacyDeployment
  <2>6. s = [old EXCEPT !.schedule = Linear]
    BY <1>1, <1>4, <2>5
    DEF try_load_stream, decode_stream, upgrade_legacy_stream, STREAM_FIELD_COUNT,
        LEGACY_STREAM_FIELD_COUNT
  <2>7. now = 0
    BY DEF Init
  <2>8. /\ s.withdrawn_amount = 0 /\ s.rate_per_second = 1 /\ s.deposited_amount = amount
        /\ s.schedule = Linear /\ s.is_active = TRUE /\ s.last_update_time = 0
        /\ s.paused = paused /\ s.paused_at = IF paused THEN 0 ELSE NONE
        /\ s.status = IF paused THEN "Paused" ELSE "Active"
    BY <2>6, <2>7, Zenon DEF new_stream
  <2>9. amount > 0
    BY InputAssumption, WidthAssumption
  <2> HIDE DEF old
  <2>10. WholeSeconds(s)
    <3>1. 0 \in 0..0 /\ 0 = 0 * 1
      OBVIOUS
    <3> QED
      BY <2>8, <3>1 DEF WholeSeconds
  <2>11. Seconds(s, now) = 0
    <3>1. effective_now(s, now) = 0
      BY <2>7, <2>8 DEF effective_now, NONE
    <3> QED
      BY <2>8, <3>1 DEF Seconds
  <2>12. /\ phase \in {"running", "paused"} /\ deposited = amount /\ rate = 1 /\ secs = 0
         /\ paid = 0
    BY <1>2, <1>4, <2>8, <2>11 DEF Shows, Linear
  <2> QED
    BY <1>1, <2>9, <2>10, <2>12 DEF Drip!Init, phase, deposited, rate, secs, paid
<1> QED
  BY <1>3, <1>4

(* Every linear stream implements DripStream: through single and batched
   withdrawals, top-ups, pauses, resumes and cancellation it pays exactly what
   vests over the seconds it was running (the mapping is Drip). *)
THEOREM LinearStreamsDrip ==
  ASSUME StreamFields = STREAM_FIELD_COUNT
  PROVE  Spec => LinearImplementsDrip
<1>1. Init => IInv /\ PaidWholeSeconds /\ \A id \in StreamIds : Drip(id)!Init
  BY InitIInv, DripStart
<1>2. IInv /\ PaidWholeSeconds /\ [Next]_vars => IInv' /\ PaidWholeSeconds'
  BY NextKeepsIInv, WholeStep
<1>3. IInv /\ PaidWholeSeconds /\ [Next]_vars =>
        [\A id \in StreamIds : Drip(id)!Next \/ UNCHANGED Drip(id)!dvars]_vars
  BY DripStep
<1> QED
  BY <1>1, <1>2, <1>3, PTL DEF Spec, LinearImplementsDrip

-----------------------------------------------------------------------------
(* What an observer makes of a sequence of events, one event at a time. *)
ApplyOne(view, id, e) ==
  IF "stream_id" \in DOMAIN e /\ e.stream_id = id THEN ApplyEvent(view, e) ELSE view

IsStory(g, view, id, es, n) ==
  g = [i \in 0..n |-> IF i = 0 THEN view ELSE ApplyOne(g[i - 1], id, es[i])]

(* The intermediate views exist. *)
LEMMA StoryExists ==
  ASSUME NEW N \in Nat, NEW view, NEW id, NEW es
  PROVE  \E g : IsStory(g, view, id, es, N)
<1> DEFINE S == {n \in Nat : \E g : IsStory(g, view, id, es, n)}
<1>1. 0 \in S
  <2> DEFINE g == [i \in 0..0 |-> view]
  <2>1. g = [i \in 0..0 |-> IF i = 0 THEN view ELSE ApplyOne(g[i - 1], id, es[i])]
    OBVIOUS
  <2> QED
    BY <2>1 DEF IsStory
<1>2. ASSUME NEW n \in S PROVE n + 1 \in S
  <2>1. PICK g : IsStory(g, view, id, es, n)
    OBVIOUS
  <2> DEFINE h == [i \in 0..(n + 1) |-> IF i = n + 1 THEN ApplyOne(g[n], id, es[n + 1]) ELSE g[i]]
  <2>2. ASSUME NEW i \in 0..(n + 1)
        PROVE  h[i] = IF i = 0 THEN view ELSE ApplyOne(h[i - 1], id, es[i])
    <3>1. CASE i = n + 1
      BY <3>1
    <3>2. CASE i # n + 1
      <4>1. g[i] = IF i = 0 THEN view ELSE ApplyOne(g[i - 1], id, es[i])
        BY <2>1, <3>2 DEF IsStory
      <4> QED
        BY <4>1, <3>2
    <3> QED
      BY <3>1, <3>2
  <2>3. IsStory(h, view, id, es, n + 1)
    BY <2>2 DEF IsStory
  <2> QED
    BY <2>3
<1>3. S = Nat
  <2>1. S \in SUBSET Nat
    OBVIOUS
  <2> HIDE DEF S
  <2> QED
    BY <1>1, <1>2, <2>1, SetInduction
<1> QED
  BY <1>3

(* Two stories that agree on the first n events agree on the n-th view. *)
LEMMA StoryUnique ==
  ASSUME NEW M \in Nat, NEW N \in Nat, NEW view, NEW id, NEW es, NEW fs, NEW g, NEW h,
         IsStory(g, view, id, es, M), IsStory(h, view, id, fs, N), M <= N,
         \A i \in 1..M : es[i] = fs[i]
  PROVE  g[M] = h[M]
<1> DEFINE S == {n \in Nat : n <= M => g[n] = h[n]}
<1>1. 0 \in S
  BY DEF IsStory
<1>2. ASSUME NEW n \in S PROVE n + 1 \in S
  <2> SUFFICES ASSUME n + 1 <= M PROVE g[n + 1] = h[n + 1]
    OBVIOUS
  <2>1. g[n] = h[n] /\ n + 1 \in 1..M /\ n + 1 \in 0..M /\ n + 1 \in 0..N /\ n + 1 # 0
        /\ (n + 1) - 1 = n
    OBVIOUS
  <2>2. g[n + 1] = ApplyOne(g[n], id, es[n + 1])
    BY <2>1 DEF IsStory
  <2>3. h[n + 1] = ApplyOne(h[n], id, fs[n + 1])
    BY <2>1 DEF IsStory
  <2> QED
    BY <2>1, <2>2, <2>3
<1>3. S = Nat
  <2>1. S \in SUBSET Nat
    OBVIOUS
  <2> HIDE DEF S
  <2> QED
    BY <1>1, <1>2, <2>1, SetInduction
<1> QED
  BY <1>3

(* ApplyEvents is the end of the one story. *)
LEMMA StoryEnds ==
  ASSUME NEW S, NEW es \in Seq(S), NEW view, NEW id
  PROVE  \E g : /\ IsStory(g, view, id, es, Len(es))
                /\ ApplyEvents(view, id, es) = g[Len(es)]
<1> DEFINE g == CHOOSE f : IsStory(f, view, id, es, Len(es))
<1>1. IsStory(g, view, id, es, Len(es))
  <2>1. Len(es) \in Nat
    BY LenProperties
  <2> QED
    BY <2>1, StoryExists
<1>2. ApplyEvents(view, id, es) = g[Len(es)]
  BY DEF ApplyEvents, IsStory, ApplyOne
<1> HIDE DEF g
<1> QED
  BY <1>1, <1>2

(* No events, no change; one more event, one more change. *)
LEMMA NothingApplied == ASSUME NEW view, NEW id PROVE ApplyEvents(view, id, <<>>) = view
<1>1. <<>> \in Seq({}) /\ Len(<<>>) = 0
  BY EmptySeq
<1>2. PICK g : IsStory(g, view, id, <<>>, 0) /\ ApplyEvents(view, id, <<>>) = g[0]
  BY <1>1, StoryEnds
<1> QED
  BY <1>2 DEF IsStory

(* One more event is one more application. *)
LEMMA AppendApplied ==
  ASSUME NEW S, NEW es \in Seq(S), NEW e \in S, NEW view, NEW id
  PROVE  ApplyEvents(view, id, Append(es, e)) = ApplyOne(ApplyEvents(view, id, es), id, e)
<1> DEFINE fs == Append(es, e)
           N == Len(es)
<1>1. /\ fs \in Seq(S) /\ Len(fs) = N + 1 /\ (\A i \in 1..N : es[i] = fs[i])
      /\ fs[N + 1] = e /\ N \in Nat
  BY AppendProperties, LenProperties
<1> HIDE DEF fs, N
<1>2. PICK g : IsStory(g, view, id, es, N) /\ ApplyEvents(view, id, es) = g[N]
  BY StoryEnds DEF N
<1>3. PICK h : IsStory(h, view, id, fs, N + 1) /\ ApplyEvents(view, id, fs) = h[N + 1]
  BY <1>1, StoryEnds
<1>4. g[N] = h[N]
  BY <1>1, <1>2, <1>3, StoryUnique
<1>5. h[N + 1] = ApplyOne(h[N], id, fs[N + 1])
  BY <1>1, <1>3 DEF IsStory
<1> QED
  BY <1>1, <1>2, <1>3, <1>4, <1>5 DEF fs

(* A short story. *)
LEMMA OneApplied ==
  ASSUME NEW e, NEW view, NEW id
  PROVE  ApplyEvents(view, id, <<e>>) = ApplyOne(view, id, e)
<1>1. PICK S : S = {e}
  OBVIOUS
<1>2. <<>> \in Seq(S) /\ e \in S
  BY <1>1, EmptySeq
<1>3. Append(<<>>, e) = <<e>>
  OBVIOUS
<1>4. ApplyEvents(view, id, Append(<<>>, e)) = ApplyOne(ApplyEvents(view, id, <<>>), id, e)
  BY <1>2, AppendApplied
<1>5. ApplyEvents(view, id, <<>>) = view
  BY NothingApplied
<1> QED
  BY <1>3, <1>4, <1>5

(* An event about another stream, or about none, changes no view. *)
LEMMA NotAddressed ==
  ASSUME NEW view, NEW id, NEW e, "stream_id" \notin DOMAIN e \/ e.stream_id # id
  PROVE  ApplyOne(view, id, e) = view
BY Zenon DEF ApplyOne

(* An event about the stream is applied to its view. *)
LEMMA Addressed ==
  ASSUME NEW view, NEW id, NEW e, "stream_id" \in DOMAIN e, e.stream_id = id
  PROVE  ApplyOne(view, id, e) = ApplyEvent(view, e)
BY Zenon DEF ApplyOne

(* The fee is not part of the view. *)
LEMMA FeeApplied ==
  ASSUME NEW view, NEW i, NEW id, NEW amount
  PROVE  ApplyEvents(view, i, fee_events(id, amount)) = view
<1> DEFINE e == [type |-> "fee_collected", stream_id |-> id, fee_amount |-> fee_on(amount)]
<1>1. e.type = "fee_collected"
  OBVIOUS
<1>2. fee_events(id, amount) \in {<<e>>, <<>>}
  BY DEF fee_events
<1> HIDE DEF e
<1>3. ApplyEvent(view, e) = view
  BY <1>1 DEF ApplyEvent
<1>4. ApplyOne(view, i, e) = view
  BY <1>3, Zenon DEF ApplyOne
<1> QED
  BY <1>2, <1>4, OneApplied, NothingApplied

(* The last event of a call that may have charged a fee. *)
LEMMA AfterFee ==
  ASSUME NEW view, NEW i, NEW id, NEW amount, NEW e
  PROVE  ApplyEvents(view, i, Append(fee_events(id, amount), e)) = ApplyOne(view, i, e)
<1> DEFINE f == [type |-> "fee_collected", stream_id |-> id, fee_amount |-> fee_on(amount)]
<1>1. fee_events(id, amount) \in {<<f>>, <<>>}
  BY DEF fee_events
<1>2. PICK S : S = {e, f}
  OBVIOUS
<1> HIDE DEF f
<1>3. fee_events(id, amount) \in Seq(S) /\ e \in S
  <2>1. <<f>> \in Seq(S)
    BY <1>2
  <2>2. <<>> \in Seq(S)
    BY EmptySeq
  <2> QED
    BY <1>1, <1>2, <2>1, <2>2, Zenon
<1> QED
  BY <1>3, AppendApplied, FeeApplied

(* What each event does to the view of the stream it is about. *)
Seen(deposited, withdrawn, is_active, paused) ==
  [open |-> TRUE, deposited |-> deposited, withdrawn |-> withdrawn, is_active |-> is_active,
   paused |-> paused]

(* The top-up event carries the new deposit. *)
LEMMA ToppedUpEvent ==
  ASSUME NEW d, NEW w, NEW a, NEW p, NEW e, e.type = "stream_topped_up"
  PROVE  ApplyEvent(Seen(d, w, a, p), e) = Seen(e.new_deposited_amount, w, a, p)
BY DEF ApplyEvent, Seen

(* The closing event ends the view. *)
LEMMA ClosedEvent ==
  ASSUME NEW view, NEW e, e.type = "stream_closed"
  PROVE  ApplyEvent(view, e) = [open |-> FALSE]
BY DEF ApplyEvent

-----------------------------------------------------------------------------
(* The events of a call tell what it did to stream i. *)
Told(i) == ApplyEvents(View(try_load_stream(i)), i, events') = (View(try_load_stream(i)))'

(* A call that saves one record and publishes one event about it, after an *)
(* event about a fee or none.                                               *)
LEMMA SaveTold ==
  ASSUME StreamFields = STREAM_FIELD_COUNT, IInv, NEW id \in StreamIds, NEW x \in Stream,
         save_stream(id, x), NEW e, "stream_id" \in DOMAIN e, e.stream_id = id,
         \/ events' = <<e>>
         \/ \E amount : events' = Append(fee_events(id, amount), e),
         ApplyEvent(View(try_load_stream(id)), e) = View(x)
  PROVE  \A i \in StreamIds : Told(i)
<1>1. x # NoStream
  BY NoneAssumption
<1>2. /\ (try_load_stream(id))' = x
      /\ \A i \in StreamIds \ {id} : (try_load_stream(i))' = try_load_stream(i)
  BY <1>1, SaveLoads DEF ReadBack
<1>3. ASSUME NEW i, NEW view PROVE ApplyEvents(view, i, events') = ApplyOne(view, i, e)
  <2>1. ApplyEvents(view, i, <<e>>) = ApplyOne(view, i, e)
    BY OneApplied
  <2>2. \A amount : ApplyEvents(view, i, Append(fee_events(id, amount), e)) = ApplyOne(view, i, e)
    BY AfterFee
  <2> QED
    BY <2>1, <2>2, Zenon
<1>4. Told(id)
  <2>1. (View(try_load_stream(id)))' = View(x)
    BY <1>2 DEF View
  <2>2. ApplyOne(View(try_load_stream(id)), id, e) = View(x)
    BY Addressed
  <2> QED
    BY <1>3, <2>1, <2>2 DEF Told
<1>5. ASSUME NEW i \in StreamIds \ {id} PROVE Told(i)
  <2>1. (View(try_load_stream(i)))' = View(try_load_stream(i))
    BY <1>2, <1>5 DEF View
  <2>2. ApplyOne(View(try_load_stream(i)), i, e) = View(try_load_stream(i))
    BY <1>5, NotAddressed
  <2> QED
    BY <1>3, <2>1, <2>2 DEF Told
<1> QED
  BY <1>4, <1>5

(* The view of a record that is there. *)
LEMMA ViewOf ==
  ASSUME NEW s \in Stream
  PROVE  View(s) = Seen(s.deposited_amount, s.withdrawn_amount, s.is_active, s.paused)
BY NoneAssumption, Zenon DEF View, Seen

(* Opening a stream publishes its net deposit. *)
LEMMA OpenTold ==
  ASSUME StreamFields = STREAM_FIELD_COUNT, IInv, NEW sender \in Senders,
         NEW recipient \in Recipients, NEW token, NEW amount \in Amounts, NEW rate \in Amount,
         NEW schedule \in Schedule, NEW event,
         event \in {"stream_created", "step_vesting_stream_created",
                    "hybrid_cliff_stream_created"},
         open_stream(sender, recipient, token, amount, rate, schedule, event)
  PROVE  \A i \in StreamIds : Told(i)
<1>0. PICK id : id = next_stream_id
  OBVIOUS
<1> DEFINE net == amount - fee_on(amount)
           r == new_stream(sender, recipient, token, rate, net, schedule)
           e == [type |-> event, stream_id |-> id, deposited_amount |-> net]
<1>1. /\ sender \in Addr /\ recipient \in Holder /\ token \in Tokens
      /\ amount \in Nat \ {0} /\ amount <= I128_MAX
  BY InputAssumption, WidthAssumption DEF open_stream, validate_token_contract
<1>2. /\ id = stream_counter + 1 /\ id <= MaxStreams /\ save_stream(id, r)
      /\ events' = Append(fee_events(id, amount), e)
  BY <1>0 DEF open_stream, next_stream_id
<1>3. stream_counter \in 0..MaxStreams /\ config \in ProtocolConfig \cup {NoConfig}
      /\ now \in Time
  BY BoundAssumption, WidthAssumption DEF IInv, InstanceInv, Time
<1>4. fee_on(amount) \in 0..(amount - 1)
  BY <1>1, <1>3, FeeBounds
<1>5. net \in Amount
  BY <1>1, <1>4, WidthAssumption DEF Amount
<1>6. id \in StreamIds
  BY <1>2, <1>3, BoundAssumption DEF StreamIds
<1> HIDE DEF net
<1>7. r \in Stream
  BY <1>1, <1>3, <1>5, WidthAssumption DEF new_stream, Stream, Amount, StreamStatus
<1>8. View(r) = Seen(net, 0, TRUE, FALSE)
  <2>1. r.deposited_amount = net /\ r.withdrawn_amount = 0 /\ r.is_active = TRUE
        /\ r.paused = FALSE
    BY DEF new_stream
  <2> HIDE DEF r
  <2> QED
    BY <1>7, <2>1, ViewOf
<1>9. e.type = event /\ e.deposited_amount = net /\ e.stream_id = id /\ "stream_id" \in DOMAIN e
  OBVIOUS
<1> HIDE DEF r, e
<1>10. ApplyEvent(View(try_load_stream(id)), e) = View(r)
  BY <1>8, <1>9 DEF ApplyEvent, Seen
<1> QED
  BY <1>2, <1>6, <1>7, <1>9, <1>10, SaveTold

(* So do the three create entrypoints. *)
LEMMA CreateTold ==
  ASSUME StreamFields = STREAM_FIELD_COUNT, IInv, Create
  PROVE  \A i \in StreamIds : Told(i)
<1>1. PICK sender \in Senders, recipient \in Recipients, token \in Tokens \cup Holder,
           amount \in Amounts :
        \/ \E d \in Durations : create_stream(sender, recipient, token, amount, d)
        \/ \E steps \in StepSchedules :
             create_step_vesting_stream(sender, recipient, token, amount, steps)
        \/ \E cliff \in Cliffs :
             create_hybrid_cliff_stream(sender, recipient, token, amount, cliff)
  BY DEF Create
<1> DEFINE net == amount - fee_on(amount)
<1>2. ASSUME amount > 0 PROVE net \in Nat \ {0} /\ net <= I128_MAX
  <2>1. amount \in Nat \ {0} /\ amount <= I128_MAX
    BY <1>2, InputAssumption, WidthAssumption
  <2>2. fee_on(amount) \in 0..(amount - 1)
    BY <2>1, FeeBounds DEF IInv, InstanceInv
  <2> QED
    BY <2>1, <2>2, WidthAssumption
<1> HIDE DEF net
<1>3. ASSUME NEW d \in Durations, create_stream(sender, recipient, token, amount, d)
      PROVE  \A i \in StreamIds : Told(i)
  <2> DEFINE rate == net \div d
  <2>1. /\ d > 0 /\ amount > 0
        /\ open_stream(sender, recipient, token, amount, rate, Linear, "stream_created")
    BY <1>3 DEF create_stream, open_stream, net
  <2>2. d \in Nat \ {0}
    BY <2>1, InputAssumption, WidthAssumption DEF Time
  <2>3. rate \in 0..net
    BY <1>2, <2>1, <2>2, DivBounds
  <2>4. rate \in Amount
    BY <1>2, <2>1, <2>3, WidthAssumption DEF Amount
  <2>5. Linear \in Schedule
    BY DEF Schedule
  <2> HIDE DEF rate
  <2> QED
    BY <2>1, <2>4, <2>5, OpenTold
<1>4. ASSUME NEW steps \in StepSchedules,
             create_step_vesting_stream(sender, recipient, token, amount, steps)
      PROVE  \A i \in StreamIds : Told(i)
  <2>1. open_stream(sender, recipient, token, amount, 0, StepTranches(steps),
                    "step_vesting_stream_created")
    BY <1>4 DEF create_step_vesting_stream
  <2>2. StepTranches(steps) \in Schedule
    BY InputAssumption DEF Schedule, StepTranches
  <2>3. 0 \in Amount
    BY WidthAssumption DEF Amount
  <2> QED
    BY <2>1, <2>2, <2>3, OpenTold
<1>5. ASSUME NEW cliff \in Cliffs,
             create_hybrid_cliff_stream(sender, recipient, token, amount, cliff)
      PROVE  \A i \in StreamIds : Told(i)
  <2> DEFINE tail == net - cliff.cliff_unlock_amount
             rate == tail \div cliff.linear_duration
             schedule == HybridCliffLinear(cliff.cliff_time, cliff.cliff_unlock_amount)
  <2>1. /\ cliff.linear_duration > 0 /\ cliff.cliff_unlock_amount < net /\ amount > 0
        /\ open_stream(sender, recipient, token, amount, rate, schedule,
                       "hybrid_cliff_stream_created")
    BY <1>5 DEF create_hybrid_cliff_stream, open_stream, net
  <2>2. /\ cliff.cliff_time \in Time /\ cliff.cliff_unlock_amount \in Amount
        /\ cliff.linear_duration \in Time
    BY InputAssumption
  <2>3. cliff.linear_duration \in Nat \ {0}
    BY <2>1, <2>2, WidthAssumption DEF Time
  <2>4. tail \in Nat /\ tail <= I128_MAX
    BY <1>2, <2>1, <2>2, WidthAssumption DEF Amount
  <2>5. rate \in 0..tail
    BY <2>3, <2>4, DivBounds
  <2>6. rate \in Amount
    BY <2>4, <2>5, WidthAssumption DEF Amount
  <2>7. schedule \in Schedule
    BY <2>2 DEF Schedule, HybridCliffLinear
  <2> HIDE DEF rate, schedule
  <2> QED
    BY <2>1, <2>6, <2>7, OpenTold
<1> QED
  BY <1>1, <1>3, <1>4, <1>5

(* A top-up publishes the deposit it leaves. *)
LEMMA TopUpTold ==
  ASSUME StreamFields = STREAM_FIELD_COUNT, IInv, NEW sender \in Addr, NEW id \in StreamIds,
         NEW amount \in TopUps, top_up_stream(sender, id, amount)
  PROVE  \A i \in StreamIds : Told(i)
<1> DEFINE s == try_load_stream(id)
           net == amount - fee_on(amount)
           r == topped_up(s, net)
           left == r.deposited_amount - r.withdrawn_amount - calculate_claimable(r, now)
           e == [type |-> "stream_topped_up", stream_id |-> id,
                 new_deposited_amount |-> r.deposited_amount,
                 new_end_time |-> project_end_time(now, left, r.rate_per_second)]
<1>1. /\ amount > 0 /\ s # NoStream /\ r.deposited_amount <= I128_MAX
      /\ save_stream(id, r) /\ events' = Append(fee_events(id, amount), e)
  BY DEF top_up_stream
<1>2. s \in Stream /\ s.deposited_amount \in Nat /\ config \in ProtocolConfig \cup {NoConfig}
  BY <1>1, LiveNumbers, LoadedFacts
<1>3. amount \in Nat \ {0}
  BY <1>1, InputAssumption, WidthAssumption
<1>4. net \in Nat \ {0}
  BY <1>2, <1>3, FeeBounds
<1> HIDE DEF net, s
<1>5. /\ r.deposited_amount = s.deposited_amount + net
      /\ r.withdrawn_amount = s.withdrawn_amount /\ r.is_active = s.is_active
      /\ r.paused = s.paused
  BY <1>2, ToppedUpFields
<1>6. r \in Stream
  <2>1. s.deposited_amount + net \in Amount
    BY <1>1, <1>2, <1>4, <1>5 DEF Amount
  <2> QED
    BY <1>2, <2>1 DEF topped_up, Stream
<1> HIDE DEF r
<1>7. /\ e.type = "stream_topped_up" /\ e.stream_id = id /\ "stream_id" \in DOMAIN e
      /\ e.new_deposited_amount = r.deposited_amount
  OBVIOUS
<1> HIDE DEF e
<1>8. ApplyEvent(View(s), e) = View(r)
  <2>1. View(s) = Seen(s.deposited_amount, s.withdrawn_amount, s.is_active, s.paused)
    BY <1>2, ViewOf
  <2>2. View(r) = Seen(r.deposited_amount, s.withdrawn_amount, s.is_active, s.paused)
    BY <1>5, <1>6, ViewOf
  <2>3. ApplyEvent(Seen(s.deposited_amount, s.withdrawn_amount, s.is_active, s.paused), e)
          = Seen(r.deposited_amount, s.withdrawn_amount, s.is_active, s.paused)
    BY <1>7, ToppedUpEvent
  <2> QED
    BY <2>1, <2>2, <2>3
<1> QED
  BY <1>1, <1>6, <1>7, <1>8, SaveTold DEF s

(* A cancellation publishes the amount withdrawn in the end. *)
LEMMA CancelTold ==
  ASSUME StreamFields = STREAM_FIELD_COUNT, IInv, NEW sender \in Addr, NEW id \in StreamIds,
         cancel_stream(sender, id)
  PROVE  \A i \in StreamIds : Told(i)
<1> DEFINE s == try_load_stream(id)
           r == cancelled(s, Claim(s))
           e == [type |-> "stream_cancelled", stream_id |-> id,
                 amount_withdrawn |-> r.withdrawn_amount,
                 refunded_amount |-> r.deposited_amount - r.withdrawn_amount]
<1>1. s # NoStream /\ save_stream(id, r) /\ events' = <<e>>
  BY DEF cancel_stream, Claim
<1>2. /\ s \in Stream /\ now \in Time /\ Claim(s) \in Nat /\ s.withdrawn_amount \in Nat
      /\ Claim(s) <= s.deposited_amount - s.withdrawn_amount
      /\ s.deposited_amount \in Nat /\ s.deposited_amount <= I128_MAX
  BY <1>1, LiveNumbers
<1>3. SatAdd(s.withdrawn_amount, Claim(s)) \in Amount
  BY <1>2, WidthAssumption DEF SatAdd, Least, Amount
<1>4. r \in Stream
  BY <1>2, <1>3 DEF cancelled, Stream, StreamStatus, NONE
<1>5. r.is_active = FALSE /\ r.paused = FALSE /\ r.deposited_amount = s.deposited_amount
  BY <1>2 DEF cancelled, Stream
<1> HIDE DEF r
<1>6. /\ e.type = "stream_cancelled" /\ e.stream_id = id /\ "stream_id" \in DOMAIN e
      /\ e.amount_withdrawn = r.withdrawn_amount
  OBVIOUS
<1> HIDE DEF e
<1>7. ApplyEvent(View(s), e) = View(r)
  <2>1. View(s) = Seen(s.deposited_amount, s.withdrawn_amount, s.is_active, s.paused)
    BY <1>2, ViewOf
  <2>2. View(r) = Seen(s.deposited_amount, r.withdrawn_amount, FALSE, FALSE)
    BY <1>4, <1>5, ViewOf
  <2>3. ApplyEvent(Seen(s.deposited_amount, s.withdrawn_amount, s.is_active, s.paused), e)
          = Seen(s.deposited_amount, r.withdrawn_amount, FALSE, FALSE)
    BY <1>6 DEF ApplyEvent, Seen
  <2> QED
    BY <2>1, <2>2, <2>3
<1> QED
  BY <1>1, <1>4, <1>6, <1>7, SaveTold

(* A pause publishes itself. *)
LEMMA PauseTold ==
  ASSUME StreamFields = STREAM_FIELD_COUNT, IInv, NEW sender \in Addr, NEW id \in StreamIds,
         pause_stream(sender, id)
  PROVE  \A i \in StreamIds : Told(i)
<1> DEFINE s == try_load_stream(id)
           r == Paused(s)
           e == [type |-> "stream_paused", stream_id |-> id, paused_at |-> now]
<1>1. s # NoStream /\ save_stream(id, r) /\ events' = <<e>>
  BY DEF pause_stream, Paused
<1>2. s \in Stream /\ now \in Time
  BY <1>1, LiveNumbers
<1>3. r \in Stream
  BY <1>2 DEF Paused, Stream, StreamStatus
<1>4. /\ r.paused = TRUE /\ r.withdrawn_amount = s.withdrawn_amount /\ r.is_active = s.is_active
      /\ r.deposited_amount = s.deposited_amount
  BY <1>2, PausedFields
<1>5. e.type = "stream_paused" /\ e.stream_id = id /\ "stream_id" \in DOMAIN e
  OBVIOUS
<1> HIDE DEF r, e
<1>6. ApplyEvent(View(s), e) = View(r)
  <2>1. View(s) = Seen(s.deposited_amount, s.withdrawn_amount, s.is_active, s.paused)
    BY <1>2, ViewOf
  <2>2. View(r) = Seen(s.deposited_amount, s.withdrawn_amount, s.is_active, TRUE)
    BY <1>3, <1>4, ViewOf
  <2>3. ApplyEvent(Seen(s.deposited_amount, s.withdrawn_amount, s.is_active, s.paused), e)
          = Seen(s.deposited_amount, s.withdrawn_amount, s.is_active, TRUE)
    BY <1>5 DEF ApplyEvent, Seen
  <2> QED
    BY <2>1, <2>2, <2>3
<1> QED
  BY <1>1, <1>3, <1>5, <1>6, SaveTold

(* A resume publishes itself. *)
LEMMA ResumeTold ==
  ASSUME StreamFields = STREAM_FIELD_COUNT, IInv, NEW sender \in Addr, NEW id \in StreamIds,
         resume_stream(sender, id)
  PROVE  \A i \in StreamIds : Told(i)
<1> DEFINE s == try_load_stream(id)
           r == resumed(s)
           end == IF s.schedule.kind = "Linear"
                  THEN now + AsU64((s.deposited_amount - s.withdrawn_amount
                                      - calculate_claimable(s, now)) \div s.rate_per_second)
                  ELSE projected_end_time(r)
           e == [type |-> "stream_resumed", stream_id |-> id, new_end_time |-> end]
<1>1. s # NoStream /\ s.paused /\ save_stream(id, r) /\ events' = <<e>>
  BY DEF resume_stream
<1>2. /\ s \in Stream /\ Coherent(s, now) /\ now \in Time /\ now \in Nat
      /\ s.last_update_time \in Nat
  BY <1>1, LiveNumbers
<1>3. /\ r.paused = FALSE /\ r.withdrawn_amount = s.withdrawn_amount /\ r.is_active = s.is_active
      /\ r.deposited_amount = s.deposited_amount
  BY <1>1, <1>2, ResumedFields
<1>4. r \in Stream
  <2> DEFINE at == IF s.paused_at # NONE THEN s.paused_at ELSE now
             anchor == SatAddTime(s.last_update_time, SatSubTime(now, at))
  <2>1. s.paused_at \in Int
    BY <1>2, StreamNumbers
  <2>2. anchor \in Time
    BY <1>2, <2>1, WidthAssumption DEF SatAddTime, SatSubTime, Least, Greatest, Time
  <2>3. r = [s EXCEPT !.last_update_time = anchor, !.paused = FALSE, !.paused_at = NONE,
                      !.status = "Active"]
    BY DEF resumed
  <2> HIDE DEF anchor, r
  <2> QED
    BY <1>2, <2>2, <2>3 DEF Stream, StreamStatus
<1> HIDE DEF r, end
<1>5. e.type = "stream_resumed" /\ e.stream_id = id /\ "stream_id" \in DOMAIN e
  OBVIOUS
<1> HIDE DEF e
<1>6. ApplyEvent(View(s), e) = View(r)
  <2>1. View(s) = Seen(s.deposited_amount, s.withdrawn_amount, s.is_active, s.paused)
    BY <1>2, ViewOf
  <2>2. View(r) = Seen(s.deposited_amount, s.withdrawn_amount, s.is_active, FALSE)
    BY <1>3, <1>4, ViewOf
  <2>3. ApplyEvent(Seen(s.deposited_amount, s.withdrawn_amount, s.is_active, s.paused), e)
          = Seen(s.deposited_amount, s.withdrawn_amount, s.is_active, FALSE)
    BY <1>5 DEF ApplyEvent, Seen
  <2> QED
    BY <2>1, <2>2, <2>3
<1> QED
  BY <1>1, <1>4, <1>5, <1>6, SaveTold

(* Pruning publishes that the stream is gone. *)
LEMMA CloseTold ==
  ASSUME IInv, NEW caller \in Addr, NEW id \in StreamIds, close_stream(caller, id)
  PROVE  \A i \in StreamIds : Told(i)
<1> DEFINE e == [type |-> "stream_closed", stream_id |-> id]
<1>1. remove_stream(id) /\ events' = <<e>>
  BY DEF close_stream
<1>2. streams \in [StreamIds -> Stream \cup {NoStream}] /\ fields \in [StreamIds -> Nat]
  BY DEF IInv, LedgerInv
<1>3. (try_load_stream(id))' = NoStream
  BY <1>1, <1>2 DEF remove_stream, try_load_stream, decode_stream
<1>4. \A i \in StreamIds \ {id} : (try_load_stream(i))' = try_load_stream(i)
  BY <1>1, <1>2 DEF remove_stream, try_load_stream
<1>5. e.type = "stream_closed" /\ e.stream_id = id /\ "stream_id" \in DOMAIN e
  OBVIOUS
<1> HIDE DEF e
<1>6. ASSUME NEW i, NEW view PROVE ApplyEvents(view, i, events') = ApplyOne(view, i, e)
  BY <1>1, OneApplied
<1>7. Told(id)
  <2>1. (View(try_load_stream(id)))' = [open |-> FALSE]
    BY <1>3 DEF View
  <2>2. ApplyOne(View(try_load_stream(id)), id, e) = [open |-> FALSE]
    BY <1>5, Addressed, ClosedEvent, Zenon
  <2> QED
    BY <1>6, <2>1, <2>2 DEF Told
<1>8. ASSUME NEW i \in StreamIds \ {id} PROVE Told(i)
  <2>1. (View(try_load_stream(i)))' = View(try_load_stream(i))
    BY <1>4, <1>8 DEF View
  <2>2. ApplyOne(View(try_load_stream(i)), i, e) = View(try_load_stream(i))
    BY <1>5, <1>8, NotAddressed
  <2> QED
    BY <1>6, <2>1, <2>2 DEF Told
<1> QED
  BY <1>7, <1>8

-----------------------------------------------------------------------------
(* A withdrawal publishes what it paid and, when it drained the stream, that *)
(* the stream is complete: together they lead to the record it saved.        *)
WithdrawalEvent ==
  [type : {"tokens_withdrawn"}, stream_id : StreamIds, amount : Nat]
    \cup [type : {"stream_completed"}, stream_id : StreamIds, total_withdrawn : Nat]

(* The events of one withdrawal, after any events of withdrawals before it. *)
LEMMA WithdrawalTold ==
  ASSUME now \in Nat, now \in Time, NEW s \in Stream, Coherent(s, now), s.is_active, ~s.paused,
         NEW amount \in Nat \ {0}, amount <= s.deposited_amount - s.withdrawn_amount,
         NEW id \in StreamIds, NEW es \in Seq(WithdrawalEvent)
  PROVE  LET t == apply_withdrawal(s, amount)
             all == es \o withdrawal_events(id, t, amount)
         IN  /\ all \in Seq(WithdrawalEvent)
             /\ \A v : ApplyEvents(v, id, es) = View(s) => ApplyEvents(v, id, all) = View(t)
             /\ \A v, i : i # id => ApplyEvents(v, i, all) = ApplyEvents(v, i, es)
<1> DEFINE t == apply_withdrawal(s, amount)
           w == s.withdrawn_amount + amount
           e == [type |-> "tokens_withdrawn", stream_id |-> id, amount |-> amount]
           f == [type |-> "stream_completed", stream_id |-> id,
                 total_withdrawn |-> t.withdrawn_amount]
           tail == IF t.status = "Completed" THEN <<f>> ELSE <<>>
           all == es \o withdrawal_events(id, t, amount)
<1>1. s.withdrawn_amount \in Nat /\ s.deposited_amount \in Nat
  BY StreamNumbers
<1>2. /\ t.withdrawn_amount = w /\ t.deposited_amount = s.deposited_amount
      /\ t.paused = s.paused
  BY WithdrawnFields
<1>3. t.is_active = (s.is_active /\ ~(w >= s.deposited_amount))
  BY WithdrawnFields, Zenon
<1>4. t.status = IF w >= s.deposited_amount THEN "Completed" ELSE s.status
  BY WithdrawnFields, Zenon
<1>5. t \in Stream
  BY WithdrawnRecord
<1>6. s.status = "Active"
  BY DEF Coherent
<1>7. w \in Nat
  BY <1>1
<1>8. e \in WithdrawalEvent /\ f \in WithdrawalEvent
  BY <1>2, <1>7 DEF WithdrawalEvent
<1>9. withdrawal_events(id, t, amount) = <<e>> \o tail
  BY DEF withdrawal_events
<1>10. /\ e.type = "tokens_withdrawn" /\ e.stream_id = id /\ "stream_id" \in DOMAIN e
       /\ e.amount = amount
  OBVIOUS
<1>11. f.type = "stream_completed" /\ f.stream_id = id /\ "stream_id" \in DOMAIN f
  OBVIOUS
<1>12. View(s) = Seen(s.deposited_amount, s.withdrawn_amount, TRUE, FALSE)
  <2>1. s.is_active = TRUE /\ s.paused = FALSE
    BY DEF Stream
  <2> QED
    BY <2>1, ViewOf
<1> HIDE DEF e, f, t, w
<1>13. PICK S : S = WithdrawalEvent
  OBVIOUS
<1>14. /\ es \in Seq(S) /\ e \in S /\ f \in S /\ Append(es, e) \in Seq(S)
       /\ <<e>> \in Seq(S) /\ <<f>> \in Seq(S)
  BY <1>8, <1>13
<1>15. Append(es, e) = es \o <<e>>
  BY <1>14, AppendIsConcat
<1>16. ASSUME NEW v, ApplyEvents(v, id, es) = View(s)
       PROVE  ApplyEvents(v, id, Append(es, e)) = Seen(s.deposited_amount, w, TRUE, FALSE)
  <2>1. ApplyEvents(v, id, Append(es, e)) = ApplyOne(View(s), id, e)
    BY <1>14, <1>16, AppendApplied
  <2>2. ApplyOne(View(s), id, e) = ApplyEvent(View(s), e)
    BY <1>10, Addressed
  <2>3. ApplyEvent(View(s), e) = Seen(s.deposited_amount, w, TRUE, FALSE)
    <3>1. ApplyEvent(Seen(s.deposited_amount, s.withdrawn_amount, TRUE, FALSE), e)
            = Seen(s.deposited_amount, s.withdrawn_amount + amount, TRUE, FALSE)
      BY <1>10 DEF ApplyEvent, Seen
    <3> QED
      BY <1>12, <3>1 DEF w
  <2> QED
    BY <2>1, <2>2, <2>3
<1>17. ASSUME NEW v, NEW i, i # id
       PROVE  ApplyEvents(v, i, Append(es, e)) = ApplyEvents(v, i, es)
  <2>1. ApplyEvents(v, i, Append(es, e)) = ApplyOne(ApplyEvents(v, i, es), i, e)
    BY <1>14, AppendApplied
  <2> QED
    BY <1>10, <1>17, <2>1, NotAddressed
<1>18. CASE w >= s.deposited_amount
  <2>1. t.status = "Completed" /\ t.is_active = FALSE /\ t.paused = FALSE
    BY <1>2, <1>3, <1>4, <1>5, <1>18 DEF Stream
  <2>2. all = Append(Append(es, e), f)
    <3>1. all = es \o (<<e>> \o <<f>>)
      BY <1>9, <2>1
    <3>2. es \o (<<e>> \o <<f>>) = (es \o <<e>>) \o <<f>>
      BY <1>14, ConcatAssociative
    <3>3. Append(Append(es, e), f) = Append(es, e) \o <<f>>
      BY <1>14, AppendIsConcat
    <3> HIDE DEF all
    <3> QED
      BY <1>15, <3>1, <3>2, <3>3
  <2> HIDE DEF all
  <2>3. all \in Seq(WithdrawalEvent)
    BY <1>13, <1>14, <2>2, AppendProperties
  <2>4. ASSUME NEW v, ApplyEvents(v, id, es) = View(s)
        PROVE  ApplyEvents(v, id, all) = View(t)
    <3> DEFINE x == Seen(s.deposited_amount, w, TRUE, FALSE)
    <3>1. ApplyEvents(v, id, Append(es, e)) = x
      BY <1>16, <2>4
    <3>2. ApplyEvents(v, id, all) = ApplyOne(ApplyEvents(v, id, Append(es, e)), id, f)
      BY <1>14, <2>2, AppendApplied
    <3>3. ApplyEvent(x, f) = Seen(s.deposited_amount, w, FALSE, FALSE)
      BY <1>11 DEF ApplyEvent, Seen
    <3>4. View(t) = Seen(s.deposited_amount, w, FALSE, FALSE)
      BY <1>2, <1>5, <2>1, ViewOf
    <3> HIDE DEF x
    <3>5. ApplyOne(x, id, f) = ApplyEvent(x, f)
      BY <1>11, Addressed
    <3> QED
      BY <3>1, <3>2, <3>3, <3>4, <3>5
  <2>5. ASSUME NEW v, NEW i, i # id PROVE ApplyEvents(v, i, all) = ApplyEvents(v, i, es)
    <3>1. ApplyEvents(v, i, all) = ApplyOne(ApplyEvents(v, i, Append(es, e)), i, f)
      BY <1>14, <2>2, AppendApplied
    <3>2. ApplyOne(ApplyEvents(v, i, Append(es, e)), i, f) = ApplyEvents(v, i, Append(es, e))
      BY <1>11, <2>5, NotAddressed
    <3>3. ApplyEvents(v, i, Append(es, e)) = ApplyEvents(v, i, es)
      BY <1>17, <2>5
    <3> QED
      BY <3>1, <3>2, <3>3
  <2> QED
    BY <2>3, <2>4, <2>5 DEF t, all
<1>19. CASE ~(w >= s.deposited_amount)
  <2>1. t.status # "Completed" /\ t.is_active = TRUE /\ t.paused = FALSE
    BY <1>2, <1>3, <1>4, <1>5, <1>6, <1>19 DEF Stream
  <2>2. all = Append(es, e)
    <3>1. all = es \o (<<e>> \o <<>>)
      BY <1>9, <2>1
    <3>2. <<e>> \o <<>> = <<e>>
      BY <1>14, ConcatEmptySeq
    <3> HIDE DEF all
    <3> QED
      BY <1>15, <3>1, <3>2
  <2> HIDE DEF all
  <2>3. all \in Seq(WithdrawalEvent)
    BY <1>13, <1>14, <2>2
  <2>4. View(t) = Seen(s.deposited_amount, w, TRUE, FALSE)
    BY <1>2, <1>5, <2>1, ViewOf
  <2>5. ASSUME NEW v, ApplyEvents(v, id, es) = View(s)
        PROVE  ApplyEvents(v, id, all) = View(t)
    BY <1>16, <2>2, <2>4, <2>5
  <2>6. ASSUME NEW v, NEW i, i # id PROVE ApplyEvents(v, i, all) = ApplyEvents(v, i, es)
    BY <1>17, <2>2, <2>6
  <2> QED
    BY <2>3, <2>5, <2>6 DEF t, all
<1> QED
  BY <1>18, <1>19

(* A single withdrawal. *)
LEMMA WithdrawTold ==
  ASSUME StreamFields = STREAM_FIELD_COUNT, IInv, NEW recipient \in Addr, NEW id \in StreamIds,
         withdraw(recipient, id)
  PROVE  \A i \in StreamIds : Told(i)
<1> DEFINE s == try_load_stream(id)
           r == apply_withdrawal(s, Claim(s))
           es == withdrawal_events(id, r, Claim(s))
<1>1. /\ s # NoStream /\ s.is_active /\ ~s.paused /\ Claim(s) > 0
      /\ save_stream(id, r) /\ events' = es
  BY DEF withdraw, Claim
<1>2. /\ s \in Stream /\ Coherent(s, now) /\ now \in Time /\ now \in Nat
      /\ Claim(s) \in Nat \ {0} /\ Claim(s) <= s.deposited_amount - s.withdrawn_amount
  BY <1>1, LiveNumbers
<1>3. r \in Stream /\ r # NoStream
  BY <1>1, <1>2, WithdrawnRecord, NoneAssumption
<1>4. <<>> \in Seq(WithdrawalEvent)
  BY EmptySeq
<1>5. /\ <<>> \o es \in Seq(WithdrawalEvent)
      /\ \A v : ApplyEvents(v, id, <<>>) = View(s) => ApplyEvents(v, id, <<>> \o es) = View(r)
      /\ \A v, i : i # id => ApplyEvents(v, i, <<>> \o es) = ApplyEvents(v, i, <<>>)
  BY <1>1, <1>2, <1>4, WithdrawalTold
<1> HIDE DEF r
<1>6. <<>> \o es = es
  <2> DEFINE e == [type |-> "tokens_withdrawn", stream_id |-> id, amount |-> Claim(s)]
             f == [type |-> "stream_completed", stream_id |-> id,
                   total_withdrawn |-> r.withdrawn_amount]
  <2>1. PICK S : S = {e, f}
    OBVIOUS
  <2>2. es = <<e>> \o IF r.status = "Completed" THEN <<f>> ELSE <<>>
    BY DEF withdrawal_events
  <2> HIDE DEF e, f, es
  <2>3. <<e>> \in Seq(S) /\ <<f>> \in Seq(S) /\ <<>> \in Seq(S)
    BY <2>1
  <2>4. es \in Seq(S)
    BY <2>2, <2>3, ConcatProperties
  <2> QED
    BY <2>4, ConcatEmptySeq
<1> HIDE DEF es
<1>7. \A v, i : ApplyEvents(v, i, <<>>) = v
  BY NothingApplied
<1>8. /\ (try_load_stream(id))' = r
      /\ \A i \in StreamIds \ {id} : (try_load_stream(i))' = try_load_stream(i)
  BY <1>1, <1>3, SaveLoads DEF ReadBack
<1>9. Told(id)
  <2>1. (View(try_load_stream(id)))' = View(r)
    BY <1>8 DEF View
  <2>2. ApplyEvents(View(s), id, es) = View(r)
    BY <1>5, <1>6, <1>7
  <2> QED
    BY <1>1, <2>1, <2>2 DEF Told
<1>10. ASSUME NEW i \in StreamIds \ {id} PROVE Told(i)
  <2>1. (View(try_load_stream(i)))' = View(try_load_stream(i))
    BY <1>8, <1>10 DEF View
  <2>2. ApplyEvents(View(try_load_stream(i)), i, es) = View(try_load_stream(i))
    BY <1>5, <1>6, <1>7, <1>10
  <2> QED
    BY <1>1, <2>1, <2>2 DEF Told
<1> QED
  BY <1>9, <1>10

(* The events a batch has gathered so far lead from the records before the   *)
(* call to the records it has written so far, repeated ids included.         *)
BatchTold(acc) ==
  acc.ok =>
    /\ acc.events \in Seq(WithdrawalEvent)
    /\ \A i \in StreamIds : ApplyEvents(View(try_load_stream(i)), i, acc.events)
                              = View(Loaded(acc.streams, acc.fields, i))

(* One id of a batch adds the events of what it did. *)
LEMMA BatchStepTold ==
  ASSUME StreamFields = STREAM_FIELD_COUNT, IInv, NEW acc, BatchInv(acc), BatchTold(acc),
         NEW recipient \in Addr, NEW id \in StreamIds
  PROVE  BatchTold(batch_step(acc, recipient, id))
<1>1. PICK st, fl, b, ok, es :
        /\ acc = [streams |-> st, fields |-> fl, balance |-> b, ok |-> ok, events |-> es]
        /\ ok => /\ LedgerInv(st, fl, b, now)
                 /\ \A i \in StreamIds : i > stream_counter => st[i] = NoStream
  BY DEF BatchInv
<1> DEFINE s == Loaded(st, fl, id)
           amount == calculate_claimable(s, now)
           t == apply_withdrawal(s, amount)
           es2 == es \o withdrawal_events(id, t, amount)
           c == Transfer(b, s.token_address, Contract, recipient, amount)
           ok2 == ok /\ b[s.token_address][Contract] >= amount
           st2 == [st EXCEPT ![id] = t]
           fl2 == [fl EXCEPT ![id] = StreamFields]
           next == batch_step(acc, recipient, id)
<1>2. /\ acc.streams = st /\ acc.fields = fl /\ acc.balance = b
      /\ acc.ok = ok /\ acc.events = es
  BY <1>1
<1>3. decode_stream(acc.streams[id], acc.fields[id]) = s
  BY <1>2 DEF Loaded
<1> HIDE DEF s
<1>4. CASE s = NoStream \/ s.recipient # recipient
  <2>1. next = [acc EXCEPT !.ok = FALSE]
    BY <1>3, <1>4, Zenon DEF batch_step
  <2>2. next = [streams |-> st, fields |-> fl, balance |-> b, ok |-> FALSE, events |-> es]
    BY <1>1, <2>1
  <2>3. next.ok = FALSE
    BY <2>2
  <2> QED
    BY <2>3, Zenon DEF BatchTold
<1>5. CASE /\ ~(s = NoStream \/ s.recipient # recipient)
           /\ ~s.is_active \/ s.paused \/ amount <= 0
  <2>1. next = acc
    BY <1>3, <1>5, Zenon DEF batch_step
  <2> QED
    BY <2>1, Zenon
<1>6. ASSUME ok, ~(s = NoStream \/ s.recipient # recipient),
             ~(~s.is_active \/ s.paused \/ amount <= 0)
      PROVE  /\ s \in Stream /\ Coherent(s, now) /\ now \in Nat /\ now \in Time
             /\ amount \in Nat \ {0} /\ amount <= s.deposited_amount - s.withdrawn_amount
             /\ withdrawal_fits(s, amount)
  <2>1. s \in Stream /\ Coherent(s, now)
    BY <1>1, <1>6, LoadedType DEF LedgerInv, s
  <2>2. /\ s.deposited_amount \in Nat /\ s.withdrawn_amount \in Nat
        /\ s.deposited_amount <= I128_MAX
    BY <2>1, StreamNumbers, WidthAssumption DEF Stream, Amount
  <2>3. now \in Nat /\ now \in Time
    BY BoundAssumption, WidthAssumption DEF IInv, InstanceInv, Time
  <2>4. amount \in 0..(s.deposited_amount - s.withdrawn_amount)
    BY <2>1, <2>3, ClaimCovered
  <2> HIDE DEF amount
  <2>5. amount \in Nat \ {0} /\ amount <= s.deposited_amount - s.withdrawn_amount
    BY <1>6, <2>2, <2>4
  <2>6. withdrawal_fits(s, amount)
    BY <2>2, <2>5, WidthAssumption DEF withdrawal_fits
  <2> QED
    BY <2>1, <2>3, <2>5, <2>6
<1>7. CASE /\ ~(s = NoStream \/ s.recipient # recipient)
           /\ ~(~s.is_active \/ s.paused \/ amount <= 0)
           /\ ~withdrawal_fits(s, amount)
  <2> DEFINE es3 == acc.events \o withdrawal_events(id, s, amount)
  <2>1. next = [acc EXCEPT !.events = es3]
    BY <1>3, <1>7, Zenon DEF batch_step
  <2> HIDE DEF es3
  <2>2. next = [streams |-> st, fields |-> fl, balance |-> b, ok |-> ok, events |-> es3]
    BY <1>1, <2>1
  <2>3. next.ok = ok
    BY <2>2
  <2>4. ~ok
    BY <1>6, <1>7
  <2> QED
    BY <2>3, <2>4, Zenon DEF BatchTold
<1>8. CASE /\ ~(s = NoStream \/ s.recipient # recipient)
           /\ ~(~s.is_active \/ s.paused \/ amount <= 0)
           /\ withdrawal_fits(s, amount)
  <2>1. next = [streams |-> st2, fields |-> fl2, balance |-> c, ok |-> ok2, events |-> es2]
    BY <1>2, <1>3, <1>8, Zenon DEF batch_step
  <2>2. /\ next.streams = st2 /\ next.fields = fl2 /\ next.ok = ok2 /\ next.events = es2
    BY <2>1
  <2>3. ASSUME ok2
        PROVE  /\ es2 \in Seq(WithdrawalEvent)
               /\ \A i \in StreamIds : ApplyEvents(View(try_load_stream(i)), i, es2)
                                         = View(Loaded(st2, fl2, i))
    <3>1. ok /\ LedgerInv(st, fl, b, now)
      BY <1>1, <2>3
    <3>2. /\ s \in Stream /\ Coherent(s, now) /\ now \in Nat /\ now \in Time
          /\ amount \in Nat \ {0} /\ amount <= s.deposited_amount - s.withdrawn_amount
      BY <1>6, <1>8, <3>1
    <3> HIDE DEF amount
    <3>3. t \in Stream /\ t # NoStream
      BY <1>8, <3>2, WithdrawnRecord, NoneAssumption
    <3>4. /\ es \in Seq(WithdrawalEvent)
          /\ \A i \in StreamIds : ApplyEvents(View(try_load_stream(i)), i, es)
                                    = View(Loaded(st, fl, i))
      BY <1>2, <3>1 DEF BatchTold
    <3>5. /\ es2 \in Seq(WithdrawalEvent)
          /\ \A v : ApplyEvents(v, id, es) = View(s) => ApplyEvents(v, id, es2) = View(t)
          /\ \A v, i : i # id => ApplyEvents(v, i, es2) = ApplyEvents(v, i, es)
      BY <1>8, <3>2, <3>4, WithdrawalTold
    <3> HIDE DEF t, es2
    <3>6. /\ Loaded(st2, fl2, id) = t
          /\ \A i \in StreamIds \ {id} : Loaded(st2, fl2, i) = Loaded(st, fl, i)
      <4>1. st \in [StreamIds -> Stream \cup {NoStream}] /\ fl \in [StreamIds -> Nat]
        BY <3>1 DEF LedgerInv
      <4>2. st2[id] = t /\ fl2[id] = StreamFields
        BY <4>1
      <4>3. \A i \in StreamIds \ {id} : st2[i] = st[i] /\ fl2[i] = fl[i]
        BY <4>1
      <4> HIDE DEF st2, fl2
      <4> QED
        BY <3>3, <4>2, <4>3, DecodeSaved DEF Loaded, ReadBack
    <3> HIDE DEF st2, fl2
    <3>7. ApplyEvents(View(try_load_stream(id)), id, es2) = View(t)
      <4>1. ApplyEvents(View(try_load_stream(id)), id, es) = View(s)
        BY <3>4 DEF s
      <4> QED
        BY <3>5, <4>1
    <3>8. ASSUME NEW i \in StreamIds \ {id}
          PROVE  ApplyEvents(View(try_load_stream(i)), i, es2) = View(Loaded(st2, fl2, i))
      <4>1. ApplyEvents(View(try_load_stream(i)), i, es2)
              = ApplyEvents(View(try_load_stream(i)), i, es)
        BY <3>5, <3>8
      <4>2. Loaded(st2, fl2, i) = Loaded(st, fl, i)
        BY <3>6, <3>8
      <4> QED
        BY <3>4, <3>8, <4>1, <4>2
    <3> QED
      BY <3>5, <3>6, <3>7, <3>8
  <2> HIDE DEF st2, fl2, es2, ok2, next
  <2>4. BatchTold(next)
    BY <2>2, <2>3 DEF BatchTold
  <2> QED
    BY <2>4 DEF next
<1> QED
  BY <1>4, <1>5, <1>7, <1>8

(* Along the whole batch, by induction on its length. *)
LEMMA BatchRunTold ==
  ASSUME StreamFields = STREAM_FIELD_COUNT, IInv, NEW recipient \in Addr,
         NEW ids \in Seq(StreamIds)
  PROVE  BatchTold(batch_run(recipient, ids))
<1> DEFINE N == Len(ids)
           g == CHOOSE f : IsRun(f, recipient, ids, N)
           S == {n \in Nat : n <= N => BatchInv(g[n]) /\ BatchTold(g[n])}
<1>1. N \in Nat /\ \A i \in 1..N : ids[i] \in StreamIds
  OBVIOUS
<1>2. IsRun(g, recipient, ids, N)
  BY <1>1, RunExists
<1>3. batch_run(recipient, ids) = g[N]
  BY DEF batch_run, IsRun
<1> HIDE DEF g, N
<1>4. now \in Time /\ now \in Nat /\ stream_counter \in Nat
  BY BoundAssumption, WidthAssumption DEF IInv, InstanceInv, Time
<1>5. 0 \in S
  <2>1. g[0] = batch_start
    BY <1>1, <1>2 DEF IsRun
  <2>2. /\ LedgerInv(streams, fields, balance, now)
        /\ \A i \in StreamIds : i > stream_counter => streams[i] = NoStream
    BY DEF IInv, InstanceInv
  <2>3. BatchInv(g[0])
    BY <2>1, <2>2, Zenon DEF BatchInv, batch_start
  <2>4. g[0].streams = streams /\ g[0].fields = fields /\ g[0].events = <<>>
    BY <2>1 DEF batch_start
  <2>5. <<>> \in Seq(WithdrawalEvent)
    BY EmptySeq
  <2>6. ASSUME NEW i \in StreamIds
        PROVE  ApplyEvents(View(try_load_stream(i)), i, <<>>) = View(Loaded(streams, fields, i))
    <3>1. try_load_stream(i) = Loaded(streams, fields, i)
      BY DEF try_load_stream, Loaded
    <3> QED
      BY <3>1, NothingApplied
  <2>7. BatchTold(g[0])
    BY <2>4, <2>5, <2>6 DEF BatchTold
  <2> QED
    BY <2>3, <2>7
<1>6. ASSUME NEW n \in S PROVE n + 1 \in S
  <2> SUFFICES ASSUME n + 1 <= N PROVE BatchInv(g[n + 1]) /\ BatchTold(g[n + 1])
    BY <1>1
  <2>1. /\ BatchInv(g[n]) /\ BatchTold(g[n]) /\ n + 1 \in 1..N /\ n + 1 \in 0..N
        /\ n + 1 # 0 /\ (n + 1) - 1 = n
    BY <1>1
  <2>2. g[n + 1] = batch_step(g[n], recipient, ids[n + 1])
    BY <1>2, <2>1 DEF IsRun
  <2>3. BatchInv(batch_step(g[n], recipient, ids[n + 1]))
    BY <1>1, <1>4, <2>1, BatchStepKeeps
  <2>4. BatchTold(batch_step(g[n], recipient, ids[n + 1]))
    BY <1>1, <2>1, BatchStepTold
  <2> QED
    BY <2>2, <2>3, <2>4
<1>7. S = Nat
  <2>1. S \in SUBSET Nat
    OBVIOUS
  <2> HIDE DEF S
  <2> QED
    BY <1>5, <1>6, <2>1, SetInduction
<1>8. N \in S
  BY <1>1, <1>7
<1>9. BatchTold(g[N])
  BY <1>1, <1>8
<1> QED
  BY <1>3, <1>9

(* A whole batch_withdraw. *)
LEMMA BatchWithdrawTold ==
  ASSUME StreamFields = STREAM_FIELD_COUNT, IInv, NEW recipient \in Addr, NEW ids \in Batches,
         batch_withdraw(recipient, ids)
  PROVE  \A i \in StreamIds : Told(i)
<1> DEFINE done == batch_run(recipient, ids)
<1>1. BatchTold(done)
  BY InputAssumption, BatchRunTold
<1>2. done.ok /\ streams' = done.streams /\ fields' = done.fields /\ events' = done.events
  BY DEF batch_withdraw
<1> HIDE DEF done
<1>3. ASSUME NEW i \in StreamIds PROVE Told(i)
  <2>1. (try_load_stream(i))' = Loaded(streams', fields', i)
    BY DEF try_load_stream, Loaded
  <2>2. (View(try_load_stream(i)))' = View(Loaded(streams', fields', i))
    BY <2>1 DEF View
  <2>3. ApplyEvents(View(try_load_stream(i)), i, events') = View(Loaded(streams', fields', i))
    BY <1>1, <1>2 DEF BatchTold
  <2> QED
    BY <2>2, <2>3 DEF Told
<1> QED
  BY <1>3

(* A step that leaves the records alone tells nothing about a stream. *)
LEMMA NothingTold ==
  ASSUME UNCHANGED stored,
         events' = <<>> \/ \E e : "stream_id" \notin DOMAIN e /\ events' = <<e>>
  PROVE  \A i \in StreamIds : Told(i)
<1>1. ASSUME NEW i \in StreamIds PROVE Told(i)
  <2>1. (View(try_load_stream(i)))' = View(try_load_stream(i))
    BY DEF View, try_load_stream, stored
  <2>2. ASSUME NEW v PROVE ApplyEvents(v, i, events') = v
    <3>1. CASE events' = <<>>
      BY <3>1, NothingApplied
    <3>2. CASE \E e : "stream_id" \notin DOMAIN e /\ events' = <<e>>
      <4>1. PICK e : "stream_id" \notin DOMAIN e /\ events' = <<e>>
        BY <3>2
      <4>2. ApplyEvents(v, i, <<e>>) = ApplyOne(v, i, e)
        BY OneApplied
      <4>3. ApplyOne(v, i, e) = v
        BY <4>1, NotAddressed
      <4> QED
        BY <4>1, <4>2, <4>3
    <3> QED
      BY <3>1, <3>2
  <2> QED
    BY <2>1, <2>2 DEF Told
<1> QED
  BY <1>1

(* The administration's events are about no stream. *)
LEMMA AdministerTold == ASSUME Administer PROVE \A i \in StreamIds : Told(i)
<1>1. UNCHANGED stored
  BY DEF Administer, initialize, update_fee_config, transfer_admin, set_protocol_pause,
         set_emergency_guardian, upgrade, migrate
<1>2. ASSUME NEW e, events' = <<e>>, "stream_id" \notin DOMAIN e
      PROVE  \A i \in StreamIds : Told(i)
  BY <1>1, <1>2, NothingTold, Zenon
<1>3. PICK caller \in Addr :
        \/ \E treasury \in Treasuries, bps \in FeeRates :
             \/ initialize(caller, treasury, bps)
             \/ update_fee_config(caller, treasury, bps)
        \/ \E a \in Addr : transfer_admin(caller, a)
        \/ \E p \in BOOLEAN : set_protocol_pause(caller, p)
        \/ \E g \in Addr \cup {NoAddr} : set_emergency_guardian(caller, g)
        \/ \E h \in WasmHashes : upgrade(caller, h)
        \/ \E v \in Versions : migrate(caller, v)
  BY DEF Administer
<1>4. \A type : "stream_id" \notin DOMAIN [type |-> type]
  OBVIOUS
<1>5. CASE events' = <<>>
  BY <1>1, <1>5, NothingTold
<1>6. CASE \E type : events' = <<[type |-> type]>>
  BY <1>2, <1>4, <1>6, Zenon
<1>7. ASSUME NEW p \in BOOLEAN, set_protocol_pause(caller, p)
      PROVE  \A i \in StreamIds : Told(i)
  <2> DEFINE e == [type |-> "protocol_pause_status", caller |-> caller, paused |-> p]
  <2>1. "stream_id" \notin DOMAIN e
    OBVIOUS
  <2>2. events' = <<e>>
    BY <1>7 DEF set_protocol_pause
  <2> QED
    BY <1>2, <2>1, <2>2
<1>8. ASSUME NEW h \in WasmHashes, upgrade(caller, h)
      PROVE  \A i \in StreamIds : Told(i)
  <2> DEFINE e == [type |-> "contract_upgraded", old_wasm_hash |-> wasm_hash]
  <2>1. "stream_id" \notin DOMAIN e
    OBVIOUS
  <2>2. events' = <<e>>
    BY <1>8 DEF upgrade
  <2> QED
    BY <1>2, <2>1, <2>2
<1>9. ASSUME NEW v \in Versions, migrate(caller, v)
      PROVE  \A i \in StreamIds : Told(i)
  <2> DEFINE e == [type |-> "state_migrated", old_version |-> contract_version,
                   new_version |-> v]
  <2>1. "stream_id" \notin DOMAIN e
    OBVIOUS
  <2>2. events' = <<>> \/ events' = <<e>>
    BY <1>9 DEF migrate
  <2> QED
    BY <1>2, <1>5, <2>1, <2>2
<1>10. ASSUME NEW treasury \in Treasuries, NEW bps \in FeeRates,
              initialize(caller, treasury, bps) \/ update_fee_config(caller, treasury, bps)
       PROVE  \E type : events' = <<[type |-> type]>>
  BY <1>10, Zenon DEF initialize, update_fee_config
<1>11. ASSUME \/ \E a \in Addr : transfer_admin(caller, a)
              \/ \E g \in Addr \cup {NoAddr} : set_emergency_guardian(caller, g)
       PROVE  \E type : events' = <<[type |-> type]>>
  BY <1>11, Zenon DEF transfer_admin, set_emergency_guardian
<1> QED
  BY <1>3, <1>6, <1>7, <1>8, <1>9, <1>10, <1>11, Zenon

(* The whole next-state relation. *)
LEMMA EveryStepTold ==
  ASSUME StreamFields = STREAM_FIELD_COUNT, IInv, Next
  PROVE  \A i \in StreamIds : Told(i)
<1>1. CASE Create
  BY <1>1, CreateTold
<1>2. CASE Operate
  <2>1. PICK caller \in Addr :
          \/ \E id \in StreamIds :
               \/ \E amount \in TopUps : top_up_stream(caller, id, amount)
               \/ withdraw(caller, id)
               \/ cancel_stream(caller, id)
               \/ close_stream(caller, id)
               \/ pause_stream(caller, id)
               \/ resume_stream(caller, id)
          \/ \E ids \in Batches : batch_withdraw(caller, ids)
    BY <1>2, Zenon DEF Operate
  <2> QED
    BY <2>1, TopUpTold, WithdrawTold, CancelTold, CloseTold, PauseTold, ResumeTold,
       BatchWithdrawTold
<1>3. CASE Administer
  BY <1>3, AdministerTold
<1>4. CASE Tick
  BY <1>4, NothingTold DEF Tick
<1> QED
  BY <1>1, <1>2, <1>3, <1>4 DEF Next

(* The published events tell the whole story of every stream: applied in
   order, with fees, batches and repeated ids, they carry an observer such as
   the indexer from the record before an invocation to the record after it. *)
THEOREM EventsTellEverything ==
  ASSUME StreamFields = STREAM_FIELD_COUNT
  PROVE  Spec => EventsTellAll
<1>1. IInv /\ [Next]_vars => IInv'
  BY NextKeepsIInv
<1>2. IInv /\ [Next]_vars =>
        [\A id \in StreamIds : ApplyEvents(View(try_load_stream(id)), id, events')
                                 = (View(try_load_stream(id)))']_vars
  BY EveryStepTold DEF Told
<1> QED
  BY <1>1, <1>2, InitIInv, PTL DEF Spec, EventsTellAll
=============================================================================
