---------------------------- MODULE StreamContract ----------------------------
(***************************************************************************)
(* The FlowFi payment-stream contract (contracts/stream_contract/src): its *)
(* persistent and instance storage, the token balances its calls move, and *)
(* one action per entrypoint.                                              *)
(*                                                                         *)
(* A Soroban invocation is atomic: an Err or a panic rolls back storage,   *)
(* token transfers and events alike.  An action is therefore enabled       *)
(* exactly when the call returns Ok, and a failing call is a stutter.      *)
(* Between invocations the ledger clock may advance.                       *)
(***************************************************************************)
EXTENDS Vesting, Sums

CONSTANTS
  Addr,                \* accounts that can sign a transaction
  Contract,            \* the contract's own address; it never signs
  Tokens,              \* addresses that answer the token interface
  NoAddr, NoStream, NoConfig,   \* Option::None of each type
  StreamFields,        \* number of map entries save_stream writes, the fields of Stream
  WasmHashes, NoHash   \* executable hashes; NoHash is the all-zero hash

(* What callers pass, and how far the instance is explored. *)
CONSTANTS
  Senders, Recipients, \* who opens streams, and for whom
  Treasuries,          \* where an admin sends the fees
  Amounts, TopUps, Durations, StepSchedules, Cliffs, Batches, FeeRates, Versions,
  Supply,              \* tokens each account starts with
  LegacyDeposits,      \* deposits a pre-v2 deployment may hold in its one stream
  MaxStreams,          \* streams ever created
  MaxTime              \* last ledger timestamp

Holder == Addr \cup {Contract}
StreamIds == 1..MaxStreams

MAX_FEE_RATE_BPS == 1000
BPS_DENOMINATOR == 10000
CURRENT_DATA_VERSION == 2
MAX_VESTING_STEPS == 12
MAX_BATCH_WITHDRAW == 30
CONFIG_FIELD_COUNT == 5
LEGACY_CONFIG_FIELD_COUNT == 3
STREAM_FIELD_COUNT == 13
LEGACY_STREAM_FIELD_COUNT == 12

VARIABLES
  streams,           \* persistent storage: DataKey::Stream(id)
  fields,            \* number of map entries of each stored stream record
  stream_counter,    \* instance storage: DataKey::StreamCounter
  config,            \* instance storage: DataKey::ProtocolConfig
  contract_version,  \* instance storage: DataKey::ContractVersion
  wasm_hash,         \* instance storage: DataKey::ContractWasmHash
  balance,           \* token ledgers: balance[token][holder]
  now,               \* env.ledger().timestamp()
  events             \* events published by the latest invocation

stored == <<streams, fields>>
instance == <<config, contract_version, wasm_hash>>
vars == <<streams, fields, stream_counter, config, contract_version, wasm_hash,
          balance, now, events>>

-----------------------------------------------------------------------------
(* Records.  A pre-v2 stream record has no schedule entry. *)
NoSchedule == [kind |-> "none"]
Schedule ==
  {Linear} \cup [kind : {"StepTranches"}, steps : Seq(VestingStep)]
           \cup [kind : {"HybridCliffLinear"}, cliff_time : Time,
                 cliff_unlock_amount : Amount]
StreamStatus == {"Active", "Paused", "Cancelled", "Completed"}

Stream ==
  [sender : Addr, recipient : Holder, token_address : Tokens,
   rate_per_second : Amount, deposited_amount : Amount, withdrawn_amount : Amount,
   start_time : Time, last_update_time : Time, is_active : BOOLEAN,
   paused : BOOLEAN, paused_at : Time \cup {NONE}, status : StreamStatus,
   schedule : Schedule \cup {NoSchedule}]

ProtocolConfig ==
  [fields : {LEGACY_CONFIG_FIELD_COUNT, CONFIG_FIELD_COUNT},
   admin : Addr, treasury : Holder, fee_rate_bps : 0..MAX_FEE_RATE_BPS,
   is_protocol_paused : BOOLEAN, emergency_guardian : Addr \cup {NoAddr}]

ASSUME AddressAssumption == Contract \notin Addr /\ NoAddr \notin Holder
ASSUME NoneAssumption == NoStream \notin Stream /\ NoConfig \notin ProtocolConfig
ASSUME FieldAssumption == StreamFields \in Nat /\ StreamFields >= STREAM_FIELD_COUNT
ASSUME InputAssumption ==
  /\ Senders \subseteq Addr /\ Recipients \cup Treasuries \subseteq Holder
  /\ Amounts \cup TopUps \subseteq -I128_MAX..I128_MAX /\ Durations \subseteq Time
  /\ FeeRates \subseteq Nat /\ Versions \subseteq Nat
  /\ StepSchedules \subseteq Seq(VestingStep)
  /\ Cliffs \subseteq [cliff_time : Time, cliff_unlock_amount : Amount,
                       linear_duration : Time]
  /\ Batches \subseteq Seq(StreamIds)
  /\ Supply \in Nat /\ LegacyDeposits \subseteq 1..I128_MAX
ASSUME BoundAssumption == MaxStreams \in Nat /\ MaxTime \in Time

-----------------------------------------------------------------------------
(* storage.rs: decoding tolerates the pre-v2 record shapes. *)
upgrade_legacy_stream(legacy) == [legacy EXCEPT !.schedule = Linear]

decode_stream(raw, count) ==
  IF raw = NoStream THEN NoStream
  ELSE IF count = STREAM_FIELD_COUNT THEN raw
  ELSE IF count = LEGACY_STREAM_FIELD_COUNT THEN upgrade_legacy_stream(raw)
  ELSE NoStream

try_load_stream(id) == decode_stream(streams[id], fields[id])

save_stream(id, s) ==
  /\ streams' = [streams EXCEPT ![id] = s]
  /\ fields' = [fields EXCEPT ![id] = StreamFields]

(* remove_stream is called by close_stream but defined nowhere in src/. *)
remove_stream(id) ==
  /\ streams' = [streams EXCEPT ![id] = NoStream]
  /\ fields' = [fields EXCEPT ![id] = 0]

(* next_stream_id hands out the counter plus one and saves it. *)
next_stream_id == stream_counter + 1

(* Mutant: the id is handed out but the counter is not saved. *)
forget_stream_counter(id) == stream_counter' = stream_counter

save_stream_counter(id) == stream_counter' = id

try_load_config ==
  IF config = NoConfig \/ config.fields = CONFIG_FIELD_COUNT THEN config
  ELSE [config EXCEPT !.fields = CONFIG_FIELD_COUNT,
                      !.is_protocol_paused = FALSE, !.emergency_guardian = NoAddr]

is_protocol_paused ==
  IF try_load_config = NoConfig THEN FALSE ELSE try_load_config.is_protocol_paused

is_admin(caller) ==
  IF try_load_config = NoConfig THEN FALSE ELSE try_load_config.admin = caller

-----------------------------------------------------------------------------
(* The token contract (external): a transfer needs the balance it moves. *)
Transfer(b, token, from, to, amount) ==
  LET debited == [b[token] EXCEPT ![from] = @ - amount]
      credited == [debited EXCEPT ![to] = @ + amount]
  IN  [b EXCEPT ![token] = credited]

(* validate_token_contract: only a token answers `decimals`. *)
validate_token_contract(token) == token \in Tokens

(* collect_fee: the fee on a gross amount, and the check its multiplication *)
(* makes.  No config, or a zero rate, means no fee.                         *)
charges_fee == try_load_config # NoConfig /\ try_load_config.fee_rate_bps > 0

fee_overflows(amount) ==
  charges_fee /\ amount * try_load_config.fee_rate_bps > I128_MAX

fee_on(amount) ==
  IF charges_fee THEN (amount * try_load_config.fee_rate_bps) \div BPS_DENOMINATOR ELSE 0

(* Mutant: only the net amount moves in, and the fee is taken out of it again. *)
pay_in_net(sender, token, amount) ==
  LET net == Transfer(balance, token, sender, Contract, amount - fee_on(amount))
  IN  /\ balance[token][sender] >= amount
      /\ ~fee_overflows(amount)
      /\ balance' = IF fee_on(amount) > 0
                    THEN Transfer(net, token, Contract, try_load_config.treasury,
                                  fee_on(amount))
                    ELSE net

(* The gross amount moves in; a positive fee moves on to the treasury. *)
pay_in(sender, token, amount) ==
  LET gross == Transfer(balance, token, sender, Contract, amount)
  IN  /\ balance[token][sender] >= amount
      /\ ~fee_overflows(amount)
      /\ balance' = IF fee_on(amount) > 0
                    THEN Transfer(gross, token, Contract, try_load_config.treasury,
                                  fee_on(amount))
                    ELSE gross

fee_events(id, amount) ==
  IF fee_on(amount) > 0
  THEN <<[type |-> "fee_collected", stream_id |-> id, fee_amount |-> fee_on(amount)]>>
  ELSE <<>>

-----------------------------------------------------------------------------
(* Creating a stream. *)
new_stream(sender, recipient, token, rate, net_amount, schedule) ==
  [sender |-> sender, recipient |-> recipient, token_address |-> token,
   rate_per_second |-> rate, deposited_amount |-> net_amount, withdrawn_amount |-> 0,
   start_time |-> now, last_update_time |-> now, is_active |-> TRUE,
   paused |-> FALSE, paused_at |-> NONE, status |-> "Active", schedule |-> schedule]

(* What the three creating entrypoints have in common: the breaker, the     *)
(* checks on amount and token, the next id, the transfer, the fee and the   *)
(* saved record.                                                            *)
open_stream(sender, recipient, token, amount, rate, schedule, event) ==
  LET id == next_stream_id
      net_amount == amount - fee_on(amount)
  IN  /\ ~is_protocol_paused
      /\ amount > 0
      /\ validate_token_contract(token)
      /\ id <= MaxStreams
      /\ pay_in(sender, token, amount)
      /\ save_stream_counter(id)
      /\ save_stream(id, new_stream(sender, recipient, token, rate, net_amount, schedule))
      /\ events' = Append(fee_events(id, amount),
                          [type |-> event, stream_id |-> id, deposited_amount |-> net_amount])
      /\ UNCHANGED <<instance, now>>

create_stream(sender, recipient, token, amount, duration) ==
  LET rate == (amount - fee_on(amount)) \div duration
  IN  /\ duration > 0
      /\ rate # 0
      /\ open_stream(sender, recipient, token, amount, rate, Linear, "stream_created")

create_step_vesting_stream(sender, recipient, token, amount, steps) ==
  /\ Len(steps) \in 1..MAX_VESTING_STEPS
  /\ validate_step_schedule(steps, now, amount - fee_on(amount))
  /\ open_stream(sender, recipient, token, amount, 0, StepTranches(steps),
                 "step_vesting_stream_created")

create_hybrid_cliff_stream(sender, recipient, token, amount, cliff) ==
  LET net_amount == amount - fee_on(amount)
      rate == (net_amount - cliff.cliff_unlock_amount) \div cliff.linear_duration
  IN  /\ cliff.linear_duration > 0
      /\ cliff.cliff_time > now
      /\ cliff.cliff_unlock_amount > 0
      /\ cliff.cliff_unlock_amount < net_amount
      /\ rate # 0
      /\ open_stream(sender, recipient, token, amount, rate,
                     HybridCliffLinear(cliff.cliff_time, cliff.cliff_unlock_amount),
                     "hybrid_cliff_stream_created")

-----------------------------------------------------------------------------

(* top_up_stream: last_update_time, the accrual anchor, stays where it is. *)
topped_up(s, net_amount) == [s EXCEPT !.deposited_amount = @ + net_amount]

top_up_stream(sender, id, amount) ==
  LET s == try_load_stream(id)
      net_amount == amount - fee_on(amount)
      t == topped_up(s, net_amount)
      left == t.deposited_amount - t.withdrawn_amount - calculate_claimable(t, now)
  IN  /\ ~is_protocol_paused
      /\ amount > 0
      /\ s # NoStream
      /\ s.sender = sender
      /\ s.is_active
      /\ s.schedule.kind # "StepTranches"
      /\ pay_in(sender, s.token_address, amount)
      /\ t.deposited_amount <= I128_MAX
      /\ project_end_time_ok(now, left, t.rate_per_second)
      /\ save_stream(id, t)
      /\ events' = Append(fee_events(id, amount),
           [type |-> "stream_topped_up", stream_id |-> id,
            new_deposited_amount |-> t.deposited_amount,
            new_end_time |-> project_end_time(now, left, t.rate_per_second)])
      /\ UNCHANGED <<stream_counter, instance, now>>

(* Mutant of the checked_add: a bound at the deposit. *)
withdrawal_fits_below_deposit(s, amount) == s.withdrawn_amount + amount < s.deposited_amount

(* apply_withdrawal: the record it saves; withdrawal_fits is its checked_add. *)
withdrawal_fits(s, amount) == s.withdrawn_amount + amount <= I128_MAX

(* Mutant: a drained stream stays active. *)
apply_withdrawal_staying_active(s, amount) ==
  [s EXCEPT !.withdrawn_amount = @ + amount, !.last_update_time = now]

apply_withdrawal(s, amount) ==
  LET drained == s.withdrawn_amount + amount >= s.deposited_amount
  IN  [s EXCEPT !.withdrawn_amount = @ + amount, !.last_update_time = now,
                !.is_active = @ /\ ~drained,
                !.status = IF drained THEN "Completed" ELSE @]

(* Mutant: no completion event. *)
withdrawal_events_uncompleted(id, s, amount) ==
  <<[type |-> "tokens_withdrawn", stream_id |-> id, amount |-> amount]>>

withdrawal_events(id, s, amount) ==
  <<[type |-> "tokens_withdrawn", stream_id |-> id, amount |-> amount]>>
  \o IF s.status = "Completed"
     THEN <<[type |-> "stream_completed", stream_id |-> id,
             total_withdrawn |-> s.withdrawn_amount]>>
     ELSE <<>>

withdraw(recipient, id) ==
  LET s == try_load_stream(id)
      claimable == calculate_claimable(s, now)
      t == apply_withdrawal(s, claimable)
  IN  /\ s # NoStream
      /\ s.recipient = recipient
      /\ s.is_active
      /\ ~s.paused
      /\ claimable > 0
      /\ withdrawal_fits(s, claimable)
      /\ balance[s.token_address][Contract] >= claimable
      /\ save_stream(id, t)
      /\ balance' = Transfer(balance, s.token_address, Contract, recipient, claimable)
      /\ events' = withdrawal_events(id, t, claimable)
      /\ UNCHANGED <<stream_counter, instance, now>>

(* One iteration of batch_withdraw.  `ok` turns false when the iteration     *)
(* aborts the call: an unknown or foreign id, or a transfer without funds.   *)
(* The Result of apply_withdrawal is dropped there: on overflow nothing is   *)
(* saved or paid, yet the event goes out.                                    *)
batch_step(acc, recipient, id) ==
  LET s == decode_stream(acc.streams[id], acc.fields[id])
      claimable == calculate_claimable(s, now)
      t == apply_withdrawal(s, claimable)
  IN  IF s = NoStream \/ s.recipient # recipient THEN [acc EXCEPT !.ok = FALSE]
      ELSE IF ~s.is_active \/ s.paused \/ claimable <= 0 THEN acc
      ELSE IF ~withdrawal_fits(s, claimable)
      THEN [acc EXCEPT !.events = acc.events \o withdrawal_events(id, s, claimable)]
      ELSE [streams |-> [acc.streams EXCEPT ![id] = t],
            fields |-> [acc.fields EXCEPT ![id] = StreamFields],
            balance |-> Transfer(acc.balance, s.token_address, Contract, recipient, claimable),
            ok |-> acc.ok /\ acc.balance[s.token_address][Contract] >= claimable,
            events |-> acc.events \o withdrawal_events(id, t, claimable)]

batch_start == [streams |-> streams, fields |-> fields, balance |-> balance,
                ok |-> TRUE, events |-> <<>>]

batch_run(recipient, ids) ==
  LET acc[i \in 0..Len(ids)] ==
        IF i = 0 THEN batch_start ELSE batch_step(acc[i - 1], recipient, ids[i])
  IN  acc[Len(ids)]

(* batch_withdraw: one failing iteration aborts the whole batch. *)
batch_withdraw(recipient, ids) ==
  LET done == batch_run(recipient, ids)
  IN  /\ Len(ids) <= MAX_BATCH_WITHDRAW
      /\ done.ok
      /\ streams' = done.streams
      /\ fields' = done.fields
      /\ balance' = done.balance
      /\ events' = done.events
      /\ UNCHANGED <<stream_counter, instance, now>>

-----------------------------------------------------------------------------
(* Mutant: the accrued payout is not counted before the refund. *)
cancelled_unaccrued(s, accrued) ==
  [s EXCEPT !.is_active = FALSE, !.status = "Cancelled", !.paused = FALSE,
            !.paused_at = NONE, !.last_update_time = now]

(* cancel_stream: the recipient gets what has accrued, the sender the rest. *)
cancelled(s, accrued) ==
  [s EXCEPT !.withdrawn_amount = SatAdd(@, accrued), !.is_active = FALSE,
            !.status = "Cancelled", !.paused = FALSE, !.paused_at = NONE,
            !.last_update_time = now]

cancel_stream(sender, id) ==
  LET s == try_load_stream(id)
      accrued == calculate_claimable(s, now)
      t == cancelled(s, accrued)
      refunded == t.deposited_amount - t.withdrawn_amount
      paid == Transfer(balance, s.token_address, Contract, s.recipient, accrued)
  IN  /\ s # NoStream
      /\ s.sender = sender
      /\ s.is_active
      /\ balance[s.token_address][Contract] >= accrued
      /\ paid[s.token_address][Contract] >= refunded
      /\ save_stream(id, t)
      /\ balance' = Transfer(paid, s.token_address, Contract, sender, refunded)
      /\ events' = <<[type |-> "stream_cancelled", stream_id |-> id,
                      amount_withdrawn |-> t.withdrawn_amount,
                      refunded_amount |-> refunded]>>
      /\ UNCHANGED <<stream_counter, instance, now>>

(* close_stream prunes a settled record; its id is never handed out again. *)
close_stream(caller, id) ==
  LET s == try_load_stream(id)
  IN  /\ s # NoStream
      /\ caller \in {s.sender, s.recipient} \/ is_admin(caller)
      /\ ~s.is_active
      /\ s.status \in {"Completed", "Cancelled"}
      /\ s.status = "Completed" =>
           /\ s.deposited_amount = s.withdrawn_amount
           /\ calculate_claimable(s, now) = 0
      /\ remove_stream(id)
      /\ events' = <<[type |-> "stream_closed", stream_id |-> id]>>
      /\ UNCHANGED <<stream_counter, instance, balance, now>>

pause_stream(sender, id) ==
  LET s == try_load_stream(id)
  IN  /\ s # NoStream
      /\ s.sender = sender
      /\ s.is_active
      /\ ~s.paused
      /\ save_stream(id, [s EXCEPT !.paused = TRUE, !.paused_at = now, !.status = "Paused"])
      /\ events' = <<[type |-> "stream_paused", stream_id |-> id, paused_at |-> now]>>
      /\ UNCHANGED <<stream_counter, instance, balance, now>>

(* Mutant: the anchor stays. *)
resumed_in_place(s) == [s EXCEPT !.paused = FALSE, !.paused_at = NONE, !.status = "Active"]

(* resume_stream: the anchor moves forward by the length of the pause. *)
resumed(s) ==
  LET paused_at == IF s.paused_at # NONE THEN s.paused_at ELSE now
  IN  [s EXCEPT !.last_update_time = SatAddTime(@, SatSubTime(now, paused_at)),
                !.paused = FALSE, !.paused_at = NONE, !.status = "Active"]

(* The end time of a resumed linear stream is `now + (remaining / rate) as  *)
(* u64`: the cast truncates, and under overflow-checks the addition panics, *)
(* which aborts the call.                                                   *)
resume_stream(sender, id) ==
  LET s == try_load_stream(id)
      t == resumed(s)
      left == s.deposited_amount - s.withdrawn_amount - calculate_claimable(s, now)
      new_end_time == IF s.schedule.kind = "Linear"
                      THEN now + AsU64(left \div s.rate_per_second)
                      ELSE projected_end_time(t)
  IN  /\ s # NoStream
      /\ s.sender = sender
      /\ s.is_active
      /\ s.paused
      /\ new_end_time <= U64_MAX
      /\ save_stream(id, t)
      /\ events' = <<[type |-> "stream_resumed", stream_id |-> id,
                      new_end_time |-> new_end_time]>>
      /\ UNCHANGED <<stream_counter, instance, balance, now>>

-----------------------------------------------------------------------------
(* Protocol administration.  save_config always writes the current shape. *)
save_config(cfg) == config' = cfg

initialize(admin, treasury, fee_rate_bps) ==
  /\ config = NoConfig
  /\ fee_rate_bps <= MAX_FEE_RATE_BPS
  /\ save_config([fields |-> CONFIG_FIELD_COUNT, admin |-> admin, treasury |-> treasury,
                  fee_rate_bps |-> fee_rate_bps, is_protocol_paused |-> FALSE,
                  emergency_guardian |-> NoAddr])
  /\ contract_version' = CURRENT_DATA_VERSION
  /\ events' = <<[type |-> "initialized"]>>
  /\ UNCHANGED <<stored, stream_counter, wasm_hash, balance, now>>

(* Mutant: the config is rebuilt, and the breaker cleared, by a fee update. *)
update_fee_config_rebuilt(admin, treasury, fee_rate_bps) ==
  /\ is_admin(admin)
  /\ fee_rate_bps <= MAX_FEE_RATE_BPS
  /\ save_config([try_load_config EXCEPT !.treasury = treasury, !.fee_rate_bps = fee_rate_bps,
                                         !.is_protocol_paused = FALSE])
  /\ events' = <<[type |-> "fee_config_updated"]>>
  /\ UNCHANGED <<stored, stream_counter, contract_version, wasm_hash, balance, now>>

update_fee_config(admin, treasury, fee_rate_bps) ==
  /\ is_admin(admin)
  /\ fee_rate_bps <= MAX_FEE_RATE_BPS
  /\ save_config([try_load_config EXCEPT !.treasury = treasury,
                                         !.fee_rate_bps = fee_rate_bps])
  /\ events' = <<[type |-> "fee_config_updated"]>>
  /\ UNCHANGED <<stored, stream_counter, contract_version, wasm_hash, balance, now>>

transfer_admin(current_admin, new_admin) ==
  /\ is_admin(current_admin)
  /\ save_config([try_load_config EXCEPT !.admin = new_admin])
  /\ events' = <<[type |-> "admin_transferred"]>>
  /\ UNCHANGED <<stored, stream_counter, contract_version, wasm_hash, balance, now>>

(* The guardian may trip the breaker but only the admin may clear it. *)
set_protocol_pause(caller, paused) ==
  /\ try_load_config # NoConfig
  /\ \/ is_admin(caller)
     \/ paused /\ try_load_config.emergency_guardian = caller
  /\ save_config([try_load_config EXCEPT !.is_protocol_paused = paused])
  /\ events' = <<[type |-> "protocol_pause_status", caller |-> caller, paused |-> paused]>>
  /\ UNCHANGED <<stored, stream_counter, contract_version, wasm_hash, balance, now>>

set_emergency_guardian(admin, guardian) ==
  /\ is_admin(admin)
  /\ save_config([try_load_config EXCEPT !.emergency_guardian = guardian])
  /\ events' = <<[type |-> "emergency_guardian_updated"]>>
  /\ UNCHANGED <<stored, stream_counter, contract_version, wasm_hash, balance, now>>

upgrade(caller, new_wasm_hash) ==
  /\ is_admin(caller)
  /\ wasm_hash' = new_wasm_hash
  /\ events' = <<[type |-> "contract_upgraded", old_wasm_hash |-> wasm_hash]>>
  /\ UNCHANGED <<stored, stream_counter, config, contract_version, balance, now>>

(* migrate persists the decoded config; streams heal when next saved.  The  *)
(* version already in effect is a no-op, with no event.                     *)
migrate(caller, target_version) ==
  /\ is_admin(caller)
  /\ contract_version <= CURRENT_DATA_VERSION
  /\ target_version \in contract_version..CURRENT_DATA_VERSION
  /\ IF target_version = contract_version
     THEN UNCHANGED <<config, contract_version>> /\ events' = <<>>
     ELSE /\ save_config(try_load_config)
          /\ contract_version' = target_version
          /\ events' = <<[type |-> "state_migrated", old_version |-> contract_version,
                          new_version |-> target_version]>>
  /\ UNCHANGED <<stored, stream_counter, wasm_hash, balance, now>>

-----------------------------------------------------------------------------
(* The ledger closes: its timestamp advances. *)
Tick ==
  /\ now < MaxTime
  /\ now' = now + 1
  /\ events' = <<>>
  /\ UNCHANGED <<stored, stream_counter, instance, balance>>

NothingStored ==
  /\ streams = [id \in StreamIds |-> NoStream]
  /\ fields = [id \in StreamIds |-> 0]
  /\ stream_counter = 0
  /\ config = NoConfig
  /\ contract_version = 0
  /\ balance = [token \in Tokens |-> [h \in Holder |-> IF h = Contract THEN 0 ELSE Supply]]

(* A deployment whose code was replaced in place: config and stream are     *)
(* still in the pre-v2 shape, and nothing records a version.                *)
LegacyDeployment(admin, sender, recipient, token, amount, paused) ==
  /\ MaxStreams >= 1
  /\ streams = [id \in StreamIds |-> IF id # 1 THEN NoStream ELSE
       [new_stream(sender, recipient, token, 1, amount, NoSchedule) EXCEPT
          !.paused = paused, !.paused_at = IF paused THEN 0 ELSE NONE,
          !.status = IF paused THEN "Paused" ELSE "Active"]]
  /\ fields = [id \in StreamIds |-> IF id = 1 THEN LEGACY_STREAM_FIELD_COUNT ELSE 0]
  /\ stream_counter = 1
  /\ config = [fields |-> LEGACY_CONFIG_FIELD_COUNT, admin |-> admin, treasury |-> admin,
               fee_rate_bps |-> 0, is_protocol_paused |-> FALSE,
               emergency_guardian |-> NoAddr]
  /\ contract_version = 0
  /\ balance = [tok \in Tokens |-> [h \in Holder |->
       IF h # Contract THEN Supply ELSE IF tok = token THEN amount ELSE 0]]

Init ==
  /\ now = 0
  /\ wasm_hash = NoHash
  /\ events = <<>>
  /\ \/ NothingStored
     \/ \E admin \in Addr, sender \in Senders, recipient \in Recipients, token \in Tokens,
           amount \in LegacyDeposits, paused \in BOOLEAN :
          LegacyDeployment(admin, sender, recipient, token, amount, paused)

Create ==
  \E sender \in Senders, recipient \in Recipients, token \in Tokens \cup Holder,
     amount \in Amounts :
    \/ \E d \in Durations : create_stream(sender, recipient, token, amount, d)
    \/ \E steps \in StepSchedules :
         create_step_vesting_stream(sender, recipient, token, amount, steps)
    \/ \E cliff \in Cliffs :
         create_hybrid_cliff_stream(sender, recipient, token, amount, cliff)

Operate ==
  \E caller \in Addr :
    \/ \E id \in StreamIds :
         \/ \E amount \in TopUps : top_up_stream(caller, id, amount)
         \/ withdraw(caller, id)
         \/ cancel_stream(caller, id)
         \/ close_stream(caller, id)
         \/ pause_stream(caller, id)
         \/ resume_stream(caller, id)
    \/ \E ids \in Batches : batch_withdraw(caller, ids)

Administer ==
  \E caller \in Addr :
    \/ \E treasury \in Treasuries, bps \in FeeRates :
         \/ initialize(caller, treasury, bps)
         \/ update_fee_config(caller, treasury, bps)
    \/ \E a \in Addr : transfer_admin(caller, a)
    \/ \E p \in BOOLEAN : set_protocol_pause(caller, p)
    \/ \E g \in Addr \cup {NoAddr} : set_emergency_guardian(caller, g)
    \/ \E h \in WasmHashes : upgrade(caller, h)
    \/ \E v \in Versions : migrate(caller, v)

Next == Create \/ Operate \/ Administer \/ Tick

Spec == Init /\ [][Next]_vars

-----------------------------------------------------------------------------
(* Properties. *)

(* Type invariant: the state storage and the token ledgers can be in.  The  *)
(* counter never runs ahead of the bound, and ids above it are unused.      *)
TypeOK ==
  /\ streams \in [StreamIds -> Stream \cup {NoStream}]
  /\ fields \in [StreamIds -> Nat]
  /\ stream_counter \in 0..MaxStreams
  /\ config \in ProtocolConfig \cup {NoConfig}
  /\ contract_version \in 0..CURRENT_DATA_VERSION
  /\ wasm_hash \in WasmHashes \cup {NoHash}
  /\ balance \in [Tokens -> [Holder -> Nat]]
  /\ now \in 0..MaxTime
  /\ \A id \in StreamIds : id > stream_counter => streams[id] = NoStream

(* What the contract still owes on a loaded stream in a token. *)
Due(s, token) ==
  IF s = NoStream THEN 0
  ELSE IF s.is_active /\ s.token_address = token
       THEN s.deposited_amount - s.withdrawn_amount
       ELSE 0

Owed(token) == SumTo([id \in StreamIds |-> Due(try_load_stream(id), token)], MaxStreams)

(* Solvency: in every token the contract holds at least what all its live   *)
(* streams may still pay out or refund, whatever calls interleave.  Streams *)
(* share one balance, so an overpayment on one is a loss of another.        *)
Solvent == \A token \in Tokens : balance[token][Contract] >= Owed(token)

(* The relations between the redundant parts of a stream record on which    *)
(* the handlers rely: is_active, paused, paused_at and status agree, an     *)
(* active stream is not drained, a completed one is, and the accrual anchor *)
(* never lies in the future or beyond the moment of a pause.                *)
Coherent(s, t) ==
  /\ s.schedule # NoSchedule
  /\ s.withdrawn_amount <= s.deposited_amount
  /\ s.is_active <=> s.status \in {"Active", "Paused"}
  /\ s.paused <=> s.status = "Paused"
  /\ s.paused <=> s.paused_at # NONE
  /\ s.is_active => s.withdrawn_amount < s.deposited_amount
  /\ s.status = "Completed" => s.withdrawn_amount = s.deposited_amount
  /\ s.start_time <= s.last_update_time /\ s.last_update_time <= t
  /\ s.paused => s.last_update_time <= s.paused_at /\ s.paused_at <= t
  /\ s.rate_per_second = 0 <=> s.schedule.kind = "StepTranches"
  /\ s.schedule.kind = "HybridCliffLinear" =>
       s.schedule.cliff_unlock_amount < s.deposited_amount

StreamsCoherent ==
  \A id \in StreamIds : try_load_stream(id) # NoStream =>
    Coherent(try_load_stream(id), now)

(* Capital is never trapped: whatever the breaker, the fees or the order of *)
(* calls, the sender of a live stream can cancel it, and a recipient that   *)
(* can sign can withdraw what is claimable on a running stream.             *)
NeverTrapped ==
  \A id \in StreamIds :
    LET s == try_load_stream(id)
    IN  (s # NoStream /\ s.is_active) =>
          /\ ENABLED cancel_stream(s.sender, id)
          /\ (s.recipient \in Addr /\ ~s.paused /\ calculate_claimable(s, now) > 0)
               => ENABLED withdraw(s.recipient, id)

(* What the recipient of stream s has earned so far, paid out or not. *)
Earned(s) == s.withdrawn_amount + IF s.is_active THEN calculate_claimable(s, now) ELSE 0

(* Vested is vested: no call by anyone, and no passing of time, lowers what *)
(* a recipient has earned on a stream (pause, resume, top-up and cancel all *)
(* move the anchor or the deposit it is computed from).                     *)
EarnedNeverShrinks ==
  [][\A id \in StreamIds :
       (try_load_stream(id) # NoStream /\ (try_load_stream(id))' # NoStream)
         => (Earned(try_load_stream(id)))' >= Earned(try_load_stream(id))]_vars

(* A settled stream is settled for good: a completed or cancelled record is *)
(* never changed again, only pruned, and the id of a pruned stream is never *)
(* handed to a new one.                                                     *)
SettledForGood ==
  [][\A id \in StreamIds :
       LET s == try_load_stream(id)
       IN  IF s = NoStream THEN id <= stream_counter => (try_load_stream(id))' = NoStream
           ELSE ~s.is_active => (try_load_stream(id))' \in {s, NoStream}]_vars

(* While the circuit breaker is engaged no call brings tokens in or opens a *)
(* stream, and only a set_protocol_pause call by the admin of the moment    *)
(* ends it: fee updates, admin hand-overs and migrations leave it engaged.  *)
BreakerHolds ==
  [][is_protocol_paused =>
       /\ stream_counter' = stream_counter
       /\ \A token \in Tokens : balance'[token][Contract] <= balance[token][Contract]
       /\ \/ is_protocol_paused'
          \/ \E a \in Addr : is_admin(a) /\ events' = <<[type |-> "protocol_pause_status",
                                                    caller |-> a, paused |-> FALSE]>>]_vars

(* What an observer that applies the published events knows of a stream. *)
View(s) ==
  IF s = NoStream THEN [open |-> FALSE]
  ELSE [open |-> TRUE, deposited |-> s.deposited_amount, withdrawn |-> s.withdrawn_amount,
        is_active |-> s.is_active, paused |-> s.paused]

ApplyEvent(view, e) ==
  CASE e.type \in {"stream_created", "step_vesting_stream_created",
                   "hybrid_cliff_stream_created"} ->
         [open |-> TRUE, deposited |-> e.deposited_amount, withdrawn |-> 0,
          is_active |-> TRUE, paused |-> FALSE]
    [] e.type = "stream_topped_up" -> [view EXCEPT !.deposited = e.new_deposited_amount]
    [] e.type = "tokens_withdrawn" -> [view EXCEPT !.withdrawn = @ + e.amount]
    [] e.type = "stream_completed" -> [view EXCEPT !.is_active = FALSE]
    [] e.type = "stream_cancelled" ->
         [view EXCEPT !.withdrawn = e.amount_withdrawn, !.is_active = FALSE, !.paused = FALSE]
    [] e.type = "stream_paused" -> [view EXCEPT !.paused = TRUE]
    [] e.type = "stream_resumed" -> [view EXCEPT !.paused = FALSE]
    [] e.type = "stream_closed" -> [open |-> FALSE]
    [] OTHER -> view

ApplyEvents(view, id, es) ==
  LET after[i \in 0..Len(es)] ==
        IF i = 0 THEN view
        ELSE IF "stream_id" \in DOMAIN es[i] /\ es[i].stream_id = id
             THEN ApplyEvent(after[i - 1], es[i])
             ELSE after[i - 1]
  IN  after[Len(es)]

(* The published events tell the whole story: applied in order they carry   *)
(* an observer from the stream's state before an invocation to its state    *)
(* after it, batches with repeated ids included.  The indexer relies on it. *)
EventsTellAll ==
  [][\A id \in StreamIds :
       ApplyEvents(View(try_load_stream(id)), id, events') = (View(try_load_stream(id)))']_vars

-----------------------------------------------------------------------------
(* What comments of the contract say and its code does not do. *)

(* Streams an invocation published an event of a type about. *)
Subjects(type) ==
  {events[i].stream_id : i \in {j \in DOMAIN events : events[j].type = type}}

(* resume_stream: "accrual resumes from the current moment, effectively     *)
(* extending the stream by the duration it was paused"; the comment exempts *)
(* step-tranche streams only.                                               *)
ResumeOnlyExtends ==
  [][\A id \in (Subjects("stream_resumed"))' :
       try_load_stream(id).schedule.kind # "StepTranches" =>
         (Earned(try_load_stream(id)))' = Earned(try_load_stream(id))]_vars

(* Every stored record decodes.  load_stream accepts older shapes "rather   *)
(* than bricking escrowed funds after an in-place code upgrade"; a record   *)
(* of any other number of entries is reported as missing, and its escrow is *)
(* out of reach of every call.                                              *)
NothingBricked ==
  \A id \in StreamIds : streams[id] # NoStream => try_load_stream(id) # NoStream
-----------------------------------------------------------------------------
(* Every linear stream implements DripStream.  The seconds the abstract      *)
(* stream has counted are not stored by the contract: they are what the      *)
(* withdrawals so far stand for plus what has elapsed since the accrual      *)
(* anchor.                                                                   *)

IsLinear(id) ==
  LET s == try_load_stream(id)
  IN  IF s = NoStream THEN FALSE ELSE s.schedule.kind = "Linear"

Linearly(id, value, default) == IF IsLinear(id) THEN value ELSE default

Phase(id) ==
  LET s == try_load_stream(id)
  IN  Linearly(id, CASE s.status = "Active" -> "running"
                     [] s.status = "Paused" -> "paused"
                     [] OTHER -> "settled", "none")

CountedSeconds(id) ==
  LET s == try_load_stream(id)
  IN  Linearly(id, IF ~s.is_active THEN 0
                   ELSE s.withdrawn_amount \div s.rate_per_second
                        + effective_now(s, now) - s.last_update_time, 0)

Drip(id) == INSTANCE DripStream WITH
  phase <- Phase(id),
  deposited <- Linearly(id, try_load_stream(id).deposited_amount, 0),
  rate <- Linearly(id, try_load_stream(id).rate_per_second, 0),
  secs <- CountedSeconds(id),
  paid <- Linearly(id, try_load_stream(id).withdrawn_amount, 0)

(* Refinement: every linear stream, through any interleaving of withdrawals *)
(* (single and batched), top-ups, pauses, resumes and cancellation, pays    *)
(* exactly what DripStream vests for the seconds it was running.  This is   *)
(* \A id \in StreamIds : Drip(id)!Spec with the quantifier moved inward.    *)
LinearImplementsDrip ==
  /\ \A id \in StreamIds : Drip(id)!Init
  /\ [][\A id \in StreamIds : Drip(id)!Next \/ UNCHANGED Drip(id)!dvars]_vars
=============================================================================
