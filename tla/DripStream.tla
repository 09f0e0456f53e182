------------------------------ MODULE DripStream ------------------------------
(***************************************************************************)
(* What one linear payment stream promises, with no timestamps, anchors or *)
(* flags: while it runs it counts seconds, every second vests `rate` more  *)
(* of the deposit, and every settlement pays exactly what has vested and   *)
(* not been paid.  A second spent paused is never counted.                 *)
(***************************************************************************)
EXTENDS Integers

VARIABLES phase,      \* "none", "running", "paused" or "settled"
          deposited,  \* the net deposit
          rate,       \* vested per counted second
          secs,       \* seconds counted while the stream was running
          paid        \* paid to the recipient so far

dvars == <<phase, deposited, rate, secs, paid>>

Vested == IF rate * secs <= deposited THEN rate * secs ELSE deposited

(* A stream is either not open yet or freshly opened by earlier code. *)
Init ==
  /\ secs = 0 /\ paid = 0
  /\ \/ phase = "none" /\ deposited = 0 /\ rate = 0
     \/ phase \in {"running", "paused"} /\ deposited > 0 /\ rate > 0

Open ==
  /\ phase = "none"
  /\ phase' = "running" /\ secs' = 0 /\ paid' = 0
  /\ deposited' > 0 /\ rate' > 0

Second ==
  /\ phase = "running"
  /\ secs' = secs + 1
  /\ UNCHANGED <<phase, deposited, rate, paid>>

TopUp ==
  /\ phase \in {"running", "paused"}
  /\ deposited' > deposited
  /\ UNCHANGED <<phase, rate, secs, paid>>

Settle ==
  /\ phase' = "settled" /\ secs' = 0
  /\ UNCHANGED <<deposited, rate>>

(* A withdrawal pays all that has vested and settles a drained stream. *)
Withdraw ==
  /\ phase = "running"
  /\ paid < Vested
  /\ paid' = Vested
  /\ IF Vested = deposited THEN Settle ELSE UNCHANGED <<phase, deposited, rate, secs>>

Cancel ==
  /\ phase \in {"running", "paused"}
  /\ paid' = Vested
  /\ Settle

Pause == phase = "running" /\ phase' = "paused" /\ UNCHANGED <<deposited, rate, secs, paid>>
Resume == phase = "paused" /\ phase' = "running" /\ UNCHANGED <<deposited, rate, secs, paid>>

Prune ==
  /\ phase = "settled"
  /\ phase' = "none" /\ deposited' = 0 /\ rate' = 0 /\ secs' = 0 /\ paid' = 0

Next == \/ Open \/ Second \/ TopUp \/ Withdraw \/ Cancel \/ Pause \/ Resume \/ Prune

Spec == Init /\ [][Next]_dvars
=============================================================================
