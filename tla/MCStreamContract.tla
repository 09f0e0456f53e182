--------------------------- MODULE MCStreamContract ---------------------------
(***************************************************************************)
(* StreamContract for TLC: the values its input sets take in the runs.     *)
(***************************************************************************)
EXTENDS StreamContract

Step(time, amount) == [unlock_time |-> time, unlock_amount |-> amount]

(* No input of a kind: the run leaves the entrypoints that need it alone. *)
None == {}

(* Milestones of a deposit of 4: well formed, out of order, short of the total. *)
Milestones ==
  {<<Step(1, 1), Step(3, 3)>>, <<Step(2, 4)>>, <<Step(3, 2), Step(1, 2)>>, <<Step(2, 3)>>, <<>>}

(* Milestones of a deposit of 10, from which a fee of 10 % can be taken. *)
OneMilestones == {<<Step(1, 4), Step(3, 6)>>}

Cliff(time, amount, duration) ==
  [cliff_time |-> time, cliff_unlock_amount |-> amount, linear_duration |-> duration]
OneCliff == {Cliff(2, 1, 2)}
TwoCliffs == {Cliff(2, 1, 2), Cliff(1, 3, 1)}

(* Batches: in order, out of order, and with a stream listed twice. *)
PairBatches == {<<1, 2>>, <<2, 1>>, <<1, 1>>}
SoloBatches == {<<1>>, <<1, 1>>}

(* A behaviour may take every call ("all"), or keep to one of two scenes:    *)
(* several streams of a fresh deployment that nobody administers, and the    *)
(* calls of the administrators beside those on a single linear stream of a   *)
(* fresh or a pre-v2 deployment. A fresh one replaces its code only while    *)
(* it holds no stream: the hash meets nothing else in the state.             *)
CONSTANT Scenes

ASSUME SceneAssumption == Scenes \subseteq {"all", "streams", "administration"}

VARIABLE scene

AdministrationEnds == 1   \* last timestamp of the scene "administration"

SceneInit ==
  /\ Init
  /\ scene \in Scenes
  /\ scene = "streams" => stream_counter = 0

SceneNext ==
  /\ UNCHANGED scene
  /\ \/ scene = "all" /\ Next
     \/ scene = "streams" /\ (Create \/ Operate \/ Tick)
     \/ /\ scene = "administration" /\ Next
        /\ stream_counter' <= 1 /\ now' <= AdministrationEnds
        /\ streams'[1] # NoStream =>
             \/ streams'[1].schedule = NoSchedule
             \/ streams'[1].schedule = Linear /\ wasm_hash' = NoHash

SceneSpec == SceneInit /\ [][SceneNext]_<<vars, scene>>
=============================================================================
