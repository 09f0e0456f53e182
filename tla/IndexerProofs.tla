---------------------------- MODULE IndexerProofs ----------------------------
(***************************************************************************)
(* Proofs about the event indexer: its type invariant with the shape of    *)
(* the mutex, that no event the cursor has passed is lost, that the cursor *)
(* never regresses, and that the index is faithful to the contract.        *)
(*                                                                         *)
(* The argument is about positions of the log.  Every cursor there is (the *)
(* saved one, the one a batch has read, the one it will save) has passed   *)
(* only positions that are dealt with or that the batch still has on its   *)
(* page, and a page has no hole: what lies before one of its events is     *)
(* dealt with or on the page too, in whatever order the page is processed. *)
(*                                                                         *)
(* For the last theorem the log is shown to tell the contract's record of  *)
(* every stream (LogTells), the row of a stream nothing of which failed to *)
(* tell what was handled of it (RowsShow), and the positions a cursor has  *)
(* passed to be settled: an end or a last pause among them shows in the    *)
(* row.  An event handled again may unsettle later ones, which the same    *)
(* page then still holds.                                                  *)
(***************************************************************************)
EXTENDS Indexer, SumsProofs

-----------------------------------------------------------------------------
(* The ledger. *)
EventTypes ==
  {"stream_created", "step_vesting_stream_created", "stream_topped_up", "tokens_withdrawn",
   "stream_completed", "stream_cancelled", "stream_paused", "stream_resumed", "stream_closed",
   "fee_collected", "fee_config_updated"}

LogEvent ==
  [type : EventTypes, stream : Nat, value : Nat, tx : Nat \ {0}, inSuccessfulContractCall : BOOLEAN]

LogOK(lg) ==
  /\ lg \in Seq(LogEvent)
  /\ \A i, k \in 1..Len(lg) : i <= k => lg[i].tx <= lg[k].tx

ChainRecord ==
  [kind : {"none", "Linear", "StepTranches"}, deposited : Nat, withdrawn : Nat,
   is_active : BOOLEAN, paused : BOOLEAN]

ChainOK == LogOK(log) /\ chain \in [Streams -> ChainRecord]

NextTx(lg) == IF lg = <<>> THEN 1 ELSE lg[Len(lg)].tx + 1

(* The log only grows, and what is new is of a later ledger. *)
Extends(lg, lg2) ==
  /\ Len(lg) <= Len(lg2)
  /\ \A i \in 1..Len(lg) : lg2[i] = lg[i]
  /\ \A i \in 1..Len(lg2) : i > Len(lg) => lg2[i].tx >= NextTx(lg)
  /\ NextTx(lg) <= NextTx(lg2)

(* Every transaction of the log lies before the next one. *)
LEMMA TxBounds ==
  ASSUME NEW lg, LogOK(lg)
  PROVE  /\ NextTx(lg) \in Nat \ {0}
         /\ \A i \in 1..Len(lg) : lg[i].tx \in Nat /\ lg[i].tx < NextTx(lg)
<1>1. lg \in Seq(LogEvent) /\ Len(lg) \in Nat
  BY DEF LogOK
<1>2. \A i \in 1..Len(lg) : lg[i] \in LogEvent
  BY <1>1
<1>3. \A i \in 1..Len(lg) : lg[i].tx \in Nat \ {0}
  BY <1>2 DEF LogEvent
<1>4. CASE lg = <<>>
  BY <1>4 DEF NextTx
<1>5. CASE lg # <<>>
  <2>1. Len(lg) \in 1..Len(lg)
    BY <1>1, <1>5
  <2>2. \A i \in 1..Len(lg) : lg[i].tx <= lg[Len(lg)].tx
    BY <1>1, <2>1 DEF LogOK
  <2> QED
    BY <1>3, <1>5, <2>1, <2>2 DEF NextTx
<1> QED
  BY <1>4, <1>5

(* A log extends itself. *)
LEMMA ExtendsSelf == ASSUME NEW lg, LogOK(lg) PROVE Extends(lg, lg)
<1>1. Len(lg) \in Nat
  BY DEF LogOK
<1>2. NextTx(lg) \in Nat
  BY TxBounds
<1> QED
  BY <1>1, <1>2 DEF Extends

(* Events of the transaction that comes next. *)
Fresh == {e \in LogEvent : e.tx = next_tx}

(* Publishing events of the next transaction extends the log. *)
LEMMA PublishKeeps ==
  ASSUME LogOK(log), NEW es \in Seq(Fresh), Publish(es)
  PROVE  LogOK(log') /\ Extends(log, log')
<1> DEFINE new == log \o es
           n == Len(log)
           m == Len(es)
           x == NextTx(log)
<1>1. log' = new /\ next_tx = x
  BY DEF Publish, next_tx, NextTx
<1>2. /\ x \in Nat \ {0}
      /\ \A i \in 1..n : log[i].tx \in Nat /\ log[i].tx < x
  BY TxBounds
<1>0. es \in Seq(LogEvent) /\ \A i \in 1..Len(es) : es[i].tx = next_tx
  BY DEF Fresh
<1>3. /\ new \in Seq(LogEvent) /\ Len(new) = n + m /\ n \in Nat /\ m \in Nat
      /\ \A i \in 1..(n + m) : new[i] = IF i <= n THEN log[i] ELSE es[i - n]
  BY <1>0, ConcatProperties DEF LogOK
<1> HIDE DEF new, x
<1>4. \A i \in 1..(n + m) : i > n => new[i].tx = x
  <2> TAKE i \in 1..(n + m)
  <2> HAVE i > n
  <2>1. i - n \in 1..m /\ ~(i <= n)
    BY <1>3
  <2> QED
    BY <1>0, <1>1, <1>3, <2>1
<1>5. \A i \in 1..n : new[i] = log[i]
  BY <1>3
<1>6. LogOK(new)
  <2> SUFFICES ASSUME NEW i \in 1..(n + m), NEW k \in 1..(n + m), i <= k
               PROVE  new[i].tx <= new[k].tx
    BY <1>3 DEF LogOK
  <2>1. CASE k <= n
    <3>1. i \in 1..n /\ k \in 1..n
      BY <1>3, <2>1
    <3> QED
      BY <1>5, <3>1 DEF LogOK
  <2>2. CASE k > n /\ i <= n
    <3>1. i \in 1..n
      BY <1>3, <2>2
    <3> QED
      BY <1>2, <1>4, <1>5, <2>2, <3>1
  <2>3. CASE k > n /\ i > n
    BY <1>2, <1>4, <2>3
  <2> QED
    BY <1>3, <2>1, <2>2, <2>3
<1>7. x <= NextTx(new)
  <2>1. CASE m = 0
    <3>1. es = <<>>
      BY <2>1
    <3>2. new = log
      BY <3>1, ConcatEmptySeq DEF new, LogOK
    <3> QED
      BY <1>2, <3>2 DEF x
  <2>2. CASE m > 0
    <3>1. n + m \in 1..(n + m) /\ n + m > n
      BY <1>3, <2>2
    <3>2. new # <<>> /\ new[Len(new)].tx = x
      BY <1>3, <1>4, <3>1
    <3> QED
      BY <1>2, <3>2 DEF NextTx
  <2> QED
    BY <1>3, <2>1, <2>2
<1> QED
  BY <1>1, <1>2, <1>3, <1>4, <1>5, <1>6, <1>7 DEF Extends, x

(* What Event builds. *)
LEMMA EventOK ==
  ASSUME LogOK(log), NEW type \in EventTypes, NEW s \in Nat, NEW value \in Nat
  PROVE  Event(type, s, value) \in Fresh
<1>1. next_tx = NextTx(log)
  BY DEF next_tx, NextTx
<1>2. next_tx \in Nat \ {0}
  BY <1>1, TxBounds
<1> QED
  BY <1>2 DEF Event, LogEvent, Fresh

(* A withdrawal leaves a well-formed stream, and publishes fresh events. *)
LEMMA WithdrawalOK ==
  ASSUME ChainOK, NEW s \in Streams, NEW amount \in Claimable(s)
  PROVE  Withdrawn(chain[s], amount) \in ChainRecord /\ WithdrawalEvents(s, amount) \in Seq(Fresh)
<1> DEFINE c == Withdrawn(chain[s], amount)
           e == Event("tokens_withdrawn", s, amount)
           f == Event("stream_completed", s, c.withdrawn)
<1>1. chain[s] \in ChainRecord
  BY DEF ChainOK
<1>2. chain[s].deposited \in Nat /\ chain[s].withdrawn \in Nat
  BY <1>1 DEF ChainRecord
<1>3. amount \in Nat
  BY <1>2 DEF Claimable
<1>4. c \in ChainRecord /\ c.withdrawn = chain[s].withdrawn + amount
  <2> DEFINE w == chain[s].withdrawn + amount
             live == w < chain[s].deposited
  <2>1. c = [chain[s] EXCEPT !.withdrawn = w, !.is_active = live]
    BY DEF Withdrawn
  <2>2. w \in Nat
    BY <1>2, <1>3
  <2>3. live \in BOOLEAN
    BY <1>2, <2>2
  <2> HIDE DEF w, live, c
  <2>4. c \in ChainRecord /\ c.withdrawn = w
    BY <1>1, <2>1, <2>2, <2>3 DEF ChainRecord
  <2> QED
    BY <2>4 DEF w
<1>5. s \in Nat /\ c.withdrawn \in Nat
  BY <1>2, <1>3, <1>4, StreamsAssumption
<1> HIDE DEF c
<1>6. e \in Fresh /\ f \in Fresh
  BY <1>3, <1>5, EventOK DEF ChainOK, EventTypes
<1> HIDE DEF e, f
<1>7. WithdrawalEvents(s, amount) = <<e>> \o IF c.is_active THEN <<>> ELSE <<f>>
  BY DEF WithdrawalEvents, c, e, f
<1>8. <<e>> \in Seq(Fresh) /\ <<f>> \in Seq(Fresh) /\ <<>> \in Seq(Fresh)
  BY <1>6
<1>9. WithdrawalEvents(s, amount) \in Seq(Fresh)
  BY <1>7, <1>8, ConcatProperties
<1> QED
  BY <1>4, <1>9 DEF c

(* The ledger keeps its shape, and its log only grows. *)
LEMMA ChainStep ==
  ASSUME ChainOK, ChainNext
  PROVE  ChainOK' /\ Extends(log, log')
<1>0. LogOK(log) /\ chain \in [Streams -> ChainRecord] /\ 0 \in Nat /\ 1 \in Nat
      /\ Deposit \in Nat \ {0} /\ Deposit + 1 \in Nat
  BY ChainAssumption DEF ChainOK
<1>1. ASSUME NEW es \in Seq(Fresh), Publish(es), chain' \in [Streams -> ChainRecord]
      PROVE  ChainOK' /\ Extends(log, log')
  BY <1>0, <1>1, PublishKeeps DEF ChainOK
<1>2. ASSUME NEW e \in Fresh PROVE <<e>> \in Seq(Fresh)
  OBVIOUS
<1>3. ASSUME NEW s \in Streams
      PROVE  /\ s \in Nat /\ chain[s] \in ChainRecord
             /\ chain[s].deposited \in Nat /\ chain[s].withdrawn \in Nat
             /\ chain[s].paused \in BOOLEAN
  BY <1>0, StreamsAssumption DEF ChainRecord
<1>4. ASSUME NEW s \in Streams, NEW c \in ChainRecord, chain' = [chain EXCEPT ![s] = c]
      PROVE  chain' \in [Streams -> ChainRecord]
  BY <1>0, <1>4
<1>5. ASSUME NEW kind \in {"Linear", "StepTranches"} PROVE Opened(kind) \in ChainRecord
  BY <1>0 DEF Opened, Unopened, ChainRecord
<1>6. ASSUME NEW s \in Streams, ChainCreate(s)
      PROVE  ChainOK' /\ Extends(log, log')
  <2>1. chain' \in [Streams -> ChainRecord]
    BY <1>4, <1>5, <1>6 DEF ChainCreate
  <2> DEFINE e == Event("stream_created", s, Deposit)
             f == Event("fee_collected", s, 1)
  <2>2. e \in Fresh /\ f \in Fresh
    BY <1>0, <1>3, EventOK DEF EventTypes
  <2>3. Publish(<<e>>) \/ Publish(<<f, e>>)
    BY <1>6 DEF ChainCreate
  <2> HIDE DEF e, f
  <2>4. <<e>> \in Seq(Fresh) /\ <<f, e>> \in Seq(Fresh)
    BY <2>2
  <2> QED
    BY <1>1, <2>1, <2>3, <2>4
<1>7. ASSUME NEW s \in Streams, ChainCreateMilestones(s)
      PROVE  ChainOK' /\ Extends(log, log')
  <2>1. chain' \in [Streams -> ChainRecord]
    BY <1>4, <1>5, <1>7 DEF ChainCreateMilestones
  <2>2. Event("step_vesting_stream_created", s, Deposit) \in Fresh
    BY <1>0, <1>3, EventOK DEF EventTypes
  <2> QED
    BY <1>1, <1>2, <1>7, <2>1, <2>2 DEF ChainCreateMilestones
<1>8. ASSUME NEW s \in Streams, ChainTopUp(s)
      PROVE  ChainOK' /\ Extends(log, log')
  <2> DEFINE c == [chain[s] EXCEPT !.deposited = Deposit + 1]
  <2>1. c \in ChainRecord
    BY <1>0, <1>3 DEF ChainRecord
  <2>2. chain' = [chain EXCEPT ![s] = c]
    BY <1>8 DEF ChainTopUp
  <2> HIDE DEF c
  <2>3. chain' \in [Streams -> ChainRecord]
    BY <1>4, <2>1, <2>2
  <2>4. Event("stream_topped_up", s, Deposit + 1) \in Fresh
    BY <1>0, <1>3, EventOK DEF EventTypes
  <2> QED
    BY <1>1, <1>2, <1>8, <2>3, <2>4 DEF ChainTopUp
<1>9. ASSUME NEW s \in Streams, ChainWithdraw(s)
      PROVE  ChainOK' /\ Extends(log, log')
  <2>1. PICK amount \in Claimable(s) : /\ chain' = [chain EXCEPT ![s] = Withdrawn(chain[s], amount)]
                                       /\ Publish(WithdrawalEvents(s, amount))
    BY <1>9 DEF ChainWithdraw
  <2>2. Withdrawn(chain[s], amount) \in ChainRecord /\ WithdrawalEvents(s, amount) \in Seq(Fresh)
    BY WithdrawalOK
  <2>3. chain' \in [Streams -> ChainRecord]
    BY <1>4, <2>1, <2>2
  <2> QED
    BY <1>1, <2>1, <2>2, <2>3
<1>10. ASSUME NEW s \in Streams, NEW s2 \in Streams, ChainBatchWithdraw(s, s2)
       PROVE  ChainOK' /\ Extends(log, log')
  <2>1. PICK a1 \in Claimable(s), a2 \in Claimable(s2) :
          /\ chain' = [chain EXCEPT ![s] = Withdrawn(@, a1), ![s2] = Withdrawn(@, a2)]
          /\ Publish(WithdrawalEvents(s, a1) \o WithdrawalEvents(s2, a2))
    BY <1>10 DEF ChainBatchWithdraw
  <2> DEFINE c1 == Withdrawn(chain[s], a1)
             c2 == Withdrawn(chain[s2], a2)
  <2>2. /\ c1 \in ChainRecord /\ WithdrawalEvents(s, a1) \in Seq(Fresh)
        /\ c2 \in ChainRecord /\ WithdrawalEvents(s2, a2) \in Seq(Fresh)
    BY WithdrawalOK
  <2>3. chain' = [chain EXCEPT ![s] = c1, ![s2] = c2]
    BY <1>0, <1>10, <2>1 DEF ChainBatchWithdraw
  <2> HIDE DEF c1, c2
  <2>4. chain' \in [Streams -> ChainRecord]
    BY <1>0, <2>2, <2>3
  <2>5. WithdrawalEvents(s, a1) \o WithdrawalEvents(s2, a2) \in Seq(Fresh)
    BY <2>2, ConcatProperties
  <2> QED
    BY <1>1, <2>1, <2>4, <2>5
<1>11. ASSUME NEW s \in Streams, ChainCancel(s)
       PROVE  ChainOK' /\ Extends(log, log')
  <2>1. PICK total \in chain[s].withdrawn..chain[s].deposited :
          /\ chain' = [chain EXCEPT ![s].withdrawn = total, ![s].is_active = FALSE,
                                    ![s].paused = FALSE]
          /\ Publish(<<Event("stream_cancelled", s, total)>>)
    BY <1>11 DEF ChainCancel
  <2>2. total \in Nat
    BY <1>3
  <2> DEFINE c == [chain[s] EXCEPT !.withdrawn = total, !.is_active = FALSE, !.paused = FALSE]
  <2>3. c \in ChainRecord
    BY <1>3, <2>2 DEF ChainRecord
  <2>4. chain' = [chain EXCEPT ![s] = c]
    BY <1>0, <2>1
  <2> HIDE DEF c
  <2>5. chain' \in [Streams -> ChainRecord]
    BY <1>4, <2>3, <2>4
  <2>6. Event("stream_cancelled", s, total) \in Fresh
    BY <1>0, <1>3, <2>2, EventOK DEF EventTypes
  <2> QED
    BY <1>1, <1>2, <2>1, <2>5, <2>6
<1>12. ASSUME NEW s \in Streams, ChainPause(s)
       PROVE  ChainOK' /\ Extends(log, log')
  <2> DEFINE c == [chain[s] EXCEPT !.paused = ~chain[s].paused]
             type == IF chain[s].paused THEN "stream_resumed" ELSE "stream_paused"
  <2>1. c \in ChainRecord
    BY <1>3 DEF ChainRecord
  <2>2. chain' = [chain EXCEPT ![s] = c] /\ Publish(<<Event(type, s, 0)>>)
    BY <1>12 DEF ChainPause
  <2>3. type \in EventTypes
    BY DEF EventTypes
  <2> HIDE DEF c, type
  <2>4. chain' \in [Streams -> ChainRecord]
    BY <1>4, <2>1, <2>2
  <2>5. Event(type, s, 0) \in Fresh
    BY <1>0, <1>3, <2>3, EventOK
  <2> QED
    BY <1>1, <1>2, <2>2, <2>4, <2>5
<1>13. ASSUME ChainOther
       PROVE  ChainOK' /\ Extends(log, log')
  <2>1. chain' \in [Streams -> ChainRecord]
    BY <1>0, <1>13 DEF ChainOther
  <2>2. Event("fee_config_updated", 0, 0) \in Fresh
    BY <1>0, EventOK DEF EventTypes
  <2>3. [Event("tokens_withdrawn", 0, 1) EXCEPT !.inSuccessfulContractCall = FALSE] \in Fresh
    <3>1. Event("tokens_withdrawn", 0, 1) \in Fresh
      BY <1>0, EventOK DEF EventTypes
    <3> QED
      BY <3>1 DEF Fresh, LogEvent
  <2>4. \A s \in Streams : Event("stream_closed", s, 0) \in Fresh
    BY <1>0, <1>3, EventOK DEF EventTypes
  <2>5. PICK e \in Fresh : Publish(<<e>>)
    BY <1>13, <2>2, <2>3, <2>4, Zenon DEF ChainOther
  <2> QED
    BY <1>1, <1>2, <2>1, <2>5
<1> QED
  BY <1>6, <1>7, <1>8, <1>9, <1>10, <1>11, <1>12, <1>13 DEF ChainNext

-----------------------------------------------------------------------------
(* Cursors over a log lg of which the positions D are dealt with. *)
CursorRow == [lastLedger : Int, lastCursor : Nat]

CursorOK(s, lg) == s \in CursorRow /\ s.lastCursor <= Len(lg) /\ s.lastLedger < NextTx(lg)

(* Everything the cursor lies behind: the events up to its id, and those of *)
(* ledgers before its own.                                                  *)
Passed(s, lg, D) ==
  \A i \in 1..Len(lg) : i <= s.lastCursor \/ lg[i].tx < s.lastLedger => i \in D

BatchRecord ==
  {Idle, [stage |-> "read"]}
    \cup [stage : {"fetch"}, read : CursorRow]
    \cup [stage : {"process"}, read : CursorRow, todo : SUBSET Nat, last : CursorRow]

Started(b) == b.stage \in {"fetch", "process"}

BatchOK(b, lg, D) ==
  /\ b \in BatchRecord
  /\ Started(b) => CursorOK(b.read, lg) /\ Passed(b.read, lg, D)
  /\ b.stage = "process" =>
       /\ CursorOK(b.last, lg) /\ b.read.lastCursor <= b.last.lastCursor
       /\ b.todo \subseteq 1..Len(lg) /\ \A i \in b.todo : i > b.read.lastCursor
       /\ Passed(b.last, lg, D \cup b.todo)
       /\ \A i \in b.todo : 1..i \subseteq D \cup b.todo

DealtIds == {i \in 1..Len(log) : Dealt(i)}

(* The mutex: each batch in flight is chained once, and only the first runs. *)
MutexOK ==
  /\ queue \in Seq(Jobs)
  /\ DOMAIN batch = Jobs
  /\ \A j \in Jobs : batch[j] # Idle <=> \E i \in 1..Len(queue) : queue[i] = j
  /\ \A i, k \in 1..Len(queue) : queue[i] = queue[k] => i = k
  /\ \A i \in 1..Len(queue) : i > 1 => batch[queue[i]].stage = "read"

TablesOK ==
  /\ rows \in [Streams -> StreamRow \cup {NoRow}]
  /\ dead \cup discarded \cup unwritten \subseteq 1..Len(log)

CursorsOK ==
  /\ CursorOK(state, log) /\ Passed(state, log, DealtIds)
  /\ \A j \in Jobs : BatchOK(batch[j], log, DealtIds)

(* The cursor a running batch has read is still the saved one, unless an     *)
(* operator has reset it meanwhile.                                          *)
Coupled ==
  \A j \in Jobs : Started(batch[j]) => state.lastCursor \in {0, batch[j].read.lastCursor}

IInv == ChainOK /\ TablesOK /\ MutexOK /\ CursorsOK /\ Coupled

(* A cursor that was right stays right while the log grows and events are   *)
(* dealt with: what is new lies ahead of it.                                *)
LEMMA CursorLater ==
  ASSUME NEW lg, NEW lg2, LogOK(lg), LogOK(lg2), Extends(lg, lg2), NEW D, NEW D2, D \subseteq D2,
         NEW s, CursorOK(s, lg), Passed(s, lg, D)
  PROVE  CursorOK(s, lg2) /\ Passed(s, lg2, D2)
<1>1. /\ Len(lg) \in Nat /\ Len(lg2) \in Nat /\ NextTx(lg) \in Nat /\ NextTx(lg2) \in Nat
      /\ s.lastCursor \in Nat /\ s.lastLedger \in Int /\ s \in CursorRow
  <2>1. NextTx(lg) \in Nat /\ NextTx(lg2) \in Nat
    BY TxBounds
  <2>2. Len(lg) \in Nat /\ Len(lg2) \in Nat
    BY DEF LogOK
  <2>3. s.lastCursor \in Nat /\ s.lastLedger \in Int /\ s \in CursorRow
    BY DEF CursorOK, CursorRow
  <2> QED BY <2>1, <2>2, <2>3
<1>2. CursorOK(s, lg2)
  BY <1>1 DEF CursorOK, Extends
<1>3. ASSUME NEW i \in 1..Len(lg2), i <= s.lastCursor \/ lg2[i].tx < s.lastLedger
      PROVE  i \in D2
  <2>1. lg2[i].tx \in Nat
    BY TxBounds
  <2>2. CASE i <= Len(lg)
    <3>1. i \in 1..Len(lg) /\ lg2[i] = lg[i]
      BY <1>1, <2>2 DEF Extends
    <3> QED
      BY <1>3, <3>1 DEF Passed
  <2>3. CASE i > Len(lg)
    <3>1. lg2[i].tx >= NextTx(lg)
      BY <2>3 DEF Extends
    <3> QED
      BY <1>1, <1>3, <2>1, <2>3, <3>1 DEF CursorOK
  <2> QED
    BY <1>1, <2>2, <2>3
<1> QED
  BY <1>2, <1>3 DEF Passed

(* So does the local state of a batch. *)
LEMMA BatchLater ==
  ASSUME NEW lg, NEW lg2, LogOK(lg), LogOK(lg2), Extends(lg, lg2), NEW D, NEW D2, D \subseteq D2,
         NEW b, BatchOK(b, lg, D)
  PROVE  BatchOK(b, lg2, D2)
<1>1. Started(b) => CursorOK(b.read, lg2) /\ Passed(b.read, lg2, D2)
  BY CursorLater DEF BatchOK
<1>2. ASSUME b.stage = "process"
      PROVE  CursorOK(b.last, lg2) /\ Passed(b.last, lg2, D2 \cup b.todo)
  <2> DEFINE E == D \cup b.todo
             E2 == D2 \cup b.todo
  <2>1. CursorOK(b.last, lg) /\ Passed(b.last, lg, E) /\ E \subseteq E2
    BY <1>2 DEF BatchOK
  <2> HIDE DEF E, E2
  <2>2. CursorOK(b.last, lg2) /\ Passed(b.last, lg2, E2)
    BY <2>1, CursorLater
  <2> QED
    BY <2>2 DEF E2
<1>3. ASSUME b.stage = "process"
      PROVE  b.todo \subseteq 1..Len(lg2)
  <2>1. b.todo \subseteq 1..Len(lg) /\ Len(lg) <= Len(lg2) /\ Len(lg) \in Nat /\ Len(lg2) \in Nat
    BY <1>3 DEF BatchOK, Extends, LogOK
  <2> QED
    BY <2>1
<1>4. ASSUME b.stage = "process", NEW i \in b.todo
      PROVE  1..i \subseteq D2 \cup b.todo
  BY <1>4 DEF BatchOK
<1> QED
  BY <1>1, <1>2, <1>3, <1>4 DEF BatchOK

(* What is dealt with stays dealt with: StreamEvent rows are never deleted, *)
(* and a dead letter leaves its table for the discarded ones, or because    *)
(* its handler had nothing to do.                                           *)
LEMMA DealtLater ==
  ASSUME LogOK(log), LogOK(log'), Extends(log, log'), recorded \subseteq recorded',
         \A i \in 1..Len(log) : i \in dead \cup discarded \cup unwritten =>
           i \in dead' \cup discarded' \cup unwritten' \/ ~Wanted(i)
  PROVE  DealtIds \subseteq DealtIds'
<1> SUFFICES ASSUME NEW i \in 1..Len(log), Dealt(i)
             PROVE  i \in 1..Len(log') /\ Dealt(i)'
  BY DEF DealtIds
<1>1. i \in 1..Len(log') /\ log'[i] = log[i]
  BY DEF Extends, LogOK
<1>2. Wanted(i)' <=> Wanted(i)
  BY <1>1 DEF Wanted, Handled
<1>3. Recorded(log[i]) => Recorded(log[i])'
  BY <1>1 DEF Recorded, Key
<1> QED
  BY <1>1, <1>2, <1>3 DEF Dealt

-----------------------------------------------------------------------------
(* A page has no hole. *)
LEMMA PageOK ==
  ASSUME LogOK(log), NEW s, CursorOK(s, log), NEW D, Passed(s, log, D), NEW i \in After(s)
  PROVE  i \in 1..Len(log) /\ i > s.lastCursor /\ 1..i \subseteq D \cup After(s)
<1> DEFINE B == Beyond(s)
           Before(x) == {k \in B : k < x}
<1>1. DOMAIN log = 1..Len(log) /\ Len(log) \in Nat /\ s.lastCursor \in Nat
      /\ s.lastLedger \in Int
  BY DEF LogOK, CursorOK, CursorRow
<1>2. i \in B /\ B \subseteq 1..Len(log) /\ Cardinality(Before(i)) < Limit
  BY <1>1 DEF After, Beyond
<1>3. i \in 1..Len(log) /\ i > s.lastCursor
  BY <1>1, <1>2 DEF Beyond
<1>4. ASSUME NEW k \in 1..i PROVE k \in D \cup After(s)
  <2>1. k \in 1..Len(log) /\ k <= i
    BY <1>1, <1>3
  <2>2. log[k].tx \in Nat
    BY <2>1, TxBounds
  <2>3. CASE k \in B
    <3>1. IsFiniteSet(1..Len(log))
      BY <1>1, FS_Interval
    <3>2. Before(i) \subseteq 1..Len(log) /\ Before(k) \subseteq Before(i)
      BY <1>1, <1>2, <1>3, <2>1
    <3>3. IsFiniteSet(Before(i)) /\ IsFiniteSet(Before(k))
      BY <3>1, <3>2, FS_Subset
    <3>4. Cardinality(Before(k)) <= Cardinality(Before(i))
      BY <3>2, <3>3, FS_Subset
    <3>5. Cardinality(Before(k)) \in Nat /\ Cardinality(Before(i)) \in Nat
      BY <3>3, FS_CardinalityType
    <3>6. Cardinality(Before(k)) < Limit
      BY <1>2, <3>4, <3>5, LimitAssumption
    <3> QED
      BY <2>3, <3>6 DEF After
  <2>4. CASE k \notin B
    <3>1. IF s.lastCursor > 0 THEN ~(k > s.lastCursor) ELSE ~(log[k].tx >= s.lastLedger)
      BY <1>1, <2>1, <2>4 DEF Beyond
    <3>2. k <= s.lastCursor \/ log[k].tx < s.lastLedger
      BY <1>1, <2>1, <2>2, <3>1
    <3> QED
      BY <2>1, <3>2 DEF Passed
  <2> QED
    BY <2>3, <2>4
<1> QED
  BY <1>3, <1>4

-----------------------------------------------------------------------------
(* The mutex. *)

(* A batch that has started is the head of the chain. *)
LEMMA StartedIsHead ==
  ASSUME MutexOK, NEW j \in Jobs, Started(batch[j])
  PROVE  queue # <<>> /\ queue[1] = j /\ 1 \in 1..Len(queue)
<1>1. batch[j] # Idle /\ batch[j].stage # "read"
  BY DEF Started, Idle
<1>2. PICK i \in 1..Len(queue) : queue[i] = j
  BY <1>1 DEF MutexOK
<1>3. queue \in Seq(Jobs) /\ ~(i > 1)
  BY <1>1, <1>2 DEF MutexOK
<1> QED
  BY <1>2, <1>3

(* Hence two batches never run at once. *)
LEMMA OneStarted ==
  ASSUME MutexOK, NEW j \in Jobs, NEW k \in Jobs, queue # <<>>, queue[1] = j, Started(batch[k])
  PROVE  k = j
BY StartedIsHead

(* A job goes to the end of the queue. *)
LEMMA EnqueueKeeps ==
  ASSUME MutexOK, NEW j \in Jobs, batch[j] = Idle, enqueue(j)
  PROVE  /\ MutexOK'
         /\ batch'[j] = [stage |-> "read"] /\ \A k \in Jobs \ {j} : batch'[k] = batch[k]
<1> DEFINE b == [stage |-> "read"]
           n == Len(queue)
<1>1. queue \in Seq(Jobs) /\ DOMAIN batch = Jobs /\ n \in Nat
  BY DEF MutexOK
<1>2. /\ queue' \in Seq(Jobs) /\ Len(queue') = n + 1 /\ queue'[n + 1] = j
      /\ \A i \in 1..n : queue'[i] = queue[i]
  BY <1>1, AppendProperties DEF enqueue
<1>3. /\ DOMAIN batch' = Jobs /\ batch'[j] = b /\ \A k \in Jobs \ {j} : batch'[k] = batch[k]
  BY <1>1 DEF enqueue
<1>4. b # Idle /\ b.stage = "read"
  BY DEF Idle
<1> HIDE DEF b
<1>5. \A i \in 1..n : queue[i] \in Jobs /\ queue[i] # j
  BY <1>1 DEF MutexOK
<1>6. \A k \in Jobs : batch'[k] # Idle <=> \E i \in 1..(n + 1) : queue'[i] = k
  <2>1. ASSUME NEW k \in Jobs \ {j}
        PROVE  batch'[k] # Idle <=> \E i \in 1..(n + 1) : queue'[i] = k
    <3>1. batch'[k] # Idle <=> \E i \in 1..n : queue[i] = k
      BY <1>3, <2>1 DEF MutexOK
    <3>2. (\E i \in 1..n : queue[i] = k) <=> \E i \in 1..(n + 1) : queue'[i] = k
      BY <1>1, <1>2, <2>1
    <3> QED
      BY <3>1, <3>2
  <2>2. n + 1 \in 1..(n + 1)
    BY <1>1
  <2> QED
    BY <1>2, <1>3, <1>4, <2>1, <2>2
<1>7. \A i, k \in 1..(n + 1) : queue'[i] = queue'[k] => i = k
  <2> SUFFICES ASSUME NEW i \in 1..(n + 1), NEW k \in 1..(n + 1), queue'[i] = queue'[k]
               PROVE  i = k
    OBVIOUS
  <2>1. (i \in 1..n \/ i = n + 1) /\ (k \in 1..n \/ k = n + 1)
    BY <1>1
  <2> QED
    BY <1>2, <1>5, <2>1 DEF MutexOK
<1>8. \A i \in 1..(n + 1) : i > 1 => batch'[queue'[i]].stage = "read"
  <2> SUFFICES ASSUME NEW i \in 1..(n + 1), i > 1 PROVE batch'[queue'[i]].stage = "read"
    OBVIOUS
  <2>1. CASE i = n + 1
    BY <1>2, <1>3, <1>4, <2>1
  <2>2. CASE i \in 1..n
    BY <1>2, <1>3, <1>5, <2>2 DEF MutexOK
  <2> QED
    BY <1>1, <2>1, <2>2
<1> QED
  BY <1>2, <1>3, <1>6, <1>7, <1>8 DEF MutexOK, b

(* The job at the head leaves the queue. *)
LEMMA FinishKeeps ==
  ASSUME MutexOK, NEW j \in Jobs, queue # <<>>, queue[1] = j, finish(j)
  PROVE  MutexOK' /\ batch'[j] = Idle /\ \A k \in Jobs \ {j} : batch'[k] = batch[k]
<1> DEFINE n == Len(queue)
<1>1. queue \in Seq(Jobs) /\ DOMAIN batch = Jobs /\ n \in Nat /\ n > 0
  BY DEF MutexOK
<1>2. /\ queue' \in Seq(Jobs) /\ Len(queue') = n - 1
      /\ \A i \in 1..(n - 1) : queue'[i] = queue[i + 1]
  BY <1>1, HeadTailProperties DEF finish
<1>3. DOMAIN batch' = Jobs /\ batch'[j] = Idle /\ \A k \in Jobs \ {j} : batch'[k] = batch[k]
  BY <1>1 DEF finish
<1>4. \A i \in 1..(n - 1) : /\ i + 1 \in 1..n /\ i + 1 > 1 /\ queue[i + 1] \in Jobs
                            /\ queue[i + 1] # j
  <2> TAKE i \in 1..(n - 1)
  <2>1. i + 1 \in 1..n /\ i + 1 > 1 /\ 1 \in 1..n /\ i + 1 # 1
    BY <1>1
  <2> QED
    BY <1>1, <2>1 DEF MutexOK
<1>5. \A k \in Jobs : batch'[k] # Idle <=> \E i \in 1..(n - 1) : queue'[i] = k
  <2>1. ASSUME NEW k \in Jobs \ {j}
        PROVE  batch'[k] # Idle <=> \E i \in 1..(n - 1) : queue'[i] = k
    <3>1. batch'[k] # Idle <=> \E i \in 1..n : queue[i] = k
      BY <1>3, <2>1 DEF MutexOK
    <3>2. ASSUME NEW i \in 1..n, queue[i] = k PROVE \E m \in 1..(n - 1) : queue'[m] = k
      <4>1. i # 1
        BY <2>1, <3>2
      <4>2. i - 1 \in 1..(n - 1) /\ (i - 1) + 1 = i
        BY <1>1, <4>1
      <4> QED
        BY <1>2, <3>2, <4>2
    <3>3. ASSUME NEW i \in 1..(n - 1), queue'[i] = k PROVE \E m \in 1..n : queue[m] = k
      BY <1>2, <1>4, <3>3
    <3> QED
      BY <3>1, <3>2, <3>3
  <2>2. \A i \in 1..(n - 1) : queue'[i] # j
    BY <1>2, <1>4
  <2> QED
    BY <1>3, <2>1, <2>2
<1>6. \A i, k \in 1..(n - 1) : queue'[i] = queue'[k] => i = k
  <2> SUFFICES ASSUME NEW i \in 1..(n - 1), NEW k \in 1..(n - 1), queue'[i] = queue'[k]
               PROVE  i = k
    OBVIOUS
  <2>1. i + 1 = k + 1
    BY <1>2, <1>4 DEF MutexOK
  <2> QED
    BY <1>1, <2>1
<1>7. \A i \in 1..(n - 1) : i > 1 => batch'[queue'[i]].stage = "read"
  BY <1>2, <1>3, <1>4 DEF MutexOK
<1> QED
  BY <1>2, <1>3, <1>5, <1>6, <1>7 DEF MutexOK

(* The head of the chain moves on. *)
LEMMA RunKeeps ==
  ASSUME MutexOK, NEW j \in Jobs, queue # <<>>, queue[1] = j, NEW b, b # Idle,
         queue' = queue, batch' = [batch EXCEPT ![j] = b]
  PROVE  MutexOK' /\ batch'[j] = b /\ \A k \in Jobs \ {j} : batch'[k] = batch[k]
<1>1. /\ queue \in Seq(Jobs) /\ DOMAIN batch = Jobs
      /\ \A i, k \in 1..Len(queue) : queue[i] = queue[k] => i = k
  BY DEF MutexOK
<1>2. DOMAIN batch' = Jobs /\ batch'[j] = b /\ \A k \in Jobs \ {j} : batch'[k] = batch[k]
  BY <1>1
<1>3. 1 \in 1..Len(queue)
  BY <1>1
<1>4. batch[j] # Idle
  BY <1>3 DEF MutexOK
<1>5. \A k \in Jobs : batch'[k] # Idle <=> batch[k] # Idle
  BY <1>2, <1>4
<1>6. \A i \in 1..Len(queue) : i > 1 => queue[i] \in Jobs \ {j}
  BY <1>1, <1>3
<1>7. \A i \in 1..Len(queue) : i > 1 => batch'[queue[i]].stage = "read"
  BY <1>2, <1>6 DEF MutexOK
<1> QED
  BY <1>2, <1>5, <1>7 DEF MutexOK

-----------------------------------------------------------------------------
(* A handler that succeeds leaves a well-formed row and never forgets a      *)
(* StreamEvent; an event it handles is recorded in the end.                  *)
LEMMA ProcessKeeps ==
  ASSUME rows \in [Streams -> StreamRow \cup {NoRow}], NEW e \in LogEvent \cup
           {[x EXCEPT !.tx = NoTx] : x \in LogEvent}, Succeeds(e), processEvent(e)
  PROVE  /\ rows' \in [Streams -> StreamRow \cup {NoRow}] /\ recorded \subseteq recorded'
         /\ Handled(e) => Recorded(e)'
<1>1. e.value \in Nat
  BY DEF LogEvent
<1>2. CASE ~Handled(e)
  BY <1>2 DEF processEvent
<1>3. CASE Handled(e)
  <2>1. /\ rows' = IF e.type \in SystemTypes THEN rows ELSE [rows EXCEPT ![e.stream] = RowAfter(e)]
        /\ recorded' = IF Recorded(e) THEN recorded
                       ELSE recorded \cup {[key |-> Key(e), streamId |-> e.stream]}
    BY <1>3 DEF processEvent
  <2>2. recorded \subseteq recorded'
    BY <2>1, Zenon
  <2>3. Recorded(e)'
    <3>1. CASE Recorded(e)
      BY <2>1, <3>1 DEF Recorded, Key
    <3>2. CASE ~Recorded(e)
      <4> DEFINE r == [key |-> Key(e), streamId |-> e.stream]
      <4>1. r \in recorded' /\ r.key = Key(e)
        BY <2>1, <3>2
      <4> QED
        BY <4>1 DEF Recorded, Key
    <3> QED
      BY <3>1, <3>2
  <2>4. ASSUME e.stream \in Streams, e.type \notin SystemTypes
        PROVE  RowAfter(e) \in StreamRow \cup {NoRow}
    <3> DEFINE row == rows[e.stream]
    <3>1. row \in StreamRow \cup {NoRow}
      BY <2>4
    <3>2. handleStreamCreated(e) \in StreamRow
      <4>1. CASE row = NoRow
        BY <1>1, <4>1 DEF handleStreamCreated, StreamRow
      <4>2. CASE row # NoRow
        <5>1. row \in StreamRow
          BY <3>1, <4>2
        <5>2. handleStreamCreated(e) = [row EXCEPT !.depositedAmount = e.value, !.isActive = TRUE]
          BY <4>2 DEF handleStreamCreated
        <5> HIDE DEF row
        <5> QED
          BY <1>1, <5>1, <5>2 DEF StreamRow
      <4> QED
        BY <4>1, <4>2
    <3>3. ASSUME row \in StreamRow
          PROVE  /\ handleStreamToppedUp(e) \in StreamRow /\ handleTokensWithdrawn(e) \in StreamRow
                 /\ handleStreamCancelled(e) \in StreamRow /\ handleStreamCompleted(e) \in StreamRow
                 /\ handleStreamPaused(e) \in StreamRow /\ handleStreamResumed(e) \in StreamRow
      <4>0. row.withdrawnAmount \in Nat
        <5> HIDE DEF row
        <5> QED
          BY <3>3 DEF StreamRow
      <4>1. row.withdrawnAmount + e.value \in Nat
        BY <1>1, <4>0
      <4>2. [row EXCEPT !.withdrawnAmount = row.withdrawnAmount + e.value] \in StreamRow
        BY <3>3, <4>1 DEF StreamRow
      <4>3. [row EXCEPT !.depositedAmount = e.value] \in StreamRow
        BY <1>1, <3>3 DEF StreamRow
      <4>4. [row EXCEPT !.isActive = FALSE, !.withdrawnAmount = e.value] \in StreamRow
        BY <1>1, <3>3 DEF StreamRow
      <4>5. [row EXCEPT !.isPaused = TRUE] \in StreamRow /\ [row EXCEPT !.isPaused = FALSE] \in StreamRow
        BY <3>3 DEF StreamRow
      <4> QED
        BY <3>3, <4>2, <4>3, <4>4, <4>5
           DEF handleStreamToppedUp, handleTokensWithdrawn, handleStreamCancelled,
               handleStreamCompleted, handleStreamPaused, handleStreamResumed
    <3>4. ASSUME row = NoRow
          PROVE  \/ e.type = "stream_created"
                 \/ e.type \in {"stream_topped_up", "tokens_withdrawn", "fee_collected"} /\ Recorded(e)
      BY <1>3, <2>4, <3>4 DEF Succeeds, HasRow
    <3>5. CASE row \in StreamRow
      <4> HIDE DEF row
      <4> QED
        BY <3>2, <3>3, <3>5 DEF RowAfter, row
    <3>6. CASE row = NoRow
      <4>1. CASE e.type = "stream_created"
        BY <3>2, <4>1 DEF RowAfter
      <4>2. CASE e.type \in {"stream_topped_up", "tokens_withdrawn", "fee_collected"} /\ Recorded(e)
        BY <3>1, <4>2 DEF RowAfter, handleStreamToppedUp, handleTokensWithdrawn
      <4> QED
        BY <3>4, <3>6, <4>1, <4>2
    <3> QED
      BY <3>1, <3>5, <3>6
  <2>5. rows' \in [Streams -> StreamRow \cup {NoRow}]
    <3> DEFINE r == RowAfter(e)
    <3>1. CASE e.type \in SystemTypes
      BY <2>1, <3>1
    <3>2. CASE e.type \notin SystemTypes /\ e.stream \in Streams
      <4>1. r \in StreamRow \cup {NoRow} /\ rows' = [rows EXCEPT ![e.stream] = r]
        BY <2>1, <2>4, <3>2
      <4> HIDE DEF r
      <4> QED
        BY <3>2, <4>1
    <3>3. CASE e.type \notin SystemTypes /\ e.stream \notin Streams
      <4>1. rows' = [rows EXCEPT ![e.stream] = r]
        BY <2>1, <3>3
      <4> HIDE DEF r
      <4>2. rows' = rows
        BY <3>3, <4>1
      <4> QED
        BY <4>2
    <3> QED
      BY <3>1, <3>2, <3>3
  <2> QED
    BY <2>2, <2>3, <2>5
<1> QED
  BY <1>2, <1>3

-----------------------------------------------------------------------------
(* One step: the invariant, and what it does to the saved cursor. *)
Onward == state'.lastCursor >= state.lastCursor \/ state'.lastCursor = 0

(* The cursors after a step that rewrites at most the ones it says. *)
LEMMA CursorsLater ==
  ASSUME LogOK(log), LogOK(log'), Extends(log, log'), CursorsOK, DealtIds \subseteq DealtIds',
         state' = state \/ (CursorOK(state', log') /\ Passed(state', log', DealtIds')),
         \A j \in Jobs : batch'[j] = batch[j] \/ BatchOK(batch'[j], log', DealtIds')
  PROVE  CursorsOK'
<1>1. CursorOK(state', log') /\ Passed(state', log', DealtIds')
  BY CursorLater DEF CursorsOK
<1>2. ASSUME NEW j \in Jobs PROVE BatchOK(batch'[j], log', DealtIds')
  <2>1. BatchOK(batch[j], log, DealtIds)
    BY DEF CursorsOK
  <2>2. BatchOK(batch[j], log', DealtIds')
    BY <2>1, BatchLater
  <2> QED
    BY <2>2
<1> QED
  BY <1>1, <1>2 DEF CursorsOK

(* The same when the step leaves log, events and dead letters alone. *)
LEMMA CursorsStay ==
  ASSUME LogOK(log), CursorsOK, UNCHANGED <<log, recorded, dead, discarded, unwritten>>,
         state' = state \/ (CursorOK(state', log) /\ Passed(state', log, DealtIds)),
         \A j \in Jobs : batch'[j] = batch[j] \/ BatchOK(batch'[j], log, DealtIds)
  PROVE  CursorsOK'
<1>1. log' = log /\ Extends(log, log)
  BY ExtendsSelf
<1>2. DealtIds' = DealtIds
  BY DEF DealtIds, Dealt, Wanted, Handled, Recorded, Key
<1> QED
  BY <1>1, <1>2, CursorsLater

(* A batch that waits or is over has no cursor. *)
LEMMA NoCursor ==
  ASSUME NEW lg, NEW D
  PROVE  BatchOK(Idle, lg, D) /\ BatchOK([stage |-> "read"], lg, D)
BY DEF BatchOK, BatchRecord, Started, Idle

(* The ledger moves on. *)
LEMMA LedgerKeeps == ASSUME IInv, Ledger PROVE IInv' /\ Onward
<1>1. ChainOK' /\ Extends(log, log')
  BY ChainStep DEF IInv, Ledger
<1>2. LogOK(log) /\ LogOK(log') /\ Len(log) \in Nat /\ Len(log') \in Nat
  BY <1>1 DEF IInv, ChainOK, LogOK
<1>3. UNCHANGED <<tables, worker>>
  BY DEF Ledger
<1>4. DealtIds \subseteq DealtIds'
  BY <1>1, <1>2, <1>3, DealtLater DEF tables
<1>5. CursorsOK'
  BY <1>1, <1>2, <1>3, <1>4, CursorsLater DEF IInv, tables, worker
<1>6. TablesOK'
  BY <1>1, <1>2, <1>3 DEF IInv, TablesOK, tables, Extends
<1>7. MutexOK' /\ Coupled'
  BY <1>3 DEF IInv, MutexOK, Coupled, tables, worker
<1>8. Onward
  BY <1>3 DEF Onward, IInv, CursorsOK, CursorOK, CursorRow, tables
<1> QED
  BY <1>1, <1>5, <1>6, <1>7, <1>8 DEF IInv

(* Operators go back: everything before an earlier ledger is dealt with. *)
LEMMA BackOK ==
  ASSUME LogOK(log), CursorsOK, NEW l \in 0..state.lastLedger
  PROVE  LET s == StateRow(l, 0) IN
         CursorOK(s, log) /\ Passed(s, log, DealtIds) /\ s.lastCursor = 0
<1> DEFINE s == StateRow(l, 0)
<1>1. state.lastLedger < NextTx(log) /\ NextTx(log) \in Nat /\ Len(log) \in Nat
      /\ state.lastLedger \in Int
  BY TxBounds DEF CursorsOK, CursorOK, CursorRow, LogOK
<1>2. s.lastLedger = l /\ s.lastCursor = 0 /\ s \in CursorRow
  BY DEF StateRow, CursorRow
<1>3. ASSUME NEW i \in 1..Len(log), i <= 0 \/ log[i].tx < l PROVE i \in DealtIds
  <2>1. log[i].tx \in Nat
    BY TxBounds
  <2>2. log[i].tx < state.lastLedger
    BY <1>1, <1>3, <2>1
  <2> QED
    BY <2>2 DEF CursorsOK, Passed
<1> HIDE DEF s
<1>4. CursorOK(s, log) /\ Passed(s, log, DealtIds) /\ s.lastCursor = 0
  BY <1>1, <1>2, <1>3 DEF CursorOK, Passed
<1> QED
  BY <1>4 DEF s

(* A batch is chained: by the timer, or by a replay, which resets the cursor *)
(* first, to a ledger at or before the one it had reached.                   *)
LEMMA EnqueueStep ==
  ASSUME IInv, NEW j \in Jobs, batch[j] = Idle, enqueue(j),
         UNCHANGED <<chainVars, rows, recorded, dead, discarded, unwritten>>,
         state' = state \/ \E l \in 0..state.lastLedger : state' = StateRow(l, 0)
  PROVE  IInv' /\ Onward
<1>1. LogOK(log) /\ MutexOK /\ CursorsOK /\ TablesOK /\ Coupled /\ ChainOK
  BY DEF IInv, ChainOK
<1>2. /\ MutexOK'
      /\ batch'[j] = [stage |-> "read"] /\ \A k \in Jobs \ {j} : batch'[k] = batch[k]
  BY <1>1, EnqueueKeeps
<1>3. state.lastCursor \in Nat
  BY <1>1 DEF CursorsOK, CursorOK, CursorRow
<1>4. ASSUME NEW l \in 0..state.lastLedger, state' = StateRow(l, 0)
      PROVE  CursorOK(state', log) /\ Passed(state', log, DealtIds) /\ state'.lastCursor = 0
  BY <1>1, <1>4, BackOK
<1>5. CursorsOK'
  <2>1. state' = state \/ (CursorOK(state', log) /\ Passed(state', log, DealtIds))
    BY <1>4
  <2>2. \A k \in Jobs : batch'[k] = batch[k] \/ BatchOK(batch'[k], log, DealtIds)
    BY <1>2, NoCursor
  <2> QED
    BY <1>1, <2>1, <2>2, CursorsStay DEF chainVars
<1>6. state'.lastCursor = 0 \/ state' = state
  BY <1>4
<1>7. Coupled'
  BY <1>1, <1>2, <1>6 DEF Coupled, Started
<1>8. Onward
  BY <1>3, <1>6 DEF Onward
<1>9. ChainOK' /\ TablesOK'
  BY <1>1 DEF ChainOK, TablesOK, chainVars
<1> QED
  BY <1>2, <1>5, <1>7, <1>8, <1>9 DEF IInv

(* The reset of an operator, without a poll. *)
LEMMA ResetKeeps ==
  ASSUME IInv, NEW l \in 0..state.lastLedger, resetIndexer(l)
  PROVE  IInv' /\ Onward
<1>1. LogOK(log) /\ MutexOK /\ CursorsOK /\ TablesOK /\ Coupled /\ ChainOK
  BY DEF IInv, ChainOK
<1>2. /\ state' = StateRow(l, 0)
      /\ UNCHANGED <<chainVars, rows, recorded, dead, discarded, unwritten, worker>>
  BY DEF resetIndexer
<1>3. CursorOK(state', log) /\ Passed(state', log, DealtIds) /\ state'.lastCursor = 0
  BY <1>1, <1>2, BackOK
<1>4. CursorsOK'
  BY <1>1, <1>2, <1>3, CursorsStay DEF chainVars, worker
<1>5. ChainOK' /\ TablesOK' /\ MutexOK' /\ Coupled'
  BY <1>1, <1>2, <1>3 DEF ChainOK, TablesOK, MutexOK, Coupled, chainVars, worker
<1> QED
  BY <1>3, <1>4, <1>5 DEF IInv, Onward

(* The batch at the head of the chain ends, whatever it saves. *)
LEMMA FinishStep ==
  ASSUME IInv, NEW j \in Jobs, queue # <<>>, queue[1] = j, finish(j),
         UNCHANGED <<chainVars, rows, recorded, dead, discarded, unwritten>>,
         \/ state' = state
         \/ /\ CursorOK(state', log) /\ Passed(state', log, DealtIds)
            /\ state'.lastCursor >= state.lastCursor
  PROVE  IInv' /\ Onward
<1>1. LogOK(log) /\ MutexOK /\ CursorsOK /\ TablesOK /\ Coupled /\ ChainOK
  BY DEF IInv, ChainOK
<1>2. MutexOK' /\ batch'[j] = Idle /\ \A k \in Jobs \ {j} : batch'[k] = batch[k]
  BY <1>1, FinishKeeps
<1>3. \A k \in Jobs : batch'[k] = batch[k] \/ BatchOK(batch'[k], log, DealtIds)
  BY <1>2, NoCursor
<1>4. CursorsOK'
  BY <1>1, <1>3, CursorsStay DEF chainVars
<1>5. \A k \in Jobs \ {j} : ~Started(batch[k])
  BY <1>1, OneStarted
<1>6. Coupled'
  BY <1>2, <1>5 DEF Coupled, Started, Idle
<1>7. state.lastCursor \in Nat
  BY <1>1 DEF CursorsOK, CursorOK, CursorRow
<1>8. ChainOK' /\ TablesOK'
  BY <1>1 DEF ChainOK, TablesOK, chainVars
<1> QED
  BY <1>2, <1>4, <1>6, <1>7, <1>8 DEF IInv, Onward

(* runPollCycle reads the cursor. *)
LEMMA EnsureKeeps ==
  ASSUME IInv, NEW j \in Jobs, ensureIndexerState(j)
  PROVE  IInv' /\ Onward
<1> DEFINE s == IF state = NoState THEN StateRow(startLedger, 0) ELSE state
           b == [stage |-> "fetch", read |-> s]
<1>1. LogOK(log) /\ MutexOK /\ CursorsOK /\ TablesOK /\ Coupled /\ ChainOK
  BY DEF IInv, ChainOK
<1>2. /\ queue # <<>> /\ queue[1] = j /\ queue' = queue /\ state' = s
      /\ batch' = [batch EXCEPT ![j] = b]
      /\ UNCHANGED <<chainVars, rows, recorded, dead, discarded, unwritten>>
  BY <1>1 DEF ensureIndexerState, exclusive, MutexOK
<1>3. CursorOK(s, log) /\ Passed(s, log, DealtIds) /\ s.lastCursor = state.lastCursor
  <2>1. CASE state = NoState
    <3>1. s.lastLedger = 0 /\ s.lastCursor = 0 /\ s \in CursorRow /\ state.lastCursor = 0
      BY <2>1 DEF StateRow, startLedger, NoState, CursorRow
    <3>2. /\ NextTx(log) \in Nat \ {0} /\ Len(log) \in Nat
          /\ \A i \in 1..Len(log) : log[i].tx \in Nat
      BY <1>1, TxBounds DEF LogOK
    <3> HIDE DEF s
    <3> QED
      BY <3>1, <3>2 DEF CursorOK, Passed
  <2>2. CASE state # NoState
    BY <1>1, <2>2 DEF CursorsOK
  <2> QED
    BY <2>1, <2>2
<1> HIDE DEF s
<1>4. b.stage = "fetch" /\ b.read = s /\ b # Idle
  BY DEF Idle
<1>5. BatchOK(b, log, DealtIds)
  BY <1>3, <1>4 DEF BatchOK, BatchRecord, CursorOK, Started
<1> HIDE DEF b
<1>6. MutexOK' /\ batch'[j] = b /\ \A k \in Jobs \ {j} : batch'[k] = batch[k]
  BY <1>1, <1>2, <1>4, RunKeeps
<1>7. CursorsOK'
  BY <1>1, <1>2, <1>3, <1>5, <1>6, CursorsStay DEF chainVars
<1>8. \A k \in Jobs \ {j} : ~Started(batch[k])
  BY <1>1, <1>2, OneStarted
<1>9. Coupled'
  BY <1>2, <1>4, <1>6, <1>8 DEF Coupled, Started
<1>10. state.lastCursor \in Nat
  BY <1>1 DEF CursorsOK, CursorOK, CursorRow
<1>11. ChainOK' /\ TablesOK'
  BY <1>1, <1>2 DEF ChainOK, TablesOK, chainVars
<1> QED
  BY <1>2, <1>3, <1>6, <1>7, <1>9, <1>10, <1>11 DEF IInv, Onward

(* The page arrives. *)
LEMMA GetEventsKeeps ==
  ASSUME IInv, NEW j \in Jobs, getEvents(j)
  PROVE  IInv' /\ Onward
<1> DEFINE s == batch[j].read
           page == After(s)
           b == [stage |-> "process", read |-> s, todo |-> page, last |-> s]
<1>1. LogOK(log) /\ MutexOK /\ CursorsOK /\ TablesOK /\ Coupled /\ ChainOK
  BY DEF IInv, ChainOK
<1>2. /\ batch[j].stage = "fetch" /\ UNCHANGED <<chainVars, tables, troubles, refetched>>
      /\ IF page = {} THEN finish(j)
         ELSE batch' = [batch EXCEPT ![j] = b] /\ UNCHANGED queue
  BY <1>1 DEF getEvents, MutexOK
<1>3. Started(batch[j]) /\ queue # <<>> /\ queue[1] = j
  BY <1>1, <1>2, StartedIsHead DEF Started
<1>4. CursorOK(s, log) /\ Passed(s, log, DealtIds)
  BY <1>1, <1>3 DEF CursorsOK, BatchOK
<1>5. CASE page = {}
  BY <1>2, <1>3, <1>5, FinishStep DEF tables
<1>6. CASE page # {}
  <2>1. b.stage = "process" /\ b.read = s /\ b.last = s /\ b.todo = page /\ b # Idle
    BY DEF Idle
  <2>2. \A i \in page : i \in 1..Len(log) /\ i > s.lastCursor /\ 1..i \subseteq DealtIds \cup page
    BY <1>1, <1>4, PageOK
  <2>3. b \in BatchRecord
    <3>1. page \in SUBSET Nat
      BY <1>1, <2>2 DEF LogOK
    <3>2. s \in CursorRow
      BY <1>4 DEF CursorOK
    <3> HIDE DEF s, page
    <3> QED
      BY <3>1, <3>2 DEF BatchRecord
  <2>4. /\ Passed(s, log, DealtIds \cup page) /\ s.lastCursor <= s.lastCursor
        /\ page \subseteq 1..Len(log)
    BY <1>4, <2>2 DEF Passed, CursorOK, CursorRow
  <2> HIDE DEF s, page, b
  <2>5. BatchOK(b, log, DealtIds)
    BY <1>4, <2>1, <2>2, <2>3, <2>4 DEF BatchOK
  <2>6. MutexOK' /\ batch'[j] = b /\ \A k \in Jobs \ {j} : batch'[k] = batch[k]
    BY <1>1, <1>2, <1>3, <1>6, <2>1, RunKeeps
  <2>7. CursorsOK'
    BY <1>1, <1>2, <2>5, <2>6, CursorsStay DEF chainVars, tables
  <2>8. Coupled'
    BY <1>1, <1>2, <1>3, <2>1, <2>6 DEF Coupled, Started, tables, s
  <2>9. Onward
    BY <1>1, <1>2 DEF Onward, tables, CursorsOK, CursorOK, CursorRow
  <2>10. ChainOK' /\ TablesOK'
    BY <1>1, <1>2 DEF ChainOK, TablesOK, chainVars, tables
  <2> QED
    BY <2>6, <2>7, <2>8, <2>9, <2>10 DEF IInv
<1> QED
  BY <1>5, <1>6

(* A batch ends without saving. *)
LEMMA ThrowKeeps ==
  ASSUME IInv, NEW j \in Jobs, batchThrows(j)
  PROVE  IInv' /\ Onward
<1>1. finish(j) /\ UNCHANGED <<chainVars, tables>>
  BY DEF batchThrows
<1>2. queue \in Seq(Jobs) /\ MutexOK
  BY DEF IInv, MutexOK
<1>3. queue # <<>> /\ queue[1] = j
  <2>1. CASE Started(batch[j])
    BY <1>2, <2>1, StartedIsHead
  <2>2. CASE exclusive(j)
    BY <1>2, <2>2 DEF exclusive
  <2> QED
    BY <2>1, <2>2 DEF batchThrows, Started
<1> QED
  BY <1>1, <1>3, FinishStep DEF tables

(* The upsert: everything the saved cursor has passed is dealt with. *)
LEMMA SaveKeeps ==
  ASSUME IInv, NEW j \in Jobs, saveState(j)
  PROVE  IInv' /\ Onward
<1> DEFINE b == batch[j]
<1>1. /\ b.stage = "process" /\ b.todo = {} /\ state' = b.last /\ finish(j)
      /\ UNCHANGED <<chainVars, rows, recorded, dead, discarded, unwritten>>
  BY DEF saveState
<1>2. Started(b) /\ MutexOK /\ BatchOK(b, log, DealtIds) /\ Coupled
  BY <1>1 DEF IInv, CursorsOK, Started
<1>3. queue # <<>> /\ queue[1] = j
  BY <1>2, StartedIsHead
<1>4. /\ CursorOK(b.last, log) /\ Passed(b.last, log, DealtIds)
      /\ CursorOK(b.read, log) /\ b.read.lastCursor <= b.last.lastCursor
  <2>1. DealtIds \cup b.todo = DealtIds
    BY <1>1
  <2> HIDE DEF b
  <2> QED
    BY <1>1, <1>2, <2>1 DEF BatchOK
<1>5. state.lastCursor \in {0, b.read.lastCursor}
  BY <1>2 DEF Coupled
<1>6. state'.lastCursor >= state.lastCursor
  BY <1>1, <1>4, <1>5 DEF CursorOK, CursorRow
<1> QED
  BY <1>1, <1>3, <1>4, <1>6, FinishStep

-----------------------------------------------------------------------------
(* What becomes of the batch when event i is skipped, and when it succeeds. *)
Skipped(b, i) == [b EXCEPT !.todo = b.todo \ {i}]
Advanced(b, i, tx) == [b EXCEPT !.todo = b.todo \ {i}, !.last = StateRow(tx, i)]

(* What leaves D as event i is handled lies after i, and is still on the     *)
(* page if anything after it is.                                             *)
LostAhead(lg, b, i, D, D2) ==
  \A k \in D \ D2 : /\ k > i /\ ~(k <= b.read.lastCursor) /\ ~(lg[k].tx < b.read.lastLedger)
                    /\ \A y \in b.todo : k <= y => k \in b.todo
MayTake(lg, b, i, c, D, D2) ==
  \/ D \subseteq D2 /\ c \in {Skipped(b, i), Advanced(b, i, lg[i].tx)}
  \/ LostAhead(lg, b, i, D, D2) /\ c = Advanced(b, i, lg[i].tx)

(* An event leaves the page once it is dealt with, and the cursor to be     *)
(* saved may move to it: the page has no hole before it.                    *)
LEMMA TakeOne ==
  ASSUME NEW lg, NEW D, NEW D2, NEW b, NEW i, NEW c, LogOK(lg), BatchOK(b, lg, D),
         b.stage = "process", i \in b.todo, i \in D2, MayTake(lg, b, i, c, D, D2)
  PROVE  BatchOK(c, lg, D2) /\ c.stage = "process" /\ c.read = b.read /\ c # Idle
<1> DEFINE T == b.todo \ {i}
           s == b.read
<1>1. b \in [stage : {"process"}, read : CursorRow, todo : SUBSET Nat, last : CursorRow]
  BY DEF BatchOK, BatchRecord, Idle
<1>2. /\ CursorOK(s, lg) /\ Passed(s, lg, D) /\ CursorOK(b.last, lg)
      /\ s.lastCursor <= b.last.lastCursor
      /\ b.todo \subseteq 1..Len(lg) /\ (\A k \in b.todo : k > s.lastCursor)
      /\ Passed(b.last, lg, D \cup b.todo)
      /\ \A k \in b.todo : 1..k \subseteq D \cup b.todo
  BY DEF BatchOK, Started
<1>3. /\ Len(lg) \in Nat /\ i \in 1..Len(lg) /\ i \in Nat /\ NextTx(lg) \in Nat
      /\ \A k \in 1..Len(lg) : lg[k].tx \in Nat /\ lg[k].tx < NextTx(lg)
  BY <1>2, TxBounds DEF LogOK
<1>4. PICK n : n = StateRow(lg[i].tx, i)
  OBVIOUS
<1>5. n \in CursorRow /\ n.lastLedger = lg[i].tx /\ n.lastCursor = i
  BY <1>3, <1>4 DEF StateRow, CursorRow
<1>6. PICK l \in {b.last, n} :
        c = [b EXCEPT !.todo = T, !.last = l] /\ (l = n \/ (l = b.last /\ D \subseteq D2))
  <2>1. CASE c = [b EXCEPT !.todo = T] /\ D \subseteq D2
    <3>1. c = [b EXCEPT !.todo = T, !.last = b.last]
      BY <1>1, <2>1
    <3> QED
      BY <2>1, <3>1
  <2>2. CASE c = [b EXCEPT !.todo = T, !.last = n]
    BY <2>2
  <2> QED
    BY <1>4, <2>1, <2>2 DEF Skipped, Advanced, MayTake
<1>7. l \in CursorRow /\ T \in SUBSET Nat
  BY <1>1, <1>5
<1>8. /\ c \in [stage : {"process"}, read : CursorRow, todo : SUBSET Nat, last : CursorRow]
      /\ c.stage = "process" /\ c.read = s /\ c.todo = T /\ c.last = l
  <2> HIDE DEF T
  <2> QED
    BY <1>1, <1>6, <1>7
<1>9. c \in BatchRecord /\ c # Idle
  BY <1>8 DEF BatchRecord, Idle
<1>10. /\ D \subseteq D2 => D \cup b.todo \subseteq D2 \cup T
       /\ \A k \in b.todo : 1..k \subseteq D2 \cup T
       /\ \A k \in D : k <= s.lastCursor \/ lg[k].tx < s.lastLedger => k \in D2
  <2>1. D \subseteq D2 => D \cup b.todo \subseteq D2 \cup T
    OBVIOUS
  <2>2. CASE D \subseteq D2
    BY <1>2, <2>1, <2>2
  <2>3. CASE LostAhead(lg, b, i, D, D2)
    BY <1>2, <1>3, <2>1, <2>3 DEF LostAhead
  <2> QED
    BY <2>2, <2>3 DEF MayTake
<1>11. CursorOK(l, lg) /\ s.lastCursor <= l.lastCursor /\ Passed(l, lg, D2 \cup T)
  <2>1. CASE l = b.last /\ D \subseteq D2
    BY <1>2, <1>10, <2>1 DEF Passed
  <2>2. CASE l = n
    <3>1. CursorOK(n, lg)
      BY <1>3, <1>5 DEF CursorOK
    <3>2. s.lastCursor <= i
      BY <1>2, <1>3 DEF CursorOK, CursorRow
    <3>3. ASSUME NEW k \in 1..Len(lg), k <= i \/ lg[k].tx < lg[i].tx PROVE k \in D2 \cup T
      <4>1. k <= i
        <5>1. ASSUME ~(k <= i) PROVE FALSE
          <6>1. i <= k
            BY <1>3, <5>1
          <6>2. lg[i].tx <= lg[k].tx
            BY <1>3, <6>1 DEF LogOK
          <6> QED
            BY <1>3, <3>3, <5>1, <6>2
        <5> QED
          BY <5>1
      <4>2. k \in 1..i
        BY <1>3, <4>1
      <4> QED
        BY <1>10, <4>2
    <3> QED
      BY <1>5, <2>2, <3>1, <3>2, <3>3 DEF Passed
  <2> QED
    BY <1>6, <2>1, <2>2
<1>12. Passed(s, lg, D2)
  BY <1>2, <1>10 DEF Passed
<1>13. \A k \in T : 1..k \subseteq D2 \cup T
  BY <1>10
<1>14. T \subseteq 1..Len(lg) /\ \A k \in T : k > s.lastCursor
  BY <1>2
<1> HIDE DEF T, s
<1>15. BatchOK(c, lg, D2)
  BY <1>2, <1>8, <1>9, <1>11, <1>12, <1>13, <1>14 DEF BatchOK, Started
<1> QED
  BY <1>8, <1>9, <1>15 DEF s

(* One event of the page: its handler, its quarantine, or neither. *)
LEMMA ProcessNextKeeps ==
  ASSUME IInv, NEW j \in Jobs, processNext(j)
  PROVE  IInv' /\ Onward
<1> DEFINE b == batch[j]
<1>1. LogOK(log) /\ MutexOK /\ CursorsOK /\ TablesOK /\ Coupled /\ ChainOK
  BY DEF IInv, ChainOK
<1>2. PICK i \in b.todo :
        LET e == log[i]
            skipped == [b EXCEPT !.todo = b.todo \ {i}]
            advanced == [b EXCEPT !.todo = b.todo \ {i}, !.last = StateRow(e.tx, i)]
        IN  \/ /\ e.inSuccessfulContractCall /\ Succeeds(e)
               /\ processEvent(e)
               /\ batch' = [batch EXCEPT ![j] = advanced]
               /\ UNCHANGED <<dead, unwritten>>
            \/ /\ quarantineEvent(i) \/ quarantineFails(i)
               /\ batch' = [batch EXCEPT ![j] = skipped]
               /\ UNCHANGED <<rows, recorded>>
            \/ /\ ~e.inSuccessfulContractCall
               /\ batch' = [batch EXCEPT ![j] = skipped]
               /\ UNCHANGED <<rows, recorded, dead, unwritten>>
  BY <1>1, Zenon DEF processNext, rest
<1>3. b.stage = "process" /\ UNCHANGED <<chainVars, state, discarded, queue>>
  BY DEF processNext
<1>4. Started(b) /\ queue # <<>> /\ queue[1] = j /\ BatchOK(b, log, DealtIds)
  BY <1>1, <1>3, StartedIsHead DEF Started, CursorsOK
<1>5. i \in 1..Len(log) /\ log[i] \in LogEvent
  BY <1>1, <1>3, <1>4 DEF BatchOK, LogOK
<1>6. log' = log /\ Extends(log, log') /\ LogOK(log')
  BY <1>1, <1>3, ExtendsSelf DEF chainVars
<1> HIDE DEF b
<1>7. /\ rows' \in [Streams -> StreamRow \cup {NoRow}] /\ recorded \subseteq recorded'
      /\ dead \cup unwritten \subseteq dead' \cup unwritten'
      /\ dead' \cup unwritten' \subseteq dead \cup unwritten \cup {i}
      /\ Dealt(i)'
  <2>1. CASE log[i].inSuccessfulContractCall /\ Succeeds(log[i]) /\ processEvent(log[i])
             /\ UNCHANGED <<dead, unwritten>>
    <3>0. PICK e : e = log[i]
      OBVIOUS
    <3>1. /\ rows' \in [Streams -> StreamRow \cup {NoRow}] /\ recorded \subseteq recorded'
          /\ Handled(e) => Recorded(e)'
      BY <1>1, <1>5, <2>1, <3>0, ProcessKeeps DEF TablesOK
    <3>2. Dealt(i)'
      BY <1>6, <3>0, <3>1 DEF Dealt, Wanted, Handled, Recorded, Key
    <3> QED
      BY <2>1, <3>1, <3>2
  <2>2. CASE (quarantineEvent(i) \/ quarantineFails(i)) /\ UNCHANGED <<rows, recorded>>
    BY <1>1, <2>2 DEF quarantineEvent, quarantineFails, Dealt, TablesOK
  <2>3. CASE ~log[i].inSuccessfulContractCall /\ UNCHANGED <<rows, recorded, dead, unwritten>>
    BY <1>1, <1>6, <2>3 DEF Dealt, Wanted, TablesOK
  <2> QED
    BY <1>2, <2>1, <2>2, <2>3
<1>8. DealtIds \subseteq DealtIds' /\ i \in DealtIds'
  <2>1. DealtIds \subseteq DealtIds'
    BY <1>1, <1>3, <1>6, <1>7, DealtLater
  <2> QED
    BY <1>5, <1>6, <1>7, <2>1 DEF DealtIds
<1>9. PICK c \in {Skipped(b, i), Advanced(b, i, log[i].tx)} : batch' = [batch EXCEPT ![j] = c]
  BY <1>2, Zenon DEF Skipped, Advanced
<1>10. BatchOK(c, log, DealtIds') /\ c.stage = "process" /\ c.read = b.read /\ c # Idle
  <2>1. PICK D, D2 : D = DealtIds /\ D2 = DealtIds'
    OBVIOUS
  <2>2. D \subseteq D2 /\ i \in D2
    BY <1>8, <2>1
  <2>3. BatchOK(c, log, D2) /\ c.stage = "process" /\ c.read = b.read /\ c # Idle
    <3>1. LogOK(log) /\ BatchOK(b, log, D) /\ b.stage = "process" /\ i \in b.todo
      BY <1>1, <1>2, <1>3, <1>4, <2>1
    <3>2. MayTake(log, b, i, c, D, D2)
      BY <1>9, <2>2 DEF MayTake
    <3> QED
      BY <2>2, <3>1, <3>2, TakeOne
  <2> QED
    BY <2>1, <2>3
<1>11. MutexOK' /\ batch'[j] = c /\ \A k \in Jobs \ {j} : batch'[k] = batch[k]
  BY <1>1, <1>3, <1>4, <1>9, <1>10, RunKeeps
<1>12. CursorsOK'
  BY <1>1, <1>3, <1>6, <1>8, <1>10, <1>11, CursorsLater
<1>13. Coupled'
  <2>1. state.lastCursor \in {0, b.read.lastCursor}
    BY <1>1, <1>4 DEF Coupled, b
  <2> QED
    BY <1>1, <1>3, <1>10, <1>11, <2>1 DEF Coupled
<1>14. TablesOK'
  BY <1>1, <1>3, <1>5, <1>6, <1>7 DEF TablesOK
<1>15. ChainOK'
  BY <1>1, <1>3 DEF ChainOK, chainVars
<1>16. Onward
  BY <1>1, <1>3 DEF Onward, CursorsOK, CursorOK, CursorRow
<1> QED
  BY <1>11, <1>12, <1>13, <1>14, <1>15, <1>16 DEF IInv

(* The dead letters: a replayed one is dropped only when there was nothing  *)
(* to handle, since its payload has lost the transaction hash.              *)
LEMMA DeadLetterKeeps ==
  ASSUME IInv, NEW i \in dead, replayDeadLetterEvent(i) \/ discardDeadLetterEvent(i)
  PROVE  IInv' /\ Onward
<1>1. LogOK(log) /\ MutexOK /\ CursorsOK /\ TablesOK /\ Coupled /\ ChainOK
  BY DEF IInv, ChainOK
<1>2. UNCHANGED <<chainVars, state, unwritten, worker>>
  BY DEF replayDeadLetterEvent, discardDeadLetterEvent
<1>3. i \in 1..Len(log) /\ log[i] \in LogEvent
  BY <1>1 DEF TablesOK, LogOK
<1>4. log' = log /\ Extends(log, log') /\ LogOK(log')
  BY <1>1, <1>2, ExtendsSelf DEF chainVars
<1>5. /\ rows' \in [Streams -> StreamRow \cup {NoRow}] /\ recorded \subseteq recorded'
      /\ dead' \cup discarded' \subseteq dead \cup discarded
      /\ \A k \in 1..Len(log) : k \in dead \cup discarded \cup unwritten =>
           k \in dead' \cup discarded' \cup unwritten' \/ ~Wanted(k)
  <2>1. CASE replayDeadLetterEvent(i)
    <3> DEFINE e == deserializeDeadLetterPayload(i)
    <3>1. e = [log[i] EXCEPT !.tx = NoTx]
      BY DEF deserializeDeadLetterPayload
    <3>2. e.tx = NoTx /\ e.type = log[i].type
      BY <1>3, <3>1 DEF LogEvent
    <3>3. discarded' = discarded
      BY <2>1 DEF replayDeadLetterEvent
    <3>4. CASE Succeeds(e)
      <4>1. processEvent(e) /\ dead' = dead \ {i}
        BY <2>1, <3>4 DEF replayDeadLetterEvent
      <4>2. e \in {[x EXCEPT !.tx = NoTx] : x \in LogEvent}
        BY <1>3, <3>1
      <4> HIDE DEF e
      <4>3. rows' \in [Streams -> StreamRow \cup {NoRow}] /\ recorded \subseteq recorded'
        BY <1>1, <3>4, <4>1, <4>2, ProcessKeeps DEF TablesOK
      <4>4. ~Handled(e)
        BY <3>2, <3>4 DEF Succeeds
      <4>5. ~Wanted(i)
        BY <3>2, <4>4 DEF Wanted, Handled
      <4> QED
        BY <1>2, <3>3, <4>1, <4>3, <4>5
    <3>5. CASE ~Succeeds(e)
      <4>1. UNCHANGED <<rows, recorded, dead>>
        BY <2>1, <3>5 DEF replayDeadLetterEvent
      <4> QED
        BY <1>1, <1>2, <3>3, <4>1 DEF TablesOK
    <3> QED
      BY <3>4, <3>5
  <2>2. CASE discardDeadLetterEvent(i)
    BY <1>1, <1>2, <2>2 DEF discardDeadLetterEvent, TablesOK
  <2> QED
    BY <2>1, <2>2
<1>6. DealtIds \subseteq DealtIds'
  BY <1>1, <1>4, <1>5, DealtLater
<1>7. CursorsOK'
  BY <1>1, <1>2, <1>4, <1>6, CursorsLater DEF worker
<1>8. TablesOK'
  BY <1>1, <1>2, <1>4, <1>5 DEF TablesOK
<1>9. ChainOK' /\ MutexOK' /\ Coupled'
  BY <1>1, <1>2 DEF ChainOK, MutexOK, Coupled, chainVars, worker
<1>10. Onward
  BY <1>1, <1>2 DEF Onward, CursorsOK, CursorOK, CursorRow
<1> QED
  BY <1>7, <1>8, <1>9, <1>10 DEF IInv

(* A crash: only the tables remain. *)
LEMMA CrashKeeps == ASSUME IInv, crash PROVE IInv' /\ Onward
<1>1. LogOK(log) /\ MutexOK /\ CursorsOK /\ TablesOK /\ Coupled /\ ChainOK
  BY DEF IInv, ChainOK
<1>2. queue' = <<>> /\ batch' = [j \in Jobs |-> Idle] /\ UNCHANGED <<chainVars, tables>>
  BY DEF crash
<1>3. \A j \in Jobs : batch'[j] = Idle
  BY <1>2
<1>4. CursorsOK'
  BY <1>1, <1>2, <1>3, NoCursor, CursorsStay DEF chainVars, tables
<1>5. MutexOK'
  BY <1>2, <1>3 DEF MutexOK
<1>6. Coupled'
  BY <1>3 DEF Coupled, Started, Idle
<1>7. ChainOK' /\ TablesOK'
  BY <1>1, <1>2 DEF ChainOK, TablesOK, chainVars, tables
<1>8. Onward
  BY <1>1, <1>2 DEF Onward, CursorsOK, CursorOK, CursorRow, tables
<1> QED
  BY <1>4, <1>5, <1>6, <1>7, <1>8 DEF IInv

-----------------------------------------------------------------------------
(* The empty ledger, the empty tables. *)
LEMMA InitIInv == Init => IInv
<1> SUFFICES ASSUME Init PROVE IInv
  OBVIOUS
<1>1. /\ log = <<>> /\ chain = [s \in Streams |-> Unopened] /\ Len(log) = 0
      /\ rows = [s \in Streams |-> NoRow] /\ dead = {} /\ discarded = {} /\ unwritten = {}
      /\ state = NoState /\ queue = <<>> /\ batch = [j \in Jobs |-> Idle]
  BY DEF Init, ChainInit
<1>2. ChainOK
  BY <1>1 DEF ChainOK, LogOK, ChainRecord, Unopened
<1>3. TablesOK /\ MutexOK
  BY <1>1 DEF TablesOK, MutexOK
<1>4. CursorOK(state, log) /\ Passed(state, log, DealtIds)
  BY <1>1 DEF CursorOK, CursorRow, NoState, NextTx, Passed
<1>5. CursorsOK
  BY <1>1, <1>4, NoCursor DEF CursorsOK
<1>6. Coupled
  BY <1>1 DEF Coupled, Started, Idle
<1> QED
  BY <1>2, <1>3, <1>5, <1>6 DEF IInv

(* Every step. *)
LEMMA NextKeepsIInv == IInv /\ [Next]_vars => IInv' /\ Onward
<1> SUFFICES ASSUME IInv, [Next]_vars PROVE IInv' /\ Onward
  OBVIOUS
<1>1. CASE Ledger
  BY <1>1, LedgerKeeps
<1>2. CASE poll
  <2>1. "scheduled" \in Jobs /\ batch["scheduled"] = Idle /\ enqueue("scheduled")
        /\ state' = state /\ UNCHANGED <<chainVars, rows, recorded, dead, discarded, unwritten>>
    BY <1>2 DEF poll, Jobs, tables
  <2> QED
    BY <2>1, EnqueueStep
<1>3. ASSUME NEW j \in Jobs, Step(j) \/ batchThrows(j) PROVE IInv' /\ Onward
  BY <1>3, EnsureKeeps, GetEventsKeeps, ProcessNextKeeps, SaveKeeps, ThrowKeeps DEF Step
<1>4. ASSUME NEW l \in 0..state.lastLedger, resetIndexer(l) \/ replayFromLedger(l)
      PROVE  IInv' /\ Onward
  <2>1. CASE resetIndexer(l)
    BY <2>1, ResetKeeps
  <2>2. CASE replayFromLedger(l)
    <3>1. "manual" \in Jobs /\ batch["manual"] = Idle /\ enqueue("manual")
          /\ state' = StateRow(l, 0)
          /\ UNCHANGED <<chainVars, rows, recorded, dead, discarded, unwritten>>
      BY <2>2 DEF replayFromLedger, Jobs
    <3> QED
      BY <3>1, EnqueueStep
  <2> QED
    BY <1>4, <2>1, <2>2
<1>5. ASSUME NEW i \in dead, replayDeadLetterEvent(i) \/ discardDeadLetterEvent(i)
      PROVE  IInv' /\ Onward
  BY <1>5, DeadLetterKeeps
<1>6. CASE crash
  BY <1>6, CrashKeeps
<1>7. CASE UNCHANGED vars
  <2>1. UNCHANGED <<log, chain, rows, recorded, state, dead, discarded, unwritten, queue, batch>>
    BY <1>7 DEF vars, chainVars, tables, worker
  <2>2. IInv'
    <3>1. CursorsOK'
      BY <2>1, CursorsStay DEF IInv, ChainOK
    <3> QED
      BY <2>1, <3>1 DEF IInv, ChainOK, TablesOK, MutexOK, Coupled
  <2> QED
    BY <2>1, <2>2 DEF Onward, IInv, CursorsOK, CursorOK, CursorRow
<1> QED
  BY <1>1, <1>2, <1>3, <1>4, <1>5, <1>6, <1>7 DEF Next

-----------------------------------------------------------------------------
(* The tables stay well formed and the promise chain of runExclusive is a
   mutex: a batch is in flight exactly while it is chained, once, and only the
   head of the chain has read a cursor. *)
THEOREM IndexerTypeOK == Spec => []TypeOK
<1>1. IInv => TypeOK
  <2> SUFFICES ASSUME IInv PROVE TypeOK
    OBVIOUS
  <2>1. /\ DOMAIN log = 1..Len(log) /\ DOMAIN queue = 1..Len(queue) /\ Len(log) \in Nat
        /\ state.lastCursor \in Nat /\ state.lastCursor <= Len(log)
    BY DEF IInv, ChainOK, LogOK, MutexOK, CursorsOK, CursorOK, CursorRow
  <2> QED
    BY <2>1 DEF TypeOK, IInv, TablesOK, MutexOK
<1> QED
  BY <1>1, InitIInv, NextKeepsIInv, PTL DEF Spec

(* No event is lost: whatever crashes, fails, is reset or replayed, an event
   the saved cursor has passed is stored, quarantined, discarded by an
   operator, or is one whose quarantine failed as well. *)
THEOREM NothingIsLost == Spec => []NoEventLost
<1>1. IInv => NoEventLost
  <2> SUFFICES ASSUME IInv, NEW i \in 1..state.lastCursor PROVE Dealt(i)
    BY DEF NoEventLost
  <2>1. /\ Len(log) \in Nat /\ state.lastCursor \in Nat /\ state.lastCursor <= Len(log)
        /\ Passed(state, log, DealtIds)
    BY DEF IInv, ChainOK, LogOK, CursorsOK, CursorOK, CursorRow
  <2>2. i \in 1..Len(log) /\ i <= state.lastCursor
    BY <2>1
  <2>3. i \in DealtIds
    BY <2>1, <2>2 DEF Passed
  <2> QED
    BY <2>3 DEF DealtIds
<1> QED
  BY <1>1, InitIInv, NextKeepsIInv, PTL DEF Spec

(* Two cursor writes never overlap and regress lastCursor: only a reset moves
   it back, to null. *)
THEOREM CursorOnlyAdvances == Spec => CursorNeverRegresses
<1>1. IInv /\ [Next]_vars =>
        [state'.lastCursor >= state.lastCursor \/ state'.lastCursor = 0]_vars
  BY NextKeepsIInv DEF Onward
<1> QED
  BY <1>1, InitIInv, NextKeepsIInv, PTL DEF Spec, CursorNeverRegresses

-----------------------------------------------------------------------------
(* What the log says of a stream.                                            *)
EndTypes == {"stream_cancelled", "stream_completed"}
PauseTypes == {"stream_paused", "stream_resumed"}

(* The events whose handlers may change the row. *)
RowTypes ==
  {"stream_created", "stream_topped_up", "tokens_withdrawn"} \cup EndTypes \cup PauseTypes

(* Among the first n events of lg, the positions of the ones of stream s that *)
(* have one of the types.                                                     *)
At(lg, n, s, types) == {i \in 1..n : lg[i].stream = s /\ lg[i].type \in types}

Drawn(lg, s, i) == IF lg[i].stream = s /\ lg[i].type = "tokens_withdrawn" THEN lg[i].value ELSE 0
Amounts(lg, n, s) == [i \in 1..n |-> Drawn(lg, s, i)]

TellsOpening(lg, n, s, c) ==
  /\ \E k \in 1..n : /\ At(lg, n, s, {"stream_created"}) = {k} /\ lg[k].value = Deposit
                     /\ \A i \in At(lg, n, s, RowTypes) : k <= i
  /\ \A i \in At(lg, n, s, {"stream_topped_up"}) : lg[i].value = Deposit + 1
  /\ c.deposited = IF At(lg, n, s, {"stream_topped_up"}) = {} THEN Deposit ELSE Deposit + 1

TellsLife(lg, n, s, c) ==
  /\ At(lg, n, s, EndTypes) = {}
  /\ c.withdrawn = SumTo(Amounts(lg, n, s), n)
  /\ \/ ~c.paused /\ At(lg, n, s, PauseTypes) = {}
     \/ \E i \in At(lg, n, s, PauseTypes) : /\ \A k \in At(lg, n, s, PauseTypes) : k <= i
                                            /\ c.paused <=> lg[i].type = "stream_paused"

TellsEnd(lg, n, s, c) ==
  \E k \in 1..n : /\ At(lg, n, s, EndTypes) = {k} /\ lg[k].value = c.withdrawn
                  /\ \A i \in At(lg, n, s, RowTypes) : i <= k

(* The first n events of lg tell the record c of stream s.                   *)
Tells(lg, n, s, c) ==
  /\ c.kind = "none" =>
       c = Unopened /\ \A i \in 1..n : lg[i].stream = s => lg[i].type = "fee_collected"
  /\ c.kind = "Linear" => /\ TellsOpening(lg, n, s, c)
                          /\ c.is_active => TellsLife(lg, n, s, c)
                          /\ ~c.is_active => TellsEnd(lg, n, s, c)

(* No two events of a stream and a type in one transaction, and the events   *)
(* of a stream are those of calls that succeeded.                            *)
LogKeys(lg) ==
  /\ \A i, k \in 1..Len(lg) :
       lg[i].tx = lg[k].tx /\ lg[i].type = lg[k].type /\ lg[i].stream = lg[k].stream => i = k
  /\ \A i \in 1..Len(lg) : lg[i].stream \in Streams => lg[i].inSuccessfulContractCall

LogTells == LogKeys(log) /\ \A s \in Streams : Tells(log, Len(log), s, chain[s])

-----------------------------------------------------------------------------
(* What StreamEvent says of an event: a row of its own, and of no event yet  *)
(* to come.                                                                  *)
Own(i) == [key |-> Key(log[i]), streamId |-> log[i].stream] \in recorded

RecordsOK ==
  /\ \A r, q \in recorded : r.key = q.key => r = q
  /\ \A r \in recorded : r.key.transactionHash \in Nat /\ r.key.transactionHash < NextTx(log)

(* Nothing of the stream failed, nor was taken for an event of another.      *)
Troubled == dead \cup discarded \cup unwritten
Clean(s) ==
  \A i \in 1..Len(log) : log[i].stream = s /\ Wanted(i) =>
    i \notin Troubled /\ (Recorded(log[i]) => Own(i))

Of(s, types) == At(log, Len(log), s, types)
Mine(s) == chain[s].kind = "Linear" /\ Clean(s)

Credit(i, s) == IF Own(i) THEN Drawn(log, s, i) ELSE 0
Credits(s) == [i \in 1..Len(log) |-> Credit(i, s)]

RowShows(s) ==
  /\ rows[s] # NoRow <=> \E k \in Of(s, {"stream_created"}) : Own(k)
  /\ \A i, k \in Of(s, RowTypes) : k < i /\ Own(i) => Own(k)
  /\ rows[s] # NoRow =>
       /\ \A c \in Of(s, EndTypes) : Own(c) => rows[s].withdrawnAmount = log[c].value
       /\ (\A c \in Of(s, EndTypes) : ~Own(c)) => rows[s].withdrawnAmount = SumTo(Credits(s), Len(log))
       /\ ~rows[s].isActive => \E c \in Of(s, EndTypes) : Own(c)
       /\ (\A q \in Of(s, PauseTypes) : ~Own(q)) => ~rows[s].isPaused
       /\ ~refetched => rows[s].depositedAmount =
            IF \E t \in Of(s, {"stream_topped_up"}) : Own(t) THEN Deposit + 1 ELSE Deposit

RowsShow ==
  \A s \in Streams : /\ Mine(s) => RowShows(s)
                     /\ rows[s] # NoRow => Of(s, {"stream_created"}) # {}

-----------------------------------------------------------------------------
(* Cursors. *)
LastPause(i, s) == i \in Of(s, PauseTypes) /\ \A k \in Of(s, PauseTypes) : k <= i
SettledIn(i, s) ==
  /\ i \in Of(s, EndTypes) => rows[s] # NoRow /\ ~rows[s].isActive
  /\ LastPause(i, s) => rows[s] # NoRow /\ (rows[s].isPaused <=> log[i].type = "stream_paused")
Settled(i) == \A s \in Streams : Mine(s) => SettledIn(i, s)
SettledIds == {i \in DealtIds : Settled(i)}

(* What lies behind a cursor, and a cursor that names an event and its ledger. *)
Behind(lg, c, i) == i <= c.lastCursor \/ lg[i].tx < c.lastLedger
Aligned(lg, c) == c.lastCursor > 0 => c.lastLedger <= lg[c.lastCursor].tx

Opens(lg, i) == lg[i].type = "stream_created"

(* Creations first, the others in order: what waits behind an event that     *)
(* waits waits too.                                                          *)
PageInOrder(lg, b) ==
  \A k, y \in b.todo : \A i \in 1..y :
    ~Opens(lg, i) /\ ~Behind(lg, b.read, i) /\ (Opens(lg, k) \/ k < i) => i \in b.todo

(* The saved cursor c, the cursor a batch b has read, its page.              *)
BatchAhead(lg, c, b) ==
  /\ Started(b) => /\ Aligned(lg, b.read)
                   /\ c.lastLedger <= b.read.lastLedger /\ c.lastCursor <= b.read.lastCursor
  /\ b.stage = "process" => /\ Aligned(lg, b.last) /\ PageInOrder(lg, b)
                            /\ \A i \in b.todo : ~Behind(lg, b.read, i)

CursorsSettled ==
  /\ Aligned(log, state) /\ Passed(state, log, SettledIds)
  /\ \A j \in Jobs : BatchOK(batch[j], log, SettledIds) /\ BatchAhead(log, state, batch[j])

(* As long as nothing is fetched again: what was handled lies behind the     *)
(* cursor, creations apart, and behind what waits.                           *)
HandledIds == {i \in 1..Len(log) : Own(i) /\ ~Opens(log, i)}

HandledBehind(lg, H, c) == \A i \in H : Behind(lg, c, i)
HandledFirst(lg, H, b) ==
  \A k \in b.todo, i \in H : IF Opens(lg, k) THEN Behind(lg, b.read, i) ELSE i < k

BatchFront(lg, H, c, b) ==
  /\ Started(b) => b.read = c
  /\ b.stage = "process" => HandledFirst(lg, H, b) /\ HandledBehind(lg, H, b.last)

Frontier(lg, H, c, bs) ==
  /\ \A j \in Jobs : BatchFront(lg, H, c, bs[j])
  /\ (\A j \in Jobs : bs[j].stage # "process") => HandledBehind(lg, H, c)

FInv ==
  /\ IInv /\ LogTells /\ RecordsOK /\ RowsShow /\ CursorsSettled
  /\ ~refetched => Frontier(log, HandledIds, state, batch)

-----------------------------------------------------------------------------
(* One more event: what it does to the record of its stream.                 *)
Evolves(e, c, d) ==
  \/ d = c /\ e.type \notin RowTypes /\ (c.kind = "none" => e.type = "fee_collected")
  \/ d.kind = "StepTranches"
  \/ /\ e.type = "stream_created" /\ e.value = Deposit /\ c = Unopened /\ d = Opened("Linear")
  \/ /\ c.kind = "Linear" /\ c.is_active /\ d.kind = "Linear"
     /\ \/ /\ e.type = "stream_topped_up" /\ e.value = Deposit + 1 /\ c.deposited = Deposit
           /\ d.deposited = Deposit + 1 /\ d.withdrawn = c.withdrawn /\ d.paused = c.paused /\ d.is_active
        \/ /\ e.type = "tokens_withdrawn" /\ d.withdrawn = c.withdrawn + e.value
           /\ d.deposited = c.deposited /\ d.paused = c.paused /\ d.is_active
        \/ /\ e.type \in EndTypes /\ d.withdrawn = e.value /\ d.deposited = c.deposited /\ ~d.is_active
        \/ /\ e.type \in PauseTypes /\ (d.paused <=> e.type = "stream_paused")
           /\ d.deposited = c.deposited /\ d.withdrawn = c.withdrawn /\ d.is_active

EvolvesFor(s, e, c, d) == IF e.stream = s THEN Evolves(e, c, d) ELSE d = c

(* The positions among the first n + 1 events. *)
LEMMA AtGrows ==
  ASSUME NEW lg, NEW n \in Nat, NEW s, NEW types
  PROVE  /\ lg[n + 1].stream # s \/ lg[n + 1].type \notin types => At(lg, n + 1, s, types) = At(lg, n, s, types)
         /\ lg[n + 1].stream = s /\ lg[n + 1].type \in types =>
              At(lg, n + 1, s, types) = At(lg, n, s, types) \cup {n + 1}
         /\ \A i \in At(lg, n, s, types) : i \in 1..n /\ i < n + 1
<1>1. \A i : i \in 1..(n + 1) <=> i \in 1..n \/ i = n + 1
  OBVIOUS
<1>2. \A i \in 1..n : i < n + 1 /\ i # n + 1
  OBVIOUS
<1> QED BY <1>1, <1>2 DEF At

(* The amounts withdrawn among them. *)
LEMMA AmountsGrow ==
  ASSUME NEW lg, NEW n \in Nat, NEW s, \A i \in 1..(n + 1) : lg[i].value \in Nat
  PROVE  /\ SumTo(Amounts(lg, n, s), n) \in Nat
         /\ SumTo(Amounts(lg, n + 1, s), n + 1) = SumTo(Amounts(lg, n, s), n) + Drawn(lg, s, n + 1)
<1>0. n + 1 \in 1..(n + 1) /\ \A i \in 1..n : i \in 1..(n + 1)
  OBVIOUS
<1>1. \A i \in 1..(n + 1) : Drawn(lg, s, i) \in Nat
  BY DEF Drawn
<1>2. Amounts(lg, n, s) \in [1..n -> Nat] /\ Amounts(lg, n + 1, s) \in [1..(n + 1) -> Nat]
  BY <1>0, <1>1 DEF Amounts
<1>3. \A i \in 1..n : Amounts(lg, n + 1, s)[i] = Amounts(lg, n, s)[i]
  BY <1>0 DEF Amounts
<1>4. Amounts(lg, n + 1, s)[n + 1] = Drawn(lg, s, n + 1)
  BY <1>0 DEF Amounts
<1>5. SumTo(Amounts(lg, n + 1, s), n + 1) = SumTo(Amounts(lg, n, s), n) + Amounts(lg, n + 1, s)[n + 1]
  BY <1>2, <1>3, SumAppend
<1> QED BY <1>2, <1>4, <1>5, SumNat

(* One more event, and the log tells the record it leads to.                 *)
LEMMA TellsMore ==
  ASSUME NEW lg, NEW n \in Nat, \A i \in 1..(n + 1) : lg[i] \in LogEvent,
         NEW s, NEW c \in ChainRecord, NEW d \in ChainRecord,
         EvolvesFor(s, lg[n + 1], c, d), Tells(lg, n, s, c)
  PROVE  Tells(lg, n + 1, s, d)
<1> DEFINE e == lg[n + 1]
           A(types) == At(lg, n, s, types)
           B(types) == At(lg, n + 1, s, types)
<1>1. e \in LogEvent /\ n + 1 \in 1..(n + 1) /\ Deposit \in Nat /\ \A i \in 1..n : i \in 1..(n + 1)
  BY ChainAssumption
<1>2. SumTo(Amounts(lg, n + 1, s), n + 1) = SumTo(Amounts(lg, n, s), n) + Drawn(lg, s, n + 1)
      /\ SumTo(Amounts(lg, n, s), n) \in Nat
  <2>1. \A i \in 1..(n + 1) : lg[i].value \in Nat
    BY DEF LogEvent
  <2> QED BY <2>1, AmountsGrow
<1>3. ASSUME NEW types
      PROVE  /\ e.stream # s \/ e.type \notin types => B(types) = A(types)
             /\ e.stream = s /\ e.type \in types => B(types) = A(types) \cup {n + 1}
             /\ \A i \in A(types) : i \in 1..n /\ i < n + 1
  BY AtGrows
<1>4. c.kind = "none" => c = Unopened /\ \A i \in 1..n : lg[i].stream = s => lg[i].type = "fee_collected"
  BY DEF Tells
<1>5. c.kind = "Linear" => /\ TellsOpening(lg, n, s, c)
                           /\ c.is_active => TellsLife(lg, n, s, c)
                           /\ ~c.is_active => TellsEnd(lg, n, s, c)
  BY DEF Tells
<1>6. d.kind \in {"none", "Linear", "StepTranches"} /\ d.is_active \in BOOLEAN /\ d.paused \in BOOLEAN
      /\ c.is_active \in BOOLEAN /\ c.paused \in BOOLEAN /\ c.withdrawn \in Nat /\ d.withdrawn \in Nat
      /\ c.deposited \in Nat /\ d.deposited \in Nat
  BY DEF ChainRecord
<1> HIDE DEF A, B
<1>7. CASE d = c /\ (e.stream # s \/ e.type \notin RowTypes) /\ (c.kind = "none" /\ e.stream = s => e.type = "fee_collected")
  <2>1. \A types \in SUBSET RowTypes : B(types) = A(types)
    BY <1>3, <1>7
  <2>2. {"stream_created"} \in SUBSET RowTypes /\ {"stream_topped_up"} \in SUBSET RowTypes
        /\ EndTypes \in SUBSET RowTypes /\ PauseTypes \in SUBSET RowTypes /\ RowTypes \in SUBSET RowTypes
    BY DEF RowTypes
  <2>3. Drawn(lg, s, n + 1) = 0
    BY <1>7 DEF Drawn, RowTypes
  <2>4. SumTo(Amounts(lg, n + 1, s), n + 1) = SumTo(Amounts(lg, n, s), n)
    BY <1>2, <2>3
  <2>5. c.kind = "Linear" => TellsOpening(lg, n + 1, s, c)
    BY <1>1, <1>5, <2>1, <2>2 DEF TellsOpening, A, B
  <2>6. c.kind = "Linear" /\ c.is_active => TellsLife(lg, n + 1, s, c)
    BY <1>1, <1>5, <2>1, <2>2, <2>4 DEF TellsLife, A, B
  <2>7. c.kind = "Linear" /\ ~c.is_active => TellsEnd(lg, n + 1, s, c)
    BY <1>1, <1>5, <2>1, <2>2 DEF TellsEnd, A, B
  <2>8. c.kind = "none" => \A i \in 1..(n + 1) : lg[i].stream = s => lg[i].type = "fee_collected"
    <3> SUFFICES ASSUME c.kind = "none", NEW i \in 1..(n + 1), lg[i].stream = s PROVE lg[i].type = "fee_collected"
      OBVIOUS
    <3>1. i \in 1..n \/ i = n + 1
      OBVIOUS
    <3> QED BY <1>4, <1>7, <3>1
  <2> QED BY <1>4, <1>7, <2>5, <2>6, <2>7, <2>8 DEF Tells
<1>8. CASE d.kind = "StepTranches"
  BY <1>8 DEF Tells
<1>9. CASE e.stream = s /\ e.type = "stream_created" /\ e.value = Deposit /\ c = Unopened /\ d = Opened("Linear")
  <2>1. /\ d.kind = "Linear" /\ d.deposited = Deposit /\ d.withdrawn = 0 /\ d.is_active /\ ~d.paused
        /\ c.kind = "none"
    BY <1>9 DEF Opened, Unopened
  <2>2. \A i \in 1..n : lg[i].stream = s => lg[i].type = "fee_collected"
    BY <1>4, <2>1
  <2>3. A({"stream_created"}) = {} /\ A({"stream_topped_up"}) = {} /\ A(EndTypes) = {} /\ A(PauseTypes) = {}
        /\ A(RowTypes) = {}
    BY <2>2 DEF A, At, EndTypes, PauseTypes, RowTypes
  <2>4. B({"stream_created"}) = {n + 1} /\ B({"stream_topped_up"}) = {} /\ B(EndTypes) = {} /\ B(PauseTypes) = {}
        /\ B(RowTypes) = {n + 1}
    BY <1>3, <1>9, <2>3 DEF EndTypes, PauseTypes, RowTypes
  <2>5. SumTo(Amounts(lg, n + 1, s), n + 1) = 0
    <3>1. \A i \in 1..n : Amounts(lg, n, s)[i] = 0 /\ Drawn(lg, s, i) = 0
      BY <2>2 DEF Amounts, Drawn
    <3>2. Amounts(lg, n, s) \in [1..n -> Int]
      BY <3>1 DEF Amounts
    <3>3. SumTo(Amounts(lg, n, s), n) = 0
      BY <3>1, <3>2, SumZero
    <3>4. Drawn(lg, s, n + 1) = 0
      BY <1>9 DEF Drawn
    <3> QED BY <1>2, <3>3, <3>4
  <2>6. TellsOpening(lg, n + 1, s, d)
    BY <1>1, <1>9, <2>1, <2>4 DEF TellsOpening, B
  <2>7. TellsLife(lg, n + 1, s, d)
    BY <2>1, <2>4, <2>5 DEF TellsLife, B
  <2> QED BY <2>1, <2>6, <2>7 DEF Tells
<1>10. CASE /\ e.stream = s /\ c.kind = "Linear" /\ c.is_active /\ d.kind = "Linear"
            /\ e.type = "stream_topped_up" /\ e.value = Deposit + 1 /\ c.deposited = Deposit
            /\ d.deposited = Deposit + 1 /\ d.withdrawn = c.withdrawn /\ d.paused = c.paused /\ d.is_active
  <2>1. TellsOpening(lg, n, s, c) /\ TellsLife(lg, n, s, c)
    BY <1>5, <1>10
  <2>2. A({"stream_topped_up"}) = {}
    BY <1>1, <1>10, <2>1 DEF TellsOpening, A
  <2>3. /\ B({"stream_created"}) = A({"stream_created"}) /\ B({"stream_topped_up"}) = {n + 1}
        /\ B(EndTypes) = A(EndTypes) /\ B(PauseTypes) = A(PauseTypes) /\ B(RowTypes) = A(RowTypes) \cup {n + 1}
    BY <1>3, <1>10, <2>2 DEF EndTypes, PauseTypes, RowTypes
  <2>4. SumTo(Amounts(lg, n + 1, s), n + 1) = SumTo(Amounts(lg, n, s), n)
    <3>1. Drawn(lg, s, n + 1) = 0
      BY <1>10 DEF Drawn
    <3> QED BY <1>2, <3>1
  <2>5. TellsOpening(lg, n + 1, s, d)
    <3>1. PICK k \in 1..n : /\ A({"stream_created"}) = {k} /\ lg[k].value = Deposit
                            /\ \A i \in A(RowTypes) : k <= i
      BY <2>1 DEF TellsOpening, A
    <3>2. k \in 1..(n + 1) /\ k <= n + 1
      OBVIOUS
    <3>3. \A i \in B(RowTypes) : k <= i
      BY <2>3, <3>1, <3>2
    <3>4. \A i \in B({"stream_topped_up"}) : lg[i].value = Deposit + 1
      BY <1>10, <2>3
    <3>5. B({"stream_topped_up"}) # {}
      BY <2>3
    <3> QED BY <1>10, <2>3, <3>1, <3>2, <3>3, <3>4, <3>5 DEF TellsOpening, B
  <2>6. TellsLife(lg, n + 1, s, d)
    BY <1>10, <2>1, <2>3, <2>4 DEF TellsLife, A, B
  <2> QED BY <1>10, <2>5, <2>6 DEF Tells
<1>11. ASSUME c.kind = "Linear", c.is_active, e.stream = s, e.type \in RowTypes \ {"stream_created", "stream_topped_up"},
              d.deposited = c.deposited
       PROVE  TellsOpening(lg, n + 1, s, d)
  <2>1. TellsOpening(lg, n, s, c)
    BY <1>5, <1>11
  <2>2. /\ B({"stream_created"}) = A({"stream_created"}) /\ B({"stream_topped_up"}) = A({"stream_topped_up"})
        /\ B(RowTypes) = A(RowTypes) \cup {n + 1}
    BY <1>3, <1>11
  <2>3. PICK k \in 1..n : /\ A({"stream_created"}) = {k} /\ lg[k].value = Deposit
                          /\ \A i \in A(RowTypes) : k <= i
    BY <2>1 DEF TellsOpening, A
  <2>4. k \in 1..(n + 1) /\ k <= n + 1
    OBVIOUS
  <2>5. \A i \in B(RowTypes) : k <= i
    BY <2>2, <2>3, <2>4
  <2> QED BY <1>11, <2>1, <2>2, <2>3, <2>4, <2>5 DEF TellsOpening, A, B
<1>12. CASE /\ e.stream = s /\ c.kind = "Linear" /\ c.is_active /\ d.kind = "Linear"
            /\ e.type = "tokens_withdrawn" /\ d.withdrawn = c.withdrawn + e.value
            /\ d.deposited = c.deposited /\ d.paused = c.paused /\ d.is_active
  <2>1. TellsLife(lg, n, s, c) /\ TellsOpening(lg, n + 1, s, d)
    BY <1>5, <1>11, <1>12 DEF RowTypes
  <2>2. B(EndTypes) = A(EndTypes) /\ B(PauseTypes) = A(PauseTypes)
    BY <1>3, <1>12 DEF EndTypes, PauseTypes
  <2>3. Drawn(lg, s, n + 1) = e.value
    BY <1>12 DEF Drawn
  <2>4. TellsLife(lg, n + 1, s, d)
    BY <1>2, <1>12, <2>1, <2>2, <2>3 DEF TellsLife, A, B
  <2> QED BY <1>12, <2>1, <2>4 DEF Tells
<1>13. CASE /\ e.stream = s /\ c.kind = "Linear" /\ c.is_active /\ d.kind = "Linear"
            /\ e.type \in EndTypes /\ d.withdrawn = e.value /\ d.deposited = c.deposited /\ ~d.is_active
  <2>1. TellsLife(lg, n, s, c) /\ TellsOpening(lg, n + 1, s, d)
    BY <1>5, <1>11, <1>13 DEF RowTypes, EndTypes
  <2>2. A(EndTypes) = {}
    BY <2>1 DEF TellsLife, A
  <2>3. B(EndTypes) = {n + 1} /\ B(RowTypes) = A(RowTypes) \cup {n + 1}
    BY <1>3, <1>13, <2>2 DEF RowTypes
  <2>4. \A i \in B(RowTypes) : i <= n + 1
    BY <1>3, <2>3
  <2>5. TellsEnd(lg, n + 1, s, d)
    BY <1>1, <1>13, <2>3, <2>4 DEF TellsEnd, B
  <2> QED BY <1>13, <2>1, <2>5 DEF Tells
<1>14. CASE /\ e.stream = s /\ c.kind = "Linear" /\ c.is_active /\ d.kind = "Linear"
            /\ e.type \in PauseTypes /\ (d.paused <=> e.type = "stream_paused")
            /\ d.deposited = c.deposited /\ d.withdrawn = c.withdrawn /\ d.is_active
  <2>1. TellsLife(lg, n, s, c) /\ TellsOpening(lg, n + 1, s, d)
    BY <1>5, <1>11, <1>14 DEF RowTypes, PauseTypes
  <2>2. B(EndTypes) = A(EndTypes) /\ B(PauseTypes) = A(PauseTypes) \cup {n + 1}
    BY <1>3, <1>14 DEF EndTypes, PauseTypes
  <2>3. Drawn(lg, s, n + 1) = 0
    BY <1>14 DEF Drawn, PauseTypes
  <2>4. n + 1 \in B(PauseTypes) /\ \A k \in B(PauseTypes) : k <= n + 1
    BY <1>3, <2>2
  <2>5. SumTo(Amounts(lg, n + 1, s), n + 1) = SumTo(Amounts(lg, n, s), n)
    BY <1>2, <2>3
  <2>6. TellsLife(lg, n + 1, s, d)
    BY <1>14, <2>1, <2>2, <2>4, <2>5 DEF TellsLife, A, B
  <2> QED BY <1>14, <2>1, <2>6 DEF Tells
<1>15. EvolvesFor(s, e, c, d)
  OBVIOUS
<1> HIDE DEF e
<1>16. CASE e.stream # s
  BY <1>7, <1>15, <1>16 DEF EvolvesFor
<1>17. CASE e.stream = s
  <2>1. Evolves(e, c, d)
    BY <1>15, <1>17 DEF EvolvesFor
  <2> QED BY <1>7, <1>8, <1>9, <1>10, <1>12, <1>13, <1>14, <1>17, <2>1 DEF Evolves
<1> QED BY <1>16, <1>17

-----------------------------------------------------------------------------
(* The events of a transaction lead the record of stream s from c to d.      *)
IsPath(h, s, es) ==
  \A i \in 1..Len(es) : EvolvesFor(s, es[i], h[i - 1], h[i])

Leads(s, es, c, d) ==
  \E h \in [0..Len(es) -> ChainRecord] : h[0] = c /\ h[Len(es)] = d /\ IsPath(h, s, es)

(* No event leads nowhere.                                                   *)
LEMMA LeadsNone == ASSUME NEW s, NEW c \in ChainRecord PROVE Leads(s, <<>>, c, c)
<1> DEFINE h == [i \in 0..0 |-> c]
<1>1. h \in [0..0 -> ChainRecord] /\ h[0] = c /\ Len(<<>>) = 0
  OBVIOUS
<1>2. IsPath(h, s, <<>>)
  BY DEF IsPath
<1> QED BY <1>1, <1>2 DEF Leads

(* One event leads where it says.                                            *)
LEMMA LeadsOne ==
  ASSUME NEW s, NEW e, NEW c \in ChainRecord, NEW d \in ChainRecord, EvolvesFor(s, e, c, d)
  PROVE  Leads(s, <<e>>, c, d)
<1> DEFINE h == [i \in 0..1 |-> IF i = 0 THEN c ELSE d]
<1>1. h \in [0..1 -> ChainRecord] /\ h[0] = c /\ h[1] = d /\ Len(<<e>>) = 1 /\ <<e>>[1] = e
  OBVIOUS
<1> HIDE DEF h
<1>2. IsPath(h, s, <<e>>)
  <2> SUFFICES ASSUME NEW i \in 1..1 PROVE EvolvesFor(s, <<e>>[i], h[i - 1], h[i])
    BY <1>1 DEF IsPath
  <2>1. i = 1 /\ i - 1 = 0
    OBVIOUS
  <2> QED BY <1>1, <2>1
<1> QED BY <1>1, <1>2 DEF Leads

(* What two sequences lead to, one after the other.                          *)
LEMMA LeadsOn ==
  ASSUME NEW s, NEW S, NEW es \in Seq(S), NEW fs \in Seq(S), NEW c, NEW m, NEW d,
         Leads(s, es, c, m), Leads(s, fs, m, d)
  PROVE  Leads(s, es \o fs, c, d)
<1>1. PICK g \in [0..Len(es) -> ChainRecord] : g[0] = c /\ g[Len(es)] = m /\ IsPath(g, s, es)
  BY DEF Leads
<1>2. PICK h \in [0..Len(fs) -> ChainRecord] : h[0] = m /\ h[Len(fs)] = d /\ IsPath(h, s, fs)
  BY DEF Leads
<1> DEFINE n == Len(es)
           l == Len(fs)
           gs == es \o fs
           p == [i \in 0..(n + l) |-> IF i <= n THEN g[i] ELSE h[i - n]]
<1>3. /\ n \in Nat /\ l \in Nat /\ gs \in Seq(S) /\ Len(gs) = n + l
      /\ \A i \in 1..(n + l) : gs[i] = IF i <= n THEN es[i] ELSE fs[i - n]
  BY ConcatProperties
<1>4. p \in [0..(n + l) -> ChainRecord]
  <2> SUFFICES ASSUME NEW i \in 0..(n + l) PROVE (IF i <= n THEN g[i] ELSE h[i - n]) \in ChainRecord
    OBVIOUS
  <2>1. CASE i <= n
    <3>1. i \in 0..n
      BY <1>3, <2>1
    <3> QED BY <1>1, <2>1, <3>1
  <2>2. CASE ~(i <= n)
    <3>1. i - n \in 0..l
      BY <1>3, <2>2
    <3> QED BY <1>2, <2>2, <3>1
  <2> QED BY <2>1, <2>2
<1>5. p[0] = c /\ p[n + l] = d
  <2>1. 0 \in 0..(n + l) /\ n + l \in 0..(n + l) /\ 0 <= n
    BY <1>3
  <2>2. CASE l = 0
    BY <1>1, <1>2, <1>3, <2>1, <2>2
  <2>3. CASE l # 0
    <3>1. ~(n + l <= n) /\ (n + l) - n = l
      BY <1>3, <2>3
    <3> QED BY <1>1, <1>2, <2>1, <3>1
  <2> QED BY <2>2, <2>3
<1>6. IsPath(p, s, gs)
  <2> SUFFICES ASSUME NEW i \in 1..(n + l) PROVE EvolvesFor(s, gs[i], p[i - 1], p[i])
    BY <1>3 DEF IsPath
  <2>1. i \in 0..(n + l) /\ i - 1 \in 0..(n + l)
    BY <1>3
  <2>2. CASE i <= n
    <3>1. i \in 1..n /\ i - 1 <= n
      BY <1>3, <2>2
    <3>2. EvolvesFor(s, es[i], g[i - 1], g[i])
      BY <1>1, <3>1 DEF IsPath
    <3>3. p[i] = g[i] /\ p[i - 1] = g[i - 1] /\ gs[i] = es[i]
      BY <1>3, <2>1, <2>2, <3>1
    <3> QED BY <3>2, <3>3
  <2>3. CASE ~(i <= n)
    <3>1. i - n \in 1..l /\ (i - 1) - n = (i - n) - 1
      BY <1>3, <2>3
    <3>2. EvolvesFor(s, fs[i - n], h[(i - n) - 1], h[i - n])
      BY <1>2, <3>1 DEF IsPath
    <3>3. p[i] = h[i - n] /\ gs[i] = fs[i - n]
      BY <1>3, <2>1, <2>3
    <3>4. p[i - 1] = h[(i - n) - 1]
      <4>1. CASE i - 1 <= n
        <5>1. i - 1 = n /\ (i - n) - 1 = 0
          BY <1>3, <2>3, <4>1
        <5>2. p[i - 1] = g[n]
          BY <2>1, <4>1, <5>1
        <5> QED BY <1>1, <1>2, <5>1, <5>2
      <4>2. CASE ~(i - 1 <= n)
        BY <2>1, <3>1, <4>2
      <4> QED BY <4>1, <4>2
    <3> QED BY <3>2, <3>3, <3>4
  <2> QED BY <2>2, <2>3
<1> HIDE DEF p, gs
<1> QED BY <1>3, <1>4, <1>5, <1>6 DEF Leads, gs

(* Logs that agree tell the same.                                            *)
LEMMA TellsAlike ==
  ASSUME NEW lg, NEW l2, NEW n \in Nat, \A i \in 1..n : l2[i] = lg[i], NEW s, NEW c, Tells(lg, n, s, c)
  PROVE  Tells(l2, n, s, c)
<1>1. \A types : At(l2, n, s, types) = At(lg, n, s, types)
  BY DEF At
<1>2. Amounts(l2, n, s) = Amounts(lg, n, s)
  BY DEF Amounts, Drawn
<1>3. c.kind = "Linear" /\ TellsOpening(lg, n, s, c) => TellsOpening(l2, n, s, c)
  <2>1. \A i \in At(lg, n, s, {"stream_topped_up"}) : i \in 1..n
    BY DEF At
  <2> QED BY <1>1, <2>1 DEF TellsOpening
<1>4. TellsLife(lg, n, s, c) => TellsLife(l2, n, s, c)
  <2>1. \A i \in At(lg, n, s, PauseTypes) : i \in 1..n
    BY DEF At
  <2> QED BY <1>1, <1>2, <2>1 DEF TellsLife
<1>5. TellsEnd(lg, n, s, c) => TellsEnd(l2, n, s, c)
  BY <1>1 DEF TellsEnd
<1> QED BY <1>3, <1>4, <1>5 DEF Tells

(* A transaction is published: what the log tells follows its events.        *)
LEMMA PublishTells ==
  ASSUME LogOK(log), NEW es \in Seq(Fresh), Publish(es), NEW s, NEW c, NEW d,
         Leads(s, es, c, d), Tells(log, Len(log), s, c)
  PROVE  Tells(log', Len(log'), s, d)
<1> DEFINE n == Len(log)
           l == Len(es)
<1>1. PICK h \in [0..l -> ChainRecord] : h[0] = c /\ h[l] = d /\ IsPath(h, s, es)
  BY DEF Leads
<1>2. log \in Seq(LogEvent) /\ es \in Seq(LogEvent) /\ n \in Nat /\ l \in Nat
  BY DEF LogOK, Fresh
<1>3. /\ log' \in Seq(LogEvent) /\ Len(log') = n + l
      /\ \A i \in 1..(n + l) : log'[i] = IF i <= n THEN log[i] ELSE es[i - n]
  BY <1>2, ConcatProperties DEF Publish
<1>4. \A i \in 1..(n + l) : log'[i] \in LogEvent
  BY <1>3
<1> DEFINE S == {k \in Nat : k <= l => Tells(log', n + k, s, h[k])}
<1>5. 0 \in S
  <2>1. \A i \in 1..n : log'[i] = log[i]
    BY <1>2, <1>3
  <2>2. Tells(log', n, s, c)
    BY <1>2, <2>1, TellsAlike
  <2>3. n + 0 = n
    BY <1>2
  <2> QED BY <1>1, <2>2, <2>3
<1>6. ASSUME NEW k \in S PROVE k + 1 \in S
  <2> SUFFICES ASSUME k + 1 <= l PROVE Tells(log', n + (k + 1), s, h[k + 1])
    OBVIOUS
  <2>1. /\ k \in Nat /\ k <= l /\ k \in 0..l /\ k + 1 \in 1..l /\ k + 1 \in 0..l /\ (k + 1) - 1 = k
        /\ n + (k + 1) = (n + k) + 1 /\ n + k \in Nat /\ (n + k) + 1 \in 1..(n + l)
        /\ ~((n + k) + 1 <= n) /\ ((n + k) + 1) - n = k + 1
    BY <1>2
  <2>2. Tells(log', n + k, s, h[k]) /\ h[k] \in ChainRecord /\ h[k + 1] \in ChainRecord
    BY <2>1
  <2>3. log'[(n + k) + 1] = es[k + 1]
    BY <1>3, <2>1
  <2>4. EvolvesFor(s, log'[(n + k) + 1], h[k], h[k + 1])
    BY <1>1, <2>1, <2>3 DEF IsPath
  <2>5. \A i \in 1..((n + k) + 1) : log'[i] \in LogEvent
    BY <1>2, <1>4, <2>1
  <2>6. Tells(log', (n + k) + 1, s, h[k + 1])
    BY <2>1, <2>2, <2>4, <2>5, TellsMore
  <2> QED BY <2>1, <2>6
<1>7. S = Nat
  <2>1. S \in SUBSET Nat
    OBVIOUS
  <2> HIDE DEF S
  <2> QED BY <1>5, <1>6, <2>1, SetInduction
<1>8. l \in S
  BY <1>2, <1>7
<1> QED BY <1>1, <1>2, <1>3, <1>8

(* Its events keep the keys apart if they do among themselves.               *)
Apart(es) ==
  /\ \A i, k \in 1..Len(es) : es[i].type = es[k].type /\ es[i].stream = es[k].stream => i = k
  /\ \A i \in 1..Len(es) : es[i].stream \in Streams => es[i].inSuccessfulContractCall

(* A transaction whose events are apart keeps the keys of the log apart.     *)
LEMMA PublishKeys ==
  ASSUME LogOK(log), LogKeys(log), NEW es \in Seq(Fresh), Publish(es), Apart(es)
  PROVE  LogKeys(log')
<1> DEFINE n == Len(log)
           l == Len(es)
           x == NextTx(log)
<1>2. log \in Seq(LogEvent) /\ es \in Seq(LogEvent) /\ n \in Nat /\ l \in Nat
      /\ \A i \in 1..l : es[i].tx = x
  BY DEF LogOK, Fresh, next_tx, NextTx
<1>3. /\ log' \in Seq(LogEvent) /\ Len(log') = n + l
      /\ \A i \in 1..(n + l) : log'[i] = IF i <= n THEN log[i] ELSE es[i - n]
  BY <1>2, ConcatProperties DEF Publish
<1>4. /\ x \in Nat \ {0}
      /\ \A i \in 1..n : log[i].tx \in Nat /\ log[i].tx < x
  BY TxBounds
<1> HIDE DEF x
<1>5. ASSUME NEW i \in 1..(n + l)
      PROVE  \/ i <= n /\ i \in 1..n /\ log'[i] = log[i] /\ log'[i].tx # x
             \/ ~(i <= n) /\ i - n \in 1..l /\ log'[i] = es[i - n] /\ log'[i].tx = x
  <2>1. CASE i <= n
    <3>1. i \in 1..n /\ log'[i] = log[i]
      BY <1>2, <1>3, <2>1
    <3> QED BY <1>4, <2>1, <3>1
  <2>2. CASE ~(i <= n)
    <3>1. i - n \in 1..l /\ log'[i] = es[i - n]
      BY <1>2, <1>3, <2>2
    <3> QED BY <1>2, <2>2, <3>1
  <2> QED BY <2>1, <2>2
<1>6. ASSUME NEW i \in 1..(n + l), NEW k \in 1..(n + l),
             log'[i].tx = log'[k].tx, log'[i].type = log'[k].type, log'[i].stream = log'[k].stream
      PROVE  i = k
  <2>1. CASE i <= n
    BY <1>5, <1>6, <2>1 DEF LogKeys
  <2>2. CASE ~(i <= n)
    <3>1. i - n \in 1..l /\ log'[i] = es[i - n] /\ k - n \in 1..l /\ log'[k] = es[k - n]
      BY <1>5, <1>6, <2>2
    <3>2. i - n = k - n
      BY <1>6, <3>1 DEF Apart
    <3> QED BY <1>2, <3>2
  <2> QED BY <2>1, <2>2
<1>7. ASSUME NEW i \in 1..(n + l), log'[i].stream \in Streams PROVE log'[i].inSuccessfulContractCall
  BY <1>5, <1>7 DEF LogKeys, Apart
<1> QED BY <1>3, <1>6, <1>7 DEF LogKeys

-----------------------------------------------------------------------------
(* Sequences of one and of two events.                                       *)
LEMMA OneAndTwo ==
  ASSUME NEW S, NEW e \in S, NEW f \in S
  PROVE  /\ <<e>> \in Seq(S) /\ <<e, f>> \in Seq(S)
         /\ <<e>> \o <<>> = <<e>> /\ <<e>> \o <<f>> = <<e, f>>
<1>1. <<e>> \in Seq(S) /\ <<f>> \in Seq(S) /\ <<e, f>> \in Seq(S)
  OBVIOUS
<1>2. Len(<<e>>) = 1 /\ Len(<<f>>) = 1 /\ Len(<<e, f>>) = 2 /\ <<e>>[1] = e /\ <<f>>[1] = f
      /\ <<e, f>>[1] = e /\ <<e, f>>[2] = f
  OBVIOUS
<1>3. PICK u : u = <<e>> \o <<f>>
  OBVIOUS
<1>4. u \in Seq(S) /\ Len(u) = 2 /\ u[1] = e /\ u[2] = f
  <2>1. /\ u \in Seq(S) /\ Len(u) = Len(<<e>>) + Len(<<f>>)
        /\ \A i \in 1..(Len(<<e>>) + Len(<<f>>)) : u[i] = IF i <= Len(<<e>>) THEN <<e>>[i] ELSE <<f>>[i - Len(<<e>>)]
    BY <1>1, <1>3, ConcatProperties
  <2>2. Len(<<e>>) + Len(<<f>>) = 2 /\ 1 \in 1..2 /\ 2 \in 1..2 /\ 1 <= 1 /\ ~(2 <= 1) /\ 2 - 1 = 1
    BY <1>2
  <2> QED BY <1>2, <2>1, <2>2
<1>5. \A i \in 1..2 : i = 1 \/ i = 2
  OBVIOUS
<1>6. u = <<e, f>>
  BY <1>1, <1>2, <1>4, <1>5, SeqEqual
<1>7. <<e>> \o <<>> = <<e>>
  BY <1>1, ConcatEmptySeq
<1> QED BY <1>1, <1>3, <1>6, <1>7

(* A withdrawal leads its stream on, and leaves the others alone.            *)
LEMMA WithdrawalLeads ==
  ASSUME ChainOK, NEW s \in Streams, chain[s].kind # "none", NEW amount \in Claimable(s), NEW t \in Streams
  PROVE  LET d == IF t = s THEN Withdrawn(chain[s], amount) ELSE chain[t]
         IN  Leads(t, WithdrawalEvents(s, amount), chain[t], d)
<1> DEFINE c == chain[s]
           w == Withdrawn(c, amount)
           m == [c EXCEPT !.withdrawn = c.withdrawn + amount]
           e == Event("tokens_withdrawn", s, amount)
           f == Event("stream_completed", s, w.withdrawn)
           d == IF t = s THEN w ELSE chain[t]
           mt == IF t = s THEN m ELSE chain[t]
           es == WithdrawalEvents(s, amount)
<1>1. c \in ChainRecord /\ chain[t] \in ChainRecord
  BY DEF ChainOK
<1>2. w \in ChainRecord /\ es \in Seq(Fresh)
  BY WithdrawalOK
<1>3. c.withdrawn \in Nat /\ c.deposited \in Nat /\ c.is_active
  BY <1>1 DEF ChainRecord, Claimable
<1>4. amount \in Nat
  BY <1>3 DEF Claimable
<1>5. m \in ChainRecord /\ m.withdrawn = c.withdrawn + amount /\ m.is_active /\ m.kind = c.kind
      /\ m.deposited = c.deposited /\ m.paused = c.paused
  <2>1. c.withdrawn + amount \in Nat
    BY <1>3, <1>4
  <2> QED BY <1>1, <1>3, <2>1 DEF ChainRecord
<1>6. /\ w.withdrawn = c.withdrawn + amount /\ w.kind = c.kind /\ w.deposited = c.deposited /\ w.paused = c.paused
      /\ w = [c EXCEPT !.withdrawn = c.withdrawn + amount, !.is_active = c.withdrawn + amount < c.deposited]
  BY <1>1 DEF Withdrawn, ChainRecord
<1>7. w.is_active => w = m
  BY <1>1, <1>3, <1>6 DEF ChainRecord
<1>8. /\ e.type = "tokens_withdrawn" /\ e.stream = s /\ e.value = amount
      /\ f.type = "stream_completed" /\ f.stream = s /\ f.value = w.withdrawn
  BY DEF Event
<1>9. c.kind \in {"none", "Linear", "StepTranches"} /\ w.is_active \in BOOLEAN
  BY <1>1, <1>2 DEF ChainRecord
<1>10. es = <<e>> \o IF w.is_active THEN <<>> ELSE <<f>>
  BY DEF WithdrawalEvents
<1>11. e \in Fresh /\ f \in Fresh
  <2>1. s \in Nat /\ w.withdrawn \in Nat /\ LogOK(log)
    BY <1>3, <1>4, <1>6, StreamsAssumption DEF ChainOK
  <2> HIDE DEF w
  <2> QED BY <1>4, <2>1, EventOK DEF EventTypes
<1>12. c.kind # "none"
  OBVIOUS
<1>13. Leads(t, es, chain[t], d)
  <2> HIDE DEF c, w, m, e, f, es
  <2>1. mt \in ChainRecord /\ d \in ChainRecord
    BY <1>1, <1>2, <1>5
  <2>2. EvolvesFor(t, e, chain[t], mt)
    BY <1>3, <1>5, <1>8, <1>9, <1>12 DEF EvolvesFor, Evolves, c
  <2>3. ASSUME ~w.is_active PROVE EvolvesFor(t, f, mt, d)
    BY <1>5, <1>6, <1>8, <1>9, <1>12, <2>3 DEF EvolvesFor, Evolves, EndTypes
  <2>4. w.is_active => d = mt
    BY <1>7
  <2> HIDE DEF d, mt
  <2>5. Leads(t, <<e>>, chain[t], mt)
    BY <1>1, <2>1, <2>2, LeadsOne
  <2>6. Leads(t, IF w.is_active THEN <<>> ELSE <<f>>, mt, d)
    <3>1. CASE w.is_active
      BY <2>1, <2>4, <3>1, LeadsNone
    <3>2. CASE ~w.is_active
      BY <2>1, <2>3, <3>2, LeadsOne
    <3> QED BY <3>1, <3>2
  <2>7. <<e>> \in Seq(Fresh) /\ (IF w.is_active THEN <<>> ELSE <<f>>) \in Seq(Fresh)
    BY <1>11
  <2>8. Leads(t, <<e>> \o IF w.is_active THEN <<>> ELSE <<f>>, chain[t], d)
    BY <2>5, <2>6, <2>7, LeadsOn
  <2> QED BY <1>10, <2>8
<1> QED BY <1>13 DEF c, d, w, es

(* Its events bear different types.                                          *)
LEMMA WithdrawalApart ==
  ASSUME NEW s \in Streams, NEW amount
  PROVE  LET es == WithdrawalEvents(s, amount) IN
         /\ Len(es) \in 1..2 /\ Apart(es)
         /\ \A i \in 1..Len(es) : es[i].stream = s /\ es[i].inSuccessfulContractCall
<1> DEFINE w == Withdrawn(chain[s], amount)
           e == Event("tokens_withdrawn", s, amount)
           f == Event("stream_completed", s, w.withdrawn)
           es == WithdrawalEvents(s, amount)
<1>1. /\ e.type = "tokens_withdrawn" /\ e.stream = s /\ e.inSuccessfulContractCall
      /\ f.type = "stream_completed" /\ f.stream = s /\ f.inSuccessfulContractCall
  BY DEF Event
<1>2. es = <<e>> \o IF w.is_active THEN <<>> ELSE <<f>>
  BY DEF WithdrawalEvents
<1> HIDE DEF e, f, w, es
<1>3. es = <<e>> \/ es = <<e, f>>
  <2>1. e \in {e, f} /\ f \in {e, f}
    OBVIOUS
  <2> QED BY <1>2, <2>1, OneAndTwo
<1>4. CASE es = <<e>>
  <2>1. Len(es) = 1 /\ \A i \in 1..1 : i = 1 /\ es[i] = e
    BY <1>4
  <2> QED BY <1>1, <2>1 DEF Apart, es
<1>5. CASE es = <<e, f>>
  <2>1. Len(es) = 2 /\ es[1] = e /\ es[2] = f /\ \A i \in 1..2 : i = 1 \/ i = 2
    BY <1>5
  <2>2. Apart(es)
    BY <1>1, <2>1 DEF Apart
  <2>3. \A i \in 1..Len(es) : es[i].stream = s /\ es[i].inSuccessfulContractCall
    BY <1>1, <2>1
  <2> QED BY <2>1, <2>2, <2>3 DEF es
<1> QED BY <1>3, <1>4, <1>5

(* Of two streams, they are apart.                                           *)
LEMMA BatchApart ==
  ASSUME NEW S, NEW es \in Seq(S), NEW fs \in Seq(S), Apart(es), Apart(fs), NEW s1, NEW s2, s1 # s2,
         \A i \in 1..Len(es) : es[i].stream = s1,
         \A i \in 1..Len(fs) : fs[i].stream = s2
  PROVE  Apart(es \o fs)
<1> DEFINE n == Len(es)
           l == Len(fs)
           gs == es \o fs
<1>1. /\ n \in Nat /\ l \in Nat /\ Len(gs) = n + l
      /\ \A i \in 1..(n + l) : gs[i] = IF i <= n THEN es[i] ELSE fs[i - n]
  BY ConcatProperties
<1>2. ASSUME NEW i \in 1..(n + l)
      PROVE  \/ i <= n /\ i \in 1..n /\ gs[i] = es[i] /\ gs[i].stream = s1
             \/ ~(i <= n) /\ i - n \in 1..l /\ gs[i] = fs[i - n] /\ gs[i].stream = s2
  <2>1. CASE i <= n
    <3>1. i \in 1..n /\ gs[i] = es[i]
      BY <1>1, <2>1
    <3> QED BY <2>1, <3>1
  <2>2. CASE ~(i <= n)
    <3>1. i - n \in 1..l /\ gs[i] = fs[i - n]
      BY <1>1, <2>2
    <3> QED BY <2>2, <3>1
  <2> QED BY <2>1, <2>2
<1> HIDE DEF gs
<1>3. ASSUME NEW i \in 1..(n + l), NEW k \in 1..(n + l), gs[i].type = gs[k].type, gs[i].stream = gs[k].stream
      PROVE  i = k
  <2>1. CASE i <= n
    <3>1. i \in 1..n /\ gs[i] = es[i] /\ k \in 1..n /\ gs[k] = es[k]
      BY <1>2, <1>3, <2>1
    <3> QED BY <1>3, <3>1 DEF Apart
  <2>2. CASE ~(i <= n)
    <3>1. i - n \in 1..l /\ gs[i] = fs[i - n] /\ k - n \in 1..l /\ gs[k] = fs[k - n]
      BY <1>2, <1>3, <2>2
    <3>2. i - n = k - n
      BY <1>3, <3>1 DEF Apart
    <3> QED BY <1>1, <3>2
  <2> QED BY <2>1, <2>2
<1>4. ASSUME NEW i \in 1..(n + l), gs[i].stream \in Streams PROVE gs[i].inSuccessfulContractCall
  BY <1>2, <1>4 DEF Apart
<1>5. Apart(gs)
  BY <1>1, <1>3, <1>4 DEF Apart
<1> QED BY <1>5 DEF gs

(* A single event is apart from nothing.                                     *)
LEMMA OneApart ==
  ASSUME NEW e, e.stream \in Streams => e.inSuccessfulContractCall
  PROVE  Apart(<<e>>)
<1>1. Len(<<e>>) = 1 /\ \A i \in 1..1 : i = 1 /\ <<e>>[i] = e
  OBVIOUS
<1> QED BY <1>1 DEF Apart

(* What the log tells stays true of the ledger.                              *)
LEMMA ChainTells ==
  ASSUME ChainOK, LogTells, ChainNext
  PROVE  LogTells'
<1>0. /\ LogOK(log) /\ LogKeys(log) /\ chain \in [Streams -> ChainRecord] /\ 0 \in Nat /\ 1 \in Nat
      /\ Deposit \in Nat \ {0} /\ Deposit + 1 \in Nat /\ 0 \notin Streams
  BY ChainAssumption, StreamsAssumption DEF ChainOK, LogTells
<1>1. ASSUME NEW es \in Seq(Fresh), Publish(es), Apart(es),
             \A t \in Streams : Leads(t, es, chain[t], chain'[t])
      PROVE  LogTells'
  <2>1. LogKeys(log')
    BY <1>0, <1>1, PublishKeys
  <2>2. ASSUME NEW t \in Streams PROVE Tells(log', Len(log'), t, chain'[t])
    <3>1. Tells(log, Len(log), t, chain[t])
      BY DEF LogTells
    <3>2. Leads(t, es, chain[t], chain'[t])
      BY <1>1
    <3>3. PICK c, d : c = chain[t] /\ d = chain'[t]
      OBVIOUS
    <3>4. Tells(log', Len(log'), t, d)
      BY <1>0, <1>1, <3>1, <3>2, <3>3, PublishTells
    <3> QED BY <3>3, <3>4
  <2> QED BY <2>1, <2>2 DEF LogTells
<1>2. ASSUME NEW e \in Fresh PROVE <<e>> \in Seq(Fresh)
  OBVIOUS
<1>3. ASSUME NEW s \in Streams
      PROVE  /\ s \in Nat /\ chain[s] \in ChainRecord
             /\ chain[s].deposited \in Nat /\ chain[s].withdrawn \in Nat
             /\ chain[s].paused \in BOOLEAN /\ chain[s].is_active \in BOOLEAN
             /\ chain[s].kind = "none" => chain[s] = Unopened
  BY <1>0, StreamsAssumption DEF ChainRecord, LogTells, Tells
<1>4. ASSUME NEW e \in Fresh, Publish(<<e>>), e.stream \in Streams => e.inSuccessfulContractCall,
             NEW s \in Streams, NEW d \in ChainRecord, chain' = [chain EXCEPT ![s] = d],
             Evolves(e, chain[s], d), e.stream = s
      PROVE  LogTells'
  <2>1. ASSUME NEW t \in Streams PROVE Leads(t, <<e>>, chain[t], chain'[t])
    <3>1. chain[t] \in ChainRecord /\ chain'[t] \in ChainRecord
      BY <1>0, <1>4
    <3>2. EvolvesFor(t, e, chain[t], chain'[t])
      BY <1>0, <1>4 DEF EvolvesFor
    <3> QED BY <3>1, <3>2, LeadsOne
  <2> QED BY <1>1, <1>2, <1>4, <2>1, OneApart
<1>5. ASSUME NEW type \in EventTypes, NEW s \in Nat, NEW v \in Nat
      PROVE  /\ Event(type, s, v) \in Fresh /\ Event(type, s, v).type = type /\ Event(type, s, v).stream = s
             /\ Event(type, s, v).value = v /\ Event(type, s, v).inSuccessfulContractCall
  BY <1>0, EventOK DEF Event
<1>6. ASSUME NEW s \in Streams, ChainCreate(s)
      PROVE  LogTells'
  <2>1. chain[s] = Unopened /\ chain' = [chain EXCEPT ![s] = Opened("Linear")]
        /\ Opened("Linear") \in ChainRecord
    BY <1>0, <1>3, <1>6 DEF ChainCreate, Opened, Unopened, ChainRecord
  <2> DEFINE e == Event("stream_created", s, Deposit)
             f == Event("fee_collected", s, 1)
  <2>2. /\ e \in Fresh /\ e.type = "stream_created" /\ e.stream = s /\ e.value = Deposit /\ e.inSuccessfulContractCall
        /\ f \in Fresh /\ f.type = "fee_collected" /\ f.stream = s /\ f.inSuccessfulContractCall
    BY <1>0, <1>3, <1>5 DEF EventTypes
  <2>3. Publish(<<e>>) \/ Publish(<<f, e>>)
    BY <1>6 DEF ChainCreate
  <2>4. Unopened.kind = "none"
    BY DEF Unopened
  <2> HIDE DEF e, f
  <2>5. Evolves(e, Unopened, Opened("Linear")) /\ Evolves(f, Unopened, Unopened)
    BY <2>2, <2>4 DEF Evolves, RowTypes, EndTypes, PauseTypes
  <2>6. CASE Publish(<<e>>)
    BY <1>4, <2>1, <2>2, <2>5, <2>6
  <2>7. CASE Publish(<<f, e>>)
    <3>1. <<f>> \in Seq(Fresh) /\ <<e>> \in Seq(Fresh) /\ <<f, e>> \in Seq(Fresh) /\ <<f>> \o <<e>> = <<f, e>>
      BY <2>2, OneAndTwo
    <3>2. ASSUME NEW t \in Streams PROVE Leads(t, <<f, e>>, chain[t], chain'[t])
      <4>1. chain[t] \in ChainRecord /\ chain'[t] \in ChainRecord
        BY <1>0, <2>1
      <4>2. EvolvesFor(t, f, chain[t], chain[t]) /\ EvolvesFor(t, e, chain[t], chain'[t])
        BY <1>0, <2>1, <2>2, <2>5 DEF EvolvesFor
      <4>3. Leads(t, <<f>>, chain[t], chain[t]) /\ Leads(t, <<e>>, chain[t], chain'[t])
        BY <4>1, <4>2, LeadsOne
      <4>4. Leads(t, <<f>> \o <<e>>, chain[t], chain'[t])
        BY <3>1, <4>3, LeadsOn
      <4> QED BY <3>1, <4>4
    <3>3. Apart(<<f, e>>)
      <4>1. Len(<<f, e>>) = 2 /\ <<f, e>>[1] = f /\ <<f, e>>[2] = e /\ \A i \in 1..2 : i = 1 \/ i = 2
        OBVIOUS
      <4> QED BY <2>2, <4>1 DEF Apart
    <3> QED BY <1>1, <2>7, <3>1, <3>2, <3>3
  <2> QED BY <2>3, <2>6, <2>7
<1>7. ASSUME NEW s \in Streams, ChainCreateMilestones(s)
      PROVE  LogTells'
  <2>1. chain' = [chain EXCEPT ![s] = Opened("StepTranches")] /\ Opened("StepTranches").kind = "StepTranches"
        /\ Opened("StepTranches") \in ChainRecord
    BY <1>0, <1>7 DEF ChainCreateMilestones, Opened, Unopened, ChainRecord
  <2>2. PICK e : e = Event("step_vesting_stream_created", s, Deposit)
    OBVIOUS
  <2>3. e \in Fresh /\ e.stream = s /\ e.inSuccessfulContractCall /\ Publish(<<e>>)
    BY <1>0, <1>3, <1>5, <1>7, <2>2 DEF ChainCreateMilestones, EventTypes
  <2>4. Evolves(e, chain[s], Opened("StepTranches"))
    BY <2>1 DEF Evolves
  <2> QED BY <1>4, <2>1, <2>3, <2>4
<1>8. ASSUME NEW s \in Streams, ChainTopUp(s)
      PROVE  LogTells'
  <2>1. PICK d : d = [chain[s] EXCEPT !.deposited = Deposit + 1]
    OBVIOUS
  <2>2. /\ d \in ChainRecord /\ d.kind = chain[s].kind /\ d.deposited = Deposit + 1 /\ d.withdrawn = chain[s].withdrawn
        /\ d.is_active = chain[s].is_active /\ d.paused = chain[s].paused
    BY <1>0, <1>3, <2>1 DEF ChainRecord
  <2>3. PICK e : e = Event("stream_topped_up", s, Deposit + 1)
    OBVIOUS
  <2>4. /\ e \in Fresh /\ e.stream = s /\ e.inSuccessfulContractCall /\ e.type = "stream_topped_up"
        /\ e.value = Deposit + 1 /\ Publish(<<e>>)
    BY <1>0, <1>3, <1>5, <1>8, <2>3 DEF ChainTopUp, EventTypes
  <2>5. /\ chain' = [chain EXCEPT ![s] = d] /\ chain[s].kind = "Linear" /\ chain[s].is_active
        /\ chain[s].deposited = Deposit
    BY <1>8, <2>1 DEF ChainTopUp
  <2>6. Evolves(e, chain[s], d)
    BY <2>2, <2>4, <2>5 DEF Evolves
  <2> QED BY <1>4, <2>2, <2>4, <2>5, <2>6
<1>9. ASSUME NEW s \in Streams, chain[s].is_active PROVE chain[s].kind # "none"
  BY <1>3, <1>9 DEF Unopened
<1>10. ASSUME NEW s \in Streams, ChainWithdraw(s)
      PROVE  LogTells'
  <2>1. PICK amount \in Claimable(s) : /\ chain' = [chain EXCEPT ![s] = Withdrawn(chain[s], amount)]
                                       /\ Publish(WithdrawalEvents(s, amount))
    BY <1>10 DEF ChainWithdraw
  <2>2. Withdrawn(chain[s], amount) \in ChainRecord /\ WithdrawalEvents(s, amount) \in Seq(Fresh)
    BY WithdrawalOK
  <2>3. chain[s].kind # "none"
    BY <1>9 DEF Claimable
  <2>4. ASSUME NEW t \in Streams PROVE Leads(t, WithdrawalEvents(s, amount), chain[t], chain'[t])
    <3>1. chain'[t] = IF t = s THEN Withdrawn(chain[s], amount) ELSE chain[t]
      BY <1>0, <2>1
    <3> QED BY <2>3, <3>1, WithdrawalLeads
  <2>5. Apart(WithdrawalEvents(s, amount))
    BY WithdrawalApart
  <2> QED BY <1>1, <2>1, <2>2, <2>4, <2>5
<1>11. ASSUME NEW s \in Streams, NEW s2 \in Streams, ChainBatchWithdraw(s, s2)
       PROVE  LogTells'
  <2>1. PICK a1 \in Claimable(s), a2 \in Claimable(s2) :
          /\ chain' = [chain EXCEPT ![s] = Withdrawn(@, a1), ![s2] = Withdrawn(@, a2)]
          /\ Publish(WithdrawalEvents(s, a1) \o WithdrawalEvents(s2, a2))
    BY <1>11 DEF ChainBatchWithdraw
  <2>0. s # s2
    BY <1>11 DEF ChainBatchWithdraw
  <2> DEFINE c1 == Withdrawn(chain[s], a1)
             c2 == Withdrawn(chain[s2], a2)
             es == WithdrawalEvents(s, a1)
             fs == WithdrawalEvents(s2, a2)
  <2>2. c1 \in ChainRecord /\ es \in Seq(Fresh) /\ c2 \in ChainRecord /\ fs \in Seq(Fresh)
    BY WithdrawalOK
  <2>3. chain' = [chain EXCEPT ![s] = c1, ![s2] = c2]
    BY <1>0, <2>0, <2>1
  <2>4. chain[s].kind # "none" /\ chain[s2].kind # "none"
    BY <1>9 DEF Claimable
  <2>5. ASSUME NEW t \in Streams PROVE Leads(t, es \o fs, chain[t], chain'[t])
    <3>1. PICK m, d : m = (IF t = s THEN c1 ELSE chain[t]) /\ d = chain'[t]
      OBVIOUS
    <3>2. Leads(t, es, chain[t], m)
      BY <2>4, <3>1, WithdrawalLeads
    <3>3. Leads(t, fs, chain[t], IF t = s2 THEN c2 ELSE chain[t])
      BY <2>4, WithdrawalLeads
    <3> HIDE DEF c1, c2, es, fs
    <3>4. chain[t] \in ChainRecord /\ d = (IF t = s2 THEN c2 ELSE m) /\ m \in ChainRecord
      BY <1>0, <2>2, <2>3, <3>1
    <3>5. CASE t = s2
      <4>1. m = chain[t] /\ d = c2
        BY <2>0, <3>1, <3>4, <3>5
      <4>2. Leads(t, fs, m, d)
        BY <3>3, <3>5, <4>1
      <4> QED BY <2>2, <3>1, <3>2, <4>2, LeadsOn
    <3>6. CASE t # s2
      <4>1. \A i \in 1..Len(fs) : fs[i].stream = s2
        BY WithdrawalApart DEF fs
      <4>2. d = m
        BY <3>4, <3>6
      <4>3. Leads(t, fs, m, m)
        <5> DEFINE h == [i \in 0..Len(fs) |-> m]
        <5>1. h \in [0..Len(fs) -> ChainRecord] /\ h[0] = m /\ h[Len(fs)] = m
          <6>1. Len(fs) \in Nat
            BY <2>2
          <6> QED BY <3>4, <6>1
        <5>2. IsPath(h, t, fs)
          <6> SUFFICES ASSUME NEW i \in 1..Len(fs) PROVE EvolvesFor(t, fs[i], h[i - 1], h[i])
            BY DEF IsPath
          <6>1. i - 1 \in 0..Len(fs) /\ i \in 0..Len(fs)
            BY <2>2
          <6>2. h[i - 1] = m /\ h[i] = m /\ fs[i].stream # t
            BY <3>6, <4>1, <6>1
          <6> QED BY <6>2 DEF EvolvesFor
        <5> QED BY <5>1, <5>2 DEF Leads
      <4> QED BY <2>2, <3>1, <3>2, <4>2, <4>3, LeadsOn
    <3> QED BY <3>5, <3>6
  <2>6. es \o fs \in Seq(Fresh) /\ Publish(es \o fs)
    BY <2>1, <2>2, ConcatProperties
  <2>7. Apart(es \o fs)
    <3>1. /\ Apart(es) /\ \A i \in 1..Len(es) : es[i].stream = s
          /\ Apart(fs) /\ \A i \in 1..Len(fs) : fs[i].stream = s2
      BY WithdrawalApart
    <3> HIDE DEF es, fs
    <3> QED BY <2>0, <2>2, <3>1, BatchApart
  <2> HIDE DEF es, fs
  <2> QED BY <1>1, <2>5, <2>6, <2>7
<1>12. ASSUME NEW s \in Streams, ChainCancel(s)
       PROVE  LogTells'
  <2>1. PICK total \in chain[s].withdrawn..chain[s].deposited :
          /\ chain' = [chain EXCEPT ![s].withdrawn = total, ![s].is_active = FALSE,
                                    ![s].paused = FALSE]
          /\ Publish(<<Event("stream_cancelled", s, total)>>)
    BY <1>12 DEF ChainCancel
  <2>2. total \in Nat
    BY <1>3
  <2>3. PICK d : d = [chain[s] EXCEPT !.withdrawn = total, !.is_active = FALSE, !.paused = FALSE]
    OBVIOUS
  <2>4. /\ d \in ChainRecord /\ d.kind = chain[s].kind /\ d.withdrawn = total /\ ~d.is_active
        /\ d.deposited = chain[s].deposited
    BY <1>3, <2>2, <2>3 DEF ChainRecord
  <2>5. chain' = [chain EXCEPT ![s] = d]
    BY <1>0, <2>1, <2>3
  <2>6. PICK e : e = Event("stream_cancelled", s, total)
    OBVIOUS
  <2>7. /\ e \in Fresh /\ e.stream = s /\ e.inSuccessfulContractCall /\ e.type = "stream_cancelled"
        /\ e.value = total /\ Publish(<<e>>)
    BY <1>3, <1>5, <2>1, <2>2, <2>6 DEF EventTypes
  <2>8. Evolves(e, chain[s], d)
    BY <1>12, <2>4, <2>7 DEF ChainCancel, Evolves, EndTypes
  <2> QED BY <1>4, <2>4, <2>5, <2>7, <2>8
<1>13. ASSUME NEW s \in Streams, ChainPause(s)
       PROVE  LogTells'
  <2>1. PICK d : d = [chain[s] EXCEPT !.paused = ~chain[s].paused]
    OBVIOUS
  <2>2. /\ d \in ChainRecord /\ d.kind = chain[s].kind /\ d.withdrawn = chain[s].withdrawn
        /\ d.is_active = chain[s].is_active /\ d.deposited = chain[s].deposited
    BY <1>3, <2>1 DEF ChainRecord
  <2>3. d.paused <=> ~chain[s].paused
    BY <1>3, <2>1, Zenon DEF ChainRecord
  <2>4. PICK type : type = IF chain[s].paused THEN "stream_resumed" ELSE "stream_paused"
    OBVIOUS
  <2>5. type \in EventTypes /\ type \in PauseTypes /\ (d.paused <=> type = "stream_paused")
    BY <2>3, <2>4 DEF EventTypes, PauseTypes
  <2>6. PICK e : e = Event(type, s, 0)
    OBVIOUS
  <2>7. /\ e \in Fresh /\ e.stream = s /\ e.inSuccessfulContractCall /\ e.type = type
    BY <1>0, <1>3, <1>5, <2>5, <2>6
  <2>8. chain' = [chain EXCEPT ![s] = d] /\ Publish(<<e>>)
    BY <1>13, <2>1, <2>4, <2>6 DEF ChainPause
  <2>9. Evolves(e, chain[s], d)
    BY <1>13, <2>2, <2>5, <2>7 DEF ChainPause, Evolves
  <2> QED BY <1>4, <2>2, <2>7, <2>8, <2>9
<1>14. ASSUME NEW e \in Fresh, Publish(<<e>>), e.type \notin RowTypes, chain' = chain,
              e.stream \in Streams => e.inSuccessfulContractCall /\ chain[e.stream].kind # "none"
       PROVE  LogTells'
  <2>1. ASSUME NEW t \in Streams PROVE Leads(t, <<e>>, chain[t], chain'[t])
    <3>1. chain[t] \in ChainRecord /\ chain'[t] = chain[t]
      BY <1>0, <1>14
    <3>2. EvolvesFor(t, e, chain[t], chain[t])
      BY <1>14 DEF EvolvesFor, Evolves
    <3> QED BY <3>1, <3>2, LeadsOne
  <2> QED BY <1>1, <1>2, <1>14, <2>1, OneApart
<1>15. ASSUME ChainOther
       PROVE  LogTells'
  <2>0. chain' = chain
    BY <1>15 DEF ChainOther
  <2>1. CASE Publish(<<Event("fee_config_updated", 0, 0)>>)
    <3>1. PICK e : e = Event("fee_config_updated", 0, 0)
      OBVIOUS
    <3>2. e \in Fresh /\ e.type \notin RowTypes /\ e.stream \notin Streams
      BY <1>0, <1>5, <3>1 DEF EventTypes, RowTypes, EndTypes, PauseTypes
    <3> QED BY <1>14, <2>0, <2>1, <3>1, <3>2
  <2>2. CASE Publish(<<[Event("tokens_withdrawn", 0, 1) EXCEPT !.inSuccessfulContractCall = FALSE]>>)
    <3>1. PICK e : e = [Event("tokens_withdrawn", 0, 1) EXCEPT !.inSuccessfulContractCall = FALSE]
      OBVIOUS
    <3>2. Event("tokens_withdrawn", 0, 1) \in Fresh
      BY <1>0, <1>5 DEF EventTypes
    <3>3. e \in Fresh /\ e.stream = 0
      BY <3>1, <3>2 DEF Fresh, LogEvent, Event
    <3>4. ASSUME NEW t \in Streams PROVE Leads(t, <<e>>, chain[t], chain'[t])
      <4>1. chain[t] \in ChainRecord /\ chain'[t] = chain[t]
        BY <1>0, <2>0
      <4>2. EvolvesFor(t, e, chain[t], chain[t])
        BY <1>0, <3>3 DEF EvolvesFor
      <4> QED BY <4>1, <4>2, LeadsOne
    <3>5. Apart(<<e>>)
      BY <1>0, <3>3, OneApart
    <3> QED BY <1>1, <1>2, <2>2, <3>1, <3>3, <3>4, <3>5
  <2>3. ASSUME NEW s \in Streams, chain[s].kind # "none", Publish(<<Event("stream_closed", s, 0)>>)
        PROVE  LogTells'
    <3>1. PICK e : e = Event("stream_closed", s, 0)
      OBVIOUS
    <3>2. e \in Fresh /\ e.type \notin RowTypes /\ e.stream = s /\ e.inSuccessfulContractCall
      BY <1>0, <1>3, <1>5, <3>1 DEF EventTypes, RowTypes, EndTypes, PauseTypes
    <3> QED BY <1>14, <2>0, <2>3, <3>1, <3>2
  <2> QED BY <1>15, <2>1, <2>2, <2>3 DEF ChainOther
<1> QED
  BY <1>6, <1>7, <1>8, <1>10, <1>11, <1>12, <1>13, <1>15 DEF ChainNext

-----------------------------------------------------------------------------
(* An event that may change the row of a stream is one the worker wants, and *)
(* of a clean stream it is recorded exactly when it has a row of its own.    *)
LEMMA RowEvent ==
  ASSUME LogKeys(log), NEW s \in Streams, NEW i \in Of(s, RowTypes)
  PROVE  /\ i \in 1..Len(log) /\ log[i].stream = s /\ log[i].type \in RowTypes /\ Wanted(i)
         /\ Own(i) => Recorded(log[i])
         /\ Clean(s) => i \notin Troubled /\ (Recorded(log[i]) => Own(i))
<1>1. i \in 1..Len(log) /\ log[i].stream = s /\ log[i].type \in RowTypes
  BY DEF Of, At
<1>2. Handled(log[i])
  BY <1>1 DEF Handled, SystemTypes, StreamTypes, RowTypes, EndTypes, PauseTypes
<1>3. Wanted(i)
  BY <1>1, <1>2 DEF Wanted, LogKeys
<1>4. Own(i) => Recorded(log[i])
  <2> DEFINE r == [key |-> Key(log[i]), streamId |-> log[i].stream]
  <2>1. r.key = Key(log[i]) /\ (Own(i) <=> r \in recorded)
    BY DEF Own
  <2> QED BY <2>1 DEF Recorded
<1> QED BY <1>1, <1>3, <1>4 DEF Clean

(* The sets of positions. *)
LEMMA OfSubset ==
  ASSUME NEW s, NEW A, NEW B, A \subseteq B
  PROVE  Of(s, A) \subseteq Of(s, B)
BY DEF Of, At

(* The kinds of events that change a row.                                    *)
LEMMA Kinds ==
  /\ {"stream_created"} \subseteq RowTypes /\ {"stream_topped_up"} \subseteq RowTypes
  /\ {"tokens_withdrawn"} \subseteq RowTypes /\ EndTypes \subseteq RowTypes /\ PauseTypes \subseteq RowTypes
BY DEF RowTypes

(* The invariant says that the index is faithful.                            *)
LEMMA FInvFaithful == FInv => IndexIsFaithful
<1> SUFFICES ASSUME FInv, NEW s \in Streams, Indexed(s)
             PROVE  /\ rows[s].withdrawnAmount = chain[s].withdrawn
                    /\ rows[s].isActive = chain[s].is_active
                    /\ chain[s].is_active => rows[s].isPaused = chain[s].paused
                    /\ ~refetched => rows[s].depositedAmount = chain[s].deposited
  BY DEF IndexIsFaithful, MirrorsChain, DepositsMirrorChain
<1>1. /\ LogOK(log) /\ LogKeys(log) /\ Tells(log, Len(log), s, chain[s]) /\ chain[s].kind = "Linear"
      /\ chain[s] \in ChainRecord /\ Applied(s) /\ Len(log) \in Nat /\ DOMAIN log = 1..Len(log)
  BY DEF FInv, IInv, ChainOK, LogTells, Indexed, LogOK
<1>2. Mine(s)
  BY <1>1 DEF Mine, Clean, Applied, Stored, Own, Troubled
<1>3. RowShows(s)
  BY <1>2 DEF FInv, RowsShow
<1>4. ASSUME NEW i \in Of(s, RowTypes) PROVE Own(i) /\ i \in 1..Len(log)
  BY <1>1, RowEvent DEF Applied, Stored, Own
<1>5. ASSUME NEW i \in 1..Len(log) PROVE SettledIn(i, s)
  <2>1. state.lastCursor = Len(log) /\ Passed(state, log, SettledIds)
    BY DEF Indexed, CaughtUp, FInv, CursorsSettled
  <2>2. i \in SettledIds
    BY <1>1, <2>1 DEF Passed
  <2> QED BY <1>2, <2>2 DEF SettledIds, Settled
<1>6. PICK k : k \in Of(s, {"stream_created"})
  BY <1>1 DEF Tells, TellsOpening, Of
<1>7. rows[s] # NoRow
  BY <1>3, <1>4, <1>6, OfSubset, Kinds DEF RowShows
<1>8. rows[s] \in StreamRow
  BY <1>7 DEF FInv, IInv, TablesOK
<1>9. rows[s].isActive \in BOOLEAN /\ rows[s].isPaused \in BOOLEAN /\ chain[s].is_active \in BOOLEAN
      /\ chain[s].paused \in BOOLEAN
  <2>1. rows[s].isActive \in BOOLEAN /\ rows[s].isPaused \in BOOLEAN
    BY <1>8 DEF StreamRow
  <2>2. chain[s].is_active \in BOOLEAN /\ chain[s].paused \in BOOLEAN
    BY <1>1 DEF ChainRecord
  <2> QED BY <2>1, <2>2
<1>10. ~refetched => rows[s].depositedAmount = chain[s].deposited
  <2>1. ~refetched => rows[s].depositedAmount =
          IF \E t \in Of(s, {"stream_topped_up"}) : Own(t) THEN Deposit + 1 ELSE Deposit
    BY <1>3, <1>7 DEF RowShows
  <2>2. (\E t \in Of(s, {"stream_topped_up"}) : Own(t)) <=> Of(s, {"stream_topped_up"}) # {}
    BY <1>4, OfSubset, Kinds
  <2>3. chain[s].deposited = IF Of(s, {"stream_topped_up"}) = {} THEN Deposit ELSE Deposit + 1
    BY <1>1 DEF Tells, TellsOpening, Of
  <2> QED BY <2>1, <2>2, <2>3
<1>11. CASE chain[s].is_active
  <2>1. TellsLife(log, Len(log), s, chain[s])
    BY <1>1, <1>11 DEF Tells
  <2>2. Of(s, EndTypes) = {} /\ chain[s].withdrawn = SumTo(Amounts(log, Len(log), s), Len(log))
    BY <2>1 DEF TellsLife, Of
  <2>3. Credits(s) = Amounts(log, Len(log), s)
    <3> SUFFICES ASSUME NEW i \in 1..Len(log) PROVE Credit(i, s) = Drawn(log, s, i)
      BY DEF Credits, Amounts
    <3>1. CASE log[i].stream = s /\ log[i].type = "tokens_withdrawn"
      <4>1. i \in Of(s, RowTypes)
        BY <3>1 DEF Of, At, RowTypes
      <4> QED BY <1>4, <4>1 DEF Credit
    <3>2. CASE ~(log[i].stream = s /\ log[i].type = "tokens_withdrawn")
      BY <3>2 DEF Credit, Drawn
    <3> QED BY <3>1, <3>2
  <2>4. rows[s].withdrawnAmount = chain[s].withdrawn
    BY <1>3, <1>7, <2>2, <2>3 DEF RowShows
  <2>5. rows[s].isActive
    BY <1>3, <1>7, <2>2 DEF RowShows
  <2>6. rows[s].isPaused <=> chain[s].paused
    <3>1. CASE ~chain[s].paused /\ Of(s, PauseTypes) = {}
      BY <1>3, <1>7, <3>1 DEF RowShows
    <3>2. CASE \E i \in Of(s, PauseTypes) : /\ \A m \in Of(s, PauseTypes) : m <= i
                                            /\ chain[s].paused <=> log[i].type = "stream_paused"
      <4>1. PICK i \in Of(s, PauseTypes) : /\ \A m \in Of(s, PauseTypes) : m <= i
                                           /\ chain[s].paused <=> log[i].type = "stream_paused"
        BY <3>2
      <4>2. i \in 1..Len(log)
        BY DEF Of, At
      <4>3. LastPause(i, s)
        BY <4>1 DEF LastPause
      <4>4. rows[s].isPaused <=> log[i].type = "stream_paused"
        BY <1>5, <4>2, <4>3 DEF SettledIn
      <4> QED BY <4>1, <4>4
    <3> QED BY <2>1, <3>1, <3>2 DEF TellsLife, Of
  <2> QED BY <1>9, <1>10, <1>11, <2>4, <2>5, <2>6, Zenon
<1>12. CASE ~chain[s].is_active
  <2>1. PICK c \in 1..Len(log) : Of(s, EndTypes) = {c} /\ log[c].value = chain[s].withdrawn
    BY <1>1, <1>12 DEF Tells, TellsEnd, Of
  <2>2. Own(c)
    BY <1>4, <2>1, OfSubset, Kinds
  <2>3. rows[s].withdrawnAmount = chain[s].withdrawn
    BY <1>3, <1>7, <2>1, <2>2 DEF RowShows
  <2>4. ~rows[s].isActive
    BY <1>5, <2>1 DEF SettledIn
  <2> QED BY <1>9, <1>10, <1>12, <2>3, <2>4, Zenon
<1> QED BY <1>9, <1>11, <1>12

-----------------------------------------------------------------------------
(* Steps that change neither the ledger nor the index.                       *)
ViewStays ==
  /\ UNCHANGED <<log, chain, rows, recorded>> /\ (refetched => refetched')
  /\ \A i \in 1..Len(log) : Wanted(i) => (i \in Troubled' <=> i \in Troubled)

(* What such a step leaves as it was.                                        *)
LEMMA ViewKept ==
  ASSUME LogTells, RecordsOK, RowsShow, ViewStays
  PROVE  /\ LogTells' /\ RecordsOK' /\ RowsShow' /\ SettledIds' = SettledIds /\ HandledIds' = HandledIds
<1>1. log' = log /\ chain' = chain /\ rows' = rows /\ recorded' = recorded /\ (refetched => refetched')
  BY DEF ViewStays
<1>2. LogTells' /\ RecordsOK'
  BY <1>1 DEF LogTells, RecordsOK
<1>3. \A i : Own(i)' <=> Own(i)
  BY <1>1 DEF Own, Key
<1>4. \A i : Recorded(log[i])' <=> Recorded(log[i])
  BY <1>1 DEF Recorded, Key
<1>5. \A i : Wanted(i)' <=> Wanted(i)
  BY <1>1 DEF Wanted, Handled
<1>6. \A i \in 1..Len(log) : Wanted(i) => (i \in Troubled' <=> i \in Troubled)
  BY DEF ViewStays
<1>7. \A s : Clean(s)' <=> Clean(s)
  BY <1>1, <1>3, <1>4, <1>5, <1>6 DEF Clean
<1>8. \A s : Mine(s)' <=> Mine(s)
  BY <1>1, <1>7 DEF Mine
<1>9. \A s, types : Of(s, types)' = Of(s, types)
  BY <1>1 DEF Of
<1>10. \A s : Credits(s)' = Credits(s)
  BY <1>1, <1>3 DEF Credits, Credit
<1>11. ASSUME NEW s, RowShows(s) PROVE RowShows(s)'
  BY <1>1, <1>3, <1>9, <1>10, <1>11 DEF RowShows
<1>12. RowsShow'
  BY <1>1, <1>8, <1>9, <1>11 DEF RowsShow
<1>13. \A i, s : SettledIn(i, s)' <=> SettledIn(i, s)
  BY <1>1, <1>9 DEF SettledIn, LastPause
<1>14. \A i \in 1..Len(log) : Dealt(i)' <=> Dealt(i)
  BY <1>1, <1>4, <1>5, <1>6 DEF Dealt, Troubled
<1>15. SettledIds' = SettledIds
  BY <1>1, <1>8, <1>13, <1>14 DEF SettledIds, Settled, DealtIds
<1>16. HandledIds' = HandledIds
  BY <1>1, <1>3 DEF HandledIds
<1> QED BY <1>2, <1>12, <1>15, <1>16

(* What such a step has to keep.                                             *)
LEMMA WorkStep ==
  ASSUME FInv, IInv', ViewStays, Aligned(log, state'), Passed(state', log, SettledIds),
         \A j \in Jobs : BatchOK(batch'[j], log, SettledIds) /\ BatchAhead(log, state', batch'[j]),
         ~refetched' => Frontier(log, HandledIds, state', batch')
  PROVE  FInv'
<1>1. LogTells' /\ RecordsOK' /\ RowsShow' /\ SettledIds' = SettledIds /\ HandledIds' = HandledIds
  BY ViewKept DEF FInv
<1>2. log' = log
  BY DEF ViewStays
<1>3. CursorsSettled'
  BY <1>1, <1>2 DEF CursorsSettled
<1>4. (~refetched => Frontier(log, HandledIds, state, batch))'
  BY <1>1, <1>2
<1> QED BY <1>1, <1>3, <1>4 DEF FInv

(* A batch without a cursor.                                                 *)
LEMMA NoBatch ==
  ASSUME NEW lg, NEW H, NEW c, NEW b \in {Idle, [stage |-> "read"]}
  PROVE  BatchAhead(lg, c, b) /\ BatchFront(lg, H, c, b) /\ b.stage # "process"
BY DEF BatchAhead, BatchFront, Started, Idle

(* A batch that has not read its cursor.                                     *)
LEMMA NotStarted ==
  ASSUME NEW lg, NEW D, NEW H, NEW c, NEW b, BatchOK(b, lg, D), ~Started(b)
  PROVE  BatchAhead(lg, c, b) /\ BatchFront(lg, H, c, b) /\ b.stage # "process"
BY DEF BatchAhead, BatchFront, Started

(* A cursor that goes back stays behind.                                     *)
LEMMA AheadLower ==
  ASSUME NEW lg, NEW c \in CursorRow, NEW d \in CursorRow, d.lastLedger <= c.lastLedger, d.lastCursor <= c.lastCursor,
         NEW D, NEW b, BatchOK(b, lg, D), BatchAhead(lg, c, b)
  PROVE  BatchAhead(lg, d, b)
<1>1. CASE ~Started(b)
  BY <1>1, NotStarted
<1>2. CASE Started(b)
  <2>1. b.read \in CursorRow
    BY <1>2 DEF BatchOK, CursorOK
  <2>2. d.lastLedger <= b.read.lastLedger /\ d.lastCursor <= b.read.lastCursor
    BY <1>2, <2>1 DEF BatchAhead, CursorRow
  <2> QED BY <1>2, <2>2 DEF BatchAhead
<1> QED BY <1>1, <1>2

(* The cursor an operator goes back to has passed no more than the old one.  *)
LEMMA BackSettled ==
  ASSUME LogOK(log), NEW D, CursorOK(state, log), Passed(state, log, D), NEW l \in 0..state.lastLedger,
         NEW s, s = StateRow(l, 0)
  PROVE  /\ s \in CursorRow /\ Passed(s, log, D) /\ Aligned(log, s)
         /\ s.lastLedger <= state.lastLedger /\ s.lastCursor <= state.lastCursor
<1>1. s.lastLedger = l /\ s.lastCursor = 0 /\ s \in CursorRow
  BY DEF StateRow, CursorRow
<1>2. state.lastLedger \in Int /\ state.lastCursor \in Nat
  BY DEF CursorOK, CursorRow
<1>3. ASSUME NEW i \in 1..Len(log), i <= 0 \/ log[i].tx < l PROVE i \in D
  <2>1. log[i].tx \in Nat /\ Len(log) \in Nat
    BY TxBounds DEF LogOK
  <2>2. log[i].tx < state.lastLedger
    BY <1>2, <1>3, <2>1
  <2> QED BY <2>2 DEF Passed
<1> QED BY <1>1, <1>2, <1>3 DEF Passed, Aligned

(* The timer fires.                                                          *)
LEMMA EnqueueSettles ==
  ASSUME FInv, NEW j \in Jobs, batch[j] = Idle, enqueue(j),
         UNCHANGED <<chainVars, rows, recorded, dead, discarded, unwritten>>,
         \/ state' = state /\ refetched' = refetched
         \/ (\E l \in 0..state.lastLedger : state' = StateRow(l, 0)) /\ refetched'
  PROVE  FInv'
<1>1. LogOK(log) /\ MutexOK /\ CursorsOK /\ IInv /\ CursorOK(state, log) /\ state \in CursorRow
  BY DEF FInv, IInv, ChainOK, CursorsOK, CursorOK
<1>2. IInv' /\ batch'[j] = [stage |-> "read"] /\ \A k \in Jobs \ {j} : batch'[k] = batch[k]
  BY <1>1, EnqueueKeeps, EnqueueStep
<1>3. ViewStays
  BY DEF ViewStays, chainVars, Troubled
<1>4. /\ Aligned(log, state) /\ Passed(state, log, SettledIds)
      /\ \A k \in Jobs : BatchOK(batch[k], log, SettledIds) /\ BatchAhead(log, state, batch[k])
  BY DEF FInv, CursorsSettled
<1>5. /\ state' \in CursorRow /\ Passed(state', log, SettledIds) /\ Aligned(log, state')
      /\ state'.lastLedger <= state.lastLedger /\ state'.lastCursor <= state.lastCursor
  <2>1. CASE state' = state
    BY <1>1, <1>4, <2>1 DEF CursorRow
  <2>2. ASSUME NEW l \in 0..state.lastLedger, state' = StateRow(l, 0)
        PROVE  /\ state' \in CursorRow /\ Passed(state', log, SettledIds) /\ Aligned(log, state')
               /\ state'.lastLedger <= state.lastLedger /\ state'.lastCursor <= state.lastCursor
    BY <1>1, <1>4, <2>2, BackSettled
  <2> QED BY <2>1, <2>2
<1>6. ASSUME NEW k \in Jobs PROVE BatchOK(batch'[k], log, SettledIds) /\ BatchAhead(log, state', batch'[k])
  <2>1. CASE k = j
    BY <1>2, <2>1, NoCursor, NoBatch
  <2>2. CASE k # j
    BY <1>1, <1>2, <1>4, <1>5, <2>2, AheadLower
  <2> QED BY <2>1, <2>2
<1>7. ASSUME ~refetched' PROVE Frontier(log, HandledIds, state', batch')
  <2>1. state' = state /\ Frontier(log, HandledIds, state, batch)
    BY <1>7 DEF FInv
  <2>2. \A k \in Jobs : BatchFront(log, HandledIds, state, batch'[k])
    BY <1>2, <2>1, NoBatch DEF Frontier
  <2>3. (\A k \in Jobs : batch'[k].stage # "process") => \A k \in Jobs : batch[k].stage # "process"
    BY <1>2 DEF Idle
  <2> QED BY <2>1, <2>2, <2>3 DEF Frontier
<1> QED BY <1>2, <1>3, <1>5, <1>6, <1>7, WorkStep

(* The reset of an operator.                                                 *)
LEMMA ResetSettles ==
  ASSUME FInv, NEW l \in 0..state.lastLedger, resetIndexer(l)
  PROVE  FInv'
<1>1. LogOK(log) /\ IInv /\ CursorOK(state, log) /\ state \in CursorRow
  BY DEF FInv, IInv, ChainOK, CursorsOK, CursorOK
<1>2. IInv'
  BY <1>1, ResetKeeps
<1>3. ViewStays /\ refetched' /\ state' = StateRow(l, 0) /\ batch' = batch
  BY DEF resetIndexer, ViewStays, chainVars, Troubled, worker
<1>4. /\ Passed(state, log, SettledIds)
      /\ \A k \in Jobs : BatchOK(batch[k], log, SettledIds) /\ BatchAhead(log, state, batch[k])
  BY DEF FInv, CursorsSettled
<1>5. /\ state' \in CursorRow /\ Passed(state', log, SettledIds) /\ Aligned(log, state')
      /\ state'.lastLedger <= state.lastLedger /\ state'.lastCursor <= state.lastCursor
  BY <1>1, <1>3, <1>4, BackSettled
<1>6. ASSUME NEW k \in Jobs PROVE BatchOK(batch'[k], log, SettledIds) /\ BatchAhead(log, state', batch'[k])
  BY <1>1, <1>3, <1>4, <1>5, AheadLower
<1> QED BY <1>2, <1>3, <1>5, <1>6, WorkStep

(* The batch at the head of the chain ends.                                  *)
LEMMA FinishSettles ==
  ASSUME FInv, IInv', NEW j \in Jobs, queue # <<>>, queue[1] = j, finish(j),
         UNCHANGED <<chainVars, rows, recorded, dead, discarded, unwritten>>, refetched => refetched',
         Aligned(log, state'), Passed(state', log, SettledIds),
         ~refetched' => HandledBehind(log, HandledIds, state')
  PROVE  FInv'
<1>1. MutexOK
  BY DEF FInv, IInv
<1>2. batch'[j] = Idle /\ \A k \in Jobs \ {j} : batch'[k] = batch[k]
  BY <1>1, FinishKeeps
<1>3. ViewStays
  BY DEF ViewStays, chainVars, Troubled
<1>4. \A k \in Jobs : BatchOK(batch[k], log, SettledIds)
  BY DEF FInv, CursorsSettled
<1>5. ASSUME NEW k \in Jobs
      PROVE  /\ BatchOK(batch'[k], log, SettledIds) /\ BatchAhead(log, state', batch'[k])
             /\ BatchFront(log, HandledIds, state', batch'[k])
  <2>1. CASE k = j
    BY <1>2, <2>1, NoCursor, NoBatch
  <2>2. CASE k # j
    <3>1. ~Started(batch[k])
      BY <1>1, <2>2, OneStarted
    <3> QED BY <1>2, <1>4, <2>2, <3>1, NotStarted
  <2> QED BY <2>1, <2>2
<1>6. ~refetched' => Frontier(log, HandledIds, state', batch')
  BY <1>5 DEF Frontier
<1> QED BY <1>3, <1>5, <1>6, WorkStep

(* Before a page arrives, whatever was handled lies behind the saved cursor. *)
LEMMA FrontierFree ==
  ASSUME FInv, ~refetched, NEW j \in Jobs, queue # <<>>, queue[1] = j, batch[j].stage # "process"
  PROVE  HandledBehind(log, HandledIds, state)
<1>1. MutexOK /\ Frontier(log, HandledIds, state, batch)
  BY DEF FInv, IInv
<1>2. \A k \in Jobs \ {j} : ~Started(batch[k])
  BY <1>1, OneStarted
<1>3. \A k \in Jobs : batch[k].stage # "process"
  BY <1>2 DEF Started
<1> QED BY <1>1, <1>3 DEF Frontier

(* A batch that throws saves no cursor.                                      *)
LEMMA ThrowSettles ==
  ASSUME FInv, NEW j \in Jobs, batchThrows(j)
  PROVE  FInv'
<1>1. finish(j) /\ UNCHANGED <<chainVars, tables>>
  BY DEF batchThrows
<1>2. IInv /\ queue \in Seq(Jobs) /\ MutexOK /\ Aligned(log, state) /\ Passed(state, log, SettledIds)
  BY DEF FInv, IInv, MutexOK, CursorsSettled
<1>3. queue # <<>> /\ queue[1] = j
  <2>1. CASE Started(batch[j])
    BY <1>2, <2>1, StartedIsHead
  <2>2. CASE exclusive(j)
    BY <1>2, <2>2 DEF exclusive
  <2> QED
    BY <2>1, <2>2 DEF batchThrows, Started
<1>4. IInv'
  BY <1>2, ThrowKeeps
<1>5. refetched' \/ (batch[j].stage = "fetch" /\ refetched' = refetched)
  BY DEF batchThrows
<1>6. ~refetched' => HandledBehind(log, HandledIds, state')
  <2> SUFFICES ASSUME ~refetched' PROVE HandledBehind(log, HandledIds, state)
    BY <1>1 DEF tables
  <2>1. batch[j].stage # "process" /\ ~refetched
    BY <1>5
  <2> QED BY <1>3, <2>1, FrontierFree
<1>7. refetched => refetched'
  BY <1>5
<1> QED BY <1>1, <1>2, <1>3, <1>4, <1>6, <1>7, FinishSettles DEF tables

(* The cursor a batch saves has passed only what is settled: its page is done. *)
LEMMA SaveSettles ==
  ASSUME FInv, NEW j \in Jobs, saveState(j)
  PROVE  FInv'
<1> DEFINE b == batch[j]
<1>1. /\ b.stage = "process" /\ b.todo = {} /\ state' = b.last /\ finish(j)
      /\ UNCHANGED <<chainVars, rows, recorded, dead, discarded, unwritten, refetched>>
  BY DEF saveState
<1>2. IInv /\ Started(b) /\ MutexOK /\ BatchOK(b, log, SettledIds) /\ BatchAhead(log, state, b)
  BY <1>1 DEF FInv, IInv, CursorsSettled, Started
<1>3. queue # <<>> /\ queue[1] = j /\ IInv'
  BY <1>2, StartedIsHead, SaveKeeps
<1> HIDE DEF b
<1>4. Passed(b.last, log, SettledIds) /\ Aligned(log, b.last)
  <2>1. SettledIds \cup b.todo = SettledIds
    BY <1>1
  <2> QED BY <1>1, <1>2, <2>1 DEF BatchOK, BatchAhead
<1>5. ~refetched => HandledBehind(log, HandledIds, b.last)
  BY <1>1 DEF FInv, Frontier, BatchFront, b
<1> QED BY <1>1, <1>3, <1>4, <1>5, FinishSettles

(* A crash leaves the tables, and the cursor with them.                      *)
LEMMA CrashSettles == ASSUME FInv, crash PROVE FInv'
<1>1. queue' = <<>> /\ batch' = [j \in Jobs |-> Idle] /\ UNCHANGED <<chainVars, tables>> /\ refetched'
  BY DEF crash
<1>2. IInv' /\ Aligned(log, state) /\ Passed(state, log, SettledIds)
  BY CrashKeeps DEF FInv, CursorsSettled
<1>3. ViewStays
  BY <1>1 DEF ViewStays, chainVars, tables, Troubled
<1>4. \A k \in Jobs : BatchOK(batch'[k], log, SettledIds) /\ BatchAhead(log, state', batch'[k])
  BY <1>1, NoCursor, NoBatch
<1>5. state' = state
  BY <1>1 DEF tables
<1> QED BY <1>1, <1>2, <1>3, <1>4, <1>5, WorkStep

(* Dead letters: a discarded one is still in trouble, and one whose replay   *)
(* succeeds is none the worker wants.                                        *)
LEMMA DeadLetterSettles ==
  ASSUME FInv, NEW i \in dead, replayDeadLetterEvent(i) \/ discardDeadLetterEvent(i)
  PROVE  FInv'
<1>1. UNCHANGED <<chainVars, state, unwritten, worker, refetched>> /\ IInv
  BY DEF replayDeadLetterEvent, discardDeadLetterEvent, FInv
<1>2. IInv'
  BY <1>1, DeadLetterKeeps
<1>3. i \in 1..Len(log) /\ log[i] \in LogEvent
  BY <1>1 DEF IInv, ChainOK, TablesOK, LogOK
<1>4. ViewStays
  <2>1. CASE discardDeadLetterEvent(i)
    BY <1>1, <2>1 DEF discardDeadLetterEvent, ViewStays, Troubled, chainVars
  <2>2. CASE replayDeadLetterEvent(i)
    <3>1. PICK e : e = [log[i] EXCEPT !.tx = NoTx]
      OBVIOUS
    <3>2. e.tx = NoTx /\ e.type = log[i].type
      BY <1>3, <3>1 DEF LogEvent
    <3>3. discarded' = discarded /\ IF Succeeds(e) THEN processEvent(e) /\ dead' = dead \ {i}
                                    ELSE UNCHANGED <<rows, recorded, dead>>
      BY <2>2, <3>1 DEF replayDeadLetterEvent, deserializeDeadLetterPayload
    <3>4. CASE Succeeds(e)
      <4>1. ~Handled(e)
        BY <3>2, <3>4 DEF Succeeds
      <4>2. ~Wanted(i)
        BY <3>2, <4>1 DEF Wanted, Handled
      <4>3. UNCHANGED <<rows, recorded>> /\ dead' = dead \ {i}
        BY <3>3, <3>4, <4>1 DEF processEvent
      <4> QED BY <1>1, <3>3, <4>2, <4>3 DEF ViewStays, Troubled, chainVars
    <3>5. CASE ~Succeeds(e)
      BY <1>1, <3>3, <3>5 DEF ViewStays, Troubled, chainVars
    <3> QED BY <3>4, <3>5
  <2> QED BY <2>1, <2>2
<1>5. state' = state /\ batch' = batch /\ refetched' = refetched
  BY <1>1 DEF worker
<1>6. /\ Aligned(log, state) /\ Passed(state, log, SettledIds)
      /\ \A k \in Jobs : BatchOK(batch[k], log, SettledIds) /\ BatchAhead(log, state, batch[k])
      /\ ~refetched => Frontier(log, HandledIds, state, batch)
  BY DEF FInv, CursorsSettled
<1> QED BY <1>2, <1>4, <1>5, <1>6, WorkStep

-----------------------------------------------------------------------------
(* runPollCycle reads the cursor.                                            *)
LEMMA EnsureSettles ==
  ASSUME FInv, NEW j \in Jobs, ensureIndexerState(j)
  PROVE  FInv'
<1>1. LogOK(log) /\ MutexOK /\ IInv /\ CursorOK(state, log)
  BY DEF FInv, IInv, ChainOK, CursorsOK
<1>2. PICK s : s = IF state = NoState THEN StateRow(startLedger, 0) ELSE state
  OBVIOUS
<1>3. PICK b : b = [stage |-> "fetch", read |-> s]
  OBVIOUS
<1>4. /\ batch[j].stage = "read" /\ queue # <<>> /\ queue[1] = j /\ queue' = queue /\ state' = s
      /\ batch' = [batch EXCEPT ![j] = b]
      /\ UNCHANGED <<chainVars, rows, recorded, dead, discarded, unwritten, refetched>>
  BY <1>1, <1>2, <1>3 DEF ensureIndexerState, exclusive, MutexOK
<1>5. b.stage = "fetch" /\ b.read = s /\ b # Idle
  BY <1>3 DEF Idle
<1>6. IInv' /\ batch'[j] = b /\ \A k \in Jobs \ {j} : batch'[k] = batch[k]
  <2>1. IInv'
    BY <1>1, EnsureKeeps
  <2> QED BY <1>1, <1>4, <1>5, <2>1, RunKeeps
<1>7. ViewStays
  BY <1>4 DEF ViewStays, chainVars, Troubled
<1>8. /\ Aligned(log, state) /\ Passed(state, log, SettledIds)
      /\ \A k \in Jobs : BatchOK(batch[k], log, SettledIds)
  BY DEF FInv, CursorsSettled
<1>9. /\ Len(log) \in Nat /\ NextTx(log) \in Nat \ {0} /\ \A i \in 1..Len(log) : log[i].tx \in Nat
  BY <1>1, TxBounds DEF LogOK
<1>10. /\ CursorOK(s, log) /\ Aligned(log, s) /\ Passed(s, log, SettledIds)
       /\ HandledBehind(log, HandledIds, state) => HandledBehind(log, HandledIds, s)
  <2>1. CASE state = NoState
    <3>1. /\ s.lastLedger = 0 /\ s.lastCursor = 0 /\ s \in CursorRow
          /\ state.lastLedger = -1 /\ state.lastCursor = 0
      BY <1>2, <2>1 DEF StateRow, startLedger, NoState, CursorRow
    <3>2. CursorOK(s, log) /\ Aligned(log, s) /\ Passed(s, log, SettledIds)
      BY <1>9, <3>1 DEF CursorOK, Passed, Aligned
    <3>3. \A i \in 1..Len(log) : ~Behind(log, state, i)
      BY <1>9, <3>1 DEF Behind
    <3>4. HandledIds \subseteq 1..Len(log)
      BY DEF HandledIds
    <3> QED BY <3>2, <3>3, <3>4 DEF HandledBehind
  <2>2. CASE state # NoState
    BY <1>1, <1>2, <1>8, <2>2
  <2> QED BY <2>1, <2>2
<1>11. BatchOK(b, log, SettledIds)
  <2>1. b \in BatchRecord
    BY <1>3, <1>10 DEF BatchRecord, CursorOK
  <2> QED BY <1>5, <1>10, <2>1 DEF BatchOK
<1>12. BatchAhead(log, s, b) /\ BatchFront(log, HandledIds, s, b)
  BY <1>5, <1>10 DEF BatchAhead, BatchFront, CursorOK, CursorRow
<1>13. ASSUME NEW k \in Jobs
       PROVE  /\ BatchOK(batch'[k], log, SettledIds) /\ BatchAhead(log, s, batch'[k])
              /\ BatchFront(log, HandledIds, s, batch'[k])
  <2>1. CASE k = j
    BY <1>6, <1>11, <1>12, <2>1
  <2>2. CASE k # j
    <3>1. ~Started(batch[k])
      BY <1>1, <1>4, <2>2, OneStarted
    <3> QED BY <1>6, <1>8, <2>2, <3>1, NotStarted
  <2> QED BY <2>1, <2>2
<1>14. ASSUME ~refetched' PROVE Frontier(log, HandledIds, s, batch')
  <2>1. HandledBehind(log, HandledIds, s)
    BY <1>4, <1>10, <1>14, FrontierFree
  <2> QED BY <1>13, <2>1 DEF Frontier
<1> QED BY <1>4, <1>6, <1>7, <1>10, <1>13, <1>14, WorkStep

(* The page: the first events that are not behind the cursor.                *)
LEMMA PageAhead ==
  ASSUME LogOK(log), NEW s, CursorOK(s, log), Aligned(log, s)
  PROVE  /\ \A i \in After(s) : i \in 1..Len(log) /\ ~Behind(log, s, i)
         /\ \A y \in After(s) : \A i \in 1..y : ~Behind(log, s, i) => i \in After(s)
<1>1. /\ Len(log) \in Nat /\ DOMAIN log = 1..Len(log) /\ s.lastCursor \in Nat /\ s.lastLedger \in Int
      /\ s.lastCursor <= Len(log) /\ \A i \in 1..Len(log) : log[i].tx \in Nat
  BY TxBounds DEF LogOK, CursorOK, CursorRow
<1>2. ASSUME NEW i \in After(s) PROVE i \in 1..Len(log) /\ ~Behind(log, s, i)
  <2>1. i \in 1..Len(log) /\ IF s.lastCursor > 0 THEN i > s.lastCursor ELSE log[i].tx >= s.lastLedger
    BY <1>1 DEF After, Beyond
  <2>2. CASE s.lastCursor > 0
    <3>1. s.lastCursor \in 1..Len(log) /\ s.lastCursor <= i /\ ~(i <= s.lastCursor)
      BY <1>1, <2>1, <2>2
    <3>2. log[s.lastCursor].tx <= log[i].tx
      BY <2>1, <3>1 DEF LogOK
    <3>3. s.lastLedger <= log[s.lastCursor].tx
      BY <2>2 DEF Aligned
    <3>4. ~(log[i].tx < s.lastLedger)
      BY <1>1, <2>1, <3>1, <3>2, <3>3
    <3> QED BY <2>1, <3>1, <3>4 DEF Behind
  <2>3. CASE ~(s.lastCursor > 0)
    <3>1. ~(i <= s.lastCursor) /\ ~(log[i].tx < s.lastLedger)
      BY <1>1, <2>1, <2>3
    <3> QED BY <2>1, <3>1 DEF Behind
  <2> QED BY <2>2, <2>3
<1>3. ASSUME NEW y \in After(s), NEW i \in 1..y, ~Behind(log, s, i) PROVE i \in After(s)
  <2>1. PICK D : D = {k \in 1..Len(log) : Behind(log, s, k)}
    OBVIOUS
  <2>2. Passed(s, log, D)
    BY <2>1 DEF Passed, Behind
  <2>3. 1..y \subseteq D \cup After(s)
    BY <2>2, PageOK
  <2> QED BY <1>3, <2>1, <2>3
<1> QED BY <1>2, <1>3

(* What is handled lies before what is fetched.                              *)
LEMMA PageFront ==
  ASSUME LogOK(log), NEW c, CursorOK(c, log), NEW i \in 1..Len(log), NEW k \in 1..Len(log),
         Behind(log, c, i), ~Behind(log, c, k)
  PROVE  i < k
<1>1. /\ Len(log) \in Nat /\ c.lastCursor \in Nat /\ c.lastLedger \in Int /\ log[i].tx \in Nat /\ log[k].tx \in Nat
  BY TxBounds DEF LogOK, CursorOK, CursorRow
<1>2. ~(k <= c.lastCursor) /\ ~(log[k].tx < c.lastLedger)
  BY DEF Behind
<1>3. CASE i <= c.lastCursor
  BY <1>1, <1>2, <1>3
<1>4. CASE log[i].tx < c.lastLedger
  <2>1. log[i].tx < log[k].tx
    BY <1>1, <1>2, <1>4
  <2>2. ASSUME k <= i PROVE FALSE
    <3>1. log[k].tx <= log[i].tx
      BY <2>2 DEF LogOK
    <3> QED BY <1>1, <2>1, <3>1
  <2> QED BY <1>1, <2>2
<1> QED BY <1>3, <1>4 DEF Behind

(* A page arrives.                                                           *)
LEMMA GetEventsSettles ==
  ASSUME FInv, NEW j \in Jobs, getEvents(j)
  PROVE  FInv'
<1>1. LogOK(log) /\ MutexOK /\ IInv
  BY DEF FInv, IInv, ChainOK
<1>2. PICK s, page : s = batch[j].read /\ page = After(s)
  OBVIOUS
<1>3. PICK b : b = [stage |-> "process", read |-> s, todo |-> page, last |-> s]
  OBVIOUS
<1>4. /\ batch[j].stage = "fetch" /\ UNCHANGED <<chainVars, tables, troubles, refetched>>
      /\ IF page = {} THEN finish(j)
         ELSE batch' = [batch EXCEPT ![j] = b] /\ UNCHANGED queue
  BY <1>1, <1>2, <1>3 DEF getEvents, MutexOK
<1>5. Started(batch[j]) /\ queue # <<>> /\ queue[1] = j
  BY <1>1, <1>4, StartedIsHead DEF Started
<1>6. /\ Aligned(log, state) /\ Passed(state, log, SettledIds)
      /\ \A k \in Jobs : BatchOK(batch[k], log, SettledIds) /\ BatchAhead(log, state, batch[k])
  BY DEF FInv, CursorsSettled
<1>7. /\ CursorOK(s, log) /\ Passed(s, log, SettledIds) /\ Aligned(log, s)
      /\ state.lastLedger <= s.lastLedger /\ state.lastCursor <= s.lastCursor
  BY <1>2, <1>5, <1>6 DEF BatchOK, BatchAhead
<1>8. IInv'
  BY <1>1, GetEventsKeeps
<1>9. ~refetched => HandledBehind(log, HandledIds, state)
  BY <1>4, <1>5, FrontierFree
<1>10. CASE page = {}
  BY <1>4, <1>5, <1>6, <1>8, <1>9, <1>10, FinishSettles DEF tables
<1>11. CASE page # {}
  <2>1. b.stage = "process" /\ b.read = s /\ b.last = s /\ b.todo = page /\ b # Idle
    BY <1>3 DEF Idle
  <2>2. \A i \in page : i \in 1..Len(log) /\ i > s.lastCursor /\ 1..i \subseteq SettledIds \cup page
    BY <1>1, <1>2, <1>7, PageOK
  <2>3. /\ \A i \in page : ~Behind(log, s, i)
        /\ \A y \in page : \A i \in 1..y : ~Behind(log, s, i) => i \in page
    BY <1>1, <1>2, <1>7, PageAhead
  <2>4. b \in BatchRecord
    <3>1. page \in SUBSET Nat
      BY <1>1, <2>2 DEF LogOK
    <3>2. s \in CursorRow
      BY <1>7 DEF CursorOK
    <3> QED BY <1>3, <3>1, <3>2 DEF BatchRecord
  <2>5. /\ Passed(s, log, SettledIds \cup page) /\ s.lastCursor <= s.lastCursor
        /\ page \subseteq 1..Len(log)
    BY <1>7, <2>2 DEF Passed, CursorOK, CursorRow
  <2>6. BatchOK(b, log, SettledIds)
    BY <1>7, <2>1, <2>2, <2>4, <2>5 DEF BatchOK
  <2>7. PageInOrder(log, b)
    BY <2>1, <2>3 DEF PageInOrder
  <2>8. BatchAhead(log, state, b)
    BY <1>7, <2>1, <2>3, <2>7 DEF BatchAhead
  <2>9. batch'[j] = b /\ \A k \in Jobs \ {j} : batch'[k] = batch[k]
    BY <1>1, <1>4, <1>5, <1>11, <2>1, RunKeeps
  <2>10. ASSUME NEW k \in Jobs, k # j PROVE ~Started(batch[k])
    BY <1>1, <1>5, <2>10, OneStarted
  <2>11. ASSUME NEW k \in Jobs PROVE BatchOK(batch'[k], log, SettledIds) /\ BatchAhead(log, state, batch'[k])
    <3>1. CASE k = j
      BY <2>6, <2>8, <2>9, <3>1
    <3>2. CASE k # j
      BY <1>6, <2>9, <3>2
    <3> QED BY <3>1, <3>2
  <2>12. ASSUME ~refetched PROVE Frontier(log, HandledIds, state, batch')
    <3>1. s = state
      BY <1>2, <1>5, <2>12 DEF FInv, Frontier, BatchFront
    <3>2. HandledBehind(log, HandledIds, s)
      BY <1>9, <2>12, <3>1
    <3>3. HandledFirst(log, HandledIds, b)
      <4> SUFFICES ASSUME NEW k \in page, NEW i \in HandledIds PROVE Behind(log, s, i) /\ i < k
        BY <2>1 DEF HandledFirst
      <4>1. Behind(log, s, i) /\ i \in 1..Len(log)
        BY <3>2 DEF HandledBehind, HandledIds
      <4> QED BY <1>1, <1>7, <2>2, <2>3, <4>1, PageFront
    <3>4. BatchFront(log, HandledIds, state, b)
      BY <2>1, <3>1, <3>2, <3>3 DEF BatchFront
    <3>5. ASSUME NEW k \in Jobs PROVE BatchFront(log, HandledIds, state, batch'[k])
      <4>1. CASE k = j
        BY <2>9, <3>4, <4>1
      <4>2. CASE k # j
        BY <1>6, <2>9, <2>10, <4>2, NotStarted
      <4> QED BY <4>1, <4>2
    <3> QED BY <2>1, <2>9, <3>5 DEF Frontier
  <2>13. ViewStays /\ state' = state /\ refetched' = refetched
    BY <1>4 DEF ViewStays, chainVars, tables, Troubled
  <2> QED BY <1>6, <1>8, <2>11, <2>12, <2>13, WorkStep
<1> QED BY <1>10, <1>11

-----------------------------------------------------------------------------
(* The ledger moves on: a linear stream was linear, or did not exist.        *)
LEMMA KindStep ==
  ASSUME ChainOK, ChainNext, NEW t \in Streams, chain'[t].kind = "Linear"
  PROVE  chain[t].kind \in {"Linear", "none"}
<1>0. chain \in [Streams -> ChainRecord] /\ chain[t] \in ChainRecord
  BY DEF ChainOK
<1>1. ASSUME NEW s \in Streams, NEW c, chain' = [chain EXCEPT ![s] = c], chain[s].kind = "none" \/ c.kind = chain[s].kind
      PROVE  chain[t].kind \in {"Linear", "none"}
  BY <1>0, <1>1
<1>2. ASSUME NEW s \in Streams, NEW amount
      PROVE  Withdrawn(chain[s], amount).kind = chain[s].kind
  <2>1. chain[s] \in ChainRecord
    BY <1>0
  <2> QED BY <2>1 DEF Withdrawn, ChainRecord
<1>3. ASSUME NEW s \in Streams, ChainCreate(s) \/ ChainCreateMilestones(s)
      PROVE  chain[t].kind \in {"Linear", "none"}
  BY <1>1, <1>3 DEF ChainCreate, ChainCreateMilestones
<1>4. ASSUME NEW s \in Streams, ChainTopUp(s) \/ ChainPause(s) PROVE chain[t].kind \in {"Linear", "none"}
  <2>1. chain[s].kind = "Linear" /\ \A k \in Streams \ {s} : chain'[k] = chain[k]
    BY <1>0, <1>4 DEF ChainTopUp, ChainPause
  <2> QED BY <2>1
<1>5. ASSUME NEW s \in Streams, ChainCancel(s) PROVE chain[t].kind \in {"Linear", "none"}
  <2>1. chain[s].kind = "Linear" /\ \A k \in Streams \ {s} : chain'[k] = chain[k]
    BY <1>0, <1>5 DEF ChainCancel
  <2> QED BY <2>1
<1>6. ASSUME NEW s \in Streams, ChainWithdraw(s) PROVE chain[t].kind \in {"Linear", "none"}
  <2>1. PICK amount \in Claimable(s) : chain' = [chain EXCEPT ![s] = Withdrawn(chain[s], amount)]
    BY <1>6 DEF ChainWithdraw
  <2> QED BY <1>1, <1>2, <2>1
<1>7. ASSUME NEW s \in Streams, NEW s2 \in Streams, ChainBatchWithdraw(s, s2)
      PROVE  chain[t].kind \in {"Linear", "none"}
  <2>1. PICK a1 \in Claimable(s), a2 \in Claimable(s2) :
          chain' = [chain EXCEPT ![s] = Withdrawn(@, a1), ![s2] = Withdrawn(@, a2)]
    BY <1>7 DEF ChainBatchWithdraw
  <2>2. s # s2
    BY <1>7 DEF ChainBatchWithdraw
  <2>3. PICK c1, c2 : c1 = Withdrawn(chain[s], a1) /\ c2 = Withdrawn(chain[s2], a2)
    OBVIOUS
  <2>4. chain' = [chain EXCEPT ![s] = c1, ![s2] = c2]
    BY <1>0, <2>1, <2>2, <2>3
  <2>5. c1.kind = chain[s].kind /\ c2.kind = chain[s2].kind
    BY <1>2, <2>3
  <2> QED BY <1>0, <2>2, <2>4, <2>5
<1>8. ASSUME ChainOther PROVE chain[t].kind \in {"Linear", "none"}
  BY <1>8 DEF ChainOther
<1> QED BY <1>3, <1>4, <1>5, <1>6, <1>7, <1>8 DEF ChainNext

(* Cursors and pages over a log that grows.                                  *)
LEMMA BehindLater ==
  ASSUME NEW lg, NEW lg2, Extends(lg, lg2), NEW c, NEW i \in 1..Len(lg)
  PROVE  (Behind(lg2, c, i) <=> Behind(lg, c, i)) /\ (Opens(lg2, i) <=> Opens(lg, i))
BY DEF Behind, Opens, Extends

(* A cursor still names an event and its ledger.                             *)
LEMMA AlignedLater ==
  ASSUME NEW lg, NEW lg2, Extends(lg, lg2), LogOK(lg), NEW c, CursorOK(c, lg), Aligned(lg, c)
  PROVE  Aligned(lg2, c)
<1>1. c.lastCursor > 0 => c.lastCursor \in 1..Len(lg)
  BY DEF CursorOK, CursorRow, LogOK
<1> QED BY <1>1 DEF Aligned, Extends

(* A page stays in order.                                                    *)
LEMMA AheadLater ==
  ASSUME NEW lg, NEW lg2, Extends(lg, lg2), LogOK(lg), NEW D, NEW c, NEW b, BatchOK(b, lg, D), BatchAhead(lg, c, b)
  PROVE  BatchAhead(lg2, c, b)
<1>1. ASSUME Started(b) PROVE Aligned(lg2, b.read)
  BY <1>1, AlignedLater DEF BatchOK, BatchAhead
<1>2. ASSUME b.stage = "process"
      PROVE  Aligned(lg2, b.last) /\ PageInOrder(lg2, b) /\ \A i \in b.todo : ~Behind(lg2, b.read, i)
  <2>1. Aligned(lg2, b.last)
    BY <1>2, AlignedLater DEF BatchOK, BatchAhead
  <2>2. b.todo \subseteq 1..Len(lg) /\ Len(lg) \in Nat
    BY <1>2 DEF BatchOK, LogOK
  <2>3. \A y \in b.todo : 1..y \subseteq 1..Len(lg)
    BY <2>2
  <2>4. PageInOrder(lg, b) /\ \A i \in b.todo : ~Behind(lg, b.read, i)
    BY <1>2 DEF BatchAhead
  <2>5. \A i \in 1..Len(lg) : (Behind(lg2, b.read, i) <=> Behind(lg, b.read, i)) /\ (Opens(lg2, i) <=> Opens(lg, i))
    BY BehindLater
  <2>6. PageInOrder(lg2, b)
    BY <2>2, <2>3, <2>4, <2>5 DEF PageInOrder
  <2> QED BY <2>1, <2>2, <2>4, <2>5, <2>6
<1> QED BY <1>1, <1>2 DEF BatchAhead

(* What was handled stays behind what waits.                                 *)
LEMMA FrontLater ==
  ASSUME NEW lg, NEW lg2, Extends(lg, lg2), LogOK(lg), NEW D, NEW H, H \subseteq 1..Len(lg), NEW c, NEW b,
         BatchOK(b, lg, D), BatchFront(lg, H, c, b)
  PROVE  BatchFront(lg2, H, c, b)
<1>1. ASSUME b.stage = "process" PROVE HandledFirst(lg2, H, b) /\ HandledBehind(lg2, H, b.last)
  <2>1. b.todo \subseteq 1..Len(lg)
    BY <1>1 DEF BatchOK
  <2>2. HandledFirst(lg, H, b) /\ HandledBehind(lg, H, b.last)
    BY <1>1 DEF BatchFront
  <2>3. \A i \in 1..Len(lg) : /\ Behind(lg2, b.read, i) <=> Behind(lg, b.read, i)
                              /\ Behind(lg2, b.last, i) <=> Behind(lg, b.last, i)
                              /\ Opens(lg2, i) <=> Opens(lg, i)
    BY BehindLater
  <2> QED BY <2>1, <2>2, <2>3 DEF HandledFirst, HandledBehind
<1> QED BY <1>1 DEF BatchFront

-----------------------------------------------------------------------------
(* What the index says of the events it has is not touched by new ones.      *)
Later == /\ LogOK(log) /\ LogOK(log') /\ Extends(log, log') /\ RecordsOK
         /\ UNCHANGED <<rows, recorded, dead, discarded, unwritten, refetched>>

(* No record was written ahead of its event.                                 *)
LEMMA OwnLater ==
  ASSUME Later
  PROVE  /\ \A i \in 1..Len(log) : log'[i] = log[i] /\ i \in 1..Len(log') /\ (Own(i)' <=> Own(i))
         /\ \A i \in 1..Len(log') : Own(i)' => i \in 1..Len(log)
         /\ Len(log) \in Nat /\ Len(log') \in Nat /\ Len(log) <= Len(log')
<1>1. Len(log) \in Nat /\ Len(log') \in Nat /\ Len(log) <= Len(log')
  BY DEF Later, LogOK, Extends
<1>2. ASSUME NEW i \in 1..Len(log) PROVE log'[i] = log[i] /\ i \in 1..Len(log') /\ (Own(i)' <=> Own(i))
  <2>1. log'[i] = log[i] /\ i \in 1..Len(log')
    BY <1>1 DEF Later, Extends
  <2> QED BY <2>1 DEF Later, Own, Key
<1>3. ASSUME NEW i \in 1..Len(log'), Own(i)' PROVE i \in 1..Len(log)
  <2>1. PICK r : r = [key |-> Key(log[i])', streamId |-> log'[i].stream]
    OBVIOUS
  <2>2. r \in recorded
    BY <1>3, <2>1 DEF Own, Later
  <2>3. r.key.transactionHash = log'[i].tx
    BY <2>1 DEF Key
  <2>4. log'[i].tx \in Nat /\ log'[i].tx < NextTx(log) /\ NextTx(log) \in Nat
    BY <2>2, <2>3, TxBounds DEF Later, RecordsOK
  <2>5. ~(i > Len(log))
    BY <2>4 DEF Later, Extends
  <2> QED BY <1>1, <2>5
<1> QED BY <1>1, <1>2, <1>3

(* The events of a stream that were there.                                   *)
LEMMA OfLater ==
  ASSUME Later, NEW s, NEW types
  PROVE  \A i : i \in Of(s, types) <=> i \in Of(s, types)' /\ i \in 1..Len(log)
BY OwnLater DEF Of, At

(* Nothing new is credited.                                                  *)
LEMMA CreditsLater ==
  ASSUME Later, NEW s
  PROVE  SumTo(Credits(s)', Len(log')) = SumTo(Credits(s), Len(log))
<1>1. /\ \A i \in 1..Len(log) : log'[i] = log[i] /\ i \in 1..Len(log') /\ (Own(i)' <=> Own(i))
      /\ \A i \in 1..Len(log') : Own(i)' => i \in 1..Len(log)
      /\ Len(log) \in Nat /\ Len(log') \in Nat /\ Len(log) <= Len(log')
  BY OwnLater
<1>2. PICK f, n, k : f = Credits(s)' /\ n = Len(log') /\ k = Len(log)
  OBVIOUS
<1>3. \A i \in 1..n : log'[i].value \in Nat
  <2>1. \A i \in 1..n : log'[i] \in LogEvent
    BY <1>2 DEF Later, LogOK
  <2> QED BY <2>1 DEF LogEvent
<1>4. f = [i \in 1..n |-> IF Own(i)' THEN Drawn(log', s, i) ELSE 0]
  BY <1>2 DEF Credits, Credit
<1>5. \A i \in 1..n : Drawn(log', s, i) \in Nat
  BY <1>3 DEF Drawn
<1>6. f \in [1..n -> Nat] /\ n \in Nat /\ k \in 0..n
  BY <1>1, <1>2, <1>4, <1>5
<1>7. \A i \in 1..n : i > k => f[i] = 0
  BY <1>1, <1>2, <1>4
<1>8. SumTo([i \in 1..k |-> f[i]], k) = SumTo(f, n)
  BY <1>6, <1>7, SumOfFirst
<1>9. [i \in 1..k |-> f[i]] = Credits(s)
  <2>1. \A i \in 1..k : Drawn(log', s, i) = Drawn(log, s, i)
    BY <1>1, <1>2 DEF Drawn
  <2>2. \A i \in 1..k : f[i] = Credit(i, s)
    BY <1>1, <1>2, <1>4, <2>1 DEF Credit
  <2> QED BY <1>2, <2>2 DEF Credits
<1> QED BY <1>2, <1>8, <1>9

(* A row goes on showing what was handled.                                   *)
LEMMA RowShowsLater == ASSUME Later, NEW s, RowShows(s) PROVE RowShows(s)'
<1>1. /\ \A i \in 1..Len(log) : log'[i] = log[i] /\ i \in 1..Len(log') /\ (Own(i)' <=> Own(i))
      /\ \A i \in 1..Len(log') : Own(i)' => i \in 1..Len(log)
      /\ Len(log) \in Nat /\ Len(log') \in Nat /\ Len(log) <= Len(log')
  BY OwnLater
<1>2. rows' = rows /\ refetched' = refetched
  BY DEF Later
<1>3. \A types : \A i : i \in Of(s, types) <=> i \in Of(s, types)' /\ i \in 1..Len(log)
  BY OfLater
<1>4. \A types : \A i \in Of(s, types)' : i \in 1..Len(log')
  BY DEF Of, At
<1>5. ASSUME NEW types
      PROVE  /\ \A i \in Of(s, types) : i \in Of(s, types)' /\ log'[i] = log[i] /\ (Own(i)' <=> Own(i))
             /\ \A i \in Of(s, types)' : Own(i)' => i \in Of(s, types) /\ Own(i)
  BY <1>1, <1>3, <1>4
<1>6. (rows[s] # NoRow <=> \E k \in Of(s, {"stream_created"}) : Own(k))'
  BY <1>2, <1>5 DEF RowShows
<1>7. (\A i, k \in Of(s, RowTypes) : k < i /\ Own(i) => Own(k))'
  <2> SUFFICES ASSUME NEW i \in Of(s, RowTypes)', NEW k \in Of(s, RowTypes)', k < i, Own(i)' PROVE Own(k)'
    OBVIOUS
  <2>1. i \in Of(s, RowTypes) /\ Own(i) /\ i \in 1..Len(log)
    BY <1>3, <1>5
  <2>2. k \in 1..Len(log)
    <3>1. k \in 1..Len(log')
      BY <1>4
    <3> QED BY <1>1, <2>1, <3>1
  <2>3. k \in Of(s, RowTypes)
    BY <1>3, <2>2
  <2> QED BY <1>5, <2>1, <2>3 DEF RowShows
<1>8. ASSUME rows[s] # NoRow
      PROVE  (/\ \A c \in Of(s, EndTypes) : Own(c) => rows[s].withdrawnAmount = log[c].value
              /\ (\A c \in Of(s, EndTypes) : ~Own(c)) => rows[s].withdrawnAmount = SumTo(Credits(s), Len(log))
              /\ ~rows[s].isActive => \E c \in Of(s, EndTypes) : Own(c)
              /\ (\A q \in Of(s, PauseTypes) : ~Own(q)) => ~rows[s].isPaused
              /\ ~refetched => rows[s].depositedAmount =
                   IF \E t \in Of(s, {"stream_topped_up"}) : Own(t) THEN Deposit + 1 ELSE Deposit)'
  <2>1. (\A c \in Of(s, EndTypes) : Own(c) => rows[s].withdrawnAmount = log[c].value)'
    BY <1>2, <1>5, <1>8 DEF RowShows
  <2>2. ((\A c \in Of(s, EndTypes) : ~Own(c)) => rows[s].withdrawnAmount = SumTo(Credits(s), Len(log)))'
    BY <1>2, <1>5, <1>8, CreditsLater DEF RowShows
  <2>3. (~rows[s].isActive => \E c \in Of(s, EndTypes) : Own(c))'
    BY <1>2, <1>5, <1>8 DEF RowShows
  <2>4. ((\A q \in Of(s, PauseTypes) : ~Own(q)) => ~rows[s].isPaused)'
    BY <1>2, <1>5, <1>8 DEF RowShows
  <2>5. (~refetched => rows[s].depositedAmount =
                   IF \E t \in Of(s, {"stream_topped_up"}) : Own(t) THEN Deposit + 1 ELSE Deposit)'
    <3>1. (\E t \in Of(s, {"stream_topped_up"})' : Own(t)') <=> \E t \in Of(s, {"stream_topped_up"}) : Own(t)
      BY <1>5
    <3> QED BY <1>2, <1>8, <3>1 DEF RowShows
  <2> QED BY <2>1, <2>2, <2>3, <2>4, <2>5
<1> QED BY <1>2, <1>6, <1>7, <1>8 DEF RowShows

(* A transaction of the chain.                                               *)
LEMMA LedgerSettles == ASSUME FInv, Ledger PROVE FInv'
<1>1. /\ IInv /\ ChainOK /\ LogTells /\ RecordsOK /\ RowsShow /\ CursorsSettled /\ ChainNext
      /\ UNCHANGED <<rows, recorded, state, dead, discarded, unwritten, queue, batch, refetched>>
  BY DEF FInv, IInv, Ledger, tables, worker
<1>2. IInv' /\ LogTells' /\ ChainOK' /\ Extends(log, log')
  BY <1>1, LedgerKeeps, ChainTells, ChainStep
<1>3. Later
  BY <1>1, <1>2 DEF Later, ChainOK
<1>4. /\ \A i \in 1..Len(log) : log'[i] = log[i] /\ i \in 1..Len(log') /\ (Own(i)' <=> Own(i))
      /\ \A i \in 1..Len(log') : Own(i)' => i \in 1..Len(log)
      /\ Len(log) \in Nat /\ Len(log') \in Nat /\ Len(log) <= Len(log')
  BY <1>3, OwnLater
<1>5. \A i \in 1..Len(log) : /\ (Wanted(i)' <=> Wanted(i)) /\ (Recorded(log[i])' <=> Recorded(log[i]))
                             /\ (Dealt(i)' <=> Dealt(i))
  BY <1>1, <1>4 DEF Wanted, Handled, Recorded, Key, Dealt
<1>6. ASSUME NEW s, Clean(s)' PROVE Clean(s)
  BY <1>1, <1>4, <1>5, <1>6 DEF Clean, Troubled
<1>7. \A s, types : \A i : i \in Of(s, types) <=> i \in Of(s, types)' /\ i \in 1..Len(log)
  BY <1>3, OfLater
<1>8. ASSUME NEW s \in Streams, Mine(s)'
      PROVE  RowShows(s) /\ \A i : Settled(i) => SettledIn(i, s)
  <2>1. Clean(s) /\ chain[s].kind \in {"Linear", "none"}
    BY <1>1, <1>6, <1>8, KindStep DEF Mine
  <2>2. CASE chain[s].kind = "Linear"
    BY <1>1, <2>1, <2>2 DEF Mine, RowsShow, Settled
  <2>3. CASE chain[s].kind = "none"
    <3>1. \A i \in 1..Len(log) : log[i].stream = s => log[i].type = "fee_collected"
      BY <1>1, <2>3 DEF LogTells, Tells
    <3>2. /\ Of(s, RowTypes) = {} /\ Of(s, {"stream_created"}) = {} /\ Of(s, EndTypes) = {}
          /\ Of(s, PauseTypes) = {}
      BY <3>1 DEF Of, At, RowTypes, EndTypes, PauseTypes
    <3>3. rows[s] = NoRow
      BY <1>1, <3>2 DEF RowsShow
    <3> QED BY <3>2, <3>3 DEF RowShows, SettledIn, LastPause
  <2> QED BY <2>1, <2>2, <2>3
<1>9. RowsShow'
  <2>1. ASSUME NEW s \in Streams, Mine(s)' PROVE RowShows(s)'
    BY <1>3, <1>8, <2>1, RowShowsLater
  <2>2. ASSUME NEW s \in Streams, rows'[s] # NoRow PROVE Of(s, {"stream_created"})' # {}
    BY <1>1, <1>7, <2>2 DEF RowsShow
  <2> QED BY <2>1, <2>2 DEF RowsShow
<1>10. RecordsOK'
  <2>1. NextTx(log) <= NextTx(log') /\ NextTx(log) \in Nat /\ NextTx(log') \in Nat
    BY <1>3, TxBounds DEF Later, Extends
  <2>2. \A r \in recorded : r.key.transactionHash \in Nat /\ r.key.transactionHash < NextTx(log')
    BY <1>1, <2>1 DEF RecordsOK
  <2> QED BY <1>1, <2>2 DEF RecordsOK
<1>11. SettledIds \subseteq SettledIds'
  <2> SUFFICES ASSUME NEW i \in 1..Len(log), Dealt(i), Settled(i) PROVE i \in 1..Len(log') /\ Dealt(i)' /\ Settled(i)'
    BY DEF SettledIds, DealtIds
  <2>1. i \in 1..Len(log') /\ Dealt(i)' /\ log'[i] = log[i]
    BY <1>4, <1>5
  <2>2. ASSUME NEW s \in Streams, Mine(s)' PROVE SettledIn(i, s)'
    <3>1. SettledIn(i, s)
      BY <1>8, <2>2
    <3>2. i \in Of(s, EndTypes)' => i \in Of(s, EndTypes)
      BY <1>7
    <3>3. LastPause(i, s)' => LastPause(i, s)
      BY <1>7 DEF LastPause
    <3> QED BY <1>1, <2>1, <3>1, <3>2, <3>3 DEF SettledIn
  <2> QED BY <2>1, <2>2 DEF Settled
<1>12. HandledIds' = HandledIds /\ HandledIds \subseteq 1..Len(log)
  <2>1. \A i \in 1..Len(log) : Opens(log', i) <=> Opens(log, i)
    BY <1>4 DEF Opens
  <2> QED BY <1>4, <2>1 DEF HandledIds
<1>13. LogOK(log) /\ LogOK(log') /\ CursorOK(state, log)
  BY <1>1, <1>3 DEF Later, IInv, CursorsOK
<1>14. CursorsSettled'
  <2>1. Aligned(log', state) /\ Passed(state, log', SettledIds')
    <3>1. PICK D2 : D2 = SettledIds'
      OBVIOUS
    <3>2. SettledIds \subseteq D2 /\ Passed(state, log, SettledIds) /\ Aligned(log, state)
      BY <1>1, <1>11, <3>1 DEF CursorsSettled
    <3>3. Passed(state, log', D2)
      BY <1>2, <1>13, <3>2, CursorLater
    <3> QED BY <1>2, <1>13, <3>1, <3>2, <3>3, AlignedLater
  <2>2. ASSUME NEW k \in Jobs PROVE BatchOK(batch[k], log', SettledIds') /\ BatchAhead(log', state, batch[k])
    <3>1. BatchOK(batch[k], log, SettledIds) /\ BatchAhead(log, state, batch[k])
      BY <1>1 DEF CursorsSettled
    <3>2. PICK D2 : D2 = SettledIds'
      OBVIOUS
    <3>3. SettledIds \subseteq D2
      BY <1>11, <3>2
    <3>4. BatchOK(batch[k], log', D2)
      BY <1>2, <1>13, <3>1, <3>3, BatchLater
    <3>5. BatchAhead(log', state, batch[k])
      BY <1>2, <1>13, <3>1, AheadLater
    <3> QED BY <3>2, <3>4, <3>5
  <2> QED BY <1>1, <2>1, <2>2 DEF CursorsSettled
<1>15. ASSUME ~refetched PROVE Frontier(log', HandledIds, state, batch)
  <2>1. Frontier(log, HandledIds, state, batch)
    BY <1>15 DEF FInv
  <2>2. ASSUME NEW k \in Jobs PROVE BatchFront(log', HandledIds, state, batch[k])
    <3>1. BatchOK(batch[k], log, SettledIds) /\ BatchFront(log, HandledIds, state, batch[k])
      BY <1>1, <2>1 DEF CursorsSettled, Frontier
    <3> QED BY <1>2, <1>12, <1>13, <3>1, FrontLater
  <2>3. HandledBehind(log, HandledIds, state) => HandledBehind(log', HandledIds, state)
    BY <1>2, <1>12, BehindLater DEF HandledBehind
  <2> QED BY <2>1, <2>2, <2>3 DEF Frontier
<1> QED BY <1>1, <1>2, <1>9, <1>10, <1>12, <1>14, <1>15 DEF FInv

-----------------------------------------------------------------------------
(* The event a page comes to next.                                           *)
First(lg, i, ids) ==
  \A k \in ids \ {i} : IF Opens(lg, i) <=> Opens(lg, k) THEN i < k ELSE Opens(lg, i)

(* It is the one the sort puts first.                                        *)
LEMMA SortedIsFirst == ASSUME NEW i, NEW ids, sortedFirst(i, ids) PROVE First(log, i, ids)
<1> SUFFICES ASSUME NEW k \in ids \ {i}
             PROVE  IF Opens(log, i) <=> Opens(log, k) THEN i < k ELSE Opens(log, i)
  BY DEF First
<1>1. IF Created(i) = Created(k) THEN i < k ELSE Created(i)
  BY DEF sortedFirst
<1>2. (Created(i) <=> Opens(log, i)) /\ (Created(k) <=> Opens(log, k))
  BY DEF Created, Opens
<1>3. (Created(i) <=> Created(k)) => Created(i) = Created(k)
  BY DEF Created
<1>4. Created(i) = Created(k) => (Created(i) <=> Created(k))
  BY DEF Created
<1> QED BY <1>1, <1>2, <1>3, <1>4

(* What is left of a batch.                                                  *)
LEMMA TakenFields ==
  ASSUME NEW lg, LogOK(lg), NEW D, NEW b, BatchOK(b, lg, D), b.stage = "process", NEW i \in b.todo,
         NEW c \in {Skipped(b, i), Advanced(b, i, lg[i].tx)}
  PROVE  /\ c.stage = "process" /\ c.read = b.read /\ c.todo = b.todo \ {i}
         /\ c = Skipped(b, i) => c.last = b.last
         /\ c = Advanced(b, i, lg[i].tx) => c.last = StateRow(lg[i].tx, i)
<1>1. b \in [stage : {"process"}, read : CursorRow, todo : SUBSET Nat, last : CursorRow]
  BY DEF BatchOK, BatchRecord, Idle
<1>2. PICK T, n : T = b.todo \ {i} /\ n = StateRow(lg[i].tx, i)
  OBVIOUS
<1>3. CASE c = Skipped(b, i)
  <2>1. c = [b EXCEPT !.todo = T]
    BY <1>2, <1>3 DEF Skipped
  <2>2. c.stage = "process" /\ c.read = b.read /\ c.todo = T /\ c.last = b.last
    BY <1>1, <2>1
  <2>3. ASSUME c = Advanced(b, i, lg[i].tx) PROVE c.last = n
    <3>1. c = [b EXCEPT !.todo = T, !.last = n]
      BY <1>2, <2>3 DEF Advanced
    <3> QED BY <1>1, <3>1
  <2> QED BY <1>2, <2>2, <2>3
<1>4. CASE c = Advanced(b, i, lg[i].tx)
  <2>1. c = [b EXCEPT !.todo = T, !.last = n]
    BY <1>2, <1>4 DEF Advanced
  <2>2. c.stage = "process" /\ c.read = b.read /\ c.todo = T /\ c.last = n
    BY <1>1, <2>1
  <2>3. ASSUME c = Skipped(b, i) PROVE c.last = b.last
    <3>1. c = [b EXCEPT !.todo = T]
      BY <1>2, <2>3 DEF Skipped
    <3> QED BY <1>1, <3>1
  <2> QED BY <1>2, <2>2, <2>3
<1> QED BY <1>3, <1>4

(* The page stays in order.                                                  *)
LEMMA AheadTakeOne ==
  ASSUME NEW lg, LogOK(lg), NEW D, NEW s, NEW b, BatchOK(b, lg, D), b.stage = "process", BatchAhead(lg, s, b),
         NEW i \in b.todo, First(lg, i, b.todo), NEW c \in {Skipped(b, i), Advanced(b, i, lg[i].tx)}
  PROVE  BatchAhead(lg, s, c)
<1>1. /\ c.stage = "process" /\ c.read = b.read /\ c.todo = b.todo \ {i}
      /\ c = Skipped(b, i) => c.last = b.last
      /\ c = Advanced(b, i, lg[i].tx) => c.last = StateRow(lg[i].tx, i)
  BY TakenFields
<1>2. /\ Aligned(lg, b.read) /\ s.lastLedger <= b.read.lastLedger /\ s.lastCursor <= b.read.lastCursor
      /\ Aligned(lg, b.last) /\ PageInOrder(lg, b) /\ \A k \in b.todo : ~Behind(lg, b.read, k)
  BY DEF BatchAhead, Started
<1>3. i \in 1..Len(lg) /\ b.todo \subseteq 1..Len(lg) /\ Len(lg) \in Nat /\ lg[i].tx \in Nat
  <2>1. i \in 1..Len(lg) /\ b.todo \subseteq 1..Len(lg)
    BY DEF BatchOK
  <2> QED BY <2>1, TxBounds DEF LogOK
<1>4. Aligned(lg, c.last)
  <2>1. StateRow(lg[i].tx, i).lastCursor = i /\ StateRow(lg[i].tx, i).lastLedger = lg[i].tx
    BY DEF StateRow
  <2>2. Aligned(lg, StateRow(lg[i].tx, i))
    BY <1>3, <2>1 DEF Aligned
  <2> QED BY <1>1, <1>2, <2>2
<1>5. PageInOrder(lg, c)
  <2> SUFFICES ASSUME NEW k \in b.todo \ {i}, NEW y \in b.todo \ {i}, NEW x \in 1..y,
                      ~Opens(lg, x), ~Behind(lg, b.read, x), Opens(lg, k) \/ k < x
               PROVE  x \in b.todo \ {i}
    BY <1>1 DEF PageInOrder
  <2>1. x \in b.todo
    BY <1>2 DEF PageInOrder
  <2>2. ASSUME x = i PROVE FALSE
    <3>1. IF Opens(lg, i) <=> Opens(lg, k) THEN i < k ELSE Opens(lg, i)
      BY DEF First
    <3>2. ~Opens(lg, k) /\ i < k /\ k < i
      BY <2>2, <3>1
    <3> QED BY <1>3, <3>2
  <2> QED BY <2>1, <2>2
<1> QED BY <1>1, <1>2, <1>4, <1>5 DEF BatchAhead, Started

(* What was handled stays behind what waits.                                 *)
MayHandle(lg, b, i, c, H, H2) ==
  \/ H2 \subseteq H
  \/ c = Advanced(b, i, lg[i].tx) /\ H2 \subseteq H \cup {i} /\ (i \in H2 => ~Opens(lg, i))

(* The handled event itself lies behind the ones left.                       *)
LEMMA FrontTakeOne ==
  ASSUME NEW D, NEW s, NEW b, NEW i, NEW c, NEW H, NEW H2, LogOK(log), BatchOK(b, log, D), b.stage = "process",
         BatchAhead(log, s, b), i \in b.todo, First(log, i, b.todo), c \in {Skipped(b, i), Advanced(b, i, log[i].tx)},
         H \subseteq 1..Len(log), BatchFront(log, H, s, b), MayHandle(log, b, i, c, H, H2)
  PROVE  BatchFront(log, H2, s, c)
<1>1. /\ c.stage = "process" /\ c.read = b.read /\ c.todo = b.todo \ {i}
      /\ c = Skipped(b, i) => c.last = b.last
      /\ c = Advanced(b, i, log[i].tx) => c.last = StateRow(log[i].tx, i)
  BY TakenFields
<1>2. /\ HandledFirst(log, H, b) /\ HandledBehind(log, H, b.last) /\ b.read = s
      /\ \A k \in b.todo : ~Behind(log, b.read, k)
  BY DEF BatchAhead, BatchFront, Started
<1>3. i \in 1..Len(log) /\ b.todo \subseteq 1..Len(log) /\ Len(log) \in Nat /\ CursorOK(b.read, log)
  BY DEF BatchOK, LogOK, Started
<1>4. \/ H2 \subseteq H
      \/ c = Advanced(b, i, log[i].tx) /\ H2 \subseteq H \cup {i} /\ (i \in H2 => ~Opens(log, i))
  BY DEF MayHandle
<1>5. HandledFirst(log, H2, c)
  <2> SUFFICES ASSUME NEW k \in b.todo \ {i}, NEW x \in H2
               PROVE  IF Opens(log, k) THEN Behind(log, b.read, x) ELSE x < k
    BY <1>1 DEF HandledFirst
  <2>1. CASE x \in H
    BY <1>2, <2>1 DEF HandledFirst
  <2>2. CASE x = i /\ ~Opens(log, i)
    <3>1. IF Opens(log, i) <=> Opens(log, k) THEN i < k ELSE Opens(log, i)
      BY DEF First
    <3> QED BY <2>2, <3>1
  <2> QED BY <1>4, <2>1, <2>2
<1>6. HandledBehind(log, H2, c.last)
  <2>1. CASE c = Skipped(b, i) /\ H2 \subseteq H
    BY <1>1, <1>2, <2>1 DEF HandledBehind
  <2>2. CASE c = Advanced(b, i, log[i].tx)
    <3>1. PICK n : n = StateRow(log[i].tx, i)
      OBVIOUS
    <3>2. n.lastCursor = i /\ n.lastLedger = log[i].tx /\ c.last = n
      BY <1>1, <2>2, <3>1 DEF StateRow
    <3>3. ASSUME NEW x \in H PROVE x <= i
      <4>1. IF Opens(log, i) THEN Behind(log, b.read, x) ELSE x < i
        BY <1>2 DEF HandledFirst
      <4>2. x \in 1..Len(log)
        OBVIOUS
      <4>3. CASE Behind(log, b.read, x)
        <5>1. x < i
          BY <1>2, <1>3, <4>2, <4>3, PageFront
        <5> QED BY <1>3, <4>2, <5>1
      <4>4. CASE x < i
        BY <1>3, <4>2, <4>4
      <4> QED BY <4>1, <4>3, <4>4
    <3>4. ASSUME NEW x \in H2 PROVE Behind(log, n, x)
      <4>1. x \in H \/ x = i
        BY <1>4
      <4>2. x <= i
        <5>1. CASE x \in H
          BY <3>3, <5>1
        <5>2. CASE x = i
          BY <1>3, <5>2
        <5> QED BY <4>1, <5>1, <5>2
      <4> QED BY <3>2, <4>2 DEF Behind
    <3> QED BY <3>2, <3>4 DEF HandledBehind
  <2> QED BY <1>4, <2>1, <2>2
<1> QED BY <1>1, <1>2, <1>5, <1>6 DEF BatchFront

-----------------------------------------------------------------------------
(* What a handler does to a row.                                             *)
RowFrom(row, e, seen, new) ==
  /\ new \in StreamRow
  /\ new.withdrawnAmount = IF e.type \in EndTypes THEN e.value
                           ELSE IF e.type = "tokens_withdrawn" /\ ~seen THEN row.withdrawnAmount + e.value
                           ELSE row.withdrawnAmount
  /\ new.depositedAmount = IF e.type = "stream_created" \/ (e.type = "stream_topped_up" /\ ~seen) THEN e.value
                           ELSE row.depositedAmount
  /\ new.isActive <=> (e.type = "stream_created" \/ (e.type \notin EndTypes /\ row.isActive))
  /\ new.isPaused <=> (e.type = "stream_paused" \/ (e.type # "stream_resumed" /\ row.isPaused))

(* The handlers, field by field.                                             *)
LEMMA RowFields ==
  ASSUME NEW e \in LogEvent, e.type \in RowTypes, rows[e.stream] \in StreamRow
  PROVE  RowFrom(rows[e.stream], e, Recorded(e), RowAfter(e))
<1>1. PICK row, new, v : row = rows[e.stream] /\ new = RowAfter(e) /\ v = e.value
  OBVIOUS
<1>2. v \in Nat /\ row \in StreamRow
  BY <1>1 DEF LogEvent
<1>3. row.withdrawnAmount \in Nat /\ row.isActive \in BOOLEAN /\ row.isPaused \in BOOLEAN
  BY <1>2 DEF StreamRow
<1>4. row # NoRow
  BY <1>2 DEF StreamRow, NoRow
<1>5. RowFrom(row, e, Recorded(e), new)
  <2>1. CASE e.type = "stream_created"
    <3>1. new = [row EXCEPT !.depositedAmount = v, !.isActive = TRUE]
      BY <1>1, <1>4, <2>1 DEF RowAfter, handleStreamCreated
    <3>2. /\ new \in StreamRow /\ new.withdrawnAmount = row.withdrawnAmount /\ new.depositedAmount = v
          /\ new.isActive = TRUE /\ new.isPaused = row.isPaused
      BY <1>2, <3>1 DEF StreamRow
    <3> QED BY <1>1, <2>1, <3>2 DEF RowFrom, EndTypes
  <2>2. CASE e.type = "stream_topped_up"
    <3>1. new = IF Recorded(e) THEN row ELSE [row EXCEPT !.depositedAmount = v]
      BY <1>1, <2>2 DEF RowAfter, handleStreamToppedUp
    <3>2. /\ new \in StreamRow /\ new.withdrawnAmount = row.withdrawnAmount
          /\ new.depositedAmount = (IF Recorded(e) THEN row.depositedAmount ELSE v)
          /\ new.isActive = row.isActive /\ new.isPaused = row.isPaused
      BY <1>2, <3>1 DEF StreamRow
    <3> QED BY <1>1, <2>2, <3>2 DEF RowFrom, EndTypes
  <2>3. CASE e.type = "tokens_withdrawn"
    <3>0. PICK w : w = row.withdrawnAmount + v
      OBVIOUS
    <3>1. new = IF Recorded(e) THEN row ELSE [row EXCEPT !.withdrawnAmount = w]
      BY <1>1, <2>3, <3>0 DEF RowAfter, handleTokensWithdrawn
    <3>2. w \in Nat
      BY <1>2, <1>3, <3>0
    <3>3. /\ new \in StreamRow /\ new.withdrawnAmount = (IF Recorded(e) THEN row.withdrawnAmount ELSE w)
          /\ new.depositedAmount = row.depositedAmount
          /\ new.isActive = row.isActive /\ new.isPaused = row.isPaused
      BY <1>2, <3>1, <3>2 DEF StreamRow
    <3> QED BY <1>1, <2>3, <3>0, <3>3 DEF RowFrom, EndTypes
  <2>4. CASE e.type \in EndTypes
    <3>1. new = [row EXCEPT !.isActive = FALSE, !.withdrawnAmount = v]
      BY <1>1, <2>4 DEF RowAfter, handleStreamCancelled, handleStreamCompleted, EndTypes
    <3>2. /\ new \in StreamRow /\ new.withdrawnAmount = v /\ new.depositedAmount = row.depositedAmount
          /\ new.isActive = FALSE /\ new.isPaused = row.isPaused
      BY <1>2, <3>1 DEF StreamRow
    <3> QED BY <1>1, <2>4, <3>2 DEF RowFrom, EndTypes
  <2>5. CASE e.type \in PauseTypes
    <3>1. new = [row EXCEPT !.isPaused = (e.type = "stream_paused")]
      BY <1>1, <2>5 DEF RowAfter, handleStreamPaused, handleStreamResumed, PauseTypes
    <3>2. /\ new \in StreamRow /\ new.withdrawnAmount = row.withdrawnAmount
          /\ new.depositedAmount = row.depositedAmount /\ new.isActive = row.isActive
      BY <1>2, <3>1 DEF StreamRow
    <3>3. new.isPaused <=> e.type = "stream_paused"
      BY <1>2, <3>1 DEF StreamRow
    <3> QED BY <1>1, <2>5, <3>2, <3>3 DEF RowFrom, EndTypes, PauseTypes
  <2> QED BY <2>1, <2>2, <2>3, <2>4, <2>5 DEF RowTypes
<1> QED BY <1>1, <1>5

(* What a creation does when there is none.                                  *)
LEMMA NewRowFields ==
  ASSUME NEW e \in LogEvent, e.type = "stream_created", rows[e.stream] = NoRow
  PROVE  LET new == RowAfter(e) IN
         /\ new \in StreamRow /\ new.withdrawnAmount = 0 /\ new.depositedAmount = e.value
         /\ new.isActive /\ ~new.isPaused
<1>1. e.value \in Nat
  BY DEF LogEvent
<1>2. RowAfter(e) = [present |-> TRUE, depositedAmount |-> e.value, withdrawnAmount |-> 0,
                     isActive |-> TRUE, isPaused |-> FALSE]
  BY DEF RowAfter, handleStreamCreated
<1> QED BY <1>1, <1>2 DEF StreamRow

-----------------------------------------------------------------------------
(* The handler of event m succeeds.                                          *)
Handles(m) ==
  /\ m \in 1..Len(log) /\ Succeeds(log[m]) /\ processEvent(log[m])
  /\ UNCHANGED <<log, chain, dead, discarded, unwritten, refetched>>

(* It is recorded, under its own key or that of an earlier event of its transaction. *)
LEMMA HandledRecords ==
  ASSUME LogOK(log), LogKeys(log), RecordsOK, NEW m, Handles(m)
  PROVE  /\ RecordsOK' /\ recorded \subseteq recorded'
         /\ Handled(log[m]) => Recorded(log[m])'
         /\ \A i \in 1..Len(log) : /\ Own(i) => Own(i)'
                                   /\ Own(i)' => Own(i) \/ i = m
                                   /\ Recorded(log[i]) => Recorded(log[i])'
         /\ Recorded(log[m]) => recorded' = recorded
<1>1. PICK e, r : e = log[m] /\ r = [key |-> Key(e), streamId |-> e.stream]
  OBVIOUS
<1>2. /\ m \in 1..Len(log) /\ log' = log /\ r.key = Key(e) /\ Key(e).transactionHash = e.tx
  BY <1>1 DEF Handles, Key
<1>3. recorded' = recorded \/ (Handled(e) /\ ~Recorded(e) /\ recorded' = recorded \cup {r})
  BY <1>1 DEF Handles, processEvent
<1>4. Handled(e) /\ ~Recorded(e) => r \in recorded'
  BY <1>1 DEF Handles, processEvent
<1>5. e.tx \in Nat /\ e.tx < NextTx(log)
  BY <1>1, <1>2, TxBounds
<1>6. ASSUME ~Recorded(e), NEW q \in recorded PROVE q.key # r.key
  BY <1>2, <1>6 DEF Recorded
<1>7. RecordsOK'
  <2>1. CASE recorded' = recorded
    BY <1>2, <2>1 DEF RecordsOK
  <2>2. CASE ~Recorded(e) /\ recorded' = recorded \cup {r}
    BY <1>2, <1>5, <1>6, <2>2 DEF RecordsOK
  <2> QED BY <1>3, <2>1, <2>2
<1>8. recorded \subseteq recorded' /\ (Recorded(e) => recorded' = recorded)
  BY <1>3
<1>9. Handled(e) => Recorded(e)'
  <2>1. Recorded(e) => Recorded(e)'
    BY <1>8 DEF Recorded, Key
  <2>2. r \in recorded' => Recorded(e)'
    BY <1>2 DEF Recorded, Key
  <2> QED BY <1>4, <2>1, <2>2
<1>10. ASSUME NEW i \in 1..Len(log)
       PROVE  /\ Own(i) => Own(i)'
              /\ Own(i)' => Own(i) \/ i = m
              /\ Recorded(log[i]) => Recorded(log[i])'
  <2>1. PICK q : q = [key |-> Key(log[i]), streamId |-> log[i].stream]
    OBVIOUS
  <2>2. (Own(i) <=> q \in recorded) /\ (Own(i)' <=> q \in recorded')
    BY <1>2, <2>1 DEF Own, Key
  <2>3. ASSUME q = r PROVE i = m
    <3>1. q.key = r.key /\ q.streamId = r.streamId
      BY <2>3
    <3>2. Key(log[i]) = Key(log[m]) /\ log[i].stream = log[m].stream
      BY <1>1, <2>1, <3>1
    <3>3. log[i].tx = log[m].tx /\ log[i].type = log[m].type
      <4>1. /\ Key(log[i]).transactionHash = log[i].tx /\ Key(log[i]).eventType = log[i].type
            /\ Key(log[m]).transactionHash = log[m].tx /\ Key(log[m]).eventType = log[m].type
        BY DEF Key
      <4> QED BY <3>2, <4>1
    <3> QED BY <1>2, <3>2, <3>3 DEF LogKeys
  <2>4. Recorded(log[i]) => Recorded(log[i])'
    BY <1>2, <1>8 DEF Recorded, Key
  <2> QED BY <1>3, <1>8, <2>2, <2>3, <2>4
<1>11. Handled(log[m]) => Recorded(log[m])'
  BY <1>1, <1>2, <1>9 DEF Recorded, Key
<1> QED BY <1>1, <1>7, <1>8, <1>10, <1>11

(* Only the row of its stream may change.                                    *)
LEMMA HandledRows ==
  ASSUME rows \in [Streams -> StreamRow \cup {NoRow}], NEW m, Handles(m)
  PROVE  /\ \A t \in Streams : t # log[m].stream \/ log[m].type \notin RowTypes => rows'[t] = rows[t]
         /\ log[m].stream \in Streams /\ log[m].type \in RowTypes => rows'[log[m].stream] = RowAfter(log[m])
<1>1. PICK e : e = log[m]
  OBVIOUS
<1>2. CASE ~Handled(e)
  <2>1. rows' = rows /\ e.type \notin RowTypes
    BY <1>1, <1>2 DEF Handles, processEvent, Handled, StreamTypes, RowTypes, EndTypes, PauseTypes
  <2> QED BY <1>1, <2>1
<1>3. CASE Handled(e)
  <2>1. PICK r : r = RowAfter(e)
    OBVIOUS
  <2>2. rows' = IF e.type \in SystemTypes THEN rows ELSE [rows EXCEPT ![e.stream] = r]
    BY <1>1, <1>3, <2>1 DEF Handles, processEvent
  <2>3. e.type \in RowTypes => e.type \notin SystemTypes
    BY DEF RowTypes, EndTypes, PauseTypes, SystemTypes
  <2>4. e.type \notin RowTypes => r = rows[e.stream]
    BY <2>1 DEF RowAfter, RowTypes, EndTypes, PauseTypes
  <2> QED BY <1>1, <2>1, <2>2, <2>3, <2>4
<1> QED BY <1>2, <1>3

(* Clean afterwards, clean before.                                           *)
LEMMA HandledClean ==
  ASSUME LogOK(log), LogKeys(log), RecordsOK, NEW m, Handles(m), NEW s, Mine(s)'
  PROVE  Mine(s)
<1>1. /\ log' = log /\ chain' = chain /\ Troubled' = Troubled
  BY DEF Handles, Troubled
<1>2. /\ \A i \in 1..Len(log) : /\ Own(i) => Own(i)'
                                /\ Own(i)' => Own(i) \/ i = m
                                /\ Recorded(log[i]) => Recorded(log[i])'
      /\ Recorded(log[m]) => recorded' = recorded
  BY HandledRecords
<1>3. Recorded(log[m]) /\ Own(m)' => Own(m)
  BY <1>1, <1>2 DEF Own, Key
<1>4. \A i : Wanted(i)' <=> Wanted(i)
  BY <1>1 DEF Wanted, Handled
<1>5. Clean(s)'
  BY DEF Mine
<1>6. \A i \in 1..Len(log) : log[i].stream = s /\ Wanted(i) =>
        i \notin Troubled /\ (Recorded(log[i])' => Own(i)')
  BY <1>1, <1>4, <1>5 DEF Clean
<1>7. Clean(s)
  BY <1>2, <1>3, <1>6 DEF Clean
<1> QED BY <1>1, <1>7 DEF Mine

(* A row whose events are left alone.                                        *)
LEMMA RowUntouched ==
  ASSUME NEW s, log' = log, refetched' = refetched, rows'[s] = rows[s],
         \A i \in Of(s, RowTypes) : Own(i)' <=> Own(i)
  PROVE  /\ RowShows(s) => RowShows(s)'
         /\ \A i : SettledIn(i, s)' <=> SettledIn(i, s)
<1>1. \A types : Of(s, types)' = Of(s, types)
  BY DEF Of
<1>2. /\ Of(s, {"stream_created"}) \subseteq Of(s, RowTypes) /\ Of(s, {"stream_topped_up"}) \subseteq Of(s, RowTypes)
      /\ Of(s, EndTypes) \subseteq Of(s, RowTypes) /\ Of(s, PauseTypes) \subseteq Of(s, RowTypes)
  BY OfSubset, Kinds
<1>3. Credits(s)' = Credits(s)
  <2>1. ASSUME NEW i \in 1..Len(log) PROVE Credit(i, s)' = Credit(i, s)
    <3>1. CASE i \in Of(s, RowTypes)
      BY <3>1 DEF Credit
    <3>2. CASE i \notin Of(s, RowTypes)
      <4>1. Drawn(log, s, i) = 0
        BY <3>2 DEF Drawn, Of, At, RowTypes
      <4> QED BY <4>1 DEF Credit
    <3> QED BY <3>1, <3>2
  <2> QED BY <2>1 DEF Credits
<1>4. ASSUME RowShows(s) PROVE RowShows(s)'
  BY <1>1, <1>2, <1>3, <1>4 DEF RowShows
<1>5. \A i : SettledIn(i, s)' <=> SettledIn(i, s)
  BY <1>1 DEF SettledIn, LastPause
<1> QED BY <1>4, <1>5

-----------------------------------------------------------------------------
(* The life of a linear stream as its events tell it: created once and       *)
(* first, ended at most once and last.                                       *)
Told(s) ==
  /\ \A k \in Of(s, {"stream_created"}) : log[k].value = Deposit /\ \A i \in Of(s, RowTypes) : k <= i
  /\ Of(s, {"stream_created"}) # {}
  /\ \A i \in Of(s, {"stream_topped_up"}) : log[i].value = Deposit + 1
  /\ \A c \in Of(s, EndTypes) : Of(s, EndTypes) = {c} /\ \A i \in Of(s, RowTypes) : i <= c

(* The log tells such a life of every linear stream.                         *)
LEMMA LinearTold ==
  ASSUME LogTells, NEW s \in Streams, chain[s].kind = "Linear", chain[s] \in ChainRecord PROVE Told(s)
<1>1. /\ TellsOpening(log, Len(log), s, chain[s])
      /\ chain[s].is_active => TellsLife(log, Len(log), s, chain[s])
      /\ ~chain[s].is_active => TellsEnd(log, Len(log), s, chain[s])
  BY DEF LogTells, Tells
<1>2. PICK k \in 1..Len(log) : /\ Of(s, {"stream_created"}) = {k} /\ log[k].value = Deposit
                               /\ \A i \in Of(s, RowTypes) : k <= i
  BY <1>1 DEF TellsOpening, Of
<1>3. \A i \in Of(s, {"stream_topped_up"}) : log[i].value = Deposit + 1
  BY <1>1 DEF TellsOpening, Of
<1>4. ASSUME NEW c \in Of(s, EndTypes) PROVE Of(s, EndTypes) = {c} /\ \A i \in Of(s, RowTypes) : i <= c
  <2>1. ~chain[s].is_active
    BY <1>1 DEF TellsLife, Of
  <2>2. PICK x \in 1..Len(log) : Of(s, EndTypes) = {x} /\ \A i \in Of(s, RowTypes) : i <= x
    BY <1>1, <2>1 DEF TellsEnd, Of
  <2>3. x = c
    BY <2>2
  <2> QED BY <2>2, <2>3
<1> QED BY <1>2, <1>3, <1>4 DEF Told

(* An event of the stream is handled, in its order.                          *)
Takes(s, m) ==
  /\ log' = log /\ refetched' = refetched /\ LogOK(log) /\ Told(s)
  /\ m \in Of(s, RowTypes) /\ Own(m)'
  /\ \A i \in Of(s, RowTypes) : i # m => (Own(i)' <=> Own(i))
  /\ \A k \in Of(s, RowTypes) : k < m => Own(k)
  /\ ~refetched /\ Opens(log, m) => \A t \in Of(s, {"stream_topped_up"}) : ~Own(t)

RowBegins(new) ==
  new \in StreamRow /\ new.withdrawnAmount = 0 /\ new.depositedAmount = Deposit /\ new.isActive /\ ~new.isPaused

(* What follows for the events of the stream.                                *)
LEMMA TakesFacts ==
  ASSUME NEW s, NEW m, Takes(s, m)
  PROVE  /\ \A types : Of(s, types)' = Of(s, types)
         /\ Of(s, {"stream_created"}) \subseteq Of(s, RowTypes) /\ Of(s, {"stream_topped_up"}) \subseteq Of(s, RowTypes)
         /\ Of(s, EndTypes) \subseteq Of(s, RowTypes) /\ Of(s, PauseTypes) \subseteq Of(s, RowTypes)
         /\ Of(s, RowTypes) \subseteq 1..Len(log) /\ Len(log) \in Nat
         /\ m \in 1..Len(log) /\ log[m].stream = s /\ log[m].type \in RowTypes
         /\ \A types : m \in Of(s, types) <=> log[m].type \in types
         /\ \A i \in Of(s, RowTypes) : Own(i)' <=> Own(i) \/ i = m
<1>1. \A types : Of(s, types)' = Of(s, types)
  BY DEF Takes, Of
<1>2. /\ Of(s, {"stream_created"}) \subseteq Of(s, RowTypes) /\ Of(s, {"stream_topped_up"}) \subseteq Of(s, RowTypes)
      /\ Of(s, EndTypes) \subseteq Of(s, RowTypes) /\ Of(s, PauseTypes) \subseteq Of(s, RowTypes)
  BY OfSubset, Kinds
<1>3. Of(s, RowTypes) \subseteq 1..Len(log) /\ Len(log) \in Nat
  BY DEF Of, At, Takes, LogOK
<1>4. m \in 1..Len(log) /\ log[m].stream = s /\ log[m].type \in RowTypes
      /\ \A types : m \in Of(s, types) <=> log[m].type \in types
  BY DEF Takes, Of, At
<1>5. \A i \in Of(s, RowTypes) : Own(i)' <=> Own(i) \/ i = m
  BY DEF Takes
<1> QED BY <1>1, <1>2, <1>3, <1>4, <1>5

(* What is credited once the event is handled.                               *)
LEMMA CreditsTaken ==
  ASSUME NEW s, NEW m, Takes(s, m)
  PROVE  SumTo(Credits(s)', Len(log)) = SumTo(Credits(s), Len(log))
           + IF log[m].type = "tokens_withdrawn" /\ ~Own(m) THEN log[m].value ELSE 0
<1>1. /\ \A i \in Of(s, RowTypes) : Own(i)' <=> Own(i) \/ i = m
      /\ m \in 1..Len(log) /\ log[m].stream = s /\ Len(log) \in Nat /\ log' = log
  BY TakesFacts DEF Takes
<1>2. PICK f, h, n : f = Credits(s) /\ h = Credits(s)' /\ n = Len(log)
  OBVIOUS
<1>3. \A i \in 1..n : Drawn(log, s, i) \in Nat
  <2>1. \A i \in 1..n : log[i] \in LogEvent
    BY <1>2 DEF Takes, LogOK
  <2>2. \A i \in 1..n : log[i].value \in Nat
    BY <2>1 DEF LogEvent
  <2> QED BY <2>2 DEF Drawn
<1>4. f = [i \in 1..n |-> IF Own(i) THEN Drawn(log, s, i) ELSE 0]
  BY <1>2 DEF Credits, Credit
<1>5. h = [i \in 1..n |-> IF Own(i)' THEN Drawn(log, s, i) ELSE 0]
  BY <1>1, <1>2 DEF Credits, Credit
<1>6. f \in [1..n -> Nat] /\ h \in [1..n -> Nat]
  BY <1>3, <1>4, <1>5
<1>7. ASSUME NEW i \in 1..n, i # m PROVE h[i] = f[i]
  <2>1. CASE i \in Of(s, RowTypes)
    BY <1>1, <1>4, <1>5, <1>7, <2>1
  <2>2. CASE i \notin Of(s, RowTypes)
    <3>1. Drawn(log, s, i) = 0
      BY <1>2, <2>2 DEF Drawn, Of, At, RowTypes
    <3> QED BY <1>4, <1>5, <3>1
  <2> QED BY <2>1, <2>2
<1>8. Own(m)' /\ h[m] = Drawn(log, s, m) /\ f[m] = IF Own(m) THEN Drawn(log, s, m) ELSE 0
  BY <1>1, <1>2, <1>4, <1>5 DEF Takes
<1>9. Drawn(log, s, m) = IF log[m].type = "tokens_withdrawn" THEN log[m].value ELSE 0
  BY <1>1 DEF Drawn
<1>10. SumTo(h, n) = SumTo(f, n) + h[m] - f[m]
  <2>1. f \in [1..n -> Int] /\ h \in [1..n -> Int] /\ m \in 1..n /\ n \in Nat
    BY <1>1, <1>2, <1>6
  <2> QED BY <1>7, <2>1, SumUpdate
<1>11. SumTo(f, n) \in Nat /\ Drawn(log, s, m) \in Nat
  BY <1>1, <1>2, <1>3, <1>6, SumNat
<1>12. SumTo(h, n) = SumTo(f, n) + IF log[m].type = "tokens_withdrawn" /\ ~Own(m) THEN log[m].value ELSE 0
  BY <1>8, <1>9, <1>10, <1>11
<1> QED BY <1>2, <1>12

(* The row goes on telling what was handled.                                 *)
LEMMA RowTaken ==
  ASSUME NEW s, NEW m, Takes(s, m), RowShows(s), rows[s] # NoRow, RowFrom(rows[s], log[m], Own(m), rows'[s])
  PROVE  RowShows(s)'
<1>1. /\ \A types : Of(s, types)' = Of(s, types)
      /\ Of(s, {"stream_created"}) \subseteq Of(s, RowTypes) /\ Of(s, {"stream_topped_up"}) \subseteq Of(s, RowTypes)
      /\ Of(s, EndTypes) \subseteq Of(s, RowTypes) /\ Of(s, PauseTypes) \subseteq Of(s, RowTypes)
      /\ Of(s, RowTypes) \subseteq 1..Len(log) /\ Len(log) \in Nat
      /\ m \in 1..Len(log) /\ log[m].stream = s /\ log[m].type \in RowTypes
      /\ \A types : m \in Of(s, types) <=> log[m].type \in types
      /\ \A i \in Of(s, RowTypes) : Own(i)' <=> Own(i) \/ i = m
  BY TakesFacts
<1>2. /\ log' = log /\ refetched' = refetched /\ Told(s) /\ m \in Of(s, RowTypes)
      /\ \A k \in Of(s, RowTypes) : k < m => Own(k)
      /\ ~refetched /\ Opens(log, m) => \A t \in Of(s, {"stream_topped_up"}) : ~Own(t)
  BY DEF Takes
<1>3. PICK row, new, e : row = rows[s] /\ new = rows'[s] /\ e = log[m]
  OBVIOUS
<1>4. /\ new \in StreamRow
      /\ new.withdrawnAmount = IF e.type \in EndTypes THEN e.value
                               ELSE IF e.type = "tokens_withdrawn" /\ ~Own(m) THEN row.withdrawnAmount + e.value
                               ELSE row.withdrawnAmount
      /\ new.depositedAmount = IF e.type = "stream_created" \/ (e.type = "stream_topped_up" /\ ~Own(m)) THEN e.value
                               ELSE row.depositedAmount
      /\ new.isActive <=> (e.type = "stream_created" \/ (e.type \notin EndTypes /\ row.isActive))
      /\ new.isPaused <=> (e.type = "stream_paused" \/ (e.type # "stream_resumed" /\ row.isPaused))
  BY <1>3 DEF RowFrom
<1>5. /\ \E k \in Of(s, {"stream_created"}) : Own(k)
      /\ \A i, k \in Of(s, RowTypes) : k < i /\ Own(i) => Own(k)
      /\ \A c \in Of(s, EndTypes) : Own(c) => row.withdrawnAmount = log[c].value
      /\ (\A c \in Of(s, EndTypes) : ~Own(c)) => row.withdrawnAmount = SumTo(Credits(s), Len(log))
      /\ ~row.isActive => \E c \in Of(s, EndTypes) : Own(c)
      /\ (\A q \in Of(s, PauseTypes) : ~Own(q)) => ~row.isPaused
      /\ ~refetched => row.depositedAmount =
           IF \E t \in Of(s, {"stream_topped_up"}) : Own(t) THEN Deposit + 1 ELSE Deposit
  BY <1>3 DEF RowShows
<1>6. new # NoRow
  BY <1>4 DEF StreamRow, NoRow
<1>7. \E k \in Of(s, {"stream_created"}) : Own(k)'
  BY <1>1, <1>5
<1>8. \A i, k \in Of(s, RowTypes) : k < i /\ Own(i)' => Own(k)'
  BY <1>1, <1>2, <1>5
<1>9. ASSUME NEW c \in Of(s, EndTypes), Own(c)' PROVE new.withdrawnAmount = log[c].value
  <2>1. CASE e.type \in EndTypes
    <3>1. m \in Of(s, EndTypes)
      BY <1>1, <1>3, <2>1
    <3>2. c = m
      BY <1>2, <3>1 DEF Told
    <3> QED BY <1>3, <1>4, <2>1, <3>2
  <2>2. CASE e.type \notin EndTypes
    <3>1. m \notin Of(s, EndTypes)
      BY <1>1, <1>3, <2>2
    <3>2. c # m /\ Own(c) /\ c \in Of(s, RowTypes)
      BY <1>1, <1>9, <3>1
    <3>3. m <= c /\ m \in Nat /\ c \in Nat
      BY <1>1, <1>2, <3>2 DEF Told
    <3>4. Own(m)
      BY <1>2, <1>5, <3>2, <3>3
    <3> QED BY <1>4, <1>5, <2>2, <3>2, <3>4
  <2> QED BY <2>1, <2>2
<1>10. ASSUME \A c \in Of(s, EndTypes) : ~Own(c)' PROVE new.withdrawnAmount = SumTo(Credits(s)', Len(log))
  <2>1. m \notin Of(s, EndTypes) /\ \A c \in Of(s, EndTypes) : ~Own(c)
    BY <1>1, <1>2, <1>10
  <2>2. e.type \notin EndTypes
    BY <1>1, <1>3, <2>1
  <2>3. row.withdrawnAmount = SumTo(Credits(s), Len(log))
    BY <1>5, <2>1
  <2>4. SumTo(Credits(s)', Len(log)) = SumTo(Credits(s), Len(log))
          + IF e.type = "tokens_withdrawn" /\ ~Own(m) THEN e.value ELSE 0
    BY <1>3, CreditsTaken
  <2>5. row.withdrawnAmount \in Nat
    <3>1. \A i \in 1..Len(log) : Drawn(log, s, i) \in Nat
      <4>1. \A i \in 1..Len(log) : log[i] \in LogEvent
        BY DEF Takes, LogOK
      <4>2. \A i \in 1..Len(log) : log[i].value \in Nat
        BY <4>1 DEF LogEvent
      <4> QED BY <4>2 DEF Drawn
    <3>2. Credits(s) \in [1..Len(log) -> Nat]
      BY <3>1 DEF Credits, Credit
    <3> QED BY <1>1, <2>3, <3>2, SumNat
  <2> QED BY <1>4, <2>2, <2>3, <2>4, <2>5
<1>11. ~new.isActive => \E c \in Of(s, EndTypes) : Own(c)'
  <2>1. CASE e.type \in EndTypes
    BY <1>1, <1>2, <1>3, <2>1
  <2>2. CASE e.type \notin EndTypes
    BY <1>1, <1>4, <1>5, <2>2
  <2> QED BY <2>1, <2>2
<1>12. ASSUME \A q \in Of(s, PauseTypes) : ~Own(q)' PROVE ~new.isPaused
  <2>1. m \notin Of(s, PauseTypes) /\ \A q \in Of(s, PauseTypes) : ~Own(q)
    BY <1>1, <1>2, <1>12
  <2>2. e.type \notin PauseTypes
    BY <1>1, <1>3, <2>1
  <2> QED BY <1>4, <1>5, <2>1, <2>2 DEF PauseTypes
<1>13. ASSUME ~refetched
       PROVE  new.depositedAmount = IF \E t \in Of(s, {"stream_topped_up"}) : Own(t)' THEN Deposit + 1 ELSE Deposit
  <2>1. CASE e.type = "stream_created"
    <3>1. m \in Of(s, {"stream_created"}) /\ m \notin Of(s, {"stream_topped_up"}) /\ Opens(log, m)
      BY <1>1, <1>3, <2>1 DEF Opens
    <3>2. e.value = Deposit
      BY <1>2, <1>3, <3>1 DEF Told
    <3>3. \A t \in Of(s, {"stream_topped_up"}) : ~Own(t)'
      BY <1>1, <1>2, <1>13, <3>1
    <3> QED BY <1>4, <2>1, <3>2, <3>3
  <2>2. CASE e.type = "stream_topped_up"
    <3>1. m \in Of(s, {"stream_topped_up"})
      BY <1>1, <1>3, <2>2
    <3>2. e.value = Deposit + 1
      BY <1>2, <1>3, <3>1 DEF Told
    <3>3. \E t \in Of(s, {"stream_topped_up"}) : Own(t)'
      BY <1>1, <3>1
    <3>4. CASE Own(m)
      BY <1>4, <1>5, <1>13, <2>2, <3>1, <3>3, <3>4
    <3>5. CASE ~Own(m)
      BY <1>4, <2>2, <3>2, <3>3, <3>5
    <3> QED BY <3>4, <3>5
  <2>3. CASE e.type \notin {"stream_created", "stream_topped_up"}
    <3>1. m \notin Of(s, {"stream_topped_up"})
      BY <1>1, <1>3, <2>3
    <3>2. (\E t \in Of(s, {"stream_topped_up"}) : Own(t)') <=> \E t \in Of(s, {"stream_topped_up"}) : Own(t)
      BY <1>1, <3>1
    <3> QED BY <1>4, <1>5, <1>13, <2>3, <3>2
  <2> QED BY <2>1, <2>2, <2>3
<1> QED BY <1>1, <1>2, <1>3, <1>6, <1>7, <1>8, <1>9, <1>10, <1>11, <1>12, <1>13 DEF RowShows

(* The row begins with its creation.                                         *)
LEMMA RowOpened ==
  ASSUME NEW s, NEW m, Takes(s, m), RowShows(s), rows[s] = NoRow, Opens(log, m), RowBegins(rows'[s])
  PROVE  RowShows(s)'
<1>1. /\ \A types : Of(s, types)' = Of(s, types)
      /\ Of(s, {"stream_created"}) \subseteq Of(s, RowTypes) /\ Of(s, {"stream_topped_up"}) \subseteq Of(s, RowTypes)
      /\ Of(s, EndTypes) \subseteq Of(s, RowTypes) /\ Of(s, PauseTypes) \subseteq Of(s, RowTypes)
      /\ Of(s, RowTypes) \subseteq 1..Len(log) /\ Len(log) \in Nat
      /\ m \in 1..Len(log) /\ log[m].stream = s /\ log[m].type \in RowTypes
      /\ \A types : m \in Of(s, types) <=> log[m].type \in types
      /\ \A i \in Of(s, RowTypes) : Own(i)' <=> Own(i) \/ i = m
  BY TakesFacts
<1>2. log' = log /\ refetched' = refetched /\ Told(s) /\ m \in Of(s, RowTypes)
  BY DEF Takes
<1>3. PICK new : new = rows'[s]
  OBVIOUS
<1>4. /\ new \in StreamRow /\ new.withdrawnAmount = 0 /\ new.depositedAmount = Deposit
      /\ new.isActive /\ ~new.isPaused /\ new # NoRow
  <2>1. /\ new \in StreamRow /\ new.withdrawnAmount = 0 /\ new.depositedAmount = Deposit
        /\ new.isActive /\ ~new.isPaused
    BY <1>3 DEF RowBegins
  <2>2. new # NoRow
    BY <2>1 DEF StreamRow, NoRow
  <2> QED BY <2>1, <2>2
<1>5. m \in Of(s, {"stream_created"}) /\ m \notin Of(s, {"stream_topped_up"}) /\ m \notin Of(s, EndTypes)
      /\ m \notin Of(s, PauseTypes)
  <2>1. log[m].type = "stream_created"
    BY DEF Opens
  <2> QED BY <1>1, <2>1 DEF EndTypes, PauseTypes
<1>6. \A i \in Of(s, RowTypes) : m <= i
  BY <1>2, <1>5 DEF Told
<1>7. ASSUME NEW i \in Of(s, RowTypes) PROVE ~Own(i)
  <2>1. ~Own(m)
    BY <1>5 DEF RowShows
  <2>2. i = m \/ m < i
    BY <1>1, <1>6
  <2> QED BY <1>2, <2>1, <2>2 DEF RowShows
<1>8. \A i \in Of(s, RowTypes) : Own(i)' <=> i = m
  BY <1>1, <1>7
<1>9. \E k \in Of(s, {"stream_created"}) : Own(k)'
  BY <1>1, <1>5, <1>8
<1>10. \A i, k \in Of(s, RowTypes) : k < i /\ Own(i)' => Own(k)'
  <2> SUFFICES ASSUME NEW i \in Of(s, RowTypes), NEW k \in Of(s, RowTypes), k < i, Own(i)' PROVE FALSE
    OBVIOUS
  <2>1. i = m /\ m <= k /\ k \in Nat /\ m \in Nat
    BY <1>1, <1>6, <1>8
  <2> QED BY <2>1
<1>11. /\ \A c \in Of(s, EndTypes) : ~Own(c)'
       /\ \A t \in Of(s, {"stream_topped_up"}) : ~Own(t)'
  BY <1>1, <1>5, <1>8
<1>12. SumTo(Credits(s)', Len(log)) = 0
  <2>1. PICK f, n : f = Credits(s)' /\ n = Len(log)
    OBVIOUS
  <2>2. f = [i \in 1..n |-> IF Own(i)' THEN Drawn(log, s, i) ELSE 0]
    BY <1>2, <2>1 DEF Credits, Credit
  <2>3. ASSUME NEW i \in 1..n PROVE f[i] = 0
    <3>1. CASE i \in Of(s, RowTypes) /\ i # m
      BY <1>8, <2>2, <3>1
    <3>2. CASE i \notin Of(s, RowTypes) \/ i = m
      <4>1. Drawn(log, s, i) = 0
        BY <2>1, <3>2 DEF Drawn, Of, At, RowTypes, Opens
      <4> QED BY <2>2, <4>1
    <3> QED BY <3>1, <3>2
  <2>4. f \in [1..n -> Int]
    BY <2>2, <2>3
  <2> QED BY <1>1, <2>1, <2>3, <2>4, SumZero
<1> QED BY <1>1, <1>2, <1>3, <1>4, <1>9, <1>10, <1>11, <1>12 DEF RowShows

-----------------------------------------------------------------------------
(* What is settled once event m is handled: m itself, and whatever was, but  *)
(* for events after m.                                                       *)
Settles(s, m) ==
  /\ SettledIn(m, s)'
  /\ \A k : SettledIn(k, s) /\ ~SettledIn(k, s)' => k \in 1..Len(log) /\ m < k /\ ~Opens(log, k)

(* The event of a row that is there.                                         *)
LEMMA RowSettled ==
  ASSUME NEW s, NEW m, Takes(s, m), RowShows(s), rows[s] # NoRow, RowFrom(rows[s], log[m], Own(m), rows'[s])
  PROVE  Settles(s, m)
<1>1. /\ \A types : Of(s, types)' = Of(s, types)
      /\ Of(s, EndTypes) \subseteq Of(s, RowTypes) /\ Of(s, PauseTypes) \subseteq Of(s, RowTypes)
      /\ Of(s, RowTypes) \subseteq 1..Len(log) /\ Len(log) \in Nat /\ m \in 1..Len(log)
      /\ \A types : m \in Of(s, types) <=> log[m].type \in types
  BY TakesFacts
<1>2. log' = log /\ Told(s)
  BY DEF Takes
<1>3. PICK row, new, e : row = rows[s] /\ new = rows'[s] /\ e = log[m]
  OBVIOUS
<1>4. /\ new # NoRow
      /\ new.isActive <=> (e.type = "stream_created" \/ (e.type \notin EndTypes /\ row.isActive))
      /\ new.isPaused <=> (e.type = "stream_paused" \/ (e.type # "stream_resumed" /\ row.isPaused))
  <2>1. new \in StreamRow
    BY <1>3 DEF RowFrom
  <2>2. new # NoRow
    BY <2>1 DEF StreamRow, NoRow
  <2> QED BY <1>3, <2>2 DEF RowFrom
<1>5. \A k : LastPause(k, s)' <=> LastPause(k, s)
  BY <1>1 DEF LastPause
<1>6. \A k : SettledIn(k, s) <=> /\ k \in Of(s, EndTypes) => ~row.isActive
                                 /\ LastPause(k, s) => (row.isPaused <=> log[k].type = "stream_paused")
  BY <1>3 DEF SettledIn
<1>7. \A k : SettledIn(k, s)' <=> /\ k \in Of(s, EndTypes) => ~new.isActive
                                  /\ LastPause(k, s) => (new.isPaused <=> log[k].type = "stream_paused")
  BY <1>1, <1>2, <1>3, <1>4, <1>5 DEF SettledIn
<1>8. m \in Of(s, EndTypes) => ~new.isActive
  BY <1>1, <1>3, <1>4 DEF EndTypes
<1>9. m \in Of(s, PauseTypes) => (new.isPaused <=> log[m].type = "stream_paused")
  BY <1>1, <1>3, <1>4 DEF PauseTypes
<1>10. SettledIn(m, s)'
  BY <1>7, <1>8, <1>9 DEF LastPause
<1>11. ASSUME NEW k, SettledIn(k, s), ~SettledIn(k, s)'
       PROVE  k \in 1..Len(log) /\ m < k /\ ~Opens(log, k)
  <2>1. CASE k \in Of(s, EndTypes) /\ new.isActive
    <3>1. ~row.isActive
      BY <1>6, <1>11, <2>1
    <3>2. e.type = "stream_created"
      BY <1>4, <2>1, <3>1
    <3>3. m \in Of(s, {"stream_created"}) /\ m \notin Of(s, EndTypes)
      BY <1>1, <1>3, <3>2 DEF EndTypes
    <3>4. m <= k /\ k # m /\ k \in 1..Len(log)
      BY <1>1, <1>2, <2>1, <3>3 DEF Told
    <3>5. ~Opens(log, k)
      BY <2>1 DEF Of, At, Opens, EndTypes
    <3> QED BY <1>1, <3>4, <3>5
  <2>2. CASE LastPause(k, s) /\ ~(new.isPaused <=> log[k].type = "stream_paused")
    <3>1. row.isPaused <=> log[k].type = "stream_paused"
      BY <1>6, <1>11, <2>2
    <3>2. e.type \in PauseTypes
      BY <1>4, <2>2, <3>1 DEF PauseTypes
    <3>3. m \in Of(s, PauseTypes) /\ k \in Of(s, PauseTypes)
      BY <1>1, <1>3, <2>2, <3>2 DEF LastPause
    <3>4. m <= k /\ k # m /\ k \in 1..Len(log)
      BY <1>1, <1>9, <2>2, <3>3 DEF LastPause
    <3>5. ~Opens(log, k)
      BY <3>3 DEF Of, At, Opens, PauseTypes
    <3> QED BY <1>1, <3>4, <3>5
  <2> QED BY <1>7, <1>11, <2>1, <2>2
<1> QED BY <1>10, <1>11 DEF Settles

(* The creation of one that is not.                                          *)
LEMMA OpeningSettled ==
  ASSUME NEW s, NEW m, Takes(s, m), rows[s] = NoRow, Opens(log, m)
  PROVE  Settles(s, m)
<1>1. /\ \A types : Of(s, types)' = Of(s, types)
      /\ \A types : m \in Of(s, types) <=> log[m].type \in types
  BY TakesFacts
<1>2. m \notin Of(s, EndTypes) /\ m \notin Of(s, PauseTypes)
  BY <1>1 DEF Opens, EndTypes, PauseTypes
<1>3. \A k : LastPause(k, s)' <=> LastPause(k, s)
  BY <1>1 DEF LastPause
<1>4. SettledIn(m, s)'
  BY <1>1, <1>2, <1>3 DEF SettledIn, LastPause
<1>5. \A k : SettledIn(k, s) => k \notin Of(s, EndTypes) /\ ~LastPause(k, s)
  BY DEF SettledIn
<1>6. \A k : SettledIn(k, s) => SettledIn(k, s)'
  BY <1>1, <1>3, <1>5 DEF SettledIn
<1> QED BY <1>4, <1>6 DEF Settles

-----------------------------------------------------------------------------
(* Event m is the next of the page of batch j.                               *)
Comes(j, m) ==
  j \in Jobs /\ batch[j].stage = "process" /\ m \in batch[j].todo /\ First(log, m, batch[j].todo)

(* What is known of such an event.                                           *)
LEMMA ComesFacts ==
  ASSUME FInv, NEW j, NEW m, Comes(j, m)
  PROVE  /\ LogOK(log) /\ LogKeys(log) /\ LogTells /\ RecordsOK /\ RowsShow /\ MutexOK
         /\ BatchOK(batch[j], log, SettledIds) /\ BatchAhead(log, state, batch[j])
         /\ ~refetched => BatchFront(log, HandledIds, state, batch[j])
         /\ m \in 1..Len(log) /\ log[m] \in LogEvent /\ Len(log) \in Nat /\ CursorOK(batch[j].read, log)
         /\ ~Behind(log, batch[j].read, m) /\ queue # <<>> /\ queue[1] = j
         /\ rows \in [Streams -> StreamRow \cup {NoRow}] /\ \A s \in Streams : chain[s] \in ChainRecord
<1>1. j \in Jobs /\ batch[j].stage = "process" /\ m \in batch[j].todo /\ Started(batch[j])
  BY DEF Comes, Started
<1>2. /\ LogOK(log) /\ LogKeys(log) /\ LogTells /\ RecordsOK /\ RowsShow /\ MutexOK
  BY DEF FInv, IInv, ChainOK, LogTells
<1>3. /\ BatchOK(batch[j], log, SettledIds) /\ BatchAhead(log, state, batch[j])
      /\ ~refetched => BatchFront(log, HandledIds, state, batch[j])
  BY <1>1 DEF FInv, CursorsSettled, Frontier
<1>4. m \in 1..Len(log) /\ CursorOK(batch[j].read, log)
  BY <1>1, <1>3 DEF BatchOK
<1>5. log[m] \in LogEvent /\ Len(log) \in Nat
  BY <1>2, <1>4 DEF LogOK
<1>6. ~Behind(log, batch[j].read, m)
  BY <1>1, <1>3 DEF BatchAhead
<1>7. queue # <<>> /\ queue[1] = j
  BY <1>1, <1>2, StartedIsHead
<1>8. rows \in [Streams -> StreamRow \cup {NoRow}] /\ \A s \in Streams : chain[s] \in ChainRecord
  BY DEF FInv, IInv, TablesOK, ChainOK
<1> QED BY <1>2, <1>3, <1>4, <1>5, <1>6, <1>7, <1>8

(* An event of a clean stream comes after the ones before it.                *)
LEMMA TakesNext ==
  ASSUME FInv, NEW j, NEW m, Comes(j, m), Handles(m),
         NEW s \in Streams, Mine(s)', log[m].stream = s, log[m].type \in RowTypes
  PROVE  /\ Mine(s) /\ RowShows(s) /\ Takes(s, m)
         /\ Own(m) <=> Recorded(log[m])
         /\ rows[s] = NoRow => Opens(log, m)
<1>1. /\ LogOK(log) /\ LogKeys(log) /\ LogTells /\ RecordsOK /\ RowsShow
      /\ BatchOK(batch[j], log, SettledIds) /\ BatchAhead(log, state, batch[j])
      /\ ~refetched => BatchFront(log, HandledIds, state, batch[j])
      /\ m \in 1..Len(log) /\ Len(log) \in Nat /\ CursorOK(batch[j].read, log)
      /\ ~Behind(log, batch[j].read, m) /\ chain[s] \in ChainRecord
  BY ComesFacts
<1>2. log' = log /\ chain' = chain /\ refetched' = refetched /\ Succeeds(log[m])
  BY DEF Handles
<1>3. Mine(s) /\ Clean(s) /\ chain[s].kind = "Linear" /\ Clean(s)'
  <2>1. Mine(s)
    BY <1>1, HandledClean
  <2> QED BY <2>1 DEF Mine
<1>4. RowShows(s) /\ Told(s)
  BY <1>1, <1>3, LinearTold DEF RowsShow
<1>5. m \in Of(s, RowTypes)
  BY <1>1 DEF Of, At
<1>6. /\ Wanted(m) /\ (Own(m) <=> Recorded(log[m]))
  BY <1>1, <1>3, <1>5, RowEvent
<1>7. /\ Recorded(log[m])'
      /\ \A i \in 1..Len(log) : (Own(i) => Own(i)') /\ (Own(i)' => Own(i) \/ i = m)
  BY <1>1, <1>6, HandledRecords DEF Wanted
<1>8. Own(m)'
  <2>1. Wanted(m)'
    BY <1>2, <1>6 DEF Wanted, Handled
  <2> QED BY <1>1, <1>2, <1>3, <1>7, <2>1 DEF Clean
<1>9. Of(s, RowTypes) \subseteq 1..Len(log)
  BY DEF Of, At
<1>10. \A i \in Of(s, RowTypes) : i # m => (Own(i)' <=> Own(i))
  BY <1>7, <1>9
<1>11. Opens(log, m) => m \in Of(s, {"stream_created"})
  BY <1>1 DEF Opens, Of, At
<1>12. ASSUME NEW k \in Of(s, RowTypes), k < m PROVE Own(k)
  <2>1. k \in 1..m /\ k \in 1..Len(log)
    BY <1>1, <1>9, <1>12
  <2>2. k \in SettledIds \/ k \in batch[j].todo
    BY <1>1, <2>1 DEF BatchOK, Comes
  <2>3. CASE k \in batch[j].todo
    <3>1. IF Opens(log, m) <=> Opens(log, k) THEN m < k ELSE Opens(log, m)
      BY <1>1, <1>12, <2>1, <2>3 DEF Comes, First
    <3>2. Opens(log, m)
      BY <1>1, <1>12, <2>1, <3>1
    <3>3. m <= k
      BY <1>4, <1>11, <3>2 DEF Told
    <3> QED BY <1>1, <1>12, <2>1, <3>3
  <2>4. CASE k \in SettledIds
    <3>1. Dealt(k)
      BY <2>4 DEF SettledIds, DealtIds
    <3>2. Wanted(k) /\ k \notin Troubled /\ (Recorded(log[k]) => Own(k))
      BY <1>1, <1>3, RowEvent
    <3> QED BY <3>1, <3>2 DEF Dealt, Troubled
  <2> QED BY <2>2, <2>3, <2>4
<1>13. ASSUME ~refetched, Opens(log, m), NEW t \in Of(s, {"stream_topped_up"}), Own(t) PROVE FALSE
  <2>1. t \in Of(s, RowTypes) /\ t \in 1..Len(log) /\ ~Opens(log, t)
    BY <1>9, OfSubset, Kinds DEF Opens, Of, At
  <2>2. t \in HandledIds
    BY <1>13, <2>1 DEF HandledIds
  <2>3. HandledFirst(log, HandledIds, batch[j])
    BY <1>1, <1>13 DEF BatchFront, Comes
  <2>4. Behind(log, batch[j].read, t)
    BY <1>13, <2>2, <2>3 DEF HandledFirst, Comes
  <2>5. t < m
    BY <1>1, <2>1, <2>4, PageFront
  <2>6. m <= t
    BY <1>4, <1>11, <1>13, <2>1 DEF Told
  <2> QED BY <1>1, <2>1, <2>5, <2>6
<1>14. Takes(s, m)
  BY <1>1, <1>2, <1>4, <1>5, <1>8, <1>10, <1>12, <1>13 DEF Takes
<1>15. ASSUME rows[s] = NoRow, ~Opens(log, m) PROVE FALSE
  <2>1. ~HasRow(s) /\ log[m].type \notin SystemTypes \cup {"stream_created"} /\ Handled(log[m])
    BY <1>6, <1>15 DEF HasRow, Opens, Wanted, SystemTypes, RowTypes, EndTypes, PauseTypes
  <2>2. Own(m)
    BY <1>2, <1>6, <2>1 DEF Succeeds
  <2>3. PICK k : k \in Of(s, {"stream_created"})
    BY <1>4 DEF Told
  <2>4. k \in Of(s, RowTypes) /\ k <= m /\ Opens(log, k)
    BY <1>4, <1>5, <2>3, OfSubset, Kinds DEF Told, Of, At, Opens
  <2>5. Own(k)
    BY <1>1, <1>4, <1>5, <1>9, <2>2, <2>4 DEF RowShows
  <2> QED BY <1>4, <1>15, <2>3, <2>5 DEF RowShows
<1> QED BY <1>3, <1>4, <1>6, <1>14, <1>15

-----------------------------------------------------------------------------
(* The row of a stream whose event is handled.                               *)
LEMMA RowHandled ==
  ASSUME FInv, NEW j, NEW m, Comes(j, m), Handles(m),
         NEW s \in Streams, Mine(s)', log[m].stream = s, log[m].type \in RowTypes
  PROVE  Mine(s) /\ RowShows(s)' /\ Settles(s, m)
<1>1. /\ Mine(s) /\ RowShows(s) /\ Takes(s, m) /\ (Own(m) <=> Recorded(log[m]))
      /\ rows[s] = NoRow => Opens(log, m)
  BY TakesNext
<1>2. log[m] \in LogEvent /\ m \in 1..Len(log) /\ rows \in [Streams -> StreamRow \cup {NoRow}]
  BY ComesFacts
<1>3. rows'[s] = RowAfter(log[m])
  BY <1>2, HandledRows
<1>4. CASE rows[s] # NoRow
  <2>1. rows[s] \in StreamRow
    BY <1>2, <1>4
  <2>2. RowFrom(rows[s], log[m], Recorded(log[m]), rows'[s])
    BY <1>2, <1>3, <2>1, RowFields
  <2>3. RowFrom(rows[s], log[m], Own(m), rows'[s])
    BY <1>1, <2>2 DEF RowFrom
  <2> QED BY <1>1, <1>4, <2>3, RowTaken, RowSettled
<1>5. CASE rows[s] = NoRow
  <2>1. Opens(log, m) /\ log[m].type = "stream_created"
    BY <1>1, <1>5 DEF Opens
  <2>2. log[m].value = Deposit
    <3>1. m \in Of(s, {"stream_created"}) /\ Told(s)
      BY <1>1, <1>2, <2>1 DEF Of, At, Takes
    <3> QED BY <3>1 DEF Told
  <2>3. RowBegins(rows'[s])
    BY <1>2, <1>3, <1>5, <2>1, <2>2, NewRowFields DEF RowBegins
  <2> QED BY <1>1, <1>5, <2>1, <2>3, RowOpened, OpeningSettled
<1> QED BY <1>4, <1>5

(* Every stream, when an event is handled.                                   *)
LEMMA StreamHandled ==
  ASSUME FInv, NEW j, NEW m, Comes(j, m), Handles(m), NEW s \in Streams, Mine(s)'
  PROVE  Mine(s) /\ RowShows(s)' /\ Settles(s, m)
<1>1. /\ LogOK(log) /\ LogKeys(log) /\ RecordsOK /\ RowsShow /\ m \in 1..Len(log)
      /\ rows \in [Streams -> StreamRow \cup {NoRow}]
  BY ComesFacts
<1>2. CASE log[m].stream = s /\ log[m].type \in RowTypes
  BY <1>2, RowHandled
<1>3. CASE log[m].stream # s \/ log[m].type \notin RowTypes
  <2>1. Mine(s) /\ RowShows(s)
    BY <1>1, HandledClean DEF RowsShow
  <2>2. log' = log /\ refetched' = refetched
    BY DEF Handles
  <2>3. rows'[s] = rows[s]
    BY <1>1, <1>3, HandledRows
  <2>4. m \notin Of(s, RowTypes) /\ Of(s, RowTypes) \subseteq 1..Len(log)
    BY <1>3 DEF Of, At
  <2>5. \A i \in Of(s, RowTypes) : Own(i)' <=> Own(i)
    BY <1>1, <2>4, HandledRecords
  <2>6. RowShows(s)' /\ \A i : SettledIn(i, s)' <=> SettledIn(i, s)
    BY <2>1, <2>2, <2>3, <2>5, RowUntouched
  <2>7. m \notin Of(s, EndTypes) /\ m \notin Of(s, PauseTypes)
    BY <2>4, OfSubset, Kinds
  <2>8. SettledIn(m, s)
    BY <2>7 DEF SettledIn, LastPause
  <2> QED BY <2>1, <2>6, <2>8 DEF Settles
<1> QED BY <1>2, <1>3

(* What is settled afterwards.                                               *)
LEMMA HandledSettles ==
  ASSUME FInv, NEW j, NEW m, Comes(j, m), Handles(m)
  PROVE  /\ LogTells' /\ RecordsOK' /\ RowsShow' /\ m \in SettledIds'
         /\ LostAhead(log, batch[j], m, SettledIds, SettledIds')
         /\ HandledIds' \subseteq HandledIds \cup {m}
<1>1. /\ LogOK(log) /\ LogKeys(log) /\ LogTells /\ RecordsOK /\ RowsShow
      /\ BatchAhead(log, state, batch[j]) /\ CursorOK(batch[j].read, log) /\ ~Behind(log, batch[j].read, m)
      /\ rows \in [Streams -> StreamRow \cup {NoRow}] /\ m \in 1..Len(log) /\ log[m] \in LogEvent
      /\ Len(log) \in Nat
  BY ComesFacts
<1>2. /\ log' = log /\ chain' = chain /\ dead' = dead /\ discarded' = discarded /\ unwritten' = unwritten
  BY DEF Handles
<1>3. /\ RecordsOK' /\ (Handled(log[m]) => Recorded(log[m])')
      /\ \A i \in 1..Len(log) : (Own(i)' => Own(i) \/ i = m) /\ (Recorded(log[i]) => Recorded(log[i])')
  BY <1>1, HandledRecords
<1>4. LogTells'
  BY <1>1, <1>2 DEF LogTells
<1>5. \A s \in Streams : Mine(s)' => Mine(s) /\ RowShows(s)' /\ Settles(s, m)
  BY StreamHandled
<1>6. \A s, types : Of(s, types)' = Of(s, types)
  BY <1>2 DEF Of
<1>7. ASSUME NEW s \in Streams, rows'[s] # NoRow PROVE Of(s, {"stream_created"}) # {}
  <2>1. CASE rows[s] # NoRow
    BY <1>1, <2>1 DEF RowsShow
  <2>2. CASE rows[s] = NoRow
    <3>1. log[m].stream = s /\ log[m].type \in RowTypes
      BY <1>1, <1>7, <2>2, HandledRows
    <3>2. CASE log[m].type = "stream_created"
      BY <1>1, <3>1, <3>2 DEF Of, At
    <3>3. CASE log[m].type # "stream_created"
      <4>1. rows'[s] = RowAfter(log[m])
        BY <1>1, <3>1, HandledRows
      <4>2. ~HasRow(s) /\ log[m].type \notin SystemTypes \cup {"stream_created"} /\ Handled(log[m])
        BY <2>2, <3>1, <3>3
        DEF HasRow, Handled, StreamTypes, SystemTypes, RowTypes, EndTypes, PauseTypes
      <4>3. Recorded(log[m]) /\ log[m].type \in {"stream_topped_up", "tokens_withdrawn"}
        BY <3>1, <4>2 DEF Handles, Succeeds, RowTypes, EndTypes, PauseTypes
      <4>4. rows'[s] = rows[s]
        BY <3>1, <4>1, <4>3 DEF RowAfter, handleStreamToppedUp, handleTokensWithdrawn
      <4> QED BY <1>7, <2>2, <4>4
    <3> QED BY <3>2, <3>3
  <2> QED BY <2>1, <2>2
<1>8. RowsShow'
  BY <1>5, <1>6, <1>7 DEF RowsShow
<1>9. \A i : Wanted(i)' <=> Wanted(i)
  BY <1>2 DEF Wanted, Handled
<1>10. \A i \in 1..Len(log) : Dealt(i) => Dealt(i)'
  BY <1>2, <1>3, <1>9 DEF Dealt
<1>11. Dealt(m)'
  BY <1>2, <1>3, <1>9 DEF Dealt, Wanted
<1>12. m \in SettledIds'
  BY <1>1, <1>2, <1>5, <1>11 DEF SettledIds, DealtIds, Settled, Settles
<1>13. ASSUME NEW k \in SettledIds, k \notin SettledIds' PROVE k \in 1..Len(log) /\ m < k /\ ~Opens(log, k)
  <2>1. k \in 1..Len(log) /\ Dealt(k) /\ Settled(k)
    BY DEF SettledIds, DealtIds
  <2>2. ~Settled(k)'
    BY <1>2, <1>10, <1>13, <2>1 DEF SettledIds, DealtIds
  <2>3. PICK s \in Streams : Mine(s)' /\ ~SettledIn(k, s)'
    BY <2>2 DEF Settled
  <2>4. Mine(s) /\ Settles(s, m)
    BY <1>5, <2>3
  <2>5. SettledIn(k, s)
    BY <2>1, <2>4 DEF Settled
  <2> QED BY <2>3, <2>4, <2>5 DEF Settles
<1>14. PICK D, D2 : D = SettledIds /\ D2 = SettledIds'
  OBVIOUS
<1>15. ASSUME NEW k \in D \ D2
       PROVE  /\ k > m /\ ~(k <= batch[j].read.lastCursor) /\ ~(log[k].tx < batch[j].read.lastLedger)
              /\ \A y \in batch[j].todo : k <= y => k \in batch[j].todo
  <2>1. k \in 1..Len(log) /\ m < k /\ ~Opens(log, k)
    BY <1>13, <1>14
  <2>2. ~Behind(log, batch[j].read, k)
    <3>1. ASSUME Behind(log, batch[j].read, k) PROVE FALSE
      <4>1. k < m
        BY <1>1, <2>1, <3>1, PageFront
      <4> QED BY <1>1, <2>1, <4>1
    <3> QED BY <3>1
  <2>3. PageInOrder(log, batch[j]) /\ m \in batch[j].todo
    BY <1>1 DEF BatchAhead, Comes
  <2>4. ASSUME NEW y \in batch[j].todo, k <= y PROVE k \in batch[j].todo
    <3>1. y \in 1..Len(log)
      BY ComesFacts DEF BatchOK, Comes
    <3>2. k \in 1..y
      BY <1>1, <2>1, <2>4, <3>1
    <3> QED BY <2>1, <2>2, <2>3, <3>2 DEF PageInOrder
  <2> QED BY <1>1, <2>1, <2>2, <2>4 DEF Behind
<1>16. LostAhead(log, batch[j], m, SettledIds, SettledIds')
  BY <1>14, <1>15 DEF LostAhead
<1>17. HandledIds' \subseteq HandledIds \cup {m}
  BY <1>2, <1>3 DEF HandledIds
<1> QED BY <1>3, <1>4, <1>8, <1>12, <1>16, <1>17

-----------------------------------------------------------------------------
(* The handler of event m does not run, or its transaction is rolled back.   *)
Skips(m) ==
  /\ UNCHANGED <<log, chain, rows, recorded, refetched>>
  /\ Troubled \subseteq Troubled' /\ Troubled' \subseteq Troubled \cup {m}
  /\ m \in Troubled' \/ ~log[m].inSuccessfulContractCall

(* What is settled when it is skipped.                                       *)
LEMMA SkippedSettles ==
  ASSUME FInv, NEW j, NEW m, Comes(j, m), Skips(m)
  PROVE  /\ LogTells' /\ RecordsOK' /\ RowsShow' /\ m \in SettledIds'
         /\ SettledIds \subseteq SettledIds' /\ HandledIds' = HandledIds
<1>1. LogKeys(log) /\ LogTells /\ RecordsOK /\ RowsShow /\ m \in 1..Len(log)
  BY ComesFacts
<1>2. log' = log /\ chain' = chain /\ rows' = rows /\ recorded' = recorded /\ refetched' = refetched
  BY DEF Skips
<1>3. LogTells' /\ RecordsOK'
  BY <1>1, <1>2 DEF LogTells, RecordsOK
<1>4. \A i : Own(i)' <=> Own(i)
  BY <1>2 DEF Own, Key
<1>5. \A i : Recorded(log[i])' <=> Recorded(log[i])
  BY <1>2 DEF Recorded, Key
<1>6. \A i : Wanted(i)' <=> Wanted(i)
  BY <1>2 DEF Wanted, Handled
<1>7. Troubled \subseteq Troubled'
  BY DEF Skips
<1>8. \A s : Mine(s)' => Mine(s)
  <2>1. \A s : Clean(s)' => Clean(s)
    BY <1>2, <1>4, <1>5, <1>6, <1>7 DEF Clean
  <2> QED BY <1>2, <2>1 DEF Mine
<1>9. \A s : (RowShows(s) => RowShows(s)') /\ \A i : SettledIn(i, s)' <=> SettledIn(i, s)
  BY <1>2, <1>4, RowUntouched
<1>10. \A s, types : Of(s, types)' = Of(s, types)
  BY <1>2 DEF Of
<1>11. RowsShow'
  BY <1>1, <1>2, <1>8, <1>9, <1>10 DEF RowsShow
<1>12. \A i : Dealt(i) => Dealt(i)'
  BY <1>5, <1>6, <1>7 DEF Dealt, Troubled
<1>13. Dealt(m)'
  BY <1>6 DEF Dealt, Troubled, Skips, Wanted
<1>14. SettledIds \subseteq SettledIds'
  BY <1>2, <1>8, <1>9, <1>12 DEF SettledIds, DealtIds, Settled
<1>15. ASSUME NEW s \in Streams, Mine(s)' PROVE SettledIn(m, s)'
  <2>1. ASSUME m \in Of(s, RowTypes) PROVE FALSE
    <3>1. Wanted(m) /\ log[m].stream = s
      BY <1>1, <2>1, RowEvent
    <3>2. m \in Troubled'
      BY <3>1 DEF Skips, Wanted
    <3> QED BY <1>1, <1>2, <1>6, <1>15, <3>1, <3>2 DEF Mine, Clean
  <2>2. m \notin Of(s, EndTypes) /\ m \notin Of(s, PauseTypes)
    BY <2>1, OfSubset, Kinds
  <2>3. SettledIn(m, s)
    BY <2>2 DEF SettledIn, LastPause
  <2> QED BY <1>9, <2>3
<1>16. m \in SettledIds'
  BY <1>1, <1>2, <1>13, <1>15 DEF SettledIds, DealtIds, Settled
<1>17. HandledIds' = HandledIds
  BY <1>2, <1>4 DEF HandledIds
<1> QED BY <1>3, <1>11, <1>14, <1>16, <1>17

-----------------------------------------------------------------------------
(* What is left for the batch.                                               *)
LEMMA TakeSettles ==
  ASSUME FInv, IInv', NEW j, NEW m, Comes(j, m), NEW c \in {Skipped(batch[j], m), Advanced(batch[j], m, log[m].tx)},
         batch' = [batch EXCEPT ![j] = c], UNCHANGED <<log, state, refetched>>,
         LogTells', RecordsOK', RowsShow', m \in SettledIds',
         MayTake(log, batch[j], m, c, SettledIds, SettledIds'),
         HandledIds' \subseteq HandledIds
           \/ (c = Advanced(batch[j], m, log[m].tx) /\ HandledIds' \subseteq HandledIds \cup {m})
  PROVE  FInv'
<1>1. PICK b, D, D2, H, H2 : /\ b = batch[j] /\ D = SettledIds /\ D2 = SettledIds'
                             /\ H = HandledIds /\ H2 = HandledIds'
  OBVIOUS
<1>2. /\ LogOK(log) /\ MutexOK /\ BatchOK(b, log, D) /\ BatchAhead(log, state, b)
      /\ (~refetched => BatchFront(log, H, state, b)) /\ queue # <<>> /\ queue[1] = j
  BY <1>1, ComesFacts
<1>3. j \in Jobs /\ b.stage = "process" /\ m \in b.todo /\ First(log, m, b.todo) /\ Started(b)
  BY <1>1 DEF Comes, Started
<1>4. /\ c \in {Skipped(b, m), Advanced(b, m, log[m].tx)} /\ m \in D2 /\ MayTake(log, b, m, c, D, D2)
      /\ H2 \subseteq H \/ (c = Advanced(b, m, log[m].tx) /\ H2 \subseteq H \cup {m})
  BY <1>1
<1>5. BatchOK(c, log, D2) /\ c.stage = "process"
  BY <1>2, <1>3, <1>4, TakeOne
<1>6. BatchAhead(log, state, c)
  BY <1>2, <1>3, <1>4, AheadTakeOne
<1>7. ~refetched => BatchFront(log, H2, state, c)
  <2> SUFFICES ASSUME ~refetched PROVE BatchFront(log, H2, state, c)
    OBVIOUS
  <2>1. H \subseteq 1..Len(log) /\ (m \in H2 => ~Opens(log, m))
    BY <1>1 DEF HandledIds
  <2>2. MayHandle(log, b, m, c, H, H2)
    BY <1>4, <2>1 DEF MayHandle
  <2>3. BatchFront(log, H, state, b)
    BY <1>2
  <2> QED BY <1>2, <1>3, <1>4, <2>1, <2>2, <2>3, FrontTakeOne
<1>8. batch'[j] = c /\ \A k \in Jobs \ {j} : batch'[k] = batch[k]
  BY <1>2, <1>3 DEF MutexOK
<1>9. ASSUME NEW k \in Jobs
      PROVE  /\ BatchOK(batch'[k], log, D2) /\ BatchAhead(log, state, batch'[k])
             /\ ~refetched => BatchFront(log, H2, state, batch'[k])
  <2>1. CASE k = j
    BY <1>5, <1>6, <1>7, <1>8, <2>1
  <2>2. CASE k # j
    <3>1. ~Started(batch[k]) /\ BatchOK(batch[k], log, D) /\ batch'[k] = batch[k]
      BY <1>1, <1>2, <1>3, <1>8, <2>2, OneStarted DEF FInv, CursorsSettled
    <3>2. BatchOK(batch[k], log, D2)
      BY <3>1 DEF BatchOK, Started
    <3> QED BY <3>1, <3>2, NotStarted
  <2> QED BY <2>1, <2>2
<1>10. Passed(state, log, D2)
  <2>1. /\ Passed(state, log, D) /\ CursorOK(state, log) /\ CursorOK(b.read, log) /\ Len(log) \in Nat
        /\ state.lastLedger <= b.read.lastLedger /\ state.lastCursor <= b.read.lastCursor
    BY <1>1, <1>2, <1>3 DEF FInv, CursorsSettled, IInv, CursorsOK, BatchOK, BatchAhead, LogOK
  <2>2. CASE D \subseteq D2
    BY <2>1, <2>2 DEF Passed
  <2>3. CASE LostAhead(log, b, m, D, D2)
    <3> SUFFICES ASSUME NEW i \in 1..Len(log), i <= state.lastCursor \/ log[i].tx < state.lastLedger, i \notin D2
                 PROVE  FALSE
      BY DEF Passed
    <3>1. i \in D \ D2
      BY <2>1 DEF Passed
    <3>2. ~(i <= b.read.lastCursor) /\ ~(log[i].tx < b.read.lastLedger)
      BY <2>3, <3>1 DEF LostAhead
    <3>3. log[i].tx \in Nat /\ i \in Nat
      BY <1>2, TxBounds
    <3> QED BY <2>1, <3>2, <3>3 DEF CursorOK, CursorRow
  <2> QED BY <1>4, <2>2, <2>3 DEF MayTake
<1>11. Aligned(log, state)
  BY DEF FInv, CursorsSettled
<1>12. CursorsSettled'
  BY <1>1, <1>9, <1>10, <1>11 DEF CursorsSettled
<1>13. ASSUME ~refetched PROVE Frontier(log, H2, state, batch')
  <2>1. ~(\A k \in Jobs : batch'[k].stage # "process")
    BY <1>3, <1>5, <1>8
  <2> QED BY <1>9, <1>13, <2>1 DEF Frontier
<1>14. (~refetched => Frontier(log, HandledIds, state, batch))'
  BY <1>1, <1>13
<1> QED BY <1>12, <1>14 DEF FInv

(* One event of the page.                                                    *)
LEMMA ProcessNextSettles ==
  ASSUME FInv, NEW j \in Jobs, processNext(j)
  PROVE  FInv'
<1> DEFINE b == batch[j]
<1>1. MutexOK /\ IInv
  BY DEF FInv, IInv
<1>2. PICK m \in b.todo :
        LET e == log[m]
            skipped == [b EXCEPT !.todo = b.todo \ {m}]
            advanced == [b EXCEPT !.todo = b.todo \ {m}, !.last = StateRow(e.tx, m)]
        IN  /\ sortedFirst(m, b.todo)
            /\ \/ /\ Succeeds(e) /\ processEvent(e)
                  /\ batch' = [batch EXCEPT ![j] = advanced]
                  /\ UNCHANGED <<dead, unwritten>>
               \/ /\ quarantineEvent(m) \/ quarantineFails(m)
                  /\ batch' = [batch EXCEPT ![j] = skipped]
                  /\ UNCHANGED <<rows, recorded>>
               \/ /\ ~e.inSuccessfulContractCall
                  /\ batch' = [batch EXCEPT ![j] = skipped]
                  /\ UNCHANGED <<rows, recorded, dead, unwritten>>
  BY <1>1, Zenon DEF processNext, rest
<1>3. b.stage = "process" /\ UNCHANGED <<chainVars, state, discarded, queue, refetched>>
  BY DEF processNext
<1>4. IInv' /\ log' = log /\ chain' = chain /\ state' = state /\ refetched' = refetched
  BY <1>1, <1>3, ProcessNextKeeps DEF chainVars
<1>5. Comes(j, m)
  <2>1. First(log, m, b.todo)
    BY <1>2, SortedIsFirst
  <2> QED BY <1>3, <2>1 DEF Comes
<1>6. m \in 1..Len(log)
  BY <1>5, ComesFacts
<1>7. CASE /\ Succeeds(log[m]) /\ processEvent(log[m]) /\ UNCHANGED <<dead, unwritten>>
           /\ batch' = [batch EXCEPT ![j] = Advanced(b, m, log[m].tx)]
  <2>1. Handles(m)
    BY <1>3, <1>4, <1>6, <1>7 DEF Handles
  <2>2. /\ LogTells' /\ RecordsOK' /\ RowsShow' /\ m \in SettledIds'
        /\ LostAhead(log, b, m, SettledIds, SettledIds') /\ HandledIds' \subseteq HandledIds \cup {m}
    BY <1>5, <2>1, HandledSettles
  <2>3. PICK c : c = Advanced(b, m, log[m].tx)
    OBVIOUS
  <2>4. MayTake(log, b, m, c, SettledIds, SettledIds')
    BY <2>2, <2>3 DEF MayTake
  <2> QED BY <1>4, <1>5, <1>7, <2>2, <2>3, <2>4, TakeSettles
<1>8. CASE Skips(m) /\ batch' = [batch EXCEPT ![j] = Skipped(b, m)]
  <2>1. /\ LogTells' /\ RecordsOK' /\ RowsShow' /\ m \in SettledIds'
        /\ SettledIds \subseteq SettledIds' /\ HandledIds' = HandledIds
    BY <1>5, <1>8, SkippedSettles
  <2>2. PICK c : c = Skipped(b, m)
    OBVIOUS
  <2>3. MayTake(log, b, m, c, SettledIds, SettledIds')
    BY <2>1, <2>2 DEF MayTake
  <2> QED BY <1>4, <1>5, <1>8, <2>1, <2>2, <2>3, TakeSettles
<1> HIDE DEF b
<1>9. CASE /\ quarantineEvent(m) \/ quarantineFails(m)
           /\ batch' = [batch EXCEPT ![j] = Skipped(b, m)] /\ UNCHANGED <<rows, recorded>>
  <2>1. Skips(m)
    BY <1>3, <1>4, <1>9 DEF Skips, Troubled, quarantineEvent, quarantineFails
  <2> QED BY <1>8, <1>9, <2>1
<1>10. CASE /\ ~log[m].inSuccessfulContractCall /\ batch' = [batch EXCEPT ![j] = Skipped(b, m)]
            /\ UNCHANGED <<rows, recorded, dead, unwritten>>
  <2>1. Skips(m)
    BY <1>3, <1>4, <1>10 DEF Skips, Troubled
  <2> QED BY <1>8, <1>10, <2>1
<1> QED BY <1>2, <1>7, <1>9, <1>10, Zenon DEF Skipped, Advanced

-----------------------------------------------------------------------------
(* Before anything is published.                                             *)
LEMMA InitFInv == Init => FInv
<1> SUFFICES ASSUME Init PROVE FInv
  OBVIOUS
<1>1. /\ log = <<>> /\ chain = [s \in Streams |-> Unopened] /\ Len(log) = 0
      /\ rows = [s \in Streams |-> NoRow] /\ recorded = {}
      /\ state = NoState /\ batch = [j \in Jobs |-> Idle]
  BY DEF Init, ChainInit
<1>2. IInv
  BY InitIInv
<1>3. LogTells
  <2>1. \A s \in Streams : chain[s] = Unopened /\ Unopened.kind = "none"
    BY <1>1 DEF Unopened
  <2>2. \A i : i \notin 1..Len(log)
    BY <1>1
  <2> QED BY <2>1, <2>2 DEF LogTells, LogKeys, Tells
<1>4. RecordsOK
  BY <1>1 DEF RecordsOK
<1>5. RowsShow
  <2> SUFFICES ASSUME NEW s \in Streams PROVE (Mine(s) => RowShows(s)) /\ rows[s] = NoRow
    BY DEF RowsShow
  <2>1. rows[s] = NoRow /\ \A i : ~Own(i)
    BY <1>1 DEF Own
  <2> QED BY <2>1 DEF RowShows
<1>6. CursorsSettled
  <2>1. Aligned(log, state) /\ Passed(state, log, SettledIds)
    BY <1>1 DEF Aligned, Passed, NoState
  <2> QED BY <1>1, <2>1, NoCursor, NoBatch DEF CursorsSettled
<1>7. Frontier(log, HandledIds, state, batch)
  <2>1. HandledBehind(log, HandledIds, state)
    BY <1>1 DEF HandledBehind, HandledIds
  <2> QED BY <1>1, <2>1, NoBatch DEF Frontier
<1> QED BY <1>2, <1>3, <1>4, <1>5, <1>6, <1>7 DEF FInv

(* Every step.                                                               *)
LEMMA NextKeepsFInv == FInv /\ [Next]_vars => FInv'
<1> SUFFICES ASSUME FInv, [Next]_vars PROVE FInv'
  OBVIOUS
<1>1. CASE Ledger
  BY <1>1, LedgerSettles
<1>2. CASE poll
  <2>1. "scheduled" \in Jobs /\ batch["scheduled"] = Idle /\ enqueue("scheduled")
        /\ state' = state /\ refetched' = refetched
        /\ UNCHANGED <<chainVars, rows, recorded, dead, discarded, unwritten>>
    BY <1>2 DEF poll, Jobs, tables
  <2> QED BY <2>1, EnqueueSettles
<1>3. ASSUME NEW j \in Jobs, Step(j) \/ batchThrows(j) PROVE FInv'
  BY <1>3, EnsureSettles, GetEventsSettles, ProcessNextSettles, SaveSettles, ThrowSettles DEF Step
<1>4. ASSUME NEW l \in 0..state.lastLedger, resetIndexer(l) \/ replayFromLedger(l) PROVE FInv'
  <2>1. CASE resetIndexer(l)
    BY <2>1, ResetSettles
  <2>2. CASE replayFromLedger(l)
    <3>1. "manual" \in Jobs /\ batch["manual"] = Idle /\ enqueue("manual")
          /\ state' = StateRow(l, 0) /\ refetched'
          /\ UNCHANGED <<chainVars, rows, recorded, dead, discarded, unwritten>>
      BY <2>2 DEF replayFromLedger, Jobs
    <3> QED BY <3>1, EnqueueSettles
  <2> QED BY <1>4, <2>1, <2>2
<1>5. ASSUME NEW i \in dead, replayDeadLetterEvent(i) \/ discardDeadLetterEvent(i) PROVE FInv'
  BY <1>5, DeadLetterSettles
<1>6. CASE crash
  BY <1>6, CrashSettles
<1>7. CASE UNCHANGED vars
  <2>1. UNCHANGED <<log, chain, rows, recorded, state, dead, discarded, unwritten, queue, batch, refetched>>
    BY <1>7 DEF vars, chainVars, tables, worker
  <2>2. ViewStays
    BY <2>1 DEF ViewStays, Troubled
  <2>3. IInv'
    BY <1>7, NextKeepsIInv DEF FInv
  <2> QED BY <2>1, <2>2, <2>3, WorkStep DEF FInv, CursorsSettled
<1> QED BY <1>1, <1>2, <1>3, <1>4, <1>5, <1>6, <1>7 DEF Next

(* The index is faithful: once caught up, the row of a stream whose every event
   was applied shows what the contract's own record says, after any crash,
   retry, reset or replay. *)
THEOREM IndexStaysFaithful == Spec => []IndexIsFaithful
<1> HIDE DEF FInv
<1> QED BY FInvFaithful, InitFInv, NextKeepsFInv, PTL DEF Spec
=============================================================================
