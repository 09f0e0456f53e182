---------------------------- MODULE BatchWizard ----------------------------
(* Creating many streams from a CSV file (frontend/src/components/           *)
(* stream-creation/BatchStreamWizard.tsx with lib/csv-parser.ts): upload and *)
(* parse, review and edit single entries, then create the valid entries'     *)
(* streams one after the other, each with a wallet transaction of its own    *)
(* whose failure does not stop the rest.  A line of the file is blank or a   *)
(* row, and a row is abstracted to its recipient and whether validateEntry   *)
(* finds an error in it; the header, with its columns in the order of the    *)
(* sample file, is the row whose recipient is the word "recipient".          *)
EXTENDS ClientTx, Sums

CONSTANTS CsvRecipients, \* the recipients that files name
          CsvFiles,      \* the files the user may upload: sequences of lines
          Blank,         \* a blank line
          MaxEdits,      \* bounds the edits
          MaxBatchTxs    \* bounds the transactions of all executions

VARIABLE
  batch    \* the wizard: its step, file, entries and execution

batchVars == <<clientTxVars, batch>>

\* A row for recipient r, valid or not.
CsvRow(r, ok) == [recipient |-> r, valid |-> ok]
Header == CsvRow("recipient", FALSE)
CsvNames == CsvRecipients \cup {"recipient", "edited"}
CsvRows == [recipient : CsvNames, valid : BOOLEAN]

ASSUME BatchAssumption ==
  /\ Blank \notin CsvRows
  /\ \A csv \in CsvFiles : csv \in Seq(CsvRows \cup {Blank})

NotBlank(csv) == {k \in DOMAIN csv : csv[k] # Blank}
Least(K) == CHOOSE k \in K : \A l \in K : k <= l

\* parseBatchCSV: the header is the first line that is not blank, wherever it
\* stands; an entry's id is its position among the other lines not blank.
parseBatchCSV(csv) ==
  LET lines == NotBlank(csv) IN
  IF lines = {} THEN <<>>
  ELSE IF csv[Least(lines)] # Header THEN <<>> ELSE AtPositions(csv, lines \ {Least(lines)})

ValidRows(entries) == {k \in DOMAIN entries : entries[k].valid}

BatchInit ==
  /\ ClientTxInit
  /\ batch = [step |-> 1, csv |-> <<>>, entries |-> <<>>, editing |-> 0,
              edits |-> 0,
              leaving |-> FALSE,    \* router.push was called
              left |-> FALSE,       \* and has taken the page away
              todo |-> {},          \* the entries this execution still has to create
              executing |-> FALSE, tx |-> 0, completed |-> 0,
              run |-> 0,            \* the executions started
              calls |-> <<>>]       \* for each call: its execution, its entry, and whether
                                    \* that execution was started with the page leaving

\* handleFileDrop and handleFileSelect, when the file has been read.
Upload(csv) ==
  /\ batch.step = 1 /\ ~batch.left
  /\ batch' = [batch EXCEPT !.csv = csv, !.entries = parseBatchCSV(csv)]
  /\ UNCHANGED clientTxVars

\* handleNext wants a valid row; handleBack is hidden during an execution.
BatchStep ==
  /\ ~batch.executing /\ ~batch.left
  /\ \/ /\ batch.step < 3 /\ ValidRows(batch.entries) # {}
        /\ batch' = [batch EXCEPT !.step = @ + 1]
     \/ /\ batch.step > 1
        /\ batch' = [batch EXCEPT !.step = @ - 1]
  /\ UNCHANGED clientTxVars

\* handleStartEdit and handleCancelEdit, on the review step.
StartEdit(k) ==
  /\ batch.step = 2 /\ ~batch.left /\ k \in DOMAIN batch.entries /\ batch.edits < MaxEdits
  /\ batch' = [batch EXCEPT !.editing = k]
  /\ UNCHANGED clientTxVars

CancelEdit ==
  /\ batch.step = 2 /\ ~batch.left /\ batch.editing # 0
  /\ batch' = [batch EXCEPT !.editing = 0]
  /\ UNCHANGED clientTxVars

\* handleSaveEdit's dataLines: what is not blank after the first line.
dataLines(csv) == AtPositions(csv, NotBlank(csv) \ {1})

\* handleSaveEdit: the line of the edited entry's number is replaced, under
\* the first line as header, and the file parsed anew.
SaveEdit(row) ==
  /\ batch.step = 2 /\ ~batch.left /\ batch.editing # 0
  /\ LET lines == dataLines(batch.csv)
         csv == IF batch.editing <= Len(lines)
                  THEN <<batch.csv[1]>> \o [lines EXCEPT ![batch.editing] = row]
                  ELSE batch.csv IN
     batch' = [batch EXCEPT !.csv = csv, !.entries = parseBatchCSV(csv),
                            !.editing = 0, !.edits = @ + 1]
  /\ UNCHANGED clientTxVars

\* createStream for the next of the entries in todo, by execution run.
CreateStream(todo, run, late) ==
  LET k == Least(todo) IN
  /\ Len(txs) < MaxBatchTxs
  /\ Call("create", batch.entries[k].recipient)
  /\ batch' = [batch EXCEPT !.executing = TRUE, !.run = run, !.todo = todo \ {k},
                            !.tx = Len(txs'), !.completed = IF run = batch.run THEN @ ELSE 0,
                            !.calls = Append(@, [run |-> run, entry |-> k, late |-> late])]

\* handleExecute up to the first await; later entries follow one by one.  The
\* button is there whenever no execution is under way and the page is.
Execute ==
  /\ batch.step = 3 /\ ~batch.executing /\ ~batch.left
  /\ ValidRows(batch.entries) # {}
  /\ CreateStream(ValidRows(batch.entries), batch.run + 1, batch.leaving)

\* The loop turns to the next valid entry, also after the page has gone.
CreateNext ==
  /\ batch.executing /\ batch.tx = 0 /\ batch.todo # {}
  /\ CreateStream(batch.todo, batch.run, batch.calls[Len(batch.calls)].late)

BatchTxStep(i) ==
  /\ FreighterStep(i)
  /\ batch' = IF ~Settled(i) THEN batch
              ELSE [batch EXCEPT !.tx = 0,
                                 !.completed = @ + IF txs'[i].outcome = "success" THEN 1 ELSE 0]

\* A variant: the page is left only when every entry was created.
LeavesWhenAllCreated(completed, total) == completed = total

\* router.push("/dashboard") once anything was created.
LeavesPage(completed, total) == completed > 0

\* The loop is over: the change of page is requested and the button comes back.
ExecutionEnds ==
  /\ batch.executing /\ batch.tx = 0 /\ batch.todo = {}
  /\ LET total == Cardinality(ValidRows(batch.entries)) IN
     batch' = [batch EXCEPT !.executing = FALSE,
                            !.leaving = @ \/ LeavesPage(batch.completed, total)]
  /\ UNCHANGED clientTxVars

\* The requested page is shown instead of the wizard, some time later.
PageChanges ==
  /\ batch.leaving /\ ~batch.left
  /\ batch' = [batch EXCEPT !.left = TRUE]
  /\ UNCHANGED clientTxVars

BatchNetwork(i) == LedgerCloses(i) /\ UNCHANGED batch

BatchNext ==
  \/ \E csv \in CsvFiles : Upload(csv)
  \/ BatchStep
  \/ \E k \in DOMAIN batch.entries : StartEdit(k)
  \/ CancelEdit
  \/ \E ok \in BOOLEAN : SaveEdit(CsvRow("edited", ok))
  \/ Execute \/ CreateNext \/ ExecutionEnds \/ PageChanges
  \/ \E i \in DOMAIN txs : BatchTxStep(i) \/ BatchNetwork(i)

BatchSpec == BatchInit /\ [][BatchNext]_batchVars

(* ------------------------------- properties ------------------------------ *)

\* In a file that starts with its header, an edit changes the entry it was made
\* for and no other, though entries are numbered after the blank lines were
\* dropped (BatchStreamWizard.tsx:123-142, csv-parser.ts:132-200).
BatchEditIsLocal ==
  batch'.edits > batch.edits /\ batch.csv[1] = Header =>
    /\ Len(batch'.entries) = Len(batch.entries)
    /\ \A k \in DOMAIN batch.entries :
         IF k = batch.editing THEN batch'.entries[k].recipient = "edited"
         ELSE batch'.entries[k] = batch.entries[k]

\* An execution pays no entry twice, and an execution that follows another one
\* pays a recipient again only where the user could not be told that the first
\* payment took place, its confirmation having timed out or been lost, or where
\* it was started in the time that the change of page takes after a successful
\* execution (BatchStreamWizard.tsx:148-193).
BatchPaysOnce ==
  \A i, j \in Landed :
    i < j /\ txs[i].target = txs[j].target =>
      IF batch.calls[i].run = batch.calls[j].run THEN batch.calls[i].entry # batch.calls[j].entry
      ELSE txs[i].outcome \in {"timeout", "network"} \/ batch.calls[j].late

BatchTypeOK ==
  /\ \A i \in DOMAIN txs : txs[i] \in TxRecords({"create"}, CsvNames)
  /\ batch.step \in 1..3 /\ batch.editing \in Nat
  /\ batch.tx \in {0} \cup DOMAIN txs
  /\ batch.calls \in Seq([run : Nat, entry : Nat, late : BOOLEAN]) /\ Len(batch.calls) = Len(txs)
=============================================================================
