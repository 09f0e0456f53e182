-------------------------------- MODULE Sdk --------------------------------
(* The client of packages/flowfi-sdk: build, simulate and assemble, have the *)
(* signer sign, send.  batchWithdraw does so for one stream after the other  *)
(* and returns what it did only when all of it went through.  What the       *)
(* ledger makes of a transaction is not looked at: sendTransaction's status  *)
(* is ignored, so an answer means that the transaction was handed over.      *)
EXTENDS Naturals, Sequences, SequencesExt

CONSTANTS SdkStreams    \* stream ids a caller may name

VARIABLES
  sdk,         \* the call: its stream ids, how far it is, the results so far
  handedOver   \* the transactions the RPC server was given, in order

sdkVars == <<sdk, handedOver>>

SdkIdle == [op |-> "none", ids |-> <<>>, phase |-> "idle", results |-> <<>>]
SdkOps == {"createStream", "batchWithdraw", "topUpStream", "cancelStream", "closeStream"}

SdkInit == sdk = SdkIdle /\ handedOver = <<>>

\* The entry of an operation: empty batches, amounts and durations that are not
\* positive and a cliff beyond the duration throw before anything is asked of
\* the signer, whose getPublicKey may throw as well.
SdkCall(op, ids, accepted) ==
  /\ sdk.phase = "idle"
  /\ op # "batchWithdraw" => Len(ids) = 1
  /\ sdk' = [op |-> op, ids |-> ids, results |-> <<>>,
             phase |-> IF accepted /\ ids # <<>> THEN "simulating" ELSE "threw"]
  /\ UNCHANGED handedOver

Current == sdk.ids[Len(sdk.results) + 1]

\* simulateAndAssemble; an error in the simulation throws.
SdkSimulate(ok) ==
  /\ sdk.phase = "simulating"
  /\ sdk' = [sdk EXCEPT !.phase = IF ok THEN "signing" ELSE "threw"]
  /\ UNCHANGED handedOver

\* signTransaction of a keypair, Freighter or a callback.
SdkSign(ok) ==
  /\ sdk.phase = "signing"
  /\ sdk' = [sdk EXCEPT !.phase = IF ok THEN "sending" ELSE "threw"]
  /\ UNCHANGED handedOver

Finished(results) == results = sdk.ids

\* submitSigned: the server has the transaction, or not, or has it and the
\* answer is lost.  An answer of whatever status is a result.
Submit(reached, ok) ==
  /\ handedOver' = IF reached THEN Append(handedOver, Current) ELSE handedOver
  /\ sdk' = LET results == Append(sdk.results, Current) IN
            IF ok THEN [sdk EXCEPT !.results = results,
                                   !.phase = IF Finished(results) THEN "returned" ELSE "simulating"]
            ELSE [sdk EXCEPT !.phase = "threw"]

SdkSend(reached, ok) ==
  /\ sdk.phase = "sending"
  /\ ok => reached
  /\ Submit(reached, ok)

SdkCalls(ids) == \E op \in SdkOps, accepted \in BOOLEAN : SdkCall(op, ids, accepted)

SdkNext ==
  \/ \E n \in 0..3 : \E ids \in [1..n -> SdkStreams] : SdkCalls(ids)
  \/ \E ok \in BOOLEAN : SdkSimulate(ok) \/ SdkSign(ok) \/ \E reached \in BOOLEAN : SdkSend(reached, ok)

SdkSpec == SdkInit /\ [][SdkNext]_sdkVars

(* ------------------------------- properties ------------------------------ *)

SdkTypeOK ==
  /\ sdk.op \in SdkOps \cup {"none"} /\ sdk.phase \in {"idle", "simulating", "signing", "sending", "returned", "threw"}
  /\ handedOver \in Seq(SdkStreams)

\* What reached the server is a prefix of the streams named, each as often as
\* it was named, and all of them when the call returns.  A call that throws
\* stops where it is: at most one transaction more is out than it had results
\* for, and those results are lost with the exception (client.ts:94-106).
SdkBatchIsPrefix ==
  /\ IsPrefix(handedOver, sdk.ids)
  /\ Len(handedOver) \in Len(sdk.results)..Len(sdk.results) + 1
  /\ Len(handedOver) > Len(sdk.results) => sdk.phase = "threw"
  /\ sdk.phase = "returned" => handedOver = sdk.ids
=============================================================================
