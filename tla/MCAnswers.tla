------------------------------ MODULE MCAnswers ------------------------------
(***************************************************************************)
(* What callers are told: the request handlers and caches of MCRequests,    *)
(* along every behaviour of one of them, and the pure algorithms of         *)
(* MCReference, on every input of one of its topics.                        *)
(***************************************************************************)
EXTENDS MCReference, MCRequests

referenceVars == <<s, at, topic, input>>
requestVars == <<focus, sseVars, authVars, cacheVars, rtVars, accountVars, apiVars, sdkVars>>

AnswersInit ==
  /\ RequestsInit
  /\ \/ MCInit /\ focus = "sse"
     \/ topic = "requests" /\ s = NoStreamRecord /\ at = 0 /\ input = <<>>

AnswersNext ==
  \/ MCNext /\ UNCHANGED requestVars
  \/ topic = "requests" /\ RequestsNext /\ UNCHANGED referenceVars

AnswersSpec == AnswersInit /\ [][AnswersNext]_<<referenceVars, requestVars>>
=============================================================================
