----------------------------- MODULE MCRequests ------------------------------
(***************************************************************************)
(* The request handlers and caches of the backend, and the SDK's client.    *)
(* They share no state here, so a behaviour follows the component named by  *)
(* `focus` and the others stay as they are: the state space is the sum of   *)
(* theirs.                                                                  *)
(***************************************************************************)
EXTENDS Sse, Auth, MemoryCache, ReadThrough, Accounts, StreamApi, Sdk

ASSUME ConnsFinite == IsFiniteSet(Conns)

VARIABLE focus

(* The three connections come from one address; two of them are the same user. *)
ConnIp == [c \in Conns |-> "ip1"]
ConnUser == [c \in Conns |-> IF c = "c3" THEN "u2" ELSE "u1"]
Owned == [u \in Users |-> IF u = "u1" THEN SseStreams ELSE {}]

(* Rows of the export: two were created in the same instant. *)
Created == [i \in ExportIds |-> CASE i = "i1" -> 1 [] i \in {"i2", "i3"} -> 2 [] i = "i4" -> 3 [] OTHER -> 4]

RequestsInit ==
  /\ focus \in {"sse", "auth", "cache", "readThrough", "accounts", "api", "sdk"}
  /\ SseInit /\ AuthInit /\ CacheInit /\ RtInit /\ AccountsInit /\ SdkInit
  /\ ApiInit /\ (focus # "api" => server)

Keep(component, vars) == IF focus = component THEN TRUE ELSE UNCHANGED vars

RequestsNext ==
  /\ UNCHANGED focus
  /\ \/ focus = "sse" /\ SseNext
     \/ focus = "auth" /\ AuthNext
     \/ focus = "cache" /\ CacheNext
     \/ focus = "readThrough" /\ RtNext
     \/ focus = "accounts" /\ AccountsNext
     \/ focus = "api" /\ ApiNext
     \/ focus = "sdk" /\ SdkNext
  /\ Keep("sse", sseVars) /\ Keep("auth", authVars) /\ Keep("cache", cacheVars)
  /\ Keep("readThrough", rtVars) /\ Keep("accounts", accountVars) /\ Keep("api", apiVars)
  /\ Keep("sdk", sdkVars)

RequestsSpec ==
  RequestsInit
  /\ [][RequestsNext]_<<focus, sseVars, authVars, cacheVars, rtVars, accountVars, apiVars, sdkVars>>

-----------------------------------------------------------------------------
(* Every component keeps the types its code gives its state. *)
RequestsTypeOK ==
  CASE focus = "sse" -> SseTypeOK
    [] focus = "auth" -> AuthTypeOK
    [] focus = "cache" -> CacheTypeOK
    [] focus = "readThrough" -> RtTypeOK
    [] focus = "accounts" -> AccountsTypeOK
    [] focus = "api" -> ApiTypeOK
    [] OTHER -> SdkTypeOK

(* The caches serve nothing that is out of date: a hit of the in-memory      *)
(* cache is the last value set and alive, eviction takes the least recently  *)
(* used, and the read-through caches neither outlive their time nor go back. *)
CachesAreFresh ==
  [][CacheHitsAreCurrent' /\ CacheIsLru /\ RtHitsAreFresh /\ RtNeverGoesBack]_<<cacheVars, rtVars>>

(* What is asked for once is done once: a user is registered, a row exported *)
(* and a withdrawal of the SDK's batch handed over, though requests race,    *)
(* rows appear and calls fail on the way.                                    *)
ServedOnce == RegisteredOnce /\ ExportExactlyOnce /\ SdkBatchIsPrefix
=============================================================================
