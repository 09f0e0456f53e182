------------------------------ MODULE Accounts ------------------------------
(***************************************************************************)
(* The account endpoints of controllers/user.controller.ts: registration,  *)
(* which looks for a user and then creates one, and the statement export   *)
(* of services/export.service.ts, which reads the caller's streams in      *)
(* batches after a cursor while streams are being created.                 *)
(***************************************************************************)
EXTENDS Naturals, Sequences, FiniteSets, SequencesExt

CONSTANTS
  Registrations,     \* concurrent POST /v1/users requests, all for one key
  ExportIds,         \* ids of Stream rows that match the export's filter
  CreatedAt,         \* CreatedAt[i]: the row's createdAt; rows may share one
  EarlyRows,         \* those that are in the table when the export begins
  BATCH_SIZE

NoCursor == "none"

ASSUME AccountsAssumption ==
  /\ IsFiniteSet(ExportIds) /\ NoCursor \notin ExportIds
  /\ CreatedAt \in [ExportIds -> Nat] /\ EarlyRows \subseteq ExportIds
  /\ BATCH_SIZE \in Nat \ {0}
  (* a row created during the export is younger than those before it *)
  /\ \A i \in EarlyRows, j \in ExportIds \ EarlyRows : CreatedAt[i] < CreatedAt[j]

VARIABLES
  userRow,         \* whether the User row of the key exists
  registration,    \* per request where it stands, or its status
  streamRows,      \* the Stream rows that exist
  exportPhase, exportCursor,
  written          \* the rows written to the response, in order

accountVars == <<userRow, registration, streamRows, exportPhase, exportCursor, written>>

AccountsTypeOK ==
  /\ userRow \in BOOLEAN
  /\ registration \in [Registrations -> {"idle", "creating", "200", "201", "400", "409", "500"}]
  /\ streamRows \subseteq ExportIds
  /\ exportPhase \in {"idle", "batching", "ended", "hung", "400"}
  /\ exportCursor \in ExportIds \cup {NoCursor}
  /\ written \in Seq(ExportIds)

AccountsInit ==
  /\ userRow = FALSE
  /\ registration = [r \in Registrations |-> "idle"]
  /\ streamRows = EarlyRows
  /\ exportPhase = "idle" /\ exportCursor = NoCursor
  /\ written = <<>>

exportVars == <<streamRows, exportPhase, exportCursor, written>>

(* errorHandler: what the status of an error passed to next() is. *)
ErrorStatus(error) ==
  CASE error = "zod" -> "400"
    [] error = "P2002" -> "409"
    [] error = "P2025" -> "404"
    [] OTHER -> "500"

(* The body is validated and the user looked up. *)
RegisterFind(r) ==
  /\ registration[r] = "idle"
  /\ \/ registration' = [registration EXCEPT ![r] = IF userRow THEN "200" ELSE "creating"]
     \/ \E error \in {"zod", "db"} : registration' = [registration EXCEPT ![r] = ErrorStatus(error)]
  /\ UNCHANGED <<userRow, exportVars>>

(* The user is created; publicKey is unique. *)
RegisterCreate(r) ==
  /\ registration[r] = "creating"
  /\ userRow' = TRUE
  /\ registration' = [registration EXCEPT ![r] = IF userRow THEN ErrorStatus("P2002") ELSE "201"]
  /\ UNCHANGED exportVars

(* The indexer and POST /v1/streams upsert the users of a stream they see. *)
UserUpserted ==
  /\ ~userRow /\ userRow' = TRUE
  /\ UNCHANGED <<registration, exportVars>>

-----------------------------------------------------------------------------
(* exportTransactions: a bad address, format or direction is refused; otherwise
   the headers and the opening line go out before the first query. *)
ExportBegins ==
  /\ exportPhase = "idle"
  /\ exportPhase' \in {"batching", "400"}
  /\ UNCHANGED <<userRow, registration, streamRows, exportCursor, written>>

(* The orders in which Postgres may return rows sorted by createdAt alone. *)
Sorted(S) == {s \in SetToSeqs(S) : \A i, j \in DOMAIN s : i < j => CreatedAt[s[i]] <= CreatedAt[s[j]]}

Taken(order, skip) == SubSeq(order, skip + 1, Min({Len(order), skip + BATCH_SIZE}))

(* findMany after a cursor: from the cursor row's createdAt on, the first row is
   skipped and at most BATCH_SIZE are taken. *)
Page(order) == Taken(order, IF exportCursor = NoCursor THEN 0 ELSE 1)

Onward == {i \in streamRows : exportCursor = NoCursor \/ CreatedAt[i] >= CreatedAt[exportCursor]}

ExportBatch ==
  /\ exportPhase = "batching"
  /\ \E order \in Sorted(Onward) :
       LET streams == Page(order) IN
       /\ written' = written \o streams
       /\ exportCursor' = IF streams = <<>> THEN exportCursor ELSE Last(streams)
       /\ exportPhase' = IF Len(streams) < BATCH_SIZE THEN "ended" ELSE "batching"
  /\ UNCHANGED <<userRow, registration, streamRows>>

\* A variant: the download is ended as if it were complete.
EndAnyway ==
  /\ exportPhase = "batching"
  /\ exportPhase' = "ended"
  /\ UNCHANGED <<userRow, registration, streamRows, exportCursor, written>>

(* A query fails: the headers are out, so the handler answers nothing, and it
   does not end the response either. *)
ExportFails ==
  /\ exportPhase = "batching"
  /\ exportPhase' = "hung"
  /\ UNCHANGED <<userRow, registration, streamRows, exportCursor, written>>

StreamCreated(i) ==
  /\ i \notin streamRows /\ exportPhase \in {"idle", "batching"}
  /\ \A j \in streamRows : CreatedAt[j] <= CreatedAt[i]
  /\ streamRows' = streamRows \cup {i}
  /\ UNCHANGED <<userRow, registration, exportPhase, exportCursor, written>>

AccountsNext ==
  \/ \E r \in Registrations : RegisterFind(r) \/ RegisterCreate(r)
  \/ UserUpserted
  \/ ExportBegins \/ ExportBatch \/ ExportFails
  \/ \E i \in ExportIds : StreamCreated(i)

AccountsSpec == AccountsInit /\ [][AccountsNext]_accountVars

-----------------------------------------------------------------------------
(* However registrations of one key interleave with each other and with the
   indexer, at most one answers 201, and whoever is answered 200, 201 or 409
   finds a user (registerUser, user.controller.ts:69). *)
RegisteredOnce ==
  /\ Cardinality({r \in Registrations : registration[r] = "201"}) <= 1
  /\ (\E r \in Registrations : registration[r] \in {"200", "201", "409"}) => userRow

(* A statement that ends is complete: every stream that was there when it began
   and shares its createdAt with no other is written exactly once, however many
   batches it took and whatever was created meanwhile.  Streams that share one
   may straddle a batch in another order and be skipped or repeated: createdAt
   is the only sort key (export.service.ts:188). *)
ExportExactlyOnce ==
  exportPhase = "ended" =>
    \A i \in EarlyRows :
      (\A j \in ExportIds \ {i} : CreatedAt[j] # CreatedAt[i]) =>
        Cardinality({n \in DOMAIN written : written[n] = i}) = 1
=============================================================================
