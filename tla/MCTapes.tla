------------------------------ MODULE MCTapes ------------------------------
(***************************************************************************)
(* Small instances, for TLC, of the tape stores.  They share no variable,  *)
(* so a behaviour explores one of them while the others rest: Redis with   *)
(* EVAL and without, SQLite, SQLAlchemy, the OpenTelemetry exporter, and   *)
(* the exports of a dataset.                                               *)
(***************************************************************************)
EXTENDS RedisTape, TLC

CONSTANTS
  FWriters,                                              \* without EVAL
  SCalls, STapes, SNames, NoCall, SLimit, SMaxCrashes,   \* SQLite
  AAppends, AResets, ASearches, AProcesses, ADialects,   \* SQLAlchemy
  OCallers, OResets, OKinds,                             \* OpenTelemetry
  DOrder, DKinds, DFilters, DMaxEntries, DMaxExports     \* the dataset

VARIABLES
  part,
  fEntries, fNextId, fAnchors, fRegistered, fAppending, fContent, fAllotted,
  sDisk, sWork, sInTx, sConn, sDims, sLock, sPc, sOp, sTodo, sCommitted, sCrashes,
  aDialect, aProc, aSaved, aWork, aHolder, aWriteLock, aPc, aSeen, aMatches, aDone,
  aEntries, aOvertaken,
  oPc, oKind, oCommitted, oPending, oBatch, oTraces, oLost,
  dLive, dGrown, dExport, dExports, dFilter, dToRead, dRead, dToWrite, dDir

Fallback == INSTANCE RedisTape WITH
  Writers <- FWriters, Readers <- {}, Resets <- {}, HasEval <- FALSE, Failing <- FWriters,
  entries <- fEntries, nextId <- fNextId, anchors <- fAnchors, registered <- fRegistered,
  appending <- fAppending, content <- fContent, allotted <- fAllotted,
  resetting <- <<>>, reading <- <<>>, query <- <<>>, first <- <<>>, last <- <<>>,
  since <- <<>>, seen <- <<>>, answer <- <<>>, overtaken <- <<>>

Sqlite == INSTANCE SqliteTape WITH
  Calls <- SCalls, Tapes <- STapes, Names <- SNames, Message <- Plain, None <- NoCall,
  Limit <- SLimit, MaxCrashes <- SMaxCrashes,
  disk <- sDisk, work <- sWork, inTx <- sInTx, conn <- sConn, dims <- sDims, lock <- sLock,
  pc <- sPc, op <- sOp, todo <- sTodo, committed <- sCommitted, crashes <- sCrashes

SqlAlchemy == INSTANCE SqlAlchemyTape WITH
  Appends <- AAppends, Resets <- AResets, Searches <- ASearches, Processes <- AProcesses,
  Dialects <- ADialects, None <- NoCall,
  dialect <- aDialect, proc <- aProc, saved <- aSaved, work <- aWork, holder <- aHolder,
  writeLock <- aWriteLock, pc <- aPc, seen <- aSeen, matches <- aMatches, done <- aDone,
  entries <- aEntries, overtaken <- aOvertaken

Otel == INSTANCE OtelExporter WITH
  Callers <- OCallers, Resets <- OResets, Kinds <- OKinds,
  pc <- oPc, kind <- oKind, committed <- oCommitted, pending <- oPending, batch <- oBatch,
  traces <- oTraces, lost <- oLost

\* What an export keeps: all; or no anchors, and it fails for other entries.
TwoTapes == <<"s", "t">>
Verdicts(anchor, other) == "anchor" :> anchor @@ "other" :> other
AllOrNoAnchors == {Verdicts("keep", "keep"), Verdicts("drop", "fail")}

Dataset == INSTANCE TapeDataset WITH
  Order <- DOrder, Kinds <- DKinds, Filters <- DFilters,
  MaxEntries <- DMaxEntries, MaxExports <- DMaxExports,
  live <- dLive, grown <- dGrown, export <- dExport, exports <- dExports, filter <- dFilter,
  toRead <- dToRead, read <- dRead, toWrite <- dToWrite, dir <- dDir

ASSUME SqlConstants == Sqlite!SqliteConstants /\ SqlAlchemy!SqlAlchemyConstants
ASSUME ExportConstants == Otel!OtelConstants /\ Dataset!DatasetConstants

fVars == <<fEntries, fNextId, fAnchors, fRegistered, fAppending, fContent, fAllotted>>
sVars == <<sDisk, sWork, sInTx, sConn, sDims, sLock, sPc, sOp, sTodo, sCommitted, sCrashes>>
aVars == <<aDialect, aProc, aSaved, aWork, aHolder, aWriteLock, aPc, aSeen, aMatches, aDone,
           aEntries, aOvertaken>>
oVars == <<oPc, oKind, oCommitted, oPending, oBatch, oTraces, oLost>>
dVars == <<dLive, dGrown, dExport, dExports, dFilter, dToRead, dRead, dToWrite, dDir>>
allVars == <<part, vars, fVars, sVars, aVars, oVars, dVars>>

PartsInit ==
  /\ part \in {"redis", "fallback", "sqlite", "sqlalchemy", "otel", "dataset"}
  \* Choices of a part are made in its own behaviours only.
  /\ part = "redis" \/ query = CHOOSE q \in [Readers -> Queries] : TRUE
  /\ part = "sqlalchemy" \/
       /\ aDialect = CHOOSE d \in ADialects : TRUE
       /\ aProc = CHOOSE p \in [AAppends \cup AResets -> AProcesses] : TRUE
       /\ aMatches = [a \in AAppends |-> TRUE]
  /\ part = "otel" \/ oKind = [c \in OCallers |-> "message"]
  /\ Init /\ Fallback!Init /\ Sqlite!Init /\ SqlAlchemy!Init /\ Otel!Init /\ Dataset!Init

OfRedis(A)      == part = "redis" /\ A /\ UNCHANGED <<part, fVars, sVars, aVars, oVars, dVars>>
OfFallback(A)   == part = "fallback" /\ A /\ UNCHANGED <<part, vars, sVars, aVars, oVars, dVars>>
OfSqlite(A)     == part = "sqlite" /\ A /\ UNCHANGED <<part, vars, fVars, aVars, oVars, dVars>>
OfSqlAlchemy(A) == part = "sqlalchemy" /\ A /\ UNCHANGED <<part, vars, fVars, sVars, oVars, dVars>>
OfOtel(A)       == part = "otel" /\ A /\ UNCHANGED <<part, vars, fVars, sVars, aVars, dVars>>
OfDataset(A)    == part = "dataset" /\ A /\ UNCHANGED <<part, vars, fVars, sVars, aVars, oVars>>

\* Calls of one kind are interchangeable: they begin in the order of their numbers.
InTurn(c, kin, pcs) == \A d \in kin : d < c => pcs[d] # "idle"

PartsNext ==
  \/ \E w \in Writers, n \in Names \cup {Plain} :
       InTurn(w, Writers, appending) /\ OfRedis(AppendByEval(w, n))
  \/ \E w \in Writers : OfRedis(Registers(w))
  \/ \E c \in Resets : OfRedis(Deletes(c)) \/ OfRedis(Unregisters(c))
  \/ \E r \in Readers :
       OfRedis(Asks(r)) \/ OfRedis(FindsFirst(r)) \/ OfRedis(FindsLast(r)) \/ OfRedis(Answers(r))
  \/ \E w \in FWriters, name \in Names \cup {Plain} :
       InTurn(w, FWriters, fAppending) /\ OfFallback(Fallback!Allocates(w, name))
  \/ \E w \in FWriters :
       \/ OfFallback(Fallback!PushesAllotted(w)) \/ OfFallback(Fallback!PushFails(w))
       \/ OfFallback(Fallback!Registers(w))
  \/ OfSqlite(Sqlite!Crash)
  \/ \E c \in SCalls :
       \/ InTurn(c, SCalls, sPc) /\ OfSqlite(Sqlite!Starts(c))
       \/ OfSqlite(Sqlite!Locks(c))
       \/ OfSqlite(Sqlite!Proceeds(c)) \/ OfSqlite(Sqlite!Misses(c))
       \/ OfSqlite(Sqlite!Raises(c)) \/ OfSqlite(Sqlite!Cancelled(c))
  \/ \E c \in AAppends \cup AResets :
       \/ InTurn(c, IF c \in AAppends THEN AAppends ELSE AResets, aPc) /\ OfSqlAlchemy(SqlAlchemy!Starts(c))
       \/ OfSqlAlchemy(SqlAlchemy!Finds(c))
       \/ OfSqlAlchemy(SqlAlchemy!Creates(c)) \/ OfSqlAlchemy(SqlAlchemy!Increments(c))
       \/ OfSqlAlchemy(SqlAlchemy!Rereads(c)) \/ OfSqlAlchemy(SqlAlchemy!Inserts(c))
       \/ OfSqlAlchemy(SqlAlchemy!Deletes(c)) \/ OfSqlAlchemy(SqlAlchemy!Commits(c))
       \/ OfSqlAlchemy(SqlAlchemy!RollsBack(c))
  \/ \E s \in ASearches :
       OfSqlAlchemy(SqlAlchemy!Reads(s)) \/ OfSqlAlchemy(SqlAlchemy!Answers(s))
  \/ \E c \in OCallers \cup OResets :
       \/ (c \in OCallers => InTurn(c, OCallers, oPc)) /\ OfOtel(Otel!Commits(c))
       \/ OfOtel(Otel!Records(c))
       \/ OfOtel(Otel!Pops(c)) \/ OfOtel(Otel!Instruments(c))
  \/ OfDataset(Dataset!Next)

PartsSpec == PartsInit /\ [][PartsNext]_allVars

-----------------------------------------------------------------------------
\* Without EVAL ids are distinct and the anchor index is exact, whatever fails
\* between INCR and the transaction: _append_without_eval.
FallbackIsExact == Fallback!IdsAreDistinct /\ Fallback!IndexIsExact

\* SQLite and SQLAlchemy keep a log per tape: appends and resets take effect once,
\* whole, in order, and never after they have failed, whatever is cancelled, raises,
\* crashes or runs in another process meanwhile.
StoresAreLogs == Sqlite!ImplementsTapeLog /\ SqlAlchemy!ImplementsTapeLog

\* The vectors of a SQLite store and their index agree, and its queries stay on their tape
\* and between their anchors; the counter of a SQLAlchemy tape counts its entries, and what a
\* search returns matches: _index_entry_vector, _resolve_bounds, _next_entry_id, fetch_all.
SqlStoresAreSound ==
  /\ Sqlite!VectorsMatchIndex /\ Sqlite!QueriesStayInside
  /\ SqlAlchemy!CounterCountsEntries /\ SqlAlchemy!SearchesMatch

\* A committed entry is traced once: OTelTapeExporter.  The files of a dataset agree, and
\* its manifest speaks of none older than itself: export_dataset.
ExportsAreTrue == Otel!EntriesAreTracedOnce /\ Dataset!DatasetIsWhole

=============================================================================
