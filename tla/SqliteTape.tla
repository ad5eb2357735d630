----------------------------- MODULE SqliteTape -----------------------------
(***************************************************************************)
(* SQLiteTapeStore (bub-tapestore-sqlite, store.py): one store, one        *)
(* connection, one lock.  A call is a series of statements; the thread of  *)
(* the connection runs them in order, also the one a cancelled caller no   *)
(* longer awaits, and `except Exception' does not see a cancellation.      *)
(*                                                                         *)
(* The entries are rows: an id, the row of the tape and a name, that of an *)
(* anchor or Message.  Their ids order them.  Embeddings are one per       *)
(* message, of one dimension; a response of another dimension is one way   *)
(* to fail.                                                                *)
(***************************************************************************)
EXTENDS Naturals, FiniteSets

CONSTANTS
  Calls,     \* calls of the store
  Tapes,     \* names of tapes
  Names,     \* names of anchors
  Message,   \* an entry that is no anchor; a bound that is none
  None,      \* nobody
  Limit,     \* the limit of a semantic query
  MaxCrashes

SqliteConstants == Message \notin Names /\ None \notin Calls /\ Limit \in Nat \ {0}

VARIABLES
  disk,      \* the database as committed
  work,      \* the database as the connection sees it
  inTx,      \* is a transaction open on the connection?
  conn,      \* _connection: is there one?
  dims,      \* _vector_dimensions: are they known?
  lock,      \* _operation_lock: who holds it
  pc, op,    \* where a call stands, and what it is
  todo,      \* the messages a search has found without a vector
  committed, \* history: the calls whose COMMIT has run
  crashes

db == <<disk, work, inTx, committed>>
vars == <<db, conn, dims, lock, pc, op, todo, crashes>>

Empty == [tapes |-> [t \in Tapes |-> 0], entries |-> {}, lastId |-> 0,
          index |-> {}, vectors |-> {}, hasTable |-> FALSE]

\* What a query bounds its slice by.
Slices ==
  [kind : {"all", "last"}, from : {Message}, to : {Message}]
    \cup [kind : {"after"}, from : Names, to : {Message}]
    \cup [kind : {"between"}, from : Names, to : Names]

\* An append, a reset, a query without or with a text, a close.
NoOp == [name |-> "none", tape |-> None, entry |-> Message]
Ops ==
  [name : {"append"}, tape : Tapes, entry : Names \cup {Message}]
    \cup [name : {"reset", "fetch", "search"}, tape : Tapes, entry : {Message}]
    \cup [name : {"close"}, tape : {None}, entry : {Message}]

Init ==
  /\ disk = Empty /\ work = Empty /\ inTx = FALSE /\ conn = FALSE /\ dims = FALSE
  /\ lock = None /\ committed = {} /\ crashes = 0
  /\ pc = [c \in Calls |-> "idle"] /\ op = [c \in Calls |-> NoOp]
  /\ todo = [c \in Calls |-> {}]

\* The row SQLite gives where a column does not say AUTOINCREMENT.
NextRow(rows) == IF rows = {} THEN 1 ELSE 1 + CHOOSE n \in rows : \A k \in rows : k <= n

TapeId(t) == work.tapes[t]
EntriesOf(base, t) == {e \in base.entries : e.tape = base.tapes[t]}

-----------------------------------------------------------------------------
(* The statements of a call.  Each leaves pc and lock to Proceeds and Cancelled. *)

\* _ensure_connection: the dimensions are read once, as the connection opens.
Connect(c) ==
  /\ pc[c] = "connect" /\ conn' = TRUE
  /\ dims' = IF conn THEN dims ELSE disk.hasTable
  /\ UNCHANGED <<db, todo>>

\* _begin_immediate, which fails within a transaction.
Begin(c) ==
  /\ pc[c] = "begin" /\ ~inTx /\ inTx' = TRUE
  /\ UNCHANGED <<disk, work, committed, conn, dims, todo>>

Writes(base) == work' = base /\ UNCHANGED <<disk, inTx, committed, conn, todo>>

\* append: the row of the tape, unless it is there.
InsertTape(c) ==
  /\ pc[c] = "tape"
  /\ Writes(IF TapeId(op[c].tape) # 0 THEN work
            ELSE [work EXCEPT !.tapes[op[c].tape] = NextRow({work.tapes[t] : t \in Tapes})])
  /\ UNCHANGED dims

\* append: the entry.  The id of an AUTOINCREMENT column is never given again.
InsertEntry(c) ==
  /\ pc[c] = "entry"
  /\ Writes([work EXCEPT !.lastId = @ + 1,
                         !.entries = @ \cup {[id |-> work.lastId + 1,
                                              tape |-> TapeId(op[c].tape),
                                              name |-> op[c].entry]}])
  /\ UNCHANGED dims

RowsOf(t) == {x.row : x \in {y \in work.index : y.tape = TapeId(t)}}

\* _delete_vectors_for_tape.
VectorsDeleted(t) ==
  IF dims THEN [work EXCEPT !.vectors = {v \in @ : v.row \notin RowsOf(t)}] ELSE work

\* reset: the vectors of a tape that exists.  Without their table this fails.
DeleteVectors(c) ==
  /\ pc[c] = "vectors" /\ (TapeId(op[c].tape) # 0 /\ dims => work.hasTable)
  /\ Writes(IF TapeId(op[c].tape) = 0 THEN work ELSE VectorsDeleted(op[c].tape))
  /\ UNCHANGED dims

\* reset: the tape.  Entries and index rows go with it.
DeleteTape(c) ==
  LET id == TapeId(op[c].tape) IN
  /\ pc[c] = "delete"
  /\ Writes([work EXCEPT !.tapes[op[c].tape] = 0,
                         !.entries = {e \in @ : e.tape # id},
                         !.index = {x \in @ : x.tape # id}])
  /\ UNCHANGED dims

Commit(c) ==
  /\ pc[c] = "commit" /\ disk' = work /\ inTx' = FALSE
  /\ committed' = IF op[c].name = "search" THEN committed ELSE committed \cup {c}
  /\ UNCHANGED <<work, conn, dims, todo>>

\* close, which rolls back what is open.
Close(c) ==
  /\ pc[c] = "close" /\ conn' = FALSE /\ work' = disk /\ inTx' = FALSE
  /\ UNCHANGED <<disk, committed, dims, todo>>

\* _embed_unindexed_messages: the messages of the tape that have no index row.
FindUnindexed(c) ==
  /\ pc[c] = "unindexed"
  /\ todo' = [todo EXCEPT ![c] =
       {e.id : e \in {x \in EntriesOf(work, op[c].tape) :
          /\ x.name = Message
          /\ \A y \in work.index : ~(y.tape = x.tape /\ y.entry = x.id)}}]
  /\ UNCHANGED <<db, conn, dims>>

\* _compute_embedding, of the messages.
Embed(c) == pc[c] = "embed" /\ UNCHANGED <<db, conn, dims, todo>>

\* _ensure_vector_table: the dimensions are known from here on, also if this
\* transaction is rolled back.
EnsureTable(c) ==
  pc[c] = "table" /\ dims' = TRUE /\ Writes([work EXCEPT !.hasTable = TRUE])

\* _index_entry_vector, of the next message.
IndexVector(c) ==
  /\ pc[c] = "index"
  /\ LET e == CHOOSE i \in todo[c] : \A k \in todo[c] : i <= k
         row == NextRow({x.row : x \in work.index})
     IN /\ \A v \in work.vectors : v.row # row
        /\ work' = [work EXCEPT
             !.index = @ \cup {[row |-> row, tape |-> TapeId(op[c].tape), entry |-> e]},
             !.vectors = @ \cup {[row |-> row, entry |-> e]}]
        /\ todo' = [todo EXCEPT ![c] = @ \ {e}]
  /\ UNCHANGED <<disk, inTx, committed, conn, dims>>

-----------------------------------------------------------------------------
(* Queries *)

\* _find_anchor_id: the ids of the anchors of this name after an entry.
AnchorIds(t, n, after) ==
  {e.id : e \in {x \in EntriesOf(work, t) :
     x.name # Message /\ n \in {Message, x.name} /\ x.id > after}}

Highest(s) == CHOOSE i \in s : \A k \in s : k <= i
Lowest(s)  == CHOOSE i \in s : \A k \in s : i <= k

\* _resolve_bounds: the ids the slice lies between; none if an anchor is missing.
Bounds(t, q) ==
  LET from == AnchorIds(t, q.from, 0) IN
  CASE q.kind = "all" -> {<<0, work.lastId + 1>>}
    [] q.kind # "all" /\ from = {} -> {}
    [] q.kind \in {"last", "after"} /\ from # {} -> {<<Highest(from), work.lastId + 1>>}
    [] q.kind = "between" /\ from # {} ->
         LET to == AnchorIds(t, q.to, Highest(from))
         IN {<<Highest(from), Lowest(to)>> : x \in IF to = {} THEN {} ELSE {0}}

Within(t, b) == {e \in EntriesOf(work, t) : b[1] < e.id /\ e.id < b[2]}

\* fetch_all without a text, or without an embedding model: what it returns.
Fetched(t, q) == {{e.id : e \in Within(t, b)} : b \in Bounds(t, q)}

\* _fetch_by_semantic_query: the nearest vectors of all tapes, then those that
\* are of this tape and within its bounds.
Found(t, q) ==
  {{e.id : e \in {x \in Within(t, b) : \E y \in work.index, v \in near :
                   y.row = v.row /\ y.entry = x.id /\ y.tape = x.tape}} :
     b \in Bounds(t, q),
     near \in {s \in SUBSET work.vectors :
       IF dims THEN Cardinality(s) = Limit \/ (s = work.vectors /\ Cardinality(s) < Limit)
               ELSE s = {}}}

\* Either reads and changes nothing; an anchor that is missing raises.
Fetch(c) ==
  /\ pc[c] \in {"fetch", "nearest"} /\ \E q \in Slices : Bounds(op[c].tape, q) # {}
  /\ UNCHANGED <<db, conn, dims, todo>>

-----------------------------------------------------------------------------
Statement(c) ==
  \/ Connect(c) \/ Begin(c) \/ InsertTape(c) \/ InsertEntry(c) \/ DeleteVectors(c)
  \/ DeleteTape(c) \/ Commit(c) \/ Close(c) \/ FindUnindexed(c) \/ Embed(c)
  \/ EnsureTable(c) \/ IndexVector(c) \/ Fetch(c)

First == [append |-> "begin", reset |-> "begin", fetch |-> "fetch",
          search |-> "unindexed", close |-> "close"]
Writing == [append |-> "tape", reset |-> "vectors", search |-> "table"]
After == [tape |-> "entry", entry |-> "commit", vectors |-> "delete", delete |-> "commit",
          embed |-> "begin", table |-> "index", close |-> "asked",
          fetch |-> "asked", nearest |-> "asked"]

\* What a call does once its statement has run.
NextPc(c) ==
  CASE pc[c] = "connect" -> IF op[c].name \in {"fetch", "search"} /\ TapeId(op[c].tape) = 0
                            THEN "missing" ELSE First[op[c].name]
    [] pc[c] = "begin" -> Writing[op[c].name]
    [] pc[c] = "unindexed" -> IF todo'[c] = {} THEN "nearest" ELSE "embed"
    [] pc[c] = "index" -> IF todo'[c] = {} THEN "commit" ELSE "index"
    [] pc[c] = "commit" -> IF op[c].name = "search" THEN "nearest" ELSE "ok"
    [] OTHER -> After[pc[c]]

Ended == {"ok", "asked", "failed"}
Running(c) == pc[c] \notin Ended \cup {"idle", "waiting"}

Goes(c, p) ==
  /\ pc' = [pc EXCEPT ![c] = p]
  /\ lock' = IF p \in Ended /\ lock = c THEN None ELSE lock
  /\ op' = IF p \in Ended THEN [op EXCEPT ![c] = NoOp] ELSE op

Starts(c) ==
  /\ pc[c] = "idle" /\ pc' = [pc EXCEPT ![c] = "waiting"]
  /\ \E o \in Ops : op' = [op EXCEPT ![c] = o]
  /\ UNCHANGED <<db, conn, dims, lock, todo, crashes>>

\* close without a connection returns at once.
Locks(c) ==
  /\ pc[c] = "waiting" /\ lock = None
  /\ IF op[c].name = "close" /\ ~conn THEN Goes(c, "asked")
     ELSE pc' = [pc EXCEPT ![c] = IF op[c].name = "close" THEN "close" ELSE "connect"]
          /\ lock' = c /\ UNCHANGED op
  /\ UNCHANGED <<db, conn, dims, todo, crashes>>

Proceeds(c) ==
  Running(c) /\ Statement(c) /\ Goes(c, NextPc(c)) /\ UNCHANGED crashes

\* A query of a tape that does not exist: an empty answer, or _raise_missing_for_query.
Misses(c) ==
  /\ pc[c] = "missing"
  /\ \E q \in Slices : Goes(c, IF q.kind = "all" THEN "asked" ELSE "failed")
  /\ UNCHANGED <<db, conn, dims, todo, crashes>>

\* Statements that stand between BEGIN and COMMIT, within the try.
Inside == {"tape", "entry", "vectors", "delete", "table", "index"}

\* A statement raises: within the transaction it is rolled back.  A COMMIT or a
\* BEGIN that raises changes nothing.
Raises(c) ==
  /\ Running(c) /\ pc[c] \notin {"missing", "close"}
  /\ IF pc[c] \in Inside THEN work' = disk /\ inTx' = FALSE ELSE UNCHANGED <<work, inTx>>
  /\ Goes(c, "failed")
  /\ UNCHANGED <<disk, committed, conn, dims, todo, crashes>>

\* The caller is cancelled: the statement it awaits runs, nothing else does.
Cancelled(c) ==
  \/ pc[c] = "waiting" /\ Goes(c, "failed") /\ UNCHANGED <<db, conn, dims, todo, crashes>>
  \/ Running(c) /\ Statement(c) /\ Goes(c, "failed") /\ UNCHANGED crashes

\* The process dies and comes back: the database is as committed.
Crash ==
  /\ crashes < MaxCrashes /\ crashes' = crashes + 1
  /\ pc' = [c \in Calls |-> IF pc[c] \in Ended \cup {"idle"} THEN pc[c] ELSE "failed"]
  /\ work' = disk /\ inTx' = FALSE /\ conn' = FALSE /\ dims' = FALSE /\ lock' = None
  /\ op' = [c \in Calls |-> IF pc[c] = "idle" THEN op[c] ELSE NoOp]
  /\ todo' = [c \in Calls |-> {}]
  /\ UNCHANGED <<disk, committed>>

Next ==
  \/ Crash
  \/ \E c \in Calls :
       Starts(c) \/ Locks(c) \/ Proceeds(c) \/ Misses(c) \/ Raises(c) \/ Cancelled(c)

Spec == Init /\ [][Next]_vars

-----------------------------------------------------------------------------
(* Properties *)

\* The fate of a call, for TapeLog: what is told of it must be what was done.
FateOf(c) ==
  IF pc[c] = "ok" \/ c \in committed THEN "done"
  ELSE IF pc[c] \in Ended THEN pc[c] ELSE "pending"

Log == INSTANCE TapeLog WITH
  log <- [t \in Tapes |-> EntriesOf(disk, t)],
  fate <- [c \in Calls |-> FateOf(c)]

\* The store is a log per tape, whatever is cancelled, raises or crashes between
\* BEGIN and COMMIT: append and reset.
ImplementsTapeLog == Log!Spec

\* The index of a database names its vectors, one for one, and each is of the
\* entry and the tape it was made of: _index_entry_vector, _delete_vectors_for_tape.
VectorsMatchIndex ==
  /\ disk.vectors = {[row |-> x.row, entry |-> x.entry] : x \in disk.index}
  /\ \A x \in disk.index : \E e \in disk.entries : e.id = x.entry /\ e.tape = x.tape

\* A query returns the entries of its own tape that stand between its anchors,
\* as the log itself has them, and a search none other: _resolve_bounds,
\* _find_anchor_id, _fetch_by_semantic_query.
QueriesStayInside ==
  \A c \in Calls : pc[c] \in {"fetch", "nearest"} => \A q \in Slices :
    LET t == op[c].tape
        es == EntriesOf(work, t)
        \* The last anchor of a name, and the first one after it.
        Is(e, n) == e.name # Message /\ n \in {Message, e.name}
        Opens(e) == Is(e, q.from) /\ \A f \in es : f.id > e.id => ~Is(f, q.from)
        Past(e) == q.kind = "all" \/ \E o \in es : Opens(o) /\ o.id < e.id
        Before(e) == q.kind # "between" \/
          \E k \in es : /\ Is(k, q.to) /\ e.id < k.id
                       /\ \A o \in es : Opens(o) =>
                            \A m \in es : o.id < m.id /\ m.id < k.id => ~Is(m, q.to)
        slice == {e.id : e \in {f \in es : Past(f) /\ Before(f)}}
    IN /\ \A a \in Fetched(t, q) : a = slice
       /\ \A a \in Found(t, q) : a \subseteq slice
=============================================================================
