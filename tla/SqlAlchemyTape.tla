--------------------------- MODULE SqlAlchemyTape ---------------------------
(***************************************************************************)
(* SQLAlchemyTapeStore (bub-tapestore-sqlalchemy, store.py, models.py) on  *)
(* one tape: appends, resets and queries of several processes whose        *)
(* statements the database interleaves.  A transaction that has written    *)
(* holds the tape until it ends; the others see what is committed.         *)
(*                                                                         *)
(* "sqlite": SELECT FOR UPDATE locks nothing, releasing the outermost      *)
(* savepoint commits, rows of deleted tapes are given again.               *)
(* "server": a database with row locks, true savepoints and sequences.     *)
(***************************************************************************)
EXTENDS Naturals, Sequences, FiniteSets

CONSTANTS
  Appends, Resets, Searches,  \* calls
  Processes,                  \* each has a write lock
  Dialects,                   \* of "sqlite" and "server"
  None

WriteCalls == Appends \cup Resets
SqlAlchemyConstants ==
  /\ None \notin WriteCalls \cup Searches
  /\ Appends \cap Resets = {} /\ WriteCalls \cap Searches = {}
  /\ Dialects \subseteq {"sqlite", "server"}

VARIABLES
  dialect,
  proc,       \* the process of a writer
  saved,      \* the tape as committed: its row and its entries
  work,       \* as the transaction that has written sees it
  holder,     \* that transaction
  writeLock,  \* _write_lock of each process
  pc,
  seen,       \* the row a call has read
  matches,    \* does the entry of an append match the text that is searched?
  done,       \* history: the calls that have taken effect
  entries,    \* what a search has read
  overtaken   \* history: the searches a reset has come in between of

tapeVars == <<saved, work, holder>>
vars == <<dialect, proc, tapeVars, writeLock, pc, seen, matches, done, entries, overtaken>>

\* A row of tapes: its id and last_entry_id; id 0 for a tape that is not there.
NoRow == [id |-> 0, last |-> 0]

Init ==
  /\ dialect \in Dialects /\ proc \in [WriteCalls -> Processes]
  /\ saved = [row |-> NoRow, entries |-> <<>>, ids |-> 0] /\ work = saved
  /\ holder = None /\ writeLock = [p \in Processes |-> None]
  /\ pc = [c \in WriteCalls \cup Searches |-> "idle"]
  /\ seen = [c \in WriteCalls |-> NoRow] /\ matches \in [Appends -> BOOLEAN]
  /\ done = {} /\ entries = [s \in Searches |-> <<>>] /\ overtaken = {}

View(c) == IF holder = c THEN work ELSE saved
Lockable(c) == holder \in {None, c}

\* mutant: no transaction, every statement is committed.
WritesAtOnce(c, tape) == Lockable(c) /\ saved' = tape /\ work' = tape /\ UNCHANGED holder

\* The statement of c that writes: it waits for the tape and then holds it.
Writes(c, tape) == Lockable(c) /\ holder' = c /\ work' = tape /\ UNCHANGED saved

Goes(c, p) == pc' = [pc EXCEPT ![c] = p]

\* The call leaves the transaction and the lock of its process.
Leaves(c, p) ==
  /\ Goes(c, p)
  /\ writeLock' = [q \in Processes |-> IF writeLock[q] = c THEN None ELSE writeLock[q]]
  /\ holder' = IF holder = c THEN None ELSE holder
  /\ seen' = [seen EXCEPT ![c] = NoRow]

\* append and reset: the write lock of the process.
Starts(c) ==
  /\ pc[c] = "idle" /\ writeLock[proc[c]] = None
  /\ writeLock' = [writeLock EXCEPT ![proc[c]] = c] /\ Goes(c, "find")
  /\ UNCHANGED <<dialect, proc, tapeVars, seen, matches, done, entries, overtaken>>

\* _find_tape_record, of an append FOR UPDATE.
Finds(c) ==
  /\ pc[c] = "find"
  /\ seen' = [seen EXCEPT ![c] = View(c).row]
  /\ IF View(c).row.id = 0
     THEN IF c \in Resets THEN Goes(c, "commit") ELSE Goes(c, "create")
     ELSE Goes(c, IF c \in Resets THEN "delete" ELSE "increment")
  /\ IF dialect = "server" /\ c \in Appends /\ View(c).row.id # 0
     THEN Writes(c, View(c)) ELSE UNCHANGED tapeVars
  /\ done' = IF c \in Resets /\ View(c).row.id = 0 THEN done \cup {c} ELSE done
  /\ UNCHANGED <<dialect, proc, writeLock, matches, entries, overtaken>>

\* _load_or_create_tape: the row, in a savepoint.  A row that another process
\* has created is an IntegrityError, and the row is looked up again.
Creates(c) ==
  LET t == View(c)
      id == IF dialect = "sqlite" THEN 1 ELSE t.ids + 1
      made == [t EXCEPT !.row = [id |-> id, last |-> 0], !.ids = id]
  IN
  /\ pc[c] = "create" /\ Lockable(c) /\ Goes(c, "find")
  /\ IF t.row.id # 0 THEN UNCHANGED tapeVars
     ELSE IF dialect = "sqlite" THEN saved' = made /\ work' = made /\ UNCHANGED holder
     ELSE Writes(c, made)
  /\ UNCHANGED <<dialect, proc, writeLock, seen, matches, done, entries, overtaken>>

\* The WHERE of the update of _next_entry_id.
CounterMatches(row, s) == row.id = s.id /\ row.last = s.last

\* _next_entry_id: the counter, if it is still as seen; no row, no counter.
Increments(c) ==
  LET t == View(c) IN
  /\ pc[c] = "increment"
  /\ IF CounterMatches(t.row, seen[c])
     THEN /\ Writes(c, [t EXCEPT !.row.last = seen[c].last + 1])
          /\ seen' = [seen EXCEPT ![c].last = @ + 1]
          /\ Goes(c, "insert")
     ELSE Writes(c, t) /\ Goes(c, "reread") /\ UNCHANGED seen
  /\ UNCHANGED <<dialect, proc, writeLock, matches, done, entries, overtaken>>

\* _next_entry_id: the counter as it is by now.
Rereads(c) ==
  /\ pc[c] = "reread" /\ View(c).row.id = seen[c].id
  /\ seen' = [seen EXCEPT ![c] = View(c).row] /\ Goes(c, "increment")
  /\ UNCHANGED <<dialect, proc, tapeVars, writeLock, matches, done, entries, overtaken>>

\* append: the entry, under the key of its tape and number.
Inserts(c) ==
  LET t == View(c) IN
  /\ pc[c] = "insert" /\ \A i \in DOMAIN t.entries : t.entries[i].id # seen[c].last
  /\ Writes(c, [t EXCEPT !.entries = Append(@, [id |-> seen[c].last, matches |-> matches[c]])])
  /\ Goes(c, "commit")
  /\ UNCHANGED <<dialect, proc, writeLock, seen, matches, done, entries, overtaken>>

\* reset: the row that was found, and with it the entries.
Deletes(c) ==
  LET t == View(c) IN
  /\ pc[c] = "delete" /\ Goes(c, "commit")
  /\ Writes(c, IF t.row.id = seen[c].id THEN [t EXCEPT !.row = NoRow, !.entries = <<>>] ELSE t)
  /\ UNCHANGED <<dialect, proc, writeLock, seen, matches, done, entries, overtaken>>

\* The resets that have found the row c deletes, and will not find it again.
Overtakes(c) ==
  {r \in Resets : dialect = "server" /\ r # c /\ pc[r] = "delete"
                /\ seen[r].id = saved.row.id /\ saved.row.id # 0}

Commits(c) ==
  LET deleted == saved.row.id # 0 /\ View(c).row.id # saved.row.id IN
  /\ pc[c] = "commit" /\ Leaves(c, "ok")
  /\ saved' = View(c) /\ UNCHANGED work
  /\ done' = done \cup {c} \cup IF deleted THEN Overtakes(c) ELSE {}
  /\ overtaken' = IF deleted THEN overtaken \cup {s \in Searches : pc[s] = "match"} ELSE overtaken
  /\ UNCHANGED <<dialect, proc, matches, entries>>

\* A statement raises, the counter's row is gone, or the process dies: rolled back.
RollsBack(c) ==
  /\ pc[c] \in {"find", "create", "increment", "reread", "insert", "delete", "commit"}
  /\ Leaves(c, "failed")
  /\ work' = IF holder = c THEN saved ELSE work
  /\ UNCHANGED <<dialect, proc, saved, matches, done, entries, overtaken>>

-----------------------------------------------------------------------------
(* fetch_all with a text: the entries in one session, the ids that match in another. *)

Reads(s) ==
  /\ pc[s] = "idle"
  /\ entries' = [entries EXCEPT ![s] = saved.entries]
  /\ Goes(s, IF saved.entries = <<>> THEN "answered" ELSE "match")
  /\ UNCHANGED <<dialect, proc, tapeVars, writeLock, seen, matches, done, overtaken>>

\* _matched_entry_ids.
Matched(tape) == {tape.entries[i].id : i \in {j \in DOMAIN tape.entries : tape.entries[j].matches}}

\* mutant: the two readings are paired by place.
KeptByPlace(es) == [i \in {j \in DOMAIN es : j <= Cardinality(Matched(saved))} |-> es[i]]

\* Each entry keeps its place.
Kept(es) == [i \in {j \in DOMAIN es : es[j].id \in Matched(saved)} |-> es[i]]

\* The entries that were read and whose id matches by now.
Answers(s) ==
  /\ pc[s] = "match" /\ Goes(s, "answered")
  /\ entries' = [entries EXCEPT ![s] = Kept(@)]
  /\ UNCHANGED <<dialect, proc, tapeVars, writeLock, seen, matches, done, overtaken>>

Next ==
  \/ \E c \in WriteCalls :
       \/ Starts(c) \/ Finds(c) \/ Creates(c) \/ Increments(c) \/ Rereads(c)
       \/ Inserts(c) \/ Deletes(c) \/ Commits(c) \/ RollsBack(c)
  \/ \E s \in Searches : Reads(s) \/ Answers(s)

Spec == Init /\ [][Next]_vars

-----------------------------------------------------------------------------
(* Properties *)

Log == INSTANCE TapeLog WITH
  Calls <- WriteCalls, Tapes <- {"tape"},
  log <- [t \in {"tape"} |-> {saved.entries[i] : i \in DOMAIN saved.entries}],
  fate <- [c \in WriteCalls |-> IF c \in done THEN "done"
                             ELSE IF pc[c] = "failed" THEN "failed" ELSE "pending"]

\* The store is a log on either kind of database: an append takes effect once,
\* whole, under a number higher than those before it, and never if it raises:
\* _load_or_create_tape, _next_entry_id.
ImplementsTapeLog == Log!Spec

\* The counter of a tape is the number of its entries: no number is lost to a
\* transaction that was rolled back: last_entry_id.
CounterCountsEntries ==
  saved.row.id # 0 => /\ saved.row.last = Len(saved.entries)
                      /\ \A i \in DOMAIN saved.entries : saved.entries[i].id = i

\* What a search returns matches, unless a reset came in between: fetch_all.
SearchesMatch ==
  \A s \in Searches : pc[s] = "answered" /\ s \notin overtaken =>
    \A i \in DOMAIN entries[s] : entries[s][i].matches
=============================================================================
