----------------------------- MODULE RedisTape -----------------------------
(***************************************************************************)
(* RedisTapeStore (bub-tapestore-redis, store.py) on one tape: appends,    *)
(* resets and queries of several processes, each a series of Redis         *)
(* commands that interleave with those of the others.                      *)
(*                                                                         *)
(* An entry is its id and the name of its anchor, Plain for any other      *)
(* entry.  A ZSCAN is one command, as it is for small sorted sets.         *)
(***************************************************************************)
EXTENDS Integers, Sequences, FiniteSets

CONSTANTS
  Writers,      \* calls of append
  Readers,      \* calls of fetch_all
  Resets,       \* calls of reset
  Names,        \* names of anchors
  Plain,        \* an entry that is no anchor, a query without a name
  HasEval,      \* does the server know EVAL?
  Failing       \* the appends whose connection may fail

ASSUME RedisConstants ==
  Plain \notin Names /\ HasEval \in BOOLEAN /\ Failing \subseteq Writers

VARIABLES
  entries,      \* the list {namespace}:entries
  nextId,       \* {namespace}:next_id
  anchors,      \* the sorted set {namespace}:anchors
  registered,   \* is the tape in {prefix}:tapes?
  appending,    \* where an append stands
  content,      \* the anchor name of its entry
  allotted,     \* the id INCR gave it
  resetting,    \* where a reset stands
  reading,      \* where a query stands
  query,        \* what it asks
  first, last,  \* the ids of the anchors that bound it, 0 for none
  since,        \* history: the tape when it was asked
  seen,         \* history: the tape when it was answered
  answer,       \* the entries it returns
  overtaken     \* history: has the tape been reset while it ran?

tape == <<entries, nextId, anchors>>
calls == <<appending, content, allotted>>
asking == <<reading, query, first, last, since, seen, answer>>
vars == <<tape, registered, calls, resetting, asking, overtaken>>

Entry(id, name) == [id |-> id, name |-> name]

\* _resolve_slice_bounds: everything, after the last anchor, after an anchor,
\* between two of them.
Queries ==
  [kind : {"all", "last"}, from : {Plain}, to : {Plain}]
    \cup [kind : {"after"}, from : Names, to : {Plain}]
    \cup [kind : {"between"}, from : Names, to : Names]

Init ==
  /\ entries = <<>> /\ nextId = 0 /\ anchors = {} /\ registered = FALSE
  /\ appending = [w \in Writers |-> "idle"]
  /\ content = [w \in Writers |-> Plain]
  /\ allotted = [w \in Writers |-> 0]
  /\ resetting = [c \in Resets |-> "idle"]
  /\ reading = [r \in Readers |-> "idle"]
  /\ query \in [Readers -> Queries]
  /\ first = [r \in Readers |-> 0] /\ last = [r \in Readers |-> 0]
  /\ since = [r \in Readers |-> <<>>] /\ seen = [r \in Readers |-> <<>>]
  /\ answer = [r \in Readers |-> <<>>]
  /\ overtaken = [r \in Readers |-> FALSE]

-----------------------------------------------------------------------------
(* append *)

\* mutant: the id of the index is the place of the entry.
IndexedByPlace(name, id) ==
  IF name = Plain THEN anchors
  ELSE anchors \cup {Entry(Len(entries) + 1, name)}

\* The anchor index with an entry of this name and id.
Indexed(name, id) ==
  IF name = Plain THEN anchors ELSE anchors \cup {Entry(id, name)}

\* The list and the index, written by one script or one transaction.
Push(name, id) ==
  /\ entries' = Append(entries, Entry(id, name))
  /\ anchors' = Indexed(name, id)

\* The script: id, entry and index at once.  The reply may be lost.
AppendByEval(w, name) ==
  /\ HasEval /\ appending[w] = "idle"
  /\ nextId' = nextId + 1
  /\ Push(name, nextId')
  /\ \/ appending' = [appending EXCEPT ![w] = "written"]
     \/ w \in Failing /\ appending' = [appending EXCEPT ![w] = "failed"]
  /\ UNCHANGED <<registered, content, allotted, resetting, asking, overtaken>>

\* mutant: the counter is read and written back with the entry.
IncrementedByPlace == Len(entries) + 1

\* INCR: the id of the caller, and the counter.
Incremented == nextId + 1

\* _append_without_eval: INCR of a server that refused the script.
Allocates(w, name) ==
  /\ ~HasEval /\ appending[w] = "idle"
  /\ nextId' = Incremented
  /\ appending' = [appending EXCEPT ![w] = "allotted"]
  /\ content' = [content EXCEPT ![w] = name]
  /\ allotted' = [allotted EXCEPT ![w] = nextId']
  /\ UNCHANGED <<entries, anchors, registered, resetting, asking, overtaken>>

\* Its transaction, whose reply may be lost.
PushesAllotted(w) ==
  /\ appending[w] = "allotted"
  /\ Push(content[w], allotted[w])
  /\ \/ appending' = [appending EXCEPT ![w] = "written"]
     \/ w \in Failing /\ appending' = [appending EXCEPT ![w] = "failed"]
  /\ UNCHANGED <<nextId, registered, content, allotted, resetting, asking, overtaken>>

\* The connection or the process is gone before the transaction.
PushFails(w) ==
  /\ w \in Failing /\ appending[w] = "allotted"
  /\ appending' = [appending EXCEPT ![w] = "failed"]
  /\ UNCHANGED <<tape, registered, content, allotted, resetting, asking, overtaken>>

\* SADD, best effort.
Registers(w) ==
  /\ appending[w] = "written"
  /\ appending' = [appending EXCEPT ![w] = "done"]
  /\ \/ registered' = TRUE
     \/ w \in Failing /\ UNCHANGED registered
  /\ UNCHANGED <<tape, content, allotted, resetting, asking, overtaken>>

-----------------------------------------------------------------------------
(* reset *)

\* mutant: the counter survives the reset.
CounterSurvives == entries' = <<>> /\ anchors' = {} /\ UNCHANGED nextId

\* DEL of the three keys of the tape.
KeysDeleted == entries' = <<>> /\ nextId' = 0 /\ anchors' = {}

Running(r) == reading[r] \in {"asked", "half", "bounded"}

Deletes(c) ==
  /\ resetting[c] = "idle"
  /\ KeysDeleted
  /\ resetting' = [resetting EXCEPT ![c] = "deleted"]
  /\ overtaken' = [r \in Readers |-> overtaken[r] \/ Running(r)]
  /\ UNCHANGED <<registered, calls, asking>>

\* SREM, a command of its own.
Unregisters(c) ==
  /\ resetting[c] = "deleted"
  /\ registered' = FALSE
  /\ resetting' = [resetting EXCEPT ![c] = "done"]
  /\ UNCHANGED <<tape, calls, asking, overtaken>>

-----------------------------------------------------------------------------
(* fetch_all *)

Asks(r) ==
  /\ reading[r] = "idle"
  /\ reading' = [reading EXCEPT ![r] =
                   IF query[r].kind = "all" THEN "bounded" ELSE "asked"]
  /\ since' = [since EXCEPT ![r] = entries]
  /\ UNCHANGED <<tape, registered, calls, resetting, query, first, last, seen,
                 answer, overtaken>>

\* The ids of the anchors that may open the slice: of any anchor, or of the
\* anchors of one name.
Openings(q) == {a.id : a \in {x \in anchors : q.kind = "last" \/ x.name = q.from}}

\* Those of the anchors that may close it.
Closings(q, opening) ==
  {a.id : a \in {x \in anchors : x.name = q.to /\ x.id > opening}}

Misses(r) ==
  /\ reading' = [reading EXCEPT ![r] = "missing"]
  /\ seen' = [seen EXCEPT ![r] = entries]
  /\ UNCHANGED <<first, last>>

\* _last_anchor_id, or the greatest id _scan_anchor_ids finds.
FindsFirst(r) ==
  /\ reading[r] = "asked"
  /\ \/ Openings(query[r]) = {} /\ Misses(r)
     \/ \E id \in Openings(query[r]) :
          /\ \A other \in Openings(query[r]) : other <= id
          /\ first' = [first EXCEPT ![r] = id]
          /\ reading' = [reading EXCEPT ![r] =
                           IF query[r].kind = "between" THEN "half" ELSE "bounded"]
          /\ UNCHANGED <<last, seen>>
  /\ UNCHANGED <<tape, registered, calls, resetting, query, since, answer, overtaken>>

\* _resolve_between_anchor_bounds: the least id after that one.
FindsLast(r) ==
  /\ reading[r] = "half"
  /\ \/ Closings(query[r], first[r]) = {} /\ Misses(r)
     \/ \E id \in Closings(query[r], first[r]) :
          /\ \A other \in Closings(query[r], first[r]) : id <= other
          /\ last' = [last EXCEPT ![r] = id]
          /\ reading' = [reading EXCEPT ![r] = "bounded"]
          /\ UNCHANGED <<first, seen>>
  /\ UNCHANGED <<tape, registered, calls, resetting, query, since, answer, overtaken>>

\* LRANGE reaches no further than the list does.
Reach(to) == IF to = 0 \/ to > Len(entries) THEN Len(entries) ELSE to - 1

\* mutant: the opening anchor is part of the slice.
SliceWithAnchor(from, to) ==
  SubSeq(entries, IF from = 0 THEN 1 ELSE from, Reach(to))

\* LRANGE from the index first[r], counted from 0, so that the entry after
\* that anchor comes first; to the end, or to the entry before the anchor
\* last[r].
Slice(from, to) == SubSeq(entries, from + 1, Reach(to))

Answers(r) ==
  /\ reading[r] = "bounded"
  /\ answer' = [answer EXCEPT ![r] = Slice(first[r], last[r])]
  /\ seen' = [seen EXCEPT ![r] = entries]
  /\ reading' = [reading EXCEPT ![r] = "answered"]
  /\ UNCHANGED <<tape, registered, calls, resetting, query, first, last, since,
                 overtaken>>

-----------------------------------------------------------------------------
Next ==
  \/ \E w \in Writers, n \in Names \cup {Plain} : AppendByEval(w, n) \/ Allocates(w, n)
  \/ \E w \in Writers : PushesAllotted(w) \/ PushFails(w) \/ Registers(w)
  \/ \E c \in Resets : Deletes(c) \/ Unregisters(c)
  \/ \E r \in Readers : Asks(r) \/ FindsFirst(r) \/ FindsLast(r) \/ Answers(r)

Spec == Init /\ [][Next]_vars

\* A call that has begun runs to its end.
Fairness ==
  /\ \A w \in Writers : WF_vars(PushesAllotted(w)) /\ WF_vars(Registers(w))
  /\ \A c \in Resets : WF_vars(Unregisters(c))

FairSpec == Spec /\ Fairness

-----------------------------------------------------------------------------
(* Properties *)

Tapes == Seq([id : Nat, name : Names \cup {Plain}])

\* Types.  The bounds of a query that goes on are ids: 0 is an anchor that was
\* not found, which ends it (_resolve_slice_bounds).
TypeOK ==
  /\ entries \in Tapes /\ nextId \in Nat
  /\ anchors \subseteq [id : Nat, name : Names]
  /\ registered \in BOOLEAN
  /\ appending \in [Writers -> {"idle", "allotted", "written", "done", "failed"}]
  /\ content \in [Writers -> Names \cup {Plain}]
  /\ allotted \in [Writers -> Nat]
  /\ resetting \in [Resets -> {"idle", "deleted", "done"}]
  /\ reading \in [Readers -> {"idle", "asked", "half", "bounded", "answered", "missing"}]
  /\ query \in [Readers -> Queries]
  /\ first \in [Readers -> Nat] /\ last \in [Readers -> Nat]
  /\ since \in [Readers -> Tapes] /\ seen \in [Readers -> Tapes]
  /\ answer \in [Readers -> Tapes]
  /\ overtaken \in [Readers -> BOOLEAN]

\* The id of an entry is its place in the list, which is what makes an id of
\* the anchor index a bound of LRANGE (the script, reset).
IdsArePlaces ==
  nextId = Len(entries) /\ \A i \in DOMAIN entries : entries[i].id = i

\* The index holds the anchors of the tape and nothing else, whatever appends
\* fail and resets race with them (the script, the transaction, reset).
IndexIsExact ==
  /\ \A a \in anchors : \E i \in DOMAIN entries : entries[i] = a
  /\ \A i \in DOMAIN entries : entries[i].name # Plain => entries[i] \in anchors

\* No two entries of a tape have one id.
IdsAreDistinct ==
  \A i, j \in DOMAIN entries : entries[i].id = entries[j].id => i = j

\* The list is in the order of the ids (README: "entry IDs monotonic").
IdsAreMonotonic ==
  \A i, j \in DOMAIN entries : i < j => entries[i].id < entries[j].id

\* May an entry open the slice of a query?
MayOpen(q, e) == IF q.kind = "last" THEN e.name # Plain ELSE e.name = q.from

\* Place i of the tape a query was answered from opens its slice, and no later
\* anchor did when it was asked.
Opens(r, i) ==
  /\ i \in DOMAIN seen[r] /\ MayOpen(query[r], seen[r][i])
  /\ \A j \in DOMAIN since[r] : MayOpen(query[r], since[r][j]) => j <= i

\* Place k closes the slice that place i opens.
Closes(r, i, k) ==
  /\ k \in DOMAIN seen[r] /\ i < k /\ seen[r][k].name = query[r].to
  /\ \A j \in DOMAIN seen[r] : i < j /\ j < k => seen[r][j].name # query[r].to

\* A query no reset overtakes returns one contiguous slice of the tape, from an
\* anchor no older than the one to be found when it was asked, whatever was
\* appended between its commands (fetch_all, _resolve_slice_bounds).
AnswersAreSlices ==
  \A r \in Readers : reading[r] = "answered" /\ ~overtaken[r] =>
    CASE query[r].kind = "all" -> answer[r] = seen[r]
      [] query[r].kind = "between" ->
           \E i \in DOMAIN seen[r] : \E k \in DOMAIN seen[r] :
             Opens(r, i) /\ Closes(r, i, k) /\ answer[r] = SubSeq(seen[r], i + 1, k - 1)
      [] OTHER -> \E i \in DOMAIN seen[r] :
             Opens(r, i) /\ answer[r] = SubSeq(seen[r], i + 1, Len(seen[r]))

\* A query that finds no anchor is right: none was there when it was asked, or
\* no closing one follows an opening one it may have found.
MissingIsTrue ==
  \A r \in Readers : reading[r] = "missing" /\ ~overtaken[r] =>
    \/ \A i \in DOMAIN since[r] : ~MayOpen(query[r], since[r][i])
    \/ /\ query[r].kind = "between"
       /\ \E i \in DOMAIN seen[r] :
            Opens(r, i) /\ \A k \in DOMAIN seen[r] : ~Closes(r, i, k)

\* The registry is an eventually consistent set of the tapes there are.
RegistryConverges == <>[](registered <=> entries # <<>>)

=============================================================================
