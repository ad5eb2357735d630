---------------------------- MODULE TapeDataset ----------------------------
(***************************************************************************)
(* Exports of the tapes into a directory (tape-dataset-opendal): the tapes *)
(* are read one after the other while entries are appended and tapes reset,*)
(* and the files written one after the other, the manifest last, over the  *)
(* files of the export before.  An export may end at any file.             *)
(***************************************************************************)
EXTENDS Naturals, Sequences, FiniteSets, SequencesExt

CONSTANTS
  Order,      \* the tapes, as they are sorted
  Kinds,      \* kinds of entries, "anchor" among them
  Filters,    \* what an export keeps: a verdict "keep", "drop" or "fail" for a kind
  MaxEntries, \* bound what is explored
  MaxExports

Tapes == {Order[i] : i \in DOMAIN Order}
NoAnchor == 0

VARIABLES
  live,    \* of a tape: its entries, [id, kind]
  grown,   \* entries appended so far
  export,  \* of the export: "none", "read", "write"
  exports, \* exports begun; the number of the one that runs
  filter,
  toRead,  \* tapes of list_tapes still to read
  read,    \* of a tape: its entries that passed
  toWrite, \* files still to write: [path, content]
  dir      \* of a path: [by, cut, rows], the export that wrote it

vars == <<live, grown, export, exports, filter, toRead, read, toWrite, dir>>

Paths == Tapes \cup {"tapes", "entries", "segments", "manifest"}

\* The files of the tapes are in a directory of their own.
DatasetConstants ==
  /\ Order \in Seq(Tapes) /\ \A i, j \in DOMAIN Order : Order[i] = Order[j] => i = j
  /\ Tapes \cap {"tapes", "entries", "segments", "manifest"} = {}
Absent == [by |-> 0, cut |-> FALSE, rows |-> <<>>]
NothingRead == [t \in Tapes |-> <<>>]

Init ==
  /\ live = [t \in Tapes |-> <<>>] /\ grown = 0 /\ export = "none" /\ exports = 0
  /\ filter = CHOOSE f \in Filters : TRUE
  /\ toRead = {} /\ read = NothingRead /\ toWrite = <<>> /\ dir = [p \in Paths |-> Absent]

\* The stores (external): entries are appended and tapes reset meanwhile.
Appends(t, kind) ==
  /\ grown < MaxEntries /\ grown' = grown + 1
  /\ live' = [live EXCEPT ![t] = Append(@, [id |-> Len(@) + 1, kind |-> kind])]
  /\ UNCHANGED <<export, exports, filter, toRead, read, toWrite, dir>>
ResetsTape(t) ==
  /\ live[t] # <<>> /\ live' = [live EXCEPT ![t] = <<>>]
  /\ UNCHANGED <<grown, export, exports, filter, toRead, read, toWrite, dir>>

\* export_dataset: list_tapes.
Begins(f) ==
  /\ export = "none" /\ exports < MaxExports
  /\ export' = "read" /\ exports' = exports + 1 /\ filter' = f
  /\ toRead' = {t \in Tapes : live[t] # <<>>} /\ read' = NothingRead
  /\ UNCHANGED <<live, grown, toWrite, dir>>

\* EntryFilter.matches: a filter may raise, and the export with it.
Raises(es) == \E i \in DOMAIN es : filter[es[i].kind] = "fail"

\* The elements of a sequence that are in a set, in their order.
Among(seq, S) ==
  LET kept[n \in 0 .. Len(seq)] ==
        IF n = 0 THEN <<>>
        ELSE IF seq[n] \in S THEN Append(kept[n - 1], seq[n]) ELSE kept[n - 1]
  IN kept[Len(seq)]

\* _filter_entries
FilterEntries(es) ==
  Among(es, {es[i] : i \in {j \in DOMAIN es : filter[es[j].kind] = "keep"}})

Reads(t) ==
  /\ export = "read" /\ t \in toRead /\ ~Raises(live[t])
  /\ toRead' = toRead \ {t} /\ read' = [read EXCEPT ![t] = FilterEntries(live[t])]
  /\ UNCHANGED <<live, grown, export, exports, filter, toWrite, dir>>
ReadFails(t) ==
  /\ export = "read" /\ t \in toRead /\ Raises(live[t])
  /\ export' = "none" /\ toRead' = {} /\ read' = NothingRead
  /\ UNCHANGED <<live, grown, exports, filter, toWrite, dir>>

-----------------------------------------------------------------------------
(* _segment_rows *)

\* _segment_row, unless there is nothing to put into it.
Closed(s) ==
  IF s.anchor # NoAnchor /\ s.entries # <<>>
  THEN Append(s.rows, [anchor |-> s.anchor, ids |-> s.entries]) ELSE s.rows

\* mutant: an anchor goes on with the entries of the one before.
NextEntryKept(s, e) ==
  IF e.kind = "anchor" THEN [rows |-> Closed(s), anchor |-> e.id, entries |-> s.entries]
  ELSE IF s.anchor = NoAnchor THEN s ELSE [s EXCEPT !.entries = Append(@, e.id)]

\* The loop over the entries.
NextEntry(s, e) ==
  IF e.kind = "anchor" THEN [rows |-> Closed(s), anchor |-> e.id, entries |-> <<>>]
  ELSE IF s.anchor = NoAnchor THEN s ELSE [s EXCEPT !.entries = Append(@, e.id)]

Ids(es) == [i \in DOMAIN es |-> es[i].id]
HasAnchor(es) == \E i \in DOMAIN es : es[i].kind = "anchor"

Loop(es) ==
  LET after[n \in 0 .. Len(es)] ==
        IF n = 0 THEN [rows |-> <<>>, anchor |-> NoAnchor, entries |-> <<>>]
        ELSE NextEntry(after[n - 1], es[n])
  IN after[Len(es)]

SegmentRows(es) ==
  IF HasAnchor(es) THEN Closed(Loop(es))
  ELSE IF es = <<>> THEN <<>> ELSE <<[anchor |-> NoAnchor, ids |-> Ids(es)]>>

-----------------------------------------------------------------------------
(* _build_export *)

Exported == Among(Order, {t \in Tapes : read[t] # <<>>})
PerTape(rows) == [i \in DOMAIN Exported |-> [tape |-> Exported[i], of |-> rows[Exported[i]]]]

TapeRow(es) == <<Len(es), Len(SegmentRows(es))>>
Raw == [i \in DOMAIN Exported |-> [path |-> Exported[i], rows |-> read[Exported[i]]]]
Tables == <<[path |-> "tapes", rows |-> PerTape([t \in Tapes |-> TapeRow(read[t])])],
            [path |-> "entries", rows |-> PerTape(read)],
            [path |-> "segments", rows |-> PerTape([t \in Tapes |-> SegmentRows(read[t])])]>>
Manifest == <<[path |-> "manifest", rows |-> Exported]>>

\* mutant: the manifest is written before what it names.
ManifestFirst == Manifest \o Raw \o Tables

\* The files, in the order they are written.
Files == Raw \o Tables \o Manifest

\* All tapes are read: _build_export.
Builds ==
  /\ export = "read" /\ toRead = {}
  /\ export' = "write" /\ toWrite' = Files
  /\ UNCHANGED <<live, grown, exports, filter, toRead, read, dir>>

\* operator.write
Writes ==
  /\ export = "write" /\ toWrite # <<>>
  /\ dir' = [dir EXCEPT ![Head(toWrite).path] =
               [by |-> exports, cut |-> FALSE, rows |-> Head(toWrite).rows]]
  /\ toWrite' = Tail(toWrite)
  /\ UNCHANGED <<live, grown, export, exports, filter, toRead, read>>

\* It fails, or the process ends: the file may have been begun.
WriteFails ==
  /\ export = "write" /\ toWrite # <<>>
  /\ dir' \in {dir, [dir EXCEPT ![Head(toWrite).path] =
                       [by |-> exports, cut |-> TRUE, rows |-> <<>>]]}
  /\ export' = "none" /\ toWrite' = <<>> /\ read' = NothingRead
  /\ UNCHANGED <<live, grown, exports, filter, toRead>>

Ends ==
  /\ export = "write" /\ toWrite = <<>>
  /\ export' = "none" /\ read' = NothingRead
  /\ UNCHANGED <<live, grown, exports, filter, toRead, toWrite, dir>>

Next ==
  \/ \E t \in Tapes : ResetsTape(t) \/ Reads(t) \/ ReadFails(t)
  \/ \E t \in Tapes, kind \in Kinds : Appends(t, kind)
  \/ \E f \in Filters : Begins(f)
  \/ Builds \/ Writes \/ WriteFails \/ Ends

Spec == Init /\ [][Next]_vars

-----------------------------------------------------------------------------
(* Properties *)

\* A manifest speaks of files of its own export, or of a later one that did not end.
ManifestIsLast ==
  LET m == dir["manifest"] IN
  m.by # 0 /\ ~m.cut =>
    /\ \A p \in {"tapes", "entries", "segments"} \cup {m.rows[i] : i \in DOMAIN m.rows} :
         dir[p].by >= m.by
    /\ dir["entries"].by = m.by => [i \in DOMAIN dir["entries"].rows |->
                                      dir["entries"].rows[i].tape] = m.rows

\* The place of the anchor an entry belongs to, or 0.
AnchorOf(es, i) ==
  LET before == {j \in 1 .. i - 1 : es[j].kind = "anchor"}
  IN IF before = {} THEN 0 ELSE CHOOSE j \in before : \A k \in before : k <= j

\* Files of one export agree: a segment is what follows its anchor up to the next, in order;
\* an entry that follows an anchor is in one segment, and a tape without anchors is one.
SegmentsAreSlices ==
  LET entries == dir["entries"]
      segments == dir["segments"]
  IN entries.by = segments.by /\ ~entries.cut /\ ~segments.cut =>
       \A n \in DOMAIN entries.rows :
         LET es == entries.rows[n].of
             rows == segments.rows[n].of
             InRow(i, k) == Contains(rows[k].ids, es[i].id)
         IN IF HasAnchor(es)
            THEN \A i \in DOMAIN es :
                   LET k == {x \in DOMAIN rows : InRow(i, x)} IN
                   IF es[i].kind = "anchor" \/ AnchorOf(es, i) = 0 THEN k = {}
                   ELSE /\ Cardinality(k) = 1
                        /\ \A x \in k : rows[x].anchor = es[AnchorOf(es, i)].id
            ELSE rows = <<[anchor |-> NoAnchor, ids |-> Ids(es)]>>

DatasetIsWhole == ManifestIsLast /\ SegmentsAreSlices
=============================================================================
