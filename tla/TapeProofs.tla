----------------------------- MODULE TapeProofs -----------------------------
(***************************************************************************)
(* Theorems about the tape stores, checked by TLAPS for every number of    *)
(* calls, tapes, names and processes: Redis with EVAL; Redis without it    *)
(* while nobody resets the tape; SQLAlchemy and SQLite, which also         *)
(* implement the log that is promised of them (TapeLog), step by step; the *)
(* exports of a dataset; and the exporter of traces.                       *)
(***************************************************************************)
EXTENDS MCTapes, SequenceTheorems, FiniteSetTheorems, WellFoundedInduction, TLAPS
-----------------------------------------------------------------------------
(***************************************************************************)
(* Redis, with EVAL                                                        *)
(***************************************************************************)

IsPrefix(s, t) ==
  /\ Len(s) <= Len(t)
  /\ \A i \in DOMAIN s : s[i] = t[i]

\* The opening anchor that a query has found still opens its slice.
FirstFound(r) ==
  /\ first[r] \in DOMAIN entries
  /\ MayOpen(query[r], entries[first[r]])
  /\ \A j \in DOMAIN since[r] : MayOpen(query[r], since[r][j]) => j <= first[r]

\* The closing anchor is still the first after it.
LastFound(r) ==
  /\ last[r] \in DOMAIN entries /\ first[r] < last[r]
  /\ entries[last[r]].name = query[r].to
  /\ \A j \in DOMAIN entries :
       first[r] < j /\ j < last[r] => entries[j].name # query[r].to

\* What a query knows while no reset has overtaken it.
KnownAsked(r) == IsPrefix(since[r], entries)
KnownHalf(r) == IsPrefix(since[r], entries) /\ FirstFound(r)
KnownBounded(r) ==
  /\ IsPrefix(since[r], entries)
  /\ query[r].kind = "all" => first[r] = 0
  /\ query[r].kind # "all" => FirstFound(r)
  /\ query[r].kind = "between" => LastFound(r)
  /\ query[r].kind # "between" => last[r] = 0

AnswerIsSlice(r) ==
  CASE query[r].kind = "all" -> answer[r] = seen[r]
    [] query[r].kind = "between" ->
         \E i \in DOMAIN seen[r] : \E k \in DOMAIN seen[r] :
           Opens(r, i) /\ Closes(r, i, k) /\ answer[r] = SubSeq(seen[r], i + 1, k - 1)
    [] OTHER -> \E i \in DOMAIN seen[r] :
           Opens(r, i) /\ answer[r] = SubSeq(seen[r], i + 1, Len(seen[r]))

NothingFound(r) ==
  \/ \A i \in DOMAIN since[r] : ~MayOpen(query[r], since[r][i])
  \/ /\ query[r].kind = "between"
     /\ \E i \in DOMAIN seen[r] :
          Opens(r, i) /\ \A k \in DOMAIN seen[r] : ~Closes(r, i, k)

ReaderInv(r) ==
  /\ reading[r] \in {"idle", "asked"} => first[r] = 0 /\ last[r] = 0
  /\ reading[r] = "asked" => query[r].kind # "all"
  /\ reading[r] = "half" => query[r].kind = "between" /\ last[r] = 0
  /\ ~overtaken[r] =>
       /\ reading[r] = "asked" => KnownAsked(r)
       /\ reading[r] = "half" => KnownHalf(r)
       /\ reading[r] = "bounded" => KnownBounded(r)
       /\ reading[r] = "answered" => AnswerIsSlice(r)
       /\ reading[r] = "missing" => NothingFound(r)

NoneAllotted == \A w \in Writers : appending[w] # "allotted"

IInv ==
  /\ TypeOK /\ NoneAllotted /\ IdsArePlaces /\ IndexIsExact
  /\ \A r \in Readers : ReaderInv(r)

-----------------------------------------------------------------------------
(* Lemmas *)

\* What a query may be.
LEMMA QueryKinds ==
  ASSUME NEW q \in Queries
  PROVE  /\ q.kind \in {"all", "last", "after", "between"}
         /\ q.kind \in {"after", "between"} => q.from \in Names
         /\ q.kind = "between" => q.to \in Names
  BY DEF Queries

\* The anchors that may open a query are the ids of the entries that may.
LEMMA OpeningsAreEntries ==
  ASSUME IInv, NEW r \in Readers, query[r].kind # "all"
  PROVE  Openings(query[r]) = {i \in DOMAIN entries : MayOpen(query[r], entries[i])}
<1> DEFINE q == query[r]
<1>1. q \in Queries
  BY DEF IInv, TypeOK
<1>2. ASSUME NEW x \in anchors
      PROVE  x.id \in DOMAIN entries /\ entries[x.id] = x /\ x.name # Plain
  <2>1. PICK i \in DOMAIN entries : entries[i] = x
    BY DEF IInv, IndexIsExact
  <2>2. x.id = i
    BY <2>1 DEF IInv, IdsArePlaces
  <2> QED
    BY <2>1, <2>2, RedisConstants DEF IInv, TypeOK
<1>3. ASSUME NEW i \in DOMAIN entries, MayOpen(q, entries[i])
      PROVE  i \in Openings(q)
  <2>1. entries[i].name # Plain
    BY <1>1, <1>3, QueryKinds, RedisConstants DEF MayOpen
  <2>2. entries[i] \in anchors /\ entries[i].id = i
    BY <2>1 DEF IInv, IndexIsExact, IdsArePlaces
  <2> QED
    BY <1>3, <2>2 DEF Openings, MayOpen
<1>4. ASSUME NEW i \in Openings(q)
      PROVE  i \in DOMAIN entries /\ MayOpen(q, entries[i])
  BY <1>2 DEF Openings, MayOpen
<1> QED
  BY <1>3, <1>4

\* Those that may close it are the ids of the entries of that name.
LEMMA ClosingsAreEntries ==
  ASSUME IInv, NEW r \in Readers, query[r].kind = "between", NEW opening
  PROVE  Closings(query[r], opening)
           = {i \in DOMAIN entries : entries[i].name = query[r].to /\ i > opening}
<1> DEFINE q == query[r]
<1>1. q.to \in Names
  BY QueryKinds DEF IInv, TypeOK
<1>2. ASSUME NEW x \in anchors
      PROVE  x.id \in DOMAIN entries /\ entries[x.id] = x
  <2>1. PICK i \in DOMAIN entries : entries[i] = x
    BY DEF IInv, IndexIsExact
  <2> QED
    BY <2>1 DEF IInv, IdsArePlaces
<1>3. ASSUME NEW i \in DOMAIN entries, entries[i].name = q.to
      PROVE  entries[i] \in anchors /\ entries[i].id = i
  BY <1>1, <1>3, RedisConstants DEF IInv, IndexIsExact, IdsArePlaces
<1> QED
  BY <1>2, <1>3 DEF Closings

\* Appends and steps that leave the tape alone leave what a query knows true.
LEMMA ReaderKeeps ==
  ASSUME IInv, NEW r \in Readers,
         UNCHANGED <<reading[r], query[r], first[r], last[r], since[r], seen[r],
                     answer[r], overtaken[r]>>,
         entries' \in Tapes, IsPrefix(entries, entries')
  PROVE  ReaderInv(r)'
<1>1. /\ DOMAIN entries = 1..Len(entries) /\ Len(entries) \in Nat
      /\ DOMAIN entries' = 1..Len(entries') /\ Len(entries') \in Nat
      /\ DOMAIN since[r] = 1..Len(since[r]) /\ Len(since[r]) \in Nat
      /\ first[r] \in Nat /\ last[r] \in Nat
  BY DEF IInv, TypeOK, Tapes
<1>2. KnownAsked(r) => KnownAsked(r)'
  BY <1>1 DEF KnownAsked, IsPrefix
<1>3. FirstFound(r) => FirstFound(r)'
  BY <1>1 DEF FirstFound, IsPrefix
<1>4. LastFound(r) => LastFound(r)'
  BY <1>1, SMTT(30) DEF LastFound, IsPrefix
<1>5. KnownHalf(r) => KnownHalf(r)'
  BY <1>2, <1>3 DEF KnownHalf, KnownAsked
<1>6. KnownBounded(r) => KnownBounded(r)'
  BY <1>2, <1>3, <1>4 DEF KnownBounded, KnownAsked
<1>7. AnswerIsSlice(r) => AnswerIsSlice(r)'
  BY DEF AnswerIsSlice, Opens, Closes
<1>8. NothingFound(r) => NothingFound(r)'
  BY DEF NothingFound, Opens, Closes
<1> QED
  BY <1>2, <1>5, <1>6, <1>7, <1>8 DEF IInv, ReaderInv

-----------------------------------------------------------------------------
(* The steps *)

\* The invariant holds at first.
LEMMA InitEstablishes ==
  ASSUME Init PROVE IInv
<1>0. <<>> \in Tapes
  BY DEF Tapes
<1>1. TypeOK
  <2>1. query \in [Readers -> Queries]
    BY DEF Init
  <2> QED
    BY <1>0, <2>1 DEF Init, TypeOK
<1>3. NoneAllotted /\ IdsArePlaces /\ IndexIsExact
  BY DEF Init, NoneAllotted, IdsArePlaces, IndexIsExact
<1>2. \A r \in Readers : ReaderInv(r)
  BY DEF Init, ReaderInv
<1> QED
  BY <1>1, <1>2, <1>3 DEF IInv

\* An append by the script keeps it: the entry, its id and the index change together.
LEMMA AppendByEvalKeeps ==
  ASSUME IInv, NEW w \in Writers, NEW n \in Names \cup {Plain}, AppendByEval(w, n)
  PROVE  IInv'
<1> DEFINE e == Entry(nextId + 1, n)
<1>1. /\ entries \in Tapes /\ nextId = Len(entries) /\ Len(entries) \in Nat
      /\ e \in [id : Nat, name : Names \cup {Plain}]
      /\ entries' = Append(entries, e) /\ nextId' = Len(entries) + 1
  BY DEF IInv, TypeOK, IdsArePlaces, AppendByEval, Push, Tapes, Entry
<1>2. /\ entries' \in Tapes /\ Len(entries') = Len(entries) + 1
      /\ \A i \in 1..Len(entries) : entries'[i] = entries[i]
      /\ entries'[Len(entries) + 1] = e
      /\ DOMAIN entries = 1..Len(entries) /\ DOMAIN entries' = 1..(Len(entries) + 1)
  BY <1>1 DEF Tapes
<1>3. IdsArePlaces'
  BY <1>1, <1>2 DEF IInv, IdsArePlaces, Entry
<1>4. anchors' = IF n = Plain THEN anchors ELSE anchors \cup {e}
  BY DEF AppendByEval, Push, Indexed
<1>5. IndexIsExact'
  <2>1. ASSUME NEW a \in anchors' PROVE \E i \in DOMAIN entries' : entries'[i] = a
    BY <1>2, <1>4 DEF IInv, IndexIsExact
  <2>2. ASSUME NEW i \in DOMAIN entries', entries'[i].name # Plain
        PROVE  entries'[i] \in anchors'
    <3>1. CASE i \in 1..Len(entries)
      BY <1>2, <1>4, <2>2, <3>1 DEF IInv, IndexIsExact
    <3>2. CASE i = Len(entries) + 1
      BY <1>2, <1>4, <2>2, <3>2 DEF Entry
    <3> QED
      BY <1>1, <1>2, <3>1, <3>2
  <2> QED
    BY <2>1, <2>2 DEF IndexIsExact
<1>6. TypeOK'
  <2>1. anchors' \subseteq [id : Nat, name : Names]
    BY <1>1, <1>4 DEF IInv, TypeOK, Entry
  <2>2. nextId' \in Nat /\ entries' \in Tapes
    BY <1>1, <1>2
  <2>3. appending' \in [Writers -> {"idle", "allotted", "written", "done", "failed"}]
    BY DEF IInv, TypeOK, AppendByEval
  <2> QED
    BY <2>1, <2>2, <2>3 DEF IInv, TypeOK, AppendByEval, asking
<1>7. NoneAllotted'
  BY DEF IInv, TypeOK, NoneAllotted, AppendByEval
<1>8. ASSUME NEW r \in Readers PROVE ReaderInv(r)'
  <2>1. IsPrefix(entries, entries')
    BY <1>1, <1>2 DEF IsPrefix
  <2> QED
    BY <1>2, <2>1, ReaderKeeps DEF AppendByEval, asking
<1> QED
  BY <1>3, <1>5, <1>6, <1>7, <1>8 DEF IInv

\* A step that leaves the tape and the queries alone.
LEMMA OtherStepsKeep ==
  ASSUME IInv, UNCHANGED <<tape, asking, overtaken>>, TypeOK', NoneAllotted'
  PROVE  IInv'
<1>1. IdsArePlaces' /\ IndexIsExact'
  BY DEF IInv, IdsArePlaces, IndexIsExact, tape
<1>2. ASSUME NEW r \in Readers PROVE ReaderInv(r)'
  <2>1. entries' \in Tapes /\ IsPrefix(entries, entries')
    BY DEF IInv, TypeOK, Tapes, IsPrefix, tape
  <2> QED
    BY <2>1, ReaderKeeps DEF asking
<1> QED
  BY <1>1, <1>2 DEF IInv

\* So does SADD,
LEMMA RegistersKeeps ==
  ASSUME IInv, NEW w \in Writers, Registers(w)
  PROVE  IInv'
<1>1. TypeOK'
  BY DEF IInv, TypeOK, Registers, tape, asking
<1>2. NoneAllotted'
  BY DEF IInv, TypeOK, NoneAllotted, Registers
<1> QED
  BY <1>1, <1>2, OtherStepsKeep DEF Registers

\* and SREM,
LEMMA UnregistersKeeps ==
  ASSUME IInv, NEW c \in Resets, Unregisters(c)
  PROVE  IInv'
<1>1. TypeOK'
  BY DEF IInv, TypeOK, Unregisters, tape, asking, calls
<1>2. NoneAllotted'
  BY DEF IInv, NoneAllotted, Unregisters, calls
<1> QED
  BY <1>1, <1>2, OtherStepsKeep DEF Unregisters

\* and a reset, which overtakes every query under way.
LEMMA DeletesKeeps ==
  ASSUME IInv, NEW c \in Resets, Deletes(c)
  PROVE  IInv'
<1>1. TypeOK'
  <2>1. entries' \in Tapes /\ nextId' \in Nat /\ anchors' \subseteq [id : Nat, name : Names]
    BY DEF Deletes, KeysDeleted, Tapes
  <2>2. overtaken' \in [Readers -> BOOLEAN]
    BY Zenon DEF Deletes
  <2>3. resetting' \in [Resets -> {"idle", "deleted", "done"}]
    BY DEF IInv, TypeOK, Deletes
  <2> QED
    BY <2>1, <2>2, <2>3 DEF IInv, TypeOK, Deletes, calls, asking
<1>2. IdsArePlaces' /\ IndexIsExact' /\ NoneAllotted'
  BY DEF IInv, IdsArePlaces, IndexIsExact, NoneAllotted, Deletes, KeysDeleted, calls
<1>3. ASSUME NEW r \in Readers PROVE ReaderInv(r)'
  <2>1. AnswerIsSlice(r) => AnswerIsSlice(r)'
    BY DEF AnswerIsSlice, Opens, Closes, Deletes, asking
  <2>2. NothingFound(r) => NothingFound(r)'
    BY DEF NothingFound, Opens, Closes, Deletes, asking
  <2>3. Running(r) => overtaken'[r]
    BY DEF Deletes, IInv, TypeOK
  <2>4. ~overtaken'[r] => ~overtaken[r]
    BY DEF Deletes, IInv, TypeOK
  <2> QED
    BY <2>1, <2>2, <2>3, <2>4 DEF IInv, ReaderInv, Deletes, asking, Running
<1> QED
  BY <1>1, <1>2, <1>3 DEF IInv

\* A step of one query leaves the tape and the other queries alone.
LEMMA QueryStepsKeep ==
  ASSUME IInv, NEW r \in Readers, UNCHANGED <<tape, registered, calls, resetting, overtaken>>,
         NEW p \in {"asked", "half", "bounded", "answered", "missing"},
         reading' = [reading EXCEPT ![r] = p],
         TypeOK', ReaderInv(r)',
         \A x \in Readers \ {r} :
           UNCHANGED <<query[x], first[x], last[x], since[x], seen[x], answer[x]>>
  PROVE  IInv'
<1>1. IdsArePlaces' /\ IndexIsExact' /\ NoneAllotted'
  BY DEF IInv, IdsArePlaces, IndexIsExact, NoneAllotted, tape, calls
<1>2. ASSUME NEW x \in Readers, x # r PROVE ReaderInv(x)'
  <2>1. entries' \in Tapes /\ IsPrefix(entries, entries')
    BY DEF IInv, TypeOK, Tapes, IsPrefix, tape
  <2>2. UNCHANGED <<reading[x], overtaken[x]>>
    BY <1>2 DEF IInv, TypeOK
  <2> QED
    BY <1>2, <2>1, <2>2, ReaderKeeps
<1> QED
  BY <1>1, <1>2 DEF IInv

\* A query that begins knows the tape there is.
LEMMA AsksKeeps ==
  ASSUME IInv, NEW r \in Readers, Asks(r)
  PROVE  IInv'
<1> DEFINE p == IF query[r].kind = "all" THEN "bounded" ELSE "asked"
<1>1. TypeOK'
  BY DEF IInv, TypeOK, Asks, tape, calls
<1>2. ReaderInv(r)'
  <2>1. since'[r] = entries /\ entries' = entries /\ reading'[r] = p
        /\ query' = query /\ first'[r] = 0 /\ last'[r] = 0
    BY DEF IInv, TypeOK, Asks, tape, ReaderInv
  <2>2. IsPrefix(since[r], entries)'
    BY <2>1 DEF IsPrefix, IInv, TypeOK, Tapes
  <2>3. query[r].kind = "all" => KnownBounded(r)'
    BY <2>1, <2>2 DEF KnownBounded
  <2> QED
    BY <2>1, <2>2, <2>3 DEF ReaderInv, KnownAsked
<1> QED
  BY <1>1, <1>2, QueryStepsKeep DEF Asks, IInv, TypeOK

\* The opening anchor it finds is no older than any it could have found at first.
LEMMA FindsFirstKeeps ==
  ASSUME IInv, NEW r \in Readers, FindsFirst(r)
  PROVE  IInv'
<1> DEFINE ids == Openings(query[r])
<1>1. /\ query[r] \in Queries /\ query[r].kind # "all" /\ first[r] = 0 /\ last[r] = 0
      /\ ~overtaken[r] => KnownAsked(r)
  BY DEF IInv, TypeOK, FindsFirst, ReaderInv
<1>2. ids = {i \in DOMAIN entries : MayOpen(query[r], entries[i])}
  BY <1>1, OpeningsAreEntries
<1>3. /\ DOMAIN entries = 1..Len(entries) /\ Len(entries) \in Nat
      /\ DOMAIN since[r] = 1..Len(since[r]) /\ Len(since[r]) \in Nat
  BY DEF IInv, TypeOK, Tapes
<1>4. KnownAsked(r) => \A j \in DOMAIN since[r] : MayOpen(query[r], since[r][j]) => j \in ids
  BY <1>2, <1>3 DEF KnownAsked, IsPrefix
<1>5. CASE ids = {} /\ Misses(r)
  <2>1. TypeOK'
    BY <1>5 DEF IInv, TypeOK, FindsFirst, Misses, tape, calls
  <2>2. reading'[r] = "missing" /\ overtaken'[r] = overtaken[r]
        /\ since' = since /\ query' = query
    BY <1>5 DEF IInv, TypeOK, FindsFirst, Misses
  <2>3. ~overtaken[r] => NothingFound(r)'
    BY <1>1, <1>4, <1>5, <2>2 DEF NothingFound
  <2>4. ReaderInv(r)'
    BY <2>2, <2>3 DEF ReaderInv
  <2> QED
    BY <1>5, <2>1, <2>4, QueryStepsKeep DEF FindsFirst, Misses, IInv, TypeOK
<1>6. ASSUME NEW id \in ids, \A other \in ids : other <= id,
             first' = [first EXCEPT ![r] = id],
             reading' = [reading EXCEPT ![r] =
                           IF query[r].kind = "between" THEN "half" ELSE "bounded"],
             UNCHANGED <<last, seen>>
      PROVE  IInv'
  <2>1. id \in Nat
    BY <1>2, <1>3
  <2>2. TypeOK'
    BY <1>6, <2>1 DEF IInv, TypeOK, FindsFirst, tape, calls
  <2>3. /\ first'[r] = id /\ last'[r] = 0 /\ query' = query /\ since' = since
        /\ entries' = entries /\ overtaken' = overtaken
        /\ reading'[r] = IF query[r].kind = "between" THEN "half" ELSE "bounded"
    BY <1>1, <1>6 DEF IInv, TypeOK, FindsFirst, tape
  <2>4. KnownAsked(r) => FirstFound(r)' /\ IsPrefix(since[r], entries)'
    BY <1>2, <1>4, <1>6, <2>3 DEF FirstFound, KnownAsked
  <2>5. ReaderInv(r)'
    BY <1>1, <2>3, <2>4 DEF ReaderInv, KnownHalf, KnownBounded
  <2> QED
    BY <1>6, <2>2, <2>5, QueryStepsKeep DEF FindsFirst, IInv, TypeOK
<1> QED
  BY <1>5, <1>6 DEF FindsFirst

\* The closing anchor it finds is the first after that.
LEMMA FindsLastKeeps ==
  ASSUME IInv, NEW r \in Readers, FindsLast(r)
  PROVE  IInv'
<1> DEFINE ids == Closings(query[r], first[r])
<1>1. /\ query[r] \in Queries /\ query[r].kind = "between"
      /\ ~overtaken[r] => KnownHalf(r)
  BY DEF IInv, TypeOK, FindsLast, ReaderInv
<1>2. ids = {i \in DOMAIN entries : entries[i].name = query[r].to /\ i > first[r]}
  BY <1>1, ClosingsAreEntries
<1>3. /\ DOMAIN entries = 1..Len(entries) /\ Len(entries) \in Nat
      /\ first[r] \in Nat
  BY DEF IInv, TypeOK, Tapes
<1>5. CASE ids = {} /\ Misses(r)
  <2>1. TypeOK'
    BY <1>5 DEF IInv, TypeOK, FindsLast, Misses, tape, calls
  <2>2. /\ reading'[r] = "missing" /\ overtaken'[r] = overtaken[r] /\ seen'[r] = entries
        /\ since' = since /\ query' = query
    BY <1>5 DEF IInv, TypeOK, FindsLast, Misses
  <2>3. KnownHalf(r) => NothingFound(r)'
    <3> SUFFICES ASSUME KnownHalf(r)
                 PROVE  \E i \in DOMAIN seen'[r] :
                          Opens(r, i)' /\ \A k \in DOMAIN seen'[r] : ~Closes(r, i, k)'
      BY <1>1, <2>2 DEF NothingFound
    <3>0. PICK i \in Nat : i = first[r]
      BY <1>3
    <3>1. i \in DOMAIN seen'[r] /\ Opens(r, i)'
      BY <2>2, <3>0 DEF KnownHalf, FirstFound, Opens
    <3>2. \A k \in DOMAIN seen'[r] : ~Closes(r, i, k)'
      BY <1>2, <1>3, <1>5, <2>2, <3>0 DEF Closes
    <3> QED
      BY <3>1, <3>2
  <2>4. ReaderInv(r)'
    BY <1>1, <2>2, <2>3 DEF ReaderInv
  <2> QED
    BY <1>5, <2>1, <2>4, QueryStepsKeep DEF FindsLast, Misses, IInv, TypeOK
<1>6. ASSUME NEW id \in ids, \A other \in ids : id <= other,
             last' = [last EXCEPT ![r] = id],
             reading' = [reading EXCEPT ![r] = "bounded"],
             UNCHANGED <<first, seen>>
      PROVE  IInv'
  <2>1. id \in Nat
    BY <1>2, <1>3
  <2>2. TypeOK'
    BY <1>6, <2>1 DEF IInv, TypeOK, FindsLast, tape, calls
  <2>3. /\ last'[r] = id /\ first' = first /\ query' = query /\ since' = since
        /\ entries' = entries /\ overtaken' = overtaken /\ reading'[r] = "bounded"
    BY <1>6 DEF IInv, TypeOK, FindsLast, tape
  <2>4. KnownHalf(r) => KnownBounded(r)'
    <3> SUFFICES ASSUME KnownHalf(r) PROVE KnownBounded(r)'
      OBVIOUS
    <3>1. FirstFound(r)' /\ IsPrefix(since[r], entries)'
      BY <2>3 DEF KnownHalf, FirstFound
    <3>2. LastFound(r)'
      BY <1>2, <1>3, <1>6, <2>3 DEF LastFound
    <3> QED
      BY <1>1, <2>3, <3>1, <3>2 DEF KnownBounded
  <2>5. ReaderInv(r)'
    BY <1>1, <2>3, <2>4 DEF ReaderInv
  <2> QED
    BY <1>6, <2>2, <2>5, QueryStepsKeep DEF FindsLast, IInv, TypeOK
<1> QED
  BY <1>5, <1>6 DEF FindsLast

\* The entries between them are the answer.
LEMMA AnswersKeeps ==
  ASSUME IInv, NEW r \in Readers, Answers(r)
  PROVE  IInv'
<1>0. first[r] \in Nat /\ last[r] \in Nat
  BY DEF IInv, TypeOK
<1> PICK from \in Nat, to \in Nat : from = first[r] /\ to = last[r]
  BY <1>0
<1>1. /\ query[r] \in Queries /\ from = first[r] /\ to = last[r]
      /\ entries \in Tapes /\ Len(entries) \in Nat
      /\ DOMAIN entries = 1..Len(entries)
      /\ ~overtaken[r] => KnownBounded(r)
  BY DEF IInv, TypeOK, Answers, ReaderInv, Tapes
<1>2. Reach(to) \in Int /\ Reach(to) <= Len(entries)
  BY <1>1 DEF Reach
<1>3. Slice(from, to) \in Tapes
  <2>1. \A i \in (from + 1)..Reach(to) :
          entries[i] \in [id : Nat, name : Names \cup {Plain}]
    <3> TAKE i \in (from + 1)..Reach(to)
    <3>1. i \in 1..Len(entries)
      BY <1>1, <1>2
    <3> QED
      BY <1>1, <3>1, ElementOfSeq DEF Tapes
  <2> QED
    BY <1>1, <1>2, <2>1, SubSeqProperties DEF Slice, Tapes
<1>4. TypeOK'
  BY <1>1, <1>3 DEF IInv, TypeOK, Answers, tape, calls
<1>5. /\ reading'[r] = "answered" /\ seen'[r] = entries
      /\ answer'[r] = Slice(from, to)
      /\ query' = query /\ since' = since /\ overtaken' = overtaken
  BY DEF IInv, TypeOK, Answers
<1>6. KnownBounded(r) => AnswerIsSlice(r)'
  <2> SUFFICES ASSUME KnownBounded(r) PROVE AnswerIsSlice(r)'
    OBVIOUS
  <2>1. CASE query[r].kind = "all"
    <3>2. from + 1 = 1 /\ Reach(to) = Len(entries)
      BY <1>1, <2>1 DEF KnownBounded, Reach
    <3>1. Slice(from, to) = SubSeq(entries, 1, Len(entries))
      BY <3>2 DEF Slice
    <3> QED
      BY <1>1, <1>5, <2>1, <3>1, SubSeqFull DEF AnswerIsSlice, Tapes
  <2>2. query[r].kind # "all" => from \in DOMAIN seen'[r] /\ Opens(r, from)'
    BY <1>1, <1>5 DEF KnownBounded, FirstFound, Opens
  <2>3. CASE query[r].kind = "between"
    <3>1. to \in DOMAIN seen'[r] /\ Closes(r, from, to)'
      BY <1>1, <1>5, <2>3 DEF KnownBounded, LastFound, Closes
    <3>3. Reach(to) = to - 1
      BY <1>1, <2>3 DEF KnownBounded, LastFound, Reach
    <3>2. Slice(from, to) = SubSeq(seen'[r], from + 1, to - 1)
      BY <1>5, <3>3 DEF Slice
    <3> QED
      BY <1>5, <2>2, <2>3, <3>1, <3>2 DEF AnswerIsSlice
  <2>4. CASE query[r].kind \notin {"all", "between"}
    <3>1. Slice(from, to) = SubSeq(seen'[r], from + 1, Len(seen'[r]))
      BY <1>1, <1>5, <2>4 DEF KnownBounded, Slice, Reach
    <3> QED
      BY <1>5, <2>2, <2>4, <3>1 DEF AnswerIsSlice
  <2> QED
    BY <2>1, <2>3, <2>4
<1>7. ReaderInv(r)'
  BY <1>1, <1>5, <1>6 DEF ReaderInv
<1> QED
  BY <1>4, <1>7, QueryStepsKeep DEF Answers, IInv, TypeOK

-----------------------------------------------------------------------------
(* The theorems about Redis *)

\* With EVAL no step breaks the invariant.
LEMMA NextKeeps ==
  ASSUME HasEval, IInv, [Next]_vars
  PROVE  IInv'
<1>1. ASSUME NEW w \in Writers, NEW n \in Names \cup {Plain}, Allocates(w, n)
      PROVE  IInv'
  BY <1>1 DEF Allocates
<1>2. ASSUME NEW w \in Writers, PushesAllotted(w) \/ PushFails(w)
      PROVE  IInv'
  BY <1>2 DEF PushesAllotted, PushFails, IInv, NoneAllotted
<1>3. CASE UNCHANGED vars
  <2>1. TypeOK' /\ NoneAllotted'
    BY <1>3 DEF IInv, TypeOK, NoneAllotted, vars, tape, calls, asking
  <2> QED
    BY <1>3, <2>1, OtherStepsKeep DEF vars
<1> QED
  BY <1>1, <1>2, <1>3, AppendByEvalKeeps, RegistersKeeps, DeletesKeeps, UnregistersKeeps,
     AsksKeeps, FindsFirstKeeps, FindsLastKeeps, AnswersKeeps
  DEF Next

\* The invariant holds always.
LEMMA AlwaysIInv ==
  ASSUME HasEval PROVE Spec => []IInv
<1>1. Init => IInv
  BY InitEstablishes
<1>2. IInv /\ [Next]_vars => IInv'
  BY NextKeeps
<1> QED
  BY <1>1, <1>2, PTL DEF Spec

\* With EVAL every variable keeps its type and every bound of a query is an id
\* (RedisTapeStore).
THEOREM TypesHold == ASSUME HasEval PROVE Spec => []TypeOK
<1>1. IInv => TypeOK
  BY DEF IInv
<1> QED
  BY <1>1, AlwaysIInv, PTL

\* With EVAL the ids of the entries are their places, through any resets, lost
\* replies and interleavings (append, reset).
THEOREM IdsAreAlwaysPlaces == ASSUME HasEval PROVE Spec => []IdsArePlaces
<1>1. IInv => IdsArePlaces
  BY DEF IInv
<1> QED
  BY <1>1, AlwaysIInv, PTL

\* With EVAL the anchor index is exact (append, reset).
THEOREM IndexIsAlwaysExact == ASSUME HasEval PROVE Spec => []IndexIsExact
<1>1. IInv => IndexIsExact
  BY DEF IInv
<1> QED
  BY <1>1, AlwaysIInv, PTL

\* With EVAL a query that no reset overtakes answers with a slice of the tape
\* that a fresh enough anchor opens (fetch_all).
THEOREM QueriesAnswerSlices == ASSUME HasEval PROVE Spec => []AnswersAreSlices
<1>1. IInv => AnswersAreSlices
  BY DEF IInv, ReaderInv, AnswersAreSlices, AnswerIsSlice
<1> QED
  BY <1>1, AlwaysIInv, PTL

\* With EVAL a query that no reset overtakes misses an anchor only if there was
\* none to be found (fetch_all).
THEOREM QueriesMissTruly == ASSUME HasEval PROVE Spec => []MissingIsTrue
<1>1. IInv => MissingIsTrue
  BY DEF IInv, ReaderInv, MissingIsTrue, NothingFound
<1> QED
  BY <1>1, AlwaysIInv, PTL

-----------------------------------------------------------------------------
(***************************************************************************)
(* Redis without EVAL, while nobody resets the tape                        *)
(***************************************************************************)

WriterTypes ==
  /\ fEntries \in Fallback!Tapes /\ fNextId \in Nat
  /\ fAnchors \subseteq [id : Nat, name : Names]
  /\ fAppending \in [FWriters -> {"idle", "allotted", "written", "done", "failed"}]
  /\ fContent \in [FWriters -> Names \cup {Plain}]
  /\ fAllotted \in [FWriters -> Nat]

IdsCounted == \A i \in DOMAIN fEntries : fEntries[i].id <= fNextId

\* An id allotted is nobody else's, and not yet on the tape.
AllottedAreFresh ==
  \A w \in FWriters : fAppending[w] = "allotted" =>
    /\ fAllotted[w] <= fNextId
    /\ \A i \in DOMAIN fEntries : fEntries[i].id # fAllotted[w]
    /\ \A v \in FWriters : fAppending[v] = "allotted" /\ fAllotted[v] = fAllotted[w] => v = w

WInv ==
  WriterTypes /\ Fallback!IndexIsExact /\ Fallback!IdsAreDistinct /\ IdsCounted /\ AllottedAreFresh

\* What pushing an entry with a fresh id does.
LEMMA PushKeeps ==
  ASSUME WInv, NEW n \in Names \cup {Plain}, NEW id \in Nat, Fallback!Push(n, id),
         \A i \in DOMAIN fEntries : fEntries[i].id # id
  PROVE  /\ fEntries' \in Fallback!Tapes /\ fAnchors' \subseteq [id : Nat, name : Names]
         /\ Fallback!IndexIsExact' /\ Fallback!IdsAreDistinct'
         /\ \A i \in DOMAIN fEntries' :
              fEntries'[i].id = id \/ \E j \in DOMAIN fEntries : fEntries'[i].id = fEntries[j].id
<1> DEFINE e == Fallback!Entry(id, n)
<1>1. /\ fEntries \in Fallback!Tapes /\ Len(fEntries) \in Nat
      /\ e \in [id : Nat, name : Names \cup {Plain}] /\ e.id = id /\ e.name = n
      /\ fEntries' = Append(fEntries, e)
  BY DEF WInv, WriterTypes, Fallback!Push, Fallback!Tapes, Fallback!Entry
<1>2. /\ fEntries' \in Fallback!Tapes
      /\ \A i \in 1..Len(fEntries) : fEntries'[i] = fEntries[i]
      /\ fEntries'[Len(fEntries) + 1] = e
      /\ DOMAIN fEntries = 1..Len(fEntries) /\ DOMAIN fEntries' = 1..(Len(fEntries) + 1)
  BY <1>1 DEF Fallback!Tapes
<1>3. fAnchors' = IF n = Plain THEN fAnchors ELSE fAnchors \cup {e}
  BY DEF Fallback!Push, Fallback!Indexed
<1>4. Fallback!IndexIsExact'
  <2>1. ASSUME NEW a \in fAnchors' PROVE \E i \in DOMAIN fEntries' : fEntries'[i] = a
    BY <1>2, <1>3 DEF WInv, Fallback!IndexIsExact
  <2>2. ASSUME NEW i \in DOMAIN fEntries', fEntries'[i].name # Plain
        PROVE  fEntries'[i] \in fAnchors'
    <3>1. CASE i \in 1..Len(fEntries)
      BY <1>2, <1>3, <2>2, <3>1 DEF WInv, Fallback!IndexIsExact
    <3>2. CASE i = Len(fEntries) + 1
      BY <1>1, <1>2, <1>3, <2>2, <3>2
    <3> QED
      BY <1>1, <1>2, <3>1, <3>2
  <2> QED
    BY <2>1, <2>2 DEF Fallback!IndexIsExact
<1>5. \A i \in DOMAIN fEntries' :
        \/ i \in DOMAIN fEntries /\ fEntries'[i] = fEntries[i]
        \/ i = Len(fEntries) + 1 /\ fEntries'[i].id = id
  BY <1>1, <1>2
<1>6. Fallback!IdsAreDistinct'
  BY <1>5 DEF WInv, Fallback!IdsAreDistinct
<1>7. fAnchors' \subseteq [id : Nat, name : Names]
  BY <1>1, <1>3 DEF WInv, WriterTypes, Fallback!Entry
<1> QED
  BY <1>2, <1>4, <1>5, <1>6, <1>7

\* The entries of a tape are records with an id.
LEMMA EntriesHaveIds ==
  ASSUME NEW t \in Fallback!Tapes, NEW i \in DOMAIN t
  PROVE  t[i] \in [id : Nat, name : Names \cup {Plain}]
<1> DEFINE S == [id : Nat, name : Names \cup {Plain}]
<1>1. t \in Seq(S) /\ i \in 1..Len(t)
  BY DEF Fallback!Tapes
<1> HIDE DEF S
<1>2. t[i] \in S
  BY <1>1, ElementOfSeq
<1> QED
  BY <1>2 DEF S

\* The invariant of the writers holds at first.
LEMMA WInitEstablishes ==
  ASSUME Fallback!Init PROVE WInv
<1>1. <<>> \in Fallback!Tapes /\ DOMAIN <<>> = {}
  BY DEF Fallback!Tapes
<1> QED
  BY <1>1
  DEF Fallback!Init, WInv, WriterTypes, Fallback!IndexIsExact, Fallback!IdsAreDistinct,
      IdsCounted, AllottedAreFresh

\* A step that touches neither the tape nor an allotted id.
LEMMA WOtherStepsKeep ==
  ASSUME WInv, UNCHANGED <<Fallback!tape, fContent, fAllotted>>,
         fAppending' \in [FWriters -> {"idle", "allotted", "written", "done", "failed"}],
         \A w \in FWriters : fAppending'[w] = "allotted" => fAppending[w] = "allotted"
  PROVE  WInv'
<1>1. WriterTypes' /\ Fallback!IndexIsExact' /\ Fallback!IdsAreDistinct' /\ IdsCounted'
  BY
  DEF WInv, WriterTypes, Fallback!IndexIsExact, Fallback!IdsAreDistinct, IdsCounted, Fallback!tape
<1>2. AllottedAreFresh'
  BY DEF WInv, AllottedAreFresh, Fallback!tape
<1> QED
  BY <1>1, <1>2 DEF WInv

\* INCR allots an id nobody has.
LEMMA WAllocatesKeeps ==
  ASSUME WInv, NEW w \in FWriters, NEW n \in Names \cup {Plain}, Fallback!Allocates(w, n)
  PROVE  WInv'
<1>1. /\ fNextId' = fNextId + 1 /\ fNextId \in Nat
      /\ fEntries' = fEntries /\ fAnchors' = fAnchors
      /\ fAppending' = [fAppending EXCEPT ![w] = "allotted"]
      /\ fAllotted' = [fAllotted EXCEPT ![w] = fNextId + 1]
  BY DEF Fallback!Allocates, Fallback!Incremented, WInv, WriterTypes
<1>2. \A i \in DOMAIN fEntries : fEntries[i].id \in Nat /\ fEntries[i].id <= fNextId
  BY EntriesHaveIds DEF WInv, WriterTypes, IdsCounted
<1>3. WriterTypes'
  BY <1>1 DEF WInv, WriterTypes, Fallback!Allocates
<1>4. Fallback!IndexIsExact' /\ Fallback!IdsAreDistinct'
  BY <1>1 DEF WInv, Fallback!IndexIsExact, Fallback!IdsAreDistinct
<1>5. IdsCounted'
  BY <1>1, <1>2 DEF IdsCounted
<1>6. AllottedAreFresh'
  BY <1>1, <1>2 DEF AllottedAreFresh, WInv, WriterTypes
<1> QED
  BY <1>3, <1>4, <1>5, <1>6 DEF WInv

\* The transaction pushes an id that is on the tape for the first time.
LEMMA WPushesAllottedKeeps ==
  ASSUME WInv, NEW w \in FWriters, Fallback!PushesAllotted(w)
  PROVE  WInv'
<1> PICK id \in Nat : id = fAllotted[w]
  BY DEF WInv, WriterTypes
<1>1. /\ fContent[w] \in Names \cup {Plain} /\ Fallback!Push(fContent[w], id)
      /\ fNextId' = fNextId /\ fAllotted' = fAllotted /\ id <= fNextId
      /\ \A i \in DOMAIN fEntries : fEntries[i].id # id
  BY DEF Fallback!PushesAllotted, WInv, WriterTypes, AllottedAreFresh
<1>3. /\ fEntries' \in Fallback!Tapes /\ fAnchors' \subseteq [id : Nat, name : Names]
      /\ Fallback!IndexIsExact' /\ Fallback!IdsAreDistinct'
      /\ \A i \in DOMAIN fEntries' :
           fEntries'[i].id = id \/ \E j \in DOMAIN fEntries : fEntries'[i].id = fEntries[j].id
  BY <1>1, PushKeeps
<1>4. IdsCounted'
  BY <1>1, <1>3 DEF IdsCounted, WInv
<1>5. \A v \in FWriters : fAppending'[v] = "allotted" => v # w /\ fAppending[v] = "allotted"
  BY DEF Fallback!PushesAllotted, WInv, WriterTypes
<1>6. AllottedAreFresh'
  <2>1. \A v \in FWriters : fAppending[v] = "allotted" /\ fAllotted[v] = id => v = w
    BY DEF WInv, AllottedAreFresh, Fallback!PushesAllotted
  <2> QED
    BY <1>1, <1>3, <1>5, <2>1 DEF AllottedAreFresh, WInv
<1>7. WriterTypes'
  BY <1>1, <1>3 DEF WInv, WriterTypes, Fallback!PushesAllotted
<1> QED
  BY <1>3, <1>4, <1>6, <1>7 DEF WInv

\* No step breaks the invariant of the writers.
LEMMA WNextKeeps ==
  ASSUME WInv, [Fallback!Next]_Fallback!vars
  PROVE  WInv'
<1>1. ASSUME NEW w \in FWriters, Fallback!PushFails(w) \/ Fallback!Registers(w)
      PROVE  WInv'
  <2>1. fAppending' \in [FWriters -> {"idle", "allotted", "written", "done", "failed"}]
    BY <1>1 DEF Fallback!PushFails, Fallback!Registers, WInv, WriterTypes
  <2>2. \A v \in FWriters : fAppending'[v] = "allotted" => fAppending[v] = "allotted"
    BY <1>1 DEF Fallback!PushFails, Fallback!Registers, WInv, WriterTypes
  <2> QED
    BY <1>1, <2>1, <2>2, WOtherStepsKeep DEF Fallback!PushFails, Fallback!Registers
<1>2. CASE UNCHANGED <<Fallback!tape, Fallback!calls>>
  BY <1>2, WOtherStepsKeep DEF Fallback!calls, WInv, WriterTypes
<1>3. ASSUME NEW r \in {},
             \/ Fallback!Asks(r) \/ Fallback!FindsFirst(r)
             \/ Fallback!FindsLast(r) \/ Fallback!Answers(r)
      PROVE  UNCHANGED <<Fallback!tape, Fallback!calls>>
  BY <1>3 DEF Fallback!Asks, Fallback!FindsFirst, Fallback!FindsLast, Fallback!Answers
<1>4. UNCHANGED Fallback!vars => UNCHANGED <<Fallback!tape, Fallback!calls>>
  BY DEF Fallback!vars
<1> QED
  BY <1>1, <1>2, <1>3, <1>4, WAllocatesKeeps, WPushesAllottedKeeps
  DEF Fallback!Next, Fallback!AppendByEval

\* It holds always.
LEMMA AlwaysWInv == Fallback!Spec => []WInv
<1>1. Fallback!Init => WInv
  BY WInitEstablishes
<1>2. WInv /\ [Fallback!Next]_Fallback!vars => WInv'
  BY WNextKeeps
<1> QED
  BY <1>1, <1>2, PTL DEF Fallback!Spec

-----------------------------------------------------------------------------
(***************************************************************************)
(* SQLAlchemy                                                              *)
(***************************************************************************)

TapeRows == [id : Nat, last : Nat]
Items == [id : Nat, matches : BOOLEAN]
Databases == [row : TapeRows, entries : Seq(Items), ids : Nat]

WritePcs ==
  {"idle", "find", "create", "increment", "reread", "insert", "delete", "commit", "ok", "failed"}

SqlTypes ==
  /\ aDialect \in {"sqlite", "server"} /\ aProc \in [SqlAlchemy!WriteCalls -> AProcesses]
  /\ aSaved \in Databases /\ aWork \in Databases /\ aHolder \in SqlAlchemy!WriteCalls \cup {NoCall}
  /\ aPc \in [SqlAlchemy!WriteCalls \cup ASearches -> WritePcs \cup {"match", "answered"}]
  /\ aSeen \in [SqlAlchemy!WriteCalls -> TapeRows] /\ aMatches \in [AAppends -> BOOLEAN]
  /\ aDone \subseteq SqlAlchemy!WriteCalls
  /\ DOMAIN aEntries = ASearches
  /\ \A s \in ASearches : \A i \in DOMAIN aEntries[s] : i \in Nat /\ aEntries[s][i] \in Items
  /\ aOvertaken \subseteq ASearches

\* Entries are numbered from 1.
Numbered(es) == \A i \in 1 .. Len(es) : es[i].id = i

\* A tape without a row has no entries, and the counter of a row counts them.
Counted(base) ==
  /\ Numbered(base.entries)
  /\ base.row.id = 0 => base.entries = <<>>
  /\ base.row.id # 0 => base.row.last = Len(base.entries)

\* Rows of a server are never given again, those of SQLite are all the same.
RowsFit(base) ==
  /\ aDialect = "sqlite" => base.row.id \in {0, 1}
  /\ aDialect = "server" => base.row.id <= base.ids

\* What an append that holds the tape has written.
AppendHolds(c) ==
  /\ aPc[c] \in {"find", "increment", "reread", "insert", "commit"}
  /\ aPc[c] # "reread" => aWork.row.id # 0
  /\ aSaved.row.id # 0 => aWork.row.id = aSaved.row.id
  /\ aSaved.row.id = 0 /\ aWork.row.id # 0 /\ aDialect = "server" => aWork.row.id > aSaved.ids
  /\ aPc[c] \in {"find", "increment", "reread"} => aWork.entries = aSaved.entries /\ Counted(aWork)
  /\ aPc[c] = "insert" => /\ aWork.entries = aSaved.entries
                         /\ aWork.row.last = Len(aSaved.entries) + 1
                         /\ aSeen[c].last = aWork.row.last
  /\ aPc[c] = "commit" => /\ aWork.row.last = Len(aSaved.entries) + 1
                         /\ \E m \in BOOLEAN :
                              aWork.entries =
                                Append(aSaved.entries, [id |-> aWork.row.last, matches |-> m])

\* And a reset.
ResetHolds(c) ==
  /\ aPc[c] = "commit"
  /\ \/ aWork = aSaved /\ (c \in aDone \/ aSaved.row.id = 0)
     \/ aWork.row = SqlAlchemy!NoRow /\ aWork.entries = <<>> /\ c \notin aDone

HolderFits ==
  /\ aHolder = NoCall => aWork = aSaved
  /\ aHolder \in AAppends => AppendHolds(aHolder)
  /\ aHolder \in AResets => ResetHolds(aHolder)

\* Where a call stands, and whether it has taken effect.
SqlCallFits(c) ==
  /\ aPc[c] \in WritePcs
  /\ c \in AAppends => aPc[c] # "delete" /\ (c \in aDone => aPc[c] = "ok")
  /\ c \in AResets => aPc[c] \notin {"create", "increment", "reread", "insert"}
  /\ aPc[c] = "ok" => c \in aDone
  /\ c \in aDone => aPc[c] \in {"ok", "delete", "commit", "failed"}
  /\ aPc[c] \in {"increment", "reread", "insert", "delete"} => aSeen[c].id # 0
  /\ aPc[c] \in {"insert", "commit"} /\ c \in AAppends => aHolder = c
  /\ aPc[c] = "commit" /\ c \in AResets /\ c \notin aDone => aHolder = c
  /\ aPc[c] = "delete" /\ aDialect = "sqlite" => aSeen[c].id = 1 /\ c \notin aDone
  /\ aPc[c] = "delete" /\ aDialect = "server" =>
       /\ aSeen[c].id <= aSaved.ids
       /\ c \in aDone <=> aSeen[c].id # aSaved.row.id

\* A search that no reset has come in between of has read a part of the tape.
SearchFits(s) ==
  /\ aPc[s] = "match" /\ s \notin aOvertaken =>
       \A i \in DOMAIN aEntries[s] :
         i \in 1 .. Len(aSaved.entries) /\ aEntries[s][i] = aSaved.entries[i]
  /\ aPc[s] = "answered" /\ s \notin aOvertaken
    => \A i \in DOMAIN aEntries[s] : aEntries[s][i].matches

SqlInv ==
  /\ SqlTypes
  /\ Counted(aSaved) /\ RowsFit(aSaved) /\ RowsFit(aWork) /\ aSaved.ids <= aWork.ids
  /\ HolderFits
  /\ \A c \in SqlAlchemy!WriteCalls : SqlCallFits(c)
  /\ \A s \in ASearches : SearchFits(s)

\* Calls of different kinds are different.
LEMMA Distinct ==
  /\ AAppends \cap AResets = {} /\ SqlAlchemy!WriteCalls \cap ASearches = {}
  /\ NoCall \notin SqlAlchemy!WriteCalls /\ AAppends \subseteq SqlAlchemy!WriteCalls
  /\ AResets \subseteq SqlAlchemy!WriteCalls
  BY SqlConstants DEF SqlAlchemy!SqlAlchemyConstants, SqlAlchemy!WriteCalls

\* The steps of one call leave alone where the others stand.
LEMMA OthersStay ==
  ASSUME SqlInv, NEW c \in SqlAlchemy!WriteCalls, aDialect' = aDialect,
         \A d \in SqlAlchemy!WriteCalls : d # c => aPc'[d] = aPc[d] /\ aSeen'[d] = aSeen[d],
         aDialect = "sqlite" \/ (aSaved'.ids = aSaved.ids /\ aSaved'.row.id = aSaved.row.id),
         aDone' \in {aDone, aDone \cup {c}},
         aHolder' = aHolder \/ (aHolder' = c /\ aHolder = NoCall) \/ aHolder = c
  PROVE  \A d \in SqlAlchemy!WriteCalls : d # c => SqlCallFits(d)'
<1> SUFFICES ASSUME NEW d \in SqlAlchemy!WriteCalls, d # c PROVE SqlCallFits(d)'
  OBVIOUS
<1>1. d \in aDone' <=> d \in aDone
  OBVIOUS
<1>2. aHolder = d => aHolder' = d
  BY Distinct
<1> QED BY <1>1, <1>2 DEF SqlInv, SqlCallFits

\* Searches go on as long as what is saved only grows.
LEMMA SearchesStay ==
  ASSUME SqlInv, aOvertaken' = aOvertaken, aEntries' = aEntries,
         \A s \in ASearches : aPc'[s] = aPc[s],
         \/ aSaved'.entries = aSaved.entries
         \/ \E e \in Items : aSaved'.entries = Append(aSaved.entries, e)
  PROVE  \A s \in ASearches : SearchFits(s)'
<1> SUFFICES ASSUME NEW s \in ASearches PROVE SearchFits(s)'
  OBVIOUS
<1>1. \A i \in 1 .. Len(aSaved.entries) :
        i \in 1 .. Len(aSaved'.entries) /\ aSaved'.entries[i] = aSaved.entries[i]
  <2>1. aSaved.entries \in Seq(Items)
    BY DEF SqlInv, SqlTypes, Databases
  <2> QED BY <2>1
<1>2. SearchFits(s)
  BY DEF SqlInv
<1> QED BY <1>1, <1>2 DEF SearchFits

\* Between two calls nothing is written.
LEMMA TapeStays ==
  ASSUME SqlInv, aDialect' = aDialect, UNCHANGED SqlAlchemy!tapeVars,
         NEW c \in SqlAlchemy!WriteCalls, aHolder # c, \A d \in SqlAlchemy!WriteCalls : d # c
           => aPc'[d] = aPc[d] /\ aSeen'[d] = aSeen[d],
         aDone' \in {aDone, aDone \cup {c}}
  PROVE  /\ Counted(aSaved)' /\ RowsFit(aSaved)' /\ RowsFit(aWork)' /\ (aSaved.ids <= aWork.ids)'
         /\ HolderFits'
<1>1. UNCHANGED <<aSaved, aWork, aHolder>>
  BY DEF SqlAlchemy!tapeVars
<1>2. Counted(aSaved)' /\ RowsFit(aSaved)' /\ RowsFit(aWork)' /\ (aSaved.ids <= aWork.ids)'
  BY <1>1 DEF SqlInv, Counted, RowsFit, Numbered
<1>3. ASSUME aHolder \in AAppends PROVE AppendHolds(aHolder)'
  <2>1. /\ aHolder \in SqlAlchemy!WriteCalls /\ aPc'[aHolder] = aPc[aHolder]
        /\ aSeen'[aHolder] = aSeen[aHolder]
    BY <1>3, Distinct
  <2> QED BY <1>1, <1>3, <2>1 DEF SqlInv, HolderFits, AppendHolds, Counted, Numbered
<1>4. ASSUME aHolder \in AResets PROVE ResetHolds(aHolder)'
  <2>1. /\ aHolder \in SqlAlchemy!WriteCalls /\ aPc'[aHolder] = aPc[aHolder]
        /\ (aHolder \in aDone' <=> aHolder \in aDone)
    BY <1>4, Distinct
  <2> QED BY <1>1, <1>4, <2>1 DEF SqlInv, HolderFits, ResetHolds
<1>5. HolderFits'
  BY <1>1, <1>3, <1>4 DEF SqlInv, HolderFits
<1> QED BY <1>2, <1>5

\* A call begins,
LEMMA SqlStartsKeeps ==
  ASSUME SqlInv, NEW c \in SqlAlchemy!WriteCalls, SqlAlchemy!Starts(c) PROVE SqlInv'
<1>1. /\ aPc[c] = "idle" /\ aPc' = [aPc EXCEPT ![c] = "find"]
      /\ UNCHANGED <<aDialect, aProc, SqlAlchemy!tapeVars, aSaved, aWork, aHolder, aSeen,
                     aMatches, aDone, aEntries, aOvertaken>>
  BY DEF SqlAlchemy!Starts, SqlAlchemy!Goes, SqlAlchemy!tapeVars
<1>2. aPc \in [SqlAlchemy!WriteCalls \cup ASearches -> WritePcs \cup {"match", "answered"}]
  BY DEF SqlInv, SqlTypes
<1>3. SqlTypes'
  BY <1>1, <1>2 DEF SqlInv, SqlTypes, WritePcs
<1>4. aHolder # c
  BY <1>1, Distinct DEF SqlInv, HolderFits, AppendHolds, ResetHolds, SqlAlchemy!WriteCalls
<1>5. \A d \in SqlAlchemy!WriteCalls : d # c => aPc'[d] = aPc[d] /\ aSeen'[d] = aSeen[d]
  BY <1>1, <1>2
<1>6. /\ Counted(aSaved)' /\ RowsFit(aSaved)' /\ RowsFit(aWork)' /\ (aSaved.ids <= aWork.ids)'
      /\ HolderFits'
  BY <1>1, <1>4, <1>5, TapeStays
<1>7. SqlCallFits(c)'
  BY <1>1, <1>2 DEF SqlInv, SqlCallFits, WritePcs
<1>8. \A d \in SqlAlchemy!WriteCalls : d # c => SqlCallFits(d)'
  <2>1. /\ aDialect' = aDialect /\ aSaved'.ids = aSaved.ids /\ aSaved'.row.id = aSaved.row.id
        /\ aDone' = aDone /\ aHolder' = aHolder
    BY <1>1
  <2> QED BY <1>5, <2>1, OthersStay
<1>9. \A s \in ASearches : SearchFits(s)'
  <2>1. \A s \in ASearches : aPc'[s] = aPc[s]
    BY <1>1, <1>2, Distinct
  <2> QED BY <1>1, <2>1, SearchesStay
<1> QED BY <1>3, <1>6, <1>7, <1>8, <1>9 DEF SqlInv

\* looks for the row of its tape,
LEMMA FindsKeeps ==
  ASSUME SqlInv, NEW c \in SqlAlchemy!WriteCalls, SqlAlchemy!Finds(c) PROVE SqlInv'
<1> DEFINE row == SqlAlchemy!View(c).row
<1>0. /\ aSaved \in Databases /\ aWork \in Databases
      /\ aHolder \in SqlAlchemy!WriteCalls \cup {NoCall}
      /\ aSeen \in [SqlAlchemy!WriteCalls -> TapeRows]
      /\ aPc \in [SqlAlchemy!WriteCalls \cup ASearches -> WritePcs \cup {"match", "answered"}]
  BY DEF SqlInv, SqlTypes
<1>1. /\ aPc[c] = "find" /\ aSeen' = [aSeen EXCEPT ![c] = row] /\ row \in TapeRows
      /\ UNCHANGED <<aDialect, aProc, aWriteLock, aMatches, aEntries, aOvertaken>>
  BY <1>0 DEF SqlAlchemy!Finds, SqlAlchemy!View, Databases
<1>2. PICK p \in {"commit", "create", "delete", "increment"} :
        /\ aPc' = [aPc EXCEPT ![c] = p]
        /\ p \in {"commit", "delete"} <=> c \in AResets
        /\ p \in {"commit", "create"} <=> row.id = 0
  BY DEF SqlAlchemy!Finds, SqlAlchemy!Goes
<1>3. /\ aDone' = IF p = "commit" THEN aDone \cup {c} ELSE aDone
      /\ IF aDialect = "server" /\ p = "increment"
         THEN SqlAlchemy!Writes(c, SqlAlchemy!View(c))
         ELSE UNCHANGED SqlAlchemy!tapeVars
  BY <1>2, Distinct DEF SqlAlchemy!Finds, SqlAlchemy!WriteCalls
<1>4. \A d \in SqlAlchemy!WriteCalls : d # c => aPc'[d] = aPc[d] /\ aSeen'[d] = aSeen[d]
  BY <1>0, <1>1, <1>2
<1>5. /\ aPc'[c] = p /\ aSeen'[c] = row /\ c \notin aDone /\ \A s \in ASearches : aPc'[s] = aPc[s]
  BY <1>0, <1>1, <1>2, Distinct DEF SqlInv, SqlCallFits
<1>6. aHolder = c
        => /\ c \in AAppends /\ p = "increment" /\ SqlAlchemy!View(c) = aWork /\ AppendHolds(c)
  BY <1>1, <1>2, <1>0, Distinct
  DEF SqlInv, HolderFits, AppendHolds, ResetHolds, SqlAlchemy!WriteCalls, SqlAlchemy!View
<1>7. aHolder # c => SqlAlchemy!View(c) = aSaved
  BY DEF SqlAlchemy!View
<1>8. SqlTypes' /\ UNCHANGED aSaved /\ aWork' \in {aWork, aSaved}
  <2>1. UNCHANGED aSaved /\ aWork' \in {aWork, aSaved} /\ aHolder' \in {aHolder, c}
    BY <1>3 DEF SqlAlchemy!Writes, SqlAlchemy!View, SqlAlchemy!tapeVars
  <2>2. /\ aPc' \in [SqlAlchemy!WriteCalls \cup ASearches -> WritePcs \cup {"match", "answered"}]
        /\ aSeen' \in [SqlAlchemy!WriteCalls -> TapeRows]
    BY <1>0, <1>1, <1>2 DEF WritePcs
  <2> QED BY <1>1, <1>3, <2>1, <2>2 DEF SqlInv, SqlTypes
<1>9. /\ Counted(aSaved)' /\ RowsFit(aSaved)' /\ RowsFit(aWork)' /\ (aSaved.ids <= aWork.ids)'
      /\ HolderFits'
      /\ aHolder' = aHolder \/ (aHolder' = c /\ aHolder = NoCall)
  <2>1. CASE UNCHANGED SqlAlchemy!tapeVars /\ aHolder # c
    <3>1. aDialect' = aDialect /\ aDone' \in {aDone, aDone \cup {c}} /\ aHolder' = aHolder
      BY <2>1, <1>1, <1>3 DEF SqlAlchemy!tapeVars
    <3> QED BY <2>1, <3>1, <1>4, TapeStays
  <2>2. CASE UNCHANGED SqlAlchemy!tapeVars /\ aHolder = c
    <3>1. UNCHANGED <<aSaved, aWork, aHolder>> /\ aHolder' \notin AResets /\ aHolder' # NoCall
      BY <2>2, <1>6, Distinct DEF SqlAlchemy!tapeVars
    <3>2. AppendHolds(c)'
      BY <1>1, <1>2, <1>5, <1>6, <3>1, <2>2 DEF AppendHolds, Counted, Numbered
    <3>3. HolderFits'
      BY <2>2, <3>1, <3>2 DEF HolderFits
    <3> QED BY <3>1, <3>3, <1>1 DEF SqlInv, Counted, Numbered, RowsFit
  <2>3. CASE aDialect = "server" /\ p = "increment" /\ SqlAlchemy!Writes(c, SqlAlchemy!View(c))
    <3>1. /\ aHolder' = c /\ aWork' = SqlAlchemy!View(c) /\ aSaved' = aSaved
          /\ aHolder \in {NoCall, c} /\ c \in AAppends
      BY <2>3, <1>2, Distinct DEF SqlAlchemy!Writes, SqlAlchemy!Lockable, SqlAlchemy!WriteCalls
    <3>2. aHolder = c => aWork' = aWork
      BY <3>1, <1>6
    <3>3. aHolder # c => aWork' = aSaved
      BY <3>1, <1>7
    <3>4. Counted(aSaved)' /\ RowsFit(aSaved)' /\ RowsFit(aWork)' /\ (aSaved.ids <= aWork.ids)'
      BY <3>1, <3>2, <3>3, <1>0, <1>1 DEF SqlInv, Counted, Numbered, RowsFit, Databases
    <3>5. AppendHolds(c)'
      <4>1. CASE aHolder = c
        BY <4>1, <1>1, <1>2, <1>5, <1>6, <3>1, <3>2 DEF AppendHolds, Counted, Numbered
      <4>2. CASE aHolder # c
        BY <4>2, <1>1, <1>2, <1>5, <1>7, <2>3, <3>1, <3>3
        DEF SqlInv, AppendHolds, Counted, Numbered
      <4> QED BY <4>1, <4>2
    <3>6. HolderFits'
      BY <3>1, <3>5, Distinct DEF HolderFits
    <3>7. aHolder' = aHolder \/ (aHolder' = c /\ aHolder = NoCall)
      BY <3>1
    <3> QED BY <3>4, <3>6, <3>7
  <2> QED BY <2>1, <2>2, <2>3, <1>3
<1>10. \A d \in SqlAlchemy!WriteCalls : d # c => SqlCallFits(d)'
  BY <1>1, <1>3, <1>4, <1>8, <1>9, OthersStay
<1>11. SqlCallFits(c)'
  <2>1. row = aSaved.row \/ p = "increment"
    BY <1>6, <1>7
  <2>2. aSaved.row.id \in Nat /\ aSaved.ids \in Nat
    BY <1>0 DEF Databases, TapeRows
  <2> QED
    BY <1>1, <1>2, <1>3, <1>5, <1>8, <2>1, <2>2, Distinct
    DEF SqlCallFits, WritePcs, SqlInv, RowsFit
<1>12. \A s \in ASearches : SearchFits(s)'
  BY <1>1, <1>5, <1>8, SearchesStay
<1> QED BY <1>8, <1>9, <1>10, <1>11, <1>12 DEF SqlInv

\* What an append that looks for its number sees.
LEMMA AppendSees ==
  ASSUME SqlInv, NEW c \in AAppends, aPc[c] \in {"find", "create", "increment", "reread"}
  PROVE  /\ SqlAlchemy!View(c) \in Databases /\ Counted(SqlAlchemy!View(c))
         /\ RowsFit(SqlAlchemy!View(c))
         /\ SqlAlchemy!View(c).entries = aSaved.entries /\ aSaved.ids <= SqlAlchemy!View(c).ids
         /\ aSaved.row.id # 0 => SqlAlchemy!View(c).row.id = aSaved.row.id
         /\ aSaved.row.id = 0 /\ SqlAlchemy!View(c).row.id # 0 /\ aDialect = "server"
           => SqlAlchemy!View(c).row.id > aSaved.ids
<1>0. aSaved \in Databases /\ aWork \in Databases
  BY DEF SqlInv, SqlTypes
<1>1. CASE aHolder = c
  BY <1>0, <1>1 DEF SqlInv, HolderFits, AppendHolds, SqlAlchemy!View
<1>2. CASE aHolder # c
  BY <1>0, <1>2 DEF SqlInv, SqlAlchemy!View, Databases
<1> QED BY <1>1, <1>2

\* creates it if there is none,
LEMMA CreatesKeeps ==
  ASSUME SqlInv, NEW c \in SqlAlchemy!WriteCalls, SqlAlchemy!Creates(c) PROVE SqlInv'
<1> DEFINE id == IF aDialect = "sqlite" THEN 1 ELSE aSaved.ids + 1
           made == [aSaved EXCEPT !.row = [id |-> id, last |-> 0], !.ids = id]
<1>0. /\ aSaved \in Databases /\ aWork \in Databases
      /\ aHolder \in SqlAlchemy!WriteCalls \cup {NoCall}
      /\ aSeen \in [SqlAlchemy!WriteCalls -> TapeRows]
      /\ aPc \in [SqlAlchemy!WriteCalls \cup ASearches -> WritePcs \cup {"match", "answered"}]
      /\ aDialect \in {"sqlite", "server"}
  BY DEF SqlInv, SqlTypes
<1>1. /\ aPc[c] = "create" /\ aPc' = [aPc EXCEPT ![c] = "find"] /\ aHolder \in {NoCall, c}
      /\ UNCHANGED <<aDialect, aProc, aWriteLock, aSeen, aMatches, aDone, aEntries, aOvertaken>>
  BY DEF SqlAlchemy!Creates, SqlAlchemy!Goes, SqlAlchemy!Lockable
<1>2. c \in AAppends
  BY <1>1 DEF SqlInv, SqlCallFits, SqlAlchemy!WriteCalls
<1>3. aHolder = NoCall /\ SqlAlchemy!View(c) = aSaved /\ aWork = aSaved
  BY <1>0, <1>1, <1>2, Distinct DEF SqlInv, HolderFits, AppendHolds, SqlAlchemy!View
<1>4. \/ aSaved.row.id # 0 /\ UNCHANGED SqlAlchemy!tapeVars
      \/ /\ aSaved.row.id = 0 /\ aDialect = "sqlite" /\ aSaved' = made /\ aWork' = made
         /\ UNCHANGED aHolder
      \/ /\ aSaved.row.id = 0 /\ aDialect = "server" /\ aSaved' = aSaved /\ aWork' = made
         /\ aHolder' = c
  BY <1>0, <1>3 DEF SqlAlchemy!Creates, SqlAlchemy!Writes
<1>5. \A d \in SqlAlchemy!WriteCalls : d # c => aPc'[d] = aPc[d] /\ aSeen'[d] = aSeen[d]
  BY <1>0, <1>1
<1>6. aPc'[c] = "find" /\ \A s \in ASearches : aPc'[s] = aPc[s]
  BY <1>0, <1>1, Distinct
<1>7. /\ made \in Databases /\ made.row.id # 0 /\ made.entries = aSaved.entries
      /\ made.row.id = id /\ made.row.last = 0 /\ made.ids = id
  <2>1. id \in Nat
    BY <1>0 DEF Databases
  <2>2. id # 0
    BY <1>0 DEF Databases
  <2> HIDE DEF id
  <2> QED BY <1>0, <2>1, <2>2 DEF Databases, TapeRows
<1>8. /\ aSaved' \in Databases /\ aWork' \in Databases
      /\ aHolder' \in SqlAlchemy!WriteCalls \cup {NoCall} /\ aSaved'.entries = aSaved.entries
  BY <1>0, <1>3, <1>4, <1>7 DEF SqlAlchemy!tapeVars
<1>9. SqlTypes'
  BY <1>0, <1>1, <1>8 DEF SqlInv, SqlTypes, WritePcs
<1>10. aSaved.row.id = 0
         => Counted(made) /\ RowsFit(made)
         /\ (aDialect = "server" => aSaved.ids <= made.ids /\ aSaved.ids < id)
  BY <1>0, <1>7 DEF SqlInv, Counted, Numbered, RowsFit, Databases
<1>11. /\ Counted(aSaved)' /\ RowsFit(aSaved)' /\ RowsFit(aWork)' /\ (aSaved.ids <= aWork.ids)'
       /\ HolderFits'
  <2>1. CASE aSaved.row.id # 0 /\ UNCHANGED SqlAlchemy!tapeVars
    <3>1. aHolder # c /\ aDone' \in {aDone, aDone \cup {c}}
      BY <1>1, <1>3, Distinct
    <3> QED BY <2>1, <3>1, <1>1, <1>5, TapeStays
  <2>2. CASE /\ aSaved.row.id = 0 /\ aDialect = "sqlite" /\ aSaved' = made /\ aWork' = made
             /\ UNCHANGED aHolder
    <3>1. HolderFits'
      BY <2>2, <1>3, Distinct DEF HolderFits
    <3>2. (aSaved.ids <= aWork.ids)'
      BY <2>2, <1>7
    <3> QED BY <2>2, <3>1, <3>2, <1>1, <1>10 DEF Counted, Numbered, RowsFit
  <2>3. CASE /\ aSaved.row.id = 0 /\ aDialect = "server" /\ aSaved' = aSaved /\ aWork' = made
             /\ aHolder' = c
    <3>1. /\ Counted(aWork)' /\ Counted(aSaved)' /\ RowsFit(aSaved)' /\ RowsFit(aWork)'
          /\ (aSaved.ids <= aWork.ids)'
      BY <2>3, <1>1, <1>10 DEF SqlInv, Counted, Numbered, RowsFit
    <3>2. AppendHolds(c)'
      BY <2>3, <3>1, <1>6, <1>7, <1>10 DEF AppendHolds
    <3>3. HolderFits'
      BY <2>3, <3>2, <1>2, Distinct DEF HolderFits
    <3> QED BY <3>1, <3>3
  <2> QED BY <1>4, <2>1, <2>2, <2>3
<1>12. \A d \in SqlAlchemy!WriteCalls : d # c => SqlCallFits(d)'
  <2>1. /\ aDialect' = aDialect /\ aDone' = aDone
        /\ aHolder' = aHolder \/ (aHolder' = c /\ aHolder = NoCall)
        /\ aDialect = "sqlite" \/ (aSaved'.ids = aSaved.ids /\ aSaved'.row.id = aSaved.row.id)
    BY <1>1, <1>3, <1>4 DEF SqlAlchemy!tapeVars
  <2> QED BY <2>1, <1>5, OthersStay
<1>13. SqlCallFits(c)'
  BY <1>1, <1>2, <1>6, Distinct DEF SqlInv, SqlCallFits, WritePcs
<1>14. \A s \in ASearches : SearchFits(s)'
  BY <1>1, <1>6, <1>8, SearchesStay
<1> QED BY <1>9, <1>11, <1>12, <1>13, <1>14 DEF SqlInv

\* An append that holds the tape from here on.
LEMMA AppendWrites ==
  ASSUME SqlInv, NEW c \in AAppends, aPc[c] \in {"increment", "reread", "insert"},
         aSaved' = aSaved, aHolder \in {NoCall, c}, aHolder' = c,
         UNCHANGED <<aDialect, aProc, aMatches, aDone, aEntries, aOvertaken>>,
         NEW p \in {"increment", "reread", "insert", "commit"}, aPc' = [aPc EXCEPT ![c] = p],
         NEW r \in TapeRows, aSeen' = [aSeen EXCEPT ![c] = r], r.id # 0,
         aWork' \in Databases, RowsFit(aWork)', aSaved.ids <= aWork'.ids, AppendHolds(c)'
  PROVE  SqlInv'
<1>0. /\ aSaved \in Databases /\ aSeen \in [SqlAlchemy!WriteCalls -> TapeRows]
      /\ c \in SqlAlchemy!WriteCalls
      /\ aPc \in [SqlAlchemy!WriteCalls \cup ASearches -> WritePcs \cup {"match", "answered"}]
  BY Distinct DEF SqlInv, SqlTypes
<1>1. /\ \A d \in SqlAlchemy!WriteCalls : d # c => aPc'[d] = aPc[d] /\ aSeen'[d] = aSeen[d]
      /\ aPc'[c] = p /\ aSeen'[c] = r /\ \A s \in ASearches : aPc'[s] = aPc[s]
  BY <1>0, Distinct
<1>2. SqlTypes'
  BY <1>0 DEF SqlInv, SqlTypes, WritePcs
<1>3. Counted(aSaved)' /\ RowsFit(aSaved)' /\ (aSaved.ids <= aWork.ids)'
  BY DEF SqlInv, Counted, Numbered, RowsFit
<1>4. HolderFits'
  BY <1>0, Distinct DEF HolderFits
<1>5. \A d \in SqlAlchemy!WriteCalls : d # c => SqlCallFits(d)'
  <2>1. /\ aSaved'.ids = aSaved.ids /\ aSaved'.row.id = aSaved.row.id
        /\ (aHolder' = aHolder \/ (aHolder' = c /\ aHolder = NoCall))
    OBVIOUS
  <2> QED BY <1>0, <1>1, <2>1, OthersStay
<1>6. SqlCallFits(c)'
  BY <1>0, <1>1, Distinct DEF SqlInv, SqlCallFits, WritePcs
<1>7. \A s \in ASearches : SearchFits(s)'
  BY <1>1, SearchesStay
<1> QED BY <1>2, <1>3, <1>4, <1>5, <1>6, <1>7 DEF SqlInv

\* raises its counter,
LEMMA IncrementsKeeps ==
  ASSUME SqlInv, NEW c \in SqlAlchemy!WriteCalls, SqlAlchemy!Increments(c) PROVE SqlInv'
<1> DEFINE t == SqlAlchemy!View(c)
<1>0. /\ aSaved \in Databases /\ aSeen \in [SqlAlchemy!WriteCalls -> TapeRows]
      /\ aPc \in [SqlAlchemy!WriteCalls \cup ASearches -> WritePcs \cup {"match", "answered"}]
  BY DEF SqlInv, SqlTypes
<1>1. /\ aPc[c] = "increment" /\ aSaved' = aSaved /\ aHolder \in {NoCall, c} /\ aHolder' = c
      /\ UNCHANGED <<aDialect, aProc, aWriteLock, aMatches, aDone, aEntries, aOvertaken>>
  BY DEF SqlAlchemy!Increments, SqlAlchemy!Writes, SqlAlchemy!Lockable
<1>2. c \in AAppends /\ aSeen[c].id # 0
  BY <1>1 DEF SqlInv, SqlCallFits, SqlAlchemy!WriteCalls
<1>3. /\ t \in Databases /\ Counted(t) /\ RowsFit(t)
      /\ t.entries = aSaved.entries /\ aSaved.ids <= t.ids
      /\ aSaved.row.id # 0 => t.row.id = aSaved.row.id
      /\ aSaved.row.id = 0 /\ t.row.id # 0 /\ aDialect = "server" => t.row.id > aSaved.ids
  BY <1>1, <1>2, AppendSees
<1>4. CASE SqlAlchemy!CounterMatches(t.row, aSeen[c])
  <2> DEFINE r == [aSeen[c] EXCEPT !.last = @ + 1]
  <2>1. /\ aWork' = [t EXCEPT !.row.last = aSeen[c].last + 1] /\ aSeen' = [aSeen EXCEPT ![c] = r]
        /\ aPc' = [aPc EXCEPT ![c] = "insert"] /\ t.row.id = aSeen[c].id
        /\ t.row.last = aSeen[c].last
    BY <1>0, <1>4
    DEF SqlAlchemy!Increments, SqlAlchemy!Writes, SqlAlchemy!Goes, SqlAlchemy!CounterMatches
  <2>2. r \in TapeRows /\ r.id = aSeen[c].id /\ r.last = aSeen[c].last + 1
    BY <1>0 DEF TapeRows
  <2>3. /\ aWork' \in Databases /\ aWork'.row.id = t.row.id /\ aWork'.row.last = t.row.last + 1
        /\ aWork'.entries = t.entries /\ aWork'.ids = t.ids
    BY <1>3, <2>1 DEF Databases, TapeRows
  <2>4. aPc'[c] = "insert" /\ aSeen'[c] = r
    BY <1>0, <2>1
  <2>5. AppendHolds(c)'
    BY <1>1, <1>2, <1>3, <2>1, <2>2, <2>3, <2>4, ZenonT(40) DEF AppendHolds, Counted
  <2>6. RowsFit(aWork)'
    BY <1>1, <1>3, <2>3 DEF RowsFit
  <2> HIDE DEF r, t
  <2> QED BY <1>1, <1>2, <1>3, <2>1, <2>2, <2>3, <2>5, <2>6, AppendWrites
<1>5. CASE ~SqlAlchemy!CounterMatches(t.row, aSeen[c])
  <2>1. aWork' = t /\ aPc' = [aPc EXCEPT ![c] = "reread"] /\ aSeen' = [aSeen EXCEPT ![c] = aSeen[c]]
    BY <1>0, <1>5 DEF SqlAlchemy!Increments, SqlAlchemy!Writes, SqlAlchemy!Goes
  <2>2. aPc'[c] = "reread" /\ aSeen[c] \in TapeRows
    BY <1>0, <2>1
  <2>3. AppendHolds(c)'
    BY <1>1, <1>2, <1>3, <2>1, <2>2 DEF AppendHolds, Counted, Numbered
  <2>4. RowsFit(aWork)' /\ aWork' \in Databases /\ aSaved.ids <= aWork'.ids
    BY <1>1, <1>3, <2>1 DEF RowsFit
  <2> HIDE DEF t
  <2> QED BY <1>1, <1>2, <2>1, <2>2, <2>3, <2>4, AppendWrites
<1> QED BY <1>4, <1>5

\* or reads it again when another process was faster,
LEMMA RereadsKeeps ==
  ASSUME SqlInv, NEW c \in SqlAlchemy!WriteCalls, SqlAlchemy!Rereads(c) PROVE SqlInv'
<1>0. /\ aSaved \in Databases /\ aWork \in Databases
      /\ aHolder \in SqlAlchemy!WriteCalls \cup {NoCall}
      /\ aSeen \in [SqlAlchemy!WriteCalls -> TapeRows]
      /\ aPc \in [SqlAlchemy!WriteCalls \cup ASearches -> WritePcs \cup {"match", "answered"}]
  BY DEF SqlInv, SqlTypes
<1>1. /\ aPc[c] = "reread" /\ aPc' = [aPc EXCEPT ![c] = "increment"]
      /\ aSeen' = [aSeen EXCEPT ![c] = SqlAlchemy!View(c).row]
      /\ SqlAlchemy!View(c).row.id = aSeen[c].id
      /\ UNCHANGED <<aDialect, aProc, SqlAlchemy!tapeVars, aSaved, aWork, aHolder, aMatches,
                     aDone, aEntries, aOvertaken>>
  BY DEF SqlAlchemy!Rereads, SqlAlchemy!Goes, SqlAlchemy!tapeVars
<1>2. c \in AAppends /\ aSeen[c].id # 0 /\ c \notin aDone
  BY <1>1 DEF SqlInv, SqlCallFits, SqlAlchemy!WriteCalls
<1>3. SqlAlchemy!View(c).row \in TapeRows
  BY <1>0 DEF SqlAlchemy!View, Databases
<1>4. SqlTypes'
  BY <1>0, <1>1, <1>3 DEF SqlInv, SqlTypes, WritePcs
<1>5. /\ \A d \in SqlAlchemy!WriteCalls : d # c => aPc'[d] = aPc[d] /\ aSeen'[d] = aSeen[d]
      /\ aPc'[c] = "increment" /\ aSeen'[c] = SqlAlchemy!View(c).row
      /\ \A s \in ASearches : aPc'[s] = aPc[s]
  BY <1>0, <1>1, Distinct
<1>6. /\ Counted(aSaved)' /\ RowsFit(aSaved)' /\ RowsFit(aWork)' /\ (aSaved.ids <= aWork.ids)'
      /\ HolderFits'
  <2>1. CASE aHolder # c
    BY <2>1, <1>1, <1>5, TapeStays
  <2>2. CASE aHolder = c
    <3>1. AppendHolds(c)'
      BY <2>2, <1>1, <1>2, <1>5
      DEF SqlInv, HolderFits, AppendHolds, SqlAlchemy!View, Counted, Numbered
    <3>2. HolderFits'
      BY <2>2, <3>1, <1>1, <1>2, Distinct DEF HolderFits
    <3> QED BY <3>2, <1>1 DEF SqlInv, Counted, Numbered, RowsFit
  <2> QED BY <2>1, <2>2
<1>7. \A d \in SqlAlchemy!WriteCalls : d # c => SqlCallFits(d)'
  <2>1. /\ aSaved'.ids = aSaved.ids /\ aSaved'.row.id = aSaved.row.id /\ aDone' = aDone
        /\ aDialect' = aDialect /\ aHolder' = aHolder
    BY <1>1
  <2> QED BY <1>5, <2>1, OthersStay
<1>8. SqlCallFits(c)'
  BY <1>1, <1>2, <1>5, Distinct DEF SqlCallFits, WritePcs
<1>9. \A s \in ASearches : SearchFits(s)'
  BY <1>1, <1>5, SearchesStay
<1> QED BY <1>4, <1>6, <1>7, <1>8, <1>9 DEF SqlInv

\* inserts the entry under the number,
LEMMA InsertsKeeps ==
  ASSUME SqlInv, NEW c \in SqlAlchemy!WriteCalls, SqlAlchemy!Inserts(c) PROVE SqlInv'
<1> DEFINE e == [id |-> aSeen[c].last, matches |-> aMatches[c]]
<1>0. /\ aSaved \in Databases /\ aWork \in Databases
      /\ aSeen \in [SqlAlchemy!WriteCalls -> TapeRows] /\ aMatches \in [AAppends -> BOOLEAN]
      /\ aPc \in [SqlAlchemy!WriteCalls \cup ASearches -> WritePcs \cup {"match", "answered"}]
  BY DEF SqlInv, SqlTypes
<1>1. aPc[c] = "insert"
  BY DEF SqlAlchemy!Inserts
<1>2. c \in AAppends /\ aSeen[c].id # 0 /\ aHolder = c
  BY <1>1 DEF SqlInv, SqlCallFits, SqlAlchemy!WriteCalls
<1>3. /\ aSaved' = aSaved /\ aHolder' = c /\ aWork' = [aWork EXCEPT !.entries = Append(@, e)]
      /\ aPc' = [aPc EXCEPT ![c] = "commit"] /\ aSeen' = [aSeen EXCEPT ![c] = aSeen[c]]
      /\ UNCHANGED <<aDialect, aProc, aMatches, aDone, aEntries, aOvertaken>>
  BY <1>0, <1>2 DEF SqlAlchemy!Inserts, SqlAlchemy!Writes, SqlAlchemy!Goes, SqlAlchemy!View
<1>4. e \in Items
  BY <1>0, <1>2 DEF Items, TapeRows
<1>5. AppendHolds(c)
  BY <1>2 DEF SqlInv, HolderFits
<1>6. aPc'[c] = "commit"
  BY <1>0, <1>2, <1>3
<1>7. /\ aWork' \in Databases /\ aWork'.row = aWork.row /\ aWork'.ids = aWork.ids
      /\ aWork'.entries = Append(aSaved.entries, e)
  <2>1. aWork.entries = aSaved.entries
    BY <1>1, <1>5 DEF AppendHolds
  <2>2. Append(aWork.entries, e) \in Seq(Items)
    BY <1>0, <1>4 DEF Databases
  <2> HIDE DEF e
  <2> QED BY <1>0, <1>3, <2>1, <2>2 DEF Databases
<1>8. AppendHolds(c)'
  BY <1>0, <1>1, <1>2, <1>3, <1>5, <1>6, <1>7 DEF AppendHolds
<1>9. RowsFit(aWork)' /\ aSaved.ids <= aWork'.ids
  BY <1>3, <1>7 DEF SqlInv, RowsFit
<1>10. aSeen[c] \in TapeRows
  BY <1>0
<1> QED BY <1>1, <1>2, <1>3, <1>7, <1>8, <1>9, <1>10, AppendWrites

\* or deletes the row and the entries,
LEMMA SqlDeletesKeeps ==
  ASSUME SqlInv, NEW c \in SqlAlchemy!WriteCalls, SqlAlchemy!Deletes(c) PROVE SqlInv'
<1> DEFINE gone == [aSaved EXCEPT !.row = SqlAlchemy!NoRow, !.entries = <<>>]
<1>0. /\ aSaved \in Databases /\ aWork \in Databases
      /\ aSeen \in [SqlAlchemy!WriteCalls -> TapeRows]
      /\ aHolder \in SqlAlchemy!WriteCalls \cup {NoCall}
      /\ aPc \in [SqlAlchemy!WriteCalls \cup ASearches -> WritePcs \cup {"match", "answered"}]
      /\ aDialect \in {"sqlite", "server"}
  BY DEF SqlInv, SqlTypes
<1>1. /\ aPc[c] = "delete" /\ aPc' = [aPc EXCEPT ![c] = "commit"] /\ aSaved' = aSaved
      /\ aHolder' = c /\ aHolder \in {NoCall, c}
      /\ UNCHANGED <<aDialect, aProc, aSeen, aMatches, aDone, aEntries, aOvertaken>>
  BY DEF SqlAlchemy!Deletes, SqlAlchemy!Goes, SqlAlchemy!Writes, SqlAlchemy!Lockable
<1>2. c \in AResets
  BY <1>1 DEF SqlInv, SqlCallFits, SqlAlchemy!WriteCalls
<1>3. aHolder = NoCall /\ SqlAlchemy!View(c) = aSaved /\ aWork = aSaved
  BY <1>0, <1>1, <1>2, Distinct DEF SqlInv, HolderFits, ResetHolds, SqlAlchemy!View
<1>4. aWork' = IF aSaved.row.id = aSeen[c].id THEN gone ELSE aSaved
  BY <1>3 DEF SqlAlchemy!Deletes, SqlAlchemy!Writes
<1>5. /\ gone \in Databases /\ gone.row = SqlAlchemy!NoRow /\ gone.entries = <<>>
      /\ gone.ids = aSaved.ids
  <2>1. SqlAlchemy!NoRow \in TapeRows /\ <<>> \in Seq(Items)
    BY DEF TapeRows, SqlAlchemy!NoRow
  <2> QED BY <1>0, <2>1 DEF Databases
<1>6. /\ \A d \in SqlAlchemy!WriteCalls : d # c => aPc'[d] = aPc[d] /\ aSeen'[d] = aSeen[d]
      /\ aPc'[c] = "commit" /\ \A s \in ASearches : aPc'[s] = aPc[s]
  BY <1>0, <1>1, Distinct
<1>7. /\ aWork' \in Databases /\ aWork'.ids = aSaved.ids
      /\ (aWork' = aSaved \/ (aWork'.row = SqlAlchemy!NoRow /\ aWork'.entries = <<>>))
  BY <1>0, <1>4, <1>5
<1>8. SqlTypes'
  BY <1>0, <1>1, <1>7 DEF SqlInv, SqlTypes, WritePcs
<1>9. SqlCallFits(c) /\ RowsFit(aSaved) /\ aSaved.row.id \in Nat /\ aSaved.ids \in Nat
  BY <1>0 DEF SqlInv, Databases, TapeRows
<1>10. Counted(aSaved)' /\ RowsFit(aSaved)' /\ RowsFit(aWork)' /\ (aSaved.ids <= aWork.ids)'
  BY <1>1, <1>7, <1>9 DEF SqlInv, Counted, Numbered, RowsFit, SqlAlchemy!NoRow
<1>11. ResetHolds(c)'
  <2>1. aSaved.row.id = aSeen[c].id => c \notin aDone
    BY <1>0, <1>1, <1>9 DEF SqlCallFits
  <2>2. aSaved.row.id # aSeen[c].id => c \in aDone \/ aSaved.row.id = 0
    BY <1>0, <1>1, <1>2, <1>9 DEF SqlCallFits, RowsFit
  <2> QED BY <2>1, <2>2, <1>1, <1>4, <1>5, <1>6 DEF ResetHolds
<1>12. HolderFits'
  BY <1>1, <1>2, <1>11, Distinct DEF HolderFits
<1>13. \A d \in SqlAlchemy!WriteCalls : d # c => SqlCallFits(d)'
  <2>1. /\ aSaved'.ids = aSaved.ids /\ aSaved'.row.id = aSaved.row.id /\ aDone' = aDone
        /\ aDialect' = aDialect
        /\ aHolder' = aHolder \/ (aHolder' = c /\ aHolder = NoCall)
    BY <1>1, <1>3
  <2> QED BY <1>6, <2>1, OthersStay
<1>14. SqlCallFits(c)'
  BY <1>1, <1>2, <1>6, <1>9, Distinct DEF SqlCallFits, WritePcs
<1>15. \A s \in ASearches : SearchFits(s)'
  BY <1>1, <1>6, SearchesStay
<1> QED BY <1>8, <1>10, <1>12, <1>13, <1>14, <1>15 DEF SqlInv

\* and may fail anywhere before it has committed.
LEMMA RollsBackKeeps ==
  ASSUME SqlInv, NEW c \in SqlAlchemy!WriteCalls, SqlAlchemy!RollsBack(c) PROVE SqlInv'
<1>0. /\ aSaved \in Databases /\ aWork \in Databases
      /\ aHolder \in SqlAlchemy!WriteCalls \cup {NoCall}
      /\ aSeen \in [SqlAlchemy!WriteCalls -> TapeRows]
      /\ aPc \in [SqlAlchemy!WriteCalls \cup ASearches -> WritePcs \cup {"match", "answered"}]
  BY DEF SqlInv, SqlTypes
<1>1. /\ aPc[c] \notin {"ok", "failed", "idle"} /\ aPc' = [aPc EXCEPT ![c] = "failed"]
      /\ aSeen' = [aSeen EXCEPT ![c] = SqlAlchemy!NoRow]
      /\ aSaved' = aSaved /\ aWork' = (IF aHolder = c THEN aSaved ELSE aWork)
      /\ aHolder' = IF aHolder = c THEN NoCall ELSE aHolder
      /\ UNCHANGED <<aDialect, aProc, aMatches, aDone, aEntries, aOvertaken>>
  BY DEF SqlAlchemy!RollsBack, SqlAlchemy!Leaves, SqlAlchemy!Goes
<1>2. SqlAlchemy!NoRow \in TapeRows
  BY DEF TapeRows, SqlAlchemy!NoRow
<1>3. SqlTypes'
  BY <1>0, <1>1, <1>2 DEF SqlInv, SqlTypes, WritePcs
<1>4. /\ \A d \in SqlAlchemy!WriteCalls : d # c => aPc'[d] = aPc[d] /\ aSeen'[d] = aSeen[d]
      /\ aPc'[c] = "failed" /\ \A s \in ASearches : aPc'[s] = aPc[s]
  BY <1>0, <1>1, Distinct
<1>5. /\ Counted(aSaved)' /\ RowsFit(aSaved)' /\ RowsFit(aWork)' /\ (aSaved.ids <= aWork.ids)'
      /\ HolderFits'
  <2>1. CASE aHolder # c
    <3>1. UNCHANGED SqlAlchemy!tapeVars /\ aDone' \in {aDone, aDone \cup {c}}
      BY <1>1, <2>1 DEF SqlAlchemy!tapeVars
    <3> QED BY <2>1, <3>1, <1>1, <1>4, TapeStays
  <2>2. CASE aHolder = c
    <3>1. HolderFits'
      BY <1>1, <2>2, Distinct DEF HolderFits
    <3>2. aSaved.ids <= aSaved.ids
      BY <1>0 DEF Databases
    <3> QED BY <1>1, <2>2, <3>1, <3>2 DEF SqlInv, Counted, Numbered, RowsFit
  <2> QED BY <2>1, <2>2
<1>6. \A d \in SqlAlchemy!WriteCalls : d # c => SqlCallFits(d)'
  <2>1. /\ aSaved'.ids = aSaved.ids /\ aSaved'.row.id = aSaved.row.id /\ aDone' = aDone
        /\ aDialect' = aDialect
        /\ aHolder' = aHolder \/ aHolder = c
    BY <1>1
  <2> QED BY <1>4, <2>1, OthersStay
<1>7. SqlCallFits(c)'
  <2>1. c \in AAppends => c \notin aDone
    BY <1>1 DEF SqlInv, SqlCallFits
  <2> QED BY <1>1, <1>4, <2>1, Distinct DEF SqlCallFits, WritePcs
<1>8. \A s \in ASearches : SearchFits(s)'
  BY <1>1, <1>4, SearchesStay
<1> QED BY <1>3, <1>5, <1>6, <1>7, <1>8 DEF SqlInv

\* What a commit does to the tape.
LEMMA CommitsDo ==
  ASSUME SqlInv, NEW c \in SqlAlchemy!WriteCalls, SqlAlchemy!Commits(c)
  PROVE  /\ aSaved' \in Databases /\ Counted(aSaved') /\ RowsFit(aSaved')
         /\ aSaved.ids <= aSaved'.ids /\ aSaved'.ids <= aWork.ids
         /\ aHolder # c => aSaved' = aSaved /\ c \in AResets /\ c \in aDone
         /\ aHolder = c => aSaved' = aWork
         /\ \/ /\ c \in AAppends /\ c \notin aDone /\ aDone' = aDone \cup {c}
               /\ aOvertaken' = aOvertaken
               /\ \E m \in BOOLEAN :
                    aSaved'.entries =
                      Append(aSaved.entries, [id |-> Len(aSaved.entries) + 1, matches |-> m])
               /\ aSaved.row.id # 0 => aSaved'.row.id = aSaved.row.id
               /\ aSaved.row.id = 0 /\ aDialect = "server" => aSaved'.row.id > aSaved.ids
            \/ /\ c \in AResets /\ aDone' = aDone \cup {c} /\ aSaved' = aSaved
               /\ aOvertaken' = aOvertaken
               /\ c \in aDone \/ aSaved.entries = <<>>
            \/ /\ c \in AResets /\ c \notin aDone /\ aSaved'.row.id = 0 /\ aSaved'.entries = <<>>
               /\ aSaved.row.id = 0
                 => aDone' = aDone \cup {c} /\ aOvertaken' = aOvertaken /\ aSaved.entries = <<>>
               /\ aSaved.row.id # 0 =>
                    /\ aDone' = aDone \cup {c} \cup SqlAlchemy!Overtakes(c)
                    /\ aOvertaken' = aOvertaken \cup {s \in ASearches : aPc[s] = "match"}
<1>0. /\ aSaved \in Databases /\ aWork \in Databases
  BY DEF SqlInv, SqlTypes
<1>1. aPc[c] = "commit" /\ aSaved' = SqlAlchemy!View(c) /\ aDialect' = aDialect
  BY DEF SqlAlchemy!Commits
<1>2. CASE c \in AAppends
  <2>1. aHolder = c /\ AppendHolds(c) /\ c \notin aDone
    BY <1>1, <1>2 DEF SqlInv, SqlCallFits, HolderFits
  <2>2. aSaved' = aWork /\ aWork.row.id # 0 /\ (aSaved.row.id # 0 => aWork.row.id = aSaved.row.id)
    BY <1>1, <2>1 DEF SqlAlchemy!View, AppendHolds
  <2>3. aDone' = aDone \cup {c} /\ aOvertaken' = aOvertaken
    BY <2>1, <2>2 DEF SqlAlchemy!Commits, SqlAlchemy!View
  <2>4. PICK m \in BOOLEAN :
             aWork.entries = Append(aSaved.entries, [id |-> aWork.row.last, matches |-> m])
    BY <1>1, <2>1 DEF AppendHolds
  <2>5. aWork.row.last = Len(aSaved.entries) + 1
    BY <1>1, <2>1 DEF AppendHolds
  <2>6. Counted(aWork)
    <3>1. /\ aSaved.entries \in Seq(Items) /\ [id |-> aWork.row.last, matches |-> m] \in Items
          /\ Numbered(aSaved.entries)
      BY <1>0, <2>4 DEF Databases, Items, TapeRows, SqlInv, Counted
    <3> QED BY <3>1, <2>2, <2>4, <2>5 DEF Counted, Numbered
  <2> QED
    BY <1>0, <1>1, <1>2, <2>1, <2>2, <2>3, <2>4, <2>5, <2>6
    DEF SqlInv, AppendHolds, RowsFit, Databases
<1>3. CASE c \in AResets /\ aHolder # c
  <2>1. c \in aDone /\ aSaved' = aSaved /\ SqlAlchemy!View(c) = aSaved
    BY <1>1, <1>3 DEF SqlInv, SqlCallFits, SqlAlchemy!View
  <2>2. aDone' = aDone \cup {c} /\ aOvertaken' = aOvertaken
    BY <2>1 DEF SqlAlchemy!Commits
  <2> QED BY <1>0, <1>3, <2>1, <2>2 DEF SqlInv, Databases, Counted, RowsFit
<1>4. CASE c \in AResets /\ aHolder = c
  <2>1. aSaved' = aWork /\ SqlAlchemy!View(c) = aWork
    BY <1>1, <1>4 DEF SqlAlchemy!View
  <2>2. CASE aWork = aSaved /\ (c \in aDone \/ aSaved.row.id = 0)
    <3>1. aDone' = aDone \cup {c} /\ aOvertaken' = aOvertaken
      BY <2>1, <2>2 DEF SqlAlchemy!Commits
    <3> QED BY <1>0, <1>4, <2>1, <2>2, <3>1 DEF SqlInv, Databases, Counted, RowsFit
  <2>3. CASE aWork.row = SqlAlchemy!NoRow /\ aWork.entries = <<>> /\ c \notin aDone
    <3>1. aWork.row.id = 0
      BY <2>3 DEF SqlAlchemy!NoRow
    <3>2. aSaved.row.id = 0
            => aDone' = aDone \cup {c} /\ aOvertaken' = aOvertaken /\ aSaved.entries = <<>>
      BY <2>1 DEF SqlAlchemy!Commits, SqlInv, Counted
    <3>3. aSaved.row.id # 0 => /\ aDone' = aDone \cup {c} \cup SqlAlchemy!Overtakes(c)
                              /\ aOvertaken' = aOvertaken \cup {s \in ASearches : aPc[s] = "match"}
      BY <2>1, <3>1 DEF SqlAlchemy!Commits
    <3>4. Counted(aWork) /\ RowsFit(aWork)
      BY <1>0, <2>3, <3>1 DEF Counted, Numbered, SqlInv
    <3>5. Counted(aSaved') /\ RowsFit(aSaved') /\ aWork.ids <= aWork.ids
      BY <1>0, <2>1, <3>4 DEF Databases
    <3> QED BY <1>0, <1>4, <2>1, <2>3, <3>1, <3>2, <3>3, <3>5 DEF SqlInv
  <2> QED BY <1>4, <2>2, <2>3 DEF SqlInv, HolderFits, ResetHolds
<1> QED BY <1>2, <1>3, <1>4 DEF SqlAlchemy!WriteCalls

\* A commit leaves what it has written.
LEMMA CommitsKeeps ==
  ASSUME SqlInv, NEW c \in SqlAlchemy!WriteCalls, SqlAlchemy!Commits(c) PROVE SqlInv'
<1>0. /\ aSaved \in Databases /\ aWork \in Databases
      /\ aHolder \in SqlAlchemy!WriteCalls \cup {NoCall}
      /\ aSeen \in [SqlAlchemy!WriteCalls -> TapeRows]
      /\ aPc \in [SqlAlchemy!WriteCalls \cup ASearches -> WritePcs \cup {"match", "answered"}]
      /\ aDone \subseteq SqlAlchemy!WriteCalls /\ aOvertaken \subseteq ASearches
  BY DEF SqlInv, SqlTypes
<1>1. /\ aPc[c] = "commit" /\ aPc' = [aPc EXCEPT ![c] = "ok"]
      /\ aSeen' = [aSeen EXCEPT ![c] = SqlAlchemy!NoRow]
      /\ aWork' = aWork /\ aHolder' = IF aHolder = c THEN NoCall ELSE aHolder
      /\ UNCHANGED <<aDialect, aProc, aMatches, aEntries>>
  BY DEF SqlAlchemy!Commits, SqlAlchemy!Leaves, SqlAlchemy!Goes
<1>2. SqlAlchemy!NoRow \in TapeRows
  BY DEF TapeRows, SqlAlchemy!NoRow
<1>3. /\ aSaved' \in Databases /\ Counted(aSaved') /\ RowsFit(aSaved')
      /\ aSaved.ids <= aSaved'.ids /\ aSaved'.ids <= aWork.ids
      /\ aHolder # c => aSaved' = aSaved /\ c \in AResets /\ c \in aDone
      /\ aHolder = c => aSaved' = aWork
  BY CommitsDo
<1>4. /\ aDone' \subseteq aDone \cup {c} \cup SqlAlchemy!Overtakes(c)
      /\ aDone \cup {c} \subseteq aDone'
      /\ aOvertaken \subseteq aOvertaken'
      /\ aOvertaken' \subseteq aOvertaken \cup {s \in ASearches : aPc[s] = "match"}
  BY CommitsDo
<1>5. /\ \A d \in SqlAlchemy!WriteCalls : d # c => aPc'[d] = aPc[d] /\ aSeen'[d] = aSeen[d]
      /\ aPc'[c] = "ok" /\ \A s \in ASearches : aPc'[s] = aPc[s]
  BY <1>0, <1>1, Distinct
<1>6. SqlTypes'
  <2>1. aDone' \subseteq SqlAlchemy!WriteCalls /\ aOvertaken' \subseteq ASearches
    BY <1>0, <1>4, Distinct DEF SqlAlchemy!Overtakes
  <2>2. /\ aPc' \in [SqlAlchemy!WriteCalls \cup ASearches -> WritePcs \cup {"match", "answered"}]
        /\ aSeen' \in [SqlAlchemy!WriteCalls -> TapeRows]
    BY <1>0, <1>1, <1>2 DEF WritePcs
  <2> QED BY <1>0, <1>1, <1>3, <2>1, <2>2 DEF SqlInv, SqlTypes
<1>7. /\ Counted(aSaved)' /\ RowsFit(aSaved)' /\ RowsFit(aWork)' /\ (aSaved.ids <= aWork.ids)'
      /\ HolderFits'
  <2>1. Counted(aSaved)' /\ RowsFit(aSaved)' /\ RowsFit(aWork)' /\ (aSaved.ids <= aWork.ids)'
    BY <1>1, <1>3 DEF Counted, Numbered, RowsFit, SqlInv
  <2>2. CASE aHolder # c
    <3>1. UNCHANGED SqlAlchemy!tapeVars /\ aDone' \in {aDone, aDone \cup {c}}
      BY <1>1, <1>3, <2>2, CommitsDo DEF SqlAlchemy!tapeVars
    <3> QED BY <2>2, <3>1, <1>1, <1>5, TapeStays
  <2>3. CASE aHolder = c
    BY <2>1, <2>3, <1>1, <1>3, Distinct DEF HolderFits
  <2> QED BY <2>2, <2>3
<1>8. ASSUME NEW d \in SqlAlchemy!WriteCalls, d # c PROVE SqlCallFits(d)'
  <2>1. aPc'[d] = aPc[d] /\ aSeen'[d] = aSeen[d] /\ SqlCallFits(d) /\ (aHolder = d => aHolder' = d)
    BY <1>1, <1>5, <1>8 DEF SqlInv
  <2>2. d \in aDone' => d \in aDone \/ d \in SqlAlchemy!Overtakes(c)
    BY <1>4, <1>8
  <2>3. d \in aDone => d \in aDone'
    BY <1>4
  <2>4. d \in SqlAlchemy!Overtakes(c) => d \in AResets /\ aPc[d] = "delete" /\ aDialect = "server"
    BY DEF SqlAlchemy!Overtakes
  <2>5. aPc[d] = "delete" /\ aDialect = "server" =>
          /\ aSeen[d].id <= aSaved'.ids
          /\ d \in aDone' <=> aSeen[d].id # aSaved'.row.id
    <3> SUFFICES ASSUME aPc[d] = "delete", aDialect = "server"
                 PROVE  /\ aSeen[d].id <= aSaved'.ids
                        /\ (d \in aDone' <=> aSeen[d].id # aSaved'.row.id)
      OBVIOUS
    <3>1. /\ aSeen[d].id <= aSaved.ids /\ (d \in aDone <=> aSeen[d].id # aSaved.row.id)
          /\ aSeen[d].id # 0 /\ d \in AResets
      BY <2>1 DEF SqlCallFits, SqlAlchemy!WriteCalls
    <3>2. aSeen[d].id \in Nat /\ aSaved.ids \in Nat /\ aSaved'.ids \in Nat /\ aSaved'.row.id \in Nat
      BY <1>0, <1>3 DEF Databases, TapeRows
    <3>3. aSeen[d].id <= aSaved'.ids
      BY <1>3, <3>1, <3>2
    <3>4. d \in SqlAlchemy!Overtakes(c) <=> aSeen[d].id = aSaved.row.id /\ aSaved.row.id # 0
      BY <3>1, <1>8 DEF SqlAlchemy!Overtakes
    <3>5. aSaved.row.id # 0 /\ aSaved'.row.id = aSaved.row.id /\ aDone' = aDone \cup {c}
            => (d \in aDone' <=> aSeen[d].id # aSaved'.row.id)
      BY <3>1, <1>8
    <3>6. aSaved.row.id = 0 => d \in aDone
      BY <3>1
    <3>7. aSaved.row.id = 0 => (d \in aDone' <=> aSeen[d].id # aSaved'.row.id)
      BY <3>1, <3>2, <3>6, <2>3, CommitsDo
    <3>8. aSaved.row.id # 0 => (d \in aDone' <=> aSeen[d].id # aSaved'.row.id)
      BY <3>1, <3>4, <3>5, <1>8, CommitsDo
    <3> QED BY <3>3, <3>7, <3>8
  <2> QED BY <1>1, <2>1, <2>2, <2>3, <2>4, <2>5, Distinct DEF SqlCallFits
<1>9. SqlCallFits(c)'
  BY <1>1, <1>4, <1>5, Distinct DEF SqlCallFits, WritePcs
<1>10. \A s \in ASearches : SearchFits(s)'
  <2>1. CASE /\ aOvertaken' = aOvertaken
             /\ (\/ aSaved'.entries = aSaved.entries
                 \/ \E e \in Items : aSaved'.entries = Append(aSaved.entries, e))
    BY <2>1, <1>1, <1>5, SearchesStay
  <2>2. CASE aOvertaken' = aOvertaken \cup {s \in ASearches : aPc[s] = "match"}
    BY <2>2, <1>1, <1>5 DEF SqlInv, SearchFits
  <2>3. \A m \in BOOLEAN : [id |-> Len(aSaved.entries) + 1, matches |-> m] \in Items
    BY <1>0 DEF Databases, Items
  <2> QED BY <2>1, <2>2, <2>3, CommitsDo
<1> QED BY <1>6, <1>7, <1>8, <1>9, <1>10 DEF SqlInv

\* A search reads a part of the tape, then the entries that match.
LEMMA SearchKeeps ==
  ASSUME SqlInv, NEW s \in ASearches, SqlAlchemy!Reads(s) \/ SqlAlchemy!Answers(s) PROVE SqlInv'
<1>0. /\ aSaved \in Databases /\ DOMAIN aEntries = ASearches
      /\ \A q \in ASearches : \A i \in DOMAIN aEntries[q] : i \in Nat /\ aEntries[q][i] \in Items
      /\ aPc \in [SqlAlchemy!WriteCalls \cup ASearches -> WritePcs \cup {"match", "answered"}]
  BY DEF SqlInv, SqlTypes
<1>1. UNCHANGED <<aDialect, aProc, SqlAlchemy!tapeVars, aSaved, aWork, aHolder, aWriteLock, aSeen,
                  aMatches, aDone, aOvertaken>>
  BY DEF SqlAlchemy!Reads, SqlAlchemy!Answers, SqlAlchemy!tapeVars
<1>2. PICK es, p :
        /\ p \in {"match", "answered"}
        /\ aEntries' = [aEntries EXCEPT ![s] = es] /\ aPc' = [aPc EXCEPT ![s] = p]
        /\ \/ es = aSaved.entries /\ (p = "match" \/ es = <<>>)
           \/ es = SqlAlchemy!Kept(aEntries[s]) /\ aPc[s] = "match" /\ p = "answered"
  <2>1. CASE SqlAlchemy!Reads(s)
    <3>1. aEntries' = [aEntries EXCEPT ![s] = aSaved.entries]
      BY <2>1 DEF SqlAlchemy!Reads
    <3>2. aPc' = [aPc EXCEPT ![s] = IF aSaved.entries = <<>> THEN "answered" ELSE "match"]
      BY <2>1 DEF SqlAlchemy!Reads, SqlAlchemy!Goes
    <3> QED BY <3>1, <3>2
  <2>2. CASE SqlAlchemy!Answers(s)
    <3>1. aEntries' = [aEntries EXCEPT ![s] = SqlAlchemy!Kept(aEntries[s])]
      BY <2>2 DEF SqlAlchemy!Answers
    <3>2. aPc[s] = "match" /\ aPc' = [aPc EXCEPT ![s] = "answered"]
      BY <2>2 DEF SqlAlchemy!Answers, SqlAlchemy!Goes
    <3> QED BY <3>1, <3>2
  <2> QED BY <2>1, <2>2
<1>3. aSaved.entries \in Seq(Items)
  BY <1>0 DEF Databases
<1>4. \A i \in DOMAIN es : i \in Nat /\ es[i] \in Items
  BY <1>0, <1>2, <1>3 DEF SqlAlchemy!Kept
<1>5. /\ \A d \in SqlAlchemy!WriteCalls : aPc'[d] = aPc[d]
      /\ \A q \in ASearches : q # s => aPc'[q] = aPc[q] /\ aEntries'[q] = aEntries[q]
      /\ aPc'[s] = p /\ aEntries'[s] = es
  BY <1>0, <1>2, Distinct
<1>6. SqlTypes'
  <2>1. DOMAIN aEntries' = ASearches
    BY <1>0, <1>2
  <2>2. \A q \in ASearches : \A i \in DOMAIN aEntries'[q] : i \in Nat /\ aEntries'[q][i] \in Items
    BY <1>0, <1>4, <1>5
  <2>3. aPc' \in [SqlAlchemy!WriteCalls \cup ASearches -> WritePcs \cup {"match", "answered"}]
    BY <1>0, <1>2
  <2> QED BY <1>1, <2>1, <2>2, <2>3 DEF SqlInv, SqlTypes
<1>7. /\ Counted(aSaved)' /\ RowsFit(aSaved)' /\ RowsFit(aWork)' /\ (aSaved.ids <= aWork.ids)'
      /\ \A c \in SqlAlchemy!WriteCalls : SqlCallFits(c)'
  BY <1>1, <1>5 DEF SqlInv, Counted, Numbered, RowsFit, SqlCallFits
<1>8. HolderFits'
  <2>1. aHolder \in AAppends => AppendHolds(aHolder)'
    BY <1>1, <1>5, Distinct DEF SqlInv, HolderFits, AppendHolds, Counted, Numbered
  <2>2. aHolder \in AResets => ResetHolds(aHolder)'
    BY <1>1, <1>5, Distinct DEF SqlInv, HolderFits, ResetHolds
  <2> QED BY <1>1, <2>1, <2>2 DEF SqlInv, HolderFits
<1>9. ASSUME NEW q \in ASearches, q # s PROVE SearchFits(q)'
  BY <1>1, <1>5, <1>9 DEF SqlInv, SearchFits
<1>10. SearchFits(s)'
  <2>1. CASE es = aSaved.entries /\ (p = "match" \/ es = <<>>)
    BY <2>1, <1>1, <1>2, <1>3, <1>5 DEF SearchFits
  <2>2. CASE es = SqlAlchemy!Kept(aEntries[s]) /\ aPc[s] = "match" /\ p = "answered"
    <3>1. SUFFICES ASSUME s \notin aOvertaken, NEW i \in DOMAIN es PROVE es[i].matches
      BY <2>2, <1>1, <1>5 DEF SearchFits
    <3>2. /\ i \in DOMAIN aEntries[s] /\ aEntries[s][i].id \in SqlAlchemy!Matched(aSaved)
          /\ es[i] = aEntries[s][i]
      BY <2>2 DEF SqlAlchemy!Kept
    <3>3. i \in 1 .. Len(aSaved.entries) /\ aEntries[s][i] = aSaved.entries[i]
      BY <2>2, <3>1, <3>2 DEF SqlInv, SearchFits
    <3>4. PICK j \in DOMAIN aSaved.entries : aSaved.entries[j].matches
               /\ aSaved.entries[j].id = aSaved.entries[i].id
      BY <3>2, <3>3 DEF SqlAlchemy!Matched
    <3>5. j = i
      BY <1>3, <3>3, <3>4 DEF SqlInv, Counted, Numbered
    <3> QED BY <3>2, <3>3, <3>4, <3>5
  <2> QED BY <1>2, <2>1, <2>2
<1> QED BY <1>6, <1>7, <1>8, <1>9, <1>10 DEF SqlInv

\* The initial states satisfy the invariant,
LEMMA InitSql ==
  ASSUME SqlAlchemy!Init PROVE SqlInv
<1> DEFINE none == [row |-> SqlAlchemy!NoRow, entries |-> <<>>, ids |-> 0]
<1>1. none \in Databases /\ SqlAlchemy!NoRow \in TapeRows
  BY DEF Databases, TapeRows, SqlAlchemy!NoRow
<1>2. aSaved = none /\ aWork = none /\ aHolder = NoCall /\ aDialect \in {"sqlite", "server"}
  BY SqlConstants DEF SqlAlchemy!Init, SqlAlchemy!SqlAlchemyConstants
<1>3. SqlTypes
  BY <1>1, <1>2 DEF SqlAlchemy!Init, SqlTypes, WritePcs
<1>4. Counted(aSaved) /\ RowsFit(aSaved) /\ RowsFit(aWork) /\ aSaved.ids <= aWork.ids
  BY <1>2 DEF Counted, Numbered, RowsFit, SqlAlchemy!NoRow
<1>5. HolderFits
  BY <1>2, Distinct DEF HolderFits
<1>6. \A c \in SqlAlchemy!WriteCalls : SqlCallFits(c)
  BY Distinct DEF SqlAlchemy!Init, SqlCallFits, WritePcs
<1>7. \A s \in ASearches : SearchFits(s)
  BY Distinct DEF SqlAlchemy!Init, SearchFits
<1> QED BY <1>3, <1>4, <1>5, <1>6, <1>7 DEF SqlInv

\* every step keeps it,
LEMMA NextKeepsSql ==
  ASSUME SqlInv, [SqlAlchemy!Next]_SqlAlchemy!vars PROVE SqlInv'
<1>1. CASE UNCHANGED SqlAlchemy!vars
  <2>1. UNCHANGED <<aDialect, aProc, aSaved, aWork, aHolder, aWriteLock, aPc, aSeen, aMatches,
                    aDone, aEntries, aOvertaken>>
    BY <1>1 DEF SqlAlchemy!vars, SqlAlchemy!tapeVars
  <2>2. /\ SqlTypes' /\ Counted(aSaved)' /\ RowsFit(aSaved)' /\ RowsFit(aWork)'
        /\ (aSaved.ids <= aWork.ids)'
    BY <2>1 DEF SqlInv, SqlTypes, Counted, Numbered, RowsFit
  <2>3. HolderFits'
    BY <2>1 DEF SqlInv, HolderFits, AppendHolds, ResetHolds, Counted, Numbered
  <2>4. \A c \in SqlAlchemy!WriteCalls : SqlCallFits(c)'
    BY <2>1 DEF SqlInv, SqlCallFits
  <2>5. \A s \in ASearches : SearchFits(s)'
    BY <2>1 DEF SqlInv, SearchFits
  <2> QED BY <2>2, <2>3, <2>4, <2>5 DEF SqlInv
<1> QED
  BY <1>1, SqlStartsKeeps, FindsKeeps, CreatesKeeps, IncrementsKeeps, RereadsKeeps, InsertsKeeps,
     SqlDeletesKeeps, CommitsKeeps, RollsBackKeeps, SearchKeeps
  DEF SqlAlchemy!Next

\* and so it holds always:
LEMMA SqlInvHolds == SqlAlchemy!Spec => []SqlInv
  BY InitSql, NextKeepsSql, PTL DEF SqlAlchemy!Spec

\* the counter of a tape counts its entries,
LEMMA SqlCounts == SqlAlchemy!Spec => []SqlAlchemy!CounterCountsEntries
<1>1. SqlInv => SqlAlchemy!CounterCountsEntries
  BY DEF SqlInv, SqlTypes, Databases, Counted, Numbered, SqlAlchemy!CounterCountsEntries
<1> QED BY <1>1, SqlInvHolds, PTL

\* and what a search returns matches.
LEMMA SqlMatches == SqlAlchemy!Spec => []SqlAlchemy!SearchesMatch
<1>1. SqlInv => SqlAlchemy!SearchesMatch
  BY DEF SqlInv, SearchFits, SqlAlchemy!SearchesMatch
<1> QED BY <1>1, SqlInvHolds, PTL

\* At first the log is empty.
LEMMA SqlInitLogs ==
  ASSUME SqlAlchemy!Init PROVE SqlAlchemy!Log!Init
  BY DEF SqlAlchemy!Init, SqlAlchemy!Log!Init, SqlAlchemy!WriteCalls

\* A step of which the log sees nothing.
LEMMA SqlLogUnseen ==
  ASSUME SqlInv, aSaved'.entries = aSaved.entries, aDone' = aDone,
         \A c \in SqlAlchemy!WriteCalls :
           aPc'[c] = "failed" /\ c \notin aDone <=> aPc[c] = "failed" /\ c \notin aDone
  PROVE  UNCHANGED SqlAlchemy!Log!vars
  BY DEF SqlAlchemy!Log!vars

\* A commit is a reset, of calls that are pending,
LEMMA LogReset ==
  ASSUME SqlInv, NEW cs \in SUBSET SqlAlchemy!WriteCalls, cs # {},
         \A c \in cs : c \notin aDone /\ aPc[c] # "failed",
         aSaved'.entries = <<>>, aDone' = aDone \cup cs,
         \A d \in SqlAlchemy!WriteCalls \ cs : aPc'[d] = "failed" <=> aPc[d] = "failed"
  PROVE  SqlAlchemy!Log!Reset(cs, "tape")
<1>1. {aSaved'.entries[i] : i \in DOMAIN aSaved'.entries} = {}
  OBVIOUS
<1> QED BY <1>1 DEF SqlAlchemy!Log!Reset

\* or the append of the next entry,
LEMMA LogAppend ==
  ASSUME SqlInv, NEW c \in SqlAlchemy!WriteCalls, c \notin aDone, aPc[c] # "failed",
         NEW m \in BOOLEAN,
         aSaved'.entries = Append(aSaved.entries, [id |-> Len(aSaved.entries) + 1, matches |-> m]),
         aDone' = aDone \cup {c}, \A d \in SqlAlchemy!WriteCalls : d # c
           => (aPc'[d] = "failed" <=> aPc[d] = "failed")
  PROVE  SqlAlchemy!Log!Appended(c, "tape")
<1> DEFINE new == [id |-> Len(aSaved.entries) + 1, matches |-> m]
           es == {aSaved.entries[i] : i \in DOMAIN aSaved.entries}
           es1 == {aSaved'.entries[i] : i \in DOMAIN aSaved'.entries}
<1>1. aSaved.entries \in Seq(Items) /\ new \in Items /\ Numbered(aSaved.entries)
  BY DEF SqlInv, SqlTypes, Databases, Items, Counted
<1>2. new.id = Len(aSaved.entries) + 1
  OBVIOUS
<1>3. aSaved'.entries = Append(aSaved.entries, new)
  OBVIOUS
<1>4. es1 = es \cup {new}
  <2> HIDE DEF new
  <2>1. /\ DOMAIN aSaved'.entries = 1 .. Len(aSaved.entries) + 1
        /\ aSaved'.entries[Len(aSaved.entries) + 1] = new
        /\ \A i \in 1 .. Len(aSaved.entries) : aSaved'.entries[i] = aSaved.entries[i]
        /\ DOMAIN aSaved.entries = 1 .. Len(aSaved.entries) /\ Len(aSaved.entries) \in Nat
    BY <1>1, <1>3
  <2> QED BY <2>1
<1>5. \A e \in es : e.id < new.id
  BY <1>1, <1>2 DEF Numbered
<1>6. /\ [t \in {"tape"} |-> es1] = [[t \in {"tape"} |-> es] EXCEPT !["tape"] = @ \cup {new}]
      /\ [t \in {"tape"} |-> es1]["tape"] = es1 /\ [t \in {"tape"} |-> es]["tape"] = es
  BY <1>4, Zenon
<1>7. SqlAlchemy!Log!Becomes(c, "done")
  BY DEF SqlAlchemy!Log!Becomes
<1>8. new \in es1
  BY <1>4
<1> HIDE DEF new
<1> QED BY <1>5, <1>6, <1>7, <1>8 DEF SqlAlchemy!Log!Appended

\* and a call that is rolled back has failed.
LEMMA LogFailed ==
  ASSUME SqlInv, NEW c \in SqlAlchemy!WriteCalls, c \notin aDone, aPc[c] # "failed",
         aPc'[c] = "failed",
         aSaved' = aSaved, aDone' = aDone, \A d \in SqlAlchemy!WriteCalls : d # c
           => aPc'[d] = aPc[d]
  PROVE  SqlAlchemy!Log!Failed({c})
  BY DEF SqlAlchemy!Log!Failed

\* Every step is a step of the log, or none.
LEMMA SqlStepLogs ==
  ASSUME SqlInv, [SqlAlchemy!Next]_SqlAlchemy!vars PROVE [SqlAlchemy!Log!Next]_SqlAlchemy!Log!vars
<1>0. /\ aSaved \in Databases /\ aSaved.entries \in Seq(Items)
      /\ aPc \in [SqlAlchemy!WriteCalls \cup ASearches -> WritePcs \cup {"match", "answered"}]
  BY DEF SqlInv, SqlTypes, Databases
<1>1. CASE UNCHANGED SqlAlchemy!vars
  BY <1>1, SqlLogUnseen DEF SqlAlchemy!vars, SqlAlchemy!tapeVars
<1>2. ASSUME NEW c \in SqlAlchemy!WriteCalls, SqlAlchemy!Starts(c) \/ SqlAlchemy!Rereads(c)
        \/ SqlAlchemy!Increments(c) \/ SqlAlchemy!Inserts(c) \/ SqlAlchemy!Creates(c)
        \/ SqlAlchemy!Deletes(c)
      PROVE  UNCHANGED SqlAlchemy!Log!vars
  <2>1. aDone' = aDone
    BY <1>2
    DEF SqlAlchemy!Starts, SqlAlchemy!Rereads, SqlAlchemy!Increments, SqlAlchemy!Inserts,
        SqlAlchemy!Creates, SqlAlchemy!Deletes
  <2>2. PICK p \in WritePcs \ {"failed"} : aPc' = [aPc EXCEPT ![c] = p] /\ aPc[c] # "failed"
    BY <1>2
    DEF SqlAlchemy!Starts, SqlAlchemy!Rereads, SqlAlchemy!Increments, SqlAlchemy!Inserts,
        SqlAlchemy!Creates, SqlAlchemy!Deletes, SqlAlchemy!Goes, WritePcs
  <2>3. \A d \in SqlAlchemy!WriteCalls : aPc'[d] = "failed" <=> aPc[d] = "failed"
    BY <1>0, <2>2
  <2>4. aSaved'.entries = aSaved.entries
    <3>1. CASE SqlAlchemy!Creates(c)
      <4>1. c \in AAppends /\ aPc[c] = "create"
        BY <3>1 DEF SqlInv, SqlCallFits, SqlAlchemy!WriteCalls, SqlAlchemy!Creates
      <4>2. SqlAlchemy!View(c).entries = aSaved.entries /\ SqlAlchemy!View(c) \in Databases
        BY <4>1, AppendSees
      <4> QED
        BY <3>1, <4>2 DEF SqlAlchemy!Creates, SqlAlchemy!Writes, SqlAlchemy!tapeVars, Databases
    <3> QED
      BY <1>2, <3>1
      DEF SqlAlchemy!Starts, SqlAlchemy!Rereads, SqlAlchemy!Increments, SqlAlchemy!Inserts,
          SqlAlchemy!Deletes, SqlAlchemy!Writes, SqlAlchemy!tapeVars
  <2> QED BY <2>1, <2>3, <2>4, SqlLogUnseen
<1>3. ASSUME NEW s \in ASearches, SqlAlchemy!Reads(s) \/ SqlAlchemy!Answers(s)
      PROVE  UNCHANGED SqlAlchemy!Log!vars
  <2>1. aSaved' = aSaved /\ aDone' = aDone
    BY <1>3 DEF SqlAlchemy!Reads, SqlAlchemy!Answers, SqlAlchemy!tapeVars
  <2>2. \A d \in SqlAlchemy!WriteCalls : aPc'[d] = aPc[d]
    BY <1>0, <1>3, Distinct DEF SqlAlchemy!Reads, SqlAlchemy!Answers, SqlAlchemy!Goes
  <2> QED BY <2>1, <2>2, SqlLogUnseen

<1>4. ASSUME NEW c \in SqlAlchemy!WriteCalls, SqlAlchemy!Finds(c)
      PROVE  [SqlAlchemy!Log!Next]_SqlAlchemy!Log!vars
  <2>1. /\ aSaved' = aSaved /\ aPc[c] = "find" /\ c \notin aDone
        /\ \E p \in WritePcs \ {"failed"} : aPc' = [aPc EXCEPT ![c] = p]
        /\ aDone' = IF c \in AResets /\ SqlAlchemy!View(c).row.id = 0 THEN aDone \cup {c} ELSE aDone
    BY <1>4
    DEF SqlAlchemy!Finds, SqlAlchemy!Writes, SqlAlchemy!Goes, WritePcs, SqlAlchemy!tapeVars,
        SqlInv, SqlCallFits
  <2>2. \A d \in SqlAlchemy!WriteCalls : aPc'[d] = "failed" <=> aPc[d] = "failed"
    BY <1>0, <2>1
  <2>3. CASE aDone' = aDone
    BY <2>1, <2>2, <2>3, SqlLogUnseen
  <2>4. CASE c \in AResets /\ SqlAlchemy!View(c).row.id = 0 /\ aDone' = aDone \cup {c}
    <3>1. aHolder # c
      BY <2>1, <2>4, Distinct DEF SqlInv, HolderFits, ResetHolds
    <3>2. aSaved'.entries = <<>>
      BY <2>1, <2>4, <3>1 DEF SqlAlchemy!View, SqlInv, Counted
    <3>3. SqlAlchemy!Log!Reset({c}, "tape")
      BY <2>1, <2>2, <2>4, <3>2, LogReset
    <3> QED BY <3>3 DEF SqlAlchemy!Log!Next
  <2> QED BY <2>1, <2>3, <2>4
<1>5. ASSUME NEW c \in SqlAlchemy!WriteCalls, SqlAlchemy!RollsBack(c)
      PROVE  [SqlAlchemy!Log!Next]_SqlAlchemy!Log!vars
  <2>1. /\ aSaved' = aSaved /\ aDone' = aDone /\ aPc[c] \notin {"failed", "ok", "idle"}
        /\ aPc' = [aPc EXCEPT ![c] = "failed"]
    BY <1>5 DEF SqlAlchemy!RollsBack, SqlAlchemy!Leaves, SqlAlchemy!Goes
  <2>2. aPc'[c] = "failed" /\ \A d \in SqlAlchemy!WriteCalls : d # c => aPc'[d] = aPc[d]
    BY <1>0, <2>1
  <2>3. CASE c \in aDone
    BY <2>1, <2>2, <2>3, SqlLogUnseen
  <2>4. CASE c \notin aDone
    <3>1. SqlAlchemy!Log!Failed({c})
      BY <2>1, <2>2, <2>4, LogFailed
    <3> QED BY <3>1 DEF SqlAlchemy!Log!Next
  <2> QED BY <2>3, <2>4
<1>6. ASSUME NEW c \in SqlAlchemy!WriteCalls, SqlAlchemy!Commits(c)
      PROVE  [SqlAlchemy!Log!Next]_SqlAlchemy!Log!vars
  <2>1. aPc[c] = "commit" /\ aPc' = [aPc EXCEPT ![c] = "ok"]
    BY <1>6 DEF SqlAlchemy!Commits, SqlAlchemy!Leaves, SqlAlchemy!Goes
  <2>2. \A d \in SqlAlchemy!WriteCalls : aPc'[d] = "failed" <=> aPc[d] = "failed"
    BY <1>0, <2>1
  <2>3. ASSUME c \in AAppends, c \notin aDone, aDone' = aDone \cup {c}, NEW m \in BOOLEAN,
               aSaved'.entries =
                 Append(aSaved.entries, [id |-> Len(aSaved.entries) + 1, matches |-> m])
        PROVE  [SqlAlchemy!Log!Next]_SqlAlchemy!Log!vars
    <3>1. SqlAlchemy!Log!Appended(c, "tape")
      BY <2>1, <2>2, <2>3, LogAppend
    <3> QED BY <3>1 DEF SqlAlchemy!Log!Next
  <2>4. CASE /\ aDone' = aDone \cup {c} /\ aSaved'.entries = aSaved.entries
             /\ (c \in aDone \/ aSaved.entries = <<>>)
    <3>1. CASE c \in aDone
      BY <2>2, <2>4, <3>1, SqlLogUnseen
    <3>2. CASE c \notin aDone
      <4>1. aSaved'.entries = <<>> /\ aPc[c] # "failed"
        BY <2>1, <2>4, <3>2
      <4>2. SqlAlchemy!Log!Reset({c}, "tape")
        BY <2>2, <2>4, <3>2, <4>1, LogReset
      <4> QED BY <4>2 DEF SqlAlchemy!Log!Next
    <3> QED BY <3>1, <3>2
  <2>5. CASE /\ c \notin aDone /\ aSaved'.entries = <<>>
             /\ aDone' = aDone \cup {c} \cup SqlAlchemy!Overtakes(c)
    <3> DEFINE cs == ({c} \cup SqlAlchemy!Overtakes(c)) \ aDone
    <3>1. /\ cs \in SUBSET SqlAlchemy!WriteCalls /\ cs # {} /\ aDone' = aDone \cup cs
          /\ \A d \in cs : d \notin aDone /\ aPc[d] # "failed"
      BY <2>1, <2>5, Distinct DEF SqlAlchemy!Overtakes
    <3> HIDE DEF cs
    <3>2. SqlAlchemy!Log!Reset(cs, "tape")
      BY <2>2, <2>5, <3>1, LogReset
    <3> QED BY <3>1, <3>2 DEF SqlAlchemy!Log!Next
  <2> QED BY <1>6, <2>3, <2>4, <2>5, CommitsDo
<1> QED BY <1>1, <1>2, <1>3, <1>4, <1>5, <1>6 DEF SqlAlchemy!Next

\* Hence a SQLAlchemy store is a log.
LEMMA SqlLogs == SqlAlchemy!Spec => SqlAlchemy!ImplementsTapeLog
<1>1. SqlAlchemy!Init => SqlAlchemy!Log!Init
  BY SqlInitLogs
<1>2. SqlInv /\ [SqlAlchemy!Next]_SqlAlchemy!vars => [SqlAlchemy!Log!Next]_SqlAlchemy!Log!vars
  BY SqlStepLogs
<1> QED
  BY <1>1, <1>2, SqlInvHolds, PTL
  DEF SqlAlchemy!Spec, SqlAlchemy!ImplementsTapeLog, SqlAlchemy!Log!Spec

-----------------------------------------------------------------------------
(***************************************************************************)
(* SQLite                                                                  *)
(***************************************************************************)

EntryRows == [id : Nat, tape : Nat, name : SNames \cup {Plain}]
IndexRows == [row : Nat, tape : Nat, entry : Nat]
VectorRows == [row : Nat, entry : Nat]
Bases ==
  [tapes : [STapes -> Nat], entries : SUBSET EntryRows, lastId : Nat,
   index : SUBSET IndexRows, vectors : SUBSET VectorRows, hasTable : BOOLEAN]

Bounded(s) == \E b \in Nat : \A k \in s : k <= b

\* Rows refer to rows that are there, and are told apart.
TapesApart(base) ==
  \A s, t \in STapes : base.tapes[s] = base.tapes[t] /\ base.tapes[s] # 0 => s = t
EntriesPlaced(base) ==
  \A e \in base.entries :
    e.id \in 1 .. base.lastId /\ e.tape # 0 /\ \E t \in STapes : base.tapes[t] = e.tape
IndexPlaced(base) == \A x \in base.index : \E e \in base.entries : e.id = x.entry /\ e.tape = x.tape
IndexApart(base) == \A x, y \in base.index : x.row = y.row => x = y
RowsBounded(base) == Bounded({base.tapes[t] : t \in STapes}) /\ Bounded({x.row : x \in base.index})
TableKeeps(base) == base.hasTable = FALSE => base.index = {} /\ base.vectors = {}
Sound(base) ==
  /\ base \in Bases /\ TapesApart(base) /\ EntriesPlaced(base)
  /\ IndexPlaced(base) /\ IndexApart(base) /\ RowsBounded(base) /\ TableKeeps(base)

VectorsOf(index) == {[row |-> x.row, entry |-> x.entry] : x \in index}
VectorsOfOthers(base, id) == VectorsOf({x \in base.index : x.tape # id})
Fit(base) == base.vectors = VectorsOf(base.index)
LogOf(base) == [t \in STapes |-> Sqlite!EntriesOf(base, t)]

StatementPcs ==
  {"connect", "begin", "tape", "entry", "vectors", "delete", "commit", "close", "unindexed",
   "embed", "table", "index", "fetch", "nearest", "missing"}
LitePcs == StatementPcs \cup Sqlite!Ended \cup {"idle", "waiting"}

\* Which calls run which statements.
NamesAt(p) ==
  CASE p \in {"tape", "entry"} -> {"append"}
    [] p \in {"vectors", "delete"} -> {"reset"}
    [] p \in {"unindexed", "embed", "table", "index", "nearest"} -> {"search"}
    [] p \in {"begin", "commit"} -> {"append", "reset", "search"}
    [] p = "fetch" -> {"fetch"}
    [] p = "missing" -> {"fetch", "search"}
    [] p = "close" -> {"close"}
    [] p = "connect" -> {"append", "reset", "fetch", "search"}

\* What holds of a call with operation o that stands at p: what its transaction has written so far.
At(c, o, p) ==
  /\ p \in StatementPcs => o \in Sqlite!Ops /\ o.name \in NamesAt(p)
  /\ p \in StatementPcs \ {"connect", "close"} => sConn
  /\ p \in Sqlite!Inside \cup {"commit"} => sInTx
  /\ p \in {"embed", "begin", "table", "index"} /\ o.name = "search" =>
       /\ sTodo[c] # {}
       /\ \A i \in sTodo[c] : \E e \in sWork.entries : e.id = i /\ e.tape = Sqlite!TapeId(o.tape)
  /\ p \in {"tape", "vectors", "table"} => sWork = sDisk
  /\ p \in {"entry", "delete", "index"} => LogOf(sWork) = LogOf(sDisk)
  /\ p = "entry" => Sqlite!TapeId(o.tape) # 0
  /\ p = "index" => sWork.hasTable = TRUE
  /\ p = "delete" => sWork.vectors = VectorsOfOthers(sWork, Sqlite!TapeId(o.tape))
  /\ p \in {"entry", "index", "commit"} => Fit(sWork)
  /\ p = "commit" /\ o.name = "append" =>
       \E new \in EntryRows : /\ \A e \in Sqlite!EntriesOf(sDisk, o.tape) : e.id < new.id
                              /\ LogOf(sWork) = [LogOf(sDisk) EXCEPT ![o.tape] = @ \cup {new}]
  /\ p = "commit" /\ o.name = "reset" => LogOf(sWork) = [LogOf(sDisk) EXCEPT ![o.tape] = {}]
  /\ p = "commit" /\ o.name = "search" => LogOf(sWork) = LogOf(sDisk)

Stored ==
  /\ sDisk \in Bases /\ sWork \in Bases /\ sInTx \in BOOLEAN /\ sConn \in BOOLEAN
  /\ sDims \in BOOLEAN
  /\ sTodo \in [SCalls -> SUBSET Nat]
  /\ Sound(sDisk) /\ Fit(sDisk) /\ Sound(sWork)
  /\ (sInTx => sConn) /\ (~sInTx => sWork = sDisk)
  /\ sConn /\ ~sDims => sDisk.hasTable = FALSE /\ sWork.hasTable = FALSE

CallTypes ==
  /\ sLock \in SCalls \cup {NoCall} /\ sPc \in [SCalls -> LitePcs]
  /\ sOp \in [SCalls -> Sqlite!Ops \cup {Sqlite!NoOp}] /\ sCommitted \subseteq SCalls

LiteCallFits(c) ==
  /\ sLock = c <=> sPc[c] \in StatementPcs
  /\ sPc[c] = "waiting" => sOp[c] \in Sqlite!Ops
  /\ c \in sCommitted => sPc[c] \in {"ok", "failed"}
  /\ sPc[c] = "ok" => c \in sCommitted
  /\ At(c, sOp[c], sPc[c])

LiteInv == Stored /\ CallTypes /\ \A c \in SCalls : LiteCallFits(c)

\* The order of the natural numbers is well founded,
LEMMA NatOrder == \E R : IsWellFoundedOn(R, Nat) /\ \A x, y \in Nat : x < y => <<x, y>> \in R
<1>1. IsWellFoundedOn(OpToRel(<, Nat), Nat)
  BY NatLessThanWellFounded
<1>2. \A x, y \in Nat : x < y => <<x, y>> \in OpToRel(<, Nat)
  BY DEF OpToRel
<1> QED BY <1>1, <1>2, Zenon

\* so that a set of them has a least element,
LEMMA Least ==
  ASSUME NEW S, S \subseteq Nat, S # {} PROVE \E m \in S : \A k \in S : m <= k
<1>1. PICK R : IsWellFoundedOn(R, Nat) /\ \A x, y \in Nat : x < y => <<x, y>> \in R
  BY NatOrder
<1>2. \A T \in SUBSET Nat : T # {} => \E x \in T : \A y \in T : ~ (<<y, x>> \in R)
  <2>1. IsWellFoundedOn(R, Nat)
    BY <1>1
  <2> TAKE T \in SUBSET Nat
  <2> HAVE T # {}
  <2>2. T \subseteq Nat
    OBVIOUS
  <2> QED BY <2>1, <2>2, WFMin
<1>3. PICK x \in S : \A y \in S : ~ (<<y, x>> \in R)
  BY <1>2
<1>4. \A y \in S : ~(y < x)
  BY <1>1, <1>3
<1> QED BY <1>3, <1>4

\* and a bounded one a greatest.
LEMMA Greatest ==
  ASSUME NEW s, s \subseteq Nat, s # {}, Bounded(s)
  PROVE  \E n \in s : \A k \in s : k <= n
<1> DEFINE bounds == {b \in Nat : \A k \in s : k <= b}
<1>1. PICK m \in bounds : \A b \in bounds : m <= b
  <2>1. bounds # {} /\ bounds \subseteq Nat
    BY DEF Bounded
  <2> HIDE DEF bounds
  <2> QED BY <2>1, Least
<1>2. m \in s
  <2> SUFFICES ASSUME m \notin s PROVE FALSE
    OBVIOUS
  <2>1. m \in Nat /\ \A k \in s : k \in Nat /\ k < m
    BY <1>1
  <2>2. PICK j \in s : TRUE
    OBVIOUS
  <2>3. m # 0 /\ m - 1 \in Nat
    BY <2>1, <2>2
  <2>4. \A k \in s : k <= m - 1
    BY <2>1
  <2>5. ~(m <= m - 1) /\ m - 1 \in bounds
    BY <2>1, <2>3, <2>4
  <2> QED BY <1>1, <2>5
<1> QED BY <1>1, <1>2

\* The row that is given next is a new one.
LEMMA FreshRow ==
  ASSUME NEW s, s \subseteq Nat, Bounded(s)
  PROVE  /\ Sqlite!NextRow(s) \in Nat /\ Sqlite!NextRow(s) # 0 /\ Sqlite!NextRow(s) \notin s
         /\ \A k \in s : k < Sqlite!NextRow(s)
<1>1. CASE s = {}
  BY <1>1 DEF Sqlite!NextRow
<1>2. CASE s # {}
  <2> DEFINE n == CHOOSE n \in s : \A k \in s : k <= n
  <2>1. n \in s /\ \A k \in s : k <= n
    BY <1>2, Greatest
  <2>2. Sqlite!NextRow(s) = 1 + n
    BY <1>2 DEF Sqlite!NextRow
  <2> HIDE DEF n
  <2> QED BY <2>1, <2>2
<1> QED BY <1>1, <1>2

\* A bounded set with one more number is bounded.
LEMMA MoreBounded ==
  ASSUME NEW s, s \subseteq Nat, Bounded(s), NEW n \in Nat, NEW r, r \subseteq s \cup {n}
  PROVE  Bounded(r)
<1>1. PICK b \in Nat : \A k \in s : k <= b
  BY DEF Bounded
<1>2. \A k \in r : k <= b + n
  BY <1>1
<1> QED BY <1>1, <1>2 DEF Bounded

\* The kinds of calls there are.
LEMMA NamesKnown == \A o \in Sqlite!Ops :
  /\ o.name \in {"append", "reset", "fetch", "search", "close"}
  /\ o.name # "close" => o.tape \in STapes /\ o.entry \in SNames \cup {Plain}
  BY DEF Sqlite!Ops

\* One call runs at a time.
LEMMA CallMoves ==
  ASSUME LiteInv, NEW c \in SCalls, sPc[c] \in StatementPcs, NEW o, o = sOp[c],
         NEW p \in StatementPcs \cup Sqlite!Ended, Sqlite!Goes(c, p), Stored',
         sCommitted' \in {sCommitted, sCommitted \cup {c}}, c \in sCommitted'
           => p \in {"ok", "failed"},
         p = "ok" => c \in sCommitted', At(c, o, p)'
  PROVE  LiteInv'
<1>1. /\ sLock = c /\ CallTypes /\ LiteCallFits(c) /\ c # NoCall
  BY SqlConstants DEF LiteInv, LiteCallFits, Sqlite!SqliteConstants
<1>2. /\ sPc' = [sPc EXCEPT ![c] = p] /\ sLock' = (IF p \in Sqlite!Ended THEN NoCall ELSE c)
      /\ sOp' = IF p \in Sqlite!Ended THEN [sOp EXCEPT ![c] = Sqlite!NoOp] ELSE sOp
  BY <1>1 DEF Sqlite!Goes
<1>3. CallTypes'
  BY <1>1, <1>2 DEF CallTypes, LitePcs
<1>4. StatementPcs \cap Sqlite!Ended = {}
  BY DEF StatementPcs, Sqlite!Ended
<1>5. LiteCallFits(c)'
  <2>1. sPc'[c] = p
    BY <1>1, <1>2 DEF CallTypes
  <2>2. sLock' = c <=> p \in StatementPcs
    BY <1>1, <1>2, <1>4
  <2>3. p # "waiting" /\ c \in sCommitted' => p \in {"ok", "failed"}
    BY DEF StatementPcs, Sqlite!Ended
  <2>4. CASE p \in Sqlite!Ended
    <3>1. sOp'[c] = Sqlite!NoOp /\ p \notin StatementPcs
      BY <2>4, <1>1, <1>2, <1>4 DEF CallTypes
    <3> QED
      BY <2>1, <2>2, <2>3, <2>4, <3>1
      DEF LiteCallFits, At, StatementPcs, Sqlite!Inside, Sqlite!Ended
  <2>5. CASE p \in StatementPcs
    <3>1. sOp'[c] = o
      BY <2>5, <1>2, <1>4
    <3> QED BY <2>1, <2>2, <2>3, <3>1 DEF LiteCallFits, StatementPcs, Sqlite!Ended
  <2> QED BY <2>4, <2>5
<1>6. ASSUME NEW d \in SCalls, d # c PROVE LiteCallFits(d)'
  <2>1. sPc'[d] = sPc[d] /\ sOp'[d] = sOp[d]
    BY <1>1, <1>2, <1>6 DEF CallTypes
  <2>2. sPc[d] \notin StatementPcs /\ LiteCallFits(d)
    BY <1>1, <1>6 DEF LiteInv, LiteCallFits
  <2>3. sLock' # d /\ (d \in sCommitted' <=> d \in sCommitted)
    BY <1>1, <1>2, <1>6, SqlConstants DEF Sqlite!SqliteConstants
  <2>4. At(d, sOp[d], sPc[d])'
    BY <2>1, <2>2 DEF At, StatementPcs, Sqlite!Inside
  <2> QED BY <2>1, <2>2, <2>3, <2>4 DEF LiteCallFits
<1> QED BY <1>3, <1>5, <1>6 DEF LiteInv

\* A database with the named fields replaced.
LEMMA BaseFields ==
  ASSUME NEW base \in Bases, NEW ts \in [STapes -> Nat], NEW es \in SUBSET EntryRows,
         NEW n \in Nat, NEW xs \in SUBSET IndexRows, NEW vs \in SUBSET VectorRows,
         NEW h \in BOOLEAN, NEW next,
         next = [tapes |-> ts, entries |-> es, lastId |-> n, index |-> xs, vectors |-> vs,
                 hasTable |-> h]
  PROVE  next \in Bases
  BY DEF Bases

\* A database after a statement.
WithTape(base, t) == [base EXCEPT !.tapes[t] = Sqlite!NextRow({base.tapes[s] : s \in STapes})]
WithEntry(base, new) == [base EXCEPT !.lastId = @ + 1, !.entries = @ \cup {new}]
WithoutVectors(base, id) ==
  [base EXCEPT !.vectors = {v \in @ :
      v.row \notin {x.row : x \in {y \in base.index : y.tape = id}}}]
WithoutTape(base, t, id) ==
  [base EXCEPT !.tapes[t] = 0, !.entries = {e \in @ : e.tape # id},
               !.index = {x \in @ : x.tape # id}]
WithVector(base, row, id, i) ==
  [base EXCEPT !.index = @ \cup {[row |-> row, tape |-> id, entry |-> i]},
               !.vectors = @ \cup {[row |-> row, entry |-> i]}]

\* _upsert_tape_id gives a tape a row of its own.
LEMMA TapeInserted ==
  ASSUME NEW base, Sound(base), NEW t \in STapes, base.tapes[t] = 0,
         NEW next, next = WithTape(base, t)
  PROVE  /\ Sound(next) /\ LogOf(next) = LogOf(base) /\ next.tapes[t] # 0
         /\ next.index = base.index /\ next.vectors = base.vectors
         /\ next.hasTable = base.hasTable
<1> DEFINE ids == {base.tapes[s] : s \in STapes}
           n == Sqlite!NextRow(ids)
<1>1. base \in Bases /\ base.tapes \in [STapes -> Nat]
  BY DEF Sound, Bases
<1>2. ids \subseteq Nat /\ Bounded(ids)
  BY <1>1 DEF Sound, RowsBounded
<1> HIDE DEF ids
<1>3. n \in Nat /\ n # 0 /\ n \notin ids
  BY <1>2, FreshRow
<1>4. /\ next.tapes = [base.tapes EXCEPT ![t] = n] /\ next.entries = base.entries
      /\ next.lastId = base.lastId /\ next.index = base.index
      /\ next.vectors = base.vectors /\ next.hasTable = base.hasTable
  BY <1>1 DEF ids, Bases, WithTape
<1> HIDE DEF n
<1>5. /\ next.tapes \in [STapes -> Nat] /\ next.tapes[t] = n
      /\ \A s \in STapes : s # t => next.tapes[s] = base.tapes[s]
  BY <1>1, <1>3, <1>4
<1>6. next \in Bases
  <2>1. next = [base EXCEPT !.tapes = [@ EXCEPT ![t] = n]]
    BY <1>1 DEF n, ids, Bases, WithTape
  <2> QED BY <2>1, <1>1, <1>3, <1>5 DEF Bases
<1>7. \A s \in STapes : base.tapes[s] \in ids
  BY DEF ids
<1>8. \A s, u \in STapes : next.tapes[s] = next.tapes[u] /\ next.tapes[s] # 0 => s = u
  BY <1>3, <1>5, <1>7 DEF Sound, TapesApart
<1>9. \A e \in base.entries : \E s \in STapes :
        s # t /\ base.tapes[s] = e.tape /\ next.tapes[s] = e.tape
  BY <1>3, <1>5, <1>7 DEF Sound, EntriesPlaced
<1>10. Bounded({next.tapes[s] : s \in STapes})
  <2>1. {next.tapes[s] : s \in STapes} \subseteq ids \cup {n}
    BY <1>5, <1>7
  <2> QED BY <2>1, <1>2, <1>3, MoreBounded
<1>11. Sound(next)
  <2>1. TapesApart(next)
    BY <1>8 DEF TapesApart
  <2>2. EntriesPlaced(next)
    BY <1>4, <1>9 DEF Sound, EntriesPlaced
  <2>3. IndexPlaced(next) /\ IndexApart(next) /\ TableKeeps(next)
    BY <1>4 DEF Sound, IndexPlaced, IndexApart, TableKeeps
  <2>4. RowsBounded(next)
    BY <1>4, <1>10 DEF Sound, RowsBounded
  <2> QED BY <1>6, <2>1, <2>2, <2>3, <2>4 DEF Sound
<1>12. LogOf(next) = LogOf(base)
  <2>1. ASSUME NEW s \in STapes PROVE Sqlite!EntriesOf(next, s) = Sqlite!EntriesOf(base, s)
    <3>1. CASE s = t
      <4>1. \A e \in base.entries : e.tape # n /\ e.tape # 0
        BY <1>3, <1>7, <1>9 DEF Sound, EntriesPlaced
      <4>2. Sqlite!EntriesOf(next, t) = {e \in base.entries : e.tape = n}
        BY <1>4, <1>5 DEF Sqlite!EntriesOf
      <4>3. Sqlite!EntriesOf(base, t) = {e \in base.entries : e.tape = 0}
        BY DEF Sqlite!EntriesOf
      <4> QED BY <3>1, <4>1, <4>2, <4>3
    <3>2. CASE s # t
      BY <3>2, <1>4, <1>5 DEF Sqlite!EntriesOf
    <3> QED BY <3>1, <3>2
  <2> QED BY <2>1 DEF LogOf
<1> QED BY <1>3, <1>4, <1>5, <1>11, <1>12

\* _append_sync numbers an entry after all there have been.
LEMMA EntryInserted ==
  ASSUME NEW base, Sound(base), NEW t \in STapes, base.tapes[t] # 0,
         NEW new \in EntryRows, new.id = base.lastId + 1, new.tape = base.tapes[t],
         NEW next, next = WithEntry(base, new)
  PROVE  /\ Sound(next) /\ new \in EntryRows
         /\ LogOf(next) = [LogOf(base) EXCEPT ![t] = @ \cup {new}]
         /\ \A e \in Sqlite!EntriesOf(base, t) : e.id < new.id
         /\ next.index = base.index /\ next.vectors = base.vectors
         /\ next.hasTable = base.hasTable
<1>1. /\ base \in Bases /\ base.tapes \in [STapes -> Nat] /\ base.lastId \in Nat
      /\ base.entries \subseteq EntryRows
  BY DEF Sound, Bases
<1>2. new \in EntryRows
  BY <1>1 DEF EntryRows
<1>3. /\ next.tapes = base.tapes /\ next.entries = base.entries \cup {new}
      /\ next.lastId = base.lastId + 1 /\ next.index = base.index
      /\ next.vectors = base.vectors /\ next.hasTable = base.hasTable
  BY <1>1 DEF Bases, WithEntry
<1>4. next \in Bases
  <2>1. base.entries \cup {new} \in SUBSET EntryRows /\ base.lastId + 1 \in Nat
    BY <1>1, <1>2
  <2> QED BY <2>1, <1>1 DEF Bases, WithEntry
<1>5. \A e \in base.entries : e.id \in 1 .. base.lastId /\ e.id \in Nat
  BY <1>1 DEF Sound, EntriesPlaced, EntryRows
<1>6. ASSUME NEW e \in next.entries
      PROVE  e.id \in 1 .. next.lastId /\ e.tape # 0 /\ \E s \in STapes : next.tapes[s] = e.tape
  <2>1. CASE e = new
    BY <2>1, <1>1, <1>3
  <2>2. CASE e \in base.entries
    BY <2>2, <1>1, <1>3, <1>5 DEF Sound, EntriesPlaced
  <2> QED BY <1>3, <2>1, <2>2
<1>7. Sound(next)
  <2>1. TapesApart(next) /\ TableKeeps(next) /\ IndexApart(next)
    BY <1>3 DEF Sound, TapesApart, TableKeeps, IndexApart
  <2>2. EntriesPlaced(next)
    BY <1>6 DEF EntriesPlaced
  <2>3. IndexPlaced(next)
    BY <1>3 DEF Sound, IndexPlaced
  <2>4. RowsBounded(next)
    BY <1>3 DEF Sound, RowsBounded
  <2> QED BY <1>4, <2>1, <2>2, <2>3, <2>4 DEF Sound
<1>8. ASSUME NEW s \in STapes
      PROVE  Sqlite!EntriesOf(next, s) = IF s = t
                                         THEN Sqlite!EntriesOf(base, s) \cup {new}
                                         ELSE Sqlite!EntriesOf(base, s)
  <2>1. s # t => base.tapes[s] # new.tape
    BY DEF Sound, TapesApart
  <2> QED BY <2>1, <1>3 DEF Sqlite!EntriesOf
<1>9. LogOf(next) = [LogOf(base) EXCEPT ![t] = @ \cup {new}]
  BY <1>8 DEF LogOf
<1>10. \A e \in Sqlite!EntriesOf(base, t) : e.id < new.id
  BY <1>1, <1>5 DEF Sqlite!EntriesOf
<1> QED BY <1>2, <1>3, <1>7, <1>9, <1>10

\* _delete_index_rows takes the vectors of one tape from the index,
LEMMA VectorsDropped ==
  ASSUME NEW base, Sound(base), Fit(base), NEW id \in Nat, NEW next,
         next = WithoutVectors(base, id)
  PROVE  /\ Sound(next) /\ LogOf(next) = LogOf(base)
         /\ next.vectors = VectorsOfOthers(base, id)
         /\ next.index = base.index /\ next.tapes = base.tapes /\ next.hasTable = base.hasTable
<1> DEFINE gone == {x.row : x \in {y \in base.index : y.tape = id}}
<1>1. base \in Bases /\ base.vectors \subseteq VectorRows /\ base.index \subseteq IndexRows
  BY DEF Sound, Bases
<1>2. /\ next.tapes = base.tapes /\ next.entries = base.entries /\ next.lastId = base.lastId
      /\ next.index = base.index /\ next.hasTable = base.hasTable
      /\ next.vectors = {v \in base.vectors : v.row \notin gone}
  BY <1>1 DEF Bases, WithoutVectors
<1>3. next \in Bases
  <2>1. {v \in base.vectors : v.row \notin gone} \in SUBSET VectorRows
    BY <1>1
  <2> HIDE DEF gone
  <2> QED BY <2>1, <1>1, <1>2 DEF Bases, gone, WithoutVectors
<1>4. \A x \in base.index : x.row \in gone <=> x.tape = id
  BY DEF Sound, IndexApart
<1> HIDE DEF gone
<1>5. next.vectors = VectorsOfOthers(base, id)
  BY <1>2, <1>4 DEF Fit, VectorsOf, VectorsOfOthers
<1>6. Sound(next)
  <2>1. TapesApart(next) /\ IndexApart(next) /\ IndexPlaced(next)
    BY <1>2 DEF Sound, TapesApart, IndexApart, IndexPlaced
  <2>2. EntriesPlaced(next) /\ TableKeeps(next)
    BY <1>2 DEF Sound, EntriesPlaced, TableKeeps
  <2>3. RowsBounded(next)
    BY <1>2 DEF Sound, RowsBounded
  <2> QED BY <1>3, <2>1, <2>2, <2>3 DEF Sound
<1>7. LogOf(next) = LogOf(base)
  BY <1>2 DEF LogOf, Sqlite!EntriesOf
<1> QED BY <1>2, <1>5, <1>6, <1>7

\* and with the row of the tape go its entries and what is indexed of them.
LEMMA TapeDeleted ==
  ASSUME NEW base, Sound(base), NEW t \in STapes, NEW id, id = base.tapes[t],
         base.vectors = VectorsOfOthers(base, id),
         NEW next, next = WithoutTape(base, t, id)
  PROVE  Sound(next) /\ Fit(next) /\ LogOf(next) = [LogOf(base) EXCEPT ![t] = {}]
         /\ next.hasTable = base.hasTable
<1>1. /\ base \in Bases /\ base.tapes \in [STapes -> Nat] /\ base.entries \subseteq EntryRows
      /\ base.index \subseteq IndexRows
  BY DEF Sound, Bases
<1>2. /\ next.tapes = [base.tapes EXCEPT ![t] = 0]
      /\ next.entries = {e \in base.entries : e.tape # id}
      /\ next.lastId = base.lastId /\ next.index = {x \in base.index : x.tape # id}
      /\ next.vectors = base.vectors /\ next.hasTable = base.hasTable
  BY <1>1 DEF Bases, WithoutTape
<1>3. /\ next.tapes \in [STapes -> Nat] /\ next.tapes[t] = 0
      /\ \A s \in STapes : s # t => next.tapes[s] = base.tapes[s]
  BY <1>1, <1>2
<1>4. next \in Bases
  <2>1. next.entries \in SUBSET EntryRows /\ next.index \in SUBSET IndexRows
    BY <1>1, <1>2
  <2>2. next = [tapes |-> next.tapes, entries |-> next.entries, lastId |-> base.lastId,
                index |-> next.index, vectors |-> base.vectors, hasTable |-> base.hasTable]
    BY <1>1, <1>2 DEF Bases, WithoutTape
  <2>3. base.lastId \in Nat /\ base.vectors \in SUBSET VectorRows /\ base.hasTable \in BOOLEAN
    BY <1>1 DEF Bases
  <2> QED BY <1>1, <1>3, <2>1, <2>2, <2>3, BaseFields
<1>5. \A s, u \in STapes : next.tapes[s] = next.tapes[u] /\ next.tapes[s] # 0 => s = u
  BY <1>3 DEF Sound, TapesApart
<1>6. ASSUME NEW e \in next.entries
      PROVE  e.id \in 1 .. next.lastId /\ e.tape # 0 /\ \E s \in STapes : next.tapes[s] = e.tape
  <2>1. e \in base.entries /\ e.tape # id
    BY <1>2
  <2>2. PICK s \in STapes : base.tapes[s] = e.tape
    BY <2>1 DEF Sound, EntriesPlaced
  <2>3. s # t
    BY <2>1, <2>2
  <2> QED BY <1>2, <1>3, <2>1, <2>2, <2>3 DEF Sound, EntriesPlaced
<1>7. \A x \in next.index : \E e \in next.entries : e.id = x.entry /\ e.tape = x.tape
  BY <1>2 DEF Sound, IndexPlaced
<1>8. Bounded({next.tapes[s] : s \in STapes})
  <2>1. {next.tapes[s] : s \in STapes} \subseteq {base.tapes[s] : s \in STapes} \cup {0}
    BY <1>3
  <2>2. {base.tapes[s] : s \in STapes} \subseteq Nat
    BY <1>1
  <2> QED BY <2>1, <2>2, MoreBounded DEF Sound, RowsBounded
<1>9. Bounded({x.row : x \in next.index})
  <2>1. {x.row : x \in next.index} \subseteq {x.row : x \in base.index} \cup {0}
    BY <1>2
  <2>2. {x.row : x \in base.index} \subseteq Nat
    BY <1>1 DEF IndexRows
  <2> QED BY <2>1, <2>2, MoreBounded DEF Sound, RowsBounded
<1>10. Sound(next)
  <2>1. IndexApart(next)
    BY <1>2 DEF Sound, IndexApart
  <2>2. TableKeeps(next)
    BY <1>2 DEF Sound, TableKeeps
  <2>3. TapesApart(next) /\ EntriesPlaced(next) /\ IndexPlaced(next)
    BY <1>5, <1>6, <1>7 DEF TapesApart, EntriesPlaced, IndexPlaced
  <2>4. RowsBounded(next)
    BY <1>8, <1>9 DEF RowsBounded
  <2> QED BY <1>4, <2>1, <2>2, <2>3, <2>4 DEF Sound
<1>11. ASSUME NEW s \in STapes
       PROVE  Sqlite!EntriesOf(next, s) = IF s = t THEN {} ELSE Sqlite!EntriesOf(base, s)
  <2>1. CASE s = t
    BY <2>1, <1>2, <1>3 DEF Sqlite!EntriesOf, Sound, EntriesPlaced
  <2>2. CASE s # t
    BY <2>2, <1>2, <1>3 DEF Sqlite!EntriesOf, Sound, TapesApart, EntriesPlaced
  <2> QED BY <2>1, <2>2
<1>12. LogOf(next) = [LogOf(base) EXCEPT ![t] = {}]
  BY <1>11 DEF LogOf
<1> QED BY <1>2, <1>10, <1>12 DEF Fit, VectorsOfOthers

\* _index_entry_vector writes a row of the index and its vector.
LEMMA VectorInserted ==
  ASSUME NEW base, Sound(base), Fit(base), base.hasTable = TRUE, NEW id \in Nat, NEW i \in Nat,
         \E e \in base.entries : e.id = i /\ e.tape = id,
         NEW row \in Nat, \A x \in base.index : x.row # row,
         NEW next, next = WithVector(base, row, id, i)
  PROVE  Sound(next) /\ Fit(next) /\ LogOf(next) = LogOf(base)
         /\ next.entries = base.entries /\ next.tapes = base.tapes /\ next.hasTable = TRUE
<1> DEFINE x0 == [row |-> row, tape |-> id, entry |-> i]
           v0 == [row |-> row, entry |-> i]
           rows == {x.row : x \in base.index}
<1>1. base \in Bases /\ base.index \subseteq IndexRows /\ base.vectors \subseteq VectorRows
  BY DEF Sound, Bases
<1>2. rows \subseteq Nat /\ Bounded(rows)
  BY <1>1 DEF Sound, RowsBounded, IndexRows
<1>3. \A x \in base.index : x.row \in rows
  OBVIOUS
<1> HIDE DEF rows
<1>6. x0 \in IndexRows /\ v0 \in VectorRows /\ x0.row = row /\ x0.tape = id /\ x0.entry = i
  BY DEF IndexRows, VectorRows
<1>7. /\ next.tapes = base.tapes /\ next.entries = base.entries /\ next.lastId = base.lastId
      /\ next.index = base.index \cup {x0} /\ next.vectors = base.vectors \cup {v0}
      /\ next.hasTable = base.hasTable
  BY <1>1 DEF Bases, WithVector
<1>8. v0 = [row |-> x0.row, entry |-> x0.entry]
  BY <1>6
<1> HIDE DEF x0, v0
<1>9. next \in Bases
  <2>1. next.index \in SUBSET IndexRows /\ next.vectors \in SUBSET VectorRows
    BY <1>1, <1>6, <1>7
  <2>2. next = [tapes |-> base.tapes, entries |-> base.entries, lastId |-> base.lastId,
                index |-> next.index, vectors |-> next.vectors, hasTable |-> base.hasTable]
    BY <1>1, <1>7 DEF Bases, WithVector
  <2>3. /\ base.tapes \in [STapes -> Nat] /\ base.entries \in SUBSET EntryRows
        /\ base.lastId \in Nat
        /\ base.hasTable \in BOOLEAN
    BY <1>1 DEF Bases
  <2> QED BY <2>1, <2>2, <2>3 DEF Bases
<1>10. IndexPlaced(next)
  BY <1>6, <1>7 DEF Sound, IndexPlaced
<1>11. IndexApart(next)
  BY <1>6, <1>7 DEF Sound, IndexApart
<1>12. Bounded({x.row : x \in next.index})
  <2>1. {x.row : x \in next.index} \subseteq rows \cup {row}
    BY <1>3, <1>6, <1>7
  <2> QED BY <2>1, <1>2, MoreBounded
<1>13. Sound(next)
  <2>1. TapesApart(next) /\ EntriesPlaced(next) /\ TableKeeps(next)
    BY <1>7 DEF Sound, TapesApart, EntriesPlaced, TableKeeps
  <2>2. RowsBounded(next)
    BY <1>7, <1>12 DEF Sound, RowsBounded
  <2> QED BY <1>9, <1>10, <1>11, <2>1, <2>2 DEF Sound
<1>14. Fit(next)
  BY <1>7, <1>8 DEF Fit, VectorsOf
<1>15. LogOf(next) = LogOf(base)
  BY <1>7 DEF LogOf, Sqlite!EntriesOf
<1> QED BY <1>7, <1>13, <1>14, <1>15

\* What each statement leaves behind, and where its call stands then.
LEMMA Standing ==
  ASSUME LiteInv, NEW c \in SCalls, NEW o, o = sOp[c], sPc[c] \in StatementPcs
  PROVE  /\ Stored /\ At(c, o, sPc[c]) /\ o.name \in NamesAt(sPc[c]) /\ c \notin sCommitted
         /\ c # NoCall
         /\ o \in Sqlite!Ops
         /\ (sPc[c] # "close" => o.tape \in STapes /\ o.entry \in SNames \cup {Plain})
         /\ o.name \in {"append", "reset", "fetch", "search", "close"} /\ sLock = c
<1>1. LiteCallFits(c) /\ Stored /\ sLock = c
  BY DEF LiteInv, LiteCallFits
<1>2. c \notin sCommitted
  BY <1>1 DEF LiteCallFits, StatementPcs
<1>3. At(c, o, sPc[c])
  BY <1>1 DEF LiteCallFits
<1>4. o \in Sqlite!Ops /\ o.name \in NamesAt(sPc[c])
  BY <1>3 DEF At
<1>5. sPc[c] # "close" => o.name # "close"
  BY <1>4 DEF NamesAt, StatementPcs
<1> QED BY <1>1, <1>2, <1>3, <1>4, <1>5, NamesKnown, SqlConstants DEF Sqlite!SqliteConstants

\* A connection opens,
LEMMA ConnectRuns ==
  ASSUME LiteInv, NEW c \in SCalls, NEW o, o = sOp[c], Sqlite!Connect(c), NEW p,
         p = Sqlite!NextPc(c)
  PROVE  /\ Stored' /\ At(c, o, p)' /\ p \in {"begin", "fetch", "unindexed", "missing"}
         /\ UNCHANGED sCommitted
<1>1. sPc[c] = "connect" /\ sPc[c] \in StatementPcs
  BY DEF Sqlite!Connect, StatementPcs
<1>2. /\ Stored /\ At(c, o, sPc[c]) /\ o.name \in NamesAt(sPc[c]) /\ o \in Sqlite!Ops
  BY <1>1, Standing
<1>3. o.name \in {"append", "reset", "fetch", "search"}
  BY <1>1, <1>2 DEF NamesAt
<1>4. /\ sConn' = TRUE /\ sDims' = (IF sConn THEN sDims ELSE sDisk.hasTable)
      /\ UNCHANGED <<sDisk, sWork, sInTx, sCommitted, sTodo>>
  BY DEF Sqlite!Connect, Sqlite!db
<1>5. Stored'
  <2>1. sDisk.hasTable \in BOOLEAN
    BY <1>2 DEF Stored, Bases
  <2>2. sDims' \in BOOLEAN /\ sConn' \in BOOLEAN
    BY <1>2, <1>4, <2>1 DEF Stored
  <2>3. ~sDims' => sDisk.hasTable = FALSE /\ sWork.hasTable = FALSE
    BY <1>2, <1>4, <2>1 DEF Stored
  <2> QED BY <1>2, <1>4, <2>2, <2>3 DEF Stored
<1>6. CASE o.name \in {"fetch", "search"} /\ Sqlite!TapeId(o.tape) = 0
  <2>1. p = "missing"
    BY <1>1, <1>6 DEF Sqlite!NextPc
  <2> QED BY <2>1, <1>2, <1>4, <1>5, <1>6 DEF At, StatementPcs, Sqlite!Inside, NamesAt
<1>7. CASE ~(o.name \in {"fetch", "search"} /\ Sqlite!TapeId(o.tape) = 0)
  <2>1. p = Sqlite!First[o.name]
    BY <1>1, <1>7 DEF Sqlite!NextPc
  <2>2. CASE o.name \in {"append", "reset"}
    <3>1. p = "begin"
      BY <2>1, <2>2 DEF Sqlite!First
    <3>2. o.name \in NamesAt("begin")
      BY <2>2 DEF NamesAt
    <3>3. At(c, o, p)'
      BY <3>1, <2>2, <3>2, <1>2, <1>4 DEF At, Sqlite!Inside
    <3> QED BY <3>1, <3>3, <1>4, <1>5
  <2>3. CASE o.name \in {"fetch", "search"}
    <3>1. p = IF o.name = "fetch" THEN "fetch" ELSE "unindexed"
      BY <2>1, <2>3 DEF Sqlite!First
    <3>2. CASE o.name = "fetch"
      <4>1. p = "fetch"
        BY <3>1, <3>2
      <4> QED BY <4>1, <3>2, <1>2, <1>4, <1>5 DEF At, NamesAt, Sqlite!Inside
    <3>3. CASE o.name = "search"
      <4>1. p = "unindexed"
        BY <3>1, <3>3
      <4> QED BY <4>1, <3>3, <1>2, <1>4, <1>5 DEF At, NamesAt, Sqlite!Inside
    <3> QED BY <2>3, <3>2, <3>3
  <2> QED BY <1>3, <2>2, <2>3
<1> QED BY <1>4, <1>6, <1>7

\* a transaction,
LEMMA BeginRuns ==
  ASSUME LiteInv, NEW c \in SCalls, NEW o, o = sOp[c], Sqlite!Begin(c), NEW p, p = Sqlite!NextPc(c)
  PROVE  Stored' /\ At(c, o, p)' /\ p \in {"tape", "vectors", "table"} /\ UNCHANGED sCommitted
<1>1. sPc[c] = "begin" /\ sPc[c] \in StatementPcs
  BY DEF Sqlite!Begin, StatementPcs
<1>2. /\ Stored /\ At(c, o, sPc[c]) /\ o.name \in NamesAt(sPc[c]) /\ o \in Sqlite!Ops
  BY <1>1, Standing
<1>3. o.name \in {"append", "reset", "search"} /\ sConn
  BY <1>1, <1>2 DEF NamesAt, At, StatementPcs
<1>4. ~sInTx /\ sInTx' = TRUE /\ UNCHANGED <<sDisk, sWork, sCommitted, sConn, sDims, sTodo>>
  BY DEF Sqlite!Begin
<1>5. sWork = sDisk
  BY <1>2, <1>4 DEF Stored
<1>6. Stored'
  BY <1>2, <1>3, <1>4 DEF Stored
<1>7. p = Sqlite!Writing[o.name]
  BY <1>1 DEF Sqlite!NextPc
<1>8. CASE o.name \in {"append", "reset"}
  BY <1>7, <1>8, <1>2, <1>3, <1>4, <1>5, <1>6, SMTT(30)
  DEF At, StatementPcs, Sqlite!Inside, NamesAt, Sqlite!Writing
<1>9. CASE o.name = "search"
  <2>1. /\ sTodo[c] # {}
        /\ \A i \in sTodo[c] : \E e \in sWork.entries : e.id = i /\ e.tape = Sqlite!TapeId(o.tape)
    BY <1>1, <1>2, <1>9 DEF At
  <2>2. (/\ sTodo[c] # {}
         /\ \A i \in sTodo[c] :
              \E e \in sWork.entries : e.id = i /\ e.tape = Sqlite!TapeId(o.tape))'
    BY <2>1, <1>4 DEF Sqlite!TapeId
  <2>3. p = "table"
    BY <1>7, <1>9 DEF Sqlite!Writing
  <2> QED
    BY <2>2, <2>3, <1>9, <1>2, <1>3, <1>4, <1>5, <1>6 DEF At, StatementPcs, Sqlite!Inside, NamesAt
<1> QED BY <1>3, <1>4, <1>8, <1>9

\* in which an append finds or creates the row of its tape
LEMMA InsertTapeRuns ==
  ASSUME LiteInv, NEW c \in SCalls, NEW o, o = sOp[c], Sqlite!InsertTape(c), NEW p,
         p = Sqlite!NextPc(c)
  PROVE  Stored' /\ At(c, o, p)' /\ p = "entry" /\ UNCHANGED <<sCommitted, sDisk>>
<1>1. sPc[c] = "tape" /\ sPc[c] \in StatementPcs
  BY DEF Sqlite!InsertTape, StatementPcs
<1>2. /\ Stored /\ At(c, o, sPc[c]) /\ o.name \in NamesAt(sPc[c]) /\ o \in Sqlite!Ops
      /\ o.tape \in STapes
  BY <1>1, Standing
<1>3. o.name = "append" /\ sConn /\ sInTx /\ sWork = sDisk
  BY <1>1, <1>2 DEF NamesAt, At, StatementPcs, Sqlite!Inside
<1>4. /\ sWork' = IF Sqlite!TapeId(o.tape) # 0 THEN sWork
                 ELSE [sWork EXCEPT !.tapes[o.tape] =
                         Sqlite!NextRow({sWork.tapes[t] : t \in STapes})]
      /\ UNCHANGED <<sDisk, sInTx, sCommitted, sConn, sTodo, sDims>>
  BY DEF Sqlite!InsertTape, Sqlite!Writes
<1>5. /\ Sound(sWork') /\ LogOf(sWork') = LogOf(sWork) /\ sWork'.tapes[o.tape] # 0
      /\ sWork'.index = sWork.index /\ sWork'.vectors = sWork.vectors
      /\ sWork'.hasTable = sWork.hasTable
  <2>1. CASE Sqlite!TapeId(o.tape) # 0
    BY <2>1, <1>2, <1>4 DEF Sqlite!TapeId, Stored
  <2>2. CASE Sqlite!TapeId(o.tape) = 0
    <3>1. Sound(sWork) /\ sWork.tapes[o.tape] = 0
      BY <2>2, <1>2 DEF Sqlite!TapeId, Stored
    <3>2. sWork' = WithTape(sWork, o.tape)
      BY <2>2, <1>4 DEF WithTape
    <3> QED BY <3>1, <3>2, <1>2, TapeInserted
  <2> QED BY <2>1, <2>2
<1>6. Fit(sWork')
  BY <1>2, <1>3, <1>5 DEF Fit, Stored
<1>7. Stored'
  <2>1. sWork' \in Bases
    BY <1>5 DEF Sound
  <2> QED BY <2>1, <1>2, <1>3, <1>4, <1>5 DEF Stored
<1>8. p = "entry"
  BY <1>1 DEF Sqlite!NextPc, Sqlite!After
<1>9. Sqlite!TapeId(o.tape)' # 0
  BY <1>5 DEF Sqlite!TapeId
<1> QED
  BY <1>2, <1>3, <1>4, <1>5, <1>6, <1>7, <1>8, <1>9 DEF At, StatementPcs, Sqlite!Inside, NamesAt

\* and adds the entry,
LEMMA InsertEntryRuns ==
  ASSUME LiteInv, NEW c \in SCalls, NEW o, o = sOp[c], Sqlite!InsertEntry(c), NEW p,
         p = Sqlite!NextPc(c)
  PROVE  Stored' /\ At(c, o, p)' /\ p = "commit" /\ UNCHANGED <<sCommitted, sDisk>>
<1> DEFINE new == [id |-> sWork.lastId + 1, tape |-> Sqlite!TapeId(o.tape), name |-> o.entry]
<1>1. sPc[c] = "entry" /\ sPc[c] \in StatementPcs
  BY DEF Sqlite!InsertEntry, StatementPcs
<1>2. /\ Stored /\ At(c, o, sPc[c]) /\ o.name \in NamesAt(sPc[c]) /\ o \in Sqlite!Ops
      /\ o.tape \in STapes /\ o.entry \in SNames \cup {Plain}
  BY <1>1, Standing
<1>3. /\ o.name = "append" /\ sConn /\ sInTx /\ LogOf(sWork) = LogOf(sDisk)
      /\ Sqlite!TapeId(o.tape) # 0
      /\ Fit(sWork)
  BY <1>1, <1>2 DEF NamesAt, At, StatementPcs, Sqlite!Inside
<1>4. /\ sWork' = [sWork EXCEPT !.lastId = @ + 1, !.entries = @ \cup {new}]
      /\ UNCHANGED <<sDisk, sInTx, sCommitted, sConn, sTodo, sDims>>
  BY DEF Sqlite!InsertEntry, Sqlite!Writes
<1>5. /\ Sound(sWork') /\ new \in EntryRows
      /\ LogOf(sWork') = [LogOf(sWork) EXCEPT ![o.tape] = @ \cup {new}]
      /\ \A e \in Sqlite!EntriesOf(sWork, o.tape) : e.id < new.id
      /\ sWork'.index = sWork.index /\ sWork'.vectors = sWork.vectors
      /\ sWork'.hasTable = sWork.hasTable
  <2>1. /\ Sound(sWork) /\ sWork.tapes[o.tape] # 0 /\ new.id = sWork.lastId + 1
        /\ new.tape = sWork.tapes[o.tape]
    BY <1>2, <1>3 DEF Sqlite!TapeId, Stored
  <2>3. new \in EntryRows
    BY <1>2, <1>3 DEF EntryRows, Stored, Bases, Sqlite!TapeId
  <2>2. sWork' = WithEntry(sWork, new)
    BY <1>4 DEF WithEntry
  <2> HIDE DEF new
  <2> QED BY <2>1, <2>2, <2>3, <1>2, EntryInserted
<1> HIDE DEF new
<1>6. Fit(sWork')
  BY <1>3, <1>5 DEF Fit
<1>7. Stored'
  <2>1. sWork' \in Bases
    BY <1>5 DEF Sound
  <2> QED BY <2>1, <1>2, <1>3, <1>4, <1>5 DEF Stored
<1>8. p = "commit"
  BY <1>1 DEF Sqlite!NextPc, Sqlite!After
<1>9. \A e \in Sqlite!EntriesOf(sDisk, o.tape) : e.id < new.id
  <2>1. Sqlite!EntriesOf(sDisk, o.tape) = Sqlite!EntriesOf(sWork, o.tape)
    <3>1. LogOf(sDisk)[o.tape] = LogOf(sWork)[o.tape]
      BY <1>3
    <3> QED BY <3>1, <1>2 DEF LogOf
  <2> QED BY <2>1, <1>5
<1>10. (\E n \in EntryRows : /\ \A e \in Sqlite!EntriesOf(sDisk, o.tape) : e.id < n.id
                             /\ LogOf(sWork) = [LogOf(sDisk) EXCEPT ![o.tape] = @ \cup {n}])'
  <2>1. \A e \in Sqlite!EntriesOf(sDisk', o.tape) : e.id < new.id
    BY <1>4, <1>9
  <2>2. LogOf(sWork') = [LogOf(sDisk') EXCEPT ![o.tape] = @ \cup {new}]
    BY <1>3, <1>4, <1>5
  <2> QED BY <2>1, <2>2, <1>5
<1> QED BY <1>2, <1>3, <1>4, <1>6, <1>7, <1>8, <1>10 DEF At, StatementPcs, Sqlite!Inside, NamesAt

\* a reset deletes the vectors
LEMMA DeleteVectorsRuns ==
  ASSUME LiteInv, NEW c \in SCalls, NEW o, o = sOp[c], Sqlite!DeleteVectors(c), NEW p,
         p = Sqlite!NextPc(c)
  PROVE  Stored' /\ At(c, o, p)' /\ p = "delete" /\ UNCHANGED <<sCommitted, sDisk>>
<1>1. sPc[c] = "vectors" /\ sPc[c] \in StatementPcs
  BY DEF Sqlite!DeleteVectors, StatementPcs
<1>2. /\ Stored /\ At(c, o, sPc[c]) /\ o.name \in NamesAt(sPc[c]) /\ o \in Sqlite!Ops
      /\ o.tape \in STapes
  BY <1>1, Standing
<1>3. o.name = "reset" /\ sConn /\ sInTx /\ sWork = sDisk
  BY <1>1, <1>2 DEF NamesAt, At, StatementPcs, Sqlite!Inside
<1>4. /\ sWork' = (IF Sqlite!TapeId(o.tape) = 0 THEN sWork ELSE Sqlite!VectorsDeleted(o.tape))
      /\ UNCHANGED <<sDisk, sInTx, sCommitted, sConn, sTodo, sDims>>
  BY DEF Sqlite!DeleteVectors, Sqlite!Writes
<1>5. Sound(sWork) /\ Fit(sWork) /\ Sqlite!TapeId(o.tape) \in Nat
  BY <1>2, <1>3 DEF Stored, Sqlite!TapeId, Sound, Bases
<1>6. /\ Sound(sWork') /\ LogOf(sWork') = LogOf(sWork) /\ sWork'.tapes = sWork.tapes
      /\ sWork'.hasTable = sWork.hasTable
      /\ sWork'.vectors = VectorsOfOthers(sWork', Sqlite!TapeId(o.tape))
  <2>1. CASE Sqlite!TapeId(o.tape) = 0
    <3>1. \A x \in sWork.index : x.tape # 0
      BY <1>5 DEF Sound, IndexPlaced, EntriesPlaced
    <3>2. {x \in sWork.index : x.tape # 0} = sWork.index
      BY <3>1
    <3> QED BY <2>1, <3>2, <1>4, <1>5 DEF Fit, VectorsOfOthers
  <2>2. CASE Sqlite!TapeId(o.tape) # 0 /\ ~sDims
    <3>1. sWork.hasTable = FALSE
      BY <2>2, <1>2, <1>3 DEF Stored
    <3>2. sWork.index = {} /\ sWork.vectors = {}
      BY <3>1, <1>5 DEF Sound, TableKeeps
    <3>3. sWork' = sWork
      BY <2>2, <1>4 DEF Sqlite!VectorsDeleted
    <3> QED BY <3>2, <3>3, <1>5 DEF VectorsOf, VectorsOfOthers
  <2>3. CASE Sqlite!TapeId(o.tape) # 0 /\ sDims
    <3> DEFINE id == Sqlite!TapeId(o.tape)
    <3>1. sWork' = WithoutVectors(sWork, id)
      BY <2>3, <1>4 DEF Sqlite!VectorsDeleted, Sqlite!RowsOf, WithoutVectors
    <3> HIDE DEF id
    <3>2. id \in Nat
      BY <1>5 DEF id
    <3>3. /\ Sound(sWork') /\ LogOf(sWork') = LogOf(sWork) /\ sWork'.tapes = sWork.tapes
          /\ sWork'.hasTable = sWork.hasTable
          /\ sWork'.index = sWork.index /\ sWork'.vectors = VectorsOfOthers(sWork, id)
      BY <3>1, <3>2, <1>5, VectorsDropped
    <3> QED BY <3>3 DEF id, VectorsOfOthers
  <2> QED BY <2>1, <2>2, <2>3
<1>7. Stored'
  <2>1. sWork' \in Bases
    BY <1>6 DEF Sound
  <2> QED BY <2>1, <1>2, <1>3, <1>4, <1>6 DEF Stored
<1>8. p = "delete"
  BY <1>1 DEF Sqlite!NextPc, Sqlite!After
<1>9. Sqlite!TapeId(o.tape)' = Sqlite!TapeId(o.tape)
  BY <1>6 DEF Sqlite!TapeId
<1> QED BY <1>2, <1>3, <1>4, <1>6, <1>7, <1>8, <1>9 DEF At, StatementPcs, Sqlite!Inside, NamesAt

\* and the tape.
LEMMA DeleteTapeRuns ==
  ASSUME LiteInv, NEW c \in SCalls, NEW o, o = sOp[c], Sqlite!DeleteTape(c), NEW p,
         p = Sqlite!NextPc(c)
  PROVE  Stored' /\ At(c, o, p)' /\ p = "commit" /\ UNCHANGED <<sCommitted, sDisk>>
<1> DEFINE id == Sqlite!TapeId(o.tape)
<1>1. sPc[c] = "delete" /\ sPc[c] \in StatementPcs
  BY DEF Sqlite!DeleteTape, StatementPcs
<1>2. /\ Stored /\ At(c, o, sPc[c]) /\ o.name \in NamesAt(sPc[c]) /\ o \in Sqlite!Ops
      /\ o.tape \in STapes
  BY <1>1, Standing
<1>3. /\ o.name = "reset" /\ sConn /\ sInTx /\ LogOf(sWork) = LogOf(sDisk)
      /\ sWork.vectors = VectorsOfOthers(sWork, id)
  BY <1>1, <1>2 DEF NamesAt, At, StatementPcs, Sqlite!Inside
<1>4. /\ sWork' = [sWork EXCEPT !.tapes[o.tape] = 0, !.entries = {e \in @ : e.tape # id},
                              !.index = {x \in @ : x.tape # id}]
      /\ UNCHANGED <<sDisk, sInTx, sCommitted, sConn, sTodo, sDims>>
  BY DEF Sqlite!DeleteTape, Sqlite!Writes
<1>5. Sound(sWork) /\ id = sWork.tapes[o.tape]
  BY <1>2 DEF Stored, Sqlite!TapeId
<1> HIDE DEF id
<1>10. sWork' = WithoutTape(sWork, o.tape, id)
  BY <1>4 DEF WithoutTape
<1>6. /\ Sound(sWork') /\ Fit(sWork') /\ LogOf(sWork') = [LogOf(sWork) EXCEPT ![o.tape] = {}]
      /\ sWork'.hasTable = sWork.hasTable
  <2>1. o.tape \in STapes /\ sWork.vectors = VectorsOfOthers(sWork, id)
    BY <1>2, <1>3
  <2>2. Sound(sWork')
    BY <2>1, <1>5, <1>10, TapeDeleted
  <2>3. Fit(sWork')
    BY <2>1, <1>5, <1>10, TapeDeleted
  <2>4. sWork'.hasTable = sWork.hasTable
    BY <2>1, <1>5, <1>10, TapeDeleted
  <2>5. LogOf(sWork') = [LogOf(sWork) EXCEPT ![o.tape] = {}]
    BY <2>1, <1>5, <1>10, TapeDeleted
  <2> QED BY <2>2, <2>3, <2>4, <2>5
<1>7. Stored'
  <2>1. sWork' \in Bases
    BY <1>6 DEF Sound
  <2> QED BY <2>1, <1>2, <1>3, <1>4, <1>6 DEF Stored
<1>8. p = "commit"
  BY <1>1 DEF Sqlite!NextPc, Sqlite!After
<1>9. (LogOf(sWork) = [LogOf(sDisk) EXCEPT ![o.tape] = {}])'
  BY <1>3, <1>4, <1>6
<1> QED BY <1>2, <1>3, <1>4, <1>6, <1>7, <1>8, <1>9 DEF At, StatementPcs, Sqlite!Inside, NamesAt

\* A COMMIT keeps what was written;
LEMMA CommitRuns ==
  ASSUME LiteInv, NEW c \in SCalls, NEW o, o = sOp[c], Sqlite!Commit(c), NEW p, p = Sqlite!NextPc(c)
  PROVE  /\ Stored' /\ At(c, o, p)' /\ sDisk' = sWork
         /\ o.name = "search" => p = "nearest" /\ UNCHANGED sCommitted
         /\ o.name # "search" => p = "ok" /\ sCommitted' = sCommitted \cup {c}
<1>1. sPc[c] = "commit" /\ sPc[c] \in StatementPcs
  BY DEF Sqlite!Commit, StatementPcs
<1>2. /\ Stored /\ At(c, o, sPc[c]) /\ o.name \in NamesAt(sPc[c]) /\ o \in Sqlite!Ops
  BY <1>1, Standing
<1>3. sConn /\ sInTx /\ Fit(sWork)
  BY <1>1, <1>2 DEF At, StatementPcs, Sqlite!Inside
<1>4. /\ sDisk' = sWork /\ sInTx' = FALSE /\ UNCHANGED <<sWork, sConn, sDims, sTodo>>
      /\ sCommitted' = IF o.name = "search" THEN sCommitted ELSE sCommitted \cup {c}
  BY DEF Sqlite!Commit
<1>5. Stored'
  BY <1>2, <1>3, <1>4 DEF Stored
<1>6. p = IF o.name = "search" THEN "nearest" ELSE "ok"
  BY <1>1 DEF Sqlite!NextPc
<1>7. CASE o.name = "search"
  BY <1>7, <1>2, <1>3, <1>4, <1>5, <1>6 DEF At, StatementPcs, Sqlite!Inside, NamesAt
<1>8. CASE o.name # "search"
  BY <1>8, <1>2, <1>4, <1>5, <1>6 DEF At, StatementPcs, Sqlite!Inside, NamesAt
<1> QED BY <1>4, <1>6, <1>7, <1>8

\* a close rolls it back.
LEMMA CloseRuns ==
  ASSUME LiteInv, NEW c \in SCalls, NEW o, o = sOp[c], Sqlite!Close(c), NEW p, p = Sqlite!NextPc(c)
  PROVE  Stored' /\ At(c, o, p)' /\ p = "asked" /\ UNCHANGED <<sCommitted, sDisk>>
<1>1. sPc[c] = "close" /\ sPc[c] \in StatementPcs
  BY DEF Sqlite!Close, StatementPcs
<1>2. Stored
  BY <1>1, Standing
<1>3. /\ sConn' = FALSE /\ sWork' = sDisk /\ sInTx' = FALSE
      /\ UNCHANGED <<sDisk, sCommitted, sDims, sTodo>>
  BY DEF Sqlite!Close
<1>4. p = "asked"
  BY <1>1 DEF Sqlite!NextPc, Sqlite!After
<1>5. Stored'
  BY <1>2, <1>3 DEF Stored
<1> QED BY <1>3, <1>4, <1>5 DEF At, StatementPcs, Sqlite!Inside

\* A search finds the entries without a vector,
LEMMA FindUnindexedRuns ==
  ASSUME LiteInv, NEW c \in SCalls, NEW o, o = sOp[c], Sqlite!FindUnindexed(c), NEW p,
         p = Sqlite!NextPc(c)
  PROVE  Stored' /\ At(c, o, p)' /\ p \in {"nearest", "embed"} /\ UNCHANGED <<sCommitted, sDisk>>
<1> DEFINE found == {e.id : e \in {x \in Sqlite!EntriesOf(sWork, o.tape) :
                        /\ x.name = Plain
                        /\ \A y \in sWork.index : ~(y.tape = x.tape /\ y.entry = x.id)}}
<1>1. sPc[c] = "unindexed" /\ sPc[c] \in StatementPcs
  BY DEF Sqlite!FindUnindexed, StatementPcs
<1>2. /\ Stored /\ At(c, o, sPc[c]) /\ o.name \in NamesAt(sPc[c]) /\ o \in Sqlite!Ops
      /\ o.tape \in STapes
  BY <1>1, Standing
<1>3. o.name = "search" /\ sConn
  BY <1>1, <1>2 DEF NamesAt, At, StatementPcs
<1>4. /\ sTodo' = [sTodo EXCEPT ![c] = found]
      /\ UNCHANGED <<sDisk, sWork, sInTx, sCommitted, sConn, sDims>>
  BY DEF Sqlite!FindUnindexed, Sqlite!db
<1>5. /\ found \subseteq Nat
      /\ \A i \in found : \E e \in sWork.entries : e.id = i /\ e.tape = Sqlite!TapeId(o.tape)
  <2>1. sWork.entries \subseteq EntryRows
    BY <1>2 DEF Stored, Bases
  <2> QED BY <2>1 DEF Sqlite!EntriesOf, EntryRows, Sqlite!TapeId
<1> HIDE DEF found
<1>6. sTodo' \in [SCalls -> SUBSET Nat] /\ sTodo'[c] = found
  BY <1>2, <1>4, <1>5 DEF Stored
<1>7. Stored'
  BY <1>2, <1>4, <1>6 DEF Stored
<1>8. p = IF found = {} THEN "nearest" ELSE "embed"
  BY <1>1, <1>6 DEF Sqlite!NextPc
<1>9. CASE found = {}
  BY <1>9, <1>2, <1>3, <1>4, <1>7, <1>8 DEF At, StatementPcs, Sqlite!Inside, NamesAt
<1>10. CASE found # {}
  <2>1. (/\ sTodo[c] # {}
         /\ \A i \in sTodo[c] :
              \E e \in sWork.entries : e.id = i /\ e.tape = Sqlite!TapeId(o.tape))'
    BY <1>4, <1>5, <1>6, <1>10 DEF Sqlite!TapeId
  <2> QED BY <2>1, <1>10, <1>2, <1>3, <1>4, <1>7, <1>8 DEF At, StatementPcs, Sqlite!Inside, NamesAt
<1> QED BY <1>4, <1>8, <1>9, <1>10

\* has them embedded,
LEMMA EmbedRuns ==
  ASSUME LiteInv, NEW c \in SCalls, NEW o, o = sOp[c], Sqlite!Embed(c), NEW p, p = Sqlite!NextPc(c)
  PROVE  Stored' /\ At(c, o, p)' /\ p = "begin" /\ UNCHANGED <<sCommitted, sDisk>>
<1>1. sPc[c] = "embed" /\ sPc[c] \in StatementPcs
  BY DEF Sqlite!Embed, StatementPcs
<1>2. /\ Stored /\ At(c, o, sPc[c]) /\ o.name \in NamesAt(sPc[c]) /\ o \in Sqlite!Ops
  BY <1>1, Standing
<1>3. o.name = "search" /\ sConn
  BY <1>1, <1>2 DEF NamesAt, At, StatementPcs
<1>4. UNCHANGED <<sDisk, sWork, sInTx, sCommitted, sConn, sDims, sTodo>>
  BY DEF Sqlite!Embed, Sqlite!db
<1>5. Stored'
  BY <1>2, <1>4 DEF Stored
<1>6. p = "begin"
  BY <1>1 DEF Sqlite!NextPc, Sqlite!After
<1>7. (/\ sTodo[c] # {}
       /\ \A i \in sTodo[c] :
            \E e \in sWork.entries : e.id = i /\ e.tape = Sqlite!TapeId(o.tape))'
  <2>1. /\ sTodo[c] # {}
        /\ \A i \in sTodo[c] : \E e \in sWork.entries : e.id = i /\ e.tape = Sqlite!TapeId(o.tape)
    BY <1>1, <1>2, <1>3 DEF At
  <2> QED BY <2>1, <1>4 DEF Sqlite!TapeId
<1> QED BY <1>2, <1>3, <1>4, <1>5, <1>6, <1>7 DEF At, StatementPcs, Sqlite!Inside, NamesAt

\* creates the table of vectors once,
LEMMA EnsureTableRuns ==
  ASSUME LiteInv, NEW c \in SCalls, NEW o, o = sOp[c], Sqlite!EnsureTable(c), NEW p,
         p = Sqlite!NextPc(c)
  PROVE  Stored' /\ At(c, o, p)' /\ p = "index" /\ UNCHANGED <<sCommitted, sDisk>>
<1>1. sPc[c] = "table" /\ sPc[c] \in StatementPcs
  BY DEF Sqlite!EnsureTable, StatementPcs
<1>2. /\ Stored /\ At(c, o, sPc[c]) /\ o.name \in NamesAt(sPc[c]) /\ o \in Sqlite!Ops
  BY <1>1, Standing
<1>3. o.name = "search" /\ sConn /\ sInTx /\ sWork = sDisk
  BY <1>1, <1>2 DEF NamesAt, At, StatementPcs, Sqlite!Inside
<1>4. /\ sDims' = TRUE /\ sWork' = [sWork EXCEPT !.hasTable = TRUE]
      /\ UNCHANGED <<sDisk, sInTx, sCommitted, sConn, sTodo>>
  BY DEF Sqlite!EnsureTable, Sqlite!Writes
<1>5. sWork \in Bases /\ Sound(sWork) /\ Fit(sWork)
  BY <1>2, <1>3 DEF Stored
<1>6. /\ sWork'.tapes = sWork.tapes /\ sWork'.entries = sWork.entries
      /\ sWork'.lastId = sWork.lastId
      /\ sWork'.index = sWork.index /\ sWork'.vectors = sWork.vectors /\ sWork'.hasTable = TRUE
      /\ sWork' \in Bases
  BY <1>4, <1>5 DEF Bases
<1>7. Sound(sWork') /\ Fit(sWork') /\ LogOf(sWork') = LogOf(sWork)
  <2>1. TapesApart(sWork') /\ EntriesPlaced(sWork') /\ TableKeeps(sWork')
    BY <1>5, <1>6 DEF Sound, TapesApart, EntriesPlaced, TableKeeps
  <2>2. IndexPlaced(sWork') /\ IndexApart(sWork') /\ RowsBounded(sWork')
    BY <1>5, <1>6 DEF Sound, IndexPlaced, IndexApart, RowsBounded
  <2> QED BY <2>1, <2>2, <1>5, <1>6 DEF Sound, Fit, LogOf, Sqlite!EntriesOf
<1>8. Stored'
  BY <1>2, <1>3, <1>4, <1>6, <1>7 DEF Stored
<1>9. p = "index"
  BY <1>1 DEF Sqlite!NextPc, Sqlite!After
<1>10. (/\ sTodo[c] # {}
        /\ \A i \in sTodo[c] :
             \E e \in sWork.entries : e.id = i /\ e.tape = Sqlite!TapeId(o.tape))'
  <2>1. /\ sTodo[c] # {}
        /\ \A i \in sTodo[c] : \E e \in sWork.entries : e.id = i /\ e.tape = Sqlite!TapeId(o.tape)
    BY <1>1, <1>2, <1>3 DEF At
  <2> QED BY <2>1, <1>4, <1>6 DEF Sqlite!TapeId
<1> QED
  BY <1>2, <1>3, <1>4, <1>6, <1>7, <1>8, <1>9, <1>10 DEF At, StatementPcs, Sqlite!Inside, NamesAt

\* and indexes them one by one.
LEMMA IndexVectorRuns ==
  ASSUME LiteInv, NEW c \in SCalls, NEW o, o = sOp[c], Sqlite!IndexVector(c), NEW p,
         p = Sqlite!NextPc(c)
  PROVE  Stored' /\ At(c, o, p)' /\ p \in {"commit", "index"} /\ UNCHANGED <<sCommitted, sDisk>>
<1> DEFINE i == CHOOSE n \in sTodo[c] : \A k \in sTodo[c] : n <= k
           row == Sqlite!NextRow({x.row : x \in sWork.index})
           id == Sqlite!TapeId(o.tape)
<1>1. sPc[c] = "index" /\ sPc[c] \in StatementPcs
  BY DEF Sqlite!IndexVector, StatementPcs
<1>2. /\ Stored /\ At(c, o, sPc[c]) /\ o.name \in NamesAt(sPc[c]) /\ o \in Sqlite!Ops
      /\ o.tape \in STapes
  BY <1>1, Standing
<1>3. /\ o.name = "search" /\ sConn /\ sInTx /\ LogOf(sWork) = LogOf(sDisk)
      /\ sWork.hasTable = TRUE /\ Fit(sWork)
  BY <1>1, <1>2 DEF NamesAt, At, StatementPcs, Sqlite!Inside
<1>4. sTodo[c] # {} /\ \A n \in sTodo[c] : \E e \in sWork.entries : e.id = n /\ e.tape = id
  BY <1>1, <1>2, <1>3 DEF At
<1>5. /\ sWork' = [sWork EXCEPT !.index = @ \cup {[row |-> row, tape |-> id, entry |-> i]},
                              !.vectors = @ \cup {[row |-> row, entry |-> i]}]
      /\ sTodo' = [sTodo EXCEPT ![c] = @ \ {i}]
      /\ UNCHANGED <<sDisk, sInTx, sCommitted, sConn, sDims>>
  BY DEF Sqlite!IndexVector
<1>6. sTodo[c] \subseteq Nat
  BY <1>2 DEF Stored
<1>7. i \in sTodo[c]
  <2>1. \E n \in sTodo[c] : \A k \in sTodo[c] : n <= k
    BY <1>4, <1>6, Least
  <2> QED BY <2>1
<1>8. Sound(sWork) /\ id \in Nat /\ i \in Nat /\ \E e \in sWork.entries : e.id = i /\ e.tape = id
  <2>1. Sound(sWork) /\ id \in Nat
    BY <1>2 DEF Stored, Sqlite!TapeId, Bases
  <2> QED BY <2>1, <1>4, <1>6, <1>7
<1> HIDE DEF i, id
<1>9. /\ Sound(sWork') /\ Fit(sWork') /\ LogOf(sWork') = LogOf(sWork)
      /\ sWork'.entries = sWork.entries /\ sWork'.tapes = sWork.tapes /\ sWork'.hasTable = TRUE
  <2>1. sWork' = WithVector(sWork, row, id, i)
    BY <1>5 DEF WithVector
  <2>2. row \in Nat /\ \A x \in sWork.index : x.row # row
    <3> DEFINE rows == {x.row : x \in sWork.index}
    <3>1. rows \subseteq Nat /\ Bounded(rows)
      BY <1>8 DEF Sound, RowsBounded, Bases, IndexRows
    <3>2. \A x \in sWork.index : x.row \in rows
      OBVIOUS
    <3> HIDE DEF rows
    <3>3. Sqlite!NextRow(rows) \in Nat /\ Sqlite!NextRow(rows) \notin rows
      BY <3>1, FreshRow
    <3> QED BY <3>2, <3>3 DEF rows
  <2> HIDE DEF row
  <2>3. sWork.hasTable = TRUE /\ Fit(sWork)
    BY <1>3
  <2>4. Sound(sWork')
    BY <2>1, <2>2, <2>3, <1>8, VectorInserted
  <2>5. Fit(sWork')
    BY <2>1, <2>2, <2>3, <1>8, VectorInserted
  <2>7. sWork'.entries = sWork.entries
    BY <2>1, <1>8 DEF WithVector, Sound, Bases
  <2>8. sWork'.tapes = sWork.tapes
    BY <2>1, <1>8 DEF WithVector, Sound, Bases
  <2>6. LogOf(sWork') = LogOf(sWork)
    BY <2>7, <2>8 DEF LogOf, Sqlite!EntriesOf
  <2>9. sWork'.hasTable = TRUE
    BY <2>1, <2>2, <2>3, <1>8, VectorInserted
  <2> QED BY <2>4, <2>5, <2>6, <2>7, <2>8, <2>9
<1> HIDE DEF row
<1>10. sTodo' \in [SCalls -> SUBSET Nat] /\ sTodo'[c] = sTodo[c] \ {i}
  BY <1>2, <1>5, <1>6 DEF Stored
<1>11. Stored'
  <2>1. sWork' \in Bases
    BY <1>9 DEF Sound
  <2>2. sConn' /\ ~sDims' => FALSE
    BY <1>2, <1>3, <1>5 DEF Stored
  <2> QED BY <2>1, <2>2, <1>2, <1>3, <1>5, <1>9, <1>10 DEF Stored
<1>12. p = IF sTodo'[c] = {} THEN "commit" ELSE "index"
  BY <1>1 DEF Sqlite!NextPc
<1>13. CASE sTodo'[c] = {}
  BY <1>13, <1>2, <1>3, <1>5, <1>9, <1>11, <1>12 DEF At, StatementPcs, Sqlite!Inside, NamesAt
<1>14. CASE sTodo'[c] # {}
  <2>1. Sqlite!TapeId(o.tape)' = id
    BY <1>9 DEF Sqlite!TapeId, id
  <2>2. (/\ sTodo[c] # {}
         /\ \A n \in sTodo[c] :
              \E e \in sWork.entries : e.id = n /\ e.tape = Sqlite!TapeId(o.tape))'
    BY <2>1, <1>4, <1>9, <1>10, <1>14
  <2> QED
    BY <2>2, <1>14, <1>2, <1>3, <1>5, <1>9, <1>11, <1>12
    DEF At, StatementPcs, Sqlite!Inside, NamesAt
<1> QED BY <1>5, <1>12, <1>13, <1>14

\* A query reads.
LEMMA FetchRuns ==
  ASSUME LiteInv, NEW c \in SCalls, NEW o, o = sOp[c], Sqlite!Fetch(c), NEW p, p = Sqlite!NextPc(c)
  PROVE  Stored' /\ At(c, o, p)' /\ p = "asked" /\ UNCHANGED <<sCommitted, sDisk>>
<1>1. sPc[c] \in {"fetch", "nearest"} /\ sPc[c] \in StatementPcs
  BY DEF Sqlite!Fetch, StatementPcs
<1>2. Stored
  BY <1>1, Standing
<1>3. UNCHANGED <<sDisk, sWork, sInTx, sCommitted, sConn, sDims, sTodo>>
  BY DEF Sqlite!Fetch, Sqlite!db
<1>4. p = "asked"
  BY <1>1 DEF Sqlite!NextPc, Sqlite!After
<1>5. Stored'
  BY <1>2, <1>3 DEF Stored
<1> QED BY <1>3, <1>4, <1>5 DEF At, StatementPcs, Sqlite!Inside

\* A statement leaves the store sound; only a COMMIT changes what is committed.
LEMMA StatementRuns ==
  ASSUME LiteInv, NEW c \in SCalls, NEW o, o = sOp[c], Sqlite!Statement(c), NEW p,
         p = Sqlite!NextPc(c)
  PROVE  /\ Stored' /\ At(c, o, p)' /\ p \in StatementPcs \cup Sqlite!Ended /\ p # "failed"
         /\ sPc[c] \in StatementPcs
         /\ \/ UNCHANGED <<sCommitted, sDisk>> /\ p # "ok"
            \/ /\ sPc[c] = "commit" /\ sDisk' = sWork
               /\ (o.name = "search" => p = "nearest" /\ UNCHANGED sCommitted)
               /\ (o.name # "search" => p = "ok" /\ sCommitted' = sCommitted \cup {c})
<1> USE DEF StatementPcs, Sqlite!Ended
<1>1. CASE Sqlite!Connect(c)
  BY <1>1, ConnectRuns DEF Sqlite!Connect, Sqlite!db
<1>2. CASE Sqlite!Begin(c)
  BY <1>2, BeginRuns DEF Sqlite!Begin
<1>3. CASE Sqlite!InsertTape(c)
  BY <1>3, InsertTapeRuns DEF Sqlite!InsertTape
<1>4. CASE Sqlite!InsertEntry(c)
  BY <1>4, InsertEntryRuns DEF Sqlite!InsertEntry
<1>5. CASE Sqlite!DeleteVectors(c)
  BY <1>5, DeleteVectorsRuns DEF Sqlite!DeleteVectors
<1>6. CASE Sqlite!DeleteTape(c)
  BY <1>6, DeleteTapeRuns DEF Sqlite!DeleteTape
<1>7. CASE Sqlite!Commit(c)
  BY <1>7, CommitRuns DEF Sqlite!Commit
<1>8. CASE Sqlite!Close(c)
  BY <1>8, CloseRuns DEF Sqlite!Close
<1>9. CASE Sqlite!FindUnindexed(c)
  BY <1>9, FindUnindexedRuns DEF Sqlite!FindUnindexed
<1>10. CASE Sqlite!Embed(c)
  BY <1>10, EmbedRuns DEF Sqlite!Embed
<1>11. CASE Sqlite!EnsureTable(c)
  BY <1>11, EnsureTableRuns DEF Sqlite!EnsureTable
<1>12. CASE Sqlite!IndexVector(c)
  BY <1>12, IndexVectorRuns DEF Sqlite!IndexVector
<1>13. CASE Sqlite!Fetch(c)
  BY <1>13, FetchRuns DEF Sqlite!Fetch
<1> QED
  BY <1>1, <1>2, <1>3, <1>4, <1>5, <1>6, <1>7, <1>8, <1>9, <1>10, <1>11, <1>12, <1>13
  DEF Sqlite!Statement

\* A call runs its next statement,
LEMMA ProceedsKeeps ==
  ASSUME LiteInv, NEW c \in SCalls, Sqlite!Proceeds(c) PROVE LiteInv'
<1>1. Sqlite!Statement(c) /\ Sqlite!Goes(c, Sqlite!NextPc(c))
  BY DEF Sqlite!Proceeds
<1>3. PICK oo, pp : oo = sOp[c] /\ pp = Sqlite!NextPc(c)
  OBVIOUS
<1>4. /\ Stored' /\ At(c, oo, pp)' /\ pp \in StatementPcs \cup Sqlite!Ended
      /\ sPc[c] \in StatementPcs
      /\ sCommitted' \in {sCommitted, sCommitted \cup {c}}
      /\ (sCommitted' # sCommitted => pp = "ok")
      /\ (pp = "ok" => sCommitted' = sCommitted \cup {c})
  BY <1>1, <1>3, StatementRuns
<1>5. c \notin sCommitted
  BY <1>4, Standing
<1>6. Sqlite!Goes(c, pp)
  BY <1>1, <1>3
<1> QED BY <1>3, <1>4, <1>5, <1>6, CallMoves

\* is cancelled where it waits, or behind its statement,
LEMMA CancelledKeeps ==
  ASSUME LiteInv, NEW c \in SCalls, Sqlite!Cancelled(c) PROVE LiteInv'
<1>1. CASE /\ sPc[c] = "waiting" /\ Sqlite!Goes(c, "failed")
           /\ UNCHANGED <<Sqlite!db, sConn, sDims, sTodo, sCrashes>>
  <2>1. /\ sPc' = [sPc EXCEPT ![c] = "failed"] /\ sOp' = [sOp EXCEPT ![c] = Sqlite!NoOp]
        /\ sLock' = sLock /\ sLock # c
    BY <1>1 DEF Sqlite!Goes, Sqlite!Ended, LiteInv, LiteCallFits, StatementPcs
  <2>2. Stored'
    BY <1>1 DEF Sqlite!db, LiteInv, Stored
  <2>3. CallTypes'
    BY <1>1, <2>1 DEF Sqlite!db, LiteInv, CallTypes, LitePcs, Sqlite!Ended
  <2>4. ASSUME NEW d \in SCalls PROVE LiteCallFits(d)'
    <3>1. CASE d = c
      <4>1. sPc'[d] = "failed" /\ sOp'[d] = Sqlite!NoOp
        BY <2>1, <3>1 DEF LiteInv, CallTypes
      <4> QED BY <1>1, <2>1, <3>1, <4>1 DEF Sqlite!db, LiteCallFits, At, StatementPcs, Sqlite!Inside
    <3>2. CASE d # c
      <4>1. sPc'[d] = sPc[d] /\ sOp'[d] = sOp[d] /\ LiteCallFits(d)
        BY <2>1, <3>2 DEF LiteInv, CallTypes
      <4>2. UNCHANGED <<sDisk, sWork, sInTx, sConn, sTodo, sCommitted, sLock>>
        BY <1>1, <2>1 DEF Sqlite!db
      <4> QED BY <4>1, <4>2 DEF LiteCallFits, At, Sqlite!TapeId
    <3> QED BY <3>1, <3>2
  <2> QED BY <2>2, <2>3, <2>4 DEF LiteInv
<1>2. CASE /\ Sqlite!Running(c) /\ Sqlite!Statement(c) /\ Sqlite!Goes(c, "failed")
           /\ UNCHANGED sCrashes
  <2>1. PICK oo, pp : oo = sOp[c] /\ pp = Sqlite!NextPc(c)
    OBVIOUS
  <2>2. Stored' /\ sPc[c] \in StatementPcs /\ sCommitted' \in {sCommitted, sCommitted \cup {c}}
    BY <1>2, <2>1, StatementRuns
  <2>3. At(c, oo, "failed")'
    BY DEF At, StatementPcs, Sqlite!Inside
  <2> QED BY <1>2, <2>1, <2>2, <2>3, CallMoves DEF Sqlite!Ended
<1> QED BY <1>1, <1>2 DEF Sqlite!Cancelled

\* fails at it,
LEMMA RaisesKeeps ==
  ASSUME LiteInv, NEW c \in SCalls, Sqlite!Raises(c) PROVE LiteInv'
<1>1. sPc[c] \in StatementPcs
  BY DEF Sqlite!Raises, Sqlite!Running, LiteInv, CallTypes, LitePcs
<1>2. PICK oo : oo = sOp[c]
  OBVIOUS
<1>3. Stored /\ c \notin sCommitted
  BY <1>1, Standing
<1>4. Sqlite!Goes(c, "failed") /\ UNCHANGED <<sDisk, sCommitted, sConn, sDims, sTodo>>
  BY DEF Sqlite!Raises
<1>5. Stored'
  <2>1. (sWork' = sDisk /\ sInTx' = FALSE) \/ UNCHANGED <<sWork, sInTx>>
    BY DEF Sqlite!Raises
  <2>2. CASE sWork' = sDisk /\ sInTx' = FALSE
    BY <2>2, <1>3, <1>4 DEF Stored
  <2>3. CASE UNCHANGED <<sWork, sInTx>>
    BY <2>3, <1>3, <1>4 DEF Stored
  <2> QED BY <2>1, <2>2, <2>3
<1>6. At(c, oo, "failed")'
  BY DEF At, StatementPcs, Sqlite!Inside
<1> QED BY <1>1, <1>2, <1>3, <1>4, <1>5, <1>6, CallMoves DEF Sqlite!Ended

\* or misses its anchor.
LEMMA MissesKeeps ==
  ASSUME LiteInv, NEW c \in SCalls, Sqlite!Misses(c) PROVE LiteInv'
<1>1. sPc[c] \in StatementPcs
  BY DEF Sqlite!Misses, StatementPcs
<1>2. PICK oo : oo = sOp[c]
  OBVIOUS
<1>3. Stored /\ c \notin sCommitted
  BY <1>1, Standing
<1>4. PICK q \in Sqlite!Slices : Sqlite!Goes(c, IF q.kind = "all" THEN "asked" ELSE "failed")
  BY DEF Sqlite!Misses
<1>5. PICK p : p = IF q.kind = "all" THEN "asked" ELSE "failed"
  OBVIOUS
<1>6. p \in Sqlite!Ended /\ p # "ok" /\ Sqlite!Goes(c, p)
  BY <1>4, <1>5 DEF Sqlite!Ended
<1>7. Stored'
  BY <1>3 DEF Sqlite!Misses, Sqlite!db, Stored
<1>8. At(c, oo, p)'
  BY <1>6 DEF At, StatementPcs, Sqlite!Inside, Sqlite!Ended
<1>9. sCommitted' = sCommitted
  BY DEF Sqlite!Misses, Sqlite!db
<1> QED BY <1>1, <1>2, <1>3, <1>6, <1>7, <1>8, <1>9, CallMoves

\* A call begins,
LEMMA LiteStartsKeeps ==
  ASSUME LiteInv, NEW c \in SCalls, Sqlite!Starts(c) PROVE LiteInv'
<1>1. PICK o \in Sqlite!Ops : sOp' = [sOp EXCEPT ![c] = o]
  BY DEF Sqlite!Starts
<1>2. /\ sPc[c] = "idle" /\ sPc' = [sPc EXCEPT ![c] = "waiting"]
      /\ UNCHANGED <<sDisk, sWork, sInTx, sCommitted, sConn, sDims, sLock, sTodo>>
  BY DEF Sqlite!Starts, Sqlite!db
<1>3. Stored'
  BY <1>2 DEF LiteInv, Stored
<1>4. CallTypes'
  BY <1>1, <1>2 DEF LiteInv, CallTypes, LitePcs
<1>5. ASSUME NEW d \in SCalls PROVE LiteCallFits(d)'
  <2>1. CASE d = c
    <3>1. sPc'[d] = "waiting" /\ sOp'[d] = o /\ sLock # c /\ c \notin sCommitted
      BY <1>1, <1>2, <2>1 DEF LiteInv, CallTypes, LiteCallFits, StatementPcs
    <3> QED BY <1>2, <2>1, <3>1 DEF LiteCallFits, At, StatementPcs, Sqlite!Inside
  <2>2. CASE d # c
    <3>1. sPc'[d] = sPc[d] /\ sOp'[d] = sOp[d] /\ LiteCallFits(d)
      BY <1>1, <1>2, <2>2 DEF LiteInv, CallTypes
    <3> QED BY <1>2, <3>1 DEF LiteCallFits, At, Sqlite!TapeId
  <2> QED BY <2>1, <2>2
<1> QED BY <1>3, <1>4, <1>5 DEF LiteInv

\* and takes the lock.
LEMMA LocksKeeps ==
  ASSUME LiteInv, NEW c \in SCalls, Sqlite!Locks(c) PROVE LiteInv'
<1>1. /\ sPc[c] = "waiting" /\ sLock = NoCall /\ c # NoCall
      /\ UNCHANGED <<sDisk, sWork, sInTx, sCommitted, sConn, sDims, sTodo>>
  BY SqlConstants DEF Sqlite!Locks, Sqlite!db, Sqlite!SqliteConstants
<1>2. /\ sOp[c] \in Sqlite!Ops /\ c \notin sCommitted
  BY <1>1 DEF LiteInv, LiteCallFits
<1>3. PICK p, k, o : /\ sPc' = [sPc EXCEPT ![c] = p] /\ sLock' = k /\ sOp' = [sOp EXCEPT ![c] = o]
                     /\ \/ p = "asked" /\ k = NoCall /\ o = Sqlite!NoOp
                        \/ p = "close" /\ k = c /\ o = sOp[c] /\ o.name = "close"
                        \/ p = "connect" /\ k = c /\ o = sOp[c] /\ o.name # "close"
  <2>1. CASE sOp[c].name = "close" /\ ~sConn
    <3>1. /\ sPc' = [sPc EXCEPT ![c] = "asked"] /\ sLock' = NoCall
          /\ sOp' = [sOp EXCEPT ![c] = Sqlite!NoOp]
      BY <1>1, <2>1 DEF Sqlite!Locks, Sqlite!Goes, Sqlite!Ended
    <3> QED BY <3>1
  <2>2. CASE ~(sOp[c].name = "close" /\ ~sConn)
    <3>1. /\ sPc' = [sPc EXCEPT ![c] = IF sOp[c].name = "close" THEN "close" ELSE "connect"]
          /\ sLock' = c /\ sOp' = sOp
      BY <2>2 DEF Sqlite!Locks
    <3>2. sOp' = [sOp EXCEPT ![c] = sOp[c]]
      BY <3>1 DEF LiteInv, CallTypes
    <3> QED BY <3>1, <3>2
  <2> QED BY <2>1, <2>2
<1>4. Stored'
  BY <1>1 DEF LiteInv, Stored
<1>5. CallTypes'
  BY <1>1, <1>2, <1>3 DEF LiteInv, CallTypes, LitePcs, StatementPcs, Sqlite!Ended
<1>6. ASSUME NEW d \in SCalls PROVE LiteCallFits(d)'
  <2>1. CASE d = c
    <3>1. sPc'[d] = p /\ sOp'[d] = o /\ p \in {"asked", "close", "connect"}
      BY <1>3, <2>1 DEF LiteInv, CallTypes
    <3>2. p # "asked" => o \in Sqlite!Ops /\ o.name \in NamesAt(p)
      BY <1>2, <1>3, NamesKnown DEF NamesAt
    <3> QED BY <1>1, <1>2, <1>3, <2>1, <3>1, <3>2 DEF LiteCallFits, At, StatementPcs, Sqlite!Inside
  <2>2. CASE d # c
    <3>1. sPc'[d] = sPc[d] /\ sOp'[d] = sOp[d] /\ LiteCallFits(d)
      BY <1>3, <2>2 DEF LiteInv, CallTypes
    <3>2. sPc[d] \notin StatementPcs /\ sLock' # d
      BY <1>1, <1>3, <2>2, <3>1, SqlConstants DEF LiteCallFits, Sqlite!SqliteConstants
    <3> QED BY <1>1, <3>1, <3>2 DEF LiteCallFits, At, Sqlite!TapeId
  <2> QED BY <2>1, <2>2
<1> QED BY <1>4, <1>5, <1>6 DEF LiteInv

\* Bub dies: what was not committed is gone.
LEMMA CrashKeeps ==
  ASSUME LiteInv, Sqlite!Crash PROVE LiteInv'
<1>1. /\ sPc' = [c \in SCalls |-> IF sPc[c] \in Sqlite!Ended \cup {"idle"}
                                  THEN sPc[c]
                                  ELSE "failed"]
      /\ sWork' = sDisk /\ sInTx' = FALSE /\ sConn' = FALSE /\ sDims' = FALSE /\ sLock' = NoCall
      /\ sOp' = [c \in SCalls |-> IF sPc[c] = "idle" THEN sOp[c] ELSE Sqlite!NoOp]
      /\ sTodo' = [c \in SCalls |-> {}] /\ UNCHANGED <<sDisk, sCommitted>>
  BY DEF Sqlite!Crash
<1>2. Stored'
  BY <1>1 DEF LiteInv, Stored
<1>3. CallTypes'
  BY <1>1 DEF LiteInv, CallTypes, LitePcs, Sqlite!Ended
<1>4. ASSUME NEW c \in SCalls PROVE LiteCallFits(c)'
  <2>1. /\ sPc'[c] \in Sqlite!Ended \cup {"idle"}
        /\ (sPc[c] \in Sqlite!Ended \cup {"idle"} => sPc'[c] = sPc[c])
        /\ (sPc[c] \notin Sqlite!Ended \cup {"idle"} => sPc'[c] = "failed")
    BY <1>1 DEF Sqlite!Ended
  <2>2. c # NoCall /\ LiteCallFits(c)
    BY SqlConstants DEF LiteInv, Sqlite!SqliteConstants
  <2> QED BY <1>1, <2>1, <2>2 DEF LiteCallFits, At, StatementPcs, Sqlite!Inside, Sqlite!Ended
<1> QED BY <1>2, <1>3, <1>4 DEF LiteInv

\* The initial states satisfy the invariant,
LEMMA LiteStarts == Sqlite!Init => LiteInv
<1> SUFFICES ASSUME Sqlite!Init PROVE LiteInv
  OBVIOUS
<1>1. /\ Sqlite!Empty \in Bases /\ Sound(Sqlite!Empty) /\ Fit(Sqlite!Empty)
      /\ Sqlite!Empty.hasTable = FALSE
  <2>1. /\ Sqlite!Empty.tapes = [t \in STapes |-> 0] /\ Sqlite!Empty.entries = {}
        /\ Sqlite!Empty.lastId = 0
        /\ Sqlite!Empty.index = {} /\ Sqlite!Empty.vectors = {} /\ Sqlite!Empty.hasTable = FALSE
        /\ Sqlite!Empty \in Bases
    BY DEF Sqlite!Empty, Bases
  <2>2. /\ Bounded({Sqlite!Empty.tapes[t] : t \in STapes})
        /\ Bounded({x.row : x \in Sqlite!Empty.index})
    BY <2>1 DEF Bounded
  <2>3. Sound(Sqlite!Empty)
    BY <2>1, <2>2
    DEF Sound, TapesApart, EntriesPlaced, IndexPlaced, IndexApart, RowsBounded, TableKeeps
  <2> QED BY <2>1, <2>3 DEF Fit, VectorsOf
<1>2. Stored
  BY <1>1 DEF Sqlite!Init, Stored
<1>3. CallTypes
  BY DEF Sqlite!Init, CallTypes, LitePcs
<1>4. ASSUME NEW c \in SCalls PROVE LiteCallFits(c)
  BY SqlConstants
  DEF Sqlite!Init, LiteCallFits, At, StatementPcs, Sqlite!Inside, Sqlite!SqliteConstants
<1> QED BY <1>2, <1>3, <1>4 DEF LiteInv

\* every step keeps it,
LEMMA LiteNext == LiteInv /\ [Sqlite!Next]_Sqlite!vars => LiteInv'
<1> SUFFICES ASSUME LiteInv, [Sqlite!Next]_Sqlite!vars PROVE LiteInv'
  OBVIOUS
<1>1. CASE Sqlite!Crash
  BY <1>1, CrashKeeps
<1>2. ASSUME NEW c \in SCalls,
             Sqlite!Starts(c) \/ Sqlite!Locks(c) \/ Sqlite!Proceeds(c) \/ Sqlite!Misses(c)
               \/ Sqlite!Raises(c) \/ Sqlite!Cancelled(c)
      PROVE  LiteInv'
  BY <1>2, LiteStartsKeeps, LocksKeeps, ProceedsKeeps, MissesKeeps, RaisesKeeps, CancelledKeeps
<1>3. CASE UNCHANGED Sqlite!vars
  BY <1>3 DEF Sqlite!vars, Sqlite!db, LiteInv, Stored, CallTypes, LiteCallFits, At, Sqlite!TapeId
<1> QED BY <1>1, <1>2, <1>3 DEF Sqlite!Next

\* and so it holds always:
LEMMA LiteInvHolds == Sqlite!Spec => []LiteInv
BY LiteStarts, LiteNext, PTL DEF Sqlite!Spec

\* Queries.
Is(e, n) == e.name # Plain /\ n \in {Plain, e.name}
LiteOpens(es, q, e) == Is(e, q.from) /\ \A f \in es : f.id > e.id => ~Is(f, q.from)
Past(es, q, e) == q.kind = "all" \/ \E o \in es : LiteOpens(es, q, o) /\ o.id < e.id
Before(es, q, e) ==
  q.kind # "between" \/
    \E k \in es : /\ Is(k, q.to) /\ e.id < k.id
                 /\ \A o \in es : LiteOpens(es, q, o) =>
                      \A m \in es : o.id < m.id /\ m.id < k.id => ~Is(m, q.to)
SliceOf(es, q) == {e.id : e \in {f \in es : Past(es, q, f) /\ Before(es, q, f)}}

\* What the bounds of a query let through.
IdsWithin(t, b) == {e.id : e \in Sqlite!Within(t, b)}
\* The bounds that _resolve_bounds finds cut the slice that is asked for:
LEMMA BoundsCut ==
  ASSUME Sound(sWork), NEW t \in STapes, NEW q \in Sqlite!Slices, NEW b \in Sqlite!Bounds(t, q)
  PROVE  IdsWithin(t, b) = SliceOf(Sqlite!EntriesOf(sWork, t), q)
<1> DEFINE es == Sqlite!EntriesOf(sWork, t)
           from == Sqlite!AnchorIds(t, q.from, 0)
           high == Sqlite!Highest(from)
           to == Sqlite!AnchorIds(t, q.to, high)
           low == Sqlite!Lowest(to)
<1>1. /\ sWork.lastId \in Nat
      /\ \A e \in es : e.id \in Nat /\ 0 < e.id /\ e.id <= sWork.lastId
  <2>1. sWork.lastId \in Nat /\ sWork.entries \subseteq EntryRows
    BY DEF Sound, Bases
  <2>2. \A e \in sWork.entries : e.id \in Nat /\ e.id \in 1 .. sWork.lastId
    BY <2>1 DEF Sound, EntriesPlaced, EntryRows
  <2> QED BY <2>1, <2>2 DEF Sqlite!EntriesOf
<1>2. q.kind \in {"all", "last", "after", "between"}
  BY DEF Sqlite!Slices
<1>3. \A e \in es : e \in Sqlite!Within(t, b) <=> b[1] < e.id /\ e.id < b[2]
  BY DEF Sqlite!Within
<1>4. Sqlite!Within(t, b) \subseteq es
  BY DEF Sqlite!Within
<1>5. \A n, a : Sqlite!AnchorIds(t, n, a) = {e.id : e \in {x \in es : Is(x, n) /\ x.id > a}}
  BY DEF Sqlite!AnchorIds, Is
<1> HIDE DEF es
<1>6. SUFFICES \A e \in es : b[1] < e.id /\ e.id < b[2] <=> Past(es, q, e) /\ Before(es, q, e)
  BY <1>3, <1>4 DEF SliceOf, es, IdsWithin
<1>7. CASE q.kind = "all"
  <2>1. b = <<0, sWork.lastId + 1>>
    BY <1>7 DEF Sqlite!Bounds
  <2> QED BY <2>1, <1>1, <1>7 DEF Past, Before
<1>8. CASE q.kind # "all"
  <2>1. from # {}
    BY <1>8 DEF Sqlite!Bounds
  <2>2. from \subseteq Nat /\ Bounded(from)
    <3>1. from \subseteq Nat /\ \A i \in from : i <= sWork.lastId
      BY <1>1, <1>5
    <3> HIDE DEF from
    <3> QED BY <3>1, <1>1 DEF Bounded
  <2>3. high \in from /\ \A k \in from : k <= high
    <3> HIDE DEF from
    <3> QED BY <2>1, <2>2, Greatest DEF Sqlite!Highest
  <2>4. \A e \in es : Is(e, q.from) <=> e.id \in from /\ Is(e, q.from)
    BY <1>1, <1>5
  <2>5. \A i \in from : \E e \in es : e.id = i /\ Is(e, q.from)
    BY <1>1, <1>5
  <2>6. Sqlite!Bounds(t, q) =
          CASE q.kind = "all" -> {<<0, sWork.lastId + 1>>}
            [] q.kind # "all" /\ from = {} -> {}
            [] q.kind \in {"last", "after"} /\ from # {} -> {<<high, sWork.lastId + 1>>}
            [] q.kind = "between" /\ from # {} ->
                 {<<high, low>> : x \in IF to = {} THEN {} ELSE {0}}
    BY DEF Sqlite!Bounds
  <2>7. \A i : i \in to <=> \E e \in es : Is(e, q.to) /\ e.id > high /\ e.id = i
    BY <1>5
  <2> HIDE DEF from, high, to, low
  <2>8. high \in Nat
    BY <2>2, <2>3
  <2>9. \A o \in es : LiteOpens(es, q, o) => o.id = high
    BY <2>3, <2>4, <2>5, <2>8, <1>1 DEF LiteOpens
  <2>10. \E o \in es : LiteOpens(es, q, o)
    BY <2>3, <2>4, <2>5, <2>8, <1>1 DEF LiteOpens
  <2>11. \A e \in es : Past(es, q, e) <=> high < e.id
    BY <2>9, <2>10, <1>8 DEF Past
  <2>12. CASE q.kind \in {"last", "after"}
    <3>1. b = <<high, sWork.lastId + 1>>
      BY <2>1, <2>6, <2>12
    <3> QED BY <3>1, <2>11, <2>12, <1>1 DEF Before
  <2>13. CASE q.kind = "between"
    <3>1. to # {} /\ b = <<high, low>>
      BY <2>1, <2>6, <2>13
    <3>2. to \subseteq Nat
      BY <2>7, <1>1
    <3>3. low \in to /\ \A k \in to : low <= k
      <4>1. \E n \in to : \A k \in to : n <= k
        BY <3>1, <3>2, Least
      <4> QED BY <4>1 DEF low, Sqlite!Lowest
    <3>4. \A e \in es : high < e.id => (Before(es, q, e) <=> e.id < low)
      <4> SUFFICES ASSUME NEW e \in es, high < e.id PROVE Before(es, q, e) <=> e.id < low
        OBVIOUS
      <4>1. ASSUME Before(es, q, e) PROVE e.id < low
        <5>1. PICK k \in es : /\ Is(k, q.to) /\ e.id < k.id
                              /\ \A o \in es : LiteOpens(es, q, o) =>
                                   \A m \in es : o.id < m.id /\ m.id < k.id => ~Is(m, q.to)
          BY <4>1, <2>13 DEF Before
        <5>2. \A m \in es : high < m.id /\ m.id < k.id => ~Is(m, q.to)
          BY <5>1, <2>9, <2>10
        <5>3. PICK m \in es : Is(m, q.to) /\ m.id > high /\ m.id = low
          BY <3>3, <2>7
        <5>4. ~(m.id < k.id)
          BY <5>2, <5>3, <1>1, <2>8
        <5> QED BY <5>1, <5>3, <5>4, <1>1
      <4>2. ASSUME e.id < low PROVE Before(es, q, e)
        <5>1. PICK k \in es : Is(k, q.to) /\ k.id > high /\ k.id = low
          BY <3>3, <2>7
        <5>2. \A m \in es : high < m.id /\ m.id < k.id => ~Is(m, q.to)
          BY <5>1, <3>2, <3>3, <2>7, <2>8, <1>1
        <5>3. \A o \in es : LiteOpens(es, q, o) =>
                \A m \in es : o.id < m.id /\ m.id < k.id => ~Is(m, q.to)
          BY <5>2, <2>9
        <5> QED BY <4>2, <5>1, <5>3 DEF Before
      <4> QED BY <4>1, <4>2
    <3> QED BY <3>1, <3>4, <2>11
  <2> QED BY <2>12, <2>13, <1>2, <1>8
<1> QED BY <1>7, <1>8

\* queries stay inside it,
LEMMA QueriesAreInside == LiteInv => Sqlite!QueriesStayInside
<1> SUFFICES ASSUME LiteInv, NEW c \in SCalls, sPc[c] \in {"fetch", "nearest"},
  NEW q \in Sqlite!Slices
             PROVE  /\ \A a \in Sqlite!Fetched(sOp[c].tape, q) :
                      a = SliceOf(Sqlite!EntriesOf(sWork, sOp[c].tape), q)
                    /\ \A a \in Sqlite!Found(sOp[c].tape, q) :
                         a \subseteq SliceOf(Sqlite!EntriesOf(sWork, sOp[c].tape), q)
  BY Zenon DEF Sqlite!QueriesStayInside, SliceOf, Past, Before, LiteOpens, Is
<1>0. PICK t : t = sOp[c].tape
  OBVIOUS
<1>1. Sound(sWork) /\ t \in STapes
  <2>1. sPc[c] \in StatementPcs /\ sPc[c] # "close"
    BY DEF StatementPcs
  <2> QED BY <2>1, <1>0, Standing DEF Stored
<1>2. \A b \in Sqlite!Bounds(t, q) : IdsWithin(t, b) = SliceOf(Sqlite!EntriesOf(sWork, t), q)
  BY <1>1, BoundsCut
<1>3. \A a \in Sqlite!Fetched(t, q) : \E b \in Sqlite!Bounds(t, q) : a = IdsWithin(t, b)
  BY DEF Sqlite!Fetched, IdsWithin
<1>4. \A a \in Sqlite!Found(t, q) : \E b \in Sqlite!Bounds(t, q) : a \subseteq IdsWithin(t, b)
  BY DEF Sqlite!Found, IdsWithin
<1> QED BY <1>0, <1>2, <1>3, <1>4

\* and the vectors are those of the index.
LEMMA VectorsMatch == LiteInv => Sqlite!VectorsMatchIndex
BY DEF LiteInv, Stored, Sound, IndexPlaced, Fit, VectorsOf, Sqlite!VectorsMatchIndex

\* A step of which the log sees nothing.
LEMMA LiteLogUnseen ==
  ASSUME LogOf(sDisk') = LogOf(sDisk), \A c \in SCalls : Sqlite!FateOf(c)' = Sqlite!FateOf(c)
  PROVE  UNCHANGED Sqlite!Log!vars
  BY DEF Sqlite!Log!vars, LogOf

\* The call that has run: the others are told as before.
LEMMA OthersTold ==
  ASSUME LiteInv, NEW c \in SCalls, NEW p, Sqlite!Goes(c, p),
         sCommitted' \in {sCommitted, sCommitted \cup {c}}
  PROVE  \A d \in SCalls : d # c => Sqlite!FateOf(d)' = Sqlite!FateOf(d)
<1> SUFFICES ASSUME NEW d \in SCalls, d # c PROVE Sqlite!FateOf(d)' = Sqlite!FateOf(d)
  OBVIOUS
<1>1. sPc'[d] = sPc[d]
  BY DEF Sqlite!Goes, LiteInv, CallTypes
<1>2. d \in sCommitted' <=> d \in sCommitted
  OBVIOUS
<1> QED BY <1>1, <1>2 DEF Sqlite!FateOf

\* Where a call stands once it has gone.
LEMMA GoesTo ==
  ASSUME LiteInv, NEW c \in SCalls, NEW p, Sqlite!Goes(c, p)
  PROVE  sPc'[c] = p
  BY DEF Sqlite!Goes, LiteInv, CallTypes

\* A call that runs is pending.
LEMMA IsPending ==
  ASSUME LiteInv, NEW c \in SCalls, sPc[c] \in StatementPcs \cup {"waiting"}
  PROVE  Sqlite!FateOf(c) = "pending" /\ c \notin sCommitted
  BY DEF LiteInv, LiteCallFits, Sqlite!FateOf, StatementPcs, Sqlite!Ended

\* A call that ends, or goes on, without anything committed.
LEMMA LogKept ==
  ASSUME LiteInv, NEW c \in SCalls, sPc[c] \in StatementPcs \cup {"waiting"}, NEW p, p # "ok",
         p \in StatementPcs \cup Sqlite!Ended, Sqlite!Goes(c, p), LogOf(sDisk') = LogOf(sDisk),
           UNCHANGED sCommitted
  PROVE  [Sqlite!Log!Next]_(Sqlite!Log!vars)
<1>1. Sqlite!FateOf(c) = "pending" /\ c \notin sCommitted
  BY IsPending
<1>2. \A d \in SCalls : d # c => Sqlite!FateOf(d)' = Sqlite!FateOf(d)
  BY OthersTold
<1>3. Sqlite!FateOf(c)' = IF p \in Sqlite!Ended THEN p ELSE "pending"
  BY <1>1, GoesTo DEF Sqlite!FateOf, Sqlite!Ended, StatementPcs
<1>4. UNCHANGED [t \in STapes |-> Sqlite!EntriesOf(sDisk, t)]
  BY DEF LogOf
<1>5. CASE p = "asked"
  <2>1. Sqlite!Log!Asked(c)
    BY <1>1, <1>2, <1>3, <1>4, <1>5 DEF Sqlite!Log!Asked, Sqlite!Log!Becomes, Sqlite!Ended
  <2> QED BY <2>1 DEF Sqlite!Log!Next
<1>6. CASE p = "failed"
  <2>1. Sqlite!Log!Failed({c})
    BY <1>1, <1>2, <1>3, <1>4, <1>6 DEF Sqlite!Log!Failed, Sqlite!Ended
  <2> QED BY <2>1 DEF Sqlite!Log!Next
<1>7. CASE p \notin Sqlite!Ended
  <2>1. \A d \in SCalls : Sqlite!FateOf(d)' = Sqlite!FateOf(d)
    BY <1>1, <1>2, <1>3, <1>7
  <2> QED BY <2>1, LiteLogUnseen
<1> QED BY <1>5, <1>6, <1>7 DEF Sqlite!Ended

\* A COMMIT of an append or a reset.
LEMMA LogWritten ==
  ASSUME LiteInv, NEW c \in SCalls, NEW o, o = sOp[c], sPc[c] = "commit", o.name # "search", NEW p,
         Sqlite!Goes(c, p),
         sDisk' = sWork, sCommitted' = sCommitted \cup {c}
  PROVE  Sqlite!Log!Next
<1>1. /\ At(c, o, "commit") /\ o.name \in {"append", "reset"} /\ o.tape \in STapes
  BY Standing DEF StatementPcs, NamesAt
<1>2. Sqlite!FateOf(c) = "pending"
  BY IsPending DEF StatementPcs
<1>3. \A d \in SCalls : d # c => Sqlite!FateOf(d)' = Sqlite!FateOf(d)
  BY OthersTold
<1>4. Sqlite!FateOf(c)' = "done"
  BY DEF Sqlite!FateOf
<1>5. CASE o.name = "append"
  <2>1. PICK new \in EntryRows : /\ \A e \in Sqlite!EntriesOf(sDisk, o.tape) : e.id < new.id
                                 /\ LogOf(sWork) = [LogOf(sDisk) EXCEPT ![o.tape] = @ \cup {new}]
    BY <1>1, <1>5 DEF At
  <2>2. LogOf(sDisk') = [LogOf(sDisk) EXCEPT ![o.tape] = @ \cup {new}]
    BY <2>1
  <2>3. new \in LogOf(sDisk')[o.tape]
    BY <1>1, <2>2 DEF LogOf
  <2>4. LogOf(sDisk)[o.tape] = Sqlite!EntriesOf(sDisk, o.tape)
    BY <1>1 DEF LogOf
  <2>5. Sqlite!Log!Appended(c, o.tape)
    <3>1. Sqlite!Log!Becomes(c, "done")
      BY <1>2, <1>3, <1>4 DEF Sqlite!Log!Becomes
    <3>2. \A e \in LogOf(sDisk)[o.tape] : e.id < new.id
      BY <2>1, <2>4
    <3> QED BY <3>1, <3>2, <2>2, <2>3 DEF Sqlite!Log!Appended, LogOf
  <2> QED BY <1>1, <2>5 DEF Sqlite!Log!Next
<1>6. CASE o.name = "reset"
  <2>1. LogOf(sDisk') = [LogOf(sDisk) EXCEPT ![o.tape] = {}]
    BY <1>1, <1>6 DEF At
  <2>2. Sqlite!Log!Reset({c}, o.tape)
    BY <1>2, <1>3, <1>4, <2>1 DEF Sqlite!Log!Reset, LogOf
  <2> QED BY <1>1, <2>2 DEF Sqlite!Log!Next
<1> QED BY <1>1, <1>5, <1>6

\* Every step is a step of the log, or none.
LEMMA LiteStepLogs ==
  ASSUME LiteInv, [Sqlite!Next]_Sqlite!vars PROVE [Sqlite!Log!Next]_(Sqlite!Log!vars)
<1>1. CASE UNCHANGED Sqlite!vars
  BY <1>1, LiteLogUnseen DEF Sqlite!vars, Sqlite!db, Sqlite!FateOf, LogOf, Sqlite!EntriesOf
<1>2. CASE Sqlite!Crash
  <2> DEFINE cs == {c \in SCalls : sPc[c] \notin Sqlite!Ended \cup {"idle"}}
             es == {c \in SCalls : Sqlite!FateOf(c) = "pending" /\ sPc[c] # "idle"}
  <2>1. /\ sPc' = [c \in SCalls |-> IF sPc[c] \in Sqlite!Ended \cup {"idle"}
                                    THEN sPc[c]
                                    ELSE "failed"]
        /\ UNCHANGED <<sDisk, sCommitted>>
    BY <1>2 DEF Sqlite!Crash
  <2>2. \A c \in cs : Sqlite!FateOf(c) = "pending" /\ Sqlite!FateOf(c)' = "failed"
    BY <2>1 DEF Sqlite!FateOf, Sqlite!Ended, LiteInv, LiteCallFits
  <2>3. \A c \in SCalls \ cs : Sqlite!FateOf(c)' = Sqlite!FateOf(c)
    BY <2>1 DEF Sqlite!FateOf
  <2> HIDE DEF cs
  <2>4. cs \subseteq SCalls
    BY DEF cs
  <2>5. Sqlite!Log!Failed(cs)
    BY <2>1, <2>2, <2>3, <2>4 DEF Sqlite!Log!Failed, Sqlite!EntriesOf
  <2> QED BY <2>4, <2>5 DEF Sqlite!Log!Next
<1>3. ASSUME NEW c \in SCalls, Sqlite!Starts(c) PROVE UNCHANGED Sqlite!Log!vars
  <2>1. sPc[c] = "idle" /\ sPc' = [sPc EXCEPT ![c] = "waiting"] /\ UNCHANGED <<sDisk, sCommitted>>
    BY <1>3 DEF Sqlite!Starts, Sqlite!db
  <2>2. \A d \in SCalls : Sqlite!FateOf(d)' = Sqlite!FateOf(d)
    BY <2>1 DEF Sqlite!FateOf, Sqlite!Ended, LiteInv, CallTypes
  <2> QED BY <2>1, <2>2, LiteLogUnseen DEF LogOf
<1>4. ASSUME NEW c \in SCalls, Sqlite!Locks(c) PROVE [Sqlite!Log!Next]_(Sqlite!Log!vars)
  <2>1. sPc[c] = "waiting" /\ UNCHANGED <<sDisk, sCommitted>>
    BY <1>4 DEF Sqlite!Locks, Sqlite!db
  <2>2. CASE Sqlite!Goes(c, "asked")
    BY <2>1, <2>2, LogKept DEF Sqlite!Ended, LogOf
  <2>3. CASE ~Sqlite!Goes(c, "asked")
    <3>1. PICK p \in {"close", "connect"} : sPc' = [sPc EXCEPT ![c] = p]
      BY <1>4, <2>3 DEF Sqlite!Locks
    <3>2. \A d \in SCalls : Sqlite!FateOf(d)' = Sqlite!FateOf(d)
      BY <2>1, <3>1 DEF Sqlite!FateOf, Sqlite!Ended, LiteInv, CallTypes
    <3> QED BY <2>1, <3>2, LiteLogUnseen DEF LogOf
  <2> QED BY <2>2, <2>3
<1>5. ASSUME NEW c \in SCalls, Sqlite!Misses(c) PROVE [Sqlite!Log!Next]_(Sqlite!Log!vars)
  <2>1. PICK q \in Sqlite!Slices : Sqlite!Goes(c, IF q.kind = "all" THEN "asked" ELSE "failed")
    BY <1>5 DEF Sqlite!Misses
  <2>2. PICK p \in {"asked", "failed"} : Sqlite!Goes(c, p)
    BY <2>1
  <2>3. sPc[c] \in StatementPcs /\ UNCHANGED <<sDisk, sCommitted>>
    BY <1>5 DEF Sqlite!Misses, StatementPcs, Sqlite!db
  <2> QED BY <2>2, <2>3, LogKept DEF Sqlite!Ended, LogOf
<1>6. ASSUME NEW c \in SCalls, Sqlite!Raises(c) PROVE [Sqlite!Log!Next]_(Sqlite!Log!vars)
  <2>1. sPc[c] \in StatementPcs
    BY <1>6 DEF Sqlite!Raises, Sqlite!Running, LiteInv, CallTypes, LitePcs
  <2>2. Sqlite!Goes(c, "failed") /\ UNCHANGED <<sDisk, sCommitted>>
    BY <1>6 DEF Sqlite!Raises
  <2> QED BY <2>1, <2>2, LogKept DEF Sqlite!Ended, LogOf
<1>7. ASSUME NEW c \in SCalls, Sqlite!Statement(c), NEW p, Sqlite!Goes(c, p),
        p = Sqlite!NextPc(c) \/ p = "failed"
      PROVE  [Sqlite!Log!Next]_(Sqlite!Log!vars)
  <2>1. PICK o, n : o = sOp[c] /\ n = Sqlite!NextPc(c)
    OBVIOUS
  <2>2. /\ n \in StatementPcs \cup Sqlite!Ended /\ n # "failed" /\ sPc[c] \in StatementPcs
        /\ \/ UNCHANGED <<sCommitted, sDisk>> /\ n # "ok"
           \/ /\ sPc[c] = "commit" /\ sDisk' = sWork
              /\ (o.name = "search" => n = "nearest" /\ UNCHANGED sCommitted)
              /\ (o.name # "search" => n = "ok" /\ sCommitted' = sCommitted \cup {c})
    BY <1>7, <2>1, StatementRuns
  <2>3. p \in StatementPcs \cup Sqlite!Ended /\ (p = "ok" => n = "ok")
    BY <1>7, <2>1, <2>2 DEF Sqlite!Ended
  <2>4. CASE UNCHANGED <<sCommitted, sDisk>> /\ n # "ok"
    BY <1>7, <2>2, <2>3, <2>4, LogKept DEF LogOf
  <2>5. CASE /\ sPc[c] = "commit" /\ sDisk' = sWork /\ o.name = "search" /\ n = "nearest"
             /\ UNCHANGED sCommitted
    <3>1. At(c, o, "commit")
      BY <2>1, <2>2, <2>5, Standing
    <3>2. LogOf(sWork) = LogOf(sDisk)
      BY <2>5, <3>1 DEF At
    <3> QED BY <1>7, <2>2, <2>3, <2>5, <3>2, LogKept
  <2>6. CASE /\ sPc[c] = "commit" /\ sDisk' = sWork /\ o.name # "search"
             /\ sCommitted' = sCommitted \cup {c}
    BY <1>7, <2>1, <2>6, LogWritten
  <2> QED BY <2>2, <2>4, <2>5, <2>6
<1>8. ASSUME NEW c \in SCalls, Sqlite!Proceeds(c) PROVE [Sqlite!Log!Next]_(Sqlite!Log!vars)
  BY <1>7, <1>8 DEF Sqlite!Proceeds
<1>9. ASSUME NEW c \in SCalls, Sqlite!Cancelled(c) PROVE [Sqlite!Log!Next]_(Sqlite!Log!vars)
  <2>1. CASE /\ sPc[c] = "waiting" /\ Sqlite!Goes(c, "failed")
             /\ UNCHANGED <<Sqlite!db, sConn, sDims, sTodo, sCrashes>>
    BY <2>1, LogKept DEF Sqlite!Ended, LogOf, Sqlite!db
  <2>2. CASE Sqlite!Statement(c) /\ Sqlite!Goes(c, "failed")
    BY <1>7, <2>2
  <2> QED BY <1>9, <2>1, <2>2 DEF Sqlite!Cancelled
<1> QED BY <1>1, <1>2, <1>3, <1>4, <1>5, <1>6, <1>8, <1>9 DEF Sqlite!Next

\* At first the log is empty.
LEMMA LiteInitLogs == Sqlite!Init => Sqlite!Log!Init
  BY DEF Sqlite!Init, Sqlite!Log!Init, Sqlite!Empty, Sqlite!EntriesOf, Sqlite!FateOf, Sqlite!Ended

\* Hence a SQLite store is a log.
LEMMA LiteLogs == Sqlite!Spec => Sqlite!ImplementsTapeLog
<1>1. LiteInv /\ [Sqlite!Next]_Sqlite!vars => [Sqlite!Log!Next]_(Sqlite!Log!vars)
  BY LiteStepLogs
<1> QED
  BY <1>1, LiteInitLogs, LiteInvHolds, PTL
  DEF Sqlite!Spec, Sqlite!ImplementsTapeLog, Sqlite!Log!Spec

-----------------------------------------------------------------------------
(***************************************************************************)
(* Loops: a recursive function over the places of a sequence               *)
(***************************************************************************)

\* A set that has 0, and a number whenever it has the one before, has them all.
LEMMA UpTo ==
  ASSUME NEW n \in Nat, NEW good, 0 \in good, \A m \in 1 .. n : m - 1 \in good => m \in good
  PROVE  \A m \in 0 .. n : m \in good
<1> DEFINE bad == {m \in 0 .. n : m \notin good}
<1> SUFFICES ASSUME bad # {} PROVE FALSE
  OBVIOUS
<1>1. PICK m \in bad : \A k \in bad : m <= k
  <2>1. bad \subseteq Nat
    OBVIOUS
  <2> HIDE DEF bad
  <2> QED BY <2>1, Least
<1>2. m \in 0 .. n /\ m \notin good /\ m # 0
  BY <1>1
<1>3. m \in 1 .. n /\ m - 1 \in 0 .. n /\ ~(m <= m - 1)
  BY <1>2
<1>4. m - 1 \notin bad
  <2> HIDE DEF bad
  <2> QED BY <1>1, <1>3
<1>5. m - 1 \in good
  BY <1>3, <1>4
<1> QED BY <1>2, <1>3, <1>5

\* f[m] is what m turns of a loop make of b.
Turns(f, n, S, b, F) ==
  /\ f \in [0 .. n -> S] /\ f[0] = b
  /\ \A m \in 1 .. n : f[m] = F[m][f[m - 1]]

LEMMA TurnMore ==
  ASSUME NEW S, NEW b, NEW F, NEW n \in Nat, n # 0, NEW f, Turns(f, n - 1, S, b, F),
         \A x \in S : F[n][x] \in S
  PROVE  \E g : Turns(g, n, S, b, F)
<1> DEFINE end == F[n][f[n - 1]]
           g == [m \in 0 .. n |-> IF m = n THEN end ELSE f[m]]
<1>1. n - 1 \in 0 .. n - 1 /\ n \in 0 .. n
  OBVIOUS
<1>2. f \in [0 .. n - 1 -> S] /\ f[n - 1] \in S
  BY <1>1 DEF Turns
<1>3. end \in S
  BY <1>2
<1>4. \A m \in 0 .. n - 1 : g[m] = f[m]
  OBVIOUS
<1>5. g[n] = end
  BY <1>1
<1> HIDE DEF end
<1>6. g \in [0 .. n -> S]
  BY <1>2, <1>3
<1> HIDE DEF g
<1>7. g[0] = b
  BY <1>4 DEF Turns
<1>8. ASSUME NEW m \in 1 .. n PROVE g[m] = F[m][g[m - 1]]
  <2>1. CASE m = n
    BY <1>1, <1>4, <1>5, <2>1 DEF end
  <2>2. CASE m # n
    <3>1. m \in 1 .. n - 1 /\ m - 1 \in 0 .. n - 1 /\ m \in 0 .. n - 1
      BY <2>2
    <3>2. f[m] = F[m][f[m - 1]]
      BY <3>1 DEF Turns
    <3>3. g[m] = f[m] /\ g[m - 1] = f[m - 1]
      BY <1>4, <3>1
    <3> QED BY <3>2, <3>3
  <2> QED BY <2>1, <2>2
<1> QED BY <1>6, <1>7, <1>8 DEF Turns

\* There is such a function.
LEMMA LoopExists ==
  ASSUME NEW n \in Nat, NEW S, NEW b \in S, NEW F, \A m \in 1 .. n : \A x \in S : F[m][x] \in S
  PROVE  \E f : Turns(f, n, S, b, F)
<1> DEFINE good == {m \in 0 .. n : \E f : Turns(f, m, S, b, F)}
<1>1. 0 \in good
  <2>1. Turns([m \in 0 .. 0 |-> b], 0, S, b, F)
    BY DEF Turns
  <2> QED BY <2>1
<1>2. ASSUME NEW m \in 1 .. n, m - 1 \in good PROVE m \in good
  <2>1. PICK f : Turns(f, m - 1, S, b, F)
    BY <1>2
  <2>2. \E g : Turns(g, m, S, b, F)
    BY <1>2, <2>1, TurnMore
  <2> QED BY <2>2
<1>3. n \in good
  <2> HIDE DEF good
  <2>1. \A m \in 0 .. n : m \in good
    BY <1>1, <1>2, UpTo
  <2> QED BY <2>1
<1> QED BY <1>3

-----------------------------------------------------------------------------
(***************************************************************************)
(* Exports of the tapes: what an export makes of a tape                    *)
(***************************************************************************)

\* Among is the last value of its loop.
AmongLoop(f, seq, S, T) ==
  /\ f \in [0 .. Len(seq) -> Seq(T)] /\ f[0] = <<>>
  /\ \A m \in 1 .. Len(seq) :
       f[m] = IF seq[m] \in S THEN Append(f[m - 1], seq[m]) ELSE f[m - 1]
  /\ Dataset!Among(seq, S) = f[Len(seq)]

LEMMA AmongTurns ==
  ASSUME NEW T, NEW seq \in Seq(T), NEW S PROVE \E f : AmongLoop(f, seq, S, T)
<1> DEFINE l == Len(seq)
           Turn(x, m) == IF seq[m] \in S THEN Append(x, seq[m]) ELSE x
           F == [m \in 1 .. l |-> [x \in Seq(T) |-> Turn(x, m)]]
           Turned(f, n) == IF n = 0 THEN <<>> ELSE Turn(f[n - 1], n)
           Solves(f) == f = [n \in 0 .. l |-> Turned(f, n)]
           g == CHOOSE f : Solves(f)
<1>1. l \in Nat
  OBVIOUS
<1>2. ASSUME NEW m \in 1 .. l, NEW x \in Seq(T) PROVE Turn(x, m) \in Seq(T)
  <2>1. seq[m] \in T
    OBVIOUS
  <2>2. Append(x, seq[m]) \in Seq(T)
    BY <2>1, AppendProperties
  <2> QED BY <2>2
<1>3. <<>> \in Seq(T)
  OBVIOUS
<1>4. Dataset!Among(seq, S) = g[l]
  BY DEF Dataset!Among
<1> HIDE DEF Turn
<1>5. \A m \in 1 .. l : \A x \in Seq(T) : F[m][x] = Turn(x, m) /\ F[m][x] \in Seq(T)
  BY <1>2
<1> HIDE DEF F, l
<1>6. PICK f : Turns(f, l, Seq(T), <<>>, F)
  BY <1>1, <1>3, <1>5, LoopExists
<1>7. f \in [0 .. l -> Seq(T)] /\ f[0] = <<>> /\ \A m \in 1 .. l : f[m] = F[m][f[m - 1]]
  BY <1>6 DEF Turns
<1>8. Solves(f)
  <2>1. ASSUME NEW n \in 0 .. l PROVE f[n] = Turned(f, n)
    <3>1. CASE n = 0
      BY <1>7, <3>1
    <3>2. CASE n # 0
      <4>1. n \in 1 .. l /\ n - 1 \in 0 .. l
        BY <1>1, <3>2
      <4>2. f[n - 1] \in Seq(T) /\ f[n] = F[n][f[n - 1]]
        BY <1>7, <4>1
      <4> QED BY <1>5, <3>2, <4>1, <4>2
    <3> QED BY <3>1, <3>2
  <2> HIDE DEF Turned
  <2> QED BY <1>7, <2>1
<1>9. Solves(g)
  <2> HIDE DEF Solves
  <2> QED BY <1>8
<1> HIDE DEF g
<1>10. DOMAIN g = 0 .. l /\ (\A n \in 0 .. l : g[n] = Turned(g, n)) /\ g = [n \in 0 .. l |-> g[n]]
  <2> HIDE DEF Turned
  <2> QED BY <1>9, Zenon
<1>11. g[0] = <<>> /\ \A n \in 1 .. l : g[n] = Turn(g[n - 1], n)
  <2>1. 0 \in 0 .. l /\ \A n \in 1 .. l : n \in 0 .. l /\ n # 0
    BY <1>1
  <2>2. g[0] = Turned(g, 0) /\ \A n \in 1 .. l : g[n] = Turned(g, n)
    BY <1>10, <2>1, Zenon
  <2> QED BY <2>1, <2>2
<1>12. \A n \in 0 .. l : g[n] \in Seq(T)
  <2> DEFINE good == {n \in 0 .. l : g[n] \in Seq(T)}
  <2>1. 0 \in good
    <3>1. 0 \in 0 .. l
      BY <1>1
    <3>2. g[0] \in Seq(T)
      BY <1>3, <1>11, Zenon
    <3> QED BY <3>1, <3>2, Zenon
  <2>2. \A m \in 1 .. l : m - 1 \in good => m \in good
    BY <1>1, <1>2, <1>11
  <2> HIDE DEF good
  <2>3. \A m \in 0 .. l : m \in good
    BY <1>1, <2>1, <2>2, UpTo
  <2> QED BY <2>3 DEF good
<1>13. g \in [0 .. l -> Seq(T)]
  BY <1>10, <1>12, Zenon
<1> QED BY <1>4, <1>11, <1>13 DEF l, Turn, AmongLoop

\* What Loop keeps from one entry to the next.
LoopState ==
  [rows : Seq([anchor : Nat, ids : Seq(Nat)]), anchor : Nat, entries : Seq(Nat)]
Fresh == [rows |-> <<>>, anchor |-> 0, entries |-> <<>>]
TapeEntry == [id : Nat \ {0}, kind : DKinds]

LEMMA ClosedRows ==
  ASSUME NEW s \in LoopState PROVE Dataset!Closed(s) \in Seq([anchor : Nat, ids : Seq(Nat)])
<1> DEFINE row == [anchor |-> s.anchor, ids |-> s.entries]
           R == [anchor : Nat, ids : Seq(Nat)]
<1>1. row \in R /\ s.rows \in Seq(R)
  BY DEF LoopState
<1>2. Dataset!Closed(s) \in {Append(s.rows, row), s.rows}
  BY DEF Dataset!Closed
<1> HIDE DEF row, R
<1>3. Append(s.rows, row) \in Seq(R)
  BY <1>1, AppendProperties
<1>4. Dataset!Closed(s) \in Seq(R)
  BY <1>1, <1>2, <1>3
<1> QED BY <1>4 DEF R

LEMMA NextEntryStays ==
  ASSUME NEW s \in LoopState, NEW e \in TapeEntry PROVE Dataset!NextEntry(s, e) \in LoopState
<1>1. e.id \in Nat
  BY DEF TapeEntry
<1>2. CASE e.kind = "anchor"
  <2>1. Dataset!NextEntry(s, e)
          = [rows |-> Dataset!Closed(s), anchor |-> e.id, entries |-> <<>>]
    BY <1>2 DEF Dataset!NextEntry
  <2> QED BY <1>1, <2>1, ClosedRows DEF LoopState
<1>3. CASE e.kind # "anchor"
  <2>1. Dataset!NextEntry(s, e) \in {s, [s EXCEPT !.entries = Append(@, e.id)]}
    BY <1>3 DEF Dataset!NextEntry
  <2>2. Append(s.entries, e.id) \in Seq(Nat)
    <3>1. s.entries \in Seq(Nat)
      BY DEF LoopState
    <3> QED BY <1>1, <3>1, AppendProperties
  <2> QED BY <2>1, <2>2 DEF LoopState
<1> QED BY <1>2, <1>3

\* Loop is the last value of its loop.
SegmentLoop(f, es) ==
  /\ f \in [0 .. Len(es) -> LoopState] /\ f[0] = Fresh
  /\ \A m \in 1 .. Len(es) : f[m] = Dataset!NextEntry(f[m - 1], es[m])
  /\ Dataset!Loop(es) = f[Len(es)]

LEMMA LoopTurns ==
  ASSUME NEW es \in Seq(TapeEntry) PROVE \E f : SegmentLoop(f, es)
<1> DEFINE l == Len(es)
           F == [m \in 1 .. l |-> [x \in LoopState |-> Dataset!NextEntry(x, es[m])]]
           Turned(f, n) ==
             IF n = 0 THEN [rows |-> <<>>, anchor |-> Dataset!NoAnchor, entries |-> <<>>]
             ELSE Dataset!NextEntry(f[n - 1], es[n])
           Solves(f) == f = [n \in 0 .. l |-> Turned(f, n)]
           g == CHOOSE f : Solves(f)
<1>1. l \in Nat
  OBVIOUS
<1>2. ASSUME NEW m \in 1 .. l, NEW x \in LoopState
      PROVE  Dataset!NextEntry(x, es[m]) \in LoopState
  <2>1. es[m] \in TapeEntry
    OBVIOUS
  <2> QED BY <2>1, NextEntryStays
<1>3. Fresh \in LoopState
  BY DEF Fresh, LoopState
<1>4. Dataset!Loop(es) = g[l]
  BY DEF Dataset!Loop
<1>5. \A f : Turned(f, 0) = Fresh
  BY DEF Fresh, Dataset!NoAnchor
<1>6. \A m \in 1 .. l : \A x \in LoopState :
        F[m][x] = Dataset!NextEntry(x, es[m]) /\ F[m][x] \in LoopState
  BY <1>2
<1> HIDE DEF F, l
<1>7. PICK f : Turns(f, l, LoopState, Fresh, F)
  BY <1>1, <1>3, <1>6, LoopExists
<1>8. f \in [0 .. l -> LoopState] /\ f[0] = Fresh /\ \A m \in 1 .. l : f[m] = F[m][f[m - 1]]
  BY <1>7 DEF Turns
<1>9. Solves(f)
  <2>1. ASSUME NEW n \in 0 .. l PROVE f[n] = Turned(f, n)
    <3>1. CASE n = 0
      BY <1>5, <1>8, <3>1
    <3>2. CASE n # 0
      <4>1. n \in 1 .. l /\ n - 1 \in 0 .. l
        BY <1>1, <3>2
      <4>2. f[n - 1] \in LoopState /\ f[n] = F[n][f[n - 1]]
        BY <1>8, <4>1
      <4> QED BY <1>6, <3>2, <4>1, <4>2
    <3> QED BY <3>1, <3>2
  <2> HIDE DEF Turned
  <2> QED BY <1>8, <2>1
<1>10. Solves(g)
  <2> HIDE DEF Solves
  <2> QED BY <1>9
<1> HIDE DEF g
<1>11. DOMAIN g = 0 .. l /\ (\A n \in 0 .. l : g[n] = Turned(g, n)) /\ g = [n \in 0 .. l |-> g[n]]
  <2> HIDE DEF Turned
  <2> QED BY <1>10, Zenon
<1>12. g[0] = Fresh /\ \A n \in 1 .. l : g[n] = Dataset!NextEntry(g[n - 1], es[n])
  <2>1. 0 \in 0 .. l /\ \A n \in 1 .. l : n \in 0 .. l /\ n # 0
    BY <1>1
  <2>2. g[0] = Turned(g, 0) /\ \A n \in 1 .. l : g[n] = Turned(g, n)
    BY <1>11, <2>1, Zenon
  <2> QED BY <1>5, <2>1, <2>2
<1>13. \A n \in 0 .. l : g[n] \in LoopState
  <2> DEFINE good == {n \in 0 .. l : g[n] \in LoopState}
  <2>1. 0 \in good
    BY <1>1, <1>3, <1>12
  <2>2. \A m \in 1 .. l : m - 1 \in good => m \in good
    BY <1>1, <1>2, <1>12
  <2> HIDE DEF good
  <2>3. \A m \in 0 .. l : m \in good
    BY <1>1, <2>1, <2>2, UpTo
  <2> QED BY <2>3 DEF good
<1>14. g \in [0 .. l -> LoopState]
  BY <1>11, <1>13, Zenon
<1> QED BY <1>4, <1>12, <1>14 DEF l, SegmentLoop

\* What is kept of a sequence is in places of it, in their order, and in a set.
Picks(q, p, n, seq, S) ==
  /\ p \in [1 .. Len(q) -> 1 .. n]
  /\ \A i, j \in 1 .. Len(q) : i < j => p[i] < p[j]
  /\ \A i \in 1 .. Len(q) : q[i] = seq[p[i]] /\ q[i] \in S

LEMMA PickMore ==
  ASSUME NEW T, NEW seq \in Seq(T), NEW n \in 1 .. Len(seq), NEW q \in Seq(T), NEW p,
         NEW S, Picks(q, p, n - 1, seq, S)
  PROVE  /\ Picks(q, p, n, seq, S)
         /\ seq[n] \in S => \E r : Picks(Append(q, seq[n]), r, n, seq, S)
<1>1. n \in Nat /\ Len(q) \in Nat /\ seq[n] \in T
  OBVIOUS
<1> DEFINE l == Len(q)
           more == Append(q, seq[n])
           r == [i \in 1 .. l + 1 |-> IF i = l + 1 THEN n ELSE p[i]]
<1>2. p \in [1 .. l -> 1 .. n - 1]
  BY DEF Picks
<1>3. p \in [1 .. l -> 1 .. n] /\ \A i \in 1 .. l : p[i] \in 1 .. n /\ p[i] < n
  <2>1. \A i \in 1 .. l : p[i] \in 1 .. n - 1
    BY <1>2
  <2> HIDE DEF l
  <2>2. \A i \in 1 .. l : p[i] \in 1 .. n /\ p[i] < n
    BY <1>1, <2>1
  <2> QED BY <1>2, <2>2
<1>4. Picks(q, p, n, seq, S)
  BY <1>3 DEF Picks
<1>5. Len(more) = l + 1 /\ more[l + 1] = seq[n] /\ \A i \in 1 .. l : more[i] = q[i]
  BY <1>1, AppendProperties
<1>6. \A i \in 1 .. l : q[i] = seq[p[i]] /\ q[i] \in S
  BY DEF Picks
<1>7. \A i, j \in 1 .. l : i < j => p[i] < p[j]
  BY DEF Picks
<1> HIDE DEF l, more
<1>8. ASSUME seq[n] \in S PROVE Picks(more, r, n, seq, S)
  <2>1. l \in Nat /\ r[l + 1] = n /\ \A i \in 1 .. l : r[i] = p[i]
    BY <1>1 DEF l
  <2>2. r \in [1 .. l + 1 -> 1 .. n]
    BY <1>1, <1>3, <2>1
  <2> HIDE DEF r
  <2>3. \A i \in 1 .. l + 1 : i = l + 1 \/ i \in 1 .. l
    BY <2>1
  <2>4. \A i, j \in 1 .. l + 1 : i < j => r[i] < r[j]
    <3> SUFFICES ASSUME NEW i \in 1 .. l + 1, NEW j \in 1 .. l + 1, i < j PROVE r[i] < r[j]
      OBVIOUS
    <3>1. i \in 1 .. l
      BY <2>1
    <3> QED BY <1>3, <1>7, <2>1, <2>3, <3>1
  <2>5. \A i \in 1 .. l + 1 : more[i] = seq[r[i]] /\ more[i] \in S
    BY <1>5, <1>6, <1>8, <2>1, <2>3
  <2> QED BY <1>5, <2>2, <2>4, <2>5 DEF Picks
<1> QED BY <1>4, <1>8 DEF more

LEMMA AmongPicks ==
  ASSUME NEW T, NEW seq \in Seq(T), NEW S
  PROVE  /\ Dataset!Among(seq, S) \in Seq(T)
         /\ \E p : Picks(Dataset!Among(seq, S), p, Len(seq), seq, S)
<1>0. PICK f : AmongLoop(f, seq, S, T)
  BY AmongTurns
<1>1. /\ f \in [0 .. Len(seq) -> Seq(T)] /\ f[0] = <<>>
      /\ \A m \in 1 .. Len(seq) :
           f[m] = IF seq[m] \in S THEN Append(f[m - 1], seq[m]) ELSE f[m - 1]
      /\ Dataset!Among(seq, S) = f[Len(seq)]
  BY <1>0 DEF AmongLoop
<1> DEFINE l == Len(seq)
           good == {m \in 0 .. l : \E p : Picks(f[m], p, m, seq, S)}
<1>2. l \in Nat
  OBVIOUS
<1>3. 0 \in good
  <2>1. Picks(<<>>, <<>>, 0, seq, S)
    BY DEF Picks
  <2> QED BY <1>1, <2>1
<1>4. ASSUME NEW m \in 1 .. l, m - 1 \in good PROVE m \in good
  <2>1. PICK p : Picks(f[m - 1], p, m - 1, seq, S)
    BY <1>4
  <2>2. m - 1 \in 0 .. l /\ m \in 0 .. l
    BY <1>2
  <2>3. f[m - 1] \in Seq(T)
    BY <1>1, <2>2
  <2>4. /\ Picks(f[m - 1], p, m, seq, S)
        /\ seq[m] \in S => \E r : Picks(Append(f[m - 1], seq[m]), r, m, seq, S)
    BY <2>1, <2>3, PickMore
  <2>5. (seq[m] \in S /\ f[m] = Append(f[m - 1], seq[m])) \/ f[m] = f[m - 1]
    BY <1>1
  <2> QED BY <2>2, <2>4, <2>5
<1>5. l \in good
  <2> HIDE DEF good, l
  <2>1. \A m \in 0 .. l : m \in good
    BY <1>2, <1>3, <1>4, UpTo
  <2> QED BY <1>2, <2>1
<1> QED BY <1>1, <1>2, <1>5

\* Entries of a tape: their ids increase.
WellFormed(es) ==
  es \in Seq(TapeEntry) /\ \A i, j \in 1 .. Len(es) : i < j => es[i].id < es[j].id

LEMMA FilterKeepsForm ==
  ASSUME NEW es, WellFormed(es) PROVE WellFormed(Dataset!FilterEntries(es))
<1> DEFINE q == Dataset!FilterEntries(es)
<1>1. es \in Seq(TapeEntry)
  BY DEF WellFormed
<1>2. PICK S : q = Dataset!Among(es, S)
  BY DEF Dataset!FilterEntries
<1> HIDE DEF q
<1>3. q \in Seq(TapeEntry) /\ \E p : Picks(q, p, Len(es), es, S)
  BY <1>1, <1>2, AmongPicks
<1>4. PICK p : Picks(q, p, Len(es), es, S)
  BY <1>3
<1>5. \A i, j \in 1 .. Len(q) : i < j => q[i].id < q[j].id
  BY <1>4 DEF Picks, WellFormed
<1> QED BY <1>3, <1>5 DEF q, WellFormed

LEMMA ExportedTapes ==
  ASSUME Dataset!DatasetConstants
  PROVE  /\ Dataset!Exported \in Seq(Dataset!Tapes)
         /\ \A i \in 1 .. Len(Dataset!Exported) : dRead[Dataset!Exported[i]] # <<>>
         /\ \A i, j \in 1 .. Len(Dataset!Exported) :
              Dataset!Exported[i] = Dataset!Exported[j] => i = j
<1> DEFINE q == Dataset!Exported
           S == {t \in Dataset!Tapes : dRead[t] # <<>>}
<1>1. DOrder \in Seq(Dataset!Tapes) /\ \A i, j \in 1 .. Len(DOrder) : DOrder[i] = DOrder[j] => i = j
  BY DEF Dataset!DatasetConstants
<1>2. q = Dataset!Among(DOrder, S)
  BY DEF Dataset!Exported
<1> HIDE DEF q, S
<1>3. q \in Seq(Dataset!Tapes) /\ \E p : Picks(q, p, Len(DOrder), DOrder, S)
  BY <1>1, <1>2, AmongPicks
<1>4. PICK p : Picks(q, p, Len(DOrder), DOrder, S)
  BY <1>3
<1>5. \A i, j \in 1 .. Len(q) : i # j => p[i] # p[j]
  <2>1. \A i, j \in 1 .. Len(q) : i < j => p[i] < p[j] /\ p[i] \in Int
    BY <1>4 DEF Picks
  <2>2. \A i, j \in 1 .. Len(q) : i # j => i < j \/ j < i
    OBVIOUS
  <2>3. \A i \in 1 .. Len(q) : p[i] \in Int
    BY <1>4 DEF Picks
  <2> QED BY <2>1, <2>2, <2>3
<1>6. \A i, j \in 1 .. Len(q) : q[i] = q[j] => i = j
  <2>1. \A i \in 1 .. Len(q) : p[i] \in 1 .. Len(DOrder) /\ q[i] = DOrder[p[i]]
    BY <1>4 DEF Picks
  <2> QED BY <1>1, <1>5, <2>1
<1>7. \A i \in 1 .. Len(q) : dRead[q[i]] # <<>>
  <2>1. \A i \in 1 .. Len(q) : q[i] \in S
    BY <1>4 DEF Picks
  <2> QED BY <2>1 DEF S
<1> QED BY <1>3, <1>6, <1>7 DEF q

\* The anchor an entry belongs to, from what is known of the entries before it.
LEMMA AnchorBefore ==
  ASSUME NEW es, NEW i \in Nat, NEW a \in Nat,
         a # 0 => a \in 1 .. i - 1 /\ es[a].kind = "anchor",
         \A j \in 1 .. i - 1 : a < j => es[j].kind # "anchor"
  PROVE  Dataset!AnchorOf(es, i) = a
<1> DEFINE before == {j \in 1 .. i - 1 : es[j].kind = "anchor"}
           is(j) == j \in before /\ \A k \in before : k <= j
<1>1. Dataset!AnchorOf(es, i)
        = IF before = {} THEN 0 ELSE CHOOSE j \in before : \A k \in before : k <= j
  BY DEF Dataset!AnchorOf
<1>2. CASE a = 0
  <2>1. before = {}
    BY <1>2
  <2> HIDE DEF before
  <2> QED BY <1>1, <1>2, <2>1
<1>3. CASE a # 0
  <2>1. a \in before /\ (\A k \in before : k <= a) /\ before \subseteq Int
    BY <1>3
  <2> HIDE DEF before
  <2>2. ASSUME NEW j \in before, \A k \in before : k <= j PROVE j = a
    <3>1. a \in Int /\ j \in Int /\ a <= j /\ j <= a
      BY <2>1, <2>2
    <3> QED BY <3>1
  <2>3. (CHOOSE j \in before : \A k \in before : k <= j) = a
    BY <2>1, <2>2
  <2> QED BY <1>1, <2>1, <2>3
<1> QED BY <1>2, <1>3

\* An entry id is in a row.
InRow(rows, x, id) == \E k \in 1 .. Len(rows[x].ids) : rows[x].ids[k] = id

\* The rows have entry i once, under its anchor, if it is before place a and follows one.
EntryFits(rows, m, a, es, i) ==
  IF i < a /\ es[i].kind # "anchor" /\ Dataset!AnchorOf(es, i) # 0
  THEN \E x \in 1 .. m :
         /\ InRow(rows, x, es[i].id) /\ rows[x].anchor = es[Dataset!AnchorOf(es, i)].id
         /\ \A y \in 1 .. m : InRow(rows, y, es[i].id) => y = x
  ELSE \A y \in 1 .. m : ~InRow(rows, y, es[i].id)

Segmented(rows, a, es) == \A i \in 1 .. Len(es) : EntryFits(rows, Len(rows), a, es, i)

\* After n entries: a is the place of the last anchor, if there is one.
LoopFits(s, a, n, es) ==
  /\ a \in 0 .. n /\ (a # 0 => es[a].kind = "anchor")
  /\ \A j \in 1 .. n : a < j => es[j].kind # "anchor"
  /\ s.anchor = IF a = 0 THEN 0 ELSE es[a].id
  /\ a = 0 => s.entries = <<>>
  /\ \A id \in Nat : (\E k \in 1 .. Len(s.entries) : s.entries[k] = id)
                       <=> (a # 0 /\ \E i \in 1 .. n : a < i /\ es[i].id = id)
  /\ Segmented(s.rows, a, es)

LEMMA ClosedFits ==
  ASSUME NEW es, WellFormed(es), NEW s \in LoopState, NEW n \in 0 .. Len(es), NEW a,
         LoopFits(s, a, n, es)
  PROVE  Segmented(Dataset!Closed(s), n + 1, es)
<1> DEFINE l == Len(es)
           R == [anchor : Nat, ids : Seq(Nat)]
           row == [anchor |-> s.anchor, ids |-> s.entries]
           rows == s.rows
           q == Dataset!Closed(s)
<1>1. l \in Nat /\ n \in 0 .. l /\ a \in 0 .. n /\ es \in Seq(TapeEntry)
  BY DEF WellFormed, LoopFits
<1>2. \A i \in 1 .. l : es[i].id \in Nat /\ es[i].id # 0
  <2>1. \A i \in 1 .. l : es[i] \in TapeEntry
    BY <1>1
  <2> HIDE DEF l
  <2> QED BY <2>1 DEF TapeEntry
<1>3. \A i, j \in 1 .. l : es[i].id = es[j].id => i = j
  <2>1. \A i, j \in 1 .. l : i < j => es[i].id < es[j].id
    BY DEF WellFormed
  <2>2. \A i, j \in 1 .. l : i = j \/ i < j \/ j < i
    BY <1>1
  <2>3. \A x, y \in Nat : x < y => x # y
    OBVIOUS
  <2> HIDE DEF l
  <2> QED BY <1>2, <2>1, <2>2, <2>3
<1>4. Segmented(rows, a, es)
  BY DEF LoopFits
<1>5. s.anchor = IF a = 0 THEN 0 ELSE es[a].id
  BY DEF LoopFits
<1>6. (a # 0 => es[a].kind = "anchor") /\ \A j \in 1 .. n : a < j => es[j].kind # "anchor"
  BY DEF LoopFits
<1>7. \A i \in 1 .. l :
        a # 0 => ((\E k \in 1 .. Len(s.entries) : s.entries[k] = es[i].id) <=> (a < i /\ i <= n))
  <2> SUFFICES ASSUME NEW i \in 1 .. l, a # 0
               PROVE  (\E k \in 1 .. Len(s.entries) : s.entries[k] = es[i].id) <=> (a < i /\ i <= n)
    OBVIOUS
  <2>1. (\E k \in 1 .. Len(s.entries) : s.entries[k] = es[i].id)
          <=> (\E j \in 1 .. n : a < j /\ es[j].id = es[i].id)
    BY <1>2 DEF LoopFits
  <2>2. \A j \in 1 .. n : j \in 1 .. l
    BY <1>1
  <2>3. (\E j \in 1 .. n : a < j /\ es[j].id = es[i].id) <=> (a < i /\ i <= n)
    <3>1. ASSUME NEW j \in 1 .. n, a < j, es[j].id = es[i].id PROVE a < i /\ i <= n
      BY <1>3, <2>2, <3>1
    <3>2. ASSUME a < i, i <= n PROVE i \in 1 .. n
      BY <3>2
    <3> QED BY <3>1, <3>2
  <2> QED BY <2>1, <2>3
<1>8. CASE a = 0
  <2>1. q = rows
    BY <1>5, <1>8 DEF Dataset!Closed, Dataset!NoAnchor
  <2>2. \A i \in 1 .. l : i < n + 1 => Dataset!AnchorOf(es, i) = 0
    <3> SUFFICES ASSUME NEW i \in 1 .. l, i < n + 1 PROVE Dataset!AnchorOf(es, i) = 0
      OBVIOUS
    <3>1. \A j \in 1 .. i - 1 : 0 < j => es[j].kind # "anchor"
      BY <1>1, <1>6, <1>8
    <3> QED BY <3>1, AnchorBefore
  <2>3. \A i \in 1 .. l : ~ (i < a)
    BY <1>8
  <2> QED BY <1>4, <2>1, <2>2, <2>3, Zenon DEF Segmented, EntryFits
<1>9. CASE a # 0 /\ s.entries = <<>>
  <2>1. q = rows
    BY <1>9 DEF Dataset!Closed
  <2>2. \A i \in 1 .. l : ~ (a < i /\ i <= n)
    BY <1>7, <1>9
  <2>3. a = n
    <3>1. ASSUME a # n PROVE FALSE
      <4>1. a + 1 \in 1 .. l /\ a < a + 1 /\ a + 1 <= n
        BY <1>1, <3>1
      <4> HIDE DEF l
      <4> QED BY <2>2, <4>1
    <3> QED BY <3>1
  <2>4. \A i \in 1 .. l : (i < n + 1 /\ es[i].kind # "anchor") <=> (i < a /\ es[i].kind # "anchor")
    BY <1>1, <1>6, <1>9, <2>3
  <2> QED BY <1>4, <2>1, <2>4, Zenon DEF Segmented, EntryFits
<1>10. CASE a # 0 /\ s.entries # <<>>
  <2>1. s.anchor = es[a].id /\ s.anchor # 0
    <3>1. a \in 1 .. l
      BY <1>1, <1>10
    <3> QED BY <1>2, <1>5, <1>10, <3>1
  <2>2. q = Append(rows, row)
    BY <1>10, <2>1 DEF Dataset!Closed, Dataset!NoAnchor
  <2>3. row \in R /\ rows \in Seq(R)
    BY DEF LoopState
  <2> DEFINE m == Len(rows)
  <2>4. m \in Nat /\ Len(q) = m + 1 /\ q[m + 1] = row /\ \A x \in 1 .. m : q[x] = rows[x]
    <3> HIDE DEF row, R, q, rows
    <3> QED BY <2>2, <2>3, AppendProperties
  <2>5. \A i \in 1 .. l : InRow(q, m + 1, es[i].id) <=> (a < i /\ i <= n)
    <3>1. q[m + 1].ids = s.entries
      BY <2>4
    <3> HIDE DEF q, m, l
    <3>2. \A id : InRow(q, m + 1, id) <=> \E k \in 1 .. Len(s.entries) : s.entries[k] = id
      BY <3>1 DEF InRow
    <3> QED BY <1>7, <1>10, <3>2
  <2>6. q[m + 1].anchor = es[a].id
    BY <2>1, <2>4
  <2>7. \A id : \A x \in 1 .. m : InRow(q, x, id) <=> InRow(rows, x, id)
    <3> HIDE DEF q, rows, m
    <3> QED BY <2>4 DEF InRow
  <2>8. \A x \in 1 .. m : q[x].anchor = rows[x].anchor
    <3> HIDE DEF q, rows, m
    <3> QED BY <2>4
  <2> HIDE DEF q, rows, row, R
  <2>9. /\ \A x \in 1 .. m + 1 : x = m + 1 \/ x \in 1 .. m
        /\ \A x \in 1 .. m : x \in 1 .. m + 1 /\ x # m + 1
        /\ m + 1 \in 1 .. m + 1
    <3>1. m \in Nat
      BY <2>4
    <3> HIDE DEF m
    <3> QED BY <3>1
  <2> SUFFICES ASSUME NEW i \in 1 .. l PROVE EntryFits(q, m + 1, n + 1, es, i)
    BY <2>4 DEF Segmented, q
  <2>10. IF i < a /\ es[i].kind # "anchor" /\ Dataset!AnchorOf(es, i) # 0
         THEN \E x \in 1 .. m :
                /\ InRow(rows, x, es[i].id) /\ rows[x].anchor = es[Dataset!AnchorOf(es, i)].id
                /\ \A y \in 1 .. m : InRow(rows, y, es[i].id) => y = x
         ELSE \A y \in 1 .. m : ~InRow(rows, y, es[i].id)
    BY <1>4 DEF Segmented, EntryFits
  <2>11. CASE i < a /\ es[i].kind # "anchor" /\ Dataset!AnchorOf(es, i) # 0
    <3>1. i < n + 1 /\ ~ (a < i /\ i <= n)
      BY <1>1, <2>11
    <3>2. ~InRow(q, m + 1, es[i].id)
      BY <2>5, <3>1
    <3>3. PICK x \in 1 .. m :
            /\ InRow(rows, x, es[i].id) /\ rows[x].anchor = es[Dataset!AnchorOf(es, i)].id
            /\ \A y \in 1 .. m : InRow(rows, y, es[i].id) => y = x
      BY <2>10, <2>11
    <3> HIDE DEF m
    <3>4. \A y \in 1 .. m + 1 : InRow(q, y, es[i].id) => y = x
      BY <2>7, <2>9, <3>2, <3>3
    <3>5. InRow(q, x, es[i].id) /\ q[x].anchor = es[Dataset!AnchorOf(es, i)].id
      BY <2>7, <2>8, <3>3
    <3> QED BY <2>9, <2>11, <3>1, <3>4, <3>5 DEF EntryFits
  <2>12. CASE ~ (i < a /\ es[i].kind # "anchor" /\ Dataset!AnchorOf(es, i) # 0)
    <3>0. \A y \in 1 .. m : ~InRow(q, y, es[i].id)
      <4>1. \A y \in 1 .. m : ~InRow(rows, y, es[i].id)
        BY <2>10, <2>12
      <4> HIDE DEF m
      <4> QED BY <2>7, <4>1
    <3>1. CASE a < i /\ i <= n
      <4>1. es[i].kind # "anchor" /\ i < n + 1 /\ i \in 1 .. n
        BY <1>1, <1>6, <3>1
      <4>2. Dataset!AnchorOf(es, i) = a
        <5>1. a \in Nat /\ i \in Nat /\ (a # 0 => a \in 1 .. i - 1 /\ es[a].kind = "anchor")
          BY <1>1, <1>6, <1>10, <3>1
        <5>2. \A j \in 1 .. i - 1 : a < j => es[j].kind # "anchor"
          BY <1>1, <1>6, <3>1
        <5> QED BY <5>1, <5>2, AnchorBefore
      <4>3. InRow(q, m + 1, es[i].id)
        BY <2>5, <3>1
      <4> HIDE DEF m
      <4>4. \A y \in 1 .. m + 1 : InRow(q, y, es[i].id) => y = m + 1
        BY <2>9, <3>0
      <4> QED BY <1>10, <2>6, <2>9, <4>1, <4>2, <4>3, <4>4 DEF EntryFits
    <3>2. CASE ~ (a < i /\ i <= n)
      <4>1. ~ (i < n + 1 /\ es[i].kind # "anchor" /\ Dataset!AnchorOf(es, i) # 0)
        <5>1. CASE i <= n
          <6>1. ~ (a < i)
            BY <3>2, <5>1
          <6>2. i < a \/ i = a
            BY <1>1, <6>1
          <6> QED BY <1>6, <1>10, <2>12, <6>2
        <5>2. CASE ~ (i <= n)
          BY <1>1, <5>2
        <5> QED BY <5>1, <5>2
      <4>2. ~InRow(q, m + 1, es[i].id)
        BY <2>5, <3>2
      <4> HIDE DEF m
      <4>3. \A y \in 1 .. m + 1 : ~InRow(q, y, es[i].id)
        BY <2>9, <3>0, <4>2
      <4> QED BY <4>1, <4>3 DEF EntryFits
    <3> QED BY <3>1, <3>2
  <2> QED BY <2>11, <2>12
<1> QED BY <1>8, <1>9, <1>10

LEMMA NextEntryFits ==
  ASSUME NEW es, WellFormed(es), NEW n \in 1 .. Len(es), NEW s \in LoopState, NEW a,
         LoopFits(s, a, n - 1, es)
  PROVE  \E b : LoopFits(Dataset!NextEntry(s, es[n]), b, n, es)
<1> DEFINE l == Len(es)
           e == es[n]
           r == Dataset!NextEntry(s, e)
<1>1. l \in Nat /\ n \in 1 .. l /\ n - 1 \in 0 .. l /\ a \in 0 .. n - 1 /\ es \in Seq(TapeEntry)
  BY DEF WellFormed, LoopFits
<1>2. \A i \in 1 .. l : es[i].id \in Nat /\ es[i].id # 0
  <2>1. \A i \in 1 .. l : es[i] \in TapeEntry
    BY <1>1
  <2> HIDE DEF l
  <2> QED BY <2>1 DEF TapeEntry
<1>3. (a # 0 => es[a].kind = "anchor") /\ \A j \in 1 .. n - 1 : a < j => es[j].kind # "anchor"
  BY DEF LoopFits
<1>4. s.anchor = IF a = 0 THEN 0 ELSE es[a].id
  BY DEF LoopFits
<1>5. CASE e.kind = "anchor"
  <2>1. r = [rows |-> Dataset!Closed(s), anchor |-> e.id, entries |-> <<>>]
    BY <1>5 DEF Dataset!NextEntry
  <2>2. Segmented(Dataset!Closed(s), n, es)
    <3>1. Segmented(Dataset!Closed(s), (n - 1) + 1, es)
      BY <1>1, ClosedFits
    <3>2. (n - 1) + 1 = n
      BY <1>1
    <3> QED BY <3>1, <3>2
  <2>3. n \in 0 .. n /\ n # 0 /\ \A j \in 1 .. n : ~ (n < j)
    BY <1>1
  <2>4. r.rows = Dataset!Closed(s) /\ r.anchor = e.id /\ r.entries = <<>>
    BY <2>1
  <2> HIDE DEF r
  <2>5. \A id : ~ \E k \in 1 .. Len(r.entries) : r.entries[k] = id
    BY <2>4
  <2>6. LoopFits(r, n, n, es)
    BY <1>5, <2>2, <2>3, <2>4, <2>5 DEF LoopFits
  <2> QED BY <2>6 DEF r
<1>6. CASE e.kind # "anchor" /\ a = 0
  <2>1. r = s
    BY <1>4, <1>6 DEF Dataset!NextEntry, Dataset!NoAnchor
  <2>2. a \in 0 .. n /\ \A j \in 1 .. n : j = n \/ j \in 1 .. n - 1
    BY <1>1
  <2>3. \A j \in 1 .. n : a < j => es[j].kind # "anchor"
    BY <1>3, <1>6, <2>2
  <2>4. \A id \in Nat : ~ \E k \in 1 .. Len(s.entries) : s.entries[k] = id
    BY <1>6 DEF LoopFits
  <2>5. s.entries = <<>> /\ Segmented(s.rows, a, es)
    BY <1>6 DEF LoopFits
  <2>6. LoopFits(s, a, n, es)
    BY <1>4, <1>6, <2>2, <2>3, <2>4, <2>5 DEF LoopFits
  <2> QED BY <2>1, <2>6
<1>7. CASE e.kind # "anchor" /\ a # 0
  <2>1. s.anchor # 0
    <3>1. a \in 1 .. l
      BY <1>1, <1>7
    <3> QED BY <1>2, <1>4, <1>7, <3>1
  <2>2. r = [s EXCEPT !.entries = Append(s.entries, e.id)]
    BY <1>7, <2>1 DEF Dataset!NextEntry, Dataset!NoAnchor
  <2>3. r.rows = s.rows /\ r.anchor = s.anchor /\ r.entries = Append(s.entries, e.id)
    BY <2>2 DEF LoopState
  <2>4. s.entries \in Seq(Nat) /\ e.id \in Nat
    BY <1>1, <1>2 DEF LoopState
  <2> DEFINE m == Len(s.entries)
  <2>5. m \in Nat /\ Len(r.entries) = m + 1 /\ r.entries[m + 1] = e.id
        /\ \A k \in 1 .. m : r.entries[k] = s.entries[k]
    <3> HIDE DEF r, e
    <3> QED BY <2>3, <2>4, AppendProperties
  <2>6. a \in 0 .. n /\ a < n /\ n \in 1 .. n /\ (\A j \in 1 .. n : j = n \/ j \in 1 .. n - 1)
        /\ \A j \in 1 .. n - 1 : j \in 1 .. n
    BY <1>1
  <2>7. \A j \in 1 .. n : a < j => es[j].kind # "anchor"
    BY <1>3, <1>7, <2>6
  <2>8. ASSUME NEW id \in Nat
        PROVE  (\E k \in 1 .. m + 1 : r.entries[k] = id)
                 <=> \E i \in 1 .. n : a < i /\ es[i].id = id
    <3>1. (\E k \in 1 .. m : s.entries[k] = id) <=> \E i \in 1 .. n - 1 : a < i /\ es[i].id = id
      BY <1>7 DEF LoopFits
    <3>2. (\E k \in 1 .. m + 1 : r.entries[k] = id)
            <=> (id = e.id \/ \E k \in 1 .. m : s.entries[k] = id)
      <4>1. m + 1 \in 1 .. m + 1 /\ (\A k \in 1 .. m + 1 : k = m + 1 \/ k \in 1 .. m)
            /\ \A k \in 1 .. m : k \in 1 .. m + 1
        <5>1. m \in Nat
          BY <2>5
        <5> HIDE DEF m
        <5> QED BY <5>1
      <4> HIDE DEF m, r, e
      <4> QED BY <2>5, <4>1
    <3>3. (\E i \in 1 .. n : a < i /\ es[i].id = id)
            <=> (id = e.id \/ \E i \in 1 .. n - 1 : a < i /\ es[i].id = id)
      BY <2>6
    <3> QED BY <3>1, <3>2, <3>3
  <2>9. Segmented(s.rows, a, es)
    BY DEF LoopFits
  <2>10. r.anchor = IF a = 0 THEN 0 ELSE es[a].id
    BY <1>4, <2>3
  <2>11. Segmented(r.rows, a, es)
    BY <2>3, <2>9
  <2> HIDE DEF r, m
  <2>12. LoopFits(r, a, n, es)
    BY <1>3, <1>7, <2>5, <2>6, <2>7, <2>8, <2>10, <2>11 DEF LoopFits
  <2> QED BY <2>12 DEF r
<1> QED BY <1>5, <1>6, <1>7

\* The rows of a tape are its slices.
LEMMA SegmentRowsFit ==
  ASSUME NEW es, WellFormed(es)
  PROVE  /\ Dataset!Closed(Dataset!Loop(es)) \in Seq([anchor : Nat, ids : Seq(Nat)])
         /\ Segmented(Dataset!Closed(Dataset!Loop(es)), Len(es) + 1, es)
<1>1. es \in Seq(TapeEntry)
  BY DEF WellFormed
<1>2. PICK f : SegmentLoop(f, es)
  BY <1>1, LoopTurns
<1> DEFINE l == Len(es)
           good == {n \in 0 .. l : \E a : LoopFits(f[n], a, n, es)}
<1>3. l \in Nat
  BY <1>1
<1>4. /\ f \in [0 .. l -> LoopState] /\ f[0] = Fresh
      /\ \A m \in 1 .. l : f[m] = Dataset!NextEntry(f[m - 1], es[m])
      /\ Dataset!Loop(es) = f[l]
  BY <1>2 DEF SegmentLoop
<1>5. 0 \in good
  <2>1. Fresh.rows = <<>> /\ Fresh.anchor = 0 /\ Fresh.entries = <<>>
    BY DEF Fresh
  <2>2. \A i \in 1 .. Len(es) : ~ (i < 0)
    BY <1>3
  <2>3. Segmented(<<>>, 0, es)
    BY <2>2 DEF Segmented, EntryFits
  <2>4. LoopFits(Fresh, 0, 0, es)
    BY <2>1, <2>3 DEF LoopFits
  <2>5. 0 \in 0 .. l
    BY <1>3
  <2> QED BY <1>4, <2>4, <2>5
<1>6. ASSUME NEW m \in 1 .. l, m - 1 \in good PROVE m \in good
  <2>1. PICK a : LoopFits(f[m - 1], a, m - 1, es)
    BY <1>6
  <2>2. m - 1 \in 0 .. l /\ m \in 0 .. l
    BY <1>3
  <2>3. f[m - 1] \in LoopState
    BY <1>4, <2>2
  <2>4. \E b : LoopFits(Dataset!NextEntry(f[m - 1], es[m]), b, m, es)
    BY <2>1, <2>3, NextEntryFits
  <2> QED BY <1>4, <2>2, <2>4
<1>7. l \in good
  <2> HIDE DEF good, l
  <2>1. \A m \in 0 .. l : m \in good
    BY <1>3, <1>5, <1>6, UpTo
  <2> QED BY <1>3, <2>1
<1>8. f[l] \in LoopState /\ l \in 0 .. l
  BY <1>3, <1>4
<1>9. PICK a : LoopFits(f[l], a, l, es)
  BY <1>7
<1>10. Segmented(Dataset!Closed(f[l]), l + 1, es)
  BY <1>8, <1>9, ClosedFits
<1> QED BY <1>4, <1>8, <1>10, ClosedRows

LEMMA CountsAlike ==
  /\ \A S : Dataset!Cardinality(S) = Cardinality(S)
  /\ \A S : Otel!Cardinality(S) = Cardinality(S)
  BY DEF Dataset!Cardinality, Otel!Cardinality, Cardinality

\* What SegmentsAreSlices says of the entries of a tape and of its rows.
Slices(es, rows) ==
  LET InOne(i, k) == Dataset!Contains(rows[k].ids, es[i].id)
  IN IF Dataset!HasAnchor(es)
     THEN \A i \in DOMAIN es :
            LET k == {x \in DOMAIN rows : InOne(i, x)} IN
            IF es[i].kind = "anchor" \/ Dataset!AnchorOf(es, i) = 0 THEN k = {}
            ELSE /\ Dataset!Cardinality(k) = 1
                 /\ \A x \in k : rows[x].anchor = es[Dataset!AnchorOf(es, i)].id
     ELSE rows = <<[anchor |-> Dataset!NoAnchor, ids |-> Dataset!Ids(es)]>>

LEMMA RowsAreSlices ==
  ASSUME NEW es, WellFormed(es), es # <<>> PROVE Slices(es, Dataset!SegmentRows(es))
<1> DEFINE rows == Dataset!SegmentRows(es)
<1>1. CASE ~ Dataset!HasAnchor(es)
  BY <1>1 DEF Dataset!SegmentRows, Slices
<1>2. CASE Dataset!HasAnchor(es)
  <2>1. rows = Dataset!Closed(Dataset!Loop(es))
    BY <1>2 DEF Dataset!SegmentRows
  <2>2. rows \in Seq([anchor : Nat, ids : Seq(Nat)]) /\ Segmented(rows, Len(es) + 1, es)
    BY <2>1, SegmentRowsFit
  <2> HIDE DEF rows
  <2>3. DOMAIN rows = 1 .. Len(rows) /\ DOMAIN es = 1 .. Len(es) /\ Len(es) \in Nat
    BY <2>2 DEF WellFormed
  <2>4. \A i, x : Dataset!Contains(rows[x].ids, es[i].id) <=> InRow(rows, x, es[i].id)
    BY DEF Dataset!Contains, InRow
  <2> SUFFICES ASSUME NEW i \in DOMAIN es, NEW k, k = {x \in DOMAIN rows : InRow(rows, x, es[i].id)}
               PROVE  IF es[i].kind = "anchor" \/ Dataset!AnchorOf(es, i) = 0 THEN k = {}
                      ELSE /\ Dataset!Cardinality(k) = 1
                           /\ \A x \in k : rows[x].anchor = es[Dataset!AnchorOf(es, i)].id
    BY <1>2, <2>4 DEF Slices, rows
  <2>5. i \in 1 .. Len(es) /\ i < Len(es) + 1
    BY <2>3
  <2>6. EntryFits(rows, Len(rows), Len(es) + 1, es, i)
    BY <2>2, <2>5 DEF Segmented
  <2>7. CASE es[i].kind = "anchor" \/ Dataset!AnchorOf(es, i) = 0
    BY <2>3, <2>6, <2>7 DEF EntryFits
  <2>8. CASE ~ (es[i].kind = "anchor" \/ Dataset!AnchorOf(es, i) = 0)
    <3>1. PICK x \in 1 .. Len(rows) :
            /\ InRow(rows, x, es[i].id) /\ rows[x].anchor = es[Dataset!AnchorOf(es, i)].id
            /\ \A y \in 1 .. Len(rows) : InRow(rows, y, es[i].id) => y = x
      BY <2>5, <2>6, <2>8 DEF EntryFits
    <3>2. k = {x}
      BY <2>3, <3>1
    <3>3. Dataset!Cardinality(k) = 1
      BY <3>2, FS_Singleton, CountsAlike
    <3> QED BY <2>8, <3>1, <3>2, <3>3
  <2> QED BY <2>7, <2>8
<1> QED BY <1>1, <1>2

-----------------------------------------------------------------------------
(***************************************************************************)
(* Exports of the tapes: the files of a directory                          *)
(***************************************************************************)

\* What ManifestIsLast and SegmentsAreSlices say of a directory.
ManifestFits(d) ==
  d["manifest"].by # 0 /\ ~d["manifest"].cut =>
    /\ d["manifest"].rows \in Seq(Dataset!Tapes)
    /\ \A p \in {"tapes", "entries", "segments"} : d[p].by >= d["manifest"].by
    /\ \A i \in 1 .. Len(d["manifest"].rows) :
         d[d["manifest"].rows[i]].by >= d["manifest"].by
    /\ d["entries"].by = d["manifest"].by =>
         [i \in DOMAIN d["entries"].rows |-> d["entries"].rows[i].tape] = d["manifest"].rows
SegmentsFit(d) ==
  d["entries"].by = d["segments"].by /\ ~d["entries"].cut /\ ~d["segments"].cut =>
    \A n \in DOMAIN d["entries"].rows :
      Slices(d["entries"].rows[n].of, d["segments"].rows[n].of)

Directory(d, n) ==
  /\ DOMAIN d = Dataset!Paths /\ \A p \in Dataset!Paths : d[p].by \in Nat /\ d[p].by <= n
  /\ ManifestFits(d) /\ SegmentsFit(d)

\* The files fs of the tapes ex, of which rd was read.
Rows(ex, rows) == [i \in 1 .. Len(ex) |-> [tape |-> ex[i], of |-> rows[i]]]
FilesOf(fs, ex, rd) ==
  LET l == Len(ex) IN
  /\ ex \in Seq(Dataset!Tapes) /\ \A i, j \in 1 .. l : ex[i] = ex[j] => i = j
  /\ \A i \in 1 .. l : WellFormed(rd[i]) /\ rd[i] # <<>>
  /\ Len(fs) = l + 4 /\ \A i \in 1 .. l : fs[i].path = ex[i]
  /\ fs[l + 1].path = "tapes"
  /\ fs[l + 2].path = "entries" /\ fs[l + 2].rows = Rows(ex, rd)
  /\ fs[l + 3].path = "segments"
  /\ fs[l + 3].rows = Rows(ex, [i \in 1 .. l |-> Dataset!SegmentRows(rd[i])])
  /\ fs[l + 4].path = "manifest" /\ fs[l + 4].rows = ex

\* The first n of them are written by export x; q are still to write.
Written(d, fs, n, x) ==
  \A i \in 1 .. Len(fs) :
    IF i <= n THEN d[fs[i].path].by = x /\ ~d[fs[i].path].cut /\ d[fs[i].path].rows = fs[i].rows
    ELSE d[fs[i].path].by < x
Rest(q, fs, n) ==
  /\ \E T : q \in Seq(T)
  /\ n + Len(q) = Len(fs) /\ \A i \in 1 .. Len(q) : q[i] = fs[n + i]

WellRead ==
  /\ DOMAIN dLive = Dataset!Tapes /\ DOMAIN dRead = Dataset!Tapes
  /\ \A t \in Dataset!Tapes :
       /\ dLive[t] \in Seq(TapeEntry) /\ \A i \in 1 .. Len(dLive[t]) : dLive[t][i].id = i
       /\ WellFormed(dRead[t])
Exporting ==
  /\ dExport \in {"none", "read", "write"}
  /\ dExport = "read" => \A p \in Dataset!Paths : dDir[p].by < dExports
  /\ dExport = "write" =>
       \E fs, ex, rd : \E n \in Nat :
         FilesOf(fs, ex, rd) /\ Rest(dToWrite, fs, n) /\ Written(dDir, fs, n, dExports)
DataInv == WellRead /\ dExports \in Nat /\ Directory(dDir, dExports) /\ Exporting

\* Tapes and tables have files of their own.
LEMMA PathsDiffer ==
  ASSUME Dataset!DatasetConstants, NEW fs, NEW ex, NEW rd, FilesOf(fs, ex, rd)
  PROVE  /\ \A i \in 1 .. Len(fs) : fs[i].path \in Dataset!Paths
         /\ \A i, j \in 1 .. Len(fs) : fs[i].path = fs[j].path => i = j
<1> DEFINE l == Len(ex)
<1>1. l \in Nat /\ ex \in Seq(Dataset!Tapes) /\ Len(fs) = l + 4
  BY DEF FilesOf
<1>2. \A i \in 1 .. l : fs[i].path \in Dataset!Tapes /\ fs[i].path = ex[i]
  BY <1>1 DEF FilesOf
<1>3. fs[l + 1].path = "tapes" /\ fs[l + 2].path = "entries" /\ fs[l + 3].path = "segments"
      /\ fs[l + 4].path = "manifest"
  BY DEF FilesOf
<1>4. \A i, j \in 1 .. l : fs[i].path = fs[j].path => i = j
  BY <1>2 DEF FilesOf
<1>5. \A p \in Dataset!Tapes : p \notin {"tapes", "entries", "segments", "manifest"}
  BY DEF Dataset!DatasetConstants
<1>6. \A i \in 1 .. Len(fs) : i \in 1 .. l \/ i = l + 1 \/ i = l + 2 \/ i = l + 3 \/ i = l + 4
  <2> HIDE DEF l
  <2> QED BY <1>1
<1> HIDE DEF l
<1>7. \A i \in 1 .. Len(fs) : fs[i].path \in Dataset!Paths
  BY <1>2, <1>3, <1>6 DEF Dataset!Paths
<1>8. \A i, j \in 1 .. Len(fs) : fs[i].path = fs[j].path => i = j
  <2> TAKE i \in 1 .. Len(fs), j \in 1 .. Len(fs)
  <2>1. CASE i \in 1 .. l
    BY <1>2, <1>3, <1>4, <1>5, <1>6, <2>1
  <2>2. CASE j \in 1 .. l
    BY <1>2, <1>3, <1>4, <1>5, <1>6, <2>2
  <2>3. CASE i \notin 1 .. l /\ j \notin 1 .. l
    BY <1>3, <1>6, <2>3
  <2> QED BY <2>1, <2>2, <2>3
<1> QED BY <1>7, <1>8

\* A file is written, or cut off.
LEMMA FileWritten ==
  ASSUME Dataset!DatasetConstants, NEW fs, NEW ex, NEW rd, FilesOf(fs, ex, rd),
         NEW x \in Nat, NEW d, Directory(d, x),
         NEW n \in Nat, n + 1 \in 1 .. Len(fs), Written(d, fs, n, x),
         NEW v, v.by = x, ~v.cut => v.rows = fs[n + 1].rows,
         NEW e, e = [d EXCEPT ![fs[n + 1].path] = v]
  PROVE  Directory(e, x) /\ (~v.cut => Written(e, fs, n + 1, x))
<1> DEFINE l == Len(ex)
           p == fs[n + 1].path
<1>1. l \in Nat /\ ex \in Seq(Dataset!Tapes) /\ Len(fs) = l + 4
  BY DEF FilesOf
<1>2. /\ \A i \in 1 .. Len(fs) : fs[i].path \in Dataset!Paths
      /\ \A i, j \in 1 .. Len(fs) : fs[i].path = fs[j].path => i = j
  BY PathsDiffer
<1>3. fs[l + 1].path = "tapes" /\ fs[l + 2].path = "entries" /\ fs[l + 3].path = "segments"
      /\ fs[l + 4].path = "manifest" /\ \A i \in 1 .. l : fs[i].path = ex[i]
  BY DEF FilesOf
<1>4. /\ {l + 1, l + 2, l + 3, l + 4} \subseteq 1 .. Len(fs) /\ \A i \in 1 .. l : i \in 1 .. Len(fs)
      /\ n \in Nat /\ n + 1 \in 1 .. l + 4
  <2> HIDE DEF l
  <2> QED BY <1>1
<1>5. DOMAIN d = Dataset!Paths /\ (\A q \in Dataset!Paths : d[q].by \in Nat /\ d[q].by <= x)
      /\ ManifestFits(d) /\ SegmentsFit(d)
  BY DEF Directory
<1>6. p \in Dataset!Paths /\ DOMAIN e = Dataset!Paths /\ e[p] = v
      /\ \A q \in Dataset!Paths : q # p => e[q] = d[q]
  BY <1>2, <1>5
<1> HIDE DEF p
<1>7. \A q \in Dataset!Paths : e[q].by \in Nat /\ e[q].by <= x /\ e[q].by >= d[q].by
  BY <1>5, <1>6
<1>8. \A i \in 1 .. Len(fs) : i # n + 1 => fs[i].path # p /\ e[fs[i].path] = d[fs[i].path]
  BY <1>2, <1>6 DEF p
<1>9. {"tapes", "entries", "segments", "manifest"} \subseteq Dataset!Paths
      /\ Dataset!Tapes \subseteq Dataset!Paths
  BY DEF Dataset!Paths
<1>10. ~v.cut => Written(e, fs, n + 1, x)
  <2> SUFFICES ASSUME ~v.cut, NEW i \in 1 .. Len(fs)
               PROVE  IF i <= n + 1
                      THEN /\ e[fs[i].path].by = x /\ ~e[fs[i].path].cut
                           /\ e[fs[i].path].rows = fs[i].rows
                      ELSE e[fs[i].path].by < x
    BY DEF Written
  <2>1. CASE i = n + 1
    BY <1>4, <1>6, <2>1 DEF p
  <2>2. CASE i # n + 1
    <3>1. e[fs[i].path] = d[fs[i].path]
      BY <1>8, <2>2
    <3>2. i <= n + 1 <=> i <= n
      BY <1>1, <1>4, <2>2
    <3> QED BY <3>1, <3>2 DEF Written
  <2> QED BY <2>1, <2>2
<1>11. ManifestFits(e)
  <2>1. CASE n + 1 = l + 4
    <3>1. p = "manifest"
      BY <1>3, <2>1 DEF p
    <3> SUFFICES ASSUME ~v.cut PROVE ManifestFits(e)
      BY <1>6, <3>1 DEF ManifestFits
    <3>2. e["manifest"] = v /\ v.rows = ex
      BY <1>6, <2>1, <3>1 DEF FilesOf
    <3>3. \A i \in 1 .. Len(fs) : e[fs[i].path].by = x /\ e[fs[i].path].rows = fs[i].rows
      <4>1. Written(e, fs, n + 1, x)
        BY <1>10
      <4>2. \A i \in 1 .. Len(fs) : i <= n + 1
        <5> HIDE DEF l
        <5> QED BY <1>1, <2>1
      <4> QED BY <4>1, <4>2 DEF Written
    <3>4. \A q \in {"tapes", "entries", "segments"} : e[q].by = x
      BY <1>3, <1>4, <3>3
    <3>5. \A i \in 1 .. l : e[ex[i]].by = x
      BY <1>3, <1>4, <3>3
    <3>6. [i \in DOMAIN e["entries"].rows |-> e["entries"].rows[i].tape] = ex
      <4>1. e["entries"].rows = Rows(ex, rd)
        BY <1>3, <1>4, <3>3 DEF FilesOf
      <4>2. DOMAIN Rows(ex, rd) = 1 .. Len(ex)
            /\ \A i \in 1 .. Len(ex) : Rows(ex, rd)[i].tape = ex[i]
        BY DEF Rows
      <4>3. ex = [i \in 1 .. Len(ex) |-> ex[i]]
        BY <1>1
      <4> HIDE DEF l
      <4>4. [i \in 1 .. Len(ex) |-> Rows(ex, rd)[i].tape] = [i \in 1 .. Len(ex) |-> ex[i]]
        BY <4>2
      <4> QED BY <4>1, <4>2, <4>3, <4>4
    <3>7. e["manifest"].by = x /\ e["manifest"].rows = ex /\ x >= x
      BY <3>2
    <3>8. \A q \in {"tapes", "entries", "segments"} : e[q].by >= e["manifest"].by
      BY <3>4, <3>7
    <3>9. \A i \in 1 .. Len(ex) : e[ex[i]].by >= e["manifest"].by
      BY <3>5, <3>7
    <3>10. ex \in Seq(Dataset!Tapes)
      BY <1>1
    <3> HIDE DEF l
    <3> QED BY <3>6, <3>7, <3>8, <3>9, <3>10 DEF ManifestFits
  <2>2. CASE n + 1 # l + 4
    <3>1. e["manifest"] = d["manifest"] /\ d["manifest"].by < x /\ x \in Nat
      <4>1. ~ (l + 4 <= n)
        <5> HIDE DEF l
        <5> QED BY <1>1, <1>4
      <4>2. d[fs[l + 4].path].by < x
        BY <1>4, <4>1 DEF Written
      <4>3. e[fs[l + 4].path] = d[fs[l + 4].path]
        BY <1>4, <1>8, <2>2
      <4> QED BY <1>3, <4>2, <4>3
    <3> SUFFICES ASSUME d["manifest"].by # 0, ~d["manifest"].cut PROVE ManifestFits(e)
      BY <3>1 DEF ManifestFits
    <3> DEFINE m == d["manifest"]
    <3>2. /\ m.rows \in Seq(Dataset!Tapes)
          /\ \A q \in {"tapes", "entries", "segments"} : d[q].by >= m.by
          /\ \A i \in 1 .. Len(m.rows) : d[m.rows[i]].by >= m.by
          /\ d["entries"].by = m.by =>
               [i \in DOMAIN d["entries"].rows |-> d["entries"].rows[i].tape] = m.rows
      BY <1>5 DEF ManifestFits
    <3>3. \A q \in Dataset!Paths : d[q].by >= m.by => e[q].by >= m.by
      <4>1. \A q \in Dataset!Paths :
              e[q].by \in Nat /\ d[q].by \in Nat /\ m.by \in Nat /\ e[q].by >= d[q].by
        BY <1>5, <1>7, <1>9
      <4> HIDE DEF m
      <4> QED BY <4>1
    <3>4. \A i \in 1 .. Len(m.rows) : m.rows[i] \in Dataset!Paths
      BY <1>9, <3>2
    <3>5. e["entries"].by = m.by => e["entries"] = d["entries"]
      <4>1. CASE p = "entries"
        BY <1>6, <3>1, <4>1
      <4>2. CASE p # "entries"
        BY <1>6, <1>9, <4>2
      <4> QED BY <4>1, <4>2
    <3>6. e["manifest"] = m
      BY <3>1
    <3>7. \A q \in {"tapes", "entries", "segments"} : e[q].by >= m.by
      BY <1>9, <3>2, <3>3
    <3>8. \A i \in 1 .. Len(m.rows) : e[m.rows[i]].by >= m.by
      BY <3>2, <3>3, <3>4
    <3>9. e["entries"].by = m.by =>
            [i \in DOMAIN e["entries"].rows |-> e["entries"].rows[i].tape] = m.rows
      BY <3>2, <3>5
    <3> HIDE DEF m
    <3> QED BY <3>2, <3>6, <3>7, <3>8, <3>9 DEF ManifestFits
  <2> QED BY <2>1, <2>2
<1>12. SegmentsFit(e)
  <2>1. CASE n + 1 = l + 3
    <3>1. p = "segments"
      BY <1>3, <2>1 DEF p
    <3> SUFFICES ASSUME ~v.cut PROVE SegmentsFit(e)
      BY <1>6, <3>1 DEF SegmentsFit
    <3>2. e["segments"].rows = Rows(ex, [i \in 1 .. Len(ex) |-> Dataset!SegmentRows(rd[i])])
      <4>1. e["segments"] = v /\ v.rows = fs[l + 3].rows
        BY <1>6, <2>1, <3>1
      <4> QED BY <4>1 DEF FilesOf
    <3>3. e["entries"].rows = Rows(ex, rd)
      <4>1. Written(e, fs, n + 1, x) /\ l + 2 <= n + 1
        <5>1. l + 2 <= n + 1
          <6> HIDE DEF l
          <6> QED BY <1>1, <2>1
        <5> QED BY <1>10, <5>1
      <4>2. e[fs[l + 2].path].rows = fs[l + 2].rows
        BY <1>4, <4>1 DEF Written
      <4> QED BY <1>3, <4>2 DEF FilesOf
    <3>4. ASSUME NEW i \in 1 .. Len(ex)
          PROVE  Slices(Rows(ex, rd)[i].of,
                        Rows(ex, [j \in 1 .. Len(ex) |-> Dataset!SegmentRows(rd[j])])[i].of)
      <4>1. WellFormed(rd[i]) /\ rd[i] # <<>>
        BY DEF FilesOf
      <4>2. Slices(rd[i], Dataset!SegmentRows(rd[i]))
        BY <4>1, RowsAreSlices
      <4>3. Rows(ex, rd)[i].of = rd[i]
        BY DEF Rows
      <4>4. Rows(ex, [j \in 1 .. Len(ex) |-> Dataset!SegmentRows(rd[j])])[i].of
              = Dataset!SegmentRows(rd[i])
        BY DEF Rows
      <4> QED BY <4>2, <4>3, <4>4
    <3>5. DOMAIN Rows(ex, rd) = 1 .. Len(ex)
      BY DEF Rows
    <3> QED BY <3>2, <3>3, <3>4, <3>5 DEF SegmentsFit
  <2>2. CASE n + 1 = l + 2
    <3>1. p = "entries"
      BY <1>3, <2>2 DEF p
    <3>2. e["segments"].by < x
      <4>1. ~ (l + 3 <= n) /\ l + 3 # n + 1
        <5> HIDE DEF l
        <5> QED BY <1>1, <2>2
      <4>2. d[fs[l + 3].path].by < x /\ e[fs[l + 3].path] = d[fs[l + 3].path]
        BY <1>4, <1>8, <4>1 DEF Written
      <4> QED BY <1>3, <4>2
    <3>3. e["entries"].by = x /\ x \in Nat
      BY <1>6, <3>1
    <3>4. e["entries"].by # e["segments"].by
      BY <3>2, <3>3
    <3> QED BY <3>4 DEF SegmentsFit
  <2>3. CASE n + 1 # l + 2 /\ n + 1 # l + 3
    <3>1. e["entries"] = d["entries"] /\ e["segments"] = d["segments"]
      BY <1>3, <1>4, <1>8, <2>3
    <3> QED BY <1>5, <3>1 DEF SegmentsFit
  <2> QED BY <2>1, <2>2, <2>3
<1> QED BY <1>6, <1>7, <1>10, <1>11, <1>12 DEF Directory

LEMMA NothingIsRead ==
  WellFormed(<<>>) /\ \A t \in Dataset!Tapes : Dataset!NothingRead[t] = <<>>
  BY DEF WellFormed, Dataset!NothingRead

LEMMA DataInit == Dataset!Init => DataInv
<1> SUFFICES ASSUME Dataset!Init PROVE DataInv
  OBVIOUS
<1>1. WellRead
  BY NothingIsRead DEF Dataset!Init, WellRead, Dataset!NothingRead
<1>2. dExports = 0 /\ dExport = "none" /\ dDir = [p \in Dataset!Paths |-> Dataset!Absent]
  BY DEF Dataset!Init
<1>3. DOMAIN dDir = Dataset!Paths /\ \A p \in Dataset!Paths : dDir[p].by = 0 /\ dDir[p].rows = <<>>
  BY <1>2 DEF Dataset!Absent
<1>4. {"tapes", "entries", "segments", "manifest"} \subseteq Dataset!Paths
  BY DEF Dataset!Paths
<1>5. ManifestFits(dDir) /\ SegmentsFit(dDir)
  <2>1. dDir["manifest"].by = 0 /\ dDir["entries"].rows = <<>> /\ DOMAIN <<>> = {}
    BY <1>3, <1>4
  <2> QED BY <2>1 DEF ManifestFits, SegmentsFit
<1>6. Directory(dDir, dExports)
  BY <1>2, <1>3, <1>5 DEF Directory
<1> QED BY <1>1, <1>2, <1>6 DEF DataInv, Exporting

\* The stores, and the reading of tapes.
LEMMA AppendsKeeps ==
  ASSUME DataInv, NEW t \in Dataset!Tapes, NEW kin \in DKinds, Dataset!Appends(t, kin)
  PROVE  DataInv'
<1> DEFINE e == [id |-> Len(dLive[t]) + 1, kind |-> kin]
<1>1. dLive' = [dLive EXCEPT ![t] = Append(dLive[t], e)]
      /\ UNCHANGED dExport /\ UNCHANGED dExports /\ UNCHANGED dRead /\ UNCHANGED dToWrite
      /\ UNCHANGED dDir
  BY DEF Dataset!Appends
<1>2. dLive[t] \in Seq(TapeEntry) /\ \A i \in 1 .. Len(dLive[t]) : dLive[t][i].id = i
  BY DEF DataInv, WellRead
<1> DEFINE q == Append(dLive[t], e)
           l == Len(dLive[t])
<1>3. l \in Nat /\ e \in TapeEntry /\ e.id = l + 1
  <2>1. l \in Nat
    BY <1>2
  <2> HIDE DEF l
  <2>2. [id |-> l + 1, kind |-> kin] \in TapeEntry
    BY <2>1 DEF TapeEntry
  <2> QED BY <2>1, <2>2 DEF l
<1>4. q \in Seq(TapeEntry) /\ Len(q) = l + 1 /\ q[l + 1] = e /\ \A i \in 1 .. l : q[i] = dLive[t][i]
  <2> HIDE DEF e
  <2> QED BY <1>2, <1>3, AppendProperties
<1>5. \A i \in 1 .. Len(q) : q[i].id = i
  <2> HIDE DEF q, e
  <2>1. \A i \in 1 .. l : q[i].id = i
    BY <1>2, <1>4
  <2> HIDE DEF l
  <2> QED BY <1>3, <1>4, <2>1
<1> HIDE DEF q
<1>6. dLive' = [dLive EXCEPT ![t] = q]
  BY <1>1 DEF q
<1>7. WellRead'
  BY <1>1, <1>4, <1>5, <1>6 DEF WellRead, DataInv
<1> QED BY <1>1, <1>7 DEF DataInv, Exporting

LEMMA ResetsTapeKeeps ==
  ASSUME DataInv, NEW t \in Dataset!Tapes, Dataset!ResetsTape(t) PROVE DataInv'
<1>1. dLive' = [dLive EXCEPT ![t] = <<>>]
      /\ UNCHANGED dExport /\ UNCHANGED dExports /\ UNCHANGED dRead /\ UNCHANGED dToWrite
      /\ UNCHANGED dDir
  BY DEF Dataset!ResetsTape
<1>2. <<>> \in Seq(TapeEntry) /\ Len(<<>>) = 0
  OBVIOUS
<1>3. WellRead'
  BY <1>1, <1>2 DEF WellRead, DataInv
<1> QED BY <1>1, <1>3 DEF DataInv, Exporting

\* The manifest names an export that has begun.
LEMMA DirectoryStays ==
  ASSUME NEW d, NEW x \in Nat, NEW y \in Nat, Directory(d, x), x <= y PROVE Directory(d, y)
  BY DEF Directory

LEMMA BeginsKeeps ==
  ASSUME DataInv, NEW f, Dataset!Begins(f) PROVE DataInv'
<1>1. dExport' = "read" /\ dExports' = dExports + 1 /\ dRead' = Dataset!NothingRead
      /\ UNCHANGED dLive /\ UNCHANGED dToWrite /\ UNCHANGED dDir
  BY DEF Dataset!Begins
<1>2. dExports \in Nat /\ Directory(dDir, dExports)
  BY DEF DataInv
<1>3. dExports' \in Nat /\ Directory(dDir, dExports')
  BY <1>1, <1>2, DirectoryStays
<1>4. \A p \in Dataset!Paths : dDir[p].by < dExports'
  BY <1>1, <1>2 DEF Directory
<1>5. WellRead'
  BY <1>1, NothingIsRead DEF DataInv, WellRead, Dataset!NothingRead
<1>6. Exporting'
  BY <1>1, <1>4 DEF Exporting
<1> QED BY <1>1, <1>3, <1>5, <1>6 DEF DataInv

LEMMA ReadsKeeps ==
  ASSUME DataInv, NEW t \in Dataset!Tapes, Dataset!Reads(t) PROVE DataInv'
<1> DEFINE q == Dataset!FilterEntries(dLive[t])
<1>1. dExport = "read" /\ dRead' = [dRead EXCEPT ![t] = q]
      /\ UNCHANGED dExport /\ UNCHANGED dExports /\ UNCHANGED dLive /\ UNCHANGED dToWrite
      /\ UNCHANGED dDir
  BY DEF Dataset!Reads
<1>2. WellFormed(dLive[t])
  BY DEF DataInv, WellRead, WellFormed
<1>3. WellFormed(q)
  BY <1>2, FilterKeepsForm
<1> HIDE DEF q
<1>4. WellRead'
  BY <1>1, <1>3 DEF DataInv, WellRead
<1> QED BY <1>1, <1>4 DEF DataInv, Exporting

\* An export is given up, or has ended.
LEMMA NoneKeeps ==
  ASSUME WellRead, dExports \in Nat, Directory(dDir', dExports),
         dExport' = "none", dRead' = Dataset!NothingRead, UNCHANGED dExports, UNCHANGED dLive
  PROVE  DataInv'
<1>1. WellRead'
  BY NothingIsRead DEF WellRead, Dataset!NothingRead
<1>2. Directory(dDir', dExports')
  OBVIOUS
<1>3. Exporting'
  BY DEF Exporting
<1> QED BY <1>1, <1>2, <1>3 DEF DataInv

LEMMA ReadFailsKeeps ==
  ASSUME DataInv, NEW t \in Dataset!Tapes, Dataset!ReadFails(t) PROVE DataInv'
<1>1. dExport' = "none" /\ dRead' = Dataset!NothingRead
      /\ UNCHANGED dExports /\ UNCHANGED dLive /\ UNCHANGED dDir
  BY DEF Dataset!ReadFails
<1>2. Directory(dDir', dExports)
  BY <1>1 DEF DataInv
<1> QED BY <1>1, <1>2, NoneKeeps DEF DataInv

LEMMA EndsKeeps ==
  ASSUME DataInv, Dataset!Ends PROVE DataInv'
<1>1. dExport' = "none" /\ dRead' = Dataset!NothingRead
      /\ UNCHANGED dExports /\ UNCHANGED dLive /\ UNCHANGED dDir
  BY DEF Dataset!Ends
<1>2. Directory(dDir', dExports)
  BY <1>1 DEF DataInv
<1> QED BY <1>1, <1>2, NoneKeeps DEF DataInv

\* Files are those of the tapes that were read.
LEMMA FilesAreOf ==
  ASSUME Dataset!DatasetConstants, DataInv
  PROVE  \E rd : FilesOf(Dataset!Files, Dataset!Exported, rd) /\ \E T : Dataset!Files \in Seq(T)
<1> DEFINE ex == Dataset!Exported
           l == Len(ex)
           rd == [i \in 1 .. l |-> dRead[ex[i]]]
           raw == Dataset!Raw
           tables == Dataset!Tables
           manifest == Dataset!Manifest
           X == {raw[i] : i \in 1 .. l} \cup {tables[1], tables[2], tables[3], manifest[1]}
<1>1. /\ ex \in Seq(Dataset!Tapes) /\ \A i \in 1 .. l : dRead[ex[i]] # <<>>
      /\ \A i, j \in 1 .. l : ex[i] = ex[j] => i = j
  BY ExportedTapes
<1>2. l \in Nat /\ DOMAIN ex = 1 .. l
  BY <1>1
<1>3. \A i \in 1 .. l : ex[i] \in Dataset!Tapes
  BY <1>1
<1>4. \A i \in 1 .. l : WellFormed(rd[i]) /\ rd[i] # <<>>
  BY <1>1, <1>3 DEF DataInv, WellRead
<1>5. DOMAIN raw = 1 .. l /\ (\A i \in 1 .. l : raw[i].path = ex[i])
      /\ raw = [i \in 1 .. l |-> raw[i]]
  BY <1>2 DEF Dataset!Raw
<1>6. /\ Len(tables) = 3 /\ tables[1].path = "tapes"
      /\ tables[2].path = "entries" /\ tables[2].rows = Dataset!PerTape(dRead)
      /\ tables[3].path = "segments"
      /\ tables[3].rows = Dataset!PerTape([t \in Dataset!Tapes |-> Dataset!SegmentRows(dRead[t])])
  BY DEF Dataset!Tables
<1>7. Len(manifest) = 1 /\ manifest[1].path = "manifest" /\ manifest[1].rows = ex
  BY DEF Dataset!Manifest
<1>8. Dataset!PerTape(dRead) = Rows(ex, rd)
  BY <1>2 DEF Dataset!PerTape, Rows
<1>9. Dataset!PerTape([t \in Dataset!Tapes |-> Dataset!SegmentRows(dRead[t])])
        = Rows(ex, [i \in 1 .. l |-> Dataset!SegmentRows(rd[i])])
  <2> HIDE DEF ex, l
  <2>1. \A i \in 1 .. l : [t \in Dataset!Tapes |-> Dataset!SegmentRows(dRead[t])][ex[i]]
                            = Dataset!SegmentRows(rd[i])
    BY <1>3
  <2> QED BY <1>2, <2>1 DEF Dataset!PerTape, Rows, ex, l
<1>10. raw \in Seq(X) /\ Len(raw) = l
  <2> HIDE DEF raw, l
  <2>1. raw \in [1 .. l -> X]
    BY <1>5
  <2> HIDE DEF X
  <2> QED BY <1>2, <2>1
<1>11. tables \in Seq(X) /\ manifest \in Seq(X)
  <2>1. PICK a, b, c, d : tables = <<a, b, c>> /\ manifest = <<d>>
    BY DEF Dataset!Tables, Dataset!Manifest
  <2> HIDE DEF tables, manifest, raw, l
  <2>2. tables[1] = a /\ tables[2] = b /\ tables[3] = c /\ manifest[1] = d
    BY <2>1
  <2>3. a \in X /\ b \in X /\ c \in X /\ d \in X
    BY <2>2
  <2> HIDE DEF X
  <2> QED BY <2>1, <2>3
<1> HIDE DEF X, raw, tables, manifest
<1> DEFINE half == raw \o tables
           fs == half \o manifest
<1>13. half \in Seq(X) /\ Len(half) = l + 3 /\ (\A i \in 1 .. l : half[i] = raw[i])
       /\ half[l + 1] = tables[1] /\ half[l + 2] = tables[2] /\ half[l + 3] = tables[3]
  <2> HIDE DEF l
  <2>1. half \in Seq(X) /\ Len(half) = Len(raw) + Len(tables)
        /\ \A i \in 1 .. Len(raw) + Len(tables) :
             half[i] = IF i <= Len(raw) THEN raw[i] ELSE tables[i - Len(raw)]
    BY <1>10, <1>11, ConcatProperties
  <2> HIDE DEF half
  <2>2. \A i \in 1 .. l + 3 : half[i] = IF i <= l THEN raw[i] ELSE tables[i - l]
    BY <1>6, <1>10, <2>1
  <2>3. half[l + 1] = tables[1] /\ half[l + 2] = tables[2] /\ half[l + 3] = tables[3]
    <3>1. \A k \in 1 .. 3 : l + k \in 1 .. l + 3 /\ ~ (l + k <= l) /\ (l + k) - l = k
      BY <1>2
    <3>2. \A k \in 1 .. 3 : half[l + k] = tables[k]
      BY <2>2, <3>1
    <3> QED BY <3>2
  <2> QED BY <1>2, <1>6, <1>10, <2>1, <2>2, <2>3
<1> HIDE DEF half
<1>14. fs \in Seq(X) /\ Len(fs) = l + 4 /\ (\A i \in 1 .. l + 3 : fs[i] = half[i])
       /\ fs[l + 4] = manifest[1]
  <2> HIDE DEF l
  <2>1. fs \in Seq(X) /\ Len(fs) = Len(half) + Len(manifest)
        /\ \A i \in 1 .. Len(half) + Len(manifest) :
             fs[i] = IF i <= Len(half) THEN half[i] ELSE manifest[i - Len(half)]
    BY <1>11, <1>13, ConcatProperties
  <2> HIDE DEF fs
  <2>2. \A i \in 1 .. l + 4 : fs[i] = IF i <= l + 3 THEN half[i] ELSE manifest[i - (l + 3)]
    BY <1>2, <1>7, <1>13, <2>1
  <2> QED BY <1>2, <1>7, <1>13, <2>1, <2>2
<1>15. fs = Dataset!Files
  BY DEF fs, half, raw, tables, manifest, Dataset!Files
<1> HIDE DEF fs
<1>16. FilesOf(fs, ex, rd)
  <2>1. (\A i \in 1 .. l : fs[i].path = ex[i]) /\ fs[l + 1] = tables[1] /\ fs[l + 2] = tables[2]
        /\ fs[l + 3] = tables[3]
    <3>1. /\ \A i \in 1 .. l : i \in 1 .. l + 3
          /\ l + 1 \in 1 .. l + 3 /\ l + 2 \in 1 .. l + 3 /\ l + 3 \in 1 .. l + 3
      <4> HIDE DEF l
      <4> QED BY <1>2
    <3> HIDE DEF ex, rd, l
    <3>2. \A i \in 1 .. l : fs[i] = raw[i]
      BY <1>13, <1>14, <3>1
    <3>3. fs[l + 1] = tables[1] /\ fs[l + 2] = tables[2] /\ fs[l + 3] = tables[3]
      BY <1>13, <1>14, <3>1
    <3> QED BY <1>5, <3>2, <3>3
  <2> HIDE DEF ex, rd, l
  <2>2. l = Len(ex)
    BY DEF l
  <2> QED BY <1>1, <1>4, <1>6, <1>7, <1>8, <1>9, <1>14, <2>1, <2>2 DEF FilesOf
<1> QED BY <1>14, <1>15, <1>16

LEMMA BuildsKeeps ==
  ASSUME Dataset!DatasetConstants, DataInv, Dataset!Builds PROVE DataInv'
<1>1. dExport = "read" /\ dExport' = "write" /\ dToWrite' = Dataset!Files
      /\ UNCHANGED dExports /\ UNCHANGED dLive /\ UNCHANGED dRead /\ UNCHANGED dDir
  BY DEF Dataset!Builds
<1>2. PICK fs, ex, rd : fs = Dataset!Files /\ FilesOf(fs, ex, rd) /\ \E T : fs \in Seq(T)
  BY FilesAreOf
<1>3. Len(fs) \in Nat
  BY <1>2
<1>4. Rest(fs, fs, 0)
  BY <1>2, <1>3 DEF Rest
<1>5. Written(dDir, fs, 0, dExports)
  <2> SUFFICES ASSUME NEW i \in 1 .. Len(fs) PROVE ~ (i <= 0) /\ dDir[fs[i].path].by < dExports
    BY DEF Written
  <2>1. fs[i].path \in Dataset!Paths
    BY <1>2, PathsDiffer
  <2> QED BY <1>1, <2>1 DEF DataInv, Exporting
<1>6. Exporting'
  <2>1. FilesOf(fs, ex, rd) /\ Rest(dToWrite', fs, 0) /\ Written(dDir', fs, 0, dExports')
    BY <1>1, <1>2, <1>4, <1>5
  <2>2. \E n \in Nat :
          FilesOf(fs, ex, rd) /\ Rest(dToWrite', fs, n) /\ Written(dDir', fs, n, dExports')
    BY <2>1
  <2> QED BY <1>1, <2>2 DEF Exporting
<1> QED BY <1>1, <1>6 DEF DataInv, WellRead

\* What is left to write.
LEMMA RestShrinks ==
  ASSUME NEW q, NEW fs, NEW n \in Nat, Rest(q, fs, n), q # <<>>
  PROVE  Head(q) = fs[n + 1] /\ n + 1 \in 1 .. Len(fs) /\ Rest(Tail(q), fs, n + 1)
<1>1. PICK T : q \in Seq(T)
  BY DEF Rest
<1> DEFINE l == Len(q)
           r == Tail(q)
<1>2. l \in Nat /\ l # 0 /\ n + l = Len(fs) /\ \A i \in 1 .. l : q[i] = fs[n + i]
  BY <1>1 DEF Rest
<1>3. r \in Seq(T) /\ Len(r) = l - 1 /\ (\A i \in 1 .. l - 1 : r[i] = q[i + 1]) /\ Head(q) = q[1]
  BY <1>1
<1> HIDE DEF l, r
<1>4. Head(q) = fs[n + 1] /\ n + 1 \in 1 .. Len(fs) /\ (n + 1) + Len(r) = Len(fs)
  BY <1>2, <1>3
<1>5. \A i \in 1 .. Len(r) : r[i] = fs[(n + 1) + i]
  <2>1. \A i \in 1 .. l - 1 : i + 1 \in 1 .. l /\ n + (i + 1) = (n + 1) + i
    BY <1>2
  <2> QED BY <1>2, <1>3, <2>1
<1> QED BY <1>3, <1>4, <1>5 DEF Rest, r

LEMMA WritesKeeps ==
  ASSUME Dataset!DatasetConstants, DataInv, Dataset!Writes PROVE DataInv'
<1> DEFINE v == [by |-> dExports, cut |-> FALSE, rows |-> Head(dToWrite).rows]
<1>1. dExport = "write" /\ dToWrite # <<>> /\ dToWrite' = Tail(dToWrite)
      /\ dDir' = [dDir EXCEPT ![Head(dToWrite).path] = v]
      /\ UNCHANGED dExport /\ UNCHANGED dExports /\ UNCHANGED dLive /\ UNCHANGED dRead
  BY DEF Dataset!Writes
<1>2. PICK fs, ex, rd : \E n \in Nat :
        FilesOf(fs, ex, rd) /\ Rest(dToWrite, fs, n) /\ Written(dDir, fs, n, dExports)
  BY <1>1 DEF DataInv, Exporting
<1>3. PICK n \in Nat :
        FilesOf(fs, ex, rd) /\ Rest(dToWrite, fs, n) /\ Written(dDir, fs, n, dExports)
  BY <1>2
<1>4. Head(dToWrite) = fs[n + 1] /\ n + 1 \in 1 .. Len(fs) /\ Rest(Tail(dToWrite), fs, n + 1)
  BY <1>1, <1>3, RestShrinks
<1>5. v.by = dExports /\ ~v.cut /\ v.rows = fs[n + 1].rows
  BY <1>4
<1> HIDE DEF v
<1>6. dExports \in Nat /\ Directory(dDir, dExports) /\ dDir' = [dDir EXCEPT ![fs[n + 1].path] = v]
  BY <1>1, <1>4 DEF DataInv
<1>7. PICK e : e = dDir'
  OBVIOUS
<1>8. Directory(e, dExports) /\ Written(e, fs, n + 1, dExports)
  BY <1>3, <1>4, <1>5, <1>6, <1>7, FileWritten
<1>9. Exporting'
  <2>1. n + 1 \in Nat /\ FilesOf(fs, ex, rd) /\ Rest(dToWrite', fs, n + 1)
        /\ Written(dDir', fs, n + 1, dExports')
    BY <1>1, <1>3, <1>4, <1>7, <1>8
  <2>2. \E m \in Nat :
          FilesOf(fs, ex, rd) /\ Rest(dToWrite', fs, m) /\ Written(dDir', fs, m, dExports')
    BY <2>1
  <2> QED BY <1>1, <2>2 DEF Exporting
<1>10. Directory(dDir', dExports') /\ dExports' \in Nat
  BY <1>1, <1>6, <1>7, <1>8
<1>11. WellRead'
  BY <1>1 DEF DataInv, WellRead
<1> QED BY <1>9, <1>10, <1>11 DEF DataInv

LEMMA WriteFailsKeeps ==
  ASSUME Dataset!DatasetConstants, DataInv, Dataset!WriteFails PROVE DataInv'
<1> DEFINE v == [by |-> dExports, cut |-> TRUE, rows |-> <<>>]
<1>1. dExport = "write" /\ dToWrite # <<>>
      /\ dDir' \in {dDir, [dDir EXCEPT ![Head(dToWrite).path] = v]}
      /\ dExport' = "none" /\ dRead' = Dataset!NothingRead
      /\ UNCHANGED dExports /\ UNCHANGED dLive
  BY DEF Dataset!WriteFails
<1>2. PICK fs, ex, rd : \E n \in Nat :
        FilesOf(fs, ex, rd) /\ Rest(dToWrite, fs, n) /\ Written(dDir, fs, n, dExports)
  BY <1>1 DEF DataInv, Exporting
<1>3. PICK n \in Nat :
        FilesOf(fs, ex, rd) /\ Rest(dToWrite, fs, n) /\ Written(dDir, fs, n, dExports)
  BY <1>2
<1>4. Head(dToWrite) = fs[n + 1] /\ n + 1 \in 1 .. Len(fs)
  BY <1>1, <1>3, RestShrinks
<1>5. v.by = dExports /\ v.cut
  OBVIOUS
<1> HIDE DEF v
<1>6. WellRead /\ dExports \in Nat /\ Directory(dDir, dExports)
  BY DEF DataInv
<1>7. PICK e : e = [dDir EXCEPT ![fs[n + 1].path] = v]
  OBVIOUS
<1>8. Directory(e, dExports)
  BY <1>3, <1>4, <1>5, <1>6, <1>7, FileWritten
<1>9. dDir' = dDir \/ dDir' = e
  BY <1>1, <1>4, <1>7
<1>10. Directory(dDir', dExports)
  BY <1>6, <1>8, <1>9
<1> QED BY <1>1, <1>6, <1>10, NoneKeeps

LEMMA DataNext ==
  ASSUME Dataset!DatasetConstants, DataInv, [Dataset!Next]_(Dataset!vars) PROVE DataInv'
<1>1. CASE UNCHANGED Dataset!vars
  <2>1. UNCHANGED dLive /\ UNCHANGED dRead /\ UNCHANGED dExports /\ UNCHANGED dExport
        /\ UNCHANGED dToWrite /\ UNCHANGED dDir
    BY <1>1 DEF Dataset!vars
  <2> QED BY <2>1 DEF DataInv, WellRead, Exporting
<1>2. CASE Dataset!Next
  BY <1>2, AppendsKeeps, ResetsTapeKeeps, BeginsKeeps, ReadsKeeps, ReadFailsKeeps, BuildsKeeps,
     WritesKeeps, WriteFailsKeeps, EndsKeeps
  DEF Dataset!Next
<1> QED BY <1>1, <1>2

\* So the files of a dataset agree.
LEMMA DatasetStaysWhole ==
  ASSUME Dataset!DatasetConstants PROVE Dataset!Spec => []Dataset!DatasetIsWhole
<1>1. DataInv => Dataset!DatasetIsWhole
  <2> SUFFICES ASSUME DataInv PROVE Dataset!DatasetIsWhole
    OBVIOUS
  <2>1. ManifestFits(dDir) /\ SegmentsFit(dDir)
    BY DEF DataInv, Directory
  <2>2. Dataset!ManifestIsLast
    <3> SUFFICES ASSUME dDir["manifest"].by # 0, ~dDir["manifest"].cut
                 PROVE  /\ \A p \in {"tapes", "entries", "segments"}
                                    \cup {dDir["manifest"].rows[i] :
                                            i \in DOMAIN dDir["manifest"].rows} :
                             dDir[p].by >= dDir["manifest"].by
                        /\ dDir["entries"].by = dDir["manifest"].by =>
                             [i \in DOMAIN dDir["entries"].rows |-> dDir["entries"].rows[i].tape]
                               = dDir["manifest"].rows
      BY DEF Dataset!ManifestIsLast
    <3>1. /\ dDir["manifest"].rows \in Seq(Dataset!Tapes)
          /\ \A p \in {"tapes", "entries", "segments"} : dDir[p].by >= dDir["manifest"].by
          /\ \A i \in 1 .. Len(dDir["manifest"].rows) :
               dDir[dDir["manifest"].rows[i]].by >= dDir["manifest"].by
          /\ dDir["entries"].by = dDir["manifest"].by =>
               [i \in DOMAIN dDir["entries"].rows |-> dDir["entries"].rows[i].tape]
                 = dDir["manifest"].rows
      BY <2>1 DEF ManifestFits
    <3>2. DOMAIN dDir["manifest"].rows = 1 .. Len(dDir["manifest"].rows)
      BY <3>1
    <3> QED BY <3>1, <3>2
  <2>3. Dataset!SegmentsAreSlices
    <3> SUFFICES ASSUME dDir["entries"].by = dDir["segments"].by,
                        ~dDir["entries"].cut, ~dDir["segments"].cut
                 PROVE  \A n \in DOMAIN dDir["entries"].rows :
                          Slices(dDir["entries"].rows[n].of, dDir["segments"].rows[n].of)
      BY Zenon DEF Dataset!SegmentsAreSlices, Slices
    <3> QED BY <2>1 DEF SegmentsFit
  <2> QED BY <2>2, <2>3 DEF Dataset!DatasetIsWhole
<1> QED BY <1>1, DataInit, DataNext, PTL DEF Dataset!Spec

-----------------------------------------------------------------------------
(***************************************************************************)
(* The OpenTelemetry exporter: what a trace says                           *)
(***************************************************************************)

Once(q) == \A i, j \in 1 .. Len(q) : q[i] = q[j] => i = j
In(e, q) == \E i \in 1 .. Len(q) : q[i] = e
CallRecords == [call : OCallers, result : SUBSET OCallers]

LEMMA InRange == ASSUME NEW T, NEW q \in Seq(T), NEW e PROVE e \in Otel!Range(q) <=> In(e, q)
<1>1. DOMAIN q = 1 .. Len(q)
  OBVIOUS
<1> QED BY <1>1, Zenon DEF Otel!Range, In

\* A call is one of the first n entries, and its result later ones of them.
Replied(c, n, s) ==
  \E i \in 1 .. n :
    s[i] = c.call /\ \A x \in c.result : \E j \in 1 .. n : i < j /\ s[j] = x
Answered(q, n, s) == q \in Seq(CallRecords) /\ \A k \in 1 .. Len(q) : Replied(q[k], n, s)

LEMMA AnsweredLonger ==
  ASSUME NEW q, NEW s, NEW n \in Nat, n # 0, Answered(q, n - 1, s) PROVE Answered(q, n, s)
<1>1. \A i \in 1 .. n - 1 : i \in 1 .. n
  OBVIOUS
<1>2. ASSUME NEW c, Replied(c, n - 1, s) PROVE Replied(c, n, s)
  <2>1. PICK i \in 1 .. n - 1 :
          s[i] = c.call /\ \A x \in c.result : \E j \in 1 .. n - 1 : i < j /\ s[j] = x
    BY <1>2 DEF Replied
  <2>2. \A x \in c.result : \E j \in 1 .. n : i < j /\ s[j] = x
    BY <1>1, <2>1
  <2> QED BY <1>1, <2>1, <2>2 DEF Replied
<1> QED BY <1>2 DEF Answered

LEMMA WithEntryAnswers ==
  ASSUME NEW s \in Seq(OCallers), NEW n \in 1 .. Len(s), NEW q, Answered(q, n - 1, s)
  PROVE  Answered(Otel!WithEntry(q, s[n]), n, s)
<1> DEFINE e == s[n]
           r == Otel!WithEntry(q, e)
           c == [call |-> e, result |-> {}]
<1>1. n \in Nat /\ n # 0 /\ n \in 1 .. n /\ e \in OCallers /\ q \in Seq(CallRecords)
      /\ c \in CallRecords
  BY DEF Answered, CallRecords
<1>2. Answered(q, n, s)
  BY <1>1, AnsweredLonger
<1>3. CASE r = q
  BY <1>2, <1>3
<1>4. CASE r = Append(q, c)
  <2> DEFINE l == Len(q)
  <2> HIDE DEF r, c
  <2>1. l \in Nat /\ r \in Seq(CallRecords) /\ Len(r) = l + 1 /\ r[l + 1] = c
        /\ \A k \in 1 .. l : r[k] = q[k]
    BY <1>1, <1>4, AppendProperties
  <2>2. c.call = e /\ c.result = {}
    BY DEF c
  <2> SUFFICES ASSUME NEW k \in 1 .. l + 1 PROVE Replied(r[k], n, s)
    BY <2>1 DEF Answered, r
  <2> HIDE DEF l
  <2>3. CASE k = l + 1
    <3>1. r[k] = c
      BY <2>1, <2>3
    <3>2. Replied(c, n, s)
      BY <1>1, <2>2 DEF Replied
    <3> QED BY <3>1, <3>2
  <2>4. CASE k # l + 1
    <3>1. k \in 1 .. l
      BY <2>1, <2>4
    <3>2. Replied(q[k], n, s)
      BY <1>2, <3>1 DEF Answered, l
    <3> QED BY <2>1, <3>1, <3>2
  <2> QED BY <2>3, <2>4
<1>5. CASE q # <<>> /\ r = [q EXCEPT ![1].result = {e}]
  <2> HIDE DEF r
  <2>1. 1 \in DOMAIN q /\ DOMAIN q = 1 .. Len(q) /\ Len(q) \in Nat
    BY <1>1, <1>5
  <2>2. q[1] \in CallRecords /\ {e} \in SUBSET OCallers
    BY <1>1, <2>1
  <2> DEFINE new == [q[1] EXCEPT !.result = {e}]
  <2>3. new \in CallRecords /\ new.call = q[1].call /\ new.result = {e}
    BY <2>2 DEF CallRecords
  <2> HIDE DEF e
  <2>4. r = [q EXCEPT ![1] = new]
    BY <1>5
  <2> HIDE DEF new
  <2>5. r \in Seq(CallRecords) /\ Len(r) = Len(q) /\ r[1] = new
        /\ \A k \in 1 .. Len(q) : k # 1 => r[k] = q[k]
    BY <1>1, <2>1, <2>3, <2>4
  <2> SUFFICES Answered(r, n, s)
    BY DEF r, e
  <2> SUFFICES ASSUME NEW k \in 1 .. Len(q) PROVE Replied(r[k], n, s)
    BY <2>5 DEF Answered
  <2>6. CASE k # 1
    <3>1. Replied(q[k], n, s)
      BY <1>2 DEF Answered
    <3> QED BY <2>5, <2>6, <3>1
  <2>7. CASE k = 1
    <3>1. PICK i \in 1 .. n - 1 : s[i] = q[1].call
      <4>1. Replied(q[1], n - 1, s)
        BY <2>1 DEF Answered
      <4> QED BY <4>1 DEF Replied
    <3>2. i \in 1 .. n /\ i < n /\ s[i] = new.call
      BY <1>1, <2>3, <3>1
    <3>3. \A x \in new.result : x = s[n]
      BY <2>3 DEF e
    <3>4. Replied(new, n, s)
      BY <1>1, <3>2, <3>3 DEF Replied
    <3> QED BY <2>5, <2>7, <3>4
  <2> QED BY <2>6, <2>7
<1>6. \/ r = Append(q, c) \/ (q # <<>> /\ r = [q EXCEPT ![1].result = {e}]) \/ r = q
  BY DEF Otel!WithEntry
<1> QED BY <1>3, <1>4, <1>5, <1>6

LEMMA CallsAnswered ==
  ASSUME NEW s \in Seq(OCallers) PROVE Answered(Otel!ToolCalls(s), Len(s), s)
<1> DEFINE S == Seq(CallRecords)
           l == Len(s)
           W(x, m) == Otel!WithEntry(x, s[m])
           Turned(f, n) == IF n = 0 THEN <<>> ELSE W(f[n - 1], n)
           Solves(f) == f = [n \in 0 .. l |-> Turned(f, n)]
           g == CHOOSE f : Solves(f)
           G == [m \in 1 .. l |-> [x \in S |-> IF Answered(x, m - 1, s) THEN W(x, m) ELSE <<>>]]
<1>1. l \in Nat
  OBVIOUS
<1>2. ASSUME NEW m \in 1 .. l, NEW x, Answered(x, m - 1, s) PROVE Answered(W(x, m), m, s)
  BY <1>2, WithEntryAnswers
<1>3. <<>> \in S /\ Answered(<<>>, 0, s)
  BY DEF Answered
<1>4. Otel!ToolCalls(s) = g[l]
  BY DEF Otel!ToolCalls
<1> HIDE DEF W
<1>5. \A m \in 1 .. l : \A x \in S :
        /\ G[m][x] \in S
        /\ Answered(x, m - 1, s) => G[m][x] = W(x, m)
  <2>1. \A q, n : Answered(q, n, s) => q \in S
    BY DEF Answered
  <2> HIDE DEF S
  <2> QED BY <1>2, <1>3, <2>1
<1> HIDE DEF G, l, S
<1>6. PICK f : Turns(f, l, S, <<>>, G)
  BY <1>1, <1>3, <1>5, LoopExists
<1>7. f \in [0 .. l -> S] /\ f[0] = <<>> /\ \A m \in 1 .. l : f[m] = G[m][f[m - 1]]
  BY <1>6 DEF Turns
<1>8. \A n \in 0 .. l : Answered(f[n], n, s)
  <2> DEFINE good == {n \in 0 .. l : Answered(f[n], n, s)}
  <2>1. 0 \in good
    BY <1>1, <1>3, <1>7
  <2>2. \A m \in 1 .. l : m - 1 \in good => m \in good
    <3> SUFFICES ASSUME NEW m \in 1 .. l, m - 1 \in good PROVE m \in good
      OBVIOUS
    <3>1. m - 1 \in 0 .. l /\ m \in 0 .. l /\ Answered(f[m - 1], m - 1, s) /\ f[m - 1] \in S
      BY <1>1, <1>7
    <3>2. f[m] = W(f[m - 1], m)
      BY <1>5, <1>7, <3>1
    <3> QED BY <1>2, <3>1, <3>2
  <2> HIDE DEF good
  <2>3. \A m \in 0 .. l : m \in good
    BY <1>1, <2>1, <2>2, UpTo
  <2> QED BY <2>3 DEF good
<1>9. Solves(f)
  <2>1. ASSUME NEW n \in 0 .. l PROVE f[n] = Turned(f, n)
    <3>1. CASE n = 0
      BY <1>7, <3>1
    <3>2. CASE n # 0
      <4>1. n \in 1 .. l /\ n - 1 \in 0 .. l
        BY <1>1, <3>2
      <4>2. f[n - 1] \in S /\ f[n] = G[n][f[n - 1]] /\ Answered(f[n - 1], n - 1, s)
        BY <1>7, <1>8, <4>1
      <4>3. f[n] = W(f[n - 1], n)
        BY <1>5, <4>1, <4>2
      <4> QED BY <3>2, <4>3
    <3> QED BY <3>1, <3>2
  <2> HIDE DEF Turned
  <2> QED BY <1>7, <2>1
<1>10. Solves(g)
  <2> HIDE DEF Solves
  <2> QED BY <1>9
<1> HIDE DEF g
<1>11. \A n \in 0 .. l : g[n] = Turned(g, n)
  <2> HIDE DEF Turned
  <2> QED BY <1>10, Zenon
<1>12. g[0] = <<>> /\ \A n \in 1 .. l : g[n] = W(g[n - 1], n)
  <2>1. 0 \in 0 .. l /\ \A n \in 1 .. l : n \in 0 .. l /\ n # 0
    BY <1>1
  <2>2. g[0] = Turned(g, 0) /\ \A n \in 1 .. l : g[n] = Turned(g, n)
    BY <1>11, <2>1, Zenon
  <2> QED BY <2>1, <2>2
<1>13. \A n \in 0 .. l : Answered(g[n], n, s)
  <2> DEFINE good == {n \in 0 .. l : Answered(g[n], n, s)}
  <2>1. 0 \in good
    BY <1>1, <1>3, <1>12
  <2>2. \A m \in 1 .. l : m - 1 \in good => m \in good
    <3> SUFFICES ASSUME NEW m \in 1 .. l, m - 1 \in good PROVE m \in good
      OBVIOUS
    <3>1. m \in 0 .. l /\ Answered(g[m - 1], m - 1, s)
      BY <1>1
    <3>2. Answered(W(g[m - 1], m), m, s)
      BY <1>2, <3>1
    <3>3. g[m] = W(g[m - 1], m)
      BY <1>12
    <3> QED BY <3>1, <3>2, <3>3
  <2> HIDE DEF good
  <2>3. \A m \in 0 .. l : m \in good
    BY <1>1, <2>1, <2>2, UpTo
  <2> QED BY <2>3 DEF good
<1> QED BY <1>1, <1>4, <1>13 DEF l

\* The place of the last end before place i, or 0.
EndBefore(E, i) ==
  IF \E j \in E : j < i THEN CHOOSE j \in E : j < i /\ \A k \in E : k < i => k <= j ELSE 0

LEMMA EndBeforeFacts ==
  ASSUME NEW E, E \subseteq Nat \ {0}, NEW i \in Nat \ {0}
  PROVE  /\ EndBefore(E, i) \in Nat /\ EndBefore(E, i) < i
         /\ \A k \in E : k < i => k <= EndBefore(E, i)
         /\ EndBefore(E, i) # 0 => EndBefore(E, i) \in E
<1>1. CASE ~ \E j \in E : j < i
  BY <1>1 DEF EndBefore
<1>2. CASE \E j \in E : j < i
  <2> DEFINE S == {j \in E : j < i}
  <2>1. S \subseteq Nat /\ S # {} /\ Bounded(S)
    <3>1. i \in Nat /\ \A k \in S : k <= i
      OBVIOUS
    <3>2. S # {} /\ S \subseteq Nat
      BY <1>2
    <3> HIDE DEF S
    <3> QED BY <3>1, <3>2 DEF Bounded
  <2>2. PICK m \in S : \A k \in S : k <= m
    <3> HIDE DEF S
    <3> QED BY <2>1, Greatest
  <2>3. \E j \in E : j < i /\ \A k \in E : k < i => k <= j
    BY <2>2
  <2>4. /\ EndBefore(E, i) \in E /\ EndBefore(E, i) < i
        /\ \A k \in E : k < i => k <= EndBefore(E, i)
    BY <1>2, <2>3, Zenon DEF EndBefore
  <2> QED BY <2>4
<1> QED BY <1>1, <1>2

\* What EntriesAreTracedOnce says of a trace.
TraceFits(t) ==
  /\ \A s, u \in t.steps : s # u => Otel!Range(s.entries) \cap Otel!Range(u.entries) = {}
  /\ \A i \in DOMAIN t.entries :
       (\E j \in Otel!Ends(t.entries) : i <= j) =>
         \E s \in t.steps : t.entries[i] \in Otel!Range(s.entries)
  /\ \A s \in t.steps : \A k \in DOMAIN s.calls : \A r \in s.calls[k].result :
       \E i, j \in DOMAIN s.entries :
         i < j /\ s.entries[i] = s.calls[k].call /\ s.entries[j] = r

\* A step is a slice that ends at an end.
LEMMA StepsAreSlices ==
  ASSUME NEW es \in Seq(OCallers), Otel!Ends(es) # {}
  PROVE  Otel!Steps(es) = {SubSeq(es, 1 + EndBefore(Otel!Ends(es), i), i) : i \in Otel!Ends(es)}
  BY DEF Otel!Steps, EndBefore

LEMMA SliceHas ==
  ASSUME NEW es \in Seq(OCallers), NEW m \in Nat, NEW i \in 1 .. Len(es), m < i
  PROVE  /\ SubSeq(es, 1 + m, i) \in Seq(OCallers)
         /\ \A e : In(e, SubSeq(es, 1 + m, i)) <=> \E k \in 1 .. Len(es) : m < k /\ k <= i /\ es[k] = e
<1> DEFINE q == SubSeq(es, 1 + m, i)
           l == Len(es)
<1>1. l \in Nat /\ i \in 1 .. l
  OBVIOUS
<1>2. q \in Seq(OCallers) /\ Len(q) = i - m /\ \A k \in 1 .. i - m : q[k] = es[m + k]
  <2>1. 1 + m \in 1 .. l + 1 /\ i \in (1 + m) - 1 .. l
    <3> HIDE DEF l
    <3> QED BY <1>1
  <2>2. /\ q \in Seq(OCallers)
        /\ Len(q) = IF 1 + m <= i THEN i - (1 + m) + 1 ELSE 0
        /\ \A k \in 1 .. i - (1 + m) + 1 : q[k] = es[(1 + m) + k - 1]
    BY <2>1, SubSeqProperties
  <2> HIDE DEF q, l
  <2>3. 1 + m <= i /\ i - (1 + m) + 1 = i - m
    BY <1>1
  <2>4. \A k \in Int : (1 + m) + k - 1 = m + k
    BY <1>1
  <2>5. Len(q) = i - m
    BY <2>2, <2>3
  <2>6. \A k \in 1 .. i - m : q[k] = es[(1 + m) + k - 1]
    BY <2>2, <2>3
  <2> QED BY <2>2, <2>4, <2>5, <2>6
<1> HIDE DEF q
<1>3. ASSUME NEW e PROVE In(e, q) <=> \E k \in 1 .. l : m < k /\ k <= i /\ es[k] = e
  <2> HIDE DEF l
  <2>1. ASSUME NEW k \in 1 .. Len(q), q[k] = e PROVE m + k \in 1 .. l /\ m < m + k /\ m + k <= i /\ es[m + k] = e
    BY <1>1, <1>2, <2>1
  <2>2. ASSUME NEW k \in 1 .. l, m < k, k <= i, es[k] = e PROVE k - m \in 1 .. Len(q) /\ q[k - m] = e
    <3>1. k - m \in 1 .. i - m /\ m + (k - m) = k
      BY <1>1, <2>2
    <3> QED BY <1>2, <2>2, <3>1
  <2> QED BY <2>1, <2>2 DEF In
<1> QED BY <1>2, <1>3 DEF q

\* The steps of a trace share no entry and leave none out before the last end.
LEMMA StepsSplit ==
  ASSUME NEW es \in Seq(OCallers), Once(es)
  PROVE  /\ \A s \in Otel!Steps(es) : s \in Seq(OCallers)
         /\ \A s, u \in Otel!Steps(es) : s # u => \A e : ~ (In(e, s) /\ In(e, u))
         /\ \A i \in 1 .. Len(es) : (\E j \in Otel!Ends(es) : i <= j) =>
              \E s \in Otel!Steps(es) : In(es[i], s)
<1> DEFINE E == Otel!Ends(es)
           l == Len(es)
           Step(i) == SubSeq(es, 1 + EndBefore(E, i), i)
<1>1. l \in Nat /\ E \subseteq 1 .. l
  BY DEF Otel!Ends
<1>2. CASE E = {}
  <2>1. Otel!Steps(es) \subseteq {es}
    BY <1>2 DEF Otel!Steps
  <2> QED BY <1>2, <2>1
<1>3. CASE E # {}
  <2>1. Otel!Steps(es) = {Step(i) : i \in E}
    BY <1>3, StepsAreSlices
  <2> HIDE DEF E
  <2>2. E \subseteq Nat \ {0}
    BY <1>1
  <2>3. ASSUME NEW i \in E
        PROVE  /\ EndBefore(E, i) \in Nat /\ EndBefore(E, i) < i
               /\ \A k \in E : k < i => k <= EndBefore(E, i)
               /\ EndBefore(E, i) # 0 => EndBefore(E, i) \in E
    BY <2>2, EndBeforeFacts
  <2>4. ASSUME NEW i \in E
        PROVE  /\ Step(i) \in Seq(OCallers)
               /\ \A e : In(e, Step(i)) <=>
                           \E k \in 1 .. l : EndBefore(E, i) < k /\ k <= i /\ es[k] = e
    <3>1. i \in 1 .. Len(es)
      BY <1>1
    <3> QED BY <2>3, <3>1, SliceHas
  <2> HIDE DEF Step
  <2>5. \A s \in Otel!Steps(es) : s \in Seq(OCallers)
    BY <2>1, <2>4
  <2>6. ASSUME NEW i \in E, NEW j \in E, i < j, NEW e, In(e, Step(i)), In(e, Step(j)) PROVE FALSE
    <3>1. PICK k \in 1 .. l : EndBefore(E, i) < k /\ k <= i /\ es[k] = e
      BY <2>4, <2>6
    <3>2. PICK m \in 1 .. l : EndBefore(E, j) < m /\ m <= j /\ es[m] = e
      BY <2>4, <2>6
    <3>3. k = m
      BY <3>1, <3>2 DEF Once
    <3>4. i <= EndBefore(E, j) /\ EndBefore(E, j) \in Nat /\ i \in Nat
      BY <2>2, <2>3, <2>6
    <3> HIDE DEF l
    <3> QED BY <1>1, <3>1, <3>2, <3>3, <3>4
  <2>7. ASSUME NEW s \in Otel!Steps(es), NEW u \in Otel!Steps(es), s # u, NEW e
        PROVE  ~ (In(e, s) /\ In(e, u))
    <3>1. PICK i \in E, j \in E : s = Step(i) /\ u = Step(j)
      BY <2>1
    <3>2. i < j \/ j < i
      <4>1. i # j /\ i \in Nat /\ j \in Nat
        BY <2>2, <2>7, <3>1
      <4> QED BY <4>1
    <3> QED BY <2>6, <3>1, <3>2
  <2>8. ASSUME NEW i \in 1 .. l, NEW j \in E, i <= j PROVE \E s \in Otel!Steps(es) : In(es[i], s)
    <3> DEFINE S == {k \in E : i <= k}
    <3>1. S \subseteq Nat /\ S # {}
      BY <2>2, <2>8
    <3>2. PICK k \in S : \A m \in S : k <= m
      <4> HIDE DEF S
      <4> QED BY <3>1, Least
    <3>3. k \in E /\ i <= k /\ \A m \in E : i <= m => k <= m
      BY <3>2
    <3>4. EndBefore(E, k) < i
      <4>1. EndBefore(E, k) \in Nat /\ EndBefore(E, k) < k
            /\ (EndBefore(E, k) # 0 => EndBefore(E, k) \in E)
        BY <2>3, <3>3
      <4>2. k \in Nat /\ i \in Nat /\ i # 0
        BY <1>1, <2>2, <3>3
      <4> QED BY <3>3, <4>1, <4>2
    <3>5. In(es[i], Step(k))
      BY <2>4, <3>3, <3>4
    <3> QED BY <2>1, <3>3, <3>5
  <2> QED BY <2>5, <2>7, <2>8 DEF E
<1> QED BY <1>2, <1>3

LEMMA NewTraceFits ==
  ASSUME NEW es \in Seq(OCallers), Once(es)
  PROVE  TraceFits(Otel!Trace(es)) /\ Otel!Trace(es).entries = es
<1> DEFINE t == Otel!Trace(es)
<1>1. t.entries = es
      /\ t.steps = {[entries |-> s, calls |-> Otel!ToolCalls(s)] : s \in Otel!Steps(es)}
  BY DEF Otel!Trace
<1> HIDE DEF t
<1>2. /\ \A s \in Otel!Steps(es) : s \in Seq(OCallers)
      /\ \A s, u \in Otel!Steps(es) : s # u => \A e : ~ (In(e, s) /\ In(e, u))
      /\ \A i \in 1 .. Len(es) : (\E j \in Otel!Ends(es) : i <= j) =>
           \E s \in Otel!Steps(es) : In(es[i], s)
  BY StepsSplit
<1>3. ASSUME NEW s \in t.steps, NEW u \in t.steps, s # u
      PROVE  Otel!Range(s.entries) \cap Otel!Range(u.entries) = {}
  <2>1. PICK a \in Otel!Steps(es), b \in Otel!Steps(es) :
          /\ s = [entries |-> a, calls |-> Otel!ToolCalls(a)]
          /\ u = [entries |-> b, calls |-> Otel!ToolCalls(b)]
    BY <1>1
  <2>2. s.entries = a /\ u.entries = b /\ a # b
    BY <1>3, <2>1
  <2>3. \A e : ~ (e \in Otel!Range(a) /\ e \in Otel!Range(b))
    BY <1>2, <2>2, InRange
  <2> QED BY <2>2, <2>3
<1>4. ASSUME NEW i \in DOMAIN t.entries, NEW j \in Otel!Ends(t.entries), i <= j
      PROVE  \E s \in t.steps : t.entries[i] \in Otel!Range(s.entries)
  <2>1. i \in 1 .. Len(es) /\ j \in Otel!Ends(es)
    BY <1>1, <1>4
  <2>2. PICK a \in Otel!Steps(es) : In(es[i], a)
    BY <1>2, <1>4, <2>1
  <2>3. es[i] \in Otel!Range(a)
    BY <1>2, <2>2, InRange
  <2>4. PICK s \in t.steps : s = [entries |-> a, calls |-> Otel!ToolCalls(a)]
    BY <1>1
  <2> QED BY <1>1, <2>3, <2>4
<1>5. ASSUME NEW s \in t.steps, NEW k \in DOMAIN s.calls, NEW r \in s.calls[k].result
      PROVE  \E i, j \in DOMAIN s.entries :
               i < j /\ s.entries[i] = s.calls[k].call /\ s.entries[j] = r
  <2>1. PICK a \in Otel!Steps(es) : s = [entries |-> a, calls |-> Otel!ToolCalls(a)]
    BY <1>1
  <2>2. PICK q : q = Otel!ToolCalls(a)
    OBVIOUS
  <2>3. s.entries = a /\ s.calls = q /\ a \in Seq(OCallers)
    BY <1>2, <2>1, <2>2
  <2>4. Answered(q, Len(a), a)
    BY <2>2, <2>3, CallsAnswered
  <2>5. k \in 1 .. Len(q) /\ r \in q[k].result
    BY <1>5, <2>3, <2>4 DEF Answered
  <2>6. Replied(q[k], Len(a), a)
    BY <2>4, <2>5 DEF Answered
  <2>7. PICK i \in 1 .. Len(a) :
          a[i] = q[k].call /\ \A x \in q[k].result : \E j \in 1 .. Len(a) : i < j /\ a[j] = x
    BY <2>6 DEF Replied
  <2>8. PICK j \in 1 .. Len(a) : i < j /\ a[j] = r
    BY <2>5, <2>7
  <2>9. DOMAIN s.entries = 1 .. Len(a)
    BY <2>3
  <2> QED BY <2>3, <2>7, <2>8, <2>9
<1>6. TraceFits(t)
  BY <1>3, <1>4, <1>5 DEF TraceFits
<1> QED BY <1>1, <1>6 DEF t

-----------------------------------------------------------------------------
(***************************************************************************)
(* The OpenTelemetry exporter: where an entry is                           *)
(***************************************************************************)

\* An entry that is committed is in one place: with its writer, pending, in one of the
\* batches B, in one of the traces T, or lost; any other is nowhere.
Placed(com, writer, pend, B, T, gone) ==
  /\ com <=> (writer \/ pend \/ B # {} \/ T # {} \/ gone)
  /\ writer => ~pend /\ B = {} /\ T = {} /\ ~gone
  /\ pend => B = {} /\ T = {} /\ ~gone
  /\ B # {} => (\E c : B = {c}) /\ T = {} /\ ~gone
  /\ T # {} => (\E t : T = {t}) /\ ~gone

Batches(e) == {c \in Otel!Calls : In(e, oBatch[c])}
TracesOf(e) == {t \in oTraces : In(e, t.entries)}
PlacedOnce(e) ==
  Placed(e \in oCommitted, oPc[e] = "record", In(e, oPending), Batches(e), TracesOf(e), e \in oLost)

OtelTypes ==
  /\ oPc \in [Otel!Calls -> {"idle", "record", "trace", "done", "raised"}]
  /\ oCommitted \subseteq OCallers /\ oLost \subseteq OCallers
  /\ oPending \in Seq(OCallers) /\ Once(oPending)
  /\ DOMAIN oBatch = Otel!Calls
  /\ \A c \in Otel!Calls :
       /\ oBatch[c] \in Seq(OCallers) /\ Once(oBatch[c])
       /\ oPc[c] # "trace" => oBatch[c] = <<>>
  /\ \A c \in OCallers : oPc[c] = "idle" => c \notin oCommitted
Traced == \A t \in oTraces : t.entries \in Seq(OCallers) /\ TraceFits(t)
OtelInv == OtelTypes /\ Traced /\ \A e \in OCallers : PlacedOnce(e)

LEMMA Nowhere == \A e : ~In(e, <<>>)
  BY DEF In

LEMMA OtelInit == Otel!Init => OtelInv
<1> SUFFICES ASSUME Otel!Init PROVE OtelInv
  OBVIOUS
<1>1. /\ oPc = [c \in Otel!Calls |-> "idle"] /\ oCommitted = {} /\ oPending = <<>>
      /\ oBatch = [c \in Otel!Calls |-> <<>>] /\ oTraces = {} /\ oLost = {}
  BY DEF Otel!Init
<1>2. OCallers \subseteq Otel!Calls
  BY DEF Otel!Calls
<1>3. OtelTypes
  <2>1. Once(<<>>) /\ <<>> \in Seq(OCallers)
    BY DEF Once
  <2> QED BY <1>1, <1>2, <2>1 DEF OtelTypes
<1>4. ASSUME NEW e \in OCallers PROVE PlacedOnce(e)
  <2>1. oPc[e] # "record" /\ ~In(e, oPending) /\ TracesOf(e) = {}
    BY <1>1, <1>2, Nowhere DEF TracesOf
  <2>2. Batches(e) = {}
    BY <1>1, Nowhere DEF Batches
  <2> QED BY <1>1, <2>1, <2>2 DEF PlacedOnce, Placed
<1> QED BY <1>1, <1>3, <1>4 DEF OtelInv, Traced

\* The kinds do not change, so what is said of a trace stays true.
LEMMA TracesStay ==
  ASSUME UNCHANGED oKind, NEW t, TraceFits(t) PROVE TraceFits(t)'
<1>1. PICK ends : ends = Otel!Ends(t.entries)
  OBVIOUS
<1>2. Otel!Ends(t.entries)' = ends
  BY <1>1 DEF Otel!Ends
<1> QED BY <1>1, <1>2 DEF TraceFits

\* The store commits, or not.
LEMMA OtelCommitsKeeps ==
  ASSUME Otel!OtelConstants, OtelInv, NEW c \in Otel!Calls, Otel!Commits(c) PROVE OtelInv'
<1>1. /\ oPc[c] = "idle" /\ UNCHANGED oKind /\ UNCHANGED oPending /\ UNCHANGED oBatch
      /\ UNCHANGED oTraces /\ UNCHANGED oLost
  BY DEF Otel!Commits
<1>2. \/ oPc' = [oPc EXCEPT ![c] = "record"] /\ oCommitted' = oCommitted \cup ({c} \cap OCallers)
      \/ oPc' = [oPc EXCEPT ![c] = "raised"] /\ oCommitted' = oCommitted
  BY DEF Otel!Commits, Otel!Goes
<1>3. OtelTypes /\ Traced /\ \A e \in OCallers : PlacedOnce(e)
  BY DEF OtelInv
<1>4. OCallers \subseteq Otel!Calls
  BY DEF Otel!Calls
<1>5. OtelTypes'
  <2>1. oPc' \in [Otel!Calls -> {"idle", "record", "trace", "done", "raised"}]
        /\ (\A d \in Otel!Calls : d # c => oPc'[d] = oPc[d]) /\ oPc'[c] # "idle" /\ oPc'[c] # "trace"
    BY <1>2, <1>3 DEF OtelTypes
  <2>2. oCommitted' \subseteq OCallers /\ \A d \in OCallers : d # c => (d \in oCommitted' <=> d \in oCommitted)
    BY <1>2, <1>3 DEF OtelTypes
  <2>3. \A d \in OCallers : oPc'[d] = "idle" => d \notin oCommitted'
    BY <1>3, <1>4, <2>1, <2>2 DEF OtelTypes
  <2> QED BY <1>1, <1>3, <2>1, <2>2, <2>3 DEF OtelTypes
<1>6. Traced'
  BY <1>1, <1>3, TracesStay DEF Traced
<1>7. ASSUME NEW e \in OCallers PROVE PlacedOnce(e)'
  <2>1. /\ In(e, oPending)' = In(e, oPending) /\ Batches(e)' = Batches(e)
        /\ TracesOf(e)' = TracesOf(e) /\ (e \in oLost)' = (e \in oLost)
    BY <1>1 DEF In, Batches, TracesOf
  <2>2. PlacedOnce(e)
    BY <1>3
  <2>3. CASE e # c
    <3>1. oPc'[e] = oPc[e] /\ (e \in oCommitted' <=> e \in oCommitted)
      BY <1>2, <1>3, <1>4, <2>3 DEF OtelTypes
    <3> QED BY <2>1, <2>2, <3>1 DEF PlacedOnce, Placed
  <2>4. CASE e = c
    <3>1. e \notin oCommitted
      BY <1>1, <1>3, <2>4 DEF OtelTypes
    <3>2. ~In(e, oPending) /\ Batches(e) = {} /\ TracesOf(e) = {} /\ e \notin oLost
      BY <2>2, <3>1 DEF PlacedOnce, Placed
    <3>3. e \in oCommitted' <=> oPc'[e] = "record"
      BY <1>2, <1>3, <1>4, <2>4, <3>1 DEF OtelTypes
    <3> QED BY <2>1, <3>2, <3>3 DEF PlacedOnce, Placed
  <2> QED BY <2>3, <2>4
<1> QED BY <1>5, <1>6, <1>7 DEF OtelInv

\* What is pending goes on into a batch of its own, with the writer's own entry if there is one.
LEMMA BatchTaken ==
  ASSUME OtelInv, NEW c \in Otel!Calls, oPc[c] = "record", NEW q \in Seq(OCallers), Once(q),
         \A e : In(e, q) <=> (In(e, oPending) \/ (e = c /\ c \in OCallers)),
         oBatch' = [oBatch EXCEPT ![c] = q], oPending' = <<>>,
         oPc' = [oPc EXCEPT ![c] = IF q = <<>> THEN "done" ELSE "trace"],
         UNCHANGED oKind, UNCHANGED oCommitted, UNCHANGED oTraces, UNCHANGED oLost
  PROVE  OtelInv'
<1>1. OtelTypes /\ Traced /\ \A e \in OCallers : PlacedOnce(e)
  BY DEF OtelInv
<1>2. OCallers \subseteq Otel!Calls
  BY DEF Otel!Calls
<1>3. OtelTypes'
  <2>1. oPc' \in [Otel!Calls -> {"idle", "record", "trace", "done", "raised"}]
        /\ (\A d \in Otel!Calls : d # c => oPc'[d] = oPc[d]) /\ oPc'[c] # "idle"
        /\ (oPc'[c] # "trace" => q = <<>>)
    BY <1>1 DEF OtelTypes
  <2>2. <<>> \in Seq(OCallers) /\ Once(<<>>)
    BY DEF Once
  <2>3. DOMAIN oBatch' = Otel!Calls /\ oBatch'[c] = q
        /\ \A d \in Otel!Calls : d # c => oBatch'[d] = oBatch[d]
    BY <1>1 DEF OtelTypes
  <2>4. \A d \in Otel!Calls : /\ oBatch'[d] \in Seq(OCallers) /\ Once(oBatch'[d])
                              /\ oPc'[d] # "trace" => oBatch'[d] = <<>>
    BY <1>1, <2>1, <2>3 DEF OtelTypes
  <2>5. \A d \in OCallers : oPc'[d] = "idle" => d \notin oCommitted'
    BY <1>1, <1>2, <2>1 DEF OtelTypes
  <2> QED BY <1>1, <2>1, <2>2, <2>3, <2>4, <2>5 DEF OtelTypes
<1>4. Traced'
  BY <1>1, TracesStay DEF Traced
<1>5. ASSUME NEW e \in OCallers PROVE PlacedOnce(e)'
  <2>1. ~In(e, oPending)' /\ TracesOf(e)' = TracesOf(e) /\ (e \in oLost)' = (e \in oLost)
        /\ (e \in oCommitted)' = (e \in oCommitted)
    BY Nowhere DEF TracesOf, In
  <2>2. PlacedOnce(e)
    BY <1>1
  <2>3. Batches(e)' = (Batches(e) \ {c}) \cup (IF In(e, q) THEN {c} ELSE {})
    <3>1. oBatch'[c] = q /\ \A d \in Otel!Calls : d # c => oBatch'[d] = oBatch[d]
      BY <1>1 DEF OtelTypes
    <3>2. \A d \in Otel!Calls : In(e, oBatch'[d]) <=> IF d = c THEN In(e, q) ELSE In(e, oBatch[d])
      BY <3>1
    <3> QED BY <3>2 DEF Batches, In
  <2>4. c \notin Batches(e)
    BY <1>1, Nowhere DEF OtelTypes, Batches
  <2>5. oPc'[e] = "record" <=> oPc[e] = "record" /\ e # c
    BY <1>1, <1>2 DEF OtelTypes
  <2>6. CASE In(e, q)
    <3>1. In(e, oPending) \/ oPc[e] = "record"
      BY <2>6
    <3>2. Batches(e) = {} /\ TracesOf(e) = {} /\ e \notin oLost /\ e \in oCommitted
      BY <2>2, <3>1 DEF PlacedOnce, Placed
    <3>3. oPc'[e] # "record"
      BY <2>2, <2>5, <2>6 DEF PlacedOnce, Placed
    <3>4. Batches(e)' = {c}
      BY <2>3, <2>6, <3>2
    <3> QED BY <2>1, <3>2, <3>3, <3>4 DEF PlacedOnce, Placed
  <2>7. CASE ~In(e, q)
    <3>1. ~In(e, oPending) /\ e # c
      BY <2>7
    <3>2. Batches(e)' = Batches(e) /\ (oPc'[e] = "record" <=> oPc[e] = "record")
      BY <2>3, <2>4, <2>5, <2>7, <3>1
    <3> QED BY <2>1, <2>2, <3>1, <3>2 DEF PlacedOnce, Placed
  <2> QED BY <2>6, <2>7
<1> QED BY <1>3, <1>4, <1>5 DEF OtelInv

\* A sequence with one more entry.
LEMMA OneMore ==
  ASSUME NEW T, NEW q \in Seq(T), NEW c \in T, Once(q), ~In(c, q)
  PROVE  /\ Append(q, c) \in Seq(T) /\ Once(Append(q, c)) /\ Append(q, c) # <<>>
         /\ \A e : In(e, Append(q, c)) <=> (In(e, q) \/ e = c)
<1> DEFINE r == Append(q, c)
           l == Len(q)
<1>1. l \in Nat /\ r \in Seq(T) /\ Len(r) = l + 1 /\ r[l + 1] = c /\ \A k \in 1 .. l : r[k] = q[k]
  BY AppendProperties
<1>2. (\A k \in 1 .. l + 1 : k = l + 1 \/ k \in 1 .. l) /\ l + 1 \in 1 .. l + 1
      /\ \A k \in 1 .. l : k \in 1 .. l + 1
  <2> HIDE DEF l
  <2> QED BY <1>1
<1>3. \A e : In(e, r) <=> (In(e, q) \/ e = c)
  <2>1. \A e : In(e, q) <=> \E k \in 1 .. l : q[k] = e
    BY DEF In
  <2>2. \A e : In(e, r) <=> \E k \in 1 .. l + 1 : r[k] = e
    BY <1>1, Zenon DEF In
  <2> HIDE DEF r, l
  <2> QED BY <1>1, <1>2, <2>1, <2>2
<1>4. Once(r)
  <2>1. \A k \in 1 .. l : r[k] # c
    BY <1>1 DEF In
  <2>2. \A i, j \in 1 .. l : r[i] = r[j] => i = j
    BY <1>1 DEF Once
  <2> HIDE DEF r, l
  <2>3. \A i, j \in 1 .. l + 1 : r[i] = r[j] => i = j
    BY <1>1, <1>2, <2>1, <2>2
  <2> QED BY <1>1, <2>3 DEF Once
<1>5. r # <<>>
  <2> HIDE DEF r, l
  <2>1. Len(r) # 0
    BY <1>1
  <2>2. Len(<<>>) = 0
    OBVIOUS
  <2> QED BY <2>1, <2>2, Zenon
<1> QED BY <1>1, <1>3, <1>4, <1>5

\* An entry is recorded: it is pending, or ends a batch.
LEMMA OtelRecordsKeeps ==
  ASSUME OtelInv, NEW c \in Otel!Calls, Otel!Records(c) PROVE OtelInv'
<1>1. /\ oPc[c] = "record" /\ c \in OCallers
      /\ UNCHANGED oKind /\ UNCHANGED oCommitted /\ UNCHANGED oTraces /\ UNCHANGED oLost
  BY DEF Otel!Records
<1>2. OtelTypes /\ Traced /\ \A e \in OCallers : PlacedOnce(e)
  BY DEF OtelInv
<1>3. OCallers \subseteq Otel!Calls
  BY DEF Otel!Calls
<1>4. ~In(c, oPending) /\ oPending \in Seq(OCallers) /\ Once(oPending)
  BY <1>1, <1>2 DEF PlacedOnce, Placed, OtelTypes
<1> DEFINE q == Append(oPending, c)
<1>5. /\ q \in Seq(OCallers) /\ Once(q) /\ q # <<>>
      /\ \A e : In(e, q) <=> (In(e, oPending) \/ e = c)
  BY <1>1, <1>4, OneMore
<1>6. CASE Otel!EndsBatch(oKind[c])
  <2>1. oBatch' = [oBatch EXCEPT ![c] = q] /\ oPending' = <<>> /\ oPc' = [oPc EXCEPT ![c] = "trace"]
    BY <1>6 DEF Otel!Records, Otel!Goes
  <2>2. \A e : In(e, q) <=> (In(e, oPending) \/ (e = c /\ c \in OCallers))
    BY <1>1, <1>5
  <2> HIDE DEF q
  <2>3. oPc' = [oPc EXCEPT ![c] = IF q = <<>> THEN "done" ELSE "trace"]
    BY <1>5, <2>1
  <2>4. PICK r \in Seq(OCallers) : r = q
    BY <1>5
  <2> QED BY <1>1, <1>5, <2>1, <2>2, <2>3, <2>4, BatchTaken
<1>7. CASE ~Otel!EndsBatch(oKind[c])
  <2>1. UNCHANGED oBatch /\ oPending' = q /\ oPc' = [oPc EXCEPT ![c] = "done"]
    BY <1>7 DEF Otel!Records, Otel!Goes
  <2> HIDE DEF q
  <2>2. OtelTypes'
    <3>1. oPc' \in [Otel!Calls -> {"idle", "record", "trace", "done", "raised"}]
          /\ (\A d \in Otel!Calls : d # c => oPc'[d] = oPc[d]) /\ oPc'[c] = "done"
      BY <1>2, <2>1 DEF OtelTypes
    <3>2. \A d \in Otel!Calls : oPc'[d] # "trace" => oBatch[d] = <<>>
      BY <1>1, <1>2, <3>1 DEF OtelTypes
    <3>3. \A d \in OCallers : oPc'[d] = "idle" => d \notin oCommitted
      BY <1>2, <1>3, <3>1 DEF OtelTypes
    <3> QED BY <1>1, <1>2, <1>5, <2>1, <3>1, <3>2, <3>3 DEF OtelTypes
  <2>3. Traced'
    BY <1>1, <1>2, TracesStay DEF Traced
  <2>4. ASSUME NEW e \in OCallers PROVE PlacedOnce(e)'
    <3>1. TracesOf(e)' = TracesOf(e) /\ Batches(e)' = Batches(e) /\ (e \in oLost)' = (e \in oLost)
          /\ (e \in oCommitted)' = (e \in oCommitted)
      BY <1>1, <2>1 DEF TracesOf, In, Batches
    <3>2. In(e, oPending)' <=> (In(e, oPending) \/ e = c)
      BY <1>5, <2>1 DEF In
    <3>3. PlacedOnce(e)
      BY <1>2
    <3>4. oPc'[e] = "record" <=> oPc[e] = "record" /\ e # c
      BY <1>2, <1>3, <2>1 DEF OtelTypes
    <3>5. CASE e = c
      <4>1. ~In(e, oPending) /\ Batches(e) = {} /\ TracesOf(e) = {} /\ e \notin oLost /\ e \in oCommitted
        BY <1>1, <3>3, <3>5 DEF PlacedOnce, Placed
      <4> QED BY <3>1, <3>2, <3>4, <3>5, <4>1 DEF PlacedOnce, Placed
    <3>6. CASE e # c
      BY <3>1, <3>2, <3>3, <3>4, <3>6 DEF PlacedOnce, Placed
    <3> QED BY <3>5, <3>6
  <2> QED BY <2>2, <2>3, <2>4 DEF OtelInv
<1> QED BY <1>6, <1>7

\* A reset takes what is pending.
LEMMA OtelPopsKeeps ==
  ASSUME Otel!OtelConstants, OtelInv, NEW c \in Otel!Calls, Otel!Pops(c) PROVE OtelInv'
<1>1. /\ oPc[c] = "record" /\ c \in OResets
      /\ UNCHANGED oKind /\ UNCHANGED oCommitted /\ UNCHANGED oTraces /\ UNCHANGED oLost
  BY DEF Otel!Pops
<1>2. PICK q : q = oPending
  OBVIOUS
<1>3. /\ oBatch' = [oBatch EXCEPT ![c] = q] /\ oPending' = <<>>
      /\ oPc' = [oPc EXCEPT ![c] = IF q = <<>> THEN "done" ELSE "trace"]
  BY <1>2 DEF Otel!Pops, Otel!Popped, Otel!Goes
<1>4. q \in Seq(OCallers) /\ Once(q)
  BY <1>2 DEF OtelInv, OtelTypes
<1>5. \A e : In(e, q) <=> (In(e, oPending) \/ (e = c /\ c \in OCallers))
  BY <1>1, <1>2 DEF Otel!OtelConstants
<1> QED BY <1>1, <1>3, <1>4, <1>5, BatchTaken

\* A batch becomes a trace, or is lost.
LEMMA OtelInstrumentsKeeps ==
  ASSUME OtelInv, NEW c \in Otel!Calls, Otel!Instruments(c) PROVE OtelInv'
<1>1. /\ oPc[c] = "trace" /\ oPc' = [oPc EXCEPT ![c] = "done"]
      /\ oBatch' = [oBatch EXCEPT ![c] = <<>>]
      /\ UNCHANGED oKind /\ UNCHANGED oCommitted /\ UNCHANGED oPending
  BY DEF Otel!Instruments, Otel!Goes
<1>2. PICK q, new : q = oBatch[c] /\ new = Otel!Trace(q)
  OBVIOUS
<1>3. \/ oTraces' = oTraces \cup {new} /\ UNCHANGED oLost
      \/ oLost' = oLost \cup Otel!Range(q) /\ UNCHANGED oTraces
  BY <1>2 DEF Otel!Instruments
<1>4. OtelTypes /\ Traced /\ \A e \in OCallers : PlacedOnce(e)
  BY DEF OtelInv
<1>5. OCallers \subseteq Otel!Calls
  BY DEF Otel!Calls
<1>6. q \in Seq(OCallers) /\ Once(q)
  BY <1>2, <1>4 DEF OtelTypes
<1>7. TraceFits(new) /\ new.entries = q
  BY <1>2, <1>6, NewTraceFits
<1>8. \A e : e \in Otel!Range(q) <=> In(e, q)
  BY <1>6, InRange
<1>9. OtelTypes'
  <2>1. oPc' \in [Otel!Calls -> {"idle", "record", "trace", "done", "raised"}]
        /\ (\A d \in Otel!Calls : d # c => oPc'[d] = oPc[d]) /\ oPc'[c] = "done"
    BY <1>1, <1>4 DEF OtelTypes
  <2>2. <<>> \in Seq(OCallers) /\ Once(<<>>)
    BY DEF Once
  <2>3. DOMAIN oBatch' = Otel!Calls /\ oBatch'[c] = <<>>
        /\ \A d \in Otel!Calls : d # c => oBatch'[d] = oBatch[d]
    BY <1>1, <1>4 DEF OtelTypes
  <2>4. \A d \in Otel!Calls : /\ oBatch'[d] \in Seq(OCallers) /\ Once(oBatch'[d])
                              /\ oPc'[d] # "trace" => oBatch'[d] = <<>>
    BY <1>4, <2>1, <2>2, <2>3 DEF OtelTypes
  <2>5. \A d \in OCallers : oPc'[d] = "idle" => d \notin oCommitted
    BY <1>4, <1>5, <2>1 DEF OtelTypes
  <2>6. oLost' \subseteq OCallers
    <3>1. \A e : In(e, q) => e \in OCallers
      BY <1>6 DEF In
    <3> QED BY <1>3, <1>4, <1>8, <3>1 DEF OtelTypes
  <2> QED BY <1>1, <1>4, <2>1, <2>3, <2>4, <2>5, <2>6 DEF OtelTypes
<1>10. Traced'
  <2>1. \A t \in oTraces' : t.entries \in Seq(OCallers) /\ TraceFits(t)
    BY <1>3, <1>4, <1>6, <1>7 DEF Traced
  <2> QED BY <1>1, <2>1, TracesStay DEF Traced
<1>11. ASSUME NEW e \in OCallers PROVE PlacedOnce(e)'
  <2>1. In(e, oPending)' = In(e, oPending) /\ (e \in oCommitted)' = (e \in oCommitted)
    BY <1>1 DEF In
  <2>2. PlacedOnce(e)
    BY <1>4
  <2>3. oPc'[e] = "record" <=> oPc[e] = "record"
    BY <1>1, <1>4, <1>5 DEF OtelTypes
  <2>4. Batches(e)' = Batches(e) \ {c}
    <3>1. oBatch'[c] = <<>> /\ \A d \in Otel!Calls : d # c => oBatch'[d] = oBatch[d]
      BY <1>1, <1>4 DEF OtelTypes
    <3>2. \A d \in Otel!Calls : In(e, oBatch'[d]) <=> d # c /\ In(e, oBatch[d])
      BY <3>1, Nowhere
    <3> QED BY <3>2 DEF Batches, In
  <2>5. c \in Batches(e) <=> In(e, q)
    BY <1>2 DEF Batches
  <2>6. \/ /\ TracesOf(e)' = TracesOf(e) \cup (IF In(e, q) THEN {new} ELSE {})
           /\ (e \in oLost' <=> e \in oLost)
        \/ /\ TracesOf(e)' = TracesOf(e)
           /\ (e \in oLost' <=> e \in oLost \/ In(e, q))
    <3>1. CASE oTraces' = oTraces \cup {new} /\ UNCHANGED oLost
      <4>1. TracesOf(e)' = {t \in oTraces' : In(e, t.entries)}
        BY DEF TracesOf, In
      <4>2. {t \in oTraces' : In(e, t.entries)}
              = TracesOf(e) \cup (IF In(e, q) THEN {new} ELSE {})
        BY <1>7, <3>1 DEF TracesOf
      <4> QED BY <3>1, <4>1, <4>2
    <3>2. CASE oLost' = oLost \cup Otel!Range(q) /\ UNCHANGED oTraces
      BY <1>8, <3>2 DEF TracesOf, In
    <3> QED BY <1>3, <3>1, <3>2
  <2>7. CASE In(e, q)
    <3>1. Batches(e) # {}
      BY <2>5, <2>7
    <3>2. /\ oPc[e] # "record" /\ ~In(e, oPending) /\ TracesOf(e) = {} /\ e \notin oLost
          /\ e \in oCommitted /\ \E d : Batches(e) = {d}
      BY <2>2, <3>1 DEF PlacedOnce, Placed
    <3>3. Batches(e)' = {}
      BY <2>4, <2>5, <2>7, <3>2
    <3>4. (TracesOf(e)' = {new} /\ e \notin oLost') \/ (TracesOf(e)' = {} /\ e \in oLost')
      BY <2>6, <2>7, <3>2
    <3> QED BY <2>1, <2>3, <3>2, <3>3, <3>4 DEF PlacedOnce, Placed
  <2>8. CASE ~In(e, q)
    <3>1. Batches(e)' = Batches(e) /\ TracesOf(e)' = TracesOf(e) /\ (e \in oLost' <=> e \in oLost)
      BY <2>4, <2>5, <2>6, <2>8
    <3> QED BY <2>1, <2>2, <2>3, <3>1 DEF PlacedOnce, Placed
  <2> QED BY <2>7, <2>8
<1> QED BY <1>9, <1>10, <1>11 DEF OtelInv

LEMMA OtelNext ==
  ASSUME Otel!OtelConstants, OtelInv, [Otel!Next]_(Otel!vars) PROVE OtelInv'
<1>1. CASE UNCHANGED Otel!vars
  <2>1. UNCHANGED oPc /\ UNCHANGED oKind /\ UNCHANGED oCommitted /\ UNCHANGED oPending
        /\ UNCHANGED oBatch /\ UNCHANGED oTraces /\ UNCHANGED oLost
    BY <1>1 DEF Otel!vars
  <2>2. OtelTypes'
    BY <2>1 DEF OtelInv, OtelTypes
  <2>3. Traced'
    BY <2>1, TracesStay DEF OtelInv, Traced
  <2>4. ASSUME NEW e \in OCallers PROVE PlacedOnce(e)'
    <3>1. PlacedOnce(e)
      BY DEF OtelInv
    <3>2. Batches(e)' = Batches(e) /\ TracesOf(e)' = TracesOf(e) /\ In(e, oPending)' = In(e, oPending)
      BY <2>1 DEF Batches, TracesOf, In
    <3> QED BY <2>1, <3>1, <3>2 DEF PlacedOnce, Placed
  <2> QED BY <2>2, <2>3, <2>4 DEF OtelInv
<1>2. CASE Otel!Next
  BY <1>2, OtelCommitsKeeps, OtelRecordsKeeps, OtelPopsKeeps, OtelInstrumentsKeeps DEF Otel!Next
<1> QED BY <1>1, <1>2

LEMMA OneOrNone ==
  /\ \A S : (\E a : S = {a}) => Otel!Cardinality(S) = 1
  /\ \A S : S = {} => Otel!Cardinality(S) = 0
  BY CountsAlike, FS_Singleton, FS_EmptySet

\* So every committed entry is in one place.
LEMMA OtelTracedOnce == OtelInv => Otel!EntriesAreTracedOnce
<1> SUFFICES ASSUME OtelInv PROVE Otel!EntriesAreTracedOnce
  OBVIOUS
<1>1. OtelTypes /\ Traced /\ \A e \in OCallers : PlacedOnce(e)
  BY DEF OtelInv
<1>2. ASSUME NEW e \in oCommitted
      PROVE  Otel!Cardinality({x \in {"writer"} : oPc[e] = "record"})
               + Otel!Cardinality({i \in DOMAIN oPending : oPending[i] = e})
               + Otel!Cardinality({c \in Otel!Calls : e \in Otel!Range(oBatch[c])})
               + Otel!Cardinality({t \in oTraces : e \in Otel!Range(t.entries)})
               + Otel!Cardinality({x \in {"lost"} : e \in oLost}) = 1
  <2> DEFINE W == {x \in {"writer"} : oPc[e] = "record"}
             P == {i \in DOMAIN oPending : oPending[i] = e}
             B == {c \in Otel!Calls : e \in Otel!Range(oBatch[c])}
             T == {t \in oTraces : e \in Otel!Range(t.entries)}
             L == {x \in {"lost"} : e \in oLost}
  <2>1. e \in OCallers /\ PlacedOnce(e)
    BY <1>1 DEF OtelTypes
  <2>2. B = Batches(e) /\ T = TracesOf(e)
    <3>1. \A c \in Otel!Calls : e \in Otel!Range(oBatch[c]) <=> In(e, oBatch[c])
      BY <1>1, InRange DEF OtelTypes
    <3>2. \A t \in oTraces : e \in Otel!Range(t.entries) <=> In(e, t.entries)
      BY <1>1, InRange DEF Traced
    <3> QED BY <3>1, <3>2 DEF Batches, TracesOf
  <2>3. IF oPc[e] = "record" THEN W = {"writer"} ELSE W = {}
    OBVIOUS
  <2>4. IF e \in oLost THEN L = {"lost"} ELSE L = {}
    OBVIOUS
  <2>5. IF In(e, oPending) THEN \E i : P = {i} ELSE P = {}
    <3>1. DOMAIN oPending = 1 .. Len(oPending)
      BY <1>1 DEF OtelTypes
    <3>2. \A i, j \in P : i = j
      BY <1>1, <3>1 DEF OtelTypes, Once
    <3>3. In(e, oPending) <=> P # {}
      BY <3>1 DEF In
    <3> HIDE DEF P
    <3>4. P # {} => \E i : P = {i}
      BY <3>2
    <3> QED BY <3>3, <3>4
  <2> HIDE DEF W, P, B, T, L
  <2>6. Placed(TRUE, oPc[e] = "record", In(e, oPending), B, T, e \in oLost)
    BY <2>1, <2>2 DEF PlacedOnce, Placed
  <2> DEFINE one(S) == \E a : S = {a}
  <2>7. \/ one(W) /\ P = {} /\ B = {} /\ T = {} /\ L = {}
        \/ W = {} /\ one(P) /\ B = {} /\ T = {} /\ L = {}
        \/ W = {} /\ P = {} /\ one(B) /\ T = {} /\ L = {}
        \/ W = {} /\ P = {} /\ B = {} /\ one(T) /\ L = {}
        \/ W = {} /\ P = {} /\ B = {} /\ T = {} /\ one(L)
    BY <2>3, <2>4, <2>5, <2>6 DEF Placed
  <2> HIDE DEF one
  <2>8. \A S : (one(S) => Otel!Cardinality(S) = 1) /\ (S = {} => Otel!Cardinality(S) = 0)
    BY OneOrNone DEF one
  <2>9. Otel!Cardinality(W) + Otel!Cardinality(P) + Otel!Cardinality(B) + Otel!Cardinality(T)
          + Otel!Cardinality(L) = 1
    BY <2>7, <2>8
  <2> QED BY <2>9 DEF W, P, B, T, L
<1>3. Otel!Exported \cup Otel!Range(oPending) \cup oLost \subseteq oCommitted
  <2>1. \A e \in OCallers :
          In(e, oPending) \/ TracesOf(e) # {} \/ e \in oLost => e \in oCommitted
    BY <1>1 DEF PlacedOnce, Placed
  <2>2. ASSUME NEW t \in oTraces, NEW e \in Otel!Range(t.entries) PROVE e \in oCommitted
    <3>1. In(e, t.entries) /\ t.entries \in Seq(OCallers)
      BY <1>1, InRange DEF Traced
    <3>2. e \in OCallers /\ TracesOf(e) # {}
      BY <3>1 DEF In, TracesOf
    <3> QED BY <2>1, <3>2
  <2>3. ASSUME NEW e \in Otel!Range(oPending) PROVE e \in oCommitted
    <3>1. In(e, oPending) /\ oPending \in Seq(OCallers)
      BY <1>1, InRange DEF OtelTypes
    <3>2. e \in OCallers
      BY <3>1 DEF In
    <3> QED BY <2>1, <3>1, <3>2
  <2>4. oLost \subseteq oCommitted
    BY <1>1, <2>1 DEF OtelTypes
  <2> QED BY <2>2, <2>3, <2>4 DEF Otel!Exported
<1>4. \A t \in oTraces : TraceFits(t)
  BY <1>1 DEF Traced
<1> QED BY <1>2, <1>3, <1>4, Zenon DEF Otel!EntriesAreTracedOnce, TraceFits

-----------------------------------------------------------------------------
(* The theorems about all stores *)

\* The behaviours that TLC explores are those of the stores, one at a time.
LEMMA PartsRunAlone ==
  PartsSpec => /\ Spec /\ Fallback!Spec /\ Sqlite!Spec /\ SqlAlchemy!Spec
               /\ Otel!Spec /\ Dataset!Spec
<1>1. PartsInit => /\ Init /\ Fallback!Init /\ Sqlite!Init /\ SqlAlchemy!Init
                   /\ Otel!Init /\ Dataset!Init
  BY DEF PartsInit
<1>2. [PartsNext]_allVars => [Next]_vars
  <2> SUFFICES ASSUME [PartsNext]_allVars PROVE [Next]_vars
    OBVIOUS
  <2>1. CASE UNCHANGED vars
    BY <2>1 DEF vars
  <2>2. CASE ~UNCHANGED vars
    BY <2>2
    DEF PartsNext, OfRedis, OfFallback, OfSqlite, OfSqlAlchemy, OfOtel, OfDataset, allVars, Next
  <2> QED
    BY <2>1, <2>2
<1>3. [PartsNext]_allVars => [Fallback!Next]_Fallback!vars
  <2> SUFFICES ASSUME [PartsNext]_allVars PROVE [Fallback!Next]_Fallback!vars
    OBVIOUS
  <2>1. CASE UNCHANGED fVars
    BY <2>1 DEF fVars, Fallback!vars, Fallback!tape, Fallback!calls, Fallback!asking
  <2>2. CASE ~UNCHANGED fVars
    BY <2>2
    DEF PartsNext, OfRedis, OfFallback, OfSqlite, OfSqlAlchemy, OfOtel, OfDataset, allVars,
        Fallback!Next
  <2> QED
    BY <2>1, <2>2
<1>4. [PartsNext]_allVars => [Sqlite!Next]_Sqlite!vars
  <2> SUFFICES ASSUME [PartsNext]_allVars PROVE [Sqlite!Next]_Sqlite!vars
    OBVIOUS
  <2>1. CASE UNCHANGED sVars
    BY <2>1 DEF sVars, Sqlite!vars, Sqlite!db
  <2>2. CASE ~UNCHANGED sVars
    BY <2>2
    DEF PartsNext, OfRedis, OfFallback, OfSqlite, OfSqlAlchemy, OfOtel, OfDataset, allVars,
        Sqlite!Next
  <2> QED
    BY <2>1, <2>2
<1>5. [PartsNext]_allVars => [SqlAlchemy!Next]_SqlAlchemy!vars
  <2> SUFFICES ASSUME [PartsNext]_allVars PROVE [SqlAlchemy!Next]_SqlAlchemy!vars
    OBVIOUS
  <2>1. CASE UNCHANGED aVars
    BY <2>1 DEF aVars, SqlAlchemy!vars, SqlAlchemy!tapeVars
  <2>2. CASE ~UNCHANGED aVars
    BY <2>2
    DEF PartsNext, OfRedis, OfFallback, OfSqlite, OfSqlAlchemy, OfOtel, OfDataset,
        SqlAlchemy!WriteCalls, allVars, SqlAlchemy!Next
  <2> QED
    BY <2>1, <2>2
<1>6. [PartsNext]_allVars => [Otel!Next]_Otel!vars
  <2> SUFFICES ASSUME [PartsNext]_allVars PROVE [Otel!Next]_Otel!vars
    OBVIOUS
  <2>1. CASE UNCHANGED oVars
    BY <2>1 DEF oVars, Otel!vars
  <2>2. CASE ~UNCHANGED oVars
    BY <2>2
    DEF PartsNext, OfRedis, OfFallback, OfSqlite, OfSqlAlchemy, OfOtel, OfDataset, allVars,
        Otel!Next, Otel!Calls
  <2> QED
    BY <2>1, <2>2
<1>7. [PartsNext]_allVars => [Dataset!Next]_Dataset!vars
  <2> SUFFICES ASSUME [PartsNext]_allVars PROVE [Dataset!Next]_Dataset!vars
    OBVIOUS
  <2>1. CASE UNCHANGED dVars
    BY <2>1 DEF dVars, Dataset!vars
  <2>2. CASE ~UNCHANGED dVars
    BY <2>2
    DEF PartsNext, OfRedis, OfFallback, OfSqlite, OfSqlAlchemy, OfOtel, OfDataset, allVars
  <2> QED
    BY <2>1, <2>2
<1> QED
  BY <1>1, <1>2, <1>3, <1>4, <1>5, <1>6, <1>7, PTL
  DEF PartsSpec, Spec, Fallback!Spec, Sqlite!Spec, SqlAlchemy!Spec, Otel!Spec, Dataset!Spec

\* On a server without EVAL the ids of a tape are distinct and its anchor index is exact,
\* whatever appends fail or overtake each other: append, _append_without_eval.
THEOREM FallbackStaysExact == Fallback!Spec => []FallbackIsExact
<1>1. WInv => FallbackIsExact
  BY DEF WInv, FallbackIsExact
<1> QED BY <1>1, AlwaysWInv, PTL

\* SQLite and SQLAlchemy stores are logs: appends and resets take effect once, whole and in
\* order, and never after they have failed, however calls interleave, are cancelled, raise,
\* crash or run in other processes: append, reset of both stores.
THEOREM StoresKeepLogs == Sqlite!Spec /\ SqlAlchemy!Spec => StoresAreLogs
  BY LiteLogs, SqlLogs DEF StoresAreLogs

\* The vectors of a SQLite store are those of its index, and queries stay on their tape and
\* between their anchors; the counter of a SQLAlchemy tape counts its entries, and what a
\* search returns matches: _index_entry_vector, _resolve_bounds, _next_entry_id, fetch_all.
THEOREM SqlStoresStaySound == Sqlite!Spec /\ SqlAlchemy!Spec => []SqlStoresAreSound
<1>1. LiteInv => Sqlite!VectorsMatchIndex /\ Sqlite!QueriesStayInside
  BY VectorsMatch, QueriesAreInside
<1>2. /\ LiteInv /\ SqlAlchemy!CounterCountsEntries /\ SqlAlchemy!SearchesMatch
      => SqlStoresAreSound
  BY <1>1 DEF SqlStoresAreSound
<1> QED BY <1>2, LiteInvHolds, SqlCounts, SqlMatches, PTL

\* An entry that a store has committed is in one place, and in one trace at last unless its
\* batch fails; a trace's steps share no entry and answer a call by a later entry.  The files
\* that an export leaves agree, segments are the slices of their tapes, and the manifest
\* speaks of no file older than itself: _record_entry, build_tape_trace, export_dataset.
THEOREM ExportsStayTrue == Otel!Spec /\ Dataset!Spec => []ExportsAreTrue
<1>1. Otel!Spec => []Otel!EntriesAreTracedOnce
  <2>1. Otel!OtelConstants
    BY ExportConstants
  <2>2. OtelInv /\ [Otel!Next]_(Otel!vars) => OtelInv'
    BY <2>1, OtelNext
  <2> QED BY <2>2, OtelInit, OtelTracedOnce, PTL DEF Otel!Spec
<1>2. Dataset!Spec => []Dataset!DatasetIsWhole
  <2>1. Dataset!DatasetConstants
    BY ExportConstants
  <2> QED BY <2>1, DatasetStaysWhole
<1>3. Otel!EntriesAreTracedOnce /\ Dataset!DatasetIsWhole => ExportsAreTrue
  BY DEF ExportsAreTrue
<1> QED BY <1>1, <1>2, <1>3, PTL
=============================================================================
