---------------------------- MODULE BoundedDict ----------------------------
(***************************************************************************)
(* BoundedDict of bub-qq (session.py): an OrderedDict that a write moves   *)
(* to the end and that drops its first entries beyond a maximum.           *)
(* order lists the keys, the least recently written first.                 *)
(***************************************************************************)
EXTENDS Naturals, Sequences

EmptyDict == [order |-> <<>>, value |-> <<>>]

Has(d, k) == k \in DOMAIN d.value
Get(d, k, default) == IF Has(d, k) THEN d.value[k] ELSE default

\* The elements of a sequence that are in a set, in their order.
Among(seq, S) ==
  LET kept[n \in 0 .. Len(seq)] ==
        IF n = 0 THEN <<>>
        ELSE IF seq[n] \in S THEN Append(kept[n - 1], seq[n]) ELSE kept[n - 1]
  IN kept[Len(seq)]

Others(order, k) == Among(order, {order[i] : i \in 1 .. Len(order)} \ {k})
Written(d, k) == Append(Others(d.order, k), k)

\* What writing k drops: one entry at most, as the dict never exceeds max.
Evicted(d, k, max) ==
  IF Len(Written(d, k)) > max THEN {Head(Written(d, k))} ELSE {}

\* d[k] = v
Put(d, k, v, max) ==
  [order |-> IF Evicted(d, k, max) = {} THEN Written(d, k)
             ELSE Tail(Written(d, k)),
   value |-> [j \in (DOMAIN d.value \cup {k}) \ Evicted(d, k, max) |->
                IF j = k THEN v ELSE d.value[j]]]

\* d.pop(k, None)
Pop(d, k) ==
  [order |-> Others(d.order, k),
   value |-> [j \in DOMAIN d.value \ {k} |-> d.value[j]]]

\* The order lists every key once and there are at most max of them.
IsBoundedDict(d, max) ==
  /\ Len(d.order) <= max
  /\ {d.order[i] : i \in 1 .. Len(d.order)} = DOMAIN d.value
  /\ \A i, j \in 1 .. Len(d.order) : d.order[i] = d.order[j] => i = j
=============================================================================
