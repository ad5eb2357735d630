----------------------------- MODULE MontyPool -----------------------------
(***************************************************************************)
(* The pool of Monty workers of an environment (bub-monty-env): started by *)
(* the first run_code, shared by those that follow, stopped by close(),    *)
(* which may come at any time.  The environment may be a wrapper, which    *)
(* closes what it wraps.  Pools are numbered as they are made.             *)
(***************************************************************************)
EXTENDS Naturals, FiniteSets

CONSTANTS
  Runs,     \* calls of run_code
  MaxPools, \* bounds what is explored
  MaxCloses

Pools == 1 .. MaxPools

\* 0 is nobody, and no pool.
MontyPoolConstants == 0 \notin Runs /\ MaxPools \in Nat

VARIABLES
  run,     \* of a call: "none", "lock", "starts", "checks", "runs", "ends" or "over"
  uses,    \* of a call: its pool, or 0
  lock,    \* _monty_pool_lock: the call that holds it, or 0
  current, \* _monty_pool, or 0
  pool,    \* of a pool: "none", "starting", "open", "closing", "closed"
  closing, \* close(): "none", "pool", "inner"
  closes,
  inner,   \* the environment underneath is closed
  late     \* history: calls that went on or began while a close ran, or after it

vars == <<run, uses, lock, current, pool, closing, closes, inner, late>>

Init ==
  /\ run = [r \in Runs |-> "none"] /\ uses = [r \in Runs |-> 0] /\ lock = 0 /\ current = 0
  /\ pool = [p \in Pools |-> "none"] /\ closing = "none" /\ closes = 0
  /\ inner = FALSE /\ late = {}

Goes(r, where) == run' = [run EXCEPT ![r] = where]
Uses(r, p) == Goes(r, "checks") /\ uses' = [uses EXCEPT ![r] = p]

\* run_code, monty_pool: a pool there is, or the lock.
Begins(r) ==
  /\ run[r] = "none"
  /\ \/ current # 0 /\ Uses(r, current)
     \/ current = 0 /\ Goes(r, "lock") /\ UNCHANGED uses
  /\ late' = IF closes > 0 THEN late \cup {r} ELSE late
  /\ UNCHANGED <<lock, current, pool, closing, closes, inner>>

\* mutant: whoever has the lock starts a pool.
MissingNow == TRUE

\* The check under the lock.
Missing == current = 0

\* The lock is had: a pool is there by now, or one is started.
Locks(r) ==
  /\ run[r] = "lock" /\ lock = 0
  /\ \/ Missing /\ lock' = r /\ Goes(r, "starts")
        /\ \E p \in Pools : /\ pool[p] = "none" /\ \A q \in Pools : q < p => pool[q] # "none"
                            /\ pool' = [pool EXCEPT ![p] = "starting"]
                            /\ uses' = [uses EXCEPT ![r] = p]
     \/ ~Missing /\ Uses(r, current) /\ UNCHANGED <<lock, pool>>
  /\ UNCHANGED <<current, closing, closes, inner, late>>

\* __aenter__ has started it, or fails, or the call is cancelled (the pool cleans up itself).
Started(r) ==
  /\ run[r] = "starts" /\ lock' = 0
  /\ \/ /\ pool' = [pool EXCEPT ![uses[r]] = "open"] /\ current' = uses[r]
        /\ Goes(r, "checks")
     \/ /\ pool' = [pool EXCEPT ![uses[r]] = "closed"] /\ Goes(r, "over") /\ UNCHANGED current
  /\ UNCHANGED <<uses, closing, closes, inner, late>>

\* run_code_in_monty: checkout of a worker, which a pool that stops refuses.
ChecksOut(r) ==
  /\ run[r] = "checks"
  /\ Goes(r, IF pool[uses[r]] = "open" THEN "runs" ELSE "over")
  /\ UNCHANGED <<uses, lock, current, pool, closing, closes, inner, late>>

\* The code completes, fails, or is cancelled: the worker is given back.
Ends(r) ==
  /\ run[r] = "runs" /\ Goes(r, "over")
  /\ UNCHANGED <<uses, lock, current, pool, closing, closes, inner, late>>

\* close: the pool is the closer's from here on.
Closes ==
  /\ closing = "none" /\ closes < MaxCloses /\ closes' = closes + 1
  /\ current' = 0
  /\ IF current = 0 THEN closing' = "inner" /\ UNCHANGED pool
     ELSE closing' = "pool" /\ pool' = [pool EXCEPT ![current] = "closing"]
  /\ late' = late \cup {r \in Runs : run[r] \in {"lock", "starts"}}
  /\ UNCHANGED <<run, uses, lock, inner>>

\* __aexit__ is over, or fails; in a finally, the environment underneath is closed.
PoolClosed ==
  /\ closing = "pool" /\ closing' = "inner"
  /\ pool' = [p \in Pools |-> IF pool[p] = "closing" THEN "closed" ELSE pool[p]]
  /\ UNCHANGED <<run, uses, lock, current, closes, inner, late>>
InnerClosed ==
  /\ closing = "inner" /\ closing' = "none" /\ inner' = TRUE
  /\ UNCHANGED <<run, uses, lock, current, pool, closes, late>>

Next ==
  \/ \E r \in Runs : Begins(r) \/ Locks(r) \/ Started(r) \/ ChecksOut(r) \/ Ends(r)
  \/ Closes \/ PoolClosed \/ InnerClosed

Spec == Init /\ [][Next]_vars

-----------------------------------------------------------------------------
\* A pool that is open is the environment's: of two runs that begin together one starts it,
\* and nobody loses a pool that close() would have to stop.  When a close is over, a pool is
\* open only for a run that the close overlapped or that came after it.
PoolsAreOwned ==
  /\ \A p \in Pools : pool[p] = "open" => p = current
  /\ inner /\ closing = "none" /\ current # 0 => \E r \in late : uses[r] = current
=============================================================================
