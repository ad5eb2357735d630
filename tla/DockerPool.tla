----------------------------- MODULE DockerPool -----------------------------
(***************************************************************************)
(* bub-docker-env, environment.py: the containers that sessions run their  *)
(* tools in.  An environment holds a share of a Container object taken     *)
(* from a process-wide pool under a key (the session, or "shared").  The   *)
(* object starts its docker container on first use and removes it when the *)
(* last share is released; a lock per object orders the two.               *)
(*                                                                         *)
(* What outlives an object is the docker container, which docker knows by  *)
(* name only, and the name is a hash of the key: two objects of one key    *)
(* command the same container.  A docker command is a child process that   *)
(* answers later.  A caller that is cancelled while it waits leaves the    *)
(* command behind: it takes effect at some later time, or never.           *)
(*                                                                         *)
(* Bub provides an environment, makes calls of it and closes it once; it   *)
(* begins no call on an environment it has closed.  Overlap says whether   *)
(* it may provide one while the close of another with its key is under     *)
(* way, MaxCrashes how often the process dies and starts again.            *)
(***************************************************************************)
EXTENDS Naturals, Sequences, FiniteSets

CONSTANTS
    Envs,           \* environments Bub may be provided with
    KeyOf,          \* [Envs -> key]: a key per session, or one for all
    Slots,          \* calls one environment may have in progress
    Overlap, MaxCrashes,
    None, Stale     \* no container; one left by an earlier process

ASSUME DockerPoolAssumption ==
    /\ Overlap \in BOOLEAN
    /\ MaxCrashes \in Nat
    /\ DOMAIN KeyOf = Envs
    /\ None # Stale /\ {None, Stale} \cap Envs = {}
    /\ "close" \notin Slots

VARIABLES
    pool,       \* [key -> [obj, users]] : _ContainerPool._containers
    held,       \* [Envs -> the object an environment holds, or None]
    status,     \* [Envs -> "none", "open" or "closed"]
    started,    \* objects whose _started is set
    queue,      \* [object -> who has its lock (first) and who waits for it]
    pc,         \* [Tasks -> where a call or a close is]
    docker,     \* [key -> the object whose container has the name, or None]
    orphans,    \* docker commands nobody waits for any more
    cut,        \* history: keys a start of whose container was cancelled
    crashes

vars == <<pool, held, status, started, queue, pc, docker, orphans, cut, crashes>>

Keys == {KeyOf[e] : e \in Envs}
\* An object is named by the environment whose acquisition made it.
Objs == Envs
Tasks == Envs \X (Slots \cup {"close"})

Env(t) == t[1]
Key(t) == KeyOf[Env(t)]
Obj(t) == held[Env(t)]
IsClose(t) == t[2] = "close"

Init ==
    /\ pool    = [k \in {} |-> None]
    /\ held    = [e \in Envs |-> None]
    /\ status  = [e \in Envs |-> "none"]
    /\ started = {}
    /\ queue   = [o \in Objs |-> <<>>]
    /\ pc      = [t \in Tasks |-> "idle"]
    /\ docker  = [k \in Keys |-> None]
    /\ orphans = {} /\ cut = {}
    /\ crashes = 0

(***************************************************************************)
(* The pool.                                                               *)
(***************************************************************************)
Closing(k) == \E t \in Tasks : IsClose(t) /\ Key(t) = k /\ pc[t] # "idle"

Put(k, entry) == [j \in DOMAIN pool \cup {k} |-> IF j = k THEN entry ELSE pool[j]]
Del(k) == [j \in DOMAIN pool \ {k} |-> pool[j]]

\* DockerEnvironment.__init__: a share of the key's object, made if missing.
Acquire(e) ==
    LET k == KeyOf[e]
        entry == IF k \in DOMAIN pool THEN pool[k] ELSE [obj |-> e, users |-> 0]
    IN /\ status[e] = "none"
       /\ Overlap \/ ~Closing(k)
       /\ pool' = Put(k, [entry EXCEPT !.users = @ + 1])
       /\ held' = [held EXCEPT ![e] = entry.obj]
       /\ status' = [status EXCEPT ![e] = "open"]
       /\ UNCHANGED <<started, queue, pc, docker, orphans, cut, crashes>>

\* mutant: the last share is not taken for the last
ReleaseLastNever(k) == pool[k].users < 1
\* mutant: the last share but one is taken for the last
ReleaseLastEarly(k) == pool[k].users <= 2
ReleaseLast(k) == pool[k].users <= 1

\* DockerEnvironment.close: the last share takes the entry out of the pool
\* and goes on to remove the container; Container.remove waits for the lock.
Release(e) ==
    LET k == KeyOf[e]
        t == <<e, "close">>
    IN /\ status[e] = "open"
       /\ status' = [status EXCEPT ![e] = "closed"]
       /\ CASE k \notin DOMAIN pool -> UNCHANGED <<pool, queue, pc>>
            [] k \in DOMAIN pool /\ ReleaseLast(k) ->
                 /\ pool' = Del(k)
                 /\ queue' = [queue EXCEPT ![pool[k].obj] = Append(@, t)]
                 /\ pc' = [pc EXCEPT ![t] = "lock"]
            [] OTHER ->
                 /\ pool' = Put(k, [pool[k] EXCEPT !.users = @ - 1])
                 /\ UNCHANGED <<queue, pc>>
       /\ UNCHANGED <<held, started, docker, orphans, cut, crashes>>

(***************************************************************************)
(* The lock, and docker.                                                   *)
(***************************************************************************)
HasLock(t) == queue[Obj(t)] # <<>> /\ Head(queue[Obj(t)]) = t
\* The queue of a lock without its i-th task.
Without(q, i) == [j \in 1 .. Len(q) - 1 |-> IF j < i THEN q[j] ELSE q[j + 1]]
Unlock(t) ==
    \E i \in DOMAIN queue[Obj(t)] :
        /\ queue[Obj(t)][i] = t
        /\ queue' = [queue EXCEPT ![Obj(t)] = Without(@, i)]

Goto(t, label) == pc' = [pc EXCEPT ![t] = label]

\* docker rm --force NAME, whose answer the code does not look at and which
\* is taken to succeed, and docker run --name NAME by object o, which fails
\* when the name is taken.
Rm(k) == docker' = [docker EXCEPT ![k] = None]
Run(k, o) == docker' = [docker EXCEPT ![k] = o]
CanRun(k) == docker[k] = None

\* What a command that has lost its caller still does.
Lose(t, kind) == orphans' = orphans \cup {[kind |-> kind, key |-> Key(t), obj |-> Obj(t)]}

(***************************************************************************)
(* A call: spawn, read_text or write_text.  Each begins by                 *)
(* ensure_started.                                                         *)
(***************************************************************************)
Call(t) ==
    /\ ~IsClose(t) /\ pc[t] = "idle" /\ status[Env(t)] = "open"
    /\ queue' = [queue EXCEPT ![Obj(t)] = Append(@, t)]
    /\ Goto(t, "lock")
    /\ UNCHANGED <<pool, held, status, started, docker, orphans, cut, crashes>>

\* The container runs already: on to the docker exec.
Ready(t) ==
    /\ ~IsClose(t) /\ pc[t] = "lock" /\ HasLock(t) /\ Obj(t) \in started
    /\ Unlock(t)
    /\ Goto(t, "exec")
    /\ UNCHANGED <<pool, held, status, started, docker, orphans, cut, crashes>>

\* The leftover of an earlier process would block the name.
Start(t) ==
    /\ ~IsClose(t) /\ pc[t] = "lock" /\ HasLock(t) /\ Obj(t) \notin started
    /\ Goto(t, "rm")
    /\ UNCHANGED <<pool, held, status, started, queue, docker, orphans, cut, crashes>>

Cleared(t) ==
    /\ pc[t] = "rm"
    /\ Rm(Key(t))
    /\ Goto(t, "run")
    /\ UNCHANGED <<pool, held, status, started, queue, orphans, cut, crashes>>

RunOk(t) ==
    /\ pc[t] = "run"
    /\ CanRun(Key(t))
    /\ Run(Key(t), Obj(t))
    /\ Goto(t, "check")
    /\ UNCHANGED <<pool, held, status, started, queue, orphans, cut, crashes>>

\* No image, no daemon, or a taken name: the call fails.
RunFails(t) ==
    /\ pc[t] = "run"
    /\ Unlock(t)
    /\ Goto(t, "idle")
    /\ UNCHANGED <<pool, held, status, started, docker, orphans, cut, crashes>>

\* _check_workspace_mount passes, or the container is taken down again.
Checked(t) ==
    /\ pc[t] = "check"
    /\ started' = started \cup {Obj(t)}
    /\ Unlock(t)
    /\ Goto(t, "exec")
    /\ UNCHANGED <<pool, held, status, docker, orphans, cut, crashes>>

Refused(t) ==
    /\ pc[t] = "check"
    /\ Goto(t, "undo")
    /\ UNCHANGED <<pool, held, status, started, queue, docker, orphans, cut, crashes>>

Undone(t) ==
    /\ pc[t] = "undo"
    /\ Rm(Key(t))
    /\ Unlock(t)
    /\ Goto(t, "idle")
    /\ UNCHANGED <<pool, held, status, started, orphans, cut, crashes>>

\* The docker exec answers.
Answer(t) ==
    /\ pc[t] = "exec"
    /\ Goto(t, "idle")
    /\ UNCHANGED <<pool, held, status, started, queue, docker, orphans, cut, crashes>>

\* A turn that is cancelled cancels its call wherever it waits.
Starting == {"rm", "run", "check", "undo"}
Cancel(t) ==
    /\ ~IsClose(t) /\ pc[t] \in Starting \cup {"lock", "exec"}
    /\ cut' = IF pc[t] \in Starting THEN cut \cup {Key(t)} ELSE cut
    /\ CASE pc[t] \in {"rm", "undo"} -> Lose(t, "rm")
         [] pc[t] = "run"            -> Lose(t, "run")
         [] OTHER                    -> UNCHANGED orphans
    /\ IF pc[t] = "exec" THEN UNCHANGED queue ELSE Unlock(t)
    /\ Goto(t, "idle")
    /\ UNCHANGED <<pool, held, status, started, docker, crashes>>

(***************************************************************************)
(* Container.remove, for the last share.                                   *)
(***************************************************************************)
NotStarted(t) ==
    /\ IsClose(t) /\ pc[t] = "lock" /\ HasLock(t) /\ Obj(t) \notin started
    /\ Unlock(t)
    /\ Goto(t, "idle")
    /\ UNCHANGED <<pool, held, status, started, docker, orphans, cut, crashes>>

Remove(t) ==
    /\ IsClose(t) /\ pc[t] = "lock" /\ HasLock(t) /\ Obj(t) \in started
    /\ started' = started \ {Obj(t)}
    /\ Goto(t, "remove")
    /\ UNCHANGED <<pool, held, status, queue, docker, orphans, cut, crashes>>

Removed(t) ==
    /\ pc[t] = "remove"
    /\ Rm(Key(t))
    /\ Unlock(t)
    /\ Goto(t, "idle")
    /\ UNCHANGED <<pool, held, status, started, orphans, cut, crashes>>

(***************************************************************************)
(* The world.                                                              *)
(***************************************************************************)
\* A lost command takes effect, or does not.
Orphan(c) ==
    /\ orphans' = orphans \ {c}
    /\ \/ c.kind = "rm"  /\ Rm(c.key)
       \/ c.kind = "run" /\ CanRun(c.key) /\ Run(c.key, c.obj)
       \/ UNCHANGED docker
    /\ UNCHANGED <<pool, held, status, started, queue, pc, cut, crashes>>

\* Bub dies and starts again: its containers stay.  A command in progress
\* has taken effect, or not, before it is back.
Crash ==
    /\ crashes < MaxCrashes
    /\ crashes' = crashes + 1
    /\ docker' \in {d \in [Keys -> {None, Stale}] :
            \A k \in Keys :
                \/ d[k] = IF docker[k] = None THEN None ELSE Stale
                \/ d[k] = None
                   /\ \/ \E t \in Tasks : Key(t) = k /\ pc[t] \in {"rm", "undo", "remove"}
                      \/ \E c \in orphans : c.kind = "rm" /\ c.key = k
                \/ d[k] = Stale
                   /\ \/ \E t \in Tasks : Key(t) = k /\ pc[t] = "run"
                      \/ \E c \in orphans : c.kind = "run" /\ c.key = k}
    /\ pool'    = [k \in {} |-> None]
    /\ held'    = [e \in Envs |-> None]
    /\ status'  = [e \in Envs |-> "none"]
    /\ started' = {}
    /\ queue'   = [o \in Objs |-> <<>>]
    /\ pc'      = [t \in Tasks |-> "idle"]
    /\ orphans' = {} /\ cut' = {}

Step(t) ==
    \/ Ready(t) \/ Start(t) \/ Cleared(t) \/ RunOk(t) \/ RunFails(t)
    \/ Checked(t) \/ Refused(t) \/ Undone(t) \/ Answer(t)
    \/ NotStarted(t) \/ Remove(t) \/ Removed(t)

Next ==
    \/ \E e \in Envs : Acquire(e) \/ Release(e)
    \/ \E t \in Tasks : Call(t) \/ Step(t) \/ Cancel(t)
    \/ \E c \in orphans : Orphan(c)
    \/ Crash

Spec == Init /\ [][Next]_vars

(***************************************************************************)
(* Properties.                                                             *)
(***************************************************************************)
Labels == {"idle", "lock", "rm", "run", "check", "undo", "exec", "remove"}

TypeOK ==
    /\ DOMAIN pool \subseteq Keys
    /\ \A k \in DOMAIN pool : pool[k].obj \in Objs /\ pool[k].users \in 1 .. Cardinality(Envs)
    /\ held \in [Envs -> Objs \cup {None}]
    /\ status \in [Envs -> {"none", "open", "closed"}]
    /\ started \subseteq Objs
    /\ \A o \in Objs : queue[o] \in Seq(Tasks)
    /\ pc \in [Tasks -> Labels]
    /\ docker \in [Keys -> Objs \cup {None, Stale}]
    /\ orphans \subseteq [kind : {"rm", "run"}, key : Keys, obj : Objs]
    /\ cut \subseteq Keys /\ crashes \in 0 .. MaxCrashes

\* A container in use is not removed: a call of an open environment that has
\* got past ensure_started finds the container its object started, whatever
\* other environments of its key are closed, started, refused or cancelled
\* meanwhile.  A start cut short is another matter: its docker command may
\* come later.
UsedContainerStays ==
    \A t \in Tasks :
        pc[t] = "exec" /\ status[Env(t)] = "open" /\ Key(t) \notin cut =>
            docker[Key(t)] = Obj(t)

\* A container goes with its last environment: once every environment of a
\* key is closed and nothing is in progress, docker has no container of
\* theirs, whichever calls were in progress when they closed.  Again this
\* holds where no start was cut short: of such a container remove knows
\* nothing.
Quiet(k) ==
    /\ \E e \in Envs : KeyOf[e] = k /\ status[e] = "closed"
    /\ \A e \in Envs : KeyOf[e] = k => status[e] # "open"
    /\ \A t \in Tasks : Key(t) = k => pc[t] = "idle"
    /\ \A c \in orphans : c.key # k

NothingIsLeftBehind ==
    \A k \in Keys : Quiet(k) /\ k \notin cut => docker[k] \in {None, Stale}
=============================================================================
