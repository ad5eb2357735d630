------------------------------ MODULE QQAdmins ------------------------------
(***************************************************************************)
(* AdminRegistry of bub-qq (admins.py): admins register with pairing codes *)
(* that the log shows (bootstrap) or an admin asks for (group), and the    *)
(* registered ones are kept by the platform store (store.py).              *)
(*                                                                         *)
(* A person has an identity in private chat and one per group.  Codes are  *)
(* numbered; time passes in steps.                                         *)
(***************************************************************************)
EXTENDS Naturals, FiniteSets, Sequences

CONSTANTS
  Private,    \* identities in private chat: c2c:...
  InGroup,    \* identities in a group: group:...
  Codes,      \* numbers of the codes there may be
  BootstrapTTL, GroupTTL, Lockout,  \* BOOTSTRAP_TTL_SECONDS, ...
  MaxFailures,
  MaxTime, MaxRestarts

Identities == Private \cup InGroup

\* An identity is of a scope, c2c or group.
QQAdminsConstants ==
  /\ Private \cap InGroup = {} /\ IsFiniteSet(Codes) /\ Codes = 1 .. Cardinality(Codes)
  /\ 1 \in Codes
  /\ {BootstrapTTL, GroupTTL, Lockout, MaxTime, MaxRestarts} \subseteq Nat
  /\ MaxFailures \in Nat \ {0}

VARIABLES
  now,
  code,      \* _codes: number -> kind, expiry, who asked for it
  minted,    \* how many codes there have been
  failures,  \* _failures: the times of an identity's failed attempts
  locked,    \* _locked_until
  admins,    \* the registered admins, as published to the guard
  file,      \* the admins in the store's file
  notices,   \* what is still to be told to the admins
  used,      \* history: the codes an identity was registered with
  told,      \* history: what was told
  restarts

people  == <<admins, file, used>>
answers == <<notices, told>>
vars == <<now, code, minted, failures, locked, people, answers, restarts>>

NoCode == [kind |-> "none", expires |-> 0, by |-> "none"]

Live(c, kind) == code[c].kind = kind /\ code[c].expires > now

\* bootstrap_code, of a new code: one that lives is used again.
Minted(codes, bare) ==
  IF ~bare \/ (\E c \in Codes : codes[c].kind = "bootstrap" /\ codes[c].expires > now)
     \/ minted = Cardinality(Codes)
  THEN codes
  ELSE [codes EXCEPT ![minted + 1] =
         [kind |-> "bootstrap", expires |-> now + BootstrapTTL, by |-> "none"]]

\* The codes after a step that may have minted one.
Becomes(codes, bare) ==
  /\ code' = Minted(codes, bare)
  /\ minted' = IF code' = codes THEN minted ELSE minted + 1

\* start, with no admins configured: bootstrap_code.
Init ==
  /\ now = 0 /\ minted = 1
  /\ code = [c \in Codes |->
       IF c = 1 THEN [kind |-> "bootstrap", expires |-> BootstrapTTL, by |-> "none"] ELSE NoCode]
  /\ failures = [i \in Identities |-> <<>>] /\ locked = [i \in Identities |-> 0]
  /\ admins = {} /\ file = {} /\ notices = <<>> /\ told = {}
  /\ used = [c \in Codes |-> {}] /\ restarts = 0

Ticks ==
  /\ now < MaxTime /\ now' = now + 1
  /\ UNCHANGED <<code, minted, failures, locked, people, answers, restarts>>

-----------------------------------------------------------------------------
(* ,qq.claim *)

IsLocked(i) == locked[i] > now

\* A locked identity is ignored: nothing of it is looked at.
\* mutant: the lock is not looked at.
MayTryAlways(i) == TRUE

MayTry(i) == ~IsLocked(i)

\* _record_failure, of a deque that begins at n once what is older than the lockout has
\* left its front.
Recent(i, n) ==
  /\ \A j \in 1 .. n - 1 : now - failures[i][j] > Lockout
  /\ n <= Len(failures[i]) => now - failures[i][n] <= Lockout

Fails(i) ==
  \E n \in 1 .. Len(failures[i]) + 1 :
    LET window == Append(SubSeq(failures[i], n, Len(failures[i])), now) IN
    /\ Recent(i, n)
    /\ IF Len(window) >= MaxFailures
       THEN /\ locked' = [locked EXCEPT ![i] = now + Lockout]
            /\ failures' = [failures EXCEPT ![i] = <<>>]
       ELSE failures' = [failures EXCEPT ![i] = window] /\ UNCHANGED locked

\* _claim with a code that is not there (0) or has expired: it is forgotten, and a bot
\* without admins has a bootstrap code again.
ClaimsWrong(i, c) ==
  /\ MayTry(i)
  /\ c # 0 => code[c] # NoCode /\ code[c].expires <= now
  /\ Fails(i)
  /\ Becomes(IF c = 0 THEN code ELSE [code EXCEPT ![c] = NoCode], admins = {})
  /\ UNCHANGED <<now, people, answers, restarts>>

\* A bootstrap code in a group is burnt, and a new one takes its place.
Exposes(i, c) ==
  /\ i \in InGroup /\ MayTry(i) /\ Live(c, "bootstrap")
  /\ Becomes([code EXCEPT ![c] = NoCode], admins = {})
  /\ UNCHANGED <<now, failures, locked, people, answers, restarts>>

\* mutant: a code is good until it expires.
CodeKept(c) == code

Spent(c) == [code EXCEPT ![c] = NoCode]

\* add_admin, whose file is written whole or, on an error, not at all.
Published(as) ==
  /\ admins' = as /\ file' \in {as, file}

\* The code fits: the identity is an admin, and who asked for the code is to be told.
\* A group code sent in private is left as it is.
Registers(i, c) ==
  /\ MayTry(i)
  /\ \/ i \in Private /\ Live(c, "bootstrap")
     \/ i \in InGroup /\ Live(c, "group")
  /\ Published(admins \cup {i})
  /\ used' = [used EXCEPT ![c] = @ \cup {i}]
  /\ code' = Spent(c) /\ failures' = [failures EXCEPT ![i] = <<>>]
  /\ notices' = IF code[c].kind = "group" THEN Append(notices, [to |-> code[c].by, about |-> i, code |-> c])
                ELSE notices
  /\ UNCHANGED <<now, minted, locked, told, restarts>>

\* mutant: anybody may ask.
AsksAnyone(i) == i \in Private

\* is_admin, in private chat.
MayAsk(i) == i \in Private \cap admins

\* _issue_group_code.
Issues(i) ==
  /\ MayAsk(i) /\ minted < Cardinality(Codes)
  /\ minted' = minted + 1
  /\ code' = [code EXCEPT ![minted'] = [kind |-> "group", expires |-> now + GroupTTL, by |-> i]]
  /\ UNCHANGED <<now, failures, locked, people, answers, restarts>>

\* _send_admin_notices: a notice that fails is lost.
Notifies ==
  /\ notices # <<>> /\ notices' = Tail(notices)
  /\ told' \in {told, told \cup {Head(notices)}}
  /\ UNCHANGED <<now, code, minted, failures, locked, people, restarts>>

-----------------------------------------------------------------------------
\* ,qq.admins remove, and a bootstrap code for a bot that has no admins left.
Removes(i, target) ==
  /\ i \in admins /\ target \in admins
  /\ Published(admins \ {target}) /\ Becomes(code, admins' = {})
  /\ UNCHANGED <<now, failures, locked, used, answers, restarts>>

\* The process starts again: codes and failures are forgotten, the file is read.
Restarts ==
  /\ restarts < MaxRestarts /\ restarts' = restarts + 1
  /\ admins' = file
  /\ failures' = [i \in Identities |-> <<>>] /\ locked' = [i \in Identities |-> 0]
  /\ notices' = <<>>
  /\ Becomes([c \in Codes |-> NoCode], file = {})
  /\ UNCHANGED <<now, file, used, told>>

Next ==
  \/ Ticks \/ Notifies \/ Restarts
  \/ \E i \in Identities :
       \/ \E c \in Codes \cup {0} : ClaimsWrong(i, c)
       \/ \E c \in Codes : Exposes(i, c) \/ Registers(i, c)
       \/ Issues(i)
       \/ \E t \in Identities : Removes(i, t)

Spec == Init /\ [][Next]_vars

-----------------------------------------------------------------------------
(* Properties *)

\* Every admin has registered with a code of its own, a private one with a code of the
\* log and a group one with a code that a private admin had asked for, of which that
\* admin is told; there is one good code of the log at a time, and nobody has registered
\* in private while it is good: _claim, bootstrap_code, _send_admin_notices.
AdminsHaveClaimed ==
  /\ \A c \in Codes : Cardinality(used[c]) <= 1
  /\ admins \cup file \subseteq UNION {used[c] : c \in Codes}
  /\ \A n \in told : used[n.code] = {n.about} /\ n.to \in UNION {used[c] : c \in Codes}
  /\ \A c, d \in Codes : Live(c, "bootstrap") /\ Live(d, "bootstrap") => c = d
  /\ \A c \in Codes : Live(c, "bootstrap") => admins \cap Private = {}

\* Who has failed too often within the lockout registers nothing until it is over, and
\* no more attempts than that are remembered: _record_failure.
LockedStayOut ==
  [][ /\ \A i \in Identities : IsLocked(i) /\ restarts' = restarts => i \notin admins' \ admins
      /\ \A i \in Identities : Len(failures'[i]) < MaxFailures ]_vars
=============================================================================
