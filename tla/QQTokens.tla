------------------------------ MODULE QQTokens ------------------------------
(***************************************************************************)
(* QQTokenProvider and QQOpenAPI.request of bub-qq (protocol/auth.py,      *)
(* protocol/openapi.py): requests share one cached access token, which is  *)
(* fetched under a lock and dropped when the platform rejects it.          *)
(*                                                                         *)
(* Tokens are numbered as the platform issues them.  It may stop accepting *)
(* a token at any time, and the cached one expires by the local clock.     *)
(***************************************************************************)
EXTENDS Naturals

CONSTANTS
  Requests,  \* numbers
  MaxTokens

\* 0 is nobody, and no token.
QQTokensConstants == 0 \notin Requests /\ MaxTokens \in Nat

VARIABLES
  token,     \* _token; 0: none
  expired,   \* is the cached token past its expires_at?
  holder,    \* whose the lock is; 0: nobody's
  waiting,   \* the requests that wait for it
  at, uses, tries,  \* of a request: where it stands, its token, how often it was sent
  issued,    \* how many tokens the platform has issued
  revoked,   \* the tokens it does not accept any more
  first,     \* history: the token a request was first rejected with
  rejected,  \* history: the tokens a request was rejected with
  aged,      \* history: the tokens that have expired
  lost       \* history: the tokens that were dropped from the cache

cache == <<token, expired, issued, revoked, aged>>
sent == <<first, rejected, lost>>
vars == <<cache, holder, waiting, at, uses, tries, sent>>

Init ==
  /\ token = 0 /\ expired = FALSE /\ issued = 0 /\ revoked = {} /\ aged = {}
  /\ holder = 0 /\ waiting = {}
  /\ at = [r \in Requests |-> "idle"] /\ uses = [r \in Requests |-> 0]
  /\ tries = [r \in Requests |-> 0] /\ first = [r \in Requests |-> 0] /\ rejected = {} /\ lost = {}

-----------------------------------------------------------------------------
(* QQTokenProvider *)

\* is_valid.
Valid == token # 0 /\ ~expired

\* get_token: a valid token is used at once; else the lock is asked for.
Asks(r) ==
  /\ at[r] \in {"idle", "again"}
  /\ IF Valid THEN /\ at' = [at EXCEPT ![r] = "send"] /\ uses' = [uses EXCEPT ![r] = token]
                   /\ UNCHANGED waiting
     ELSE /\ at' = [at EXCEPT ![r] = "lock"] /\ waiting' = waiting \cup {r} /\ UNCHANGED uses
  /\ UNCHANGED <<cache, holder, tries, sent>>

\* mutant: the token is not looked at again.
FetchAnyway == TRUE

NeedsFetch == ~Valid

\* Under the lock: another request may have fetched a token meanwhile.
Locks(r) ==
  /\ at[r] = "lock" /\ holder = 0 /\ waiting' = waiting \ {r}
  /\ IF NeedsFetch THEN /\ holder' = r /\ at' = [at EXCEPT ![r] = "fetch"] /\ UNCHANGED uses
     ELSE at' = [at EXCEPT ![r] = "send"] /\ uses' = [uses EXCEPT ![r] = token] /\ UNCHANGED holder
  /\ UNCHANGED <<cache, tries, sent>>

\* _request_new_token: a new token, which expires_in may let expire at once, or an error.
Fetches(r) ==
  /\ at[r] = "fetch" /\ holder' = 0
  /\ \/ /\ issued < MaxTokens /\ issued' = issued + 1 /\ token' = issued'
        /\ expired' \in BOOLEAN /\ aged' = IF expired' THEN aged \cup {issued'} ELSE aged
        /\ at' = [at EXCEPT ![r] = "send"] /\ uses' = [uses EXCEPT ![r] = issued']
     \/ at' = [at EXCEPT ![r] = "failed"] /\ UNCHANGED <<issued, token, expired, aged, uses>>
  /\ UNCHANGED <<revoked, waiting, tries, sent>>

\* mutant: whatever is cached is dropped.
Dropped(t) == token

\* invalidate: only a token that is still the cached one is dropped.
Invalidated(t) == IF token = t THEN t ELSE 0

-----------------------------------------------------------------------------
(* QQOpenAPI.request *)

\* 401: the request is tried once more, with a token asked for anew.
Rejects(r) ==
  /\ at[r] = "send" /\ uses[r] \in revoked
  /\ tries' = [tries EXCEPT ![r] = @ + 1] /\ rejected' = rejected \cup {uses[r]}
  /\ IF tries[r] = 0
     THEN /\ at' = [at EXCEPT ![r] = "again"]
          /\ first' = [first EXCEPT ![r] = uses[r]]
          /\ lost' = lost \cup ({Invalidated(uses[r])} \ {0})
          /\ token' = IF Invalidated(uses[r]) # 0 THEN 0 ELSE token
     ELSE at' = [at EXCEPT ![r] = "denied"] /\ UNCHANGED <<token, first, lost>>
  /\ UNCHANGED <<expired, issued, revoked, aged, holder, waiting, uses>>

\* Any other answer: a success, one that is to be followed up (201, 202) or an error
\* (build_openapi_error); a request that gets none raises.
Answers(r) ==
  /\ at[r] = "send" /\ tries' = [tries EXCEPT ![r] = @ + 1]
  /\ \E outcome \in {"done", "audit", "failed"} :
       /\ outcome # "failed" => uses[r] \notin revoked
       /\ at' = [at EXCEPT ![r] = outcome]
  /\ UNCHANGED <<cache, holder, waiting, uses, sent>>

-----------------------------------------------------------------------------
Expires == Valid /\ expired' = TRUE /\ aged' = aged \cup {token}
  /\ UNCHANGED <<token, issued, revoked, holder, waiting, at, uses, tries, sent>>
Revokes(t) == t \in 1..issued \ revoked /\ revoked' = revoked \cup {t}
  /\ UNCHANGED <<token, expired, issued, aged, holder, waiting, at, uses, tries, sent>>

Next ==
  \/ \E r \in Requests : Asks(r) \/ Locks(r) \/ Fetches(r) \/ Rejects(r) \/ Answers(r)
  \/ Expires \/ \E t \in 1..MaxTokens : Revokes(t)

Spec == Init /\ [][Next]_vars

-----------------------------------------------------------------------------
(* Properties *)

\* However many requests are rejected at once, a token is dropped only when it was
\* itself rejected, and one is fetched only for another that was dropped or has
\* expired; a request is sent at most twice, and never again with a token it was
\* rejected with: invalidate, get_token, request.
TokensAreSpared ==
  /\ lost \subseteq rejected
  /\ \A t \in 1..issued : t < issued => t \in lost \cup aged
  /\ \A r \in Requests : tries[r] <= 2
  /\ \A r \in Requests : at[r] = "send" /\ tries[r] = 1 => uses[r] # first[r]
=============================================================================
