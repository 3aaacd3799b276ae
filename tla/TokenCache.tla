----------------------------- MODULE TokenCache -----------------------------
(***************************************************************************)
(* Installation tokens (token.py): every process has one provider with one *)
(* cache entry for the repository; its threads take the token out of it    *)
(* and the first to find none, or one that runs out within the refresh     *)
(* margin, exchanges the App's JWT for a new one while it holds the lock.  *)
(*                                                                         *)
(* The longest use of a token is an attempt: _real_invoke takes it at the  *)
(* beginning and pr-agent publishes with it at the end.  An attempt that   *)
(* has timed out goes on in its abandoned thread.                          *)
(***************************************************************************)
EXTENDS Integers

CONSTANTS Process,         \* worker replicas, sweeper, ingress
          Thread,          \* their threads that talk to GitHub
          Attempt,         \* those that run an analysis
          Home,            \* the process of each thread
          Life,            \* lifetime GitHub gives a token: an hour
          Fallback,        \* lifetime assumed when expires_at cannot be read
          Margin,          \* refresh_margin_sec
          AttemptTimeout,  \* RELIABILITY_ATTEMPT_TIMEOUT
          MaxTime          \* bound: the clock

\* The margin covers an attempt by convention only (token.py:32-34): no code compares
\* it with the timeout in the environment.
ASSUME TokenAssumption ==
    /\ Attempt \subseteq Thread
    /\ Home \in [Thread -> Process]
    /\ Life \in Nat /\ Fallback \in Nat /\ Margin \in Nat /\ MaxTime \in Nat
    /\ AttemptTimeout \in Nat
    /\ AttemptTimeout <= Margin /\ Margin < Fallback /\ Fallback <= Life

VARIABLES
    now,         \* the clock
    cache,       \* _cache of each process: the expiry it believes in and the true one
    exchanging,  \* threads inside _exchange, each with the lock of its process
    attempt      \* the analysis of each thread: its start and the expiry of its token

cacheVars == <<now, cache, exchanging, attempt>>

NoToken == [believed |-> 0, expires |-> 0]
NoAttempt == [pc |-> "idle", since |-> 0, expires |-> 0]

CacheTypeOK ==
    /\ now \in 0..MaxTime
    /\ cache \in [Process -> [believed : Nat, expires : Nat]]
    /\ exchanging \subseteq Thread
    /\ attempt \in [Attempt -> [pc : {"idle", "token", "model"}, since : 0..MaxTime,
                                expires : Nat]]

CacheInit ==
    /\ now = 0
    /\ cache = [p \in Process |-> NoToken]
    /\ exchanging = {}
    /\ attempt = [t \in Attempt |-> NoAttempt]

FreshUntilExpiry(p) == cache[p].believed > now   \* mutant: no margin
Fresh(p) == cache[p].believed - Margin > now
UnlockedAlways(p) == TRUE   \* mutant: get() without its lock
Unlocked(p) == \A t \in exchanging : Home[t] # p

-----------------------------------------------------------------------------
\* get(): the cached token is handed out,
Hit(t) ==
    /\ t \notin exchanging
    /\ Unlocked(Home[t]) /\ Fresh(Home[t])
    /\ UNCHANGED <<cache, exchanging>>

\* or the thread sets out to exchange the JWT for a new one,
Miss(t) ==
    /\ t \notin exchanging
    /\ Unlocked(Home[t]) /\ ~Fresh(Home[t])
    /\ exchanging' = exchanging \cup {t}
    /\ UNCHANGED cache

\* which it stores and returns,
Minted(t) ==
    /\ t \in exchanging
    /\ \E life \in {Life, Fallback} :
         cache' = [cache EXCEPT ![Home[t]] = [believed |-> now + life, expires |-> now + Life]]
    /\ exchanging' = exchanging \ {t}

\* unless GitHub refuses: the exception leaves the cache as it was.
MintFails(t) ==
    /\ t \in exchanging
    /\ exchanging' = exchanging \ {t}
    /\ UNCHANGED cache

Get(t) == Hit(t) \/ Minted(t)

-----------------------------------------------------------------------------
\* An attempt of analyze(): the token first, then the model's work.
Begin(t) ==
    /\ attempt[t].pc = "idle"
    /\ attempt' = [attempt EXCEPT ![t] = [pc |-> "token", since |-> now, expires |-> 0]]
    /\ UNCHANGED <<now, cache, exchanging>>

Look(t) ==
    /\ attempt[t].pc = "token"
    /\ Miss(t)
    /\ UNCHANGED <<now, attempt>>

Take(t) ==
    /\ attempt[t].pc = "token"
    /\ Get(t)
    /\ attempt' = [attempt EXCEPT ![t].pc = "model", ![t].expires = cache'[Home[t]].expires]
    /\ UNCHANGED now

\* The exception of a refused exchange ends the attempt.
Refused(t) ==
    /\ attempt[t].pc = "token"
    /\ MintFails(t)
    /\ attempt' = [attempt EXCEPT ![t] = NoAttempt]
    /\ UNCHANGED now

\* pr-agent publishes, or fails, however late.
Finish(t) ==
    /\ attempt[t].pc = "model"
    /\ attempt' = [attempt EXCEPT ![t] = NoAttempt]
    /\ UNCHANGED <<now, cache, exchanging>>

Tick ==
    /\ now < MaxTime
    /\ now' = now + 1
    /\ UNCHANGED <<cache, exchanging, attempt>>

Attempting(t) == Begin(t) \/ Look(t) \/ Take(t) \/ Refused(t) \/ Finish(t)

-----------------------------------------------------------------------------
(***************************************************************************)
(* Work that was paid for is delivered: as long as an attempt has not      *)
(* timed out, the token it took at the beginning has not expired, however  *)
(* old it was when it came out of the cache (token.py:22-34).              *)
(***************************************************************************)
PaidWorkIsDelivered ==
    \A t \in Attempt :
      attempt[t].pc = "model" /\ now <= attempt[t].since + AttemptTimeout
        => now < attempt[t].expires

(***************************************************************************)
(* Threads that miss together do not exchange twice (token.py:49-50): a    *)
(* process replaces its token only when it is within the margin of its     *)
(* expiry, so once in Life - Margin.                                       *)
(***************************************************************************)
ExchangedOnlyWhenStale ==
    [][\A p \in Process : cache'[p] # cache[p] => ~Fresh(p)]_cacheVars
=============================================================================
