---------------------------- MODULE Publication ----------------------------
(***************************************************************************)
(* What the service says on GitHub: analyses that publish with the token   *)
(* they took when they began, and comments that are upserted with a token  *)
(* taken anew for each request (_headers).  Every request of an upsert is  *)
(* one step with the get() that precedes it; a get() that misses comes     *)
(* first, and if the exchange fails the upsert breaks off where it was.    *)
(***************************************************************************)
EXTENDS TokenCache, CommentUpsert

vars == <<cacheVars, upsertVars>>

TypeOK == CacheTypeOK /\ UpsertTypeOK

Init == CacheInit /\ UpsertInit

\* _headers(): callers outside Thread are in processes whose cache is left out.
Authorized(c) == IF c \in Thread THEN Get(c) ELSE UNCHANGED <<cache, exchanging>>

Send(c) ==
    /\ Authorized(c)
    /\ Request(c)
    /\ UNCHANGED <<now, attempt>>

\* _headers() finds no fresh token for the next request.
Renew(c) ==
    /\ c \in Thread
    /\ ~Ended(c) /\ ~(upsert[c].pc = "delete" /\ upsert[c].found = {})
    /\ Miss(c)
    /\ UNCHANGED <<now, attempt, upsertVars>>

RenewFails(c) ==
    /\ c \in Thread
    /\ MintFails(c)
    /\ Fail(c)
    /\ UNCHANGED <<now, attempt>>

Break(c) ==
    /\ c \notin exchanging
    /\ Fail(c)
    /\ UNCHANGED cacheVars

Say(c) == (Call(c) \/ Return(c)) /\ UNCHANGED cacheVars

Next == \/ Tick /\ UNCHANGED upsertVars
        \/ \E t \in Attempt : Attempting(t) /\ UNCHANGED upsertVars
        \/ \E c \in Caller : Say(c) \/ Send(c) \/ Renew(c) \/ RenewFails(c) \/ Break(c)
        \/ (Remark \/ Remove) /\ UNCHANGED cacheVars

Spec == Init /\ [][Next]_vars
=============================================================================
