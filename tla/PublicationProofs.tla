------------------------- MODULE PublicationProofs -------------------------
(***************************************************************************)
(* Proofs about Publication, for any number of processes, threads, callers *)
(* and comments, any page size and any number of failing requests.         *)
(***************************************************************************)
EXTENDS Publication, FiniteSetTheorems, WellFoundedInduction, TLAPS

-----------------------------------------------------------------------------
(***************************************************************************)
(* Tokens.  A token in an attempt's hands outlives the attempt: it comes   *)
(* out of the cache with more than the margin left, or fresh from GitHub.  *)
(***************************************************************************)
TokenInv ==
    /\ CacheTypeOK
    /\ \A p \in Process : cache[p].believed <= cache[p].expires
    /\ \A t \in Attempt :
         /\ attempt[t].since <= now
         /\ attempt[t].pc = "model" => attempt[t].since + AttemptTimeout < attempt[t].expires

\* One thread of a process exchanges, and only while the cached token is stale.
ExchangeInv ==
    \A t \in exchanging : /\ ~Fresh(Home[t])
                          /\ \A u \in exchanging : Home[u] = Home[t] => u = t

\* Every step of Publication is, for the cache, one of these or none at all.
CacheStep == \/ Tick
             \/ \E t \in Attempt : Attempting(t)
             \/ \E t \in Thread : (Get(t) \/ Miss(t) \/ MintFails(t)) /\ UNCHANGED <<now, attempt>>
             \/ UNCHANGED cacheVars

LEMMA StepOfCache == [Next]_vars => CacheStep
<1> SUFFICES ASSUME [Next]_vars PROVE CacheStep
  OBVIOUS
<1>1. CASE UNCHANGED vars
  BY <1>1 DEF vars, CacheStep
<1>2. CASE Tick /\ UNCHANGED upsertVars
  BY <1>2 DEF CacheStep
<1>3. ASSUME NEW t \in Attempt, Attempting(t) PROVE CacheStep
  BY <1>3 DEF CacheStep
<1>4. ASSUME NEW c \in Caller, Send(c) PROVE CacheStep
  <2>1. CASE c \in Thread
    BY <1>4, <2>1 DEF Send, Authorized, CacheStep
  <2>2. CASE c \notin Thread
    BY <1>4, <2>2 DEF Send, Authorized, CacheStep, cacheVars
  <2> QED BY <2>1, <2>2
<1>5. ASSUME NEW c \in Caller, Renew(c) PROVE CacheStep
  BY <1>5 DEF Renew, CacheStep
<1>6. ASSUME NEW c \in Caller, RenewFails(c) PROVE CacheStep
  BY <1>6 DEF RenewFails, CacheStep
<1>7. ASSUME NEW c \in Caller, Say(c) \/ Break(c) PROVE CacheStep
  BY <1>7 DEF Say, Break, CacheStep
<1>8. CASE (Remark \/ Remove) /\ UNCHANGED cacheVars
  BY <1>8 DEF CacheStep
<1> QED
  BY <1>1, <1>2, <1>3, <1>4, <1>5, <1>6, <1>7, <1>8 DEF Next

\* What a get() that returns or a failing exchange does to the cache and its lock.
LEMMA GetKeepsCache ==
    ASSUME TokenInv, NEW t \in Thread, Get(t) \/ Miss(t) \/ MintFails(t)
    PROVE  /\ cache' \in [Process -> [believed : Nat, expires : Nat]]
           /\ \A p \in Process : cache'[p].believed <= cache'[p].expires
           /\ exchanging' \subseteq Thread
<1> USE TokenAssumption DEF TokenInv, CacheTypeOK
<1>1. CASE UNCHANGED cache
  BY <1>1 DEF Get, Hit, Minted, Miss, MintFails
<1>2. CASE Minted(t)
  <2>1. PICK life \in {Life, Fallback} :
          cache' = [cache EXCEPT ![Home[t]] = [believed |-> now + life, expires |-> now + Life]]
    BY <1>2 DEF Minted
  <2>2. Home[t] \in Process /\ life \in Nat /\ life <= Life /\ now \in Nat
    OBVIOUS
  <2> QED BY <1>2, <2>1, <2>2 DEF Minted
<1> QED
  BY <1>1, <1>2 DEF Get, Hit, Miss, MintFails

LEMMA TokenInvInit == Init => TokenInv
  BY TokenAssumption DEF Init, CacheInit, TokenInv, CacheTypeOK, NoToken, NoAttempt

LEMMA TokenInvStep == TokenInv /\ [Next]_vars => TokenInv'
<1> SUFFICES ASSUME TokenInv, CacheStep PROVE TokenInv'
  BY StepOfCache
<1> USE TokenAssumption
<1>1. CASE Tick
  BY <1>1 DEF Tick, TokenInv, CacheTypeOK
<1>2. ASSUME NEW t \in Attempt, Attempting(t) PROVE TokenInv'
  <2> USE DEF TokenInv, CacheTypeOK
  <2>1. t \in Thread
    OBVIOUS
  <2>2. CASE Begin(t)
    BY <2>2 DEF Begin
  <2>3. CASE Look(t)
    BY <2>1, <2>3, GetKeepsCache DEF Look
  <2>4. CASE Take(t)
    <3>1. /\ cache' \in [Process -> [believed : Nat, expires : Nat]]
          /\ \A p \in Process : cache'[p].believed <= cache'[p].expires
          /\ exchanging' \subseteq Thread
      BY <2>1, <2>4, GetKeepsCache DEF Take
    <3>2. attempt[t].since + AttemptTimeout < cache'[Home[t]].expires
      <4> Home[t] \in Process
        BY <2>1
      <4>1. CASE Hit(t)
        BY <4>1, <3>1 DEF Hit, Fresh
      <4>2. CASE Minted(t)
        BY <4>2 DEF Minted
      <4> QED BY <4>1, <4>2, <2>4 DEF Take, Get
    <3>3. cache'[Home[t]].expires \in Nat
      BY <2>1, <3>1
    <3> QED BY <2>4, <3>1, <3>2, <3>3 DEF Take
  <2>5. CASE Refused(t)
    BY <2>1, <2>5, GetKeepsCache DEF Refused, NoAttempt
  <2>6. CASE Finish(t)
    BY <2>6 DEF Finish, NoAttempt
  <2> QED BY <1>2, <2>2, <2>3, <2>4, <2>5, <2>6 DEF Attempting
<1>3. ASSUME NEW t \in Thread, Get(t) \/ Miss(t) \/ MintFails(t), UNCHANGED <<now, attempt>>
      PROVE TokenInv'
  BY <1>3, GetKeepsCache DEF TokenInv, CacheTypeOK
<1>4. CASE UNCHANGED cacheVars
  BY <1>4 DEF cacheVars, TokenInv, CacheTypeOK
<1> QED
  BY <1>1, <1>2, <1>3, <1>4 DEF CacheStep

(***************************************************************************)
(* For every number of processes and threads and all times that respect    *)
(* the margin: an attempt that has not timed out holds a token that has    *)
(* not expired.                                                            *)
(***************************************************************************)
THEOREM TokensOutliveAttempts == Spec => []PaidWorkIsDelivered
<1>1. TokenInv => PaidWorkIsDelivered
  BY TokenAssumption DEF TokenInv, CacheTypeOK, PaidWorkIsDelivered
<1> QED
  BY <1>1, TokenInvInit, TokenInvStep, PTL DEF Spec

-----------------------------------------------------------------------------
(***************************************************************************)
(* The lock.  A thread that exchanges is alone in its process, and time    *)
(* does not freshen the token it found stale.                              *)
(***************************************************************************)
LockInv == TokenInv /\ ExchangeInv

LEMMA ExchangeAlone ==
    ASSUME LockInv, NEW t \in Thread, Get(t) \/ Miss(t) \/ MintFails(t), now' = now
    PROVE  ExchangeInv' /\ \A p \in Process : cache'[p] # cache[p] => ~Fresh(p)
<1> USE TokenAssumption DEF LockInv, TokenInv, CacheTypeOK, ExchangeInv
<1>1. CASE Hit(t)
  BY <1>1 DEF Hit, Fresh
<1>2. CASE Miss(t)
  BY <1>2 DEF Miss, Fresh, Unlocked
<1>3. CASE MintFails(t)
  BY <1>3 DEF MintFails, Fresh
<1>4. CASE Minted(t)
  <2>1. \A p \in Process : p # Home[t] => cache'[p] = cache[p]
    BY <1>4 DEF Minted
  <2>2. \A u \in exchanging' : u \in exchanging /\ Home[u] # Home[t]
    BY <1>4 DEF Minted
  <2>3. t \in exchanging /\ exchanging \subseteq Thread /\ exchanging' \subseteq exchanging
    BY <1>4 DEF Minted
  <2>4. ASSUME NEW u \in exchanging' PROVE ~Fresh(Home[u])'
    <3>1. Home[u] \in Process /\ Home[u] # Home[t] /\ ~Fresh(Home[u])
      BY <2>2, <2>3
    <3> QED BY <3>1, <2>1 DEF Fresh
  <2> QED BY <2>1, <2>2, <2>3, <2>4
<1> QED
  BY <1>1, <1>2, <1>3, <1>4 DEF Get

LEMMA LockInvStep ==
    LockInv /\ [Next]_vars => LockInv' /\ \A p \in Process : cache'[p] # cache[p] => ~Fresh(p)
<1> SUFFICES ASSUME LockInv, [Next]_vars, CacheStep
             PROVE  ExchangeInv' /\ \A p \in Process : cache'[p] # cache[p] => ~Fresh(p)
  BY StepOfCache, TokenInvStep DEF LockInv
<1>1. CASE Tick
  BY <1>1, TokenAssumption DEF Tick, LockInv, ExchangeInv, TokenInv, CacheTypeOK, Fresh
<1>2. ASSUME NEW t \in Attempt, Attempting(t)
      PROVE  ExchangeInv' /\ \A p \in Process : cache'[p] # cache[p] => ~Fresh(p)
  <2>1. CASE Look(t) \/ Take(t) \/ Refused(t)
    <3>1. t \in Thread
      BY TokenAssumption
    <3> QED BY <2>1, <3>1, ExchangeAlone DEF Look, Take, Refused
  <2>2. CASE Begin(t) \/ Finish(t)
    BY <2>2 DEF Begin, Finish, LockInv, ExchangeInv, Fresh
  <2> QED BY <1>2, <2>1, <2>2 DEF Attempting
<1>3. ASSUME NEW t \in Thread, Get(t) \/ Miss(t) \/ MintFails(t), UNCHANGED <<now, attempt>>
      PROVE  ExchangeInv' /\ \A p \in Process : cache'[p] # cache[p] => ~Fresh(p)
  BY <1>3, ExchangeAlone
<1>4. CASE UNCHANGED cacheVars
  BY <1>4 DEF cacheVars, LockInv, ExchangeInv, Fresh
<1> QED
  BY <1>1, <1>2, <1>3, <1>4 DEF CacheStep

(***************************************************************************)
(* For every number of processes and threads: no process replaces a token  *)
(* that was still fresh, however many of its threads miss together.        *)
(***************************************************************************)
THEOREM NoSuperfluousExchange == Spec => ExchangedOnlyWhenStale
<1>1. Init => LockInv
  BY TokenInvInit DEF Init, CacheInit, LockInv, ExchangeInv
<1>2. LockInv /\ [Next]_vars => LockInv'
  BY LockInvStep
<1>3. LockInv /\ [Next]_vars =>
        [\A p \in Process : cache'[p] # cache[p] => ~Fresh(p)]_cacheVars
  BY LockInvStep
<1> QED
  BY <1>1, <1>2, <1>3, PTL DEF Spec, ExchangedOnlyWhenStale

-----------------------------------------------------------------------------
(***************************************************************************)
(* Comments.  The first comment that carried the marker is never deleted   *)
(* by an upsert: whoever deletes a comment keeps one with a smaller id.    *)
(***************************************************************************)
Posted(i) == Marked(i) \/ comments[i] = "deleted"

UpsertCall == [pc : {"ended", "raised", "list", "post", "patch", "delete"},
               page : Nat, found : SUBSET Id, alone : BOOLEAN]
UpsertInv ==
    /\ comments \in [Id -> Caller \cup {"unused", "foreign", "removed", "deleted"}]
    /\ upsert \in [Caller -> UpsertCall]
    /\ first \in Id \cup {0}

\* Ids are given out in order, so the first marked one is the smallest.
FirstInv ==
    /\ \A i, j \in Id : j < i /\ comments[i] # "unused" => comments[j] # "unused"
    /\ \A i \in Id : Posted(i) => first \in Id /\ first <= i
    /\ first # 0 => Marked(first)

\* Nobody is about to delete it.
FoundInv ==
    \A c \in Caller : /\ \A i \in upsert[c].found : Posted(i)
                      /\ upsert[c].pc = "delete" => first \notin upsert[c].found

SilenceInv == UpsertInv /\ FirstInv /\ FoundInv

UpsertStep == \/ \E c \in Caller : Call(c) \/ Request(c) \/ Return(c) \/ Fail(c)
              \/ Remark \/ Remove
              \/ UNCHANGED upsertVars

LEMMA StepOfUpsert == [Next]_vars => UpsertStep
  BY DEF Next, vars, UpsertStep, Say, Send, Renew, RenewFails, Break

LEMMA SilenceInvInit == Init => SilenceInv
  BY UpsertAssumption DEF Init, UpsertInit, SilenceInv, UpsertInv, UpsertCall, FirstInv, FoundInv,
     Quiet, Posted, Marked, Id

\* Steps that leave the comments alone and bring no call closer to a deletion.
LEMMA QuietStep ==
    ASSUME SilenceInv, UpsertInv', UNCHANGED <<comments, first>>,
           \A c \in Caller : /\ \A i \in upsert'[c].found : Posted(i)
                             /\ upsert'[c].pc = "delete" => first \notin upsert'[c].found
    PROVE  SilenceInv'
  BY DEF SilenceInv, FirstInv, FoundInv, Posted, Marked

LEMMA SilenceInvStep == SilenceInv /\ [Next]_vars => SilenceInv'
<1> SUFFICES ASSUME SilenceInv, UpsertStep PROVE SilenceInv'
  BY StepOfUpsert
<1> USE UpsertAssumption DEF SilenceInv, UpsertInv, UpsertCall, Id
<1>1. ASSUME NEW c \in Caller, Call(c) PROVE SilenceInv'
  <2>1. /\ upsert' \in [Caller -> UpsertCall]
        /\ \A d \in Caller : /\ upsert'[d].found \subseteq upsert[d].found
                             /\ upsert'[d].pc = "delete" => upsert[d].pc = "delete"
    BY <1>1 DEF Call, Quiet
  <2> QED BY <1>1, <2>1, QuietStep DEF Call, FoundInv
<1>2. ASSUME NEW c \in Caller, List(c) PROVE SilenceInv'
  <2> DEFINE found == upsert[c].found \cup {i \in OnPage(upsert[c].page) : Marked(i)}
  <2>1. found \subseteq Id /\ \A i \in found : Posted(i)
    BY DEF FoundInv, OnPage, Posted
  <2>2. /\ upsert'[c].found = found /\ upsert'[c].pc # "delete"
        /\ \A d \in Caller \ {c} : upsert'[d] = upsert[d]
        /\ upsert' \in [Caller -> UpsertCall]
    <3>1. upsert[c] \in UpsertCall /\ upsert[c].page + 1 \in Nat
      OBVIOUS
    <3>2. CASE upsert' = [upsert EXCEPT ![c].found = found, ![c].page = @ + 1]
      <4>1. [upsert[c] EXCEPT !.found = found, !.page = @ + 1] \in UpsertCall
        BY <2>1, <3>1
      <4> HIDE DEF found
      <4> QED BY <1>2, <3>1, <3>2, <4>1 DEF List
    <3>3. ASSUME NEW pc \in {"post", "patch"},
                 upsert' = [upsert EXCEPT ![c].found = found, ![c].pc = pc]
          PROVE  <2>2
      <4>1. [upsert[c] EXCEPT !.found = found, !.pc = pc] \in UpsertCall
        BY <2>1, <3>1
      <4> HIDE DEF found
      <4> QED BY <3>1, <3>3, <4>1
    <3> QED BY <1>2, <3>2, <3>3 DEF List
  <2> QED BY <1>2, <2>1, <2>2, QuietStep DEF List, FoundInv
<1>3. ASSUME NEW c \in Caller, Post(c) PROVE SilenceInv'
  <2>1. PICK i \in Id : /\ NewId(i)
                        /\ comments' = [comments EXCEPT ![i] = c]
                        /\ first' = IF first = 0 THEN i ELSE first
    BY <1>3 DEF Post
  <2>2. UpsertInv' /\ \A d \in Caller : /\ upsert'[d].found \subseteq upsert[d].found
                                        /\ upsert'[d].pc = "delete" => upsert[d] = upsert'[d]
    BY <1>3, <2>1 DEF Post, Quiet
  <2>3. \A j \in Id : Posted(j) => Posted(j)' /\ j # i
    BY <2>1 DEF Posted, Marked, NewId
  <2>4. \A j \in Id : Posted(j)' => Posted(j) \/ j = i
    BY <2>1 DEF Posted, Marked
  <2>5. Marked(i)' /\ comments[i] = "unused"
    BY <2>1 DEF Marked, NewId
  <2>6. first # 0 => first < i /\ first' = first /\ Marked(first)'
    BY <2>1, <2>5 DEF FirstInv, Marked
  <2>7. \A j, k \in Id : k < j /\ comments'[j] # "unused" => comments'[k] # "unused"
    BY <2>1, <2>5 DEF FirstInv, NewId
  <2>8. FirstInv'
    <3>1. CASE first = 0
      BY <3>1, <2>1, <2>4, <2>5, <2>7 DEF FirstInv
    <3>2. CASE first # 0
      BY <3>2, <2>1, <2>4, <2>6, <2>7 DEF FirstInv
    <3> QED BY <3>1, <3>2
  <2>9. FoundInv'
    <3>1. \A d \in Caller : \A j \in upsert[d].found : Posted(j) /\ j # i
      BY <2>3 DEF FoundInv
    <3> QED BY <3>1, <2>1, <2>2, <2>3 DEF FoundInv
  <2> QED BY <2>2, <2>8, <2>9
<1>4. ASSUME NEW c \in Caller, Patch(c) PROVE SilenceInv'
  <2>1. PICK m \in upsert[c].found :
          /\ \A i \in upsert[c].found : m <= i
          /\ Marked(m)
          /\ comments' = [comments EXCEPT ![m] = c]
          /\ upsert' = [upsert EXCEPT ![c].pc = "delete", ![c].found = Extras(@, m)]
    BY <1>4 DEF Patch
  <2>2. m \in Id /\ first' = first
    BY <1>4 DEF Patch
  <2>3. UpsertInv'
    <3>1. Extras(upsert[c].found, m) \subseteq Id
      BY DEF Extras
    <3>2. [upsert[c] EXCEPT !.pc = "delete", !.found = Extras(@, m)] \in UpsertCall
      BY <3>1
    <3>3. upsert' \in [Caller -> UpsertCall]
      BY <2>1, <3>2
    <3> QED BY <2>1, <2>2, <3>3
  <2>4. \A j \in Id : (Posted(j)' <=> Posted(j)) /\ (Marked(j)' <=> Marked(j))
                      /\ (comments'[j] = "unused" <=> comments[j] = "unused")
    BY <2>1, <2>2 DEF Posted, Marked
  <2>5. first \in Id /\ first <= m
    BY <2>1, <2>2 DEF FirstInv, Posted
  <2>6. FirstInv'
    BY <2>2, <2>4 DEF FirstInv
  <2>7. first \notin Extras(upsert[c].found, m)
    BY <2>1, <2>2, <2>5 DEF Extras
  <2>8. FoundInv'
    BY <2>1, <2>2, <2>4, <2>7 DEF FoundInv, Extras
  <2> QED BY <2>3, <2>6, <2>8
<1>5. ASSUME NEW c \in Caller, Delete(c) PROVE SilenceInv'
  <2>1. PICK m \in upsert[c].found :
          /\ Marked(m)
          /\ comments' = [comments EXCEPT ![m] = "deleted"]
          /\ upsert' = [upsert EXCEPT ![c].found = @ \ {m}]
    BY <1>5 DEF Delete
  <2>2. m \in Id /\ first' = first /\ m # first /\ upsert[c].pc = "delete"
    BY <1>5, <2>1 DEF Delete, FoundInv
  <2>3. UpsertInv'
    BY <2>1, <2>2
  <2>4. \A j \in Id : (Posted(j)' <=> Posted(j))
                      /\ (comments'[j] = "unused" <=> comments[j] = "unused")
    BY <2>1, <2>2 DEF Posted, Marked
  <2>5. first # 0 => Marked(first)'
    BY <2>1, <2>2 DEF FirstInv, Marked
  <2>6. FirstInv'
    BY <2>2, <2>4, <2>5 DEF FirstInv
  <2>7. FoundInv'
    BY <2>1, <2>2, <2>4 DEF FoundInv
  <2> QED BY <2>3, <2>6, <2>7
<1>6. ASSUME NEW c \in Caller, Return(c) \/ Gone(c) \/ Fail(c) PROVE SilenceInv'
  <2>1. /\ UNCHANGED <<comments, first>>
        /\ upsert' \in [Caller -> UpsertCall]
        /\ \A d \in Caller : /\ upsert'[d].found \subseteq upsert[d].found
                             /\ upsert'[d].pc = "delete" => upsert[d].pc = "delete"
    <3>1. PICK call \in {Quiet("ended"), Quiet("raised")} : upsert' = [upsert EXCEPT ![c] = call]
      BY <1>6 DEF Return, Gone, Fail, Raise
    <3>2. call \in UpsertCall /\ call.found = {} /\ call.pc # "delete"
      <4>1. Quiet("ended") \in UpsertCall /\ Quiet("raised") \in UpsertCall
        BY DEF Quiet
      <4>2. call.found = {} /\ call.pc # "delete"
        BY <3>1 DEF Quiet
      <4> QED BY <3>1, <4>1, <4>2
    <3>3. UNCHANGED <<comments, first>>
      BY <1>6 DEF Return, Gone, Fail
    <3> QED BY <3>1, <3>2, <3>3
  <2> QED BY <2>1, QuietStep DEF FoundInv
<1>7. CASE Remark
  <2>1. PICK i \in Id : NewId(i) /\ comments' = [comments EXCEPT ![i] = "foreign"]
    BY <1>7 DEF Remark
  <2>2. UNCHANGED <<upsert, first>>
    BY <1>7 DEF Remark
  <2>3. \A j \in Id : (Posted(j)' <=> Posted(j)) /\ (Marked(j) => Marked(j)')
    BY <2>1 DEF Posted, Marked, NewId
  <2>4. \A j, k \in Id : k < j /\ comments'[j] # "unused" => comments'[k] # "unused"
    BY <2>1 DEF FirstInv, NewId
  <2>5. UpsertInv' /\ FirstInv' /\ FoundInv'
    BY <2>1, <2>2, <2>3, <2>4 DEF FirstInv, FoundInv
  <2> QED BY <2>5
<1>8. CASE Remove
  <2>1. PICK i \in Id : comments[i] = "foreign" /\ comments' = [comments EXCEPT ![i] = "removed"]
    BY <1>8 DEF Remove
  <2>2. /\ first' = first
        /\ upsert' \in [Caller -> UpsertCall]
        /\ \A d \in Caller : upsert'[d].found = upsert[d].found /\ upsert'[d].pc = upsert[d].pc
    <3>1. /\ first' = first
          /\ upsert' = [d \in Caller |-> [upsert[d] EXCEPT !.alone = FALSE]]
      BY <1>8 DEF Remove
    <3>2. \A d \in Caller : /\ [upsert[d] EXCEPT !.alone = FALSE] \in UpsertCall
                            /\ [upsert[d] EXCEPT !.alone = FALSE].found = upsert[d].found
                            /\ [upsert[d] EXCEPT !.alone = FALSE].pc = upsert[d].pc
      OBVIOUS
    <3> QED BY <3>1, <3>2
  <2>3. \A j \in Id : (Posted(j)' <=> Posted(j)) /\ (Marked(j) => Marked(j)')
                      /\ (comments'[j] = "unused" <=> comments[j] = "unused")
    BY <2>1 DEF Posted, Marked
  <2>4. UpsertInv' /\ FirstInv' /\ FoundInv'
    BY <2>1, <2>2, <2>3 DEF FirstInv, FoundInv
  <2> QED BY <2>4
<1>9. CASE UNCHANGED upsertVars
  BY <1>9 DEF upsertVars, FirstInv, FoundInv, Posted, Marked
<1> QED
  BY <1>1, <1>2, <1>3, <1>4, <1>5, <1>6, <1>7, <1>8, <1>9 DEF UpsertStep, Request

(***************************************************************************)
(* For any number of callers and comments and any page size: once a        *)
(* comment has been posted the pull request never goes without one.        *)
(***************************************************************************)
THEOREM CommentsStay == Spec => []NeverSilenced
<1>1. SilenceInv => NeverSilenced
  BY DEF SilenceInv, UpsertInv, FirstInv, NeverSilenced
<1> QED
  BY <1>1, SilenceInvInit, SilenceInvStep, PTL DEF Spec

-----------------------------------------------------------------------------
(***************************************************************************)
(* Pages.  The comments of a page that is not full are the last ones: each *)
(* comment that is listed is on it or on one of the pages before.          *)
(***************************************************************************)
VisibleBelow(i) == {j \in Id : j < i /\ Visible(j)}

LEMMA PageBounds ==
    ASSUME NEW page \in Nat \ {0}
    PROVE  /\ (page - 1) * PerPage \in Nat /\ page - 1 <= (page - 1) * PerPage
           /\ page * PerPage = (page - 1) * PerPage + PerPage
<1> DEFINE n == page - 1
<1>1. n \in Nat /\ PerPage \in Nat /\ 1 <= PerPage
  BY UpsertAssumption
<1>2. n * PerPage \in Nat /\ n <= n * PerPage /\ (n + 1) * PerPage = n * PerPage + PerPage
  BY <1>1, SMTT(30)
<1> QED
  BY <1>2

\* Positions count the comments before, so a later comment has a greater one.
LEMMA Positions ==
    /\ IsFiniteSet(Id)
    /\ \A i \in Id : /\ IsFiniteSet(VisibleBelow(i)) /\ Position(i) = Cardinality(VisibleBelow(i))
                     /\ Position(i) \in 0..(i - 1)
    /\ \A i, j \in Id : j < i /\ Visible(j) => Position(j) < Position(i)
<1>1. IsFiniteSet(Id)
  BY UpsertAssumption, FS_Interval DEF Id
<1>2. ASSUME NEW i \in Id
      PROVE  /\ IsFiniteSet(VisibleBelow(i)) /\ Position(i) = Cardinality(VisibleBelow(i))
             /\ Position(i) \in 0..(i - 1)
  <2>1. IsFiniteSet(VisibleBelow(i))
    BY <1>1, FS_Subset DEF VisibleBelow
  <2>2. IsFiniteSet(1..(i - 1)) /\ Cardinality(1..(i - 1)) = i - 1
    BY UpsertAssumption, FS_Interval DEF Id
  <2>3. VisibleBelow(i) \subseteq 1..(i - 1)
    BY UpsertAssumption DEF VisibleBelow, Id
  <2>4. Cardinality(VisibleBelow(i)) <= i - 1
    BY <2>2, <2>3, FS_Subset
  <2>5. Cardinality(VisibleBelow(i)) \in Nat
    BY <2>1, FS_CardinalityType
  <2> QED
    BY <2>1, <2>4, <2>5, UpsertAssumption DEF VisibleBelow, Position, Id
<1>3. ASSUME NEW i \in Id, NEW j \in Id, j < i, Visible(j)
      PROVE  Position(j) < Position(i)
  <2>1. /\ VisibleBelow(j) \cup {j} \subseteq VisibleBelow(i)
        /\ j \notin VisibleBelow(j)
    BY <1>3, UpsertAssumption DEF VisibleBelow, Id
  <2>2. Cardinality(VisibleBelow(j) \cup {j}) = Cardinality(VisibleBelow(j)) + 1
    BY <1>2, <2>1, FS_AddElement
  <2>3. Cardinality(VisibleBelow(j) \cup {j}) <= Cardinality(VisibleBelow(i))
    BY <1>2, <2>1, FS_Subset
  <2>4. Position(i) \in Nat /\ Position(j) \in Nat
    BY <1>2, UpsertAssumption DEF Id
  <2> QED
    BY <1>2, <2>2, <2>3, <2>4
<1> QED
  BY <1>1, <1>2, <1>3

\* Fewer than n comments come before position n.
LEMMA FewBefore ==
    ASSUME NEW n \in Nat, NEW S \in SUBSET Id, \A i \in S : Visible(i) /\ Position(i) < n
    PROVE  IsFiniteSet(S) /\ Cardinality(S) <= n
<1>1. IsFiniteSet(S)
  BY Positions, FS_Subset
<1>2. CASE S = {}
  BY <1>1, <1>2, FS_EmptySet
<1>3. CASE S # {}
  <2>1. PICK last \in S : \A i \in S : i <= last
    <3> DEFINE Gap == {MaxId - i : i \in S}
    <3>1. Gap \in SUBSET Nat /\ Gap # {}
      <4>1. \A i \in S : MaxId - i \in Nat
        BY UpsertAssumption DEF Id
      <4> QED
        BY <1>3, <4>1
    <3>2. PICK least \in Gap : \A g \in Gap : least <= g
      <4> HIDE DEF Gap
      <4>1. \E m \in Gap : \A g \in Gap : <<g, m>> \notin OpToRel(<, Nat)
        BY <3>1, NatLessThanWellFounded, WFMin
      <4>2. \A m, g \in Nat : <<g, m>> \notin OpToRel(<, Nat) => m <= g
        BY DEF OpToRel
      <4> QED
        BY <3>1, <4>1, <4>2
    <3> QED
      BY <3>2, UpsertAssumption DEF Id
  <2>2. S \subseteq VisibleBelow(last) \cup {last}
    BY <2>1, UpsertAssumption DEF VisibleBelow, Id
  <2>3. last \notin VisibleBelow(last) /\ last \in Id
    BY UpsertAssumption DEF VisibleBelow, Id
  <2>4. /\ IsFiniteSet(VisibleBelow(last) \cup {last})
        /\ Cardinality(VisibleBelow(last) \cup {last}) = Position(last) + 1
    BY <2>3, Positions, FS_AddElement
  <2>5. Cardinality(S) <= Position(last) + 1
    BY <2>2, <2>4, FS_Subset
  <2>6. Position(last) \in Nat /\ Position(last) < n
    BY <2>3, Positions, UpsertAssumption DEF Id
  <2>7. Cardinality(S) \in Nat
    BY <1>1, FS_CardinalityType
  <2> QED
    BY <1>1, <2>5, <2>6, <2>7
<1> QED
  BY <1>2, <1>3

LEMMA NoneAfterLastPage ==
    ASSUME NEW page \in Nat \ {0}, LastPage(page), NEW i \in Id, Visible(i)
    PROVE  Position(i) < page * PerPage
<1> DEFINE lo == (page - 1) * PerPage
           After == {j \in Id : Visible(j) /\ lo + PerPage <= Position(j)}
<1>0. /\ lo \in Nat /\ page * PerPage = lo + PerPage /\ PerPage \in Nat
      /\ \A j \in Id : Position(j) \in Nat /\ j \in Nat
  BY PageBounds, Positions, UpsertAssumption DEF Id
<1> HIDE DEF lo
<1> SUFFICES ASSUME i \in After PROVE FALSE
  BY <1>0
<1>1. PICK next \in After : \A j \in After : next <= j
  <2>1. After \in SUBSET Nat /\ After # {}
    BY <1>0
  <2> HIDE DEF After
  <2>2. \E m \in After : \A j \in After : <<j, m>> \notin OpToRel(<, Nat)
    BY <2>1, NatLessThanWellFounded, WFMin
  <2>3. \A m, j \in Nat : <<j, m>> \notin OpToRel(<, Nat) => m <= j
    BY DEF OpToRel
  <2> QED
    BY <2>1, <2>2, <2>3
<1> DEFINE earlier == {j \in VisibleBelow(next) : Position(j) < lo}
           onPage == {j \in VisibleBelow(next) : lo <= Position(j)}
<1>2. IsFiniteSet(earlier) /\ Cardinality(earlier) <= lo
  <2>1. earlier \in SUBSET Id /\ \A j \in earlier : Visible(j) /\ Position(j) < lo
    BY DEF VisibleBelow
  <2> HIDE DEF earlier
  <2> QED
    BY <1>0, <2>1, FewBefore
<1>3. /\ OnPage(page) = {j \in Id : Visible(j) /\ Position(j) \in lo .. lo + PerPage - 1}
      /\ IsFiniteSet(OnPage(page)) /\ Cardinality(OnPage(page)) < PerPage
  <2>1. OnPage(page) = {j \in Id : Visible(j) /\ Position(j) \in lo .. lo + PerPage - 1}
    BY <1>0 DEF OnPage, lo
  <2>2. OnPage(page) \subseteq Id
    BY DEF OnPage
  <2> QED
    BY <2>1, <2>2, Positions, FS_Subset DEF LastPage
<1>4. onPage \subseteq OnPage(page)
  <2> SUFFICES ASSUME NEW j \in onPage PROVE j \in OnPage(page)
    OBVIOUS
  <2>1. j \in Id /\ j < next /\ Visible(j) /\ lo <= Position(j)
    BY DEF VisibleBelow
  <2>2. Position(j) < lo + PerPage
    BY <1>0, <1>1, <2>1
  <2> QED
    BY <1>0, <1>3, <2>1, <2>2
<1>5. IsFiniteSet(onPage) /\ Cardinality(onPage) <= Cardinality(OnPage(page))
  <2> HIDE DEF onPage
  <2> QED
    BY <1>3, <1>4, FS_Subset
<1>6. VisibleBelow(next) = earlier \cup onPage
  <2>1. \A j \in VisibleBelow(next) : Position(j) \in Nat
    BY <1>0 DEF VisibleBelow
  <2> QED
    BY <1>0, <2>1
<1>7. Cardinality(earlier \cup onPage) <= Cardinality(earlier) + Cardinality(onPage)
  <2> HIDE DEF earlier, onPage
  <2>1. /\ Cardinality(earlier \cup onPage)
             = Cardinality(earlier) + Cardinality(onPage) - Cardinality(earlier \cap onPage)
        /\ IsFiniteSet(earlier \cap onPage)
    BY <1>2, <1>5, FS_Union, FS_Intersection
  <2>2. /\ Cardinality(earlier) \in Nat /\ Cardinality(onPage) \in Nat
        /\ Cardinality(earlier \cap onPage) \in Nat
    BY <1>2, <1>5, <2>1, FS_CardinalityType
  <2> QED
    BY <2>1, <2>2
<1>8. Position(next) < lo + PerPage
  <2> HIDE DEF earlier, onPage
  <2>1. Position(next) = Cardinality(earlier \cup onPage)
    BY <1>6, Positions
  <2>2. /\ Cardinality(earlier) \in Nat /\ Cardinality(onPage) \in Nat
        /\ Cardinality(OnPage(page)) \in Nat
    BY <1>2, <1>3, <1>5, FS_CardinalityType
  <2>3. Position(next) \in Nat
    BY <1>0
  <2> QED
    BY <1>0, <1>2, <1>3, <1>5, <1>7, <2>1, <2>2, <2>3
<1> QED
  BY <1>0, <1>8

-----------------------------------------------------------------------------
(***************************************************************************)
(* Healing.  What a call has found out stays true while nobody else calls  *)
(* and no comment is removed: comments that are added come after those it  *)
(* has read.                                                               *)
(***************************************************************************)
PageInv == (\A c \in Caller : upsert[c].page \in 1..(MaxId + 1)) /\ faults \in 0..MaxFaults

Ours == {i \in Id : Marked(i)}
Read(c) == {i \in Ours : Position(i) < (upsert[c].page - 1) * PerPage}
Healing(c) ==
    /\ \A d \in Caller : ~Ended(d) => d = c
    /\ upsert[c].found \subseteq Ours
    /\ upsert[c].pc = "list" => Read(c) \subseteq upsert[c].found
    /\ upsert[c].pc = "post" => Ours = {}
    /\ upsert[c].pc = "patch" => Ours = upsert[c].found
    /\ upsert[c].pc = "delete" => \E m \in Id : /\ comments[m] = c /\ m \notin upsert[c].found
                                                /\ Ours = upsert[c].found \cup {m}
AloneInv == \A c \in Caller : ~Ended(c) /\ upsert[c].alone => Healing(c)

HealInv == SilenceInv /\ PageInv /\ AloneInv
Healed(c) == ~Ended(c) /\ upsert[c].alone /\ upsert'[c].pc = "ended"
               => \E i \in Id : comments'[i] = c /\ \A j \in Id : comments'[j] \in Caller => j = i

LEMMA PageInvStep == SilenceInv /\ PageInv /\ [Next]_vars => PageInv'
<1> SUFFICES ASSUME SilenceInv, PageInv, UpsertStep PROVE PageInv'
  BY StepOfUpsert
<1> USE UpsertAssumption DEF SilenceInv, UpsertInv, UpsertCall, PageInv
<1>1. ASSUME NEW c \in Caller, List(c) PROVE PageInv'
  <2> DEFINE page == upsert[c].page
  <2>1. CASE LastPage(page)
    BY <1>1, <2>1 DEF List
  <2>2. CASE ~LastPage(page)
    <3>1. PICK i \in OnPage(page) : TRUE
      <4>1. CASE OnPage(page) = {}
        BY <2>2, <4>1, FS_EmptySet DEF LastPage
      <4> QED
        BY <4>1
    <3>2. /\ (page - 1) * PerPage \in Nat /\ page - 1 <= (page - 1) * PerPage
          /\ page * PerPage = (page - 1) * PerPage + PerPage
      BY PageBounds
    <3>3. i \in Id /\ Position(i) \in (page - 1) * PerPage .. page * PerPage - 1
      BY <3>1 DEF OnPage
    <3>4. Position(i) \in 0..(i - 1) /\ i <= MaxId
      BY <3>3, Positions DEF Id
    <3>5. page \in 1..(MaxId + 1)
      OBVIOUS
    <3> DEFINE lo == (page - 1) * PerPage
               hi == page * PerPage
    <3> HIDE DEF lo, hi
    <3>6. lo \in Nat /\ page - 1 <= lo /\ lo <= Position(i) /\ i \in Nat
      BY <3>2, <3>3 DEF lo, hi, Id
    <3>7. page + 1 \in 1..(MaxId + 1)
      BY <3>4, <3>5, <3>6
    <3>8. \A d \in Caller : upsert'[d].page = IF d = c THEN page + 1 ELSE upsert[d].page
      BY <1>1, <2>2 DEF List
    <3> HIDE DEF page
    <3> QED
      BY <1>1, <3>7, <3>8 DEF List
  <2> QED
    BY <2>1, <2>2
<1>2. ASSUME NEW c \in Caller, Post(c) \/ Patch(c) \/ Delete(c) \/ Return(c) \/ Gone(c) \/ Call(c)
      PROVE  PageInv'
  BY <1>2 DEF Post, Patch, Delete, Return, Gone, Raise, Call, Quiet
<1>3. ASSUME NEW c \in Caller, Fail(c) PROVE PageInv'
  BY <1>3 DEF Fail, Raise, Quiet
<1>4. CASE Remark \/ Remove \/ UNCHANGED upsertVars
  BY <1>4 DEF Remark, Remove, upsertVars
<1> QED
  BY <1>1, <1>2, <1>3, <1>4 DEF UpsertStep, Request

\* A new comment takes no place that has been read.
LEMMA NewIsLast ==
    ASSUME SilenceInv, NEW i \in Id, NewId(i), NEW author, comments' = [comments EXCEPT ![i] = author]
    PROVE  \A j \in Id \ {i} : Visible(j) => Position(j)' = Position(j)
<1> SUFFICES ASSUME NEW j \in Id \ {i}, Visible(j) PROVE Position(j)' = Position(j)
  OBVIOUS
<1> USE UpsertAssumption DEF SilenceInv, UpsertInv
<1>1. j < i
  BY DEF FirstInv, NewId, Visible, Marked, Id
<1>2. \A k \in Id : k < j => comments'[k] = comments[k]
  BY <1>1 DEF Id
<1>3. {k \in Id : k < j /\ Visible(k)'} = {k \in Id : k < j /\ Visible(k)}
  BY <1>2 DEF Visible, Marked
<1> QED
  BY <1>3 DEF Position, Visible, Marked

LEMMA AloneInvStep == HealInv /\ [Next]_vars => AloneInv' /\ \A c \in Caller : Healed(c)
<1> SUFFICES ASSUME HealInv, UpsertStep, UpsertInv' PROVE AloneInv' /\ \A c \in Caller : Healed(c)
  BY StepOfUpsert, SilenceInvStep DEF HealInv, SilenceInv
<1> USE UpsertAssumption DEF HealInv, SilenceInv, UpsertInv, UpsertCall
<1>1. ASSUME NEW c \in Caller, Call(c) PROVE AloneInv' /\ \A d \in Caller : Healed(d)
  <2>1. UNCHANGED comments
    BY <1>1 DEF Call
  <2>2. \A d \in Caller : d # c => ~upsert'[d].alone /\ upsert'[d].pc = upsert[d].pc
    BY <1>1 DEF Call
  <2>3. /\ upsert'[c].pc = "list" /\ upsert'[c].page = 1 /\ upsert'[c].found = {}
        /\ upsert'[c].alone <=> \A d \in Caller : Ended(d)
    BY <1>1 DEF Call, Quiet
  <2>4. \A d \in Caller : Healed(d)
    BY <2>2, <2>3 DEF Healed, Ended
  <2>5. upsert'[c].alone => Healing(c)'
    <3> SUFFICES ASSUME upsert'[c].alone PROVE Healing(c)'
      OBVIOUS
    <3>1. \A d \in Caller : ~Ended(d)' => d = c
      BY <2>2, <2>3 DEF Ended
    <3>2. Read(c)' = {}
      <4>1. (upsert'[c].page - 1) * PerPage = 0
        BY <2>3
      <4>2. \A i \in Id : Position(i)' \in Nat
        <5>1. \A i \in Id : Position(i)' = Position(i)
          BY <2>1 DEF Position, Visible, Marked
        <5>2. \A i \in Id : Position(i) \in Nat
          BY Positions DEF Id
        <5> QED
          BY <5>1, <5>2
      <4>3. \A i \in Id : ~(Position(i)' < (upsert'[c].page - 1) * PerPage)
        BY <4>1, <4>2
      <4> QED
        BY <4>3 DEF Read, Ours
    <3> QED
      BY <2>3, <3>1, <3>2 DEF Healing
  <2> QED
    BY <2>2, <2>4, <2>5 DEF AloneInv
\* A step of a call, when it is alone: the others have ended.
<1> DEFINE Only(c) == \A d \in Caller \ {c} : upsert'[d] = upsert[d]
<1>2. ASSUME NEW c \in Caller, Only(c), upsert'[c].alone = upsert[c].alone \/ Ended(c)', ~Ended(c),
             upsert[c].alone => Healed(c),
             upsert[c].alone /\ ~Ended(c)' =>
                /\ upsert'[c].found \subseteq Ours'
                /\ upsert'[c].pc = "list" => Read(c)' \subseteq upsert'[c].found
                /\ upsert'[c].pc = "post" => Ours' = {}
                /\ upsert'[c].pc = "patch" => Ours' = upsert'[c].found
                /\ upsert'[c].pc = "delete" =>
                     \E m \in Id : /\ comments'[m] = c /\ m \notin upsert'[c].found
                                   /\ Ours' = upsert'[c].found \cup {m}
      PROVE  AloneInv' /\ \A d \in Caller : Healed(d)
  <2>1. \A d \in Caller \ {c} : Ended(d)' = Ended(d) /\ upsert'[d] = upsert[d]
    BY <1>2 DEF Ended
  <2>2. ASSUME NEW d \in Caller \ {c} PROVE Healed(d)
    BY <2>1, <2>2 DEF Healed, Ended
  <2>3. ASSUME NEW d \in Caller \ {c}, ~Ended(d)', upsert'[d].alone PROVE FALSE
    <3>1. Healing(d) /\ ~Ended(c)
      BY <1>2, <2>1, <2>3 DEF AloneInv
    <3> QED
      BY <3>1 DEF Healing
  <2>4. ASSUME ~Ended(c)', upsert'[c].alone PROVE Healing(c)'
    <3>1. upsert[c].alone /\ Healing(c)
      BY <1>2, <2>4 DEF AloneInv
    <3>2. \A d \in Caller : ~Ended(d)' => d = c
      BY <2>1, <3>1 DEF Healing
    <3> QED
      BY <1>2, <2>4, <3>1, <3>2 DEF Healing
  <2>5. Healed(c)
    BY <1>2 DEF Healed
  <2> QED
    BY <2>2, <2>3, <2>4, <2>5 DEF AloneInv
<1>3. ASSUME NEW c \in Caller, List(c) PROVE AloneInv' /\ \A d \in Caller : Healed(d)
  <2> DEFINE page == upsert[c].page
             found == upsert[c].found \cup {i \in OnPage(page) : Marked(i)}
             lo == (page - 1) * PerPage
  <2>0. /\ page \in Nat \ {0} /\ UNCHANGED comments
        /\ upsert[c].pc = "list" /\ upsert'[c].found = found
        /\ upsert'[c].alone = upsert[c].alone /\ Only(c)
    BY <1>3 DEF PageInv, List
  <2>1. /\ lo \in Nat /\ page * PerPage = lo + PerPage
        /\ \A i \in Id : Position(i) \in Nat
    <3>1. lo \in Nat /\ page * PerPage = lo + PerPage
      <4> HIDE DEF page
      <4> QED
        BY <2>0, PageBounds
    <3>2. \A i \in Id : Position(i) \in Nat
      BY Positions DEF Id
    <3> QED
      BY <3>1, <3>2
  <2>2. UNCHANGED Ours /\ \A i \in Id : Position(i)' = Position(i)
    BY <2>0 DEF Ours, Position, Visible, Marked
  <2>3. ASSUME upsert[c].alone PROVE found \subseteq Ours /\ Read(c) \subseteq upsert[c].found
    BY <2>0, <2>3 DEF AloneInv, Healing, Ended, OnPage, Ours
  <2>4. ASSUME upsert[c].alone, NEW i \in Ours, Position(i) < page * PerPage PROVE i \in found
    <3>1. CASE Position(i) < lo
      BY <2>3, <2>4, <3>1 DEF Read
    <3>2. CASE ~(Position(i) < lo)
      <4>1. i \in Id /\ Visible(i) /\ Marked(i)
        BY DEF Ours, Visible
      <4>2. Position(i) \in lo .. page * PerPage - 1
        <5> HIDE DEF lo
        <5> QED
          BY <2>1, <2>4, <3>2, <4>1
      <4> QED
        BY <4>1, <4>2 DEF OnPage
    <3> QED
      BY <3>1, <3>2
  <2>5. CASE ~LastPage(page)
    <3>1. upsert'[c].pc = "list" /\ upsert'[c].page = page + 1
      BY <1>3, <2>0, <2>5 DEF List
    <3>2. (upsert'[c].page - 1) * PerPage = page * PerPage
      BY <2>0, <3>1
    <3>3. upsert[c].alone => Read(c)' \subseteq found
      <4> SUFFICES ASSUME upsert[c].alone, NEW i \in Read(c)' PROVE i \in found
        OBVIOUS
      <4>1. i \in Ours /\ Position(i)' < page * PerPage
        BY <2>2, <3>2 DEF Read
      <4>2. Position(i)' = Position(i)
        BY <2>2, <4>1 DEF Ours
      <4> QED
        BY <2>4, <4>1, <4>2
    <3> HIDE DEF found, page, lo
    <3> QED
      BY <1>2, <2>0, <2>2, <2>3, <3>1, <3>3 DEF Ended, Healed
  <2>6. CASE LastPage(page)
    <3>1. upsert'[c].pc = IF found = {} THEN "post" ELSE "patch"
      BY <1>3, <2>0, <2>6 DEF List
    <3>2. upsert[c].alone => Ours = found
      <4> SUFFICES ASSUME upsert[c].alone PROVE Ours \subseteq found
        BY <2>3
      <4> SUFFICES ASSUME NEW i \in Ours PROVE i \in found
        OBVIOUS
      <4>1. i \in Id /\ Visible(i)
        BY DEF Ours, Visible
      <4>2. Position(i) < page * PerPage
        BY <2>0, <2>6, <4>1, NoneAfterLastPage
      <4> QED
        BY <2>4, <4>2
    <3> HIDE DEF found, page, lo
    <3> QED
      BY <1>2, <2>0, <2>2, <2>3, <3>1, <3>2 DEF Ended, Healed
  <2> QED
    BY <2>5, <2>6
<1>4. ASSUME NEW c \in Caller, Post(c) PROVE AloneInv' /\ \A d \in Caller : Healed(d)
  <2>1. PICK i \in Id : NewId(i) /\ comments' = [comments EXCEPT ![i] = c]
    BY <1>4 DEF Post
  <2>2. upsert[c].pc = "post" /\ upsert'[c].pc = "ended" /\ Only(c) /\ Ended(c)'
    BY <1>4 DEF Post, Quiet, Ended
  <2>3. upsert[c].alone => \A j \in Id : comments[j] \notin Caller
    BY <2>2 DEF AloneInv, Healing, Ended, Ours, Marked
  <2>4. upsert[c].alone => comments'[i] = c /\ \A j \in Id : comments'[j] \in Caller => j = i
    BY <2>1, <2>3
  <2> QED
    BY <1>2, <2>2, <2>4 DEF Ended, Healed
<1>5. ASSUME NEW c \in Caller, Patch(c) PROVE AloneInv' /\ \A d \in Caller : Healed(d)
  <2>1. PICK m \in upsert[c].found :
          /\ Marked(m)
          /\ comments' = [comments EXCEPT ![m] = c]
          /\ upsert' = [upsert EXCEPT ![c].pc = "delete", ![c].found = Extras(@, m)]
    BY <1>5 DEF Patch
  <2>2. /\ m \in Id /\ upsert[c].pc = "patch" /\ upsert'[c].pc = "delete"
        /\ upsert'[c].found = upsert[c].found \ {m} /\ upsert'[c].alone = upsert[c].alone /\ Only(c)
    BY <1>5, <2>1 DEF Patch, Extras
  <2>3. comments'[m] = c /\ Ours' = Ours
    BY <2>1, <2>2 DEF Ours, Marked
  <2>4. upsert[c].alone => Ours = upsert[c].found
    BY <2>2 DEF AloneInv, Healing, Ended
  <2> QED
    BY <1>2, <2>1, <2>2, <2>3, <2>4 DEF Ended, Healed
<1>6. ASSUME NEW c \in Caller, Delete(c) PROVE AloneInv' /\ \A d \in Caller : Healed(d)
  <2>1. PICK i \in upsert[c].found :
          /\ Marked(i)
          /\ comments' = [comments EXCEPT ![i] = "deleted"]
          /\ upsert' = [upsert EXCEPT ![c].found = @ \ {i}]
    BY <1>6 DEF Delete
  <2>2. /\ i \in Id /\ upsert[c].pc = "delete" /\ upsert'[c].pc = "delete"
        /\ upsert'[c].found = upsert[c].found \ {i} /\ upsert'[c].alone = upsert[c].alone /\ Only(c)
    BY <1>6, <2>1 DEF Delete
  <2>3. Ours' = Ours \ {i}
    BY <2>1, <2>2 DEF Ours, Marked
  <2>4. ASSUME upsert[c].alone
        PROVE  \E m \in Id : /\ comments'[m] = c /\ m \notin upsert'[c].found
                             /\ Ours' = upsert'[c].found \cup {m}
    <3>1. PICK m \in Id : comments[m] = c /\ m \notin upsert[c].found /\ Ours = upsert[c].found \cup {m}
      BY <2>2, <2>4 DEF AloneInv, Healing, Ended
    <3>2. m # i /\ comments'[m] = c
      BY <2>1, <3>1
    <3> QED
      BY <2>2, <2>3, <3>1, <3>2
  <2>5. upsert'[c].found \subseteq Ours' \/ ~upsert[c].alone
    BY <2>2, <2>4
  <2> QED
    BY <1>2, <2>2, <2>4, <2>5 DEF Ended, Healed
<1>7. ASSUME NEW c \in Caller, Return(c) PROVE AloneInv' /\ \A d \in Caller : Healed(d)
  <2>1. /\ upsert[c].pc = "delete" /\ upsert[c].found = {} /\ UNCHANGED comments
        /\ upsert'[c].pc = "ended" /\ Only(c)
    BY <1>7 DEF Return, Quiet
  <2>2. ASSUME upsert[c].alone
        PROVE  \E m \in Id : comments'[m] = c /\ \A j \in Id : comments'[j] \in Caller => j = m
    <3>1. PICK m \in Id : comments[m] = c /\ Ours = {m}
      BY <2>1, <2>2 DEF AloneInv, Healing, Ended
    <3> QED
      BY <2>1, <3>1 DEF Ours, Marked
  <2> QED
    BY <1>2, <2>1, <2>2 DEF Ended, Healed
<1>8. ASSUME NEW c \in Caller, Gone(c) \/ Fail(c) PROVE AloneInv' /\ \A d \in Caller : Healed(d)
  <2>1. ~Ended(c) /\ upsert'[c].pc = "raised" /\ Only(c)
    BY <1>8 DEF Gone, Fail, Raise, Quiet, Ended
  <2> QED
    BY <1>2, <2>1 DEF Ended, Healed
<1>9. CASE Remark
  <2>1. PICK i \in Id : NewId(i) /\ comments' = [comments EXCEPT ![i] = "foreign"]
    BY <1>9 DEF Remark
  <2>2. UNCHANGED upsert
    BY <1>9 DEF Remark
  <2>3. Ours' = Ours /\ i \notin Ours
    BY <2>1 DEF Ours, Marked, NewId
  <2>4. \A j \in Ours : Position(j)' = Position(j)
    <3>1. \A j \in Ours : j \in Id \ {i} /\ Visible(j)
      BY <2>3 DEF Ours, Visible
    <3> QED
      BY <2>1, <3>1, NewIsLast
  <2>5. \A c \in Caller : Read(c)' = Read(c)
    <3> SUFFICES ASSUME NEW c \in Caller PROVE Read(c)' = Read(c)
      OBVIOUS
    <3>1. Read(c)' = {j \in Ours : Position(j)' < (upsert[c].page - 1) * PerPage}
      BY <2>2, <2>3 DEF Read
    <3> QED
      BY <2>4, <3>1 DEF Read
  <2>6. \A c \in Caller : Healed(c)
    BY <2>2 DEF Healed, Ended
  <2>7. ASSUME NEW c \in Caller, ~Ended(c)', upsert'[c].alone PROVE Healing(c)'
    <3>1. Healing(c) /\ \A d \in Caller : Ended(d)' = Ended(d)
      BY <2>2, <2>7 DEF AloneInv, Ended
    <3>2. \A m \in Id : comments[m] = c => comments'[m] = c
      BY <2>1 DEF NewId
    <3> QED
      BY <2>2, <2>3, <2>5, <3>1, <3>2 DEF Healing
  <2> QED
    BY <2>6, <2>7 DEF AloneInv
<1>10. CASE Remove
  <2>1. \A c \in Caller : ~upsert'[c].alone /\ upsert'[c].pc = upsert[c].pc
    BY <1>10 DEF Remove
  <2> QED
    BY <2>1 DEF AloneInv, Healed, Ended
<1>11. CASE UNCHANGED upsertVars
  <2>1. UNCHANGED <<comments, upsert>>
    BY <1>11 DEF upsertVars
  <2>2. /\ Ours' = Ours
        /\ \A c \in Caller : Read(c)' = Read(c) /\ Ended(c)' = Ended(c)
    BY <2>1 DEF Ours, Read, Position, Visible, Marked, Ended
  <2>3. \A c \in Caller : Healing(c) => Healing(c)'
    BY <2>1, <2>2 DEF Healing
  <2> QED
    BY <2>1, <2>2, <2>3 DEF AloneInv, Healed, Ended
<1> QED
  BY <1>1, <1>3, <1>4, <1>5, <1>6, <1>7, <1>8, <1>9, <1>10, <1>11 DEF UpsertStep, Request

LEMMA HealInvariant == Spec => []HealInv
<1>1. Init => HealInv
  <2>1. Init => PageInv /\ \A c \in Caller : Ended(c)
    BY UpsertAssumption DEF Init, UpsertInit, PageInv, Quiet, Ended
  <2> QED
    BY <2>1, SilenceInvInit DEF HealInv, AloneInv
<1>2. HealInv /\ [Next]_vars => HealInv'
  BY SilenceInvStep, PageInvStep, AloneInvStep DEF HealInv
<1> QED
  BY <1>1, <1>2, PTL DEF Spec

(***************************************************************************)
(* For any number of callers and comments and any page size: a call that   *)
(* nobody disturbs and that ends normally leaves one comment with the      *)
(* marker, its own, however many it found (github_client.py:166-186).      *)
(***************************************************************************)
THEOREM DuplicatesHeal == Spec => HealsToOne
<1>1. HealInv /\ [Next]_vars => [\A c \in Caller : Healed(c)]_upsertVars
  BY AloneInvStep
<1> QED
  BY <1>1, HealInvariant, PTL DEF Spec, HealsToOne, Healed

(***************************************************************************)
(* Cache, attempts, comments and calls keep their types; a listing never   *)
(* asks for a page beyond the one after the last comment.                  *)
(***************************************************************************)
THEOREM TypeCorrect == Spec => []TypeOK
<1>1. TokenInv /\ HealInv => TypeOK
  BY UpsertAssumption DEF TokenInv, TypeOK, UpsertTypeOK, HealInv, SilenceInv, UpsertInv, UpsertCall, PageInv
<1> QED
  BY <1>1, TokenInvInit, TokenInvStep, HealInvariant, PTL DEF Spec
=============================================================================
