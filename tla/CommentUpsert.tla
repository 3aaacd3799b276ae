--------------------------- MODULE CommentUpsert ---------------------------
(***************************************************************************)
(* upsert_comment (github_client.py): list the comments of a pull request  *)
(* page by page, PATCH the first that carries the marker, or POST one, and *)
(* DELETE the others.  Several processes run it for one marker: workers    *)
(* that report a failure, the sweeper that dead-letters or escalates, the  *)
(* planners and reviewers of a large review.  Nothing locks the comments,  *)
(* and their authors may delete them, which shifts the pages.              *)
(***************************************************************************)
EXTENDS Integers, FiniteSets

CONSTANTS Caller,    \* threads that upsert the comment of one marker
          PerPage,   \* comments on a full page: 100
          MaxId,     \* bound: comments ever written
          MaxFaults  \* bound: requests that fail

ASSUME UpsertAssumption ==
    /\ Caller \cap {"unused", "foreign", "removed", "deleted"} = {}
    /\ PerPage \in Nat \ {0} /\ MaxId \in Nat /\ MaxFaults \in Nat

Id == 1..MaxId

VARIABLES
    comments,  \* what became of every comment id; a marked one is its body's author
    upsert,    \* the call of each thread: next request, page, matches still to treat
    first,     \* history: the first comment with the marker, 0 before
    faults     \* failed requests so far

upsertVars == <<comments, upsert, first, faults>>

Marked(i) == comments[i] \in Caller
Visible(i) == Marked(i) \/ comments[i] = "foreign"
Ended(c) == upsert[c].pc \in {"ended", "raised"}
Quiet(pc) == [pc |-> pc, page |-> 1, found |-> {}, alone |-> FALSE]

UpsertTypeOK ==
    /\ comments \in [Id -> Caller \cup {"unused", "foreign", "removed", "deleted"}]
    /\ upsert \in [Caller -> [pc : {"ended", "raised", "list", "post", "patch", "delete"},
                              page : 1..(MaxId + 1), found : SUBSET Id, alone : BOOLEAN]]
    /\ first \in Id \cup {0}
    /\ faults \in 0..MaxFaults

UpsertInit ==
    /\ comments = [i \in Id |-> "unused"]
    /\ upsert = [c \in Caller |-> Quiet("ended")]
    /\ first = 0
    /\ faults = 0

\* GitHub gives out increasing ids and lists the comments in their order.
NewId(i) == comments[i] = "unused" /\ \A j \in Id : j < i => comments[j] # "unused"
Position(i) == Cardinality({j \in Id : j < i /\ Visible(j)})
OnPage(page) == {i \in Id : Visible(i) /\ Position(i) \in (page - 1) * PerPage .. page * PerPage - 1}
LastPageOverfull(page) == Cardinality(OnPage(page)) > PerPage   \* mutant: inverted
LastPageAlways(page) == TRUE   \* mutant: no pagination
LastPage(page) == Cardinality(OnPage(page)) < PerPage

-----------------------------------------------------------------------------
Call(c) ==
    LET others == {d \in Caller : ~Ended(d)} IN
    /\ Ended(c)
    /\ upsert' = [d \in Caller |->
                    IF d = c THEN [Quiet("list") EXCEPT !.alone = (others = {})]
                             ELSE [upsert[d] EXCEPT !.alone = FALSE]]
    /\ UNCHANGED <<comments, first, faults>>

\* _matching_comments: one page, and the decision when it was the last.
List(c) ==
    LET found == upsert[c].found \cup {i \in OnPage(upsert[c].page) : Marked(i)} IN
    /\ upsert[c].pc = "list"
    /\ \/ /\ ~LastPage(upsert[c].page)
          /\ upsert' = [upsert EXCEPT ![c].found = found, ![c].page = @ + 1]
       \/ /\ LastPage(upsert[c].page)
          /\ upsert' = [upsert EXCEPT ![c].found = found,
                                      ![c].pc = IF found = {} THEN "post" ELSE "patch"]
    /\ UNCHANGED <<comments, first, faults>>

Post(c) ==
    /\ upsert[c].pc = "post"
    /\ \E i \in Id :
         /\ NewId(i)
         /\ comments' = [comments EXCEPT ![i] = c]
         /\ first' = IF first = 0 THEN i ELSE first
    /\ upsert' = [upsert EXCEPT ![c] = Quiet("ended")]
    /\ UNCHANGED faults

\* What is left to delete once the comment m is kept.
KeepsNone(found, m) == found   \* mutant: matches, not matches[1:]
Extras(found, m) == found \ {m}

Patch(c) ==
    /\ upsert[c].pc = "patch"
    /\ \E m \in upsert[c].found :
         /\ \A i \in upsert[c].found : m <= i
         /\ Marked(m)
         /\ comments' = [comments EXCEPT ![m] = c]
         /\ upsert' = [upsert EXCEPT ![c].pc = "delete", ![c].found = Extras(@, m)]
    /\ UNCHANGED <<first, faults>>

Delete(c) ==
    /\ upsert[c].pc = "delete"
    /\ \E i \in upsert[c].found :
         /\ \A j \in upsert[c].found : i <= j
         /\ Marked(i)
         /\ comments' = [comments EXCEPT ![i] = "deleted"]
         /\ upsert' = [upsert EXCEPT ![c].found = @ \ {i}]
    /\ UNCHANGED <<first, faults>>

\* The loop over matches[1:] is through.
Return(c) ==
    /\ upsert[c].pc = "delete" /\ upsert[c].found = {}
    /\ upsert' = [upsert EXCEPT ![c] = Quiet("ended")]
    /\ UNCHANGED <<comments, first, faults>>

\* An exception: the call ends where it was.
Raise(c) == upsert' = [upsert EXCEPT ![c] = Quiet("raised")]

\* The comment to change is no longer there: urllib raises for 404.
Gone(c) ==
    /\ upsert[c].pc \in {"patch", "delete"}
    /\ \E m \in upsert[c].found :
         /\ \A i \in upsert[c].found : m <= i
         /\ ~Marked(m)
    /\ Raise(c)
    /\ UNCHANGED <<comments, first, faults>>

\* Any other failure of a request: limit, outage, no token.
Fail(c) ==
    /\ ~Ended(c)
    /\ faults < MaxFaults
    /\ faults' = faults + 1
    /\ Raise(c)
    /\ UNCHANGED <<comments, first>>

\* Other people comment, and delete their comments.
Remark ==
    /\ \E i \in Id : NewId(i) /\ comments' = [comments EXCEPT ![i] = "foreign"]
    /\ UNCHANGED <<upsert, first, faults>>

Remove ==
    /\ \E i \in Id : comments[i] = "foreign" /\ comments' = [comments EXCEPT ![i] = "removed"]
    /\ upsert' = [c \in Caller |-> [upsert[c] EXCEPT !.alone = FALSE]]
    /\ UNCHANGED <<first, faults>>

Request(c) == List(c) \/ Post(c) \/ Patch(c) \/ Delete(c) \/ Gone(c)

-----------------------------------------------------------------------------
(***************************************************************************)
(* К-1: once a comment with the marker has been posted, one is there for   *)
(* ever: however calls overlap, miss comments of shifted pages or break    *)
(* off, they never delete each other's last comment (github_client.py:166).*)
(***************************************************************************)
NeverSilenced == first # 0 => \E i \in Id : Marked(i)

(***************************************************************************)
(* "Self-heal" (github_client.py:166, 182): a call that no other call and  *)
(* no deletion overlaps, and that ends normally, leaves exactly one        *)
(* comment with the marker, and it says what that call had to say.         *)
(***************************************************************************)
HealsToOne ==
    [][\A c \in Caller :
         ~Ended(c) /\ upsert[c].alone /\ upsert'[c].pc = "ended"
           => \E i \in Id : comments'[i] = c /\ \A j \in Id : comments'[j] \in Caller => j = i
      ]_upsertVars
=============================================================================
