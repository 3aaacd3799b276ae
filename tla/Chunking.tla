------------------------------ MODULE Chunking ------------------------------
(***************************************************************************)
(* The plan of a large review: reliability/sizing.py weighs the diff,      *)
(* mapreduce.route() decides between one pass and many, and                *)
(* chunking.plan_chunks() packs the changed files, most important first,   *)
(* into chunks under the token budgets.  One action is one round of its    *)
(* loop.  A path is a number, in the alphabetical order of the paths; the  *)
(* patterns of is_excluded() and file_priority() are its kind.             *)
(***************************************************************************)
EXTENDS Naturals, FiniteSets, SequencesExt

CONSTANTS Path,              \* paths a pull request may change: numbers
          Lines,             \* changed lines of a file
          ChunkBudget,       \* RELIABILITY_CHUNK_BUDGET_TOKENS
          TotalBudgets,      \* values of RELIABILITY_TOTAL_BUDGET_TOKENS; 0 is no limit
          TokensPerLine, TokensPerFile

ASSUME ChunkingAssumption ==
    /\ Path \subseteq Nat /\ IsFiniteSet(Path)
    /\ Lines \subseteq Nat
    /\ ChunkBudget \in Nat
    /\ TotalBudgets \subseteq Nat
    /\ TokensPerLine \in Nat /\ TokensPerFile \in Nat

VARIABLES
    diff,      \* the changed files: path -> kind and changed lines
    total,     \* total_budget_tokens
    phase,     \* "route", "pack", and "single" or "planned" at the end
    todo,      \* the reviewable files still to be packed, in order
    current,   \* cur: the files of the chunk being filled
    chunks,    \* plan.chunks
    overflow   \* plan.overflow_skipped

vars == <<diff, total, phase, todo, current, chunks, overflow>>

\* Priority, most important first; "generated" is what is_excluded() finds.
Priority == <<"core", "tests", "config", "docs">>
Kind == {Priority[i] : i \in DOMAIN Priority} \cup {"generated"}
Rank(f) == CHOOSE i \in DOMAIN Priority : Priority[i] = diff[f].kind
Changed == DOMAIN diff
Excluded == {f \in Changed : diff[f].kind = "generated"}
Reviewable == Changed \ Excluded

\* estimate_tokens(), and the weight of a set of files.
Tokens(f) == diff[f].lines * TokensPerLine + TokensPerFile
Size == [f \in Changed |-> Tokens(f)]
Weight(S) == SumFunctionOnSet(Size, S)

\* The key of the sort: priority, then larger first, then path.
Before(f, g) ==
    \/ Rank(f) < Rank(g)
    \/ Rank(f) = Rank(g) /\ diff[f].lines > diff[g].lines
    \/ Rank(f) = Rank(g) /\ diff[f].lines = diff[g].lines /\ f < g
Sorted(S) == CHOOSE s \in SetToSeqs(S) : \A i, j \in DOMAIN s : i < j => Before(s[i], s[j])

Init == /\ diff \in UNION {[S -> [kind : Kind, lines : Lines]] : S \in SUBSET Path}
        /\ total \in TotalBudgets
        /\ phase = "route"
        /\ todo = <<>> /\ current = <<>> /\ chunks = <<>> /\ overflow = {}

\* classify(): the whole diff, generated files included, against one chunk.
Large == Weight(Changed) > ChunkBudget
Route ==
    /\ phase = "route"
    /\ IF Large
       THEN phase' = "pack" /\ todo' = Sorted(Reviewable)
       ELSE phase' = "single" /\ UNCHANGED todo
    /\ UNCHANGED <<diff, total, current, chunks, overflow>>

Files(c) == ToSet(c)
FilesOf(cs) == UNION {Files(cs[i].files) : i \in DOMAIN cs}
Packed == FilesOf(chunks) \cup Files(current)
Chunk(files, oversized) == [files |-> files, oversized |-> oversized]
FlushedBlank == Append(chunks, Chunk(current, FALSE))   \* mutant: `if cur` is missing
\* flush(): the chunk being filled, if any, is closed.
Flushed == IF current = <<>> THEN chunks ELSE Append(chunks, Chunk(current, FALSE))

File == Head(todo)
\* Mutant: only the chunks already closed count as spent.
OverBudgetClosed(f) ==
    LET spent == FilesOf(chunks) IN total # 0 /\ Weight(spent) + Tokens(f) > total /\ spent # {}
\* total_budget_tokens spares the first file only.
OverBudget(f) == total # 0 /\ Weight(Packed) + Tokens(f) > total /\ Packed # {}
Oversized(f) == Tokens(f) > ChunkBudget
FitsWithoutOverhead(f) ==   \* mutant: the tokens of the file itself are left out
    Weight(Files(current)) <= ChunkBudget
Fits(f) == Weight(Files(current)) + Tokens(f) <= ChunkBudget

NextFile == /\ phase = "pack"
            /\ todo # <<>>
            /\ todo' = Tail(todo)
            /\ UNCHANGED <<diff, total, phase>>

Skip == /\ NextFile
        /\ OverBudget(File)
        /\ overflow' = overflow \cup {File}
        /\ UNCHANGED <<current, chunks>>

AloneUnflushed == Append(chunks, Chunk(<<File>>, TRUE))   \* mutant: flush() is forgotten
Alone == Append(Flushed, Chunk(<<File>>, TRUE))
PackAlone == /\ NextFile
             /\ ~OverBudget(File) /\ Oversized(File)
             /\ chunks' = Alone
             /\ current' = <<>>
             /\ UNCHANGED overflow

Pack == /\ NextFile
        /\ ~OverBudget(File) /\ ~Oversized(File)
        /\ \/ /\ Fits(File)
              /\ current' = Append(current, File)
              /\ UNCHANGED chunks
           \/ /\ ~Fits(File)
              /\ current' = <<File>>
              /\ chunks' = Flushed
        /\ UNCHANGED overflow

\* The last flush; a plan without chunks falls back to the single pass.
Finish == /\ phase = "pack" /\ todo = <<>>
          /\ chunks' = Flushed
          /\ current' = <<>>
          /\ phase' = IF Flushed = <<>> THEN "single" ELSE "planned"
          /\ UNCHANGED <<diff, total, todo, overflow>>

Next == Route \/ Skip \/ PackAlone \/ Pack \/ Finish

Spec == Init /\ [][Next]_vars

-----------------------------------------------------------------------------
\* No chunk of a plan is empty: each one is a call of the model.
NonEmpty == Seq(Changed) \ {<<>>}
\* Phases, plan and lists are well typed and no chunk is empty: each one is a paid call
\* of the model (flush(), chunking.py:99-105).
TypeOK ==
    /\ phase \in {"route", "pack", "single", "planned"}
    /\ todo \in Seq(Changed) /\ current \in Seq(Changed)
    /\ chunks \in Seq([files : NonEmpty, oversized : BOOLEAN])
    /\ overflow \subseteq Changed

(***************************************************************************)
(* НФТ-APRP-6: a plan loses no file.  Each reviewable file of the diff is  *)
(* in one chunk, once, or listed as overflow, and a generated one in none. *)
(***************************************************************************)
InOneChunkOnce(cs) ==
    \A i, k \in DOMAIN cs : \A j \in DOMAIN cs[i].files, l \in DOMAIN cs[k].files :
      cs[i].files[j] = cs[k].files[l] => i = k /\ j = l
EveryFileAccounted ==
    phase = "planned" =>
      /\ InOneChunkOnce(chunks)
      /\ FilesOf(chunks) \cap overflow = {}
      /\ FilesOf(chunks) \cup overflow = Reviewable

(***************************************************************************)
(* ФТ-APRP-7: a chunk fits one call of the model, unless it is a single    *)
(* file that does not (chunking.py:7).                                     *)
(***************************************************************************)
ChunksFit ==
    \A i \in DOMAIN chunks :
      LET c == chunks[i] IN
      IF c.oversized THEN Len(c.files) = 1 ELSE Weight(Files(c.files)) <= ChunkBudget

\* What the plan spends stays within the total budget, the first file aside.
BudgetKept == total # 0 => Weight(Packed) <= total \/ Cardinality(Packed) = 1
=============================================================================
