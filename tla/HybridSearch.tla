----------------------------- MODULE HybridSearch -----------------------------
(***************************************************************************)
(* How one query ranks the live chunks of an address                       *)
(* (store/embeddings.py: hybrid_search): the nearest vectors and the best  *)
(* full-text matches, each cut off at 4 k, fused by reciprocal rank.       *)
(*                                                                         *)
(* byVector and byText are the complete rankings, best first; ties in a    *)
(* distance or a text rank are broken already.  A chunk that the active    *)
(* model has not embedded is missing from byVector, one without the words  *)
(* of the query from byText.                                               *)
(***************************************************************************)
EXTENDS Integers, FiniteSets, SequencesExt

CONSTANTS
    Rankings,    \* the pairs <<byVector, byText>>
    Limits,      \* the values of k
    RrfK         \* rrf_k

\* One row per chunk: chunk_id is the key of both tables.
Ranking(s) == s \in Seq(ToSet(s)) /\ IsInjective(s)

ASSUME SearchAssumption ==
    /\ \A ranking \in Rankings : Ranking(ranking[1]) /\ Ranking(ranking[2])
    /\ Limits \subseteq Nat \ {0}
    /\ RrfK \in Nat \ {0}

VARIABLES
    byVector,
    byText,
    k,
    answered,    \* the statement has been executed
    answer       \* the ranked rows

searchVars == <<byVector, byText, k, answered, answer>>

SearchInit ==
    /\ \E ranking \in Rankings : byVector = ranking[1] /\ byText = ranking[2]
    /\ k \in Limits
    /\ answered = FALSE
    /\ answer = <<>>

-----------------------------------------------------------------------------

\* LIMIT rrf_limit
Cut(s) == SubSeq(s, 1, IF Len(s) <= 4 * k THEN Len(s) ELSE 4 * k)

\* The row number in a ranking, 0 if it is not there.
Rank(s, c) == IF c \in ToSet(Cut(s)) THEN CHOOSE i \in 1..Len(s) : s[i] = c ELSE 0

\* Mutant of Fused: an inner join.
FusedInner == ToSet(Cut(byVector)) \cap ToSet(Cut(byText))

\* vec FULL OUTER JOIN fts
Fused == ToSet(Cut(byVector)) \cup ToSet(Cut(byText))

\* Mutant of Score: the ranks are added up, a missing one counting nothing.
ScoreByRank(c) == [num |-> 1, den |-> RrfK + Rank(byVector, c) + Rank(byText, c)]

\* 1 / (rank + rrf_k) of both rankings, 0 for the one c is missing from, as a
\* fraction.
Score(c) ==
    LET v == Rank(byVector, c)
        f == Rank(byText, c)
    IN  [num |-> (IF v = 0 THEN 0 ELSE f + RrfK) + (IF f = 0 THEN 0 ELSE v + RrfK),
         den |-> (v + RrfK) * (f + RrfK)]

Outscores(c, d) == Score(c).num * Score(d).den > Score(d).num * Score(c).den

AnswerLen == IF Cardinality(Fused) <= k THEN Cardinality(Fused) ELSE k

\* ORDER BY score DESC LIMIT k; equal scores come in any order.
Search ==
    /\ ~answered
    /\ answered' = TRUE
    /\ \E rows \in [1..AnswerLen -> Fused] :
          /\ \A i, j \in 1..AnswerLen : i < j => rows[i] # rows[j] /\ ~Outscores(rows[j], rows[i])
          /\ \A d \in Fused \ {rows[i] : i \in 1..AnswerLen} :
                \A i \in 1..AnswerLen : ~Outscores(d, rows[i])
          /\ answer' = rows
    /\ UNCHANGED <<byVector, byText, k>>

SearchSpec == SearchInit /\ [][Search]_searchVars

-----------------------------------------------------------------------------
(* Properties. *)

\* c comes before d in s, or d is missing.
Ahead(s, c, d) ==
    \E i \in 1..Len(s) : s[i] = c /\ \A j \in 1..i : s[j] # d

NotBehind(s, c, d) == Ahead(s, c, d) \/ {c, d} \cap ToSet(s) = {}

\* A chunk that one ranking prefers and the other does not rank lower is never
\* left out for the lesser one, nor ranked after it: cutting both rankings off
\* before they are fused does not turn the order of two chunks around.
BetterStaysAhead ==
    answered =>
        \A c \in ToSet(byVector) \cup ToSet(byText), d \in ToSet(answer) :
            (/\ Ahead(byVector, c, d) \/ Ahead(byText, c, d)
             /\ NotBehind(byVector, c, d) /\ NotBehind(byText, c, d))
            => Ahead(answer, c, d)

\* "included via LEFT JOIN rather than dropped" (store/embeddings.py:90): the
\* answer has k chunks if either ranking or both together have them, all of
\* them otherwise; and it is the vector ranking when no words match.
AnswerIsFull ==
    answered =>
        LET all == ToSet(byVector) \cup ToSet(byText) IN
        /\ ToSet(answer) \subseteq all
        /\ Cardinality(ToSet(answer)) = IF Cardinality(all) <= k THEN Cardinality(all) ELSE k
        /\ byText = <<>> => answer = SubSeq(byVector, 1, Len(answer))

=============================================================================
