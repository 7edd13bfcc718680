------------------------------ MODULE Inference ------------------------------
(***************************************************************************)
(* generate_tool_calls of cagent-test/simple_llm_server.c: which command a *)
(* text is answered with.  A few phrases select a command directly; for    *)
(* the rest the keywords the text contains are counted in 32 buckets by a  *)
(* hash, and a loop keeps the template with the highest score.  The words, *)
(* the hash and the templates are parameters, which ServerWords gives.     *)
(*                                                                         *)
(* The code divides the counts by their Euclidean norm and compares with   *)
(* 0.3; the model keeps integers (weights times 10) and compares squares.  *)
(***************************************************************************)
EXTENDS Integers, Sequences, FiniteSets, FiniteSetsExt

CONSTANTS
  Keywords,      \* keywords of extract_features
  hash_keyword,  \* the bucket of each
  Templates,     \* a name and weighted words each, in the order of the code
  Inputs         \* what is asked: records of words and direct

\* The hash is taken modulo 32.
Buckets == 0 .. 31

ASSUME InferenceAssumption ==
  /\ IsFiniteSet(Keywords)
  /\ hash_keyword \in [Keywords -> Buckets]
  /\ Templates \in Seq([name : STRING, words : Seq([word : Keywords, weight : Nat])])
  /\ Inputs \subseteq [words : SUBSET Keywords, direct : STRING]

VARIABLES
  input,        \* the text being answered
  i,            \* index of the template to score next
  best_score,   \* highest score so far, times 10 and times the norm
  best_idx,     \* its template, 0 for the code's -1
  answer        \* the command's name, "none" for no tool call, "" while undecided

vars == <<input, i, best_score, best_idx, answer>>

-----------------------------------------------------------------------------
\* Counts before the division by the norm.
Features(words) == [b \in Buckets |-> Cardinality({w \in words : hash_keyword[w] = b})]

\* A later assignment to the same bucket replaces an earlier one.
Weights ==
  [t \in 1 .. Len(Templates) |-> [b \in Buckets |->
     LET ws == Templates[t].words
         ns == {n \in 1 .. Len(ws) : hash_keyword[ws[n].word] = b}
     IN  IF ns = {} THEN 0 ELSE ws[Max(ns)].weight]]

Dot(f, g) == SumFunction([b \in Buckets |-> f[b] * g[b]])

Score(words, t) == Dot(Features(words), Weights[t])

\* Mutation: the threshold compared with the weights' scale, 3.0 for 0.3.
ActivatedTenfold(words, score) ==
  score > 0 /\ score * score > 900 * Dot(Features(words), Features(words))

\* score > 0.3 with the norm multiplied out: dot / 10 / norm > 3 / 10.
Activated(words, score) == score > 0 /\ score * score > 9 * Dot(Features(words), Features(words))

Init ==
  /\ input \in Inputs
  /\ i = 1
  /\ best_score = -1
  /\ best_idx = 0
  /\ answer = ""

Direct ==
  /\ answer = ""
  /\ input.direct # "none"
  /\ answer' = input.direct
  /\ UNCHANGED <<input, i, best_score, best_idx>>

\* Mutation: >= for >, the last of equal templates wins.
ScoreTemplateLast ==
  /\ answer = ""
  /\ input.direct = "none"
  /\ i <= Len(Templates)
  /\ LET score == Score(input.words, i)
     IN  IF score >= best_score
         THEN best_score' = score /\ best_idx' = i
         ELSE UNCHANGED <<best_score, best_idx>>
  /\ i' = i + 1
  /\ UNCHANGED <<input, answer>>

ScoreTemplate ==
  /\ answer = ""
  /\ input.direct = "none"
  /\ i <= Len(Templates)
  /\ LET score == Score(input.words, i)
     IN  IF score > best_score
         THEN best_score' = score /\ best_idx' = i
         ELSE UNCHANGED <<best_score, best_idx>>
  /\ i' = i + 1
  /\ UNCHANGED <<input, answer>>

Decide ==
  /\ answer = ""
  /\ input.direct = "none"
  /\ i > Len(Templates)
  /\ answer' = IF best_idx > 0 /\ Activated(input.words, best_score)
               THEN Templates[best_idx].name ELSE "none"
  /\ UNCHANGED <<input, i, best_score, best_idx>>

Next == Direct \/ ScoreTemplate \/ Decide

Spec == Init /\ [][Next]_vars

-----------------------------------------------------------------------------
\* The reference: how well a template fits a text, word by word, when a word
\* counts for every word of its bucket; the first template with the best fit
\* answers if it fits more than 0.3 (the loop and the threshold).
Fit(words, t) == SumFunction([w \in words |-> Weights[t][hash_keyword[w]]])
Norm2(words) == Cardinality({p \in words \X words : hash_keyword[p[1]] = hash_keyword[p[2]]})
FirstBest(words) ==
  {t \in 1 .. Len(Templates) :
     /\ \A u \in 1 .. Len(Templates) : Fit(words, u) <= Fit(words, t)
     /\ \A u \in 1 .. t - 1 : Fit(words, u) < Fit(words, t)
     /\ Fit(words, t) * Fit(words, t) > 9 * Norm2(words)}

\* The loop over templates, with its running maximum and its threshold on the
\* normalised score, answers with the first best template and no other.
DecisionIsFirstBest ==
  answer # "" /\ input.direct = "none" =>
    IF FirstBest(input.words) = {} THEN answer = "none"
    ELSE \A t \in FirstBest(input.words) : answer = Templates[t].name
=============================================================================
