CONSTANT Keywords <- MCKeywords
CONSTANT hash_keyword <- MCHash
CONSTANT Templates <- MCTemplates
CONSTANT Inputs <- MCInputs
SPECIFICATION Spec
INVARIANT DecisionIsFirstBest
INVARIANT OwnVocabulary
INVARIANT PromptsMatched
CHECK_DEADLOCK FALSE
