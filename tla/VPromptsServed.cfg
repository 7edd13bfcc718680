CONSTANT Keywords <- MCKeywords
CONSTANT hash_keyword <- MCHash
CONSTANT Templates <- MCTemplates
CONSTANT Inputs <- PromptInputs
SPECIFICATION Spec
INVARIANT PromptsServed
CHECK_DEADLOCK FALSE
