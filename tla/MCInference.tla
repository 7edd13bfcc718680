----------------------------- MODULE MCInference -----------------------------
(***************************************************************************)
(* Inference on every text of at most three keywords, and on the prompts   *)
(* of scripts/cagent_testcode.sh.                                          *)
(***************************************************************************)
EXTENDS Inference, ServerWords

\* Constants of their own, so that TLC computes the tables once.
MCKeywords == ServerKeywords
MCTemplates == ServerTemplates
MCHash == ServerHash

\* Each prompt of the script with the command its test is about.
Script ==
  [ factorial |-> [prompt |-> "Calculate factorial of 10 using bash", command |-> "factorial"],
    date |-> [prompt |-> "What day was it 100 days ago?", command |-> "date"],
    network |-> [prompt |-> "Count ESTABLISHED TCP connections", command |-> "network"],
    cpu |-> [prompt |-> "How many CPU cores?", command |-> "cpu"],
    kernel |-> [prompt |-> "What is the kernel version?", command |-> "kernel"],
    create |-> [prompt |-> "Create a file named test_file.txt with content 'Hello OS'",
                command |-> "write file"],
    readwrite |-> [prompt |-> "Create test_input.txt with numbers 1 to 5, then read it and sum the numbers",
                   command |-> "sum file"],
    directory |-> [prompt |-> "Create directory test_dir, create 3 files inside it, then count the files",
                   command |-> "make dir"],
    search |-> [prompt |-> "Find all .sh files in current directory and count them",
                command |-> "find sh"],
    usage |-> [prompt |-> "Check disk usage of current directory in human readable format",
               command |-> "disk"] ]

Prompts == [t \in DOMAIN Script |-> Asked(Script[t].prompt)]
PromptInputs == {Prompts[t] : t \in DOMAIN Script}

\* The words of a template, and a set of words with the keywords inside them.
Vocabulary(t) == {Templates[t].words[n].word : n \in 1 .. Len(Templates[t].words)}
Inside == [w \in ServerKeywords |-> {k \in ServerKeywords : Strcasestr(w, k)}]
Closed(words) == UNION {Inside[w] : w \in words}

\* Keyword texts: a keyword inside another one comes with it.
Words == {Closed({w}) : w \in ServerKeywords}
KeywordInputs ==
  { [words |-> ws, direct |-> "none"] : ws \in {a \cup b \cup c : a, b, c \in Words} }

MCInputs == PromptInputs \cup KeywordInputs

\* A text of exactly a template's own words is answered by that template, or by
\* one the hash has made equal to it (hash_keyword's collisions do not turn a
\* template away from its own vocabulary).
OwnVocabulary ==
  answer # "" /\ input.direct = "none" =>
    \A t \in 1 .. Len(Templates) : input.words = Closed(Vocabulary(t)) =>
      \E u \in 1 .. Len(Templates) : answer = Templates[u].name /\ Weights[u] = Weights[t]

\* Every prompt of the script is answered with a command, so that each of its
\* tests has its agent execute one (what CAgentTest takes for granted).
PromptsMatched == answer # "" /\ input \in PromptInputs => answer # "none"

\* Every prompt of the script is answered with the command its test is about
\* ("Test 10: Disk usage", "Template 5: Disk usage").
PromptsServed ==
  answer # "" => \A t \in DOMAIN Script : input = Prompts[t] => answer = Script[t].command
=============================================================================
