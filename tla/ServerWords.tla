----------------------------- MODULE ServerWords -----------------------------
(***************************************************************************)
(* The tables and the strings of cagent-test/simple_llm_server.c that the  *)
(* classifier of Inference works with: keywords and their hash, templates, *)
(* the phrases that bypass it, and strcasestr.                             *)
(***************************************************************************)
EXTENDS Integers, Sequences, FiniteSets
LOCAL INSTANCE SequencesExt
LOCAL INSTANCE FiniteSetsExt

ServerKeywords ==
  { "factorial", "calculate", "math", "number", "date", "time", "ago", "day", "week",
    "connection", "network", "port", "tcp", "established", "listening",
    "cpu", "core", "memory", "disk", "percentage", "uptime", "running", "system",
    "kernel", "version", "user", "username", "process", "file", "hidden" }

\* The templates' weights, times 10, in the order they are assigned.
W(word, weight) == [word |-> word, weight |-> weight]
ServerTemplates ==
  << [name |-> "factorial", words |-> <<W("factorial", 20), W("calculate", 15), W("number", 8)>>],
     [name |-> "date", words |-> <<W("ago", 20), W("day", 18), W("date", 15)>>],
     [name |-> "network", words |-> <<W("established", 25), W("connection", 20), W("tcp", 15)>>],
     [name |-> "cpu", words |-> <<W("cpu", 25), W("core", 20)>>],
     [name |-> "disk", words |-> <<W("disk", 20), W("percentage", 18)>>],
     [name |-> "uptime", words |-> <<W("uptime", 25), W("running", 20)>>],
     [name |-> "username", words |-> <<W("username", 25), W("user", 20)>>],
     [name |-> "ports", words |-> <<W("listening", 25), W("port", 20)>>],
     [name |-> "kernel", words |-> <<W("kernel", 25), W("version", 20)>>] >>

-----------------------------------------------------------------------------
(* Strings, for the hash and for strcasestr. *)

Lower == "abcdefghijklmnopqrstuvwxyz"
Upper == "ABCDEFGHIJKLMNOPQRSTUVWXYZ"
CharAt(s, n) == SubSeq(s, n, n)
Index(alphabet, c) == {n \in 1 .. 26 : CharAt(alphabet, n) = c}
Folded(c) == IF Index(Upper, c) = {} THEN c ELSE CharAt(Lower, Max(Index(Upper, c)))

\* strcasestr(text, word) # NULL
Strcasestr(text, word) ==
  \E n \in 0 .. Len(text) - Len(word) :
    \A k \in 1 .. Len(word) : Folded(CharAt(text, n + k)) = Folded(CharAt(word, k))

\* Mutation: a shift for the product, only the last letter is left of the hash.
HashCharShift(hash, n) == (hash * 32 + n) % 32

\* unsigned int arithmetic modulo 2^32, of which only the remainder by 32, a
\* divisor, is used.  Keywords are lower case: 'a' is 97.
HashChar(hash, n) == (hash * 31 + n) % 32
Codes(word) == [k \in 1 .. Len(word) |-> 96 + Max(Index(Lower, CharAt(word, k)))]
ServerHash == [word \in ServerKeywords |-> FoldLeft(HashChar, 0, Codes(word))]

\* The filesystem phrases that bypass the classifier, in the code's order.
Phrases ==
  << [all |-> {"test_file.txt", "Hello OS"}, command |-> "write file"],
     [all |-> {"test_input.txt"}, command |-> "sum file"],
     [all |-> {"test_dir"}, command |-> "make dir"],
     [all |-> {".sh files"}, command |-> "find sh"] >>

DirectCommand(text) ==
  LET hits == {n \in 1 .. Len(Phrases) : \A p \in Phrases[n].all : Strcasestr(text, p)}
  IN  IF hits = {} THEN "none" ELSE Phrases[Min(hits)].command

Asked(text) ==
  [words |-> {w \in ServerKeywords : Strcasestr(text, w)}, direct |-> DirectCommand(text)]
=============================================================================
