--------------------------- MODULE BuildStormJudge ---------------------------
(***************************************************************************)
(* judge/judge_buildstorm-glibc.py: the score of a serial log.             *)
(*                                                                         *)
(* A log is the sequence of the BUILDSTORM_ lines of one or more boots: a  *)
(* record of the boot that printed the line, the line's tag, its ok field, *)
(* its elapsed_s and whether its arch has a baseline.  The boot is not     *)
(* printed: the judge cannot use it.                                       *)
(***************************************************************************)
EXTENDS Integers, Sequences, FiniteSetsExt

CONSTANT Baseline       \* B, in the hundredths of a second of elapsed_s

ASSUME BaselineAssumption == Baseline \in Nat \ {0}

\* Points are counted in tenths, what round(..., 1) keeps of them.
TIME_PTS == 1200
SUCCESS_PTS == 400
ENV_PTS == [toolchain |-> 80, minibuild |-> 120]
EnvTags == DOMAIN ENV_PTS
Tags == EnvTags \cup {"compile"}

Clamp(low, x, high) == IF x < low THEN low ELSE IF x > high THEN high ELSE x

\* 120 * clamp((2 * B - t) / B, 0, 1), rounded to the nearest tenth.
time_score(t) ==
  (2 * TIME_PTS * Clamp(0, 2 * Baseline - t, Baseline) + Baseline) \div (2 * Baseline)

\* Mutation: the last line of the item decides.
EnvOkLast(lines, tag) ==
  LET ns == {n \in 1 .. Len(lines) : lines[n].tag = tag} IN ns # {} /\ lines[Max(ns)].ok

\* re.search: one line with ok, anywhere in the log.
EnvOk(lines, tag) == \E n \in 1 .. Len(lines) : lines[n].tag = tag /\ lines[n].ok

CompileLines(lines) == {n \in 1 .. Len(lines) : lines[n].tag = "compile"}

\* Mutation: re.search for re.finditer, the first line is kept.
parse_compile_first(lines) == IF CompileLines(lines) = {} THEN 0 ELSE Min(CompileLines(lines))

\* The index of the last BUILDSTORM_COMPILE line, 0 for None.
parse_compile(lines) == IF CompileLines(lines) = {} THEN 0 ELSE Max(CompileLines(lines))

CompileOk(lines) == parse_compile(lines) > 0 /\ lines[parse_compile(lines)].ok

TimePoints(lines) ==
  IF CompileOk(lines) /\ lines[parse_compile(lines)].arch
  THEN time_score(lines[parse_compile(lines)].elapsed) ELSE 0

EnvPoints(lines, tag) == IF EnvOk(lines, tag) THEN ENV_PTS[tag] ELSE 0

Total(lines) ==
  EnvPoints(lines, "toolchain") + EnvPoints(lines, "minibuild")
    + (IF CompileOk(lines) THEN SUCCESS_PTS ELSE 0) + TimePoints(lines)
=============================================================================
