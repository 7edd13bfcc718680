----------------------------- MODULE MCCAgentTest -----------------------------
(***************************************************************************)
(* Two tests of the group against one server: "create" is a file test like *)
(* fs-create, "factorial" a strict one; a request may be cut anywhere.     *)
(***************************************************************************)
EXTENDS CAgentTest

MCChecks == [t \in Agents |-> IF t = "create" THEN "file" ELSE "strict"]

MCReplies ==
  { [kind |-> k, calls |-> <<>>] : k \in ReplyKinds }
  \cup { [kind |-> "message", calls |-> <<BashCall>>] }
=============================================================================
