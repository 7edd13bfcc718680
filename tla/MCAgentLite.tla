---------------------------- MODULE MCAgentLite ----------------------------
(***************************************************************************)
(* AgentLite against a server that may answer anything: unusable bodies,   *)
(* a choice without message, and messages of up to two tool calls that   *)
(* are well formed, nameless, of unknown tools or with bad arguments.      *)
(***************************************************************************)
EXTENDS AgentLite

MCCalls ==
  { [id |-> "id1", tool |-> "bash", args |-> "good"],
    [id |-> "id2", tool |-> "list_files", args |-> "bad"],
    [id |-> "none", tool |-> "unknown", args |-> "bad"],
    [id |-> "id4", tool |-> Nameless, args |-> "good"] }

MCCallSeqs == UNION { [1 .. n -> MCCalls] : n \in 0 .. 2 }

MCReplies ==
  { [kind |-> "message", calls |-> cs] : cs \in MCCallSeqs }
  \cup { [kind |-> k, calls |-> <<>>] : k \in ReplyKinds \ {"message"} }
=============================================================================
