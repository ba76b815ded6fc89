---------------------------- MODULE MCApprovals ----------------------------
(* An instance of Approvals: writing outside the sandbox meets two gates,  *)
(* running a command one, and the file to be made is still to be created,  *)
(* below the directory another request opens.                              *)
EXTENDS Approvals

Writes == [kind |-> "intent", on |-> "write", mode |-> "any"]
WritesTo(path) == [kind |-> "path", on |-> path, mode |-> "write"]

GatesThree ==
  [write |-> <<Writes, WritesTo("/out")>>,
   make |-> <<Writes, WritesTo("/out/new")>>,
   exec |-> <<[kind |-> "command", on |-> "rm", mode |-> "any"]>>]

DoesEach == [mgr |-> {"make"}, shell |-> {"write", "exec"}]

BelowOut == {<<"/out", "/out/new">>}
=============================================================================
