-------------------------- MODULE MCChannelRunner --------------------------
(* Instances of ChannelRunner, by the permissions its requests need.  A    *)
(* component may fail any request instead of asking for a permission.      *)
EXTENDS ChannelRunner

NeedsOne == [r \in {"exec"} |-> {"shell"}]
NeedsTwo == [r \in {"exec"} |-> {"shell", "sandbox"}]
NeedsEach == [r \in {"exec", "write"} |-> IF r = "exec" THEN {"shell"} ELSE {"sandbox"}]
NeedsNone == [r \in {"plain"} |-> {}]
=============================================================================
