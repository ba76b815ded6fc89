----------------------------- MODULE MCToolLoop -----------------------------
(* Two requests and three tools: one needs nothing, one the user's leave,   *)
(* one the user's leave twice.                                              *)
EXTENDS ToolLoop

FreeTool == "read"
AskedTool == "exec"
TwiceTool == "write"

Tools == {FreeTool, AskedTool, TwiceTool}
MutatingTools == {AskedTool, TwiceTool}
OutsideTools == {TwiceTool}
=============================================================================
