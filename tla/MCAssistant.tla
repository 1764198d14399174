---------------------------- MODULE MCAssistant -----------------------------
(* Two hosts and one chain, for the question on which host a command runs. *)
EXTENDS Assistant

Part(unix, windows) == [unix |-> unix, windows |-> windows]
Look == <<Part("readOnly", "readOnly")>>
Change == <<Part("readOnly", "modify")>>

SomeReplies == {<<>>, <<Look>>, <<Change>>}
=============================================================================
