---------------------------- MODULE MCViewerClose ----------------------------
(* ViewerClose for TLC. *)
EXTENDS ViewerClose

\* Either kind of output, with the update check beside the shared one.
MCSetups == {[exclusive |-> TRUE, update |-> FALSE], [exclusive |-> FALSE, update |-> TRUE]}

=============================================================================
