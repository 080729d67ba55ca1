---------------------------- MODULE MCEditorFile ----------------------------
(* Model values for EditorFile. *)
EXTENDS EditorFile, TLC

CONSTANTS e1, e2, e3, here, there

ThreeProcesses == {e1, e2, e3}
TwoHosts       == {here, there}
Alike          == Permutations(ThreeProcesses) \cup Permutations(TwoHosts)

=============================================================================
