---------------------------- MODULE MCSyncPacing ----------------------------
(* Directions and windows for TLC. *)
EXTENDS SyncPacing

Both == <<"export", "import">>
One == <<"import">>
ThreeWindows == <<<<4, 6>>, <<2, 4>>, <<0, 2>>>>
TwoWindows == <<<<2, 4>>, <<0, 2>>>>
FirstImport == {<<"import", <<2, 4>>>>}
=============================================================================
