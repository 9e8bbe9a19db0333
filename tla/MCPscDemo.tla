----------------------------- MODULE MCPscDemo -----------------------------
(* What gcloud cannot delete under the name cleanup.go uses: the unmanaged group. *)
EXTENDS PscDemo

GroupOnly == {Config.Group}
=============================================================================
