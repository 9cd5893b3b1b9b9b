------------------------- MODULE MCBundleManifest -------------------------
(* An instance of BundleManifest for TLC. *)
EXTENDS BundleManifest

AllOps == {"read", "metadata", "update", "insert", "remove", "save"}
=============================================================================
