------------------------- MODULE MCExtensionWeight -------------------------
(* ExtensionWeight with RocksDB's ratio of a write to a read.               *)
EXTENDS ExtensionWeight

MCPath == {"Sponsored", "Unsponsored", "NoCharge"}
=============================================================================
