-------------------------------- MODULE MCStock --------------------------------
(* Instances of Stock for TLC. *)
EXTENDS Stock

StockDeltas == {-1}
StockBuilds == {-1, 1}

=============================================================================
