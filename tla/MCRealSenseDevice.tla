------------------------- MODULE MCRealSenseDevice -------------------------
(* Instances of RealSenseDevice for TLC. *)
EXTENDS RealSenseDevice

Both == {"color", "depth"}
OneColor == {"color"}
ThreeThreads == 1 .. 3
TwoThreads == 1 .. 2
=============================================================================
