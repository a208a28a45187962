---------------------------- MODULE MCUVCPreview ----------------------------
(* Small instances of UVCPreview for TLC.                                  *)
EXTENDS UVCPreview, TLC

\* Frames are interchangeable: no action or invariant orders them.
FrameSymmetry == Permutations(Frames)
=============================================================================
