----------------------------- MODULE MCHostedFfi -----------------------------
(* Model-checking instance of HostedFfi: the frames are interchangeable.    *)
EXTENDS HostedFfi, TLC

Symmetry == Permutations(Frames)
=============================================================================
