-------------------------- MODULE MCSigmaSnapshots --------------------------
(* A small Sigma: indicators rms and peak; "peak" is also a label of rms.   *)
EXTENDS SigmaSnapshots

MCNames == {"rms", "peak"}
MCLabels == {"i1", "peak"}
MCNoLabel == "none"

\* Sigma says anything of rms; of peak it gives one index, if any.
MCItems == ({"rms"} \X (MCLabels \cup {MCNoLabel})) \cup ({"peak"} \X {"i1", MCNoLabel})
=============================================================================
