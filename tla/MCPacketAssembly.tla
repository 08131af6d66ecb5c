-------------------------- MODULE MCPacketAssembly --------------------------
(* Instances of PacketAssembly for TLC. *)
EXTENDS PacketAssembly

\* Frames of every kind that leaves a trace, the first numbered 0 like the value
\* tempPackageVerify starts with; the network may repeat chunks of the sound and
\* of the second video.
FourFrames == 0..3
FourKinds == [id \in FourFrames |->
                CASE id = 0 -> "video" [] id = 1 -> "audio" [] id = 2 -> "video" [] OTHER -> "short"]
FourTotals == [id \in FourFrames |-> IF id \in {1, 2} THEN 2 ELSE 1]
FourCopies == [id \in FourFrames |-> IF id \in {1, 2} THEN 2 ELSE 1]
=============================================================================
