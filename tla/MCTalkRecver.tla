---------------------------- MODULE MCTalkRecver ----------------------------
(* Values of TalkRecver's constants: what opus_decode may return, two error *)
(* codes among it, or always a whole frame.                                 *)
EXTENDS TalkRecver

AnyResult == -2..FrameSize
WholeFrames == {FrameSize}
=============================================================================
