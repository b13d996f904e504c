------------------------- MODULE MCFillCalibration -------------------------
(* Instances of FillCalibration for TLC. *)
EXTENDS FillCalibration

CONSTANTS a, b

One(c, kind) == [ch |-> c, kind |-> kind]

\* Every kind of job alone, and batches of two chambers.
MCBatches == { <<One(a, "duty")>>, <<One(a, "hold")>>,
               <<One(a, "fill"), One(b, "fill")>>,
               <<One(b, "deflate"), One(a, "deflate")>> }
\* "Calibrate All" on two chambers.
TwoFills == { <<One(a, "fill"), One(b, "fill")>> }
=============================================================================
