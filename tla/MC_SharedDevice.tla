---------------------------- MODULE MC_SharedDevice ----------------------------
(* SharedDevice with two threads and, in force, two formats of different size, one
   of them with a colorspace that the crate does not know, and one set of
   parameters.  What is asked for besides is adjusted to these: full is small but
   for a quantization that does not reach the driver. *)
EXTENDS SharedDevice, TLC

CONSTANTS t1, t2, small, full, large, strange, slow, odd

MCThreads == {t1, t2}
MCFormats == {small, full, large, strange}
MCParams  == {slow, odd}

MCFormat(size, colorspace, quantization) ==
  [layout |-> size, field |-> 1, sizeimage |-> size, colorspace |-> colorspace,
   priv |-> TRUE, flags |-> 0, ycbcr_enc |-> 0, quantization |-> quantization,
   xfer_func |-> 0]
MCPix ==
  small :> MCFormat(1, 8, 0) @@ full :> MCFormat(1, 8, 1)
  @@ large :> MCFormat(2, 8, 0) @@ strange :> MCFormat(2, 13, 0)

MCRate(n) == [capability |-> 0, capturemode |-> 0, timeperframe |-> << 1, n >>,
              extendedmode |-> 0, readbuffers |-> 2]
MCParm == slow :> MCRate(15) @@ odd :> MCRate(20)

MCAdjusted ==
  Request(small) :> small @@ Request(large) :> strange @@ Request(strange) :> strange
  @@ Request(slow) :> slow @@ Request(odd) :> slow
Symmetry == Permutations(MCThreads)

===============================================================================
