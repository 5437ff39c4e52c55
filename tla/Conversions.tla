------------------------------ MODULE Conversions ------------------------------
(***************************************************************************)
(* Formats and streaming parameters on their way between the application   *)
(* and the kernel: the structures of the crate (src/format/,               *)
(* src/video/capture/parameters.rs), the C structures they are copied from *)
(* and to, and what the kernel makes of a C structure before the driver    *)
(* sees it.  Enumerations are numbers, of which the crate knows some.      *)
(* layout stands for width, height, pixel format and bytes per line.       *)
(***************************************************************************)
EXTENDS Naturals

\* The codes that have a variant in the crate.
FieldOrders       == 0 .. 9
Colorspaces       == (0 .. 3) \cup (5 .. 12)
Quantizations     == 0 .. 2
TransferFunctions == 0 .. 7

v4l2_pix_format ==
  [layout : Nat, field : Nat, sizeimage : Nat, colorspace : Nat, priv : BOOLEAN,
   flags : Nat, ycbcr_enc : Nat, quantization : Nat, xfer_func : Nat]

v4l2_captureparm ==
  [capability : Nat, capturemode : Nat, timeperframe : Nat \X Nat,
   extendedmode : Nat, readbuffers : Nat]

\* Otherwise the conversion to a Format panics.
Understood(pix) ==
  /\ pix.field \in FieldOrders /\ pix.colorspace \in Colorspaces
  /\ pix.quantization \in Quantizations /\ pix.xfer_func \in TransferFunctions

Format(pix) ==
  [layout |-> pix.layout, field_order |-> pix.field, size |-> pix.sizeimage,
   flags |-> pix.flags, colorspace |-> pix.colorspace,
   quantization |-> pix.quantization, transfer |-> pix.xfer_func]

PixFormat(format) ==
  [layout |-> format.layout, field |-> format.field_order, sizeimage |-> format.size,
   flags |-> format.flags, colorspace |-> format.colorspace,
   quantization |-> format.quantization, xfer_func |-> format.transfer,
   priv |-> FALSE, ycbcr_enc |-> 0]

Fraction(fract) == [numerator |-> fract[1], denominator |-> fract[2]]

Fract(fraction) == << fraction.numerator, fraction.denominator >>

Parameters(parm) ==
  [capabilities |-> parm.capability, modes |-> parm.capturemode,
   interval |-> Fraction(parm.timeperframe)]

CaptureParm(params) ==
  [capability |-> params.capabilities, capturemode |-> params.modes,
   timeperframe |-> Fract(params.interval), extendedmode |-> 0, readbuffers |-> 0]

\* Without the magic number in priv, which the crate never writes, the kernel takes
\* the fields after priv for uninitialised and clears them.
Sanitized(pix) ==
  IF pix.priv THEN pix
  ELSE [pix EXCEPT !.priv = TRUE, !.flags = 0, !.ycbcr_enc = 0,
                   !.quantization = 0, !.xfer_func = 0]

===============================================================================
