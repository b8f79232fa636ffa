----------------------------- MODULE VideoConversion -----------------------------
(***************************************************************************)
(* What a step does to the bytes of a frame: readV4L2Frame converts it to  *)
(* the planes that the capture block asks for, ImageInversion_output       *)
(* subtracts each element from a parameter that the host may tune.         *)
(* V4l2Capture says which frame it is.                                     *)
(*                                                                         *)
(* A frame is a sequence of groups <<Y0, Cb, Y1, Cr>>, two pixels each.    *)
(***************************************************************************)
EXTENDS Integers, Sequences

CONSTANTS
  Scenes,      \* frames that the camera may deliver
  Tunings      \* values of the parameter Constant_Value

ASSUME ConversionAssumption ==
  /\ Scenes \subseteq Seq([1 .. 4 -> 0 .. 255])
  /\ Tunings \subseteq 0 .. 255

\* The factors of yuyv2rgb, in 255ths.
RCr == 358
GCb == 88
GCr == 182
BCb == 452

\* Mutant: the value is cast to a byte as it is.
cast(x) == x % 256

clamp(x) == IF x > 255 THEN 255 ELSE IF x < 0 THEN 0 ELSE x

\* A pixel of a group in yuyv2rgb, from the chrominances as signed numbers.  ">> 8"
\* rounds towards minus infinity, as \div does.
rgb(y, Cb, Cr) ==
  <<clamp(y + (RCr * Cr) \div 256),
    clamp(y - (GCb * Cb + GCr * Cr) \div 256),
    clamp(y + (BCb * Cb) \div 256)>>

Pixels(frame) == 1 .. 2 * Len(frame)
Group(frame, p) == frame[(p + 1) \div 2]
Luminance(frame, p) == IF p % 2 = 1 THEN Group(frame, p)[1] ELSE Group(frame, p)[3]

yuyv2rgb(frame) ==
  [k \in 1 .. 3 |-> [p \in Pixels(frame) |->
     rgb(Luminance(frame, p), Group(frame, p)[2] - 128, Group(frame, p)[4] - 128)[k]]]

yuyv2yuv(frame) ==
  <<[p \in Pixels(frame) |-> Luminance(frame, p)],
    [i \in DOMAIN frame |-> frame[i][2]], [i \in DOMAIN frame |-> frame[i][4]]>>

\* The planes of V4L2VideoCapture_o1 .. o3.
Planes(format, frame) == IF format = "RGB" THEN yuyv2rgb(frame) ELSE yuyv2yuv(frame)

\* (uint8_T)(Constant_Value - v)
inverted(c, v) == (c - v) % 256

\* The planes of Sum, Sum1 and Sum2.
ImageInversion_output(c, format, frame) ==
  LET o == Planes(format, frame)
  IN [k \in 1 .. 3 |-> [i \in DOMAIN o[k] |-> inverted(c, o[k][i])]]

-------------------------------------------------------------------------------
Distance(a, b) == IF a < b THEN b - a ELSE a - b
Clip(x) == IF x < 0 THEN 0 ELSE IF x > 25500000 THEN 25500000 ELSE x

\* The formula of the comment in yuyv2rgb, in hundred thousandths.
Formula(y, Cb, Cr) ==
  <<Clip(100000 * y + 140200 * Cr),
    Clip(100000 * y - 34414 * Cb - 71414 * Cr),
    Clip(100000 * y + 177200 * Cb)>>

\* What is brighter than the parameter comes out bright again.
Negative(c, v) == IF v > c THEN c + 256 - v ELSE c - v

\* The planes of a step (readV4L2Frame, ImageInversion_output) hold the negative of
\* the camera's picture.  As RGB a pixel is less than two levels away from the
\* parameter less the formula, although the factors are in 255ths, the products are
\* divided by 256 and rounded down; a parameter that was tuned below 255 makes
\* pixels wrap round, the parameter 255 none.  Grey is exact, and so is YCbCr.
NegativeOfScene ==
  \A frame \in Scenes, c \in Tunings :
    LET Sum == ImageInversion_output(c, "RGB", frame)
        SumYuv == ImageInversion_output(c, "YCbCr", frame)
    IN \A p \in Pixels(frame) :
         LET y == Luminance(frame, p)  Cb == Group(frame, p)[2]  Cr == Group(frame, p)[4]
         IN /\ \A k \in 1 .. 3 :
                 /\ \E wrap \in {0, 256} :
                      /\ Distance(100000 * Sum[k][p],
                                  100000 * (c + wrap) - Formula(y, Cb - 128, Cr - 128)[k])
                           < 200000
                      /\ c = 255 => wrap = 0
                 /\ Cb = 128 /\ Cr = 128 => Sum[k][p] = Negative(c, y)
            /\ <<SumYuv[1][p], SumYuv[2][(p + 1) \div 2], SumYuv[3][(p + 1) \div 2]>>
                 = <<Negative(c, y), Negative(c, Cb), Negative(c, Cr)>>
===============================================================================
