----------------------------- MODULE LamaTiler ------------------------------
(***************************************************************************)
(* inpaint_image of core/src/lama_tiler.cpp on top of a LamaSession that   *)
(* several callers share.  A pixel is identified by where its value comes  *)
(* from: the pixels of the source or of the network's canvas that enter it *)
(* with a weight that is not zero.  Sampling positions are exact rational  *)
(* numbers; the code computes them in float32.                             *)
(***************************************************************************)
EXTENDS LamaSession, Integers

CONSTANTS
  Side,      \* kN, the side of the network's canvas (512)
  Widths,
  Heights    \* dimensions that callers ask for, not positive ones included

ASSUME LamaTilerAssumption == Side \in Nat \ {0} /\ Widths \subseteq Int /\ Heights \subseteq Int

VARIABLE image   \* [Callers -> arguments, scratch buffers and rgb_out of its call]

vars == <<sessionVars, image>>

Bigger(a, b) == IF a > b THEN a ELSE b
Clamp(v, lo, hi) == IF v < lo THEN lo ELSE IF v > hi THEN hi ELSE v
Pixels(w, h) == (0 .. w - 1) \X (0 .. h - 1)

(* Mutant: no half pixel offset. *)
SamplesCorner(sw, dw, x) ==
  LET position == x * sw
      x0 == position \div dw
  IN {Clamp(x0, 0, sw - 1)}
       \cup (IF position % dw = 0 THEN {} ELSE {Clamp(x0 + 1, 0, sw - 1)})

(* bilinear_resize_impl on one axis: the indices of the sw source columns  *)
(* with a weight in column x of dw; the position is a fraction of 2 * dw.  *)
Samples(sw, dw, x) ==
  LET position == (2 * x + 1) * sw - dw
      x0 == position \div (2 * dw)
  IN {Clamp(x0, 0, sw - 1)}
       \cup (IF position % (2 * dw) = 0 THEN {} ELSE {Clamp(x0 + 1, 0, sw - 1)})

Footprint(sw, sh, dw, dh, p) == Samples(sw, dw, p[1]) \X Samples(sh, dh, p[2])

(* std::round(length * kN / longest), at least one *)
Shortened(length, longest) ==
  Bigger(1, (2 * length * Side + longest) \div (2 * longest))

(* Mutant: only the width is compared. *)
NeedsResizeByWidth(w, h) == w > Side

NeedsResize(w, h) == Bigger(w, h) > Side

Scaled(w, h) ==
  IF ~ NeedsResize(w, h) THEN <<w, h>>
  ELSE IF w >= h THEN <<Side, Shortened(h, w)>>
  ELSE <<Shortened(w, h), Side>>

(* img_512 and msk_512 where they are not padding: each pixel's sources *)
Canvas(w, h) ==
  LET s == Scaled(w, h) IN
  [u \in Pixels(s[1], s[2]) |->
     IF NeedsResize(w, h) THEN Footprint(w, h, s[1], s[2], u) ELSE {u}]

FromSource(p) == [net |-> FALSE, at |-> {p}]
FromNetwork(at) == [net |-> TRUE, at |-> at]

(* Mutant: the mask the network was given decides, not the caller's. *)
CompositeByCanvas(w, h, mask, canvas) ==
  LET s == Scaled(w, h)
      Shown(p) == IF NeedsResize(w, h) THEN Footprint(s[1], s[2], w, h, p) ELSE {p}
  IN [p \in Pixels(w, h) |->
        IF \E u \in Shown(p) : canvas[u] \cap mask # {} THEN FromNetwork(Shown(p))
        ELSE FromSource(p)]

(* composite_masked over the crop of out_512, back in the image's own size *)
Composite(w, h, mask, canvas) ==
  LET s == Scaled(w, h)
      Shown(p) == IF NeedsResize(w, h) THEN Footprint(s[1], s[2], w, h, p) ELSE {p}
  IN [p \in Pixels(w, h) |-> IF p \in mask THEN FromNetwork(Shown(p)) ELSE FromSource(p)]

Untouched == [p \in {} |-> FromSource(p)]
NoImage == [w |-> 0, h |-> 0, mask |-> {}, canvas |-> [u \in {} |-> {}], out |-> Untouched]

Init == SessionInit /\ image = [c \in Callers |-> NoImage]

-----------------------------------------------------------------------------
(* Arguments that are tested first: null pointers and dimensions *)
Refused(c, w, h) ==
  /\ pc[c] = "idle"
  /\ w <= 0 \/ h <= 0
  /\ End(c, "error")
  /\ image' = [image EXCEPT ![c] = NoImage]
  /\ UNCHANGED <<initVars, verdicts>>

(* A call for a whole image, for a half of its columns, or for nothing *)
Call(c, w, h) ==
  /\ pc[c] = "idle"
  /\ w > 0 /\ h > 0
  /\ pc' = [pc EXCEPT ![c] = "report 0.0"]
  /\ outcome' = [outcome EXCEPT ![c] = "none"]
  /\ \E mask \in {Pixels(w, h), {p \in Pixels(w, h) : p[1] % 2 = 1}, {}} :
       image' = [image EXCEPT ![c] = [NoImage EXCEPT !.w = w, !.h = h, !.mask = mask]]
  /\ UNCHANGED <<initVars, verdicts>>

ReportPcs == {"report 0.0", "report 0.2", "inferred", "report 1.0"}

(* report_progress: the callback says no, and the call throws "cancelled". *)
Cancelled(c) ==
  /\ pc[c] \in ReportPcs
  /\ End(c, "cancelled")
  /\ UNCHANGED <<initVars, verdicts, image>>

Prepare(c) ==
  /\ pc[c] = "report 0.0"
  /\ Goto(c, "report 0.2")
  /\ image' = [image EXCEPT ![c].canvas = Canvas(image[c].w, image[c].h)]
  /\ UNCHANGED <<initVars, verdicts>>

CallRun(c) ==
  /\ pc[c] = "report 0.2"
  /\ Goto(c, "ensure")
  /\ UNCHANGED <<initVars, verdicts, image>>

(* run() has returned and progress 0.8 is reported. *)
Compose(c) ==
  /\ pc[c] = "inferred"
  /\ Goto(c, "report 1.0")
  /\ image' = [image EXCEPT ![c].out =
                 Composite(image[c].w, image[c].h, image[c].mask, image[c].canvas)]
  /\ UNCHANGED <<initVars, verdicts>>

Returns(c) ==
  /\ pc[c] = "report 1.0"
  /\ End(c, "ok")
  /\ UNCHANGED <<initVars, verdicts, image>>

InpaintStep(c) ==
  \/ Cancelled(c) \/ Prepare(c) \/ CallRun(c) \/ Compose(c) \/ Returns(c)
  \/ RunStep(c) /\ UNCHANGED image

Next ==
  \E c \in Callers :
    \/ \E w \in Widths, h \in Heights : Refused(c, w, h) \/ Call(c, w, h)
    \/ InpaintStep(c)

(* A thread that has something to do is scheduled; a callback, ONNX Runtime *)
(* and its provider return or throw.                                        *)
Spec == Init /\ [][Next]_vars /\ \A c \in Callers : WF_vars(InpaintStep(c))

-----------------------------------------------------------------------------
(* Every position is inside the buffer that it indexes: footprints inside  *)
(* the source, the scaled image inside the canvas.                         *)
TypeOK ==
  /\ once \in {"new", "running", "done"}
  /\ preferred \in Backends /\ active \in Backends
  /\ session \in BOOLEAN /\ initError \in BOOLEAN
  /\ pc \in [Callers -> {"idle"} \cup RunPcs \cup ReportPcs]
  /\ outcome \in [Callers -> Outcomes]
  /\ \A c \in Callers :
       LET i == image[c] IN
       /\ DOMAIN i.canvas \subseteq Pixels(Side, Side)
       /\ \A u \in DOMAIN i.canvas : i.canvas[u] # {} /\ i.canvas[u] \subseteq Pixels(i.w, i.h)

(* "Unmasked pixels retain full source detail", and a masked one shows      *)
(* what the network made of the image, never of the padding around it.  A   *)
(* call that throws has changed nothing of rgb_out or all of it.            *)
Composited ==
  \A c \in Callers :
    LET i == image[c] IN
    /\ outcome[c] = "ok" => i.out # Untouched
    /\ i.out # Untouched =>
         \A p \in Pixels(i.w, i.h) :
           IF p \in i.mask
           THEN i.out[p].net /\ i.out[p].at # {} /\ i.out[p].at \subseteq DOMAIN i.canvas
           ELSE i.out[p] = FromSource(p)

(* "composite only over the masked pixels": what is shown for a masked     *)
(* pixel comes from a place that the network was asked to inpaint because  *)
(* of that pixel, as long as the image is at most twice the canvas.        *)
ShownWhereAsked ==
  \A c \in Callers :
    LET i == image[c] IN
    outcome[c] = "ok" /\ Bigger(i.w, i.h) <= 2 * Side =>
      \A p \in i.mask : \E u \in i.out[p].at : p \in i.canvas[u]

(* The same for images of any size, as lama_tiler.h has it. *)
ShownWhereAskedAnySize ==
  \A c \in Callers :
    LET i == image[c] IN
    outcome[c] = "ok" => \A p \in i.mask : \E u \in i.out[p].at : p \in i.canvas[u]

(* Every call returns or throws, the ones that wait for another's          *)
(* initialisation included, whether that succeeds or not.                  *)
CallsEnd == \A c \in Callers : (pc[c] # "idle") ~> (pc[c] = "idle")
=============================================================================
