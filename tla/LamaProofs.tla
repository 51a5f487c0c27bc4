----------------------------- MODULE LamaProofs -----------------------------
(***************************************************************************)
(* Proofs about LamaTiler for any number of callers, any canvas and images *)
(* of any size.  OneVerdict: what call_once and the kept exception of      *)
(* LamaSession guarantee does not depend on what inpaint_image does around *)
(* them.  Composited and ShownWhereAsked: what the two resizings do to an  *)
(* image is arithmetic about the columns that one column samples           *)
(* (SamplesInside, ThereAndBack, ShortenedFits), and the buffers of a call *)
(* hold what its place in the code says (ImageInv).                        *)
(***************************************************************************)
EXTENDS LamaTiler, TLAPS

Verdict == IF initError THEN "error" ELSE "ok"

(* Where a caller is tells how far the initialisation has come. *)
PcInv ==
  \A c \in Callers :
    /\ pc[c] \in InitPcs => once = "running"
    /\ pc[c] = "inspect" => session
    /\ pc[c] \in {"ensured", "infer"} => once = "done"
    /\ pc[c] = "infer" => ~ initError

(* Nothing is said before the end of it, and afterwards always the same. *)
OnceInv ==
  /\ once # "done" => verdicts = {} /\ ~ initError
  /\ once = "done" => initError \/ session
  /\ verdicts \subseteq {Verdict}

Alone == \A c, d \in Callers : pc[c] \in InitPcs /\ pc[d] \in InitPcs => c = d

IInv == pc \in [Callers -> {"idle"} \cup RunPcs \cup ReportPcs] /\ PcInv /\ OnceInv /\ Alone

-----------------------------------------------------------------------------
LEMMA InvImplies == IInv => OneVerdict
  BY DEF IInv, PcInv, OnceInv, Alone, OneVerdict, Verdict

LEMMA InitInv == Init => IInv
  BY DEF Init, SessionInit, IInv, PcInv, OnceInv, Alone, InitPcs, RunPcs, ReportPcs

(* A step that moves one caller outside of ensure_initialized. *)
LEMMA OutsideStep ==
  ASSUME IInv, NEW c \in Callers, UNCHANGED <<initVars, verdicts>>,
         NEW to \in {"idle", "ensure", "inferred"} \cup ReportPcs, pc' = [pc EXCEPT ![c] = to]
  PROVE  IInv'
  BY DEF IInv, PcInv, OnceInv, Alone, Verdict, InitPcs, RunPcs, ReportPcs, initVars

(* Each step of LamaSession keeps the invariant. *)
LEMMA RunStepInv ==
  ASSUME IInv, NEW c \in Callers, RunStep(c)
  PROVE  IInv'
<1> USE DEF IInv, InitPcs, RunPcs, ReportPcs, Goto
<1>1. CASE EnterOnce(c)
  BY <1>1 DEF EnterOnce, PcInv, OnceInv, Alone, Verdict
<1>2. CASE PassOnce(c)
  BY <1>2 DEF PassOnce, PcInv, OnceInv, Alone, Verdict, initVars
<1>3. CASE ChooseBackend(c)
  BY <1>3 DEF ChooseBackend, PcInv, OnceInv, Alone, Verdict
<1>4. CASE BuildSession(c)
  BY <1>4 DEF BuildSession, PcInv, OnceInv, Alone, Verdict
<1>5. CASE AcceptModel(c)
  BY <1>5 DEF AcceptModel, PcInv, OnceInv, Alone, Verdict
<1>6. CASE InitFails(c)
  BY <1>6 DEF InitFails, PcInv, OnceInv, Alone, Verdict
<1>7. CASE RethrowInitError(c)
  BY <1>7 DEF RethrowInitError, End, PcInv, OnceInv, Alone, Verdict, initVars
<1>8. CASE Initialized(c)
  BY <1>8 DEF Initialized, PcInv, OnceInv, Alone, Verdict, initVars
<1>9. CASE InferenceFails(c)
  BY <1>9, OutsideStep DEF InferenceFails, End
<1>10. CASE Infer(c)
  BY <1>10, OutsideStep DEF Infer
<1> QED BY <1>1, <1>2, <1>3, <1>4, <1>5, <1>6, <1>7, <1>8, <1>9, <1>10 DEF RunStep

LEMMA StepInv == IInv /\ [Next]_vars => IInv'
<1> SUFFICES ASSUME IInv, [Next]_vars PROVE IInv'
  OBVIOUS
<1>1. ASSUME NEW c \in Callers, NEW w \in Widths, NEW h \in Heights,
             Refused(c, w, h) \/ Call(c, w, h)
      PROVE  IInv'
  BY <1>1, OutsideStep DEF Refused, Call, End, ReportPcs
<1>2. ASSUME NEW c \in Callers, InpaintStep(c) PROVE IInv'
  <2>1. CASE Cancelled(c) \/ Prepare(c) \/ Compose(c) \/ Returns(c) \/ CallRun(c)
    BY <2>1, OutsideStep DEF Cancelled, Prepare, Compose, Returns, CallRun, End, Goto, ReportPcs
  <2>2. CASE RunStep(c)
    BY <2>2, RunStepInv
  <2> QED BY <1>2, <2>1, <2>2 DEF InpaintStep
<1>3. CASE UNCHANGED vars
  BY <1>3 DEF vars, sessionVars, initVars, IInv, PcInv, OnceInv, Alone, Verdict
<1> QED BY <1>1, <1>2, <1>3 DEF Next

-----------------------------------------------------------------------------
(* "Errors stash an exception_ptr that ensure_initialized() will rethrow on *)
(* every subsequent call": for any number of threads, all of them learn the *)
(* same of the model and none infers on a session that is not whole.        *)
THEOREM VerdictIsOne == Spec => []OneVerdict
  BY InitInv, InvImplies, StepInv, PTL DEF Spec

-----------------------------------------------------------------------------
(* The geometry of inpaint_image: resizing to the canvas and back *)

(* Division with remainder, by a number that the provers do not know *)
LEMMA Division ==
  ASSUME NEW m \in Nat \ {0}, NEW a \in Int
  PROVE  /\ a = m * (a \div m) + (a % m)
         /\ a % m \in 0 .. m - 1
         /\ a \div m \in Int
  BY SMT

LEMMA SamplesInside ==
  ASSUME NEW sw \in Nat \ {0}, NEW dw \in Nat \ {0}, NEW x \in Int
  PROVE  Samples(sw, dw, x) # {} /\ Samples(sw, dw, x) \subseteq 0 .. sw - 1
<1> DEFINE a == (2 * x + 1) * sw - dw
           q == a \div (2 * dw)
<1>1. q \in Int
  <2>1. a \in Int /\ 2 * dw \in Nat \ {0}
    OBVIOUS
  <2> HIDE DEF a
  <2> QED BY <2>1, Division
<1> HIDE DEF q
<1>2. Clamp(q, 0, sw - 1) \in 0 .. sw - 1 /\ Clamp(q + 1, 0, sw - 1) \in 0 .. sw - 1
  BY <1>1 DEF Clamp
<1> QED BY <1>2 DEF Samples, q

(* A source column less than one column away from the position has a weight. *)
LEMMA Hit ==
  ASSUME NEW sw \in Nat \ {0}, NEW dw \in Nat \ {0}, NEW x \in Int, NEW t \in 0 .. sw - 1,
         NEW a \in Int, a = (2 * x + 1) * sw - dw,
         NEW m \in Nat \ {0}, m = 2 * dw, a - m * t < m, m * t - a < m
  PROVE  t \in Samples(sw, dw, x)
<1> DEFINE q == a \div m
           r == a % m
<1>1. a = m * q + r /\ r \in 0 .. m - 1 /\ q \in Int
  BY Division
<1> HIDE DEF q, r
<1>2. q = t \/ (q + 1 = t /\ r # 0)
  <2>1. m * q + r - m * t = m * (q - t) + r
    BY <1>1
  <2> DEFINE d == q - t
  <2>2. d \in Int /\ m * d + r < m /\ - m < m * d + r
    BY <1>1, <2>1
  <2> HIDE DEF d
  <2>3. d <= 0
    <3> SUFFICES ASSUME d >= 1 PROVE FALSE
      BY <2>2
    <3>1. m * d >= m
      BY <2>2
    <3> QED BY <1>1, <2>2, <3>1
  <2>4. d >= -1
    <3> SUFFICES ASSUME d <= -2 PROVE FALSE
      BY <2>2
    <3>1. m * d <= - (2 * m)
      BY <2>2
    <3> QED BY <1>1, <2>2, <3>1
  <2>5. d = -1 => r # 0
    BY <1>1, <2>2
  <2> QED BY <1>1, <2>2, <2>3, <2>4, <2>5 DEF d
<1>3. Clamp(t, 0, sw - 1) = t
  BY DEF Clamp
<1>4. Samples(sw, dw, x) = {Clamp(q, 0, sw - 1)} \cup (IF r = 0 THEN {} ELSE {Clamp(q + 1, 0, sw - 1)})
  BY DEF Samples, q, r
<1> QED BY <1>2, <1>3, <1>4

(* On a canvas at least half as wide as the image, the column nearest to   *)
(* the centre of an image column was made from that column.                *)
LEMMA ThereAndBack ==
  ASSUME NEW s \in Nat \ {0}, NEW w \in Nat \ {0}, w <= 2 * s, NEW p \in 0 .. w - 1
  PROVE  \E u \in Samples(s, w, p) : p \in Samples(w, s, u)
<1> DEFINE a == (2 * p + 1) * s - w
           m == 2 * w
           q == a \div m
           r == a % m
<1>1. a \in Int /\ m \in Nat \ {0} /\ w \in Nat /\ s \in Nat
  OBVIOUS
<1>2. a > - w /\ a < m * s - w
  <2>1. (2 * p + 1) * s >= 1
    OBVIOUS
  <2>2. (2 * p + 1) * s <= (2 * w - 1) * s
    OBVIOUS
  <2> QED BY <2>1, <2>2
<1>3. a = m * q + r /\ r \in 0 .. m - 1 /\ q \in Int
  <2> HIDE DEF a, m
  <2> QED BY <1>1, Division
<1>4. ASSUME NEW u \in 0 .. s - 1, a - m * u < m, m * u - a < m,
             a - m * u < 2 * s, m * u - a < 2 * s
      PROVE  u \in Samples(s, w, p) /\ p \in Samples(w, s, u)
  <2>1. u \in Samples(s, w, p)
    <3>1. p \in Int /\ a = (2 * p + 1) * s - w /\ m = 2 * w
      OBVIOUS
    <3> HIDE DEF a, m
    <3> QED BY <1>1, <1>4, <3>1, Hit
  <2>2. p \in Samples(w, s, u)
    <3> DEFINE b == (2 * u + 1) * w - s
               k == 2 * s
    <3>1. b \in Int /\ k \in Nat \ {0} /\ u \in Int
      OBVIOUS
    <3>2. b - k * p = m * u - a
      OBVIOUS
    <3>3. b - k * p < k /\ k * p - b < k
      <4>1. k * p - b = a - m * u
        OBVIOUS
      <4> HIDE DEF b, a, m
      <4> QED BY <1>4, <3>2, <4>1
    <3>4. b = (2 * u + 1) * w - s /\ k = 2 * s
      OBVIOUS
    <3> HIDE DEF b, k, a, m, q, r
    <3> QED BY <3>1, <3>3, <3>4, Hit
  <2> QED BY <2>1, <2>2
<1>5. \A u \in Int : m * u < m * s => u <= s - 1
  <2> SUFFICES ASSUME NEW u \in Int, u >= s PROVE m * u >= m * s
    BY <1>1
  <2> HIDE DEF m
  <2> QED BY <1>1
<1>6. \A u \in Int : m * u > - m => u >= 0
  <2> SUFFICES ASSUME NEW u \in Int, u <= -1 PROVE m * u <= - m
    BY <1>1
  <2> HIDE DEF m
  <2> QED BY <1>1
<1>7. CASE r <= w
  <2>1. r # w \/ w # 2 * s
    <3> SUFFICES ASSUME r = w, w = 2 * s PROVE FALSE
      OBVIOUS
    <3>1. (2 * p + 1) * s - 2 * s = (4 * s) * q + 2 * s
      BY <1>3
    <3>2. s * (2 * p - 4 * q - 3) = 0
      BY <1>3, <3>1
    <3> DEFINE d == 2 * p - 4 * q - 3
    <3>3. d \in Int /\ d # 0
      BY <1>3
    <3> HIDE DEF d
    <3>4. s * d # 0
      BY <3>3
    <3> QED BY <3>2, <3>4 DEF d
  <2> HIDE DEF a, q, r
  <2>2. m * q > - m /\ m * q < m * s
    <3> HIDE DEF m
    <3>1. m = 2 * w /\ m * s \in Int /\ m * q \in Int
      BY <1>1, <1>3 DEF m
    <3> QED BY <1>1, <1>2, <1>3, <1>7, <3>1
  <2>3. q \in 0 .. s - 1
    BY <1>1, <1>3, <1>5, <1>6, <2>2
  <2>4. a - m * q = r /\ m * q - a = - r
    <3> HIDE DEF m
    <3> QED BY <1>1, <1>3
  <2>5. r < m /\ - r < m /\ r < 2 * s /\ - r < 2 * s
    BY <1>3, <1>7, <2>1
  <2> HIDE DEF m
  <2> QED BY <1>4, <2>3, <2>4, <2>5
<1>8. CASE r > w
  <2> DEFINE u == q + 1
  <2> HIDE DEF a, q, r
  <2>1. u \in Int /\ m * u = m * q + m
    BY <1>1, <1>3
  <2> HIDE DEF u
  <2>2. m * u - a = m - r /\ a - m * u = r - m
    <3> HIDE DEF m
    <3> QED BY <1>1, <1>3, <2>1
  <2>3. m - r < w /\ m - r > 0
    BY <1>1, <1>3, <1>8
  <2>4. m * u > - m /\ m * u < m * s
    <3> HIDE DEF m
    <3>1. m = 2 * w /\ m * s \in Int /\ m * u \in Int
      BY <1>1, <2>1 DEF m
    <3> QED BY <1>1, <1>2, <1>3, <2>2, <2>3, <3>1
  <2>5. u \in 0 .. s - 1
    BY <1>1, <1>5, <1>6, <2>1, <2>4
  <2>6. m - r < m /\ r - m < m /\ m - r < 2 * s /\ r - m < 2 * s
    BY <1>1, <1>3, <2>3
  <2> HIDE DEF m
  <2> QED BY <1>4, <2>2, <2>5, <2>6
<1> QED BY <1>1, <1>3, <1>7, <1>8

(* The shorter side of the scaled image: on the canvas, and not shortened  *)
(* to less than half as long as the longer side is not.                    *)
LEMMA ShortenedFits ==
  ASSUME NEW l \in Nat \ {0}, NEW longest \in Nat \ {0}, l <= longest
  PROVE  /\ Shortened(l, longest) \in 1 .. Side
         /\ longest <= 2 * Side => l <= 2 * Shortened(l, longest)
<1> DEFINE m == 2 * longest
           a == 2 * l * Side + longest
           q == a \div m
           r == a % m
<1>1. m \in Nat \ {0} /\ a \in Int /\ Side \in Nat /\ Side >= 1
  BY LamaTilerAssumption
<1>2. a = m * q + r /\ r \in 0 .. m - 1 /\ q \in Int
  <2> HIDE DEF a, m
  <2> QED BY <1>1, Division
<1> HIDE DEF q, r
<1>3. q <= Side
  <2> SUFFICES ASSUME q >= Side + 1 PROVE FALSE
    BY <1>1, <1>2
  <2>1. m * q >= m * Side + m
    BY <1>1, <1>2
  <2>2. 2 * l * Side <= m * Side
    BY <1>1
  <2> QED BY <1>1, <1>2, <2>1, <2>2
<1>4. longest <= 2 * Side => l <= 2 * q
  <2> SUFFICES ASSUME longest <= 2 * Side, l >= 2 * q + 1 PROVE FALSE
    BY <1>2
  <2>1. l * (2 * Side) >= l * longest
    BY <1>1
  <2>2. l * longest >= (2 * q + 1) * longest
    BY <1>2
  <2>3. a >= (2 * q + 1) * longest + longest
    BY <1>1, <1>2, <2>1, <2>2
  <2>4. (2 * q + 1) * longest + longest = m * q + m
    BY <1>2
  <2> HIDE DEF a, m
  <2> QED BY <1>1, <1>2, <2>3, <2>4
<1>5. Shortened(l, longest) = Bigger(1, q)
  BY DEF Shortened, q
<1> QED BY <1>1, <1>2, <1>3, <1>4, <1>5 DEF Bigger

LEMMA ScaledFits ==
  ASSUME NEW w \in Nat \ {0}, NEW h \in Nat \ {0}
  PROVE  \E x, y \in 1 .. Side :
           /\ Scaled(w, h) = <<x, y>>
           /\ ~ NeedsResize(w, h) => x = w /\ y = h
           /\ Bigger(w, h) <= 2 * Side => w <= 2 * x /\ h <= 2 * y
<1> USE LamaTilerAssumption
<1>1. CASE ~ NeedsResize(w, h)
  BY <1>1 DEF NeedsResize, Scaled, Bigger
<1>2. CASE NeedsResize(w, h) /\ w >= h
  <2> DEFINE y == Shortened(h, w)
  <2>1. y \in 1 .. Side /\ (w <= 2 * Side => h <= 2 * y)
    BY <1>2, ShortenedFits
  <2>2. Scaled(w, h) = <<Side, y>> /\ Bigger(w, h) = w
    BY <1>2 DEF Scaled, Bigger
  <2> HIDE DEF y
  <2> QED BY <1>2, <2>1, <2>2
<1>3. CASE NeedsResize(w, h) /\ h > w
  <2> DEFINE x == Shortened(w, h)
  <2>1. x \in 1 .. Side /\ (h <= 2 * Side => w <= 2 * x)
    BY <1>3, ShortenedFits
  <2>2. Scaled(w, h) = <<x, Side>> /\ Bigger(w, h) = h
    BY <1>3 DEF Scaled, Bigger
  <2> HIDE DEF x
  <2> QED BY <1>3, <2>1, <2>2
<1> QED BY <1>1, <1>2, <1>3

LEMMA FootprintInside ==
  ASSUME NEW sw \in Nat \ {0}, NEW sh \in Nat \ {0}, NEW dw \in Nat \ {0}, NEW dh \in Nat \ {0},
         NEW p \in Pixels(dw, dh)
  PROVE  Footprint(sw, sh, dw, dh, p) # {} /\ Footprint(sw, sh, dw, dh, p) \subseteq Pixels(sw, sh)
<1>1. p[1] \in Int /\ p[2] \in Int
  BY DEF Pixels
<1>2. /\ Samples(sw, dw, p[1]) # {} /\ Samples(sw, dw, p[1]) \subseteq 0 .. sw - 1
      /\ Samples(sh, dh, p[2]) # {} /\ Samples(sh, dh, p[2]) \subseteq 0 .. sh - 1
  BY <1>1, SamplesInside
<1> DEFINE A == Samples(sw, dw, p[1])
           B == Samples(sh, dh, p[2])
<1>3. Footprint(sw, sh, dw, dh, p) = A \X B /\ Pixels(sw, sh) = (0 .. sw - 1) \X (0 .. sh - 1)
  BY DEF Footprint, Pixels
<1> HIDE DEF A, B
<1>4. A \X B # {}
  <2>1. PICK i \in A, j \in B : TRUE
    BY <1>2 DEF A, B
  <2>2. <<i, j>> \in A \X B
    BY <2>1
  <2> QED BY <2>2
<1>5. A \X B \subseteq (0 .. sw - 1) \X (0 .. sh - 1)
  <2>1. A \subseteq 0 .. sw - 1 /\ B \subseteq 0 .. sh - 1
    BY <1>2 DEF A, B
  <2> QED BY <2>1
<1> QED BY <1>3, <1>4, <1>5

LEMMA CanvasInside ==
  ASSUME NEW w \in Nat \ {0}, NEW h \in Nat \ {0}
  PROVE  /\ DOMAIN Canvas(w, h) \subseteq Pixels(Side, Side)
         /\ \A u \in DOMAIN Canvas(w, h) :
              Canvas(w, h)[u] # {} /\ Canvas(w, h)[u] \subseteq Pixels(w, h)
<1>1. PICK x, y \in 1 .. Side :
        /\ Scaled(w, h) = <<x, y>>
        /\ ~ NeedsResize(w, h) => x = w /\ y = h
        /\ Bigger(w, h) <= 2 * Side => w <= 2 * x /\ h <= 2 * y
  BY ScaledFits
<1>2. Canvas(w, h) = [u \in Pixels(x, y) |->
         IF NeedsResize(w, h) THEN Footprint(w, h, x, y, u) ELSE {u}]
  BY <1>1 DEF Canvas
<1>3. x \in Nat \ {0} /\ y \in Nat \ {0} /\ Pixels(x, y) \subseteq Pixels(Side, Side)
  BY <1>1, LamaTilerAssumption DEF Pixels
<1>4. \A u \in Pixels(x, y) :
        Footprint(w, h, x, y, u) # {} /\ Footprint(w, h, x, y, u) \subseteq Pixels(w, h)
  BY <1>3, FootprintInside
<1> QED BY <1>1, <1>2, <1>3, <1>4

LEMMA CompositeRight ==
  ASSUME NEW w \in Nat \ {0}, NEW h \in Nat \ {0}, NEW mask \in SUBSET Pixels(w, h),
         NEW canvas, canvas = Canvas(w, h), NEW out, out = Composite(w, h, mask, canvas)
  PROVE  /\ out # Untouched
         /\ \A p \in Pixels(w, h) :
              IF p \in mask
              THEN out[p].net /\ out[p].at # {} /\ out[p].at \subseteq DOMAIN canvas
              ELSE out[p] = FromSource(p)
         /\ Bigger(w, h) <= 2 * Side =>
              \A p \in mask : \E u \in out[p].at : p \in canvas[u]
<1>1. PICK x, y \in 1 .. Side :
        /\ Scaled(w, h) = <<x, y>>
        /\ ~ NeedsResize(w, h) => x = w /\ y = h
        /\ Bigger(w, h) <= 2 * Side => w <= 2 * x /\ h <= 2 * y
  BY ScaledFits
<1> DEFINE Shown(p) == IF NeedsResize(w, h) THEN Footprint(x, y, w, h, p) ELSE {p}
<1>2. out = [p \in Pixels(w, h) |-> IF p \in mask THEN FromNetwork(Shown(p)) ELSE FromSource(p)]
  BY <1>1 DEF Composite
<1>3. canvas = [u \in Pixels(x, y) |->
         IF NeedsResize(w, h) THEN Footprint(w, h, x, y, u) ELSE {u}]
  BY <1>1 DEF Canvas
<1>4. x \in Nat \ {0} /\ y \in Nat \ {0}
  BY <1>1
<1>5. \A p \in Pixels(w, h) : Shown(p) # {} /\ Shown(p) \subseteq Pixels(x, y)
  BY <1>1, <1>4, FootprintInside
<1>6. \A p \in mask : p \in Pixels(w, h) /\ out[p].net /\ out[p].at = Shown(p)
  <2> HIDE DEF Shown
  <2> QED BY <1>2 DEF FromNetwork
<1>7. <<0, 0>> \in Pixels(w, h)
  BY DEF Pixels
<1>8. out # Untouched
  BY <1>2, <1>7 DEF Untouched
<1>9. ASSUME Bigger(w, h) <= 2 * Side, NEW p \in mask
      PROVE  \E u \in Shown(p) : p \in canvas[u]
  <2>1. CASE ~ NeedsResize(w, h)
    BY <1>1, <1>3, <1>6, <2>1
  <2>2. CASE NeedsResize(w, h)
    <3>1. p[1] \in 0 .. w - 1 /\ p[2] \in 0 .. h - 1 /\ p = <<p[1], p[2]>>
      BY DEF Pixels
    <3>2. PICK i \in Samples(x, w, p[1]) : p[1] \in Samples(w, x, i)
      BY <1>1, <1>4, <1>9, <3>1, ThereAndBack
    <3>3. PICK j \in Samples(y, h, p[2]) : p[2] \in Samples(h, y, j)
      BY <1>1, <1>4, <1>9, <3>1, ThereAndBack
    <3> DEFINE u == <<i, j>>
    <3>4. u \in Footprint(x, y, w, h, p) /\ p \in Footprint(w, h, x, y, u)
      BY <3>1, <3>2, <3>3 DEF Footprint
    <3>5. u \in Shown(p) /\ u \in Pixels(x, y)
      BY <1>5, <2>2, <3>4
    <3> HIDE DEF u
    <3> QED BY <1>3, <2>2, <3>4, <3>5
  <2> QED BY <2>1, <2>2
<1> HIDE DEF Shown
<1>10. \A p \in Pixels(w, h) : p \notin mask => out[p] = FromSource(p)
  BY <1>2
<1>11. DOMAIN canvas = Pixels(x, y)
  BY <1>3
<1> QED BY <1>5, <1>6, <1>8, <1>9, <1>10, <1>11

-----------------------------------------------------------------------------
(* What the buffers of a call hold while it runs: its arguments, then the  *)
(* canvas made of them, then the result made of both.                      *)
NoCanvas == [u \in {} |-> {}]

Asked(i) ==
  /\ i \in [w : {i.w}, h : {i.h}, mask : {i.mask}, canvas : {i.canvas}, out : {i.out}]
  /\ i.w \in Nat \ {0} /\ i.h \in Nat \ {0} /\ i.mask \subseteq Pixels(i.w, i.h)

Called(i) == Asked(i) /\ i.canvas = NoCanvas /\ i.out = Untouched
Prepared(i) == Asked(i) /\ i.canvas = Canvas(i.w, i.h) /\ i.out = Untouched
Composed(i) ==
  Asked(i) /\ i.canvas = Canvas(i.w, i.h) /\ i.out = Composite(i.w, i.h, i.mask, i.canvas)

CallInv(i, at, how) ==
  /\ i = NoImage \/ Called(i) \/ Prepared(i) \/ Composed(i)
  /\ at # "idle" => how = "none"
  /\ at = "report 0.0" => Called(i)
  /\ at \in RunPcs \cup {"report 0.2", "inferred"} => Prepared(i)
  /\ at = "report 1.0" \/ how = "ok" => Composed(i)

SessionTypes ==
  /\ once \in {"new", "running", "done"}
  /\ preferred \in Backends /\ active \in Backends
  /\ session \in BOOLEAN /\ initError \in BOOLEAN
  /\ pc \in [Callers -> {"idle"} \cup RunPcs \cup ReportPcs]
  /\ outcome \in [Callers -> Outcomes]

ImageInv ==
  /\ SessionTypes
  /\ image = [c \in Callers |-> image[c]]
  /\ \A c \in Callers : CallInv(image[c], pc[c], outcome[c])

LEMMA CallStep ==
  ASSUME ImageInv, NEW c \in Callers, NEW i, NEW at, NEW how,
         at \in {"idle"} \cup RunPcs \cup ReportPcs, how \in Outcomes, CallInv(i, at, how),
         pc' = [pc EXCEPT ![c] = at],
         outcome' = [outcome EXCEPT ![c] = how],
         image' = [image EXCEPT ![c] = i],
         once' \in {"new", "running", "done"}, preferred' \in Backends, active' \in Backends,
         session' \in BOOLEAN, initError' \in BOOLEAN
  PROVE  ImageInv'
<1>1. SessionTypes'
  BY DEF ImageInv, SessionTypes
<1>2. \A d \in Callers : \/ d # c /\ image'[d] = image[d] /\ pc'[d] = pc[d] /\ outcome'[d] = outcome[d]
                         \/ image'[d] = i /\ pc'[d] = at /\ outcome'[d] = how
  BY DEF ImageInv, SessionTypes
<1>3. (\A d \in Callers : CallInv(image[d], pc[d], outcome[d]))'
  <2> SUFFICES ASSUME NEW d \in Callers PROVE CallInv(image'[d], pc'[d], outcome'[d])
    OBVIOUS
  <2> QED BY <1>2 DEF ImageInv
<1>4. image' = [d \in Callers |-> image'[d]]
  BY DEF ImageInv
<1> QED BY <1>1, <1>3, <1>4 DEF ImageInv

(* A step that leaves the image of its caller as it is. *)
LEMMA PcStep ==
  ASSUME ImageInv, NEW c \in Callers, NEW at, NEW how,
         at \in {"idle"} \cup RunPcs \cup ReportPcs, how \in Outcomes, CallInv(image[c], at, how),
         pc' = [pc EXCEPT ![c] = at],
         outcome' = [outcome EXCEPT ![c] = how],
         image' = image,
         once' \in {"new", "running", "done"}, preferred' \in Backends, active' \in Backends,
         session' \in BOOLEAN, initError' \in BOOLEAN
  PROVE  ImageInv'
<1>1. image' = [image EXCEPT ![c] = image[c]]
  BY DEF ImageInv
<1> QED BY <1>1, CallStep

(* Inside of run() nothing happens to the buffers. *)
LEMMA RunStepImage ==
  ASSUME ImageInv, NEW c \in Callers, RunStep(c), UNCHANGED image
  PROVE  ImageInv'
<1>1. /\ pc[c] \in RunPcs /\ CallInv(image[c], pc[c], outcome[c])
      /\ pc' \in {[pc EXCEPT ![c] = at] : at \in RunPcs \cup {"inferred", "idle"}}
  BY DEF RunStep, EnterOnce, PassOnce, ChooseBackend, BuildSession, AcceptModel, InitFails,
         RethrowInitError, Initialized, InferenceFails, Infer, Goto, End, RunPcs, InitPcs, ImageInv
<1>2. PICK at \in RunPcs \cup {"inferred", "idle"} : pc' = [pc EXCEPT ![c] = at]
  BY <1>1
<1>3. \/ at # "idle" /\ outcome' = outcome
      \/ at = "idle" /\ outcome' = [outcome EXCEPT ![c] = "error"]
  <2>1. pc'[c] = at
    BY <1>2 DEF ImageInv, SessionTypes
  <2> QED BY <2>1 DEF RunStep, EnterOnce, PassOnce, ChooseBackend, BuildSession, AcceptModel, InitFails,
         RethrowInitError, Initialized, InferenceFails, Infer, Goto, End, ImageInv, SessionTypes
<1>4. /\ once' \in {"new", "running", "done"} /\ preferred' \in Backends /\ active' \in Backends
      /\ session' \in BOOLEAN /\ initError' \in BOOLEAN
  BY DEF RunStep, EnterOnce, PassOnce, ChooseBackend, BuildSession, AcceptModel, InitFails,
         RethrowInitError, Initialized, InferenceFails, Infer, ImageInv, SessionTypes, initVars
<1>5. Prepared(image[c]) /\ outcome[c] = "none"
  BY <1>1 DEF CallInv, RunPcs, InitPcs
<1>6. at \in {"idle"} \cup RunPcs \cup ReportPcs
  BY DEF ReportPcs
<1>7. CASE at # "idle" /\ outcome' = outcome
  <2>1. outcome' = [outcome EXCEPT ![c] = "none"]
    BY <1>5, <1>7 DEF ImageInv, SessionTypes
  <2>2. CallInv(image[c], at, "none")
    BY <1>5, <1>7 DEF CallInv, RunPcs, InitPcs
  <2> QED BY <1>2, <1>4, <1>6, <2>1, <2>2, PcStep DEF Outcomes
<1>8. CASE at = "idle" /\ outcome' = [outcome EXCEPT ![c] = "error"]
  <2>1. CallInv(image[c], "idle", "error")
    BY <1>5 DEF CallInv, RunPcs, InitPcs
  <2> QED BY <1>2, <1>4, <1>6, <1>8, <2>1, PcStep DEF Outcomes
<1> QED BY <1>3, <1>7, <1>8

LEMMA RefusedImage ==
  ASSUME ImageInv, NEW c \in Callers, NEW w, NEW h, Refused(c, w, h)
  PROVE  ImageInv'
<1>1. CallInv(NoImage, "idle", "error")
  BY DEF CallInv, RunPcs, InitPcs
<1> QED BY <1>1, CallStep DEF Refused, End, Outcomes, ImageInv, SessionTypes, initVars

LEMMA CallImage ==
  ASSUME ImageInv, NEW c \in Callers, NEW w \in Widths, NEW h \in Heights, Call(c, w, h)
  PROVE  ImageInv'
<1>1. w \in Nat \ {0} /\ h \in Nat \ {0}
  <2>1. w \in Int /\ h \in Int
    BY LamaTilerAssumption
  <2>2. w > 0 /\ h > 0
    BY DEF Call
  <2> QED BY <2>1, <2>2
<1>2. PICK mask \in {Pixels(w, h), {p \in Pixels(w, h) : p[1] % 2 = 1}, {}} :
        image' = [image EXCEPT ![c] = [NoImage EXCEPT !.w = w, !.h = h, !.mask = mask]]
  BY DEF Call
<1> DEFINE i == [NoImage EXCEPT !.w = w, !.h = h, !.mask = mask]
<1>3. mask \subseteq Pixels(w, h)
  BY <1>2
<1>4. /\ i \in [w : {w}, h : {h}, mask : {mask}, canvas : {NoCanvas}, out : {Untouched}]
      /\ i.w = w /\ i.h = h /\ i.mask = mask /\ i.canvas = NoCanvas /\ i.out = Untouched
  <2>1. NoImage \in [w : {0}, h : {0}, mask : {{}}, canvas : {NoCanvas}, out : {Untouched}]
    BY DEF NoImage, NoCanvas
  <2> QED BY <2>1
<1>5. image' = [image EXCEPT ![c] = i]
  BY <1>2
<1> HIDE DEF i
<1>6. Called(i)
  BY <1>1, <1>3, <1>4 DEF Called, Asked
<1>7. CallInv(i, "report 0.0", "none")
  BY <1>6 DEF CallInv, RunPcs, InitPcs
<1> QED BY <1>5, <1>7, CallStep DEF Call, Outcomes, ReportPcs, ImageInv, SessionTypes, initVars

LEMMA PrepareImage ==
  ASSUME ImageInv, NEW c \in Callers, Prepare(c)
  PROVE  ImageInv'
<1>1. pc[c] = "report 0.0" /\ Called(image[c]) /\ outcome[c] = "none"
  BY DEF Prepare, ImageInv, CallInv
<1> DEFINE canvas == Canvas(image[c].w, image[c].h)
           i == [image[c] EXCEPT !.canvas = canvas]
<1>2. image' = [image EXCEPT ![c] = i]
  BY DEF Prepare, ImageInv
<1> HIDE DEF canvas
<1>3. /\ i.w = image[c].w /\ i.h = image[c].h /\ i.mask = image[c].mask
      /\ i.canvas = canvas /\ i.out = image[c].out
      /\ i \in [w : {i.w}, h : {i.h}, mask : {i.mask}, canvas : {i.canvas}, out : {i.out}]
  BY <1>1 DEF Called, Asked
<1> HIDE DEF i
<1>4. Prepared(i)
  BY <1>1, <1>3 DEF Called, Prepared, Asked, canvas
<1>5. CallInv(i, "report 0.2", "none")
  BY <1>4 DEF CallInv
<1>6. outcome' = [outcome EXCEPT ![c] = "none"] /\ pc' = [pc EXCEPT ![c] = "report 0.2"]
  BY <1>1 DEF Prepare, Goto, ImageInv, SessionTypes
<1> QED BY <1>2, <1>5, <1>6, CallStep DEF Prepare, Outcomes, ReportPcs, ImageInv, SessionTypes, initVars

LEMMA ComposeImage ==
  ASSUME ImageInv, NEW c \in Callers, Compose(c)
  PROVE  ImageInv'
<1>1. pc[c] = "inferred" /\ Prepared(image[c]) /\ outcome[c] = "none"
  BY DEF Compose, ImageInv, CallInv
<1> DEFINE out == Composite(image[c].w, image[c].h, image[c].mask, image[c].canvas)
           i == [image[c] EXCEPT !.out = out]
<1>2. image' = [image EXCEPT ![c] = i]
  BY DEF Compose, ImageInv
<1> HIDE DEF out
<1>3. /\ i.w = image[c].w /\ i.h = image[c].h /\ i.mask = image[c].mask
      /\ i.canvas = image[c].canvas /\ i.out = out
      /\ i \in [w : {i.w}, h : {i.h}, mask : {i.mask}, canvas : {i.canvas}, out : {i.out}]
  BY <1>1 DEF Prepared, Asked
<1> HIDE DEF i
<1>4. Composed(i)
  BY <1>1, <1>3 DEF Prepared, Composed, Asked, out
<1>5. CallInv(i, "report 1.0", "none")
  BY <1>4 DEF CallInv, RunPcs, InitPcs
<1>6. outcome' = [outcome EXCEPT ![c] = "none"] /\ pc' = [pc EXCEPT ![c] = "report 1.0"]
  BY <1>1 DEF Compose, Goto, ImageInv, SessionTypes
<1> QED BY <1>2, <1>5, <1>6, CallStep DEF Compose, Outcomes, ReportPcs, ImageInv, SessionTypes, initVars

LEMMA CallGoesOn ==
  ASSUME ImageInv, NEW c \in Callers, Cancelled(c) \/ CallRun(c) \/ Returns(c)
  PROVE  ImageInv'
<1>1. CallInv(image[c], pc[c], outcome[c]) /\ UNCHANGED <<initVars, image>>
  BY DEF ImageInv, Cancelled, CallRun, Returns
<1>2. /\ once' \in {"new", "running", "done"} /\ preferred' \in Backends /\ active' \in Backends
      /\ session' \in BOOLEAN /\ initError' \in BOOLEAN
  BY <1>1 DEF ImageInv, SessionTypes, initVars
<1>3. CASE Cancelled(c)
  <2>1. CallInv(image[c], "idle", "cancelled")
    BY <1>1 DEF CallInv, RunPcs, InitPcs
  <2> QED BY <1>1, <1>2, <1>3, <2>1, PcStep DEF Cancelled, End, Outcomes
<1>4. CASE CallRun(c)
  <2>1. CallInv(image[c], "ensure", "none")
    BY <1>1, <1>4 DEF CallInv, CallRun, RunPcs
  <2>2. outcome' = [outcome EXCEPT ![c] = "none"]
    BY <1>1, <1>4 DEF CallRun, Goto, CallInv, ImageInv, SessionTypes
  <2> QED BY <1>1, <1>2, <1>4, <2>1, <2>2, PcStep DEF CallRun, Goto, Outcomes, RunPcs
<1>5. CASE Returns(c)
  <2>1. CallInv(image[c], "idle", "ok")
    BY <1>1, <1>5 DEF CallInv, Returns, RunPcs, InitPcs
  <2> QED BY <1>1, <1>2, <1>5, <2>1, PcStep DEF Returns, End, Outcomes
<1> QED BY <1>3, <1>4, <1>5

LEMMA ImageStep == ImageInv /\ [Next]_vars => ImageInv'
<1> SUFFICES ASSUME ImageInv, [Next]_vars PROVE ImageInv'
  OBVIOUS
<1>1. CASE UNCHANGED vars
  BY <1>1 DEF vars, sessionVars, initVars, ImageInv, SessionTypes
<1> QED BY <1>1, RefusedImage, CallImage, PrepareImage, ComposeImage, CallGoesOn, RunStepImage
        DEF Next, InpaintStep

LEMMA ImageInit == Init => ImageInv
  BY DEF Init, SessionInit, ImageInv, SessionTypes, CallInv, Outcomes, RunPcs, InitPcs, Backends

LEMMA Images == Spec => []ImageInv
  BY ImageInit, ImageStep, PTL DEF Spec

(* What the buffers hold, whatever the stage of the call *)
LEMMA Buffers ==
  ASSUME ImageInv, NEW c \in Callers
  PROVE  LET i == image[c] IN
           \/ i = NoImage /\ outcome[c] # "ok"
           \/ /\ i.w \in Nat \ {0} /\ i.h \in Nat \ {0} /\ i.mask \in SUBSET Pixels(i.w, i.h)
              /\ i.canvas \in {NoCanvas, Canvas(i.w, i.h)}
              /\ \/ i.out = Untouched /\ outcome[c] # "ok"
                 \/ /\ i.canvas = Canvas(i.w, i.h)
                    /\ i.out = Composite(i.w, i.h, i.mask, i.canvas)
<1>1. CallInv(image[c], pc[c], outcome[c])
  BY DEF ImageInv
<1> QED BY <1>1 DEF CallInv, Called, Prepared, Composed, Asked

(* No position leaves the buffer that it indexes, for images and canvases  *)
(* of any size: footprints keep to the source, the scaled image to kN.     *)
THEOREM StaysInside == Spec => []TypeOK
<1>1. ImageInv => TypeOK
  <2> SUFFICES ASSUME ImageInv, NEW c \in Callers
               PROVE  LET i == image[c] IN
                        /\ DOMAIN i.canvas \subseteq Pixels(Side, Side)
                        /\ \A u \in DOMAIN i.canvas :
                              i.canvas[u] # {} /\ i.canvas[u] \subseteq Pixels(i.w, i.h)
    BY DEF ImageInv, SessionTypes, TypeOK
  <2> DEFINE i == image[c]
  <2>1. \/ DOMAIN i.canvas = {}
        \/ i.w \in Nat \ {0} /\ i.h \in Nat \ {0} /\ i.canvas = Canvas(i.w, i.h)
    <3>1. DOMAIN NoImage.canvas = {} /\ DOMAIN NoCanvas = {}
      BY DEF NoImage, NoCanvas
    <3> QED BY <3>1, Buffers
  <2> HIDE DEF i
  <2>2. /\ DOMAIN i.canvas \subseteq Pixels(Side, Side)
        /\ \A u \in DOMAIN i.canvas : i.canvas[u] # {} /\ i.canvas[u] \subseteq Pixels(i.w, i.h)
    BY <2>1, CanvasInside
  <2> QED BY <2>2 DEF i
<1> QED BY <1>1, Images, PTL

(* composite_masked: a pixel outside of the mask is the source's own, one  *)
(* inside comes from the network's image and never from the padding.       *)
THEOREM KeepsUnmasked == Spec => []Composited
<1>1. ImageInv => Composited
  <2> SUFFICES ASSUME ImageInv, NEW c \in Callers
               PROVE  LET i == image[c] IN
                        /\ outcome[c] = "ok" => i.out # Untouched
                        /\ i.out # Untouched =>
                             \A p \in Pixels(i.w, i.h) :
                               IF p \in i.mask
                               THEN i.out[p].net /\ i.out[p].at # {} /\ i.out[p].at \subseteq DOMAIN i.canvas
                               ELSE i.out[p] = FromSource(p)
    BY DEF Composited
  <2> DEFINE i == image[c]
  <2>1. \/ i.out = Untouched /\ outcome[c] # "ok"
        \/ /\ i.w \in Nat \ {0} /\ i.h \in Nat \ {0} /\ i.mask \in SUBSET Pixels(i.w, i.h)
           /\ i.canvas = Canvas(i.w, i.h) /\ i.out = Composite(i.w, i.h, i.mask, i.canvas)
    <3>1. NoImage.out = Untouched
      BY DEF NoImage
    <3> QED BY <3>1, Buffers
  <2> HIDE DEF i
  <2>2. CASE i.out = Untouched /\ outcome[c] # "ok"
    BY <2>2 DEF i
  <2>3. CASE /\ i.w \in Nat \ {0} /\ i.h \in Nat \ {0} /\ i.mask \in SUBSET Pixels(i.w, i.h)
             /\ i.canvas = Canvas(i.w, i.h) /\ i.out = Composite(i.w, i.h, i.mask, i.canvas)
    <3>1. /\ i.out # Untouched
          /\ \A p \in Pixels(i.w, i.h) :
               IF p \in i.mask
               THEN i.out[p].net /\ i.out[p].at # {} /\ i.out[p].at \subseteq DOMAIN i.canvas
               ELSE i.out[p] = FromSource(p)
      BY <2>3, CompositeRight
    <3> QED BY <3>1 DEF i
  <2> QED BY <2>1, <2>2, <2>3
<1> QED BY <1>1, Images, PTL

(* What a masked pixel shows was asked for because of that pixel, at any   *)
(* size up to twice the canvas: the two samplings undo each other.         *)
THEOREM ShowsWhatWasAsked == Spec => []ShownWhereAsked
<1>1. ImageInv => ShownWhereAsked
  <2> SUFFICES ASSUME ImageInv, NEW c \in Callers, outcome[c] = "ok",
                      Bigger(image[c].w, image[c].h) <= 2 * Side
               PROVE  \A p \in image[c].mask : \E u \in image[c].out[p].at : p \in image[c].canvas[u]
    BY DEF ShownWhereAsked
  <2> DEFINE i == image[c]
  <2>1. \/ i.out = Untouched /\ outcome[c] # "ok"
        \/ /\ i.w \in Nat \ {0} /\ i.h \in Nat \ {0} /\ i.mask \in SUBSET Pixels(i.w, i.h)
           /\ i.canvas = Canvas(i.w, i.h) /\ i.out = Composite(i.w, i.h, i.mask, i.canvas)
    <3>1. NoImage.out = Untouched
      BY DEF NoImage
    <3> QED BY <3>1, Buffers
  <2>2. Bigger(i.w, i.h) <= 2 * Side
    OBVIOUS
  <2> HIDE DEF i
  <2>3. \A p \in i.mask : \E u \in i.out[p].at : p \in i.canvas[u]
    BY <2>1, <2>2, CompositeRight
  <2> QED BY <2>3 DEF i
<1> QED BY <1>1, Images, PTL
=============================================================================
