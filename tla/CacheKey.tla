------------------------------ MODULE CacheKey ------------------------------
(***************************************************************************)
(* CacheKeyBuilder of core/src/ai_cache.cpp over Sha256, and the fields    *)
(* that compute_cache_key of AIGenerate and of AISmartFill hand to it.     *)
(* Text is a sequence of bytes; numbers stand for their bit patterns.  An  *)
(* input is <<>> when nothing is connected, else <<the hash of its op>>.   *)
(***************************************************************************)
EXTENDS Sha256, SequencesExt

CONSTANTS
  WordLen,         \* bytes written by put_u32 (4)
  Backslash, Slash, \* as bytes
  Blanks,          \* bytes that are white space
  Texts,           \* what prompts and paths hold
  Numbers,         \* what numeric knobs hold
  Hashes,          \* of ops that are connected; never 0
  LoraStacks,      \* what parse_loras returns: sequences of [path, weight]
  GenerateStates,  \* states of an AIGenerate node that keys are computed for
  FieldLists,      \* fields given to a builder directly
  MaxKeys          \* bound: calls of finalize()

WordSize == Radix ^ WordLen
Inputs == {<<>>} \cup {<<h>> : h \in Hashes}

AnyGenerateState ==
  [modelType : Numbers, prompt : Texts, negative : Texts, size : Numbers, cfg : Numbers,
   seed : Numbers, models : Texts, loras : LoraStacks, strength : Numbers, input : Inputs,
   controlNet : Texts, controlStrength : Numbers, controlInput : Inputs]

SmartFillStates ==
  [source : Inputs, mask : Inputs, threshold : Numbers, backend : Numbers, model : Texts]

Strings == {t \in Seq(Byte) : Len(t) < WordSize}

(* What the overloads of add() take *)
Fields ==
  [tag : {"string"}, value : Strings]
    \cup [tag : {"int32", "float"}, value : 0 .. WordSize - 1]
    \cup [tag : {"int64", "double", "op_hash"}, value : 0 .. WordSize * WordSize - 1]
    \cup [tag : {"bool"}, value : 0 .. 1]

ASSUME CacheKeyAssumption ==
  /\ WordLen \in Nat \ {0} /\ MaxKeys \in Nat
  /\ 7 \in Byte  \* the largest tag of a field
  /\ Backslash \in Byte /\ Slash \in Byte
  /\ Texts \subseteq Strings
  /\ Numbers \subseteq 0 .. WordSize - 1
  /\ Hashes \subseteq 1 .. WordSize * WordSize - 1
  /\ LoraStacks \subseteq {l \in Seq([path : Texts, weight : Numbers]) : Len(l) < WordSize}
  /\ GenerateStates \subseteq AnyGenerateState
  /\ FieldLists \subseteq Seq(Fields) \ {<<>>}

(* What it is to be a power, as far as the words go *)
ASSUME WordAssumption ==
  /\ Radix ^ 0 = 1
  /\ \A i \in 0 .. WordLen - 1 : Radix ^ (i + 1) = Radix * Radix ^ i

VARIABLES
  request,         \* what the key is computed for
  pieces,          \* arguments of update() that are still to come
  keys             \* finished keys

vars == <<shaVars, request, pieces, keys>>

-----------------------------------------------------------------------------
(* CacheKeyBuilder: what the overloads of add() feed to the hasher *)

Field(tag, value) == [tag |-> tag, value |-> value]
Str(text)    == Field("string", text)
Int32(v)     == Field("int32", v)
Int64(v)     == Field("int64", v)
Float(v)     == Field("float", v)
OpHash(h)    == Field("op_hash", h)

Tag(t) ==
  CASE t = "string" -> 1 [] t = "int32" -> 2 [] t = "int64" -> 3 [] t = "float" -> 4
    [] t = "double" -> 5 [] t = "bool" -> 6 [] t = "op_hash" -> 7

(* put_u32, least significant byte first *)
Word(v) == [i \in 1 .. WordLen |-> (v \div Radix ^ (i - 1)) % Radix]

(* Mutant: the size of a string is not part of the key. *)
PiecesUnsized(f) ==
  CASE f.tag = "string" -> << <<Tag(f.tag)>>, f.value >>
    [] f.tag \in {"int32", "float"} -> << <<Tag(f.tag)>>, Word(f.value) >>
    [] f.tag \in {"int64", "double", "op_hash"} ->
         << <<Tag(f.tag)>>, Word(f.value % WordSize), Word(f.value \div WordSize) >>
    [] f.tag = "bool" -> << <<Tag(f.tag)>>, <<f.value>> >>

Pieces(f) ==
  CASE f.tag = "string" -> << <<Tag(f.tag)>>, Word(Len(f.value) % WordSize), f.value >>
    [] f.tag \in {"int32", "float"} -> << <<Tag(f.tag)>>, Word(f.value) >>
    [] f.tag \in {"int64", "double", "op_hash"} ->
         << <<Tag(f.tag)>>, Word(f.value % WordSize), Word(f.value \div WordSize) >>
    [] f.tag = "bool" -> << <<Tag(f.tag)>>, <<f.value>> >>

-----------------------------------------------------------------------------
(* compute_cache_key.  The literals are told apart as the program's are.   *)

Literal ==
  [generate |-> <<1, 1>>, smartfill |-> <<1, 2>>, loras |-> <<2>>, img2img |-> <<2, 1>>,
   controlnet |-> <<2, 2>>, no_input |-> <<1>>]

LoraFields(loras) ==
  <<Str(Literal.loras), Int32(Len(loras))>>
    \o FlattenSeq([i \in 1 .. Len(loras) |-> <<Str(loras[i].path), Float(loras[i].weight)>>])

(* An input's part of the key *)
Connected(input) == IF input = <<>> THEN <<Str(Literal.no_input)>> ELSE <<Int64(input[1])>>

(* normalize_path of AIGenerate, and that of AISmartFill, which also takes *)
(* white space off the end                                                 *)
ForwardSlashes(path) ==
  [i \in 1 .. Len(path) |-> IF path[i] = Backslash THEN Slash ELSE path[i]]

Trimmed(path) ==
  SubSeq(path, 1, Min({n \in 0 .. Len(path) : \A i \in n + 1 .. Len(path) : path[i] \in Blanks}))

(* A node whose paths are as normalize_path writes them *)
Slashed(g) ==
  [g EXCEPT !.models = ForwardSlashes(g.models),
            !.controlNet = ForwardSlashes(g.controlNet),
            !.loras = [i \in 1 .. Len(g.loras) |->
                         [path |-> ForwardSlashes(g.loras[i].path), weight |-> g.loras[i].weight]]]

(* AIGenerate; size stands for width, height and steps, models for the four *)
(* paths that every key has.                                               *)
SlashedFields(g) ==
  <<Str(Literal.generate), Int32(g.modelType), Str(g.prompt), Str(g.negative), Int32(g.size),
    Float(g.cfg), Int64(g.seed), Str(g.models)>>
    \o LoraFields(g.loras)
    \o <<Str(Literal.img2img)>>
    \o (IF g.input = <<>> THEN <<>> ELSE <<Float(g.strength)>>)
    \o Connected(g.input)
    \o <<Str(Literal.controlnet), Str(g.controlNet)>>
    \o (IF g.controlNet = <<>> THEN <<>>
        ELSE <<Float(g.controlStrength)>> \o Connected(g.controlInput))

GenerateFields(g) == SlashedFields(Slashed(g))

HashOf(input) == OpHash(IF input = <<>> THEN 0 ELSE input[1])

(* AISmartFill *)
Cleaned(s) == [s EXCEPT !.model = ForwardSlashes(Trimmed(s.model))]

CleanedFields(s) ==
  <<Str(Literal.smartfill), HashOf(s.source), HashOf(s.mask), Float(s.threshold),
    Int32(s.backend), Str(s.model)>>

SmartFillFields(s) == CleanedFields(Cleaned(s))

Request(by, of) == [by |-> by, of |-> of]

Requests ==
  {Request("AIGenerate", g) : g \in GenerateStates}
    \cup {Request("AISmartFill", s) : s \in SmartFillStates}
    \cup {Request("builder", fields) : fields \in FieldLists}

FieldsOf(r) ==
  CASE r.by = "AIGenerate" -> GenerateFields(r.of)
    [] r.by = "AISmartFill" -> SmartFillFields(r.of)
    [] r.by = "builder" -> r.of

Calls(r) == LET fields == FieldsOf(r) IN FlattenSeq([i \in 1 .. Len(fields) |-> Pieces(fields[i])])

-----------------------------------------------------------------------------
NoRequest == Request("none", <<>>)

Init ==
  /\ ShaInit
  /\ request = NoRequest
  /\ pieces = <<>>
  /\ keys = 0

(* The first add() of a key *)
Begin(r) ==
  LET calls == Calls(r) IN
  /\ request = NoRequest \/ digest # <<>>
  /\ keys < MaxKeys
  /\ Update(Head(calls))
  /\ request' = r
  /\ pieces' = Tail(calls)
  /\ UNCHANGED keys

Feed ==
  /\ pieces # <<>>
  /\ Update(Head(pieces))
  /\ pieces' = Tail(pieces)
  /\ UNCHANGED <<request, keys>>

Hash == Absorb /\ UNCHANGED <<request, pieces, keys>>

(* CacheKeyBuilder::finalize(); to_hex only spells the digest. *)
Finish ==
  /\ request # NoRequest
  /\ pieces = <<>>
  /\ digest = <<>>
  /\ Finalize
  /\ keys' = keys + 1
  /\ UNCHANGED <<request, pieces>>

Next == (\E r \in Requests : Begin(r)) \/ Feed \/ Hash \/ Finish

Spec == Init /\ [][Next]_vars

-----------------------------------------------------------------------------
(* Bytes are bytes, and the hasher's buffer and counter keep to their size. *)
TypeOK ==
  /\ state \in Seq(Byte) /\ buffer \in Seq(Byte) /\ data \in Seq(Byte)
  /\ Len(buffer) < ChunkLen
  /\ bitLength \in 0 .. Radix ^ LengthLen - 1
  /\ keys \in 0 .. MaxKeys
  /\ request \in Requests \cup {NoRequest}

(* What start_bake of AIGenerate hands to the job: a strength only counts  *)
(* where an image is given, and the ControlNet is dropped when its input   *)
(* is not connected.  The model type only chooses default paths.           *)
Given(g) ==
  [prompt |-> g.prompt, negative |-> g.negative, size |-> g.size, cfg |-> g.cfg, seed |-> g.seed,
   models |-> g.models, loras |-> g.loras,
   init |-> IF g.input = <<>> THEN <<>> ELSE <<g.input, g.strength>>,
   control |-> IF g.controlNet = <<>> \/ g.controlInput = <<>> THEN <<>>
               ELSE <<g.controlNet, g.controlInput, g.controlStrength>>]

(* Requests that may have the same key: bakes of the same image, where a   *)
(* path names the same file with either slash, as it does on Windows.      *)
MayShare(r, q) ==
  \/ {r.by, q.by} = {"AIGenerate"} /\ Given(Slashed(r.of)) = Given(Slashed(q.of))
  \/ {r.by, q.by} = {"AISmartFill"} /\ Cleaned(r.of) = Cleaned(q.of)
  \/ "builder" \in {r.by, q.by} /\ FieldsOf(r) = FieldsOf(q)

(* Requests that must: they differ at most in how a path is spelled.       *)
MustShare(r, q) ==
  \/ {r.by, q.by} = {"AIGenerate"} /\ Slashed(r.of) = Slashed(q.of)
  \/ {r.by, q.by} = {"AISmartFill"} /\ Cleaned(r.of) = Cleaned(q.of)
  \/ "builder" \in {r.by, q.by} /\ FieldsOf(r) = FieldsOf(q)

Message == [r \in Requests |-> FlattenSeq(Calls(r))]

(* "The same fields fed in the same order produce the same key", however   *)
(* the paths were typed; and two bakes, of either op, share a key only if  *)
(* they would make the same image, so that no cached image is taken for    *)
(* another.  Of the lists of fields a builder may be given directly, no    *)
(* two share a key ("cannot collide"), even in one that has made a key     *)
(* before.                                                                 *)
KeysTellApart ==
  digest # <<>> =>
    \A r \in Requests :
      /\ Standard(Message[r], digest) => MayShare(r, request)
      /\ MustShare(r, request) => Standard(Message[r], digest)

(* The comment of compute_cache_key in AIGenerate.cpp: "When no input is   *)
(* connected, strength has no effect, but we still include both in the     *)
(* key".                                                                   *)
StrengthIsKeyed ==
  digest # <<>> /\ request.by = "AIGenerate" =>
    \A g \in GenerateStates :
      Standard(Message[Request("AIGenerate", g)], digest) => g.strength = request.of.strength
=============================================================================
