----------------------------- MODULE MCCacheKey -----------------------------
(* Small values for CacheKey: text that looks like tags and sizes, paths    *)
(* with either slash and with white space at the end, states of AIGenerate  *)
(* that differ from a usual one in at most two places, and every list of up *)
(* to two fields.                                                           *)
EXTENDS CacheKey

MCTexts == {<<>>, <<1>>, <<1, 1>>, <<Backslash>>, <<Slash>>} \cup {<<1, b>> : b \in Blanks}
MCLoraStacks ==
  {<<>>, <<[path |-> <<Backslash>>, weight |-> 1]>>, <<[path |-> <<Slash>>, weight |-> 1]>>,
   <<[path |-> <<1>>, weight |-> 1], [path |-> <<1>>, weight |-> 0]>>,
   <<[path |-> <<1>>, weight |-> 0], [path |-> <<1>>, weight |-> 1]>>}

Usual ==
  [modelType |-> 1, prompt |-> <<1>>, negative |-> <<>>, size |-> 1, cfg |-> 1, seed |-> 1,
   models |-> <<1>>, loras |-> <<>>, strength |-> 1, input |-> <<>>, controlNet |-> <<1>>,
   controlStrength |-> 1, controlInput |-> <<>>]

Candidates ==
  [modelType |-> Numbers, prompt |-> Texts, negative |-> Texts, size |-> Numbers, cfg |-> Numbers,
   seed |-> Numbers, models |-> Texts, loras |-> LoraStacks, strength |-> Numbers,
   input |-> Inputs, controlNet |-> Texts, controlStrength |-> Numbers, controlInput |-> Inputs]

OneChanged(g) == UNION {{[g EXCEPT ![f] = v] : v \in Candidates[f]} : f \in DOMAIN Candidates}

MCGenerateStates == UNION {OneChanged(g) : g \in OneChanged(Usual)}

MCFields ==
  {Field("string", t) : t \in {<<>>, <<1>>, <<2>>, <<1, 0>>, <<0, 2>>, <<1, 1, 1>>}}
    \cup {Field(tag, v) : tag \in {"int32", "float", "bool"}, v \in {0, 1}}
    \cup {Field(tag, v) : tag \in {"int64", "double", "op_hash"}, v \in {0, 1, 8}}

MCFieldLists == {<<f>> : f \in MCFields} \cup {<<f, g>> : f \in MCFields, g \in MCFields}
=============================================================================
