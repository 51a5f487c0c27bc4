-------------------------- MODULE SdSessionProofs --------------------------
(***************************************************************************)
(* Proofs about SdSession under its contract, for any threads, files and   *)
(* number of sampling steps.  The invariant says what a call in each place *)
(* may rely on while it is the only one inside; the step lemma is about    *)
(* SessionStep alone, so that a module which drives the session in another *)
(* way can use it where no two calls overlap.                              *)
(***************************************************************************)
EXTENDS SdSession, TLAPS

(* "Calls of several threads do not interleave." *)
OneInside == \A a, b \in Callers : ~ In(a, "idle") /\ ~ In(b, "idle") => a = b

(* Before generate() nothing has happened that its result depends on.      *)
FreshInv(c) ==
  call[c].pc \in {"ensure", "free", "freeing", "store", "creating", "loaded", "installed"} =>
    /\ ~ call[c].told /\ ~ call[c].freed
    /\ call[c].steps = 0 /\ call[c].result = Pending

(* Between the free and new_sd_ctx there is no context; from the store on  *)
(* the stored paths are those of the call, and what is sampled with is the *)
(* context of these.                                                       *)
PathsInv(c) ==
  /\ call[c].pc # "idle" => call[c].paths \in Paths
  /\ call[c].pc \in {"store", "creating"} => session.ctx = NoPaths
  /\ call[c].pc \notin {"idle", "ensure", "free", "freeing", "store"} =>
       session.paths = call[c].paths
  /\ call[c].pc = "installed" => session.ctx = call[c].paths

(* From Install to the end of generate_image the callback is the call's.   *)
CallbackInv(c) ==
  call[c].pc \in {"installed", "sampling"} =>
    cb.inUse /\ cb.callback = c /\ call[c].result = Pending

(* Whoever samples does so alone, with a living context of its own files.  *)
SamplingInv(c) ==
  Sampling(c) => ~ call[c].freed /\ call[c].alone /\ call[c].ctx = call[c].paths

(* The cancel flag is up only for this call, and for good.                 *)
CancelInv(c) ==
  call[c].pc \in {"installed", "sampling", "detached"} =>
    /\ call[c].told => cb.cancel
    /\ cb.cancel => call[c].cancel \/ call[c].asked

(* What is to be returned. *)
ResultInv(c) ==
  /\ In(c, "idle") => call[c].result = Pending
  /\ In(c, "detached") => call[c].result \in {Image(call[c].paths), Failed}
  /\ In(c, "returned") =>
       /\ call[c].result.kind = "image" => call[c].result.made = call[c].paths /\ ~ call[c].told
       /\ call[c].result.kind = "cancelled" => call[c].cancel \/ call[c].asked

CallInv(c) ==
  FreshInv(c) /\ PathsInv(c) /\ CallbackInv(c) /\ SamplingInv(c) /\ CancelInv(c) /\ ResultInv(c)

(* The session's pointer is to freed memory only while the free is on.     *)
DanglingInv == session.dangling => \E c \in Callers : In(c, "freeing")

SessionInv ==
  SessionTypeOK /\ LoadedIsContext /\ DanglingInv /\ OneInside /\ \A c \in Callers : CallInv(c)

SessionRecords == [ctx : OptPaths, dangling : BOOLEAN, loaded : BOOLEAN, paths : OptPaths]
CbRecords == [inUse : BOOLEAN, callback : Callers \cup {NoCaller}, cancel : BOOLEAN]
CallRecords ==
  [pc : {"idle", "ensure", "free", "freeing", "store", "creating", "loaded",
         "installed", "sampling", "detached", "returned"},
   paths : OptPaths, ctx : OptPaths, held : BOOLEAN, freed : BOOLEAN, alone : BOOLEAN,
   steps : 0 .. Steps, cancel : BOOLEAN, told : BOOLEAN, asked : BOOLEAN,
   result : Results]

-----------------------------------------------------------------------------
(* Types of the values that calls are given *)

LEMMA Typed ==
  SessionTypeOK <=>
    session \in SessionRecords /\ cb \in CbRecords /\ call \in [Callers -> CallRecords]
  BY DEF SessionTypeOK, SessionRecords, CbRecords, CallRecords

LEMMA TypedNext ==
  ASSUME session' \in SessionRecords, cb' \in CbRecords, call' \in [Callers -> CallRecords]
  PROVE  SessionTypeOK'
  BY DEF SessionTypeOK, SessionRecords, CbRecords, CallRecords

LEMMA ResultTypes ==
  /\ Pending \in Results /\ Failed \in Results /\ CancelledResult \in Results
  /\ \A p \in OptPaths : Image(p) \in Results
  /\ Pending.kind = "pending" /\ Failed.kind = "failed"
  /\ CancelledResult.kind = "cancelled"
  /\ \A p \in OptPaths : Image(p).kind = "image" /\ Image(p).made = p
  BY DEF Results, Pending, Failed, CancelledResult, Image, OptPaths

LEMMA NoCallType == NoCall \in CallRecords
  BY ResultTypes, SessionAssumption DEF NoCall, CallRecords, OptPaths

LEMMA EnteredType ==
  \A p \in Paths : Entered(p) \in CallRecords /\ Entered(p).pc = "ensure" /\ Entered(p).paths = p
  BY NoCallType DEF Entered, CallRecords, OptPaths, NoCall

LEMMA SessionInitInv == SessionInit => SessionInv
<1> SUFFICES ASSUME SessionInit PROVE SessionInv
  OBVIOUS
<1>1. SessionTypeOK
  BY NoCallType DEF SessionInit, NoSession, SessionTypeOK, CallRecords, OptPaths
<1>2. \A c \in Callers : call[c].pc = "idle" /\ call[c].result = Pending
  BY DEF SessionInit, NoCall
<1>3. \A c \in Callers : CallInv(c)
  BY <1>2 DEF CallInv, FreshInv, PathsInv, CallbackInv, SamplingInv, Sampling, CancelInv, ResultInv, In
<1>4. LoadedIsContext /\ DanglingInv
  BY DEF SessionInit, NoSession, LoadedIsContext, DanglingInv
<1> QED BY <1>1, <1>2, <1>3, <1>4 DEF SessionInv, OneInside, In

-----------------------------------------------------------------------------
(* Frame: while one call moves all others are idle and stay as they are.   *)

OthersIdle(c) == \A o \in Callers \ {c} : In(o, "idle")

LEMMA IdleAround ==
  ASSUME SessionInv, NEW c \in Callers, ~ In(c, "idle")
  PROVE  OthersIdle(c)
  BY DEF SessionInv, OneInside, OthersIdle

(* What holds of the call at its step *)
LEMMA Inside ==
  ASSUME SessionInv, NEW c \in Callers
  PROVE  /\ call \in [Callers -> CallRecords] /\ call[c] \in CallRecords /\ CallInv(c)
         /\ session \in SessionRecords /\ cb \in CbRecords
         /\ NoPaths \in OptPaths
  BY Typed DEF SessionInv, OptPaths

LEMMA NotDangling ==
  ASSUME SessionInv, NEW c \in Callers, OthersIdle(c), session.dangling
  PROVE  In(c, "freeing")
  BY DEF SessionInv, DanglingInv, OthersIdle, In

LEMMA CallReplaced ==
  ASSUME SessionInv, NEW c \in Callers, NEW new, SetCall(c, new)
  PROVE  call'[c] = new /\ \A o \in Callers \ {c} : call'[o] = call[o]
  BY Inside DEF SetCall

(* One call is given a new record; what is left to show is about it.       *)
LEMMA OneMoved ==
  ASSUME SessionInv, NEW c \in Callers, OthersIdle(c),
         NEW new \in CallRecords, SetCall(c, new),
         session' \in SessionRecords, cb' \in CbRecords, LoadedIsContext',
         session'.dangling => new.pc = "freeing",
         CallInv(c)'
  PROVE  SessionInv'
<1>1. call'[c] = new /\ \A o \in Callers \ {c} : call'[o] = call[o]
  BY CallReplaced
<1>2. \A o \in Callers \ {c} : call'[o].pc = "idle" /\ call'[o].result = Pending
  BY <1>1, Inside DEF CallInv, ResultInv, OthersIdle, In
<1>3. OneInside' /\ DanglingInv'
  BY <1>1, <1>2 DEF OneInside, DanglingInv, In
<1>4. ASSUME NEW o \in Callers \ {c} PROVE CallInv(o)'
  BY <1>2, <1>4 DEF CallInv, FreshInv, PathsInv, CallbackInv, SamplingInv, Sampling, CancelInv, ResultInv, In
<1>5. SessionTypeOK'
  BY Inside, TypedNext DEF SetCall
<1> QED BY <1>3, <1>4, <1>5 DEF SessionInv

(* ... where the session and the callback stay as they are                 *)
LEMMA OnlyMoved ==
  ASSUME SessionInv, NEW c \in Callers, OthersIdle(c),
         NEW new \in CallRecords, SetCall(c, new), UNCHANGED <<session, cb>>,
         In(c, "freeing") => new.pc = "freeing",
         CallInv(c)'
  PROVE  SessionInv'
<1>1. LoadedIsContext'
  BY DEF SessionInv, LoadedIsContext
<1>2. session'.dangling => new.pc = "freeing"
  BY NotDangling
<1> QED BY <1>1, <1>2, Inside, OneMoved

LEMMA EnterInv ==
  ASSUME SessionInv, NEW c \in Callers, NEW p \in Paths, OthersIdle(c), ~ In(c, "freeing"),
         SetCall(c, Entered(p)), UNCHANGED <<session, cb>>
  PROVE  SessionInv'
<1>1. Entered(p) \in CallRecords /\ Entered(p).pc = "ensure" /\ Entered(p).paths = p
  BY EnteredType
<1>2. /\ ~ Entered(p).told /\ ~ Entered(p).freed
      /\ Entered(p).steps = 0 /\ Entered(p).result = Pending
  BY DEF Entered, NoCall
<1>3. call'[c] = Entered(p)
  BY CallReplaced
<1>4. CallInv(c)'
  BY <1>1, <1>2, <1>3 DEF CallInv, FreshInv, PathsInv, CallbackInv, SamplingInv, Sampling, CancelInv, ResultInv, In
<1> QED BY <1>1, <1>4, OnlyMoved

(* A call is given a record that is outside the session.                   *)
LEMMA LeaveInv ==
  ASSUME SessionInv, NEW c \in Callers, OthersIdle(c), ~ In(c, "freeing"),
         NEW new \in CallRecords, new.pc = "idle", new.result = Pending,
         SetCall(c, new), UNCHANGED <<session, cb>>
  PROVE  SessionInv'
<1>1. call'[c] = new
  BY CallReplaced
<1>2. CallInv(c)'
  BY <1>1 DEF CallInv, FreshInv, PathsInv, CallbackInv, SamplingInv, Sampling, CancelInv, ResultInv, In
<1> QED BY <1>2, OnlyMoved

LEMMA WantCancelInv ==
  ASSUME SessionInv, NEW c \in Callers, WantCancel(c)
  PROVE  SessionInv'
<1>1. call[c] \in CallRecords /\ CallInv(c) /\ UNCHANGED <<session, cb>>
  BY Inside DEF WantCancel
<1> DEFINE new == [call[c] EXCEPT !.cancel = TRUE]
<1>2. /\ new \in CallRecords
      /\ new.pc = call[c].pc /\ new.paths = call[c].paths /\ new.ctx = call[c].ctx
      /\ new.freed = call[c].freed /\ new.alone = call[c].alone /\ new.steps = call[c].steps
      /\ new.told = call[c].told /\ new.asked = call[c].asked /\ new.result = call[c].result
      /\ new.cancel
  BY <1>1 DEF CallRecords
<1>3. SetCall(c, new)
  BY DEF WantCancel
<1> HIDE DEF new
<1>4. call'[c] = new
  BY <1>3, CallReplaced
<1>5. CallInv(c)'
  BY <1>1, <1>2, <1>4 DEF CallInv, FreshInv, PathsInv, CallbackInv, SamplingInv, Sampling, CancelInv, ResultInv, In
<1>6. OthersIdle(c)
  BY IdleAround DEF WantCancel
<1> QED BY <1>1, <1>2, <1>3, <1>5, <1>6, OnlyMoved DEF In

LEMMA GenerateAgainInv ==
  ASSUME SessionInv, NEW c \in Callers, GenerateAgain(c)
  PROVE  SessionInv'
<1>1. call[c] \in CallRecords /\ In(c, "returned") /\ call[c].paths \in Paths
  BY Inside DEF GenerateAgain, CallInv, PathsInv, In
<1> DEFINE new == [Entered(call[c].paths) EXCEPT !.pc = "loaded"]
<1>2. /\ new \in CallRecords
      /\ new.pc = "loaded" /\ new.paths = call[c].paths
      /\ ~ new.told /\ ~ new.freed /\ new.steps = 0 /\ new.result = Pending
  BY <1>1, NoCallType DEF CallRecords, Entered, NoCall
<1>3. SetCall(c, new) /\ UNCHANGED <<session, cb>> /\ CallInv(c)
  BY Inside DEF GenerateAgain
<1> HIDE DEF new
<1>4. call'[c] = new
  BY <1>3, CallReplaced
<1>5. CallInv(c)'
  BY <1>1, <1>2, <1>3, <1>4 DEF CallInv, FreshInv, PathsInv, CallbackInv, SamplingInv, Sampling, CancelInv, ResultInv, In
<1>6. OthersIdle(c) /\ ~ In(c, "freeing")
  BY <1>1, IdleAround DEF In
<1> QED BY <1>2, <1>3, <1>5, <1>6, OnlyMoved

LEMMA RequestCancelInv ==
  ASSUME SessionInv, RequestCancel
  PROVE  SessionInv'
<1>1. cb' = [cb EXCEPT !.cancel = TRUE] /\ session' = session
  BY DEF RequestCancel
<1>2. /\ cb' \in CbRecords /\ session' \in SessionRecords
      /\ cb'.inUse = cb.inUse /\ cb'.callback = cb.callback /\ cb'.cancel
  BY <1>1, Typed DEF SessionInv, CbRecords
<1>3. ASSUME NEW c \in Callers
      PROVE  /\ call'[c] \in CallRecords
             /\ call'[c].pc = call[c].pc /\ call'[c].paths = call[c].paths
             /\ call'[c].ctx = call[c].ctx /\ call'[c].freed = call[c].freed
             /\ call'[c].alone = call[c].alone /\ call'[c].steps = call[c].steps
             /\ call'[c].cancel = call[c].cancel /\ call'[c].told = call[c].told
             /\ call'[c].result = call[c].result
             /\ call[c].asked => call'[c].asked
             /\ call[c].pc \in {"installed", "sampling", "detached"} => call'[c].asked
  <2>1. call[c] \in CallRecords
    BY Inside
  <2>2. call'[c] = IF call[c].pc \in {"installed", "sampling", "detached"}
                     THEN [call[c] EXCEPT !.asked = TRUE] ELSE call[c]
    BY DEF RequestCancel, In
  <2> QED BY <2>1, <2>2 DEF CallRecords
<1>4. call' \in [Callers -> CallRecords]
  <2>1. call' = [c \in Callers |-> call'[c]]
    BY DEF RequestCancel
  <2> QED BY <1>3, <2>1
<1>5. SessionTypeOK' /\ LoadedIsContext'
  BY <1>1, <1>2, <1>4, TypedNext DEF SessionInv, LoadedIsContext
<1>6. OneInside' /\ DanglingInv'
  BY <1>1, <1>3 DEF SessionInv, OneInside, DanglingInv, In
<1>7. ASSUME NEW c \in Callers PROVE CallInv(c)'
  <2>1. CallInv(c)
    BY DEF SessionInv
  <2> QED BY <1>1, <1>2, <1>3, <2>1 DEF CallInv, FreshInv, PathsInv, CallbackInv, SamplingInv, Sampling, CancelInv, ResultInv, In
<1> QED BY <1>5, <1>6, <1>7 DEF SessionInv

-----------------------------------------------------------------------------
(* The steps of a call that is inside alone *)

Pcs == {"idle", "ensure", "free", "freeing", "store", "creating", "loaded", "installed",
        "sampling", "detached", "returned"}

(* A step that only moves the call on *)
LEMMA MovedOn ==
  ASSUME SessionInv, NEW c \in Callers, ~ In(c, "idle"), NEW pc \in Pcs,
         SetCall(c, [call[c] EXCEPT !.pc = pc]),
         session' \in SessionRecords, cb' \in CbRecords, LoadedIsContext',
         session'.dangling => pc = "freeing"
  PROVE  /\ call'[c].pc = pc /\ call'[c].paths = call[c].paths
         /\ call'[c].freed = call[c].freed /\ call'[c].steps = call[c].steps
         /\ call'[c].cancel = call[c].cancel /\ call'[c].told = call[c].told
         /\ call'[c].asked = call[c].asked /\ call'[c].result = call[c].result
         /\ CallInv(c)' => SessionInv'
<1> DEFINE new == [call[c] EXCEPT !.pc = pc]
<1>1. call[c] \in CallRecords
  BY Inside
<1>2. /\ new \in CallRecords
      /\ new.pc = pc /\ new.paths = call[c].paths
      /\ new.freed = call[c].freed /\ new.steps = call[c].steps
      /\ new.cancel = call[c].cancel /\ new.told = call[c].told
      /\ new.asked = call[c].asked /\ new.result = call[c].result
  BY <1>1 DEF CallRecords, Pcs
<1>3. SetCall(c, new)
  OBVIOUS
<1> HIDE DEF new
<1>4. call'[c] = new
  BY <1>3, CallReplaced
<1>5. CallInv(c)' => SessionInv'
  BY <1>2, <1>3, IdleAround, OneMoved
<1> QED BY <1>2, <1>4, <1>5

(* Beside idle calls, what happens to others happens to nobody.            *)
LEMMA AloneAfter ==
  ASSUME SessionInv, NEW c \in Callers, OthersIdle(c)
  PROVE  /\ AfterFree(c) = [call EXCEPT ![c] = [call[c] EXCEPT !.pc = "freeing"]]
         /\ \A pc \in Pcs : AfterOverwrite(c, pc) = [call EXCEPT ![c] = [call[c] EXCEPT !.pc = pc]]
<1>1. call \in [Callers -> CallRecords]
  BY Inside
<1>2. \A o \in Callers \ {c} : ~ Sampling(o)
  BY DEF OthersIdle, Sampling, In
<1> QED BY <1>1, <1>2 DEF AfterFree, AfterOverwrite

LEMMA EnsureReuseInv ==
  ASSUME SessionInv, NEW c \in Callers, EnsureReuse(c)
  PROVE  SessionInv'
<1>1. /\ In(c, "ensure") /\ CallInv(c) /\ UNCHANGED <<session, cb>>
      /\ session.loaded /\ session.paths = call[c].paths
  BY Inside DEF EnsureReuse, Reusable
<1>2. ~ session.dangling
  BY <1>1, IdleAround, NotDangling DEF In
<1>3. /\ SetCall(c, [call[c] EXCEPT !.pc = "loaded"])
      /\ session' \in SessionRecords /\ cb' \in CbRecords /\ LoadedIsContext'
  BY <1>1, Inside DEF EnsureReuse, SessionInv, LoadedIsContext
<1>4. /\ call'[c].pc = "loaded" /\ call'[c].paths = call[c].paths
      /\ call'[c].freed = call[c].freed /\ call'[c].steps = call[c].steps
      /\ call'[c].told = call[c].told /\ call'[c].result = call[c].result
      /\ CallInv(c)' => SessionInv'
  BY <1>1, <1>2, <1>3, MovedOn DEF Pcs, In
<1>5. CallInv(c)'
  BY <1>1, <1>4 DEF CallInv, FreshInv, PathsInv, CallbackInv, SamplingInv, Sampling, CancelInv, ResultInv, In
<1> QED BY <1>4, <1>5

LEMMA EnsureStaleInv ==
  ASSUME SessionInv, NEW c \in Callers, EnsureStale(c) \/ NothingToFree(c)
  PROVE  SessionInv'
<1>1. PICK pc \in {"free", "store"} :
        /\ SetCall(c, [call[c] EXCEPT !.pc = pc]) /\ UNCHANGED <<session, cb>>
        /\ call[c].pc \in {"ensure", "free"}
        /\ pc = "store" => session.ctx = NoPaths
  BY DEF EnsureStale, NothingToFree, In
<1>2. ~ session.dangling /\ CallInv(c)
  BY <1>1, IdleAround, NotDangling, Inside DEF In
<1>3. session' \in SessionRecords /\ cb' \in CbRecords /\ LoadedIsContext'
  BY <1>1, Inside DEF SessionInv, LoadedIsContext
<1>4. /\ call'[c].pc = pc /\ call'[c].paths = call[c].paths
      /\ call'[c].freed = call[c].freed /\ call'[c].steps = call[c].steps
      /\ call'[c].told = call[c].told /\ call'[c].result = call[c].result
      /\ CallInv(c)' => SessionInv'
  BY <1>1, <1>2, <1>3, MovedOn DEF Pcs, In
<1>5. CallInv(c)'
  BY <1>1, <1>2, <1>4 DEF CallInv, FreshInv, PathsInv, CallbackInv, SamplingInv, Sampling, CancelInv, ResultInv, In
<1> QED BY <1>4, <1>5

LEMMA EnsureFreeInv ==
  ASSUME SessionInv, NEW c \in Callers, EnsureFree(c)
  PROVE  SessionInv'
<1>1. In(c, "free") /\ CallInv(c) /\ session \in SessionRecords
  BY Inside DEF EnsureFree
<1>2. SetCall(c, [call[c] EXCEPT !.pc = "freeing"])
  BY <1>1, IdleAround, AloneAfter DEF EnsureFree, SetCall, In
<1>3. /\ session' \in SessionRecords /\ cb' \in CbRecords
      /\ session'.ctx = session.ctx /\ session'.paths = session.paths
      /\ session'.loaded = session.loaded
  BY <1>1, Inside DEF EnsureFree, SessionRecords
<1>4. LoadedIsContext'
  BY <1>3 DEF SessionInv, LoadedIsContext
<1>5. /\ call'[c].pc = "freeing" /\ call'[c].paths = call[c].paths
      /\ call'[c].freed = call[c].freed /\ call'[c].steps = call[c].steps
      /\ call'[c].told = call[c].told /\ call'[c].result = call[c].result
      /\ CallInv(c)' => SessionInv'
  BY <1>1, <1>2, <1>3, <1>4, MovedOn DEF Pcs, In
<1>6. CallInv(c)'
  BY <1>1, <1>5 DEF CallInv, FreshInv, PathsInv, CallbackInv, SamplingInv, Sampling, CancelInv, ResultInv, In
<1> QED BY <1>5, <1>6

LEMMA EnsureNullInv ==
  ASSUME SessionInv, NEW c \in Callers, EnsureNull(c)
  PROVE  SessionInv'
<1>1. In(c, "freeing") /\ CallInv(c) /\ session \in SessionRecords /\ NoPaths \in OptPaths
  BY Inside DEF EnsureNull
<1>2. SetCall(c, [call[c] EXCEPT !.pc = "store"])
  BY <1>1, IdleAround, AloneAfter DEF EnsureNull, SetCall, Pcs, In
<1>3. /\ session' \in SessionRecords /\ cb' \in CbRecords
      /\ session'.ctx = NoPaths /\ ~ session'.dangling /\ ~ session'.loaded
  BY <1>1, Inside DEF EnsureNull, SessionRecords
<1>4. LoadedIsContext'
  BY <1>3 DEF LoadedIsContext
<1>5. /\ call'[c].pc = "store" /\ call'[c].paths = call[c].paths
      /\ call'[c].freed = call[c].freed /\ call'[c].steps = call[c].steps
      /\ call'[c].told = call[c].told /\ call'[c].result = call[c].result
      /\ CallInv(c)' => SessionInv'
  BY <1>1, <1>2, <1>3, <1>4, MovedOn DEF Pcs, In
<1>6. CallInv(c)'
  BY <1>1, <1>3, <1>5 DEF CallInv, FreshInv, PathsInv, CallbackInv, SamplingInv, Sampling, CancelInv, ResultInv, In
<1> QED BY <1>5, <1>6

LEMMA StorePathsInv ==
  ASSUME SessionInv, NEW c \in Callers, StorePaths(c)
  PROVE  SessionInv'
<1>1. /\ In(c, "store") /\ CallInv(c) /\ session \in SessionRecords
      /\ call[c].paths \in OptPaths /\ session.ctx = NoPaths
  BY Inside DEF StorePaths, CallInv, PathsInv, CallRecords, In
<1>2. ~ session.dangling /\ ~ session.loaded
  BY <1>1, IdleAround, NotDangling DEF SessionInv, LoadedIsContext, In
<1>3. /\ session' \in SessionRecords /\ cb' \in CbRecords
      /\ session'.ctx = NoPaths /\ ~ session'.dangling /\ ~ session'.loaded
      /\ session'.paths = call[c].paths
      /\ SetCall(c, [call[c] EXCEPT !.pc = "creating"])
  BY <1>1, <1>2, Inside DEF StorePaths, SessionRecords
<1>4. LoadedIsContext'
  BY <1>3 DEF LoadedIsContext
<1>5. /\ call'[c].pc = "creating" /\ call'[c].paths = call[c].paths
      /\ call'[c].freed = call[c].freed /\ call'[c].steps = call[c].steps
      /\ call'[c].told = call[c].told /\ call'[c].result = call[c].result
      /\ CallInv(c)' => SessionInv'
  BY <1>1, <1>3, <1>4, MovedOn DEF Pcs, In
<1>6. CallInv(c)'
  BY <1>1, <1>3, <1>5 DEF CallInv, FreshInv, PathsInv, CallbackInv, SamplingInv, Sampling, CancelInv, ResultInv, In
<1> QED BY <1>5, <1>6

LEMMA CreateInv ==
  ASSUME SessionInv, NEW c \in Callers, Create(c)
  PROVE  SessionInv'
<1>1. /\ In(c, "creating") /\ CallInv(c) /\ session \in SessionRecords
      /\ call[c].paths \in OptPaths /\ call[c].paths # NoPaths
      /\ session.paths = call[c].paths
  BY Inside, SessionAssumption DEF Create, CallInv, PathsInv, CallRecords, In
<1>2. session' = [session EXCEPT !.ctx = call[c].paths, !.dangling = FALSE, !.loaded = TRUE]
  BY <1>1 DEF Create
<1>3. /\ session' \in SessionRecords /\ cb' \in CbRecords
      /\ session'.ctx = call[c].paths /\ ~ session'.dangling
      /\ session'.paths = call[c].paths
  BY <1>1, <1>2, Inside DEF Create, SessionRecords
<1>4. LoadedIsContext'
  BY <1>1, <1>3 DEF LoadedIsContext
<1>5. SetCall(c, [call[c] EXCEPT !.pc = "loaded"])
  BY <1>1, IdleAround, AloneAfter DEF Create, SetCall, Pcs, In
<1>6. /\ call'[c].pc = "loaded" /\ call'[c].paths = call[c].paths
      /\ call'[c].freed = call[c].freed /\ call'[c].steps = call[c].steps
      /\ call'[c].told = call[c].told /\ call'[c].result = call[c].result
      /\ CallInv(c)' => SessionInv'
  BY <1>1, <1>3, <1>4, <1>5, MovedOn DEF Pcs, In
<1>7. CallInv(c)'
  BY <1>1, <1>3, <1>6 DEF CallInv, FreshInv, PathsInv, CallbackInv, SamplingInv, Sampling, CancelInv, ResultInv, In
<1> QED BY <1>6, <1>7

(* A call that ends without an image keeps what the other parts are about. *)
LEMMA FailedReturnInv ==
  ASSUME SessionInv, NEW c \in Callers, call[c].pc \in {"creating", "loaded", "sampling"},
         Return(c, Failed), session' = session, cb' \in CbRecords
  PROVE  SessionInv'
<1> DEFINE new == [call[c] EXCEPT !.pc = "returned", !.result = Failed]
<1>1. call[c] \in CallRecords /\ CallInv(c)
  BY Inside
<1>2. new \in CallRecords /\ new.pc = "returned" /\ new.paths = call[c].paths /\ new.result = Failed
  BY <1>1, ResultTypes DEF CallRecords
<1>3. SetCall(c, new)
  BY DEF Return
<1> HIDE DEF new
<1>4. call'[c] = new
  BY <1>3, CallReplaced
<1>5. CallInv(c)'
  BY <1>1, <1>2, <1>4, ResultTypes DEF CallInv, FreshInv, PathsInv, CallbackInv, SamplingInv, Sampling, CancelInv, ResultInv, In
<1>6. OthersIdle(c) /\ ~ session.dangling
  BY IdleAround, NotDangling DEF In
<1>7. LoadedIsContext' /\ session' \in SessionRecords
  BY Inside DEF SessionInv, LoadedIsContext
<1> QED BY <1>2, <1>3, <1>5, <1>6, <1>7, OneMoved

LEMMA InstallInv ==
  ASSUME SessionInv, NEW c \in Callers, Install(c)
  PROVE  SessionInv'
<1>1. /\ In(c, "loaded") /\ CallInv(c) /\ session \in SessionRecords
      /\ session' = session /\ session.ctx = session.paths
  BY Inside DEF Install, SessionInv, LoadedIsContext
<1>2. /\ cb' \in CbRecords /\ cb'.inUse /\ cb'.callback = c /\ ~ cb'.cancel
      /\ SetCall(c, [call[c] EXCEPT !.pc = "installed"])
  BY DEF Install, CbRecords
<1>3. ~ session'.dangling /\ LoadedIsContext'
  BY <1>1, IdleAround, NotDangling DEF SessionInv, LoadedIsContext, In
<1>4. /\ call'[c].pc = "installed" /\ call'[c].paths = call[c].paths
      /\ call'[c].freed = call[c].freed /\ call'[c].steps = call[c].steps
      /\ call'[c].told = call[c].told /\ call'[c].result = call[c].result
      /\ CallInv(c)' => SessionInv'
  BY <1>1, <1>2, <1>3, MovedOn DEF Pcs, In
<1>5. CallInv(c)'
  BY <1>1, <1>2, <1>4 DEF CallInv, FreshInv, PathsInv, CallbackInv, SamplingInv, Sampling, CancelInv, ResultInv, In
<1> QED BY <1>4, <1>5

LEMMA StartSamplingInv ==
  ASSUME SessionInv, NEW c \in Callers, StartSampling(c)
  PROVE  SessionInv'
<1> DEFINE new == [call[c] EXCEPT !.pc = "sampling", !.ctx = session.ctx, !.held = TRUE,
                                  !.freed = FALSE, !.alone = TRUE]
<1>1. /\ In(c, "installed") /\ CallInv(c) /\ call[c] \in CallRecords /\ session.ctx \in OptPaths
      /\ UNCHANGED <<session, cb>>
  BY Inside DEF StartSampling, SessionRecords
<1>2. OthersIdle(c) /\ \A x \in Callers : ~ Sampling(x)
  BY <1>1, IdleAround DEF OthersIdle, In, Sampling
<1>3. session.ctx = call[c].paths /\ session.ctx # NoPaths /\ ~ session.dangling
  BY <1>1, <1>2, NotDangling, SessionAssumption DEF CallInv, PathsInv, In
<1>4. /\ new \in CallRecords
      /\ new.pc = "sampling" /\ new.paths = call[c].paths /\ new.told = call[c].told
      /\ new.steps = call[c].steps /\ new.result = call[c].result /\ new.ctx = session.ctx
      /\ new.cancel = call[c].cancel /\ new.asked = call[c].asked
      /\ ~ new.freed /\ new.alone
  BY <1>1 DEF CallRecords
<1>5. SetCall(c, new)
  <2>1. (session.ctx = NoPaths \/ session.dangling) = FALSE
    BY <1>3
  <2>2. (\A x \in Callers : ~ Sampling(x)) = TRUE
    BY <1>2
  <2>3. AfterStart(c) = [o \in Callers |-> IF o = c THEN new ELSE call[o]]
    BY <1>2, <2>1, <2>2 DEF AfterStart
  <2> HIDE DEF new
  <2> QED BY <2>3, Inside DEF StartSampling, SetCall
<1> HIDE DEF new
<1>6. call'[c] = new
  BY <1>5, CallReplaced
<1>7. CallInv(c)'
  BY <1>1, <1>3, <1>4, <1>6 DEF CallInv, FreshInv, PathsInv, CallbackInv, SamplingInv, Sampling, CancelInv, ResultInv, In
<1> QED BY <1>1, <1>2, <1>4, <1>5, <1>7, OnlyMoved DEF In

LEMMA SampleInv ==
  ASSUME SessionInv, NEW c \in Callers, Sample(c)
  PROVE  SessionInv'
<1> DEFINE new == [call[c] EXCEPT !.steps = @ + 1, !.told = cb'.cancel]
<1>1. call[c] \in CallRecords /\ CallInv(c) /\ In(c, "sampling") /\ call[c].steps < Steps
  BY Inside DEF Sample
<1>2. cb.inUse /\ cb.callback = c /\ c # NoCaller
  BY <1>1, SessionAssumption DEF CallInv, CallbackInv, In
<1>3. cb' = [cb EXCEPT !.cancel = cb.cancel \/ call[c].cancel] /\ session' = session
  BY <1>2 DEF Sample
<1>4. /\ cb' \in CbRecords
      /\ cb'.inUse = cb.inUse /\ cb'.callback = cb.callback
      /\ cb'.cancel <=> cb.cancel \/ call[c].cancel
  BY <1>1, <1>3, Inside DEF CallRecords, CbRecords
<1>5. /\ new \in CallRecords
      /\ new.pc = "sampling" /\ new.paths = call[c].paths /\ new.told = cb'.cancel
      /\ new.freed = call[c].freed /\ new.result = call[c].result
      /\ new.ctx = call[c].ctx /\ new.alone = call[c].alone
      /\ new.cancel = call[c].cancel /\ new.asked = call[c].asked
  <2>1. call[c].steps + 1 \in 0 .. Steps /\ cb'.cancel \in BOOLEAN
    BY <1>1, <1>4, SessionAssumption DEF CallRecords, CbRecords
  <2> DEFINE step == call[c].steps + 1
             told == cb'.cancel
  <2>2. step \in 0 .. Steps /\ told \in BOOLEAN /\ new = [call[c] EXCEPT !.steps = step, !.told = told]
    BY <2>1
  <2>3. told = cb'.cancel
    OBVIOUS
  <2> HIDE DEF step, told, new
  <2> QED BY <1>1, <2>2, <2>3 DEF CallRecords, In
<1>6. SetCall(c, new)
  BY DEF Sample
<1> HIDE DEF new
<1>7. call'[c] = new
  BY <1>6, CallReplaced
<1>8. CallInv(c)'
  BY <1>1, <1>3, <1>4, <1>5, <1>7 DEF CallInv, FreshInv, PathsInv, CallbackInv, SamplingInv, Sampling, CancelInv, ResultInv, In
<1>9. OthersIdle(c) /\ ~ session.dangling
  BY <1>1, IdleAround, NotDangling DEF In
<1>10. LoadedIsContext' /\ session' \in SessionRecords
  BY <1>3, Inside DEF SessionInv, LoadedIsContext
<1> QED BY <1>3, <1>4, <1>5, <1>6, <1>8, <1>9, <1>10, OneMoved

LEMMA DetachInv ==
  ASSUME SessionInv, NEW c \in Callers, Detach(c)
  PROVE  SessionInv'
<1>1. call[c] \in CallRecords /\ CallInv(c) /\ In(c, "sampling")
  BY Inside DEF Detach
<1>2. Made(c) = {Image(call[c].paths)}
  BY <1>1 DEF Made, CallInv, SamplingInv, Sampling, In
<1>3. PICK result \in {Image(call[c].paths), Failed} :
        SetCall(c, [call[c] EXCEPT !.pc = "detached", !.result = result])
  BY <1>2 DEF Detach
<1> DEFINE new == [call[c] EXCEPT !.pc = "detached", !.result = result]
<1>4. result \in Results
  BY <1>1, ResultTypes DEF CallRecords
<1>5. /\ new \in CallRecords
      /\ new.pc = "detached" /\ new.paths = call[c].paths /\ new.told = call[c].told
      /\ new.cancel = call[c].cancel /\ new.asked = call[c].asked /\ new.result = result
  BY <1>1, <1>4 DEF CallRecords
<1>6. SetCall(c, new)
  BY <1>3
<1> HIDE DEF new
<1>7. call'[c] = new
  BY <1>6, CallReplaced
<1>8. session' = session /\ cb'.cancel = cb.cancel /\ cb' \in CbRecords
  BY Inside DEF Detach, CbRecords
<1>9. CallInv(c)'
  BY <1>1, <1>3, <1>5, <1>7, <1>8 DEF CallInv, FreshInv, PathsInv, CallbackInv, SamplingInv, Sampling, CancelInv, ResultInv, In
<1>10. OthersIdle(c) /\ ~ session.dangling
  BY <1>1, IdleAround, NotDangling DEF In
<1>11. LoadedIsContext' /\ session' \in SessionRecords
  BY <1>8, Inside DEF SessionInv, LoadedIsContext
<1> QED BY <1>5, <1>6, <1>8, <1>9, <1>10, <1>11, OneMoved

LEMMA CheckResultInv ==
  ASSUME SessionInv, NEW c \in Callers, CheckResult(c)
  PROVE  SessionInv'
<1> DEFINE result == IF cb.cancel THEN CancelledResult ELSE call[c].result
           new == [call[c] EXCEPT !.pc = "returned", !.result = result]
<1>1. call[c] \in CallRecords /\ CallInv(c) /\ In(c, "detached")
  BY Inside DEF CheckResult
<1>2. result \in Results
  BY <1>1, ResultTypes DEF CallRecords
<1>3. /\ result.kind = "image" => result = Image(call[c].paths) /\ ~ cb.cancel
      /\ result.kind = "cancelled" => cb.cancel
  <2>1. call[c].paths \in OptPaths /\ call[c].result \in {Image(call[c].paths), Failed}
    BY <1>1 DEF CallRecords, CallInv, ResultInv
  <2>2. CASE cb.cancel
    BY <2>2, ResultTypes
  <2>3. CASE ~ cb.cancel
    BY <2>1, <2>3, ResultTypes
  <2> QED BY <2>2, <2>3
<1>4. SetCall(c, new)
  BY DEF CheckResult, Return
<1> HIDE DEF result
<1>5. /\ new \in CallRecords
      /\ new.pc = "returned" /\ new.paths = call[c].paths /\ new.told = call[c].told
      /\ new.cancel = call[c].cancel /\ new.asked = call[c].asked /\ new.result = result
  BY <1>1, <1>2 DEF CallRecords
<1> HIDE DEF new
<1>6. call'[c] = new
  BY <1>4, CallReplaced
<1>7. UNCHANGED <<session, cb>> /\ call[c].paths \in OptPaths
  BY <1>1 DEF CheckResult, CallRecords
<1>8. CallInv(c)'
  BY <1>1, <1>3, <1>5, <1>6, <1>7, ResultTypes DEF CallInv, FreshInv, PathsInv, CallbackInv, SamplingInv, Sampling, CancelInv, ResultInv, In
<1>9. OthersIdle(c) /\ ~ In(c, "freeing")
  BY <1>1, IdleAround DEF In
<1> QED BY <1>4, <1>5, <1>7, <1>8, <1>9, OnlyMoved

(* All of ensure_loaded() and generate() *)
LEMMA SessionStepInv ==
  ASSUME SessionInv, NEW c \in Callers, SessionStep(c)
  PROVE  SessionInv'
<1>1. CASE CreateFails(c) \/ GenerateRefused(c) \/ DetachFailed(c)
  <2>1. /\ call[c].pc \in {"creating", "loaded", "sampling"}
        /\ Return(c, Failed) /\ session' = session
    BY <1>1 DEF CreateFails, GenerateRefused, DetachFailed, In
  <2>2. cb' \in CbRecords
    BY <1>1, Inside DEF CreateFails, GenerateRefused, DetachFailed, CbRecords
  <2> QED BY <2>1, <2>2, FailedReturnInv
<1> QED BY <1>1, EnsureReuseInv, EnsureStaleInv, EnsureFreeInv, EnsureNullInv, StorePathsInv,
           CreateInv, InstallInv, StartSamplingInv, SampleInv, DetachInv, CheckResultInv
        DEF SessionStep

LEMMA SessionNextInv == SessionInv /\ [SessionNext]_sessionVars => SessionInv'
<1> SUFFICES ASSUME SessionInv, [SessionNext]_sessionVars PROVE SessionInv'
  OBVIOUS
<1>1. ASSUME NEW c \in Callers, NEW p \in Paths, Exclusive(c), Enter(c, p) PROVE SessionInv'
  <2>1. OthersIdle(c) /\ ~ In(c, "freeing") /\ SetCall(c, Entered(p)) /\ UNCHANGED <<session, cb>>
    BY <1>1 DEF Exclusive, OthersIdle, Enter, In
  <2> QED BY <2>1, EnterInv
<1>2. ASSUME NEW c \in Callers, Leave(c) PROVE SessionInv'
  <2>1. OthersIdle(c) /\ ~ In(c, "freeing")
    BY <1>2, IdleAround DEF Leave, In
  <2>2. NoCall.pc = "idle" /\ NoCall.result = Pending
    BY DEF NoCall
  <2> QED BY <1>2, <2>1, <2>2, NoCallType, LeaveInv DEF Leave
<1>3. CASE UNCHANGED sessionVars
  BY <1>3 DEF sessionVars, SessionInv, SessionTypeOK, LoadedIsContext, DanglingInv, OneInside,
     CallInv, FreshInv, PathsInv, CallbackInv, SamplingInv, Sampling, CancelInv, ResultInv, In
<1> QED BY <1>1, <1>2, <1>3, WantCancelInv, GenerateAgainInv, RequestCancelInv, SessionStepInv
        DEF SessionNext

-----------------------------------------------------------------------------
(* Without the contract: whatever else other calls do, the fields keep to  *)
(* their ranges.                                                           *)

LEMMA SetCallTyped ==
  ASSUME SessionTypeOK, NEW c \in Callers, NEW new \in CallRecords, SetCall(c, new)
  PROVE  call' \in [Callers -> CallRecords]
  BY Typed DEF SetCall

LEMMA ReturnTyped ==
  ASSUME SessionTypeOK, NEW c \in Callers, NEW result \in Results, Return(c, result)
  PROVE  call' \in [Callers -> CallRecords]
<1>1. call[c] \in CallRecords
  BY Typed
<1>2. [call[c] EXCEPT !.pc = "returned", !.result = result] \in CallRecords
  BY <1>1 DEF CallRecords
<1> QED BY <1>2, SetCallTyped DEF Return

LEMMA MadeTyped ==
  ASSUME SessionTypeOK, NEW c \in Callers
  PROVE  Made(c) \cup {Failed} \subseteq Results
<1>1. call[c].ctx \in OptPaths /\ NoPaths \in OptPaths
  BY Typed DEF CallRecords, OptPaths
<1> QED BY <1>1, ResultTypes DEF Made

(* What is done to a call record in the course of somebody's step *)
LEMMA AfterTyped ==
  ASSUME SessionTypeOK, NEW c \in Callers
  PROVE  /\ AfterFree(c) \in [Callers -> CallRecords]
         /\ \A pc \in Pcs : AfterOverwrite(c, pc) \in [Callers -> CallRecords]
         /\ AfterStart(c) \in [Callers -> CallRecords]
<1>1. session.ctx \in OptPaths /\ session.dangling \in BOOLEAN
  BY Typed DEF SessionRecords
<1>2. ASSUME NEW o \in Callers
      PROVE  /\ call[o] \in CallRecords
             /\ \A pc \in Pcs : [call[o] EXCEPT !.pc = pc] \in CallRecords
             /\ [call[o] EXCEPT !.freed = TRUE] \in CallRecords
             /\ [call[o] EXCEPT !.held = FALSE] \in CallRecords
             /\ [call[o] EXCEPT !.alone = FALSE] \in CallRecords
  <2>1. call[o] \in CallRecords
    BY Typed
  <2> QED BY <2>1 DEF CallRecords, Pcs
<1> DEFINE freed == session.ctx = NoPaths \/ session.dangling
           alone == \A x \in Callers : ~ Sampling(x)
           ctx == session.ctx
           started == [call[c] EXCEPT !.pc = "sampling", !.ctx = ctx, !.held = TRUE,
                                      !.freed = freed, !.alone = alone]
<1>3. freed \in BOOLEAN /\ alone \in BOOLEAN /\ ctx \in OptPaths
  BY <1>1
<1>4. AfterStart(c) = [o \in Callers |->
        IF o = c THEN started
        ELSE IF Sampling(o) THEN [call[o] EXCEPT !.alone = FALSE] ELSE call[o]]
  BY DEF AfterStart
<1> HIDE DEF freed, alone, ctx
<1>5. started \in CallRecords
  <2>1. call[c] \in CallRecords
    BY <1>2
  <2> QED BY <1>3, <2>1 DEF CallRecords
<1> HIDE DEF started
<1>6. AfterStart(c) \in [Callers -> CallRecords]
  BY <1>2, <1>4, <1>5
<1>7. AfterFree(c) \in [Callers -> CallRecords]
  BY <1>2 DEF AfterFree, Pcs
<1>8. ASSUME NEW pc \in Pcs PROVE AfterOverwrite(c, pc) \in [Callers -> CallRecords]
  BY <1>2 DEF AfterOverwrite
<1> QED BY <1>6, <1>7, <1>8

LEMMA SessionStepTypes ==
  ASSUME SessionTypeOK, NEW c \in Callers, SessionStep(c)
  PROVE  SessionTypeOK'
<1>1. /\ session \in SessionRecords /\ cb \in CbRecords /\ call \in [Callers -> CallRecords]
      /\ call[c] \in CallRecords /\ call[c].paths \in OptPaths /\ NoPaths \in OptPaths
  BY Typed DEF CallRecords, OptPaths
<1>2. \A pc \in Pcs : [call[c] EXCEPT !.pc = pc] \in CallRecords
  BY <1>1 DEF CallRecords, Pcs
<1>3. CASE EnsureReuse(c) \/ EnsureStale(c) \/ NothingToFree(c)
  <2>1. PICK pc \in Pcs : SetCall(c, [call[c] EXCEPT !.pc = pc]) /\ UNCHANGED <<session, cb>>
    BY <1>3 DEF EnsureReuse, EnsureStale, NothingToFree, Pcs
  <2> QED BY <1>1, <1>2, <2>1, SetCallTyped, TypedNext
<1>4. CASE EnsureFree(c) \/ EnsureNull(c)
  <2>1. session' \in SessionRecords /\ cb' = cb
    BY <1>1, <1>4 DEF EnsureFree, EnsureNull, SessionRecords
  <2>2. call' \in [Callers -> CallRecords]
    BY <1>4, AfterTyped DEF EnsureFree, EnsureNull, Pcs
  <2> QED BY <1>1, <2>1, <2>2, TypedNext
<1>5. CASE StorePaths(c)
  <2>1. session' \in SessionRecords /\ cb' = cb
    BY <1>1, <1>5 DEF StorePaths, SessionRecords
  <2>2. [call[c] EXCEPT !.pc = "creating"] \in CallRecords
    BY <1>2 DEF Pcs
  <2> QED BY <1>1, <1>5, <2>1, <2>2, SetCallTyped, TypedNext DEF StorePaths
<1>6. CASE Create(c)
  <2>1. PICK p \in {call[c].paths, session.paths} :
          session' = [session EXCEPT !.ctx = p, !.dangling = FALSE, !.loaded = TRUE]
    BY <1>6 DEF Create
  <2>2. p \in OptPaths
    BY <1>1 DEF SessionRecords
  <2>3. session' \in SessionRecords
    BY <1>1, <2>1, <2>2 DEF SessionRecords
  <2>4. call' \in [Callers -> CallRecords] /\ cb' = cb
    BY <1>6, AfterTyped DEF Create, Pcs
  <2> QED BY <1>1, <2>3, <2>4, TypedNext
<1>7. CASE CreateFails(c) \/ GenerateRefused(c)
  <2>1. call' \in [Callers -> CallRecords]
    BY <1>7, ReturnTyped, ResultTypes DEF CreateFails, GenerateRefused
  <2> QED BY <1>1, <1>7, <2>1, TypedNext DEF CreateFails, GenerateRefused
<1>8. CASE Install(c)
  <2>1. cb' \in CbRecords /\ session' = session
    BY <1>8 DEF Install, CbRecords
  <2>2. [call[c] EXCEPT !.pc = "installed"] \in CallRecords
    BY <1>2 DEF Pcs
  <2> QED BY <1>1, <1>8, <2>1, <2>2, SetCallTyped, TypedNext DEF Install
<1>9. CASE StartSampling(c)
  BY <1>1, <1>9, AfterTyped, TypedNext DEF StartSampling
<1>10. CASE Sample(c)
  <2> DEFINE heard == cb.inUse /\ cb.callback # NoCaller /\ call[cb.callback].cancel
             flag == cb.cancel \/ heard
             step == call[c].steps + 1
             told == cb'.cancel
             new == [call[c] EXCEPT !.steps = step, !.told = told]
  <2>1. flag \in BOOLEAN /\ step \in 0 .. Steps
    BY <1>1, <1>10, SessionAssumption DEF CallRecords, Sample
  <2>2. cb' = [cb EXCEPT !.cancel = flag] /\ SetCall(c, new) /\ UNCHANGED session
    BY <1>10 DEF Sample
  <2> HIDE DEF flag, step, heard
  <2>3. cb' \in CbRecords /\ told \in BOOLEAN
    BY <1>1, <2>1, <2>2 DEF CbRecords
  <2>4. new = [call[c] EXCEPT !.steps = step, !.told = told]
    OBVIOUS
  <2> HIDE DEF told, new
  <2>5. new \in CallRecords
    BY <1>1, <2>1, <2>3, <2>4 DEF CallRecords
  <2> QED BY <1>1, <2>2, <2>3, <2>5, SetCallTyped, TypedNext
<1>11. CASE Detach(c)
  <2>1. PICK result \in Made(c) \cup {Failed} :
          SetCall(c, [call[c] EXCEPT !.pc = "detached", !.result = result])
    BY <1>11 DEF Detach
  <2>2. result \in Results
    BY MadeTyped
  <2>3. [call[c] EXCEPT !.pc = "detached", !.result = result] \in CallRecords
    BY <1>1, <2>2 DEF CallRecords
  <2>4. cb' \in CbRecords /\ session' = session
    BY <1>1, <1>11 DEF Detach, CbRecords
  <2> QED BY <1>1, <2>1, <2>3, <2>4, SetCallTyped, TypedNext
<1>12. CASE DetachFailed(c)
  <2>1. cb' \in CbRecords /\ session' = session
    BY <1>1, <1>12 DEF DetachFailed, CbRecords
  <2> QED BY <1>1, <1>12, <2>1, ReturnTyped, ResultTypes, TypedNext DEF DetachFailed
<1>13. CASE CheckResult(c)
  <2> DEFINE result == IF cb.cancel THEN CancelledResult ELSE call[c].result
  <2>1. result \in Results
    BY <1>1, ResultTypes DEF CallRecords
  <2>2. Return(c, result) /\ UNCHANGED <<session, cb>>
    BY <1>13 DEF CheckResult
  <2> HIDE DEF result
  <2> QED BY <1>1, <2>1, <2>2, ReturnTyped, TypedNext
<1> QED BY <1>3, <1>4, <1>5, <1>6, <1>7, <1>8, <1>9, <1>10, <1>11, <1>12, <1>13 DEF SessionStep

(* A step leaves the call inside, and with the files it came with.         *)
LEMMA StepKeepsPaths ==
  ASSUME SessionTypeOK, NEW c \in Callers, SessionStep(c)
  PROVE  call'[c].paths = call[c].paths /\ call'[c].pc # "idle"
<1>1. call \in [Callers -> CallRecords] /\ call[c] \in CallRecords
  BY Typed
<1>2. ASSUME NEW new, new.paths = call[c].paths, new.pc # "idle", SetCall(c, new)
      PROVE  call'[c].paths = call[c].paths /\ call'[c].pc # "idle"
  BY <1>1, <1>2 DEF SetCall
<1>3. ASSUME NEW result, Return(c, result)
      PROVE  call'[c].paths = call[c].paths /\ call'[c].pc # "idle"
  <2>1. /\ [call[c] EXCEPT !.pc = "returned", !.result = result].paths = call[c].paths
        /\ [call[c] EXCEPT !.pc = "returned", !.result = result].pc = "returned"
    BY <1>1 DEF CallRecords
  <2> QED BY <1>2, <1>3, <2>1 DEF Return
<1>4. ASSUME NEW pc \in Pcs \ {"idle"}, call'[c] = [call[c] EXCEPT !.pc = pc]
      PROVE  call'[c].paths = call[c].paths /\ call'[c].pc # "idle"
  BY <1>1, <1>4 DEF CallRecords
<1>5. CASE \/ EnsureReuse(c) \/ EnsureStale(c) \/ NothingToFree(c) \/ EnsureFree(c)
           \/ EnsureNull(c) \/ StorePaths(c) \/ Create(c) \/ Install(c)
  <2>1. PICK pc \in Pcs \ {"idle"} :
          \/ SetCall(c, [call[c] EXCEPT !.pc = pc])
          \/ call' = AfterOverwrite(c, pc)
          \/ pc = "freeing" /\ call' = AfterFree(c)
    BY <1>5 DEF EnsureReuse, EnsureStale, NothingToFree, EnsureFree, EnsureNull, StorePaths,
       Create, Install, Pcs
  <2>2. call'[c] = [call[c] EXCEPT !.pc = pc]
    BY <1>1, <2>1 DEF SetCall, AfterOverwrite, AfterFree
  <2> QED BY <1>4, <2>2
<1>6. CASE StartSampling(c)
  <2> DEFINE freed == session.ctx = NoPaths \/ session.dangling
             alone == \A x \in Callers : ~ Sampling(x)
             ctx == session.ctx
             new == [call[c] EXCEPT !.pc = "sampling", !.ctx = ctx, !.held = TRUE,
                                    !.freed = freed, !.alone = alone]
  <2>1. call'[c] = new
    BY <1>6 DEF StartSampling, AfterStart
  <2> HIDE DEF freed, alone, ctx
  <2>2. new.paths = call[c].paths /\ new.pc = "sampling"
    BY <1>1 DEF CallRecords
  <2> HIDE DEF new
  <2> QED BY <2>1, <2>2
<1>7. CASE Sample(c)
  <2> DEFINE step == call[c].steps + 1
             told == cb'.cancel
             new == [call[c] EXCEPT !.steps = step, !.told = told]
  <2>1. SetCall(c, new) /\ In(c, "sampling")
    BY <1>7 DEF Sample
  <2>2. new = [call[c] EXCEPT !.steps = step, !.told = told]
    OBVIOUS
  <2> HIDE DEF step, told, new
  <2>3. new.paths = call[c].paths /\ new.pc = "sampling"
    BY <1>1, <2>1, <2>2 DEF CallRecords, In
  <2> QED BY <1>2, <2>1, <2>3
<1>8. CASE Detach(c)
  <2>1. PICK result \in Made(c) \cup {Failed} :
          SetCall(c, [call[c] EXCEPT !.pc = "detached", !.result = result])
    BY <1>8 DEF Detach
  <2>2. /\ [call[c] EXCEPT !.pc = "detached", !.result = result].paths = call[c].paths
        /\ [call[c] EXCEPT !.pc = "detached", !.result = result].pc = "detached"
    BY <1>1 DEF CallRecords
  <2> QED BY <1>2, <2>1, <2>2
<1> QED BY <1>3, <1>4, <1>5, <1>6, <1>7, <1>8
        DEF SessionStep, CreateFails, GenerateRefused, DetachFailed, CheckResult

-----------------------------------------------------------------------------
LEMMA SessionInvariance == SessionSpec => []SessionInv
  BY SessionInitInv, SessionNextInv, PTL DEF SessionSpec

(* The fields keep to their ranges for any number of steps.                *)
THEOREM SessionTypes == SessionSpec => []SessionTypeOK
<1>1. SessionInv => SessionTypeOK
  BY DEF SessionInv
<1> QED BY <1>1, SessionInvariance, PTL

(* ensure_loaded's reuse test is sound after reloads and failed loads: a   *)
(* session that says loaded has a context, made of the stored paths.       *)
THEOREM LoadedMeansContext == SessionSpec => []LoadedIsContext
<1>1. SessionInv => LoadedIsContext
  BY DEF SessionInv
<1> QED BY <1>1, SessionInvariance, PTL

(* Under the contract an image comes from the files its call ensured.      *)
THEOREM ImagesAreOwn == SessionSpec => []ImageOfOwnPaths
<1>1. SessionInv => ImageOfOwnPaths
  BY DEF SessionInv, CallInv, ResultInv, ImageOfOwnPaths, In
<1> QED BY <1>1, SessionInvariance, PTL

(* ... generate() says "cancelled" only of a cancel that was meant for it  *)
THEOREM CancelIsNotInherited == SessionSpec => []NoForeignCancel
<1>1. SessionInv => NoForeignCancel
  <2> SUFFICES ASSUME SessionInv, NEW c \in Callers, call[c].result.kind = "cancelled"
               PROVE  call[c].cancel \/ call[c].asked
    BY DEF NoForeignCancel
  <2>1. CallInv(c) /\ call[c] \in CallRecords
    BY Inside
  <2>2. call[c].pc = "returned"
    BY <2>1, ResultTypes DEF CallRecords, CallInv, FreshInv, CallbackInv, ResultInv, In,
       Pending, Failed, Image
  <2> QED BY <2>1, <2>2 DEF CallInv, ResultInv, In
<1> QED BY <1>1, SessionInvariance, PTL

(* ... a callback that returned false is never followed by an image        *)
THEOREM CancelIsFinal == SessionSpec => []CancelSeenHonoured
<1>1. SessionInv => CancelSeenHonoured
  BY DEF SessionInv, CallInv, ResultInv, CancelSeenHonoured, In
<1> QED BY <1>1, SessionInvariance, PTL

(* ... and nobody samples with a context that was freed.                   *)
THEOREM ContextOutlivesSampling == SessionSpec => []ContextAlive
<1>1. SessionInv => ContextAlive
  BY DEF SessionInv, CallInv, SamplingInv, ContextAlive
<1> QED BY <1>1, SessionInvariance, PTL
=============================================================================
