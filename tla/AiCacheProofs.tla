--------------------------- MODULE AiCacheProofs ----------------------------
(***************************************************************************)
(* Proofs about AiCache for any number of keys, foreign files and callers, *)
(* any limits and any bounds.  Beside a prune() that nothing has disturbed *)
(* only other such calls remove entries, and each of them removes what is  *)
(* Spent: over the age limit, or with max_entries newer ones still there.  *)
(* That stays true of an entry when others are removed, because what goes  *)
(* before it is Spent itself.                                              *)
(***************************************************************************)
EXTENDS AiCache, FiniteSetTheorems, TLAPS

TimeOf(at) == [k \in Keys |-> at[Exr(k)]]
KeysIn(entries) == {e.key : e \in entries}
Sidecars == Keys \X {"json"}

(* What a call knows at which point of clear() or prune() *)
LocalInv(it) ==
  /\ it \in Calls
  /\ it.pc = "idle" => it = NoCall
  /\ it.op = "none" => it.pc = "idle"
  /\ it.op = "clear" => it.pc = "scan"
  /\ it.pc \in {"age", "entries"} => it.op = "prune" /\ it.unread = {}
  /\ it.pc = "scan" => it.doomed = {} /\ it.sidecars = {} /\ it.unread \subseteq Scanned(it.op)
  /\ it.sidecars \subseteq Sidecars /\ \A f, g \in it.sidecars : f = g

BaseInv ==
  /\ TypeOK
  /\ \A c \in Callers : LocalInv(call[c])
  /\ TimesDiffer(TimeOf(files))
  /\ \A f \in Foreign \X Extensions : files[f] # Absent

(* A clear() that nothing has disturbed has yet to come to what is there.  *)
ClearInv(it) ==
  it.op = "clear" /\ ~ it.disturbed =>
    \A f \in Keys \X Extensions : files[f] # Absent => f \in it.unread

(* The images that count against one that was written at time t *)
Ahead(k, t) == {j \in Keys \ {k} : files[Exr(j)] # Absent /\ files[Exr(j)] >= t}

Spent(k, t) ==
  \/ TooOld(t, clock)
  \/ limits.entries > 0 /\ Cardinality(Ahead(k, t)) >= limits.entries

(* What remains of the directory that the call began with *)
SinceInv(it) ==
  /\ it.began \in [Files -> Times \cup {Absent}] /\ TimesDiffer(TimeOf(it.began))
  /\ \A k \in Keys : Has(k) => files[Exr(k)] = it.began[Exr(k)]
  /\ \A k \in Keys : it.began[Exr(k)] # Absent /\ ~ Has(k) =>
       /\ Spent(k, it.began[Exr(k)])
       /\ Json(k) \in BeingPruned \/ files[Json(k)] = Absent

(* How far the call has come with it *)
ProgressInv(it) ==
  /\ \A e \in it.seen \cup it.doomed : e.mtime = it.began[Exr(e.key)]
  /\ \A e \in it.doomed : Spent(e.key, e.mtime)
  /\ it.pc = "scan" => \A k \in Entries : Exr(k) \in it.unread \/ k \in KeysIn(it.seen)
  /\ it.pc \in {"age", "entries"} => it.now <= clock
  /\ it.pc = "age" =>
       /\ Entries \subseteq KeysIn(it.seen) \cup KeysIn(it.doomed)
       /\ \A e \in it.seen : ~ TooOld(e.mtime, it.now)
  /\ it.pc = "entries" =>
       /\ \A k \in Entries \ KeysIn(it.doomed) : ~ TooOld(files[Exr(k)], it.now)
       /\ limits.entries > 0 => Cardinality(Entries \ KeysIn(it.doomed)) <= limits.entries

Undisturbed(it) == it.op = "prune" /\ ~ it.disturbed

PruneInv ==
  \A c \in Callers : Undisturbed(call[c]) =>
    /\ \A d \in Callers : ~ call[d].disturbed
    /\ SinceInv(call[c]) /\ ProgressInv(call[c])

IInv == BaseInv /\ (\A c \in Callers : ClearInv(call[c])) /\ PruneInv

-----------------------------------------------------------------------------
(* Calls and the directory *)

LEMMA NoCallLocal == NoCall \in Calls /\ LocalInv(NoCall)
<1>1. 0 \in Times
  BY AiCacheAssumption DEF Times
<1>2. NoCall \in Calls
  BY <1>1 DEF Calls, NoCall
<1> QED BY <1>2 DEF LocalInv, NoCall

LEMMA DisturbLocal ==
  ASSUME NEW it, LocalInv(it)
  PROVE  /\ LocalInv(Disturb(it)) /\ Disturb(it).pc = it.pc
         /\ Disturb(it).op # "none" => Disturb(it).disturbed
<1>1. CASE it.pc = "idle"
  BY <1>1 DEF Disturb, LocalInv, NoCall
<1>2. CASE it.pc # "idle"
  <2> DEFINE new == [it EXCEPT !.disturbed = TRUE, !.began = NoCall.began]
  <2>1. /\ new \in Calls /\ new.op = it.op /\ new.pc = it.pc /\ new.unread = it.unread
        /\ new.doomed = it.doomed /\ new.sidecars = it.sidecars /\ new.disturbed
    BY DEF LocalInv, Calls
  <2>2. Disturb(it) = new
    BY <1>2 DEF Disturb
  <2> HIDE DEF new
  <2> QED BY <1>2, <2>1, <2>2 DEF LocalInv
<1> QED BY <1>1, <1>2

(* A step that changes one call and no file *)
LEMMA SetCallBase ==
  ASSUME BaseInv, NEW c \in Callers, NEW it, LocalInv(it), SetCall(c, it),
         UNCHANGED <<files, clock, limits, writes>>, faults' \in 0 .. MaxFaults
  PROVE  BaseInv' /\ call'[c] = it /\ \A d \in Callers \ {c} : call'[d] = call[d]
<1>1. it \in Calls
  BY DEF LocalInv
<1>2. call'[c] = it /\ \A d \in Callers \ {c} : call'[d] = call[d]
  BY DEF SetCall, BaseInv, TypeOK
<1>3. TypeOK'
  BY <1>1 DEF BaseInv, TypeOK, SetCall
<1>4. (\A d \in Callers : LocalInv(call[d]))'
  BY <1>2 DEF BaseInv
<1> QED BY <1>2, <1>3, <1>4 DEF BaseInv

(* A step that changes files and calls *)
LEMMA FilesBase ==
  ASSUME BaseInv, call' = [d \in Callers |-> call'[d]], \A d \in Callers : LocalInv(call'[d]),
         files' \in [Files -> Times \cup {Absent}], TimesDiffer(TimeOf(files)'),
         \A f \in Foreign \X Extensions : files'[f] # Absent,
         UNCHANGED <<clock, limits>>, writes' \in 0 .. MaxWrites, faults' \in 0 .. MaxFaults
  PROVE  BaseInv'
<1>1. \A d \in Callers : call'[d] \in Calls
  BY DEF LocalInv
<1>2. TypeOK'
  BY <1>1 DEF BaseInv, TypeOK
<1> QED BY <1>2 DEF BaseInv

LEMMA AbsentNoTime == Absent \notin Times /\ Absent \in Nat /\ Times \subseteq Nat
  BY AiCacheAssumption DEF Absent, Times

(* A file of the cache goes. *)
LEMMA RemovedFile ==
  ASSUME BaseInv, NEW f \in Keys \X Extensions, files' = [files EXCEPT ![f] = Absent]
  PROVE  /\ files' \in [Files -> Times \cup {Absent}]
         /\ TimesDiffer(TimeOf(files)')
         /\ \A g \in Foreign \X Extensions : files'[g] # Absent
         /\ \A g \in Files \ {f} : files'[g] = files[g]
         /\ files'[f] = Absent
<1>1. files \in [Files -> Times \cup {Absent}] /\ f \in Files
  BY DEF BaseInv, TypeOK, Files
<1>2. /\ files' \in [Files -> Times \cup {Absent}]
      /\ \A g \in Files \ {f} : files'[g] = files[g]
      /\ files'[f] = Absent
  BY <1>1
<1>3. \A k \in Keys : files'[Exr(k)] \in {files[Exr(k)], Absent}
  BY <1>2 DEF Exr, Files, Extensions
<1>4. TimesDiffer(TimeOf(files)')
  <2>1. TimesDiffer(TimeOf(files))
    BY DEF BaseInv
  <2> QED BY <1>3, <2>1 DEF TimesDiffer, TimeOf
<1>5. \A g \in Foreign \X Extensions : g \in Files /\ g # f /\ files[g] # Absent
  BY AiCacheAssumption DEF BaseInv, Files
<1> QED BY <1>2, <1>4, <1>5

(* Removing as the callers see it: the file has gone, or everything that   *)
(* is going on is disturbed.                                               *)
LEMMA RemovingBase ==
  ASSUME BaseInv, NEW f \in Keys \X Extensions, NEW calls,
         calls = [d \in Callers |-> calls[d]],
         \A d \in Callers : LocalInv(calls[d]), Removing(f, calls),
         UNCHANGED <<clock, limits, writes>>
  PROVE  /\ BaseInv'
         /\ \/ call' = calls /\ files' = [files EXCEPT ![f] = Absent]
            \/ \A d \in Callers : call'[d] = Disturb(calls[d])
<1>1. faults \in 0 .. MaxFaults /\ writes \in 0 .. MaxWrites /\ MaxFaults \in Nat
  BY AiCacheAssumption DEF BaseInv, TypeOK
<1>2. CASE /\ files' = [files EXCEPT ![f] = Absent]
           /\ call' = calls /\ UNCHANGED faults
  BY <1>1, <1>2, RemovedFile, FilesBase
<1>3. CASE /\ files[f] # Absent /\ faults < MaxFaults /\ faults' = faults + 1
           /\ call' = Disturbed(calls) /\ UNCHANGED files
  <2>1. call' = [d \in Callers |-> call'[d]] /\ \A d \in Callers : call'[d] = Disturb(calls[d])
    BY <1>3 DEF Disturbed
  <2>2. \A d \in Callers : LocalInv(call'[d])
    BY <2>1, DisturbLocal
  <2>3. faults' \in 0 .. MaxFaults
    BY <1>1, <1>3
  <2>4. TimesDiffer(TimeOf(files)')
    BY <1>3 DEF BaseInv
  <2> QED BY <1>1, <1>3, <2>1, <2>2, <2>3, <2>4, FilesBase DEF BaseInv, TypeOK
<1> QED BY <1>2, <1>3 DEF Removing

-----------------------------------------------------------------------------
(* What each step does to the calls; files and calls keep to BaseInv.      *)

LEMMA OpenBase ==
  ASSUME BaseInv, NEW c \in Callers, NEW op \in {"clear", "prune"}, Open(c, op)
  PROVE  /\ BaseInv'
         /\ \A d \in Callers \ {c} : call'[d] = call[d]
         /\ call[c] = NoCall
         /\ \/ call'[c].disturbed /\ \E d \in Callers : call[d].disturbed
            \/ /\ \A d \in Callers : ~ call[d].disturbed
               /\ ~ call'[c].disturbed /\ call'[c].op = op /\ call'[c].pc = "scan"
               /\ call'[c].began = files /\ call'[c].seen = {} /\ call'[c].doomed = {}
               /\ call'[c].unread = {f \in Scanned(op) : files[f] # Absent}
<1> DEFINE unread == {f \in Scanned(op) : files[f] # Absent}
           new == [NoCall EXCEPT !.op = op, !.pc = "scan", !.began = files, !.unread = unread]
           it == IF \E d \in Callers : call[d].disturbed THEN Disturb(new) ELSE new
<1>1. unread \subseteq Files /\ unread \subseteq Scanned(op)
  BY DEF Scanned, Files, Exr, Extensions
<1>2. files \in [Files -> Times \cup {Absent}] /\ NoCall \in Calls
  BY NoCallLocal DEF BaseInv, TypeOK
<1> HIDE DEF unread
<1>3. /\ new.op = op /\ new.pc = "scan" /\ new.began = files /\ new.unread = unread
      /\ new.seen = {} /\ new.doomed = {} /\ new.sidecars = {} /\ ~ new.disturbed
  BY DEF NoCall
<1>4. new \in Calls
  BY <1>1, <1>2 DEF Calls
<1> HIDE DEF new
<1>5. LocalInv(new)
  BY <1>1, <1>3, <1>4 DEF LocalInv
<1>6. LocalInv(it) /\ SetCall(c, it)
  BY <1>5, DisturbLocal DEF Open, new, unread
<1>7. call[c] = NoCall
  BY DEF Open, BaseInv, LocalInv
<1>8. (\E d \in Callers : call[d].disturbed) => it.disturbed
  BY <1>3, <1>4 DEF Disturb, Calls
<1>9. (\A d \in Callers : ~ call[d].disturbed) => it = new
  OBVIOUS
<1> HIDE DEF it
<1>10. BaseInv' /\ call'[c] = it /\ \A d \in Callers \ {c} : call'[d] = call[d]
  <2>1. UNCHANGED <<files, clock, limits, writes>> /\ faults' \in 0 .. MaxFaults
    BY DEF Open, BaseInv, TypeOK
  <2> QED BY <1>6, <2>1, SetCallBase
<1> QED BY <1>3, <1>7, <1>8, <1>9, <1>10 DEF unread

(* Every way to leave a call *)
Leaves(c) ==
  /\ call'[c] = NoCall /\ \A d \in Callers \ {c} : call'[d] = call[d]
  /\ call[c].sidecars = {}
  /\ UNCHANGED <<files, clock, limits, writes>>

LEMMA LeaveBase ==
  ASSUME BaseInv, NEW c \in Callers,
         OpenFails(c) \/ ScanThrows(c) \/ ClearReturns(c) \/ PruneReturns(c)
  PROVE  BaseInv' /\ Leaves(c)
<1>1. SetCall(c, NoCall) /\ UNCHANGED <<files, clock, limits, writes>>
  BY DEF OpenFails, ScanThrows, ClearReturns, PruneReturns
<1>2. faults' \in 0 .. MaxFaults
  <2>1. faults \in 0 .. MaxFaults /\ MaxFaults \in Nat
    BY AiCacheAssumption DEF BaseInv, TypeOK
  <2> QED BY <2>1 DEF OpenFails, ScanThrows, ClearReturns, PruneReturns
<1>3. call[c].sidecars = {}
  <2>1. LocalInv(call[c])
    BY DEF BaseInv
  <2> QED BY <2>1 DEF OpenFails, ScanThrows, ClearReturns, PruneReturns, Finished, LocalInv, NoCall
<1> QED BY <1>1, <1>2, <1>3, NoCallLocal, SetCallBase DEF Leaves

LEMMA ScanBase ==
  ASSUME BaseInv, NEW c \in Callers, ScanEntry(c)
  PROVE  /\ BaseInv'
         /\ \A d \in Callers \ {c} : call'[d] = call[d]
         /\ \E k \in Keys :
              /\ Exr(k) \in call[c].unread /\ call'[c].unread = call[c].unread \ {Exr(k)}
              /\ call'[c].seen = call[c].seen \cup
                   (IF Has(k) THEN {[key |-> k, mtime |-> files[Exr(k)]]} ELSE {})
         /\ call[c].pc = "scan" /\ call'[c].pc = "scan" /\ call'[c].op = call[c].op
         /\ call'[c].began = call[c].began /\ call'[c].disturbed = call[c].disturbed
         /\ call[c].doomed = {} /\ call'[c].doomed = {}
         /\ call[c].op = "prune" /\ call'[c].sidecars = call[c].sidecars
<1>1. PICK f \in call[c].unread :
        SetCall(c, [call[c] EXCEPT !.unread = @ \ {f},
                      !.seen = @ \cup (IF files[f] = Absent THEN {}
                                       ELSE {[key |-> f[1], mtime |-> files[f]]})])
  BY DEF ScanEntry
<1>2. /\ LocalInv(call[c]) /\ call[c] \in Calls /\ call[c].op = "prune" /\ call[c].pc = "scan"
      /\ files \in [Files -> Times \cup {Absent}]
  BY DEF BaseInv, TypeOK, LocalInv, ScanEntry
<1>3. PICK k \in Keys : f = Exr(k)
  BY <1>1, <1>2 DEF LocalInv, Scanned
<1> DEFINE unread == call[c].unread \ {f}
           seen == call[c].seen \cup (IF files[f] = Absent THEN {}
                                       ELSE {[key |-> f[1], mtime |-> files[f]]})
           it == [call[c] EXCEPT !.unread = unread, !.seen = seen]
<1>4. seen = call[c].seen \cup (IF Has(k) THEN {[key |-> k, mtime |-> files[Exr(k)]]} ELSE {})
  BY <1>3 DEF Has, Exr
<1>5. unread \in SUBSET Files /\ unread \subseteq Scanned("prune")
  BY <1>2 DEF LocalInv, Calls
<1>6. seen \in SUBSET [key : Keys, mtime : Times]
  <2>1. Exr(k) \in Files
    BY DEF Exr, Files, Extensions
  <2>2. Has(k) => files[Exr(k)] \in Times
    BY <1>2, <2>1 DEF Has
  <2> QED BY <1>2, <1>4, <2>2 DEF Calls
<1>7. SetCall(c, it)
  BY <1>1
<1> HIDE DEF unread, seen
<1>8. /\ it \in Calls /\ it.unread = unread /\ it.seen = seen
      /\ it.pc = call[c].pc /\ it.op = call[c].op /\ it.began = call[c].began
      /\ it.disturbed = call[c].disturbed /\ it.doomed = call[c].doomed
      /\ it.sidecars = call[c].sidecars
  BY <1>2, <1>5, <1>6 DEF Calls
<1> HIDE DEF it
<1>9. LocalInv(it) /\ call[c].doomed = {}
  BY <1>2, <1>5, <1>8 DEF LocalInv
<1>10. BaseInv' /\ call'[c] = it /\ \A d \in Callers \ {c} : call'[d] = call[d]
  <2>1. UNCHANGED <<files, clock, limits, writes>> /\ faults' \in 0 .. MaxFaults
    BY DEF ScanEntry, BaseInv, TypeOK
  <2> QED BY <1>7, <1>9, <2>1, SetCallBase
<1> QED BY <1>1, <1>2, <1>3, <1>4, <1>8, <1>9, <1>10 DEF unread

LEMMA AgePassBase ==
  ASSUME BaseInv, NEW c \in Callers, StartAgePass(c)
  PROVE  /\ BaseInv'
         /\ \A d \in Callers \ {c} : call'[d] = call[d]
         /\ call'[c].doomed = {e \in call[c].seen : TooOld(e.mtime, clock)}
         /\ call'[c].seen = call[c].seen \ call'[c].doomed
         /\ call[c].pc = "scan" /\ call'[c].pc = "age" /\ call'[c].op = call[c].op
         /\ call'[c].now = clock /\ call[c].unread = {} /\ call[c].doomed = {}
         /\ call'[c].began = call[c].began /\ call'[c].disturbed = call[c].disturbed
         /\ call[c].op = "prune" /\ call'[c].sidecars = call[c].sidecars
<1> DEFINE aged == {e \in call[c].seen : TooOld(e.mtime, clock)}
           rest == call[c].seen \ aged
           it == [call[c] EXCEPT !.pc = "age", !.now = clock, !.doomed = aged, !.seen = rest]
<1>1. /\ LocalInv(call[c]) /\ call[c] \in Calls /\ call[c].op = "prune" /\ call[c].pc = "scan"
      /\ call[c].unread = {} /\ clock \in Times /\ SetCall(c, it)
  BY DEF BaseInv, TypeOK, LocalInv, StartAgePass
<1>2. aged \in SUBSET [key : Keys, mtime : Times] /\ rest \in SUBSET [key : Keys, mtime : Times]
  BY <1>1 DEF Calls
<1> HIDE DEF rest
<1> HIDE DEF aged
<1>3. /\ it \in Calls /\ it.unread = call[c].unread /\ it.seen = rest /\ it.now = clock
      /\ it.pc = "age" /\ it.op = call[c].op /\ it.began = call[c].began
      /\ it.disturbed = call[c].disturbed /\ it.doomed = aged
      /\ it.sidecars = call[c].sidecars
  BY <1>1, <1>2 DEF Calls
<1> HIDE DEF it
<1>4. LocalInv(it) /\ call[c].doomed = {}
  BY <1>1, <1>3 DEF LocalInv
<1>5. BaseInv' /\ call'[c] = it /\ \A d \in Callers \ {c} : call'[d] = call[d]
  <2>1. UNCHANGED <<files, clock, limits, writes>> /\ faults' \in 0 .. MaxFaults
    BY DEF StartAgePass, BaseInv, TypeOK
  <2> QED BY <1>1, <1>4, <2>1, SetCallBase
<1> QED BY <1>1, <1>3, <1>4, <1>5 DEF aged, rest

LEMMA EntryPassBase ==
  ASSUME BaseInv, NEW c \in Callers, StartEntryPass(c)
  PROVE  /\ BaseInv'
         /\ \A d \in Callers \ {c} : call'[d] = call[d]
         /\ \/ /\ limits.entries > 0 /\ Cardinality(call[c].seen) > limits.entries
               /\ call'[c].doomed \in Surplus(call[c].seen)
            \/ /\ ~ (limits.entries > 0 /\ Cardinality(call[c].seen) > limits.entries)
               /\ call'[c].doomed = {}
         /\ call[c].pc = "age" /\ call'[c].pc = "entries" /\ call'[c].op = call[c].op
         /\ call'[c].seen = call[c].seen /\ call[c].doomed = {}
         /\ call'[c].now = call[c].now
         /\ call'[c].began = call[c].began /\ call'[c].disturbed = call[c].disturbed
         /\ call[c].op = "prune" /\ call'[c].sidecars = call[c].sidecars
<1> DEFINE over == limits.entries > 0 /\ Cardinality(call[c].seen) > limits.entries
<1>1. PICK s \in IF over THEN Surplus(call[c].seen) ELSE {{}} :
        SetCall(c, [call[c] EXCEPT !.pc = "entries", !.doomed = s])
  BY DEF StartEntryPass
<1>2. /\ LocalInv(call[c]) /\ call[c] \in Calls /\ call[c].pc = "age" /\ call[c].doomed = {}
      /\ call[c].op = "prune"
  BY DEF BaseInv, TypeOK, LocalInv, StartEntryPass, Finished
<1>3. s \subseteq call[c].seen
  BY <1>1 DEF Surplus
<1> DEFINE it == [call[c] EXCEPT !.pc = "entries", !.doomed = s]
<1>4. /\ it \in Calls /\ it.unread = call[c].unread /\ it.seen = call[c].seen
      /\ it.pc = "entries" /\ it.op = call[c].op /\ it.began = call[c].began
      /\ it.disturbed = call[c].disturbed /\ it.doomed = s
      /\ it.sidecars = call[c].sidecars /\ it.now = call[c].now
  BY <1>2, <1>3 DEF Calls
<1>5. SetCall(c, it)
  BY <1>1
<1> HIDE DEF it
<1>6. LocalInv(it)
  BY <1>2, <1>4 DEF LocalInv
<1>7. BaseInv' /\ call'[c] = it /\ \A d \in Callers \ {c} : call'[d] = call[d]
  <2>1. UNCHANGED <<files, clock, limits, writes>> /\ faults' \in 0 .. MaxFaults
    BY DEF StartEntryPass, BaseInv, TypeOK
  <2> QED BY <1>5, <1>6, <2>1, SetCallBase
<1> QED BY <1>1, <1>2, <1>4, <1>7

(* What remains a call's own when others are disturbed *)
LEMMA ClearEntryBase ==
  ASSUME BaseInv, NEW c \in Callers, ClearEntry(c)
  PROVE  /\ BaseInv' /\ \A d \in Callers : call'[d].pc = call[d].pc
         /\ \A d \in Callers : call'[d].op = "prune" => call'[d].disturbed
         /\ \E f \in Keys \X Extensions :
              /\ f \in call[c].unread
              /\ \/ files' = [files EXCEPT ![f] = Absent]
                 \/ \A d \in Callers : call'[d].op # "none" => call'[d].disturbed
              /\ \A d \in Callers : call'[d].op = "clear" =>
                   \/ call'[d].disturbed
                   \/ /\ files' = [files EXCEPT ![f] = Absent]
                      /\ call[d].op = "clear" /\ ~ call[d].disturbed
                      /\ call[d].unread \subseteq call'[d].unread \cup {f}
<1>1. PICK f \in call[c].unread :
       Removing(f, [d \in Callers |->
         CASE d = c -> [call[c] EXCEPT !.unread = @ \ {f}]
           [] call[d].op = "prune" -> Disturb(call[d])
           [] OTHER -> call[d]])
  BY DEF ClearEntry
<1>2. /\ LocalInv(call[c]) /\ call[c] \in Calls /\ call[c].op = "clear"
      /\ UNCHANGED <<clock, limits, writes>> /\ \A d \in Callers : LocalInv(call[d])
  BY DEF BaseInv, TypeOK, ClearEntry
<1>3. f \in Keys \X Extensions
  BY <1>2 DEF LocalInv, Scanned
<1> DEFINE unread == call[c].unread \ {f}
           it == [call[c] EXCEPT !.unread = unread]
           calls == [d \in Callers |->
                       CASE d = c -> it
                         [] call[d].op = "prune" -> Disturb(call[d])
                         [] OTHER -> call[d]]
<1>4. unread \in SUBSET Files /\ unread \subseteq call[c].unread
  BY <1>2 DEF Calls
<1>5. Removing(f, calls)
  BY <1>1
<1>6. call[c].unread \subseteq unread \cup {f}
  OBVIOUS
<1> HIDE DEF unread
<1>7. /\ it \in Calls /\ it.unread = unread /\ it.seen = call[c].seen
      /\ it.pc = call[c].pc /\ it.op = call[c].op /\ it.began = call[c].began
      /\ it.disturbed = call[c].disturbed /\ it.doomed = call[c].doomed
      /\ it.sidecars = call[c].sidecars
  BY <1>2, <1>4 DEF Calls
<1> HIDE DEF it
<1>8. LocalInv(it)
  BY <1>2, <1>4, <1>7 DEF LocalInv
<1>9. \A d \in Callers :
        /\ LocalInv(calls[d]) /\ calls[d].pc = call[d].pc
        /\ calls[d].op = "prune" => calls[d].disturbed
        /\ calls[d].op = "clear" =>
             /\ call[d].op = "clear" /\ call[d].disturbed = calls[d].disturbed
             /\ call[d].unread \subseteq calls[d].unread \cup {f}
  <2> SUFFICES ASSUME NEW d \in Callers
               PROVE  /\ LocalInv(calls[d]) /\ calls[d].pc = call[d].pc
                      /\ calls[d].op = "prune" => calls[d].disturbed
                      /\ calls[d].op = "clear" =>
                           /\ call[d].op = "clear" /\ call[d].disturbed = calls[d].disturbed
                           /\ call[d].unread \subseteq calls[d].unread \cup {f}
    OBVIOUS
  <2>1. CASE d = c
    BY <1>2, <1>6, <1>7, <1>8, <2>1
  <2>2. CASE d # c /\ call[d].op = "prune"
    <3>1. calls[d] = Disturb(call[d])
      BY <2>2
    <3>2. Disturb(call[d]).op = call[d].op
      BY <1>2 DEF Disturb, LocalInv, Calls
    <3> QED BY <1>2, <2>2, <3>1, <3>2, DisturbLocal
  <2>3. CASE d # c /\ call[d].op # "prune"
    <3>1. calls[d] = call[d]
      BY <2>3
    <3> QED BY <1>2, <2>3, <3>1
  <2> QED BY <2>1, <2>2, <2>3
<1>10. calls = [d \in Callers |-> calls[d]]
  OBVIOUS
<1> HIDE DEF calls
<1>11. /\ BaseInv'
       /\ \/ call' = calls /\ files' = [files EXCEPT ![f] = Absent]
          \/ \A d \in Callers : call'[d] = Disturb(calls[d])
  BY <1>2, <1>3, <1>5, <1>9, <1>10, RemovingBase
<1>12. CASE call' = calls /\ files' = [files EXCEPT ![f] = Absent]
  <2>1. \A d \in Callers : call'[d].op = "clear" => call'[d].disturbed \/ ~ call[d].disturbed
    BY <1>9, <1>12
  <2> QED BY <1>1, <1>3, <1>9, <1>11, <1>12, <2>1
<1>13. CASE \A d \in Callers : call'[d] = Disturb(calls[d])
  <2>1. \A d \in Callers : call'[d].op # "none" => call'[d].disturbed
    BY <1>9, <1>13, DisturbLocal
  <2>2. \A d \in Callers : call'[d].pc = call[d].pc
    BY <1>9, <1>13, DisturbLocal
  <2> QED BY <1>1, <1>3, <1>11, <2>1, <2>2
<1> QED BY <1>11, <1>12, <1>13

LEMMA RemoveExrBase ==
  ASSUME BaseInv, NEW c \in Callers, RemoveExr(c)
  PROVE  /\ BaseInv' /\ UNCHANGED <<clock, limits>>
         /\ \A d \in Callers : call'[d].pc = call[d].pc
         /\ \/ \A d \in Callers : call'[d].op # "none" => call'[d].disturbed
            \/ \E e \in call[c].doomed :
                 /\ files' = [files EXCEPT ![Exr(e.key)] = Absent]
                 /\ \A d \in Callers \ {c} : call'[d] = call[d]
                 /\ call[c].sidecars = {} /\ call'[c].sidecars = {Json(e.key)}
                 /\ call'[c].doomed = call[c].doomed \ {e} /\ call'[c].seen = call[c].seen
                 /\ call[c].op = "prune" /\ call'[c].op = call[c].op
                 /\ call[c].pc \in {"age", "entries"} /\ call'[c].pc = call[c].pc
                 /\ call'[c].unread = call[c].unread /\ call'[c].now = call[c].now
                 /\ call'[c].began = call[c].began /\ call'[c].disturbed = call[c].disturbed
                 /\ e.key \in Keys /\ e.mtime \in Times
<1>1. PICK e \in call[c].doomed :
        Removing(Exr(e.key), [call EXCEPT ![c].doomed = @ \ {e}, ![c].sidecars = {Json(e.key)}])
  BY DEF RemoveExr
<1>2. /\ LocalInv(call[c]) /\ call[c] \in Calls /\ call[c].sidecars = {}
      /\ UNCHANGED <<clock, limits, writes>> /\ \A d \in Callers : LocalInv(call[d])
      /\ call \in [Callers -> Calls]
  BY DEF BaseInv, TypeOK, RemoveExr
<1>3. e.key \in Keys /\ e.mtime \in Times
  BY <1>2 DEF Calls
<1>4. call[c].op = "prune" /\ call[c].pc \in {"age", "entries"} /\ call[c].unread = {}
  <2>1. call[c].pc # "idle" /\ call[c].pc # "scan"
    BY <1>1, <1>2 DEF LocalInv, NoCall
  <2> QED BY <1>2, <2>1 DEF LocalInv, Calls
<1> DEFINE doomed == call[c].doomed \ {e}
           sidecars == {Json(e.key)}
           it == [call[c] EXCEPT !.doomed = doomed, !.sidecars = sidecars]
           calls == [call EXCEPT ![c] = it]
<1>5. /\ doomed \in SUBSET [key : Keys, mtime : Times]
      /\ sidecars \in SUBSET Files /\ sidecars \subseteq Sidecars
      /\ \A f, g \in sidecars : f = g
  BY <1>2, <1>3 DEF Calls, Json, Files, Extensions, Sidecars
<1>6. Removing(Exr(e.key), calls)
  <2>1. calls = [call EXCEPT ![c].doomed = @ \ {e}, ![c].sidecars = {Json(e.key)}]
    BY <1>2 DEF Calls
  <2> QED BY <1>1, <2>1
<1> HIDE DEF doomed, sidecars
<1>7. /\ it \in Calls /\ it.unread = call[c].unread /\ it.seen = call[c].seen
      /\ it.pc = call[c].pc /\ it.op = call[c].op /\ it.began = call[c].began
      /\ it.disturbed = call[c].disturbed /\ it.doomed = doomed
      /\ it.sidecars = sidecars /\ it.now = call[c].now
  BY <1>2, <1>5 DEF Calls
<1> HIDE DEF it
<1>8. LocalInv(it)
  BY <1>2, <1>4, <1>5, <1>7 DEF LocalInv
<1>9. /\ \A d \in Callers : LocalInv(calls[d])
      /\ calls = [d \in Callers |-> calls[d]]
      /\ calls[c] = it /\ \A d \in Callers \ {c} : calls[d] = call[d]
  BY <1>2, <1>8
<1> HIDE DEF calls
<1>10. Exr(e.key) \in Keys \X Extensions
  BY <1>3 DEF Exr, Extensions
<1>11. /\ BaseInv'
       /\ \/ call' = calls /\ files' = [files EXCEPT ![Exr(e.key)] = Absent]
          \/ \A d \in Callers : call'[d] = Disturb(calls[d])
  BY <1>2, <1>6, <1>9, <1>10, RemovingBase
<1>12. CASE \A d \in Callers : call'[d] = Disturb(calls[d])
  <2>1. \A d \in Callers : call'[d].op # "none" => call'[d].disturbed
    BY <1>9, <1>12, DisturbLocal
  <2>2. \A d \in Callers : call'[d].pc = call[d].pc
    BY <1>2, <1>7, <1>9, <1>12, DisturbLocal
  <2> QED BY <1>2, <1>11, <2>1, <2>2
<1>13. CASE call' = calls /\ files' = [files EXCEPT ![Exr(e.key)] = Absent]
  <2>1. call'[c] = it /\ \A d \in Callers \ {c} : call'[d] = call[d]
    BY <1>9, <1>13
  <2> QED BY <1>1, <1>2, <1>3, <1>4, <1>7, <1>11, <1>13, <2>1 DEF doomed, sidecars
<1> QED BY <1>11, <1>12, <1>13

LEMMA RemoveSidecarBase ==
  ASSUME BaseInv, NEW c \in Callers, RemoveSidecar(c)
  PROVE  /\ BaseInv' /\ UNCHANGED <<clock, limits>>
         /\ \A d \in Callers : call'[d].pc = call[d].pc
         /\ \/ \A d \in Callers : call'[d].op # "none" => call'[d].disturbed
            \/ \E k \in Keys :
                 /\ files' = [files EXCEPT ![Json(k)] = Absent]
                 /\ \A d \in Callers \ {c} : call'[d] = call[d]
                 /\ call[c].sidecars = {Json(k)} /\ call'[c].sidecars = {}
                 /\ call'[c].doomed = call[c].doomed /\ call'[c].seen = call[c].seen
                 /\ call[c].op = "prune" /\ call'[c].op = call[c].op
                 /\ call[c].pc \in {"age", "entries"} /\ call'[c].pc = call[c].pc
                 /\ call'[c].unread = call[c].unread /\ call'[c].now = call[c].now
                 /\ call'[c].began = call[c].began /\ call'[c].disturbed = call[c].disturbed
<1>1. PICK f \in call[c].sidecars : Removing(f, [call EXCEPT ![c].sidecars = {}])
  BY DEF RemoveSidecar
<1>2. /\ LocalInv(call[c]) /\ call[c] \in Calls
      /\ UNCHANGED <<clock, limits, writes>> /\ \A d \in Callers : LocalInv(call[d])
      /\ call \in [Callers -> Calls]
  BY DEF BaseInv, TypeOK, RemoveSidecar
<1>3. PICK k \in Keys : f = Json(k) /\ call[c].sidecars = {Json(k)}
  <2>1. f \in Sidecars /\ call[c].sidecars = {f}
    BY <1>1, <1>2 DEF LocalInv
  <2> QED BY <2>1 DEF Json, Sidecars
<1>4. call[c].op = "prune" /\ call[c].pc \in {"age", "entries"} /\ call[c].unread = {}
  <2>1. call[c].pc # "idle" /\ call[c].pc # "scan"
    BY <1>1, <1>2 DEF LocalInv, NoCall
  <2> QED BY <1>2, <2>1 DEF LocalInv, Calls
<1> DEFINE it == [call[c] EXCEPT !.sidecars = {}]
           calls == [call EXCEPT ![c] = it]
<1>5. Removing(f, calls)
  BY <1>1
<1>6. /\ it \in Calls /\ it.unread = call[c].unread /\ it.seen = call[c].seen
      /\ it.pc = call[c].pc /\ it.op = call[c].op /\ it.began = call[c].began
      /\ it.disturbed = call[c].disturbed /\ it.doomed = call[c].doomed
      /\ it.sidecars = {} /\ it.now = call[c].now
  BY <1>2 DEF Calls
<1> HIDE DEF it
<1>7. LocalInv(it)
  BY <1>2, <1>4, <1>6 DEF LocalInv
<1>8. /\ \A d \in Callers : LocalInv(calls[d])
      /\ calls = [d \in Callers |-> calls[d]]
      /\ calls[c] = it /\ \A d \in Callers \ {c} : calls[d] = call[d]
  BY <1>2, <1>7
<1> HIDE DEF calls
<1>9. f \in Keys \X Extensions
  BY <1>3 DEF Json, Extensions
<1>10. /\ BaseInv'
       /\ \/ call' = calls /\ files' = [files EXCEPT ![f] = Absent]
          \/ \A d \in Callers : call'[d] = Disturb(calls[d])
  BY <1>2, <1>5, <1>8, <1>9, RemovingBase
<1>11. CASE \A d \in Callers : call'[d] = Disturb(calls[d])
  <2>1. \A d \in Callers : call'[d].op # "none" => call'[d].disturbed
    BY <1>8, <1>11, DisturbLocal
  <2>2. \A d \in Callers : call'[d].pc = call[d].pc
    BY <1>2, <1>6, <1>8, <1>11, DisturbLocal
  <2> QED BY <1>2, <1>10, <2>1, <2>2
<1>12. CASE call' = calls /\ files' = [files EXCEPT ![f] = Absent]
  <2>1. call'[c] = it /\ \A d \in Callers \ {c} : call'[d] = call[d]
    BY <1>8, <1>12
  <2> QED BY <1>2, <1>3, <1>4, <1>6, <1>10, <1>12, <2>1
<1> QED BY <1>10, <1>11, <1>12

LEMMA WrittenBase ==
  ASSUME BaseInv, NEW k \in Keys, StoreExr(k) \/ WriteSidecar(k)
  PROVE  /\ BaseInv' /\ \A d \in Callers : call'[d].pc = call[d].pc
         /\ \A d \in Callers : call'[d].op # "none" => call'[d].disturbed
<1>1. PICK f \in {Exr(k), Json(k)} : Written(f) /\ (f = Exr(k) => StoreExr(k))
  BY DEF StoreExr, WriteSidecar, Exr, Json
<1>2. f \in Files /\ f[1] = k /\ f[2] \in Extensions
  BY <1>1 DEF Exr, Json, Files, Extensions
<1>3. /\ \A d \in Callers : LocalInv(call[d]) /\ call[d] \in Calls
      /\ clock \in Times /\ files \in [Files -> Times \cup {Absent}]
  BY DEF BaseInv, TypeOK
<1>4. PICK told \in SUBSET {c \in Callers : call[c].pc = "scan" /\ f \in Scanned(call[c].op)} :
       call' = Disturbed([c \in Callers |->
                 IF c \in told THEN [call[c] EXCEPT !.unread = @ \cup {f}] ELSE call[c]])
  BY <1>1 DEF Written
<1> DEFINE calls == [c \in Callers |->
                 IF c \in told THEN [call[c] EXCEPT !.unread = @ \cup {f}] ELSE call[c]]
<1>5. \A d \in Callers : LocalInv(calls[d]) /\ calls[d].pc = call[d].pc
  <2> SUFFICES ASSUME NEW d \in Callers PROVE LocalInv(calls[d]) /\ calls[d].pc = call[d].pc
    OBVIOUS
  <2>1. CASE d \in told
    <3> DEFINE unread == call[d].unread \cup {f}
               it == [call[d] EXCEPT !.unread = unread]
    <3>1. call[d].pc = "scan" /\ f \in Scanned(call[d].op)
      BY <1>4, <2>1
    <3>2. unread \in SUBSET Files /\ unread \subseteq Scanned(call[d].op)
      BY <1>2, <1>3, <3>1 DEF LocalInv, Calls
    <3>3. calls[d] = it
      BY <2>1
    <3> HIDE DEF unread
    <3>4. /\ it \in Calls /\ it.unread = unread /\ it.pc = call[d].pc /\ it.op = call[d].op
          /\ it.doomed = call[d].doomed /\ it.sidecars = call[d].sidecars
      BY <1>3, <3>2 DEF Calls
    <3> HIDE DEF it
    <3>5. LocalInv(it)
      BY <1>3, <3>1, <3>2, <3>4 DEF LocalInv
    <3> QED BY <3>3, <3>4, <3>5
  <2>2. CASE d \notin told
    BY <1>3, <2>2
  <2> QED BY <2>1, <2>2
<1>6. call' = [d \in Callers |-> call'[d]] /\ \A d \in Callers : call'[d] = Disturb(calls[d])
  BY <1>4 DEF Disturbed
<1> HIDE DEF calls
<1>7. \A d \in Callers : /\ LocalInv(call'[d]) /\ call'[d].pc = call[d].pc
                         /\ call'[d].op # "none" => call'[d].disturbed
  BY <1>5, <1>6, DisturbLocal
<1>8. files' = [files EXCEPT ![f] = Stamp(f, clock)] /\ Stamp(f, clock) \in Times
  BY <1>1, <1>3, AiCacheAssumption DEF Written, Stamp, Times
<1>9. files' \in [Files -> Times \cup {Absent}]
  BY <1>2, <1>3, <1>8
<1>10. \A g \in Foreign \X Extensions : files'[g] # Absent
  <2>1. \A g \in Foreign \X Extensions : g \in Files /\ g # f
    BY <1>2, AiCacheAssumption DEF Files
  <2> QED BY <1>2, <1>3, <1>8, <2>1 DEF BaseInv
<1>11. TimesDiffer(TimeOf(files)')
  <2>1. CASE f = Exr(k)
    <3>1. TimesDiffer([j \in Keys |-> IF j = k THEN clock ELSE files[Exr(j)]])
      BY <1>1, <2>1 DEF StoreExr
    <3>2. \A j \in Keys : files'[Exr(j)] = IF j = k THEN clock ELSE files[Exr(j)]
      BY <1>2, <1>3, <1>8, <2>1 DEF Stamp, Exr, Files, Extensions
    <3> QED BY <3>1, <3>2 DEF TimesDiffer, TimeOf
  <2>2. CASE f = Json(k)
    <3>1. \A j \in Keys : files'[Exr(j)] = files[Exr(j)]
      BY <1>3, <1>8, <2>2 DEF Exr, Json, Files, Extensions
    <3> QED BY <3>1 DEF TimesDiffer, TimeOf, BaseInv
  <2> QED BY <1>1, <2>1, <2>2
<1>12. writes' \in 0 .. MaxWrites /\ faults' \in 0 .. MaxFaults /\ UNCHANGED <<clock, limits>>
  BY <1>1, AiCacheAssumption DEF Written, BaseInv, TypeOK
<1> QED BY <1>6, <1>7, <1>9, <1>10, <1>11, <1>12, FilesBase

LEMMA TickBase == ASSUME BaseInv, Tick PROVE BaseInv'
<1>1. clock' \in Times
  BY AiCacheAssumption DEF Tick, BaseInv, TypeOK, Times
<1> QED BY <1>1 DEF Tick, BaseInv, TypeOK, TimeOf

-----------------------------------------------------------------------------
(* clear() *)

LEMMA ClearStep ==
  ASSUME BaseInv, \A c \in Callers : ClearInv(call[c]), [Next]_vars
  PROVE  BaseInv' /\ (\A c \in Callers : ClearInv(call[c]))'
<1> DEFINE Cached == Keys \X Extensions
<1> USE DEF ClearInv
<1>1. ASSUME NEW f \in Cached, files' = [files EXCEPT ![f] = Absent]
      PROVE  \A g \in Cached : files'[g] # Absent => files[g] # Absent /\ g # f
  <2>1. \A g \in Cached : g \in Files
    BY DEF Files
  <2> QED BY <1>1, <2>1, RemovedFile
<1>2. ASSUME NEW k \in Keys, StoreExr(k) \/ WriteSidecar(k)
      PROVE  BaseInv' /\ (\A c \in Callers : ClearInv(call[c]))'
  BY <1>2, WrittenBase
<1>3. ASSUME NEW c \in Callers, NEW op \in {"clear", "prune"}, Open(c, op)
      PROVE  BaseInv' /\ (\A d \in Callers : ClearInv(call[d]))'
  <2>1. UNCHANGED files
    BY <1>3 DEF Open
  <2>2. ClearInv(call[c])'
    BY <1>3, <2>1, OpenBase DEF Scanned
  <2> QED BY <1>3, <2>1, <2>2, OpenBase
<1>4. ASSUME NEW c \in Callers,
             OpenFails(c) \/ ScanThrows(c) \/ ClearReturns(c) \/ PruneReturns(c)
      PROVE  BaseInv' /\ (\A d \in Callers : ClearInv(call[d]))'
  <2>1. BaseInv' /\ Leaves(c)
    BY <1>4, LeaveBase
  <2> QED BY <2>1 DEF Leaves, NoCall
<1>5. ASSUME NEW c \in Callers, ScanEntry(c) \/ StartAgePass(c) \/ StartEntryPass(c)
      PROVE  BaseInv' /\ (\A d \in Callers : ClearInv(call[d]))'
  <2>1. UNCHANGED files
    BY <1>5 DEF ScanEntry, StartAgePass, StartEntryPass
  <2>2. /\ BaseInv' /\ call'[c].op = "prune"
        /\ \A d \in Callers \ {c} : call'[d] = call[d]
    BY <1>5, ScanBase, AgePassBase, EntryPassBase
  <2> QED BY <2>1, <2>2
<1>6. ASSUME NEW c \in Callers, ClearEntry(c)
      PROVE  BaseInv' /\ (\A d \in Callers : ClearInv(call[d]))'
  <2>1. PICK f \in Cached :
          \A d \in Callers : call'[d].op = "clear" =>
             \/ call'[d].disturbed
             \/ /\ files' = [files EXCEPT ![f] = Absent]
                /\ call[d].op = "clear" /\ ~ call[d].disturbed
                /\ call[d].unread \subseteq call'[d].unread \cup {f}
    BY <1>6, ClearEntryBase
  <2>2. BaseInv'
    BY <1>6, ClearEntryBase
  <2> QED BY <1>1, <2>1, <2>2
<1>7. ASSUME NEW c \in Callers, RemoveExr(c)
      PROVE  BaseInv' /\ (\A d \in Callers : ClearInv(call[d]))'
  <2>1. CASE \A d \in Callers : call'[d].op # "none" => call'[d].disturbed
    BY <1>7, <2>1, RemoveExrBase
  <2>2. CASE ~ (\A d \in Callers : call'[d].op # "none" => call'[d].disturbed)
    <3>1. PICK e \in call[c].doomed :
            /\ files' = [files EXCEPT ![Exr(e.key)] = Absent]
            /\ \A d \in Callers \ {c} : call'[d] = call[d]
            /\ call'[c].op = "prune" /\ e.key \in Keys
      BY <1>7, <2>2, RemoveExrBase
    <3>2. Exr(e.key) \in Cached
      BY <3>1 DEF Exr, Extensions
    <3>3. \A g \in Cached : files'[g] # Absent => files[g] # Absent
      BY <1>1, <3>1, <3>2
    <3> QED BY <1>7, <3>1, <3>3, RemoveExrBase
  <2> QED BY <2>1, <2>2
<1>8. ASSUME NEW c \in Callers, RemoveSidecar(c)
      PROVE  BaseInv' /\ (\A d \in Callers : ClearInv(call[d]))'
  <2>1. CASE \A d \in Callers : call'[d].op # "none" => call'[d].disturbed
    BY <1>8, <2>1, RemoveSidecarBase
  <2>2. CASE ~ (\A d \in Callers : call'[d].op # "none" => call'[d].disturbed)
    <3>1. PICK k \in Keys :
            /\ files' = [files EXCEPT ![Json(k)] = Absent]
            /\ \A d \in Callers \ {c} : call'[d] = call[d]
            /\ call'[c].op = "prune"
      BY <1>8, <2>2, RemoveSidecarBase
    <3>2. Json(k) \in Cached
      BY <3>1 DEF Json, Extensions
    <3>3. \A g \in Cached : files'[g] # Absent => files[g] # Absent
      BY <1>1, <3>1, <3>2
    <3> QED BY <1>8, <3>1, <3>3, RemoveSidecarBase
  <2> QED BY <2>1, <2>2
<1>9. CASE Tick
  BY <1>9, TickBase DEF Tick
<1>10. CASE UNCHANGED vars
  BY <1>10 DEF vars, BaseInv, TypeOK, TimeOf
<1> QED BY <1>2, <1>3, <1>4, <1>5, <1>6, <1>7, <1>8, <1>9, <1>10 DEF Next, Clear, Prune

LEMMA InitInv == Init => BaseInv /\ \A c \in Callers : ClearInv(call[c])
<1> SUFFICES ASSUME Init PROVE BaseInv /\ \A c \in Callers : ClearInv(call[c])
  OBVIOUS
<1>1. call = [c \in Callers |-> NoCall]
  BY DEF Init
<1>2. PICK at \in [Keys -> (0 .. MaxTime - 1) \cup {Absent}] :
        /\ TimesDiffer(at)
        /\ files = [f \in Files |-> IF f[1] \in Foreign THEN 0 ELSE Stamp(f, at[f[1]])]
  BY DEF Init
<1>3. (0 .. MaxTime - 1) \subseteq Times /\ 0 \in Times /\ MaxTime - 1 \in Times
  BY AiCacheAssumption DEF Times
<1>4. \A f \in Files : /\ f[1] \in Keys \/ f[1] \in Foreign
                      /\ ~ (f[1] \in Keys /\ f[1] \in Foreign)
  BY AiCacheAssumption DEF Files
<1>5. files \in [Files -> Times \cup {Absent}]
  BY <1>2, <1>3, <1>4 DEF Stamp
<1>6. TypeOK
  <2>1. clock \in Times /\ limits \in [age : AgeLimits, entries : EntryLimits]
    BY <1>3 DEF Init
  <2>2. writes \in 0 .. MaxWrites /\ faults \in 0 .. MaxFaults
    BY AiCacheAssumption DEF Init
  <2> QED BY <1>1, <1>5, <2>1, <2>2, NoCallLocal DEF TypeOK
<1>7. TimesDiffer(TimeOf(files))
  <2>1. \A k \in Keys : files[Exr(k)] = at[k]
    <3> SUFFICES ASSUME NEW k \in Keys PROVE files[Exr(k)] = at[k]
      OBVIOUS
    <3>1. Exr(k) \in Files /\ Exr(k)[1] = k /\ Exr(k)[2] = "exr"
      BY DEF Exr, Files, Extensions
    <3> QED BY <1>2, <1>4, <3>1 DEF Stamp
  <2> QED BY <1>2, <2>1 DEF TimesDiffer, TimeOf
<1>8. \A f \in Foreign \X Extensions : files[f] # Absent
  <2>1. \A f \in Foreign \X Extensions : f \in Files /\ files[f] = 0
    BY <1>2 DEF Files
  <2> QED BY <1>3, <2>1, AbsentNoTime
<1>9. \A c \in Callers : call[c] = NoCall /\ LocalInv(call[c])
  BY <1>1, NoCallLocal
<1>10. \A c \in Callers : ClearInv(call[c])
  BY <1>9 DEF ClearInv, NoCall
<1> QED BY <1>6, <1>7, <1>8, <1>9, <1>10 DEF BaseInv

-----------------------------------------------------------------------------
(* prune() *)

LEMMA EntriesOf ==
  ASSUME NEW began, NEW S \in SUBSET [key : Keys, mtime : Times],
         \A e \in S : e.mtime = began[Exr(e.key)]
  PROVE  /\ IsFiniteSet(S) /\ IsFiniteSet(KeysIn(S))
         /\ Cardinality(S) = Cardinality(KeysIn(S)) /\ Cardinality(S) \in Nat
<1> DEFINE f == [k \in KeysIn(S) |-> [key |-> k, mtime |-> began[Exr(k)]]]
<1>1. IsFiniteSet(KeysIn(S))
  <2>1. KeysIn(S) \in SUBSET Keys
    BY DEF KeysIn
  <2> QED BY <2>1, AiCacheAssumption, FS_Subset
<1>2. \A e \in S : e.key \in KeysIn(S) /\ f[e.key] = e
  BY DEF KeysIn
<1>3. \A k \in KeysIn(S) : f[k] \in S /\ f[k].key = k
  BY DEF KeysIn
<1>4. f \in [KeysIn(S) -> S]
  BY <1>3
<1>5. \A k \in KeysIn(S) : \A j \in KeysIn(S) : f[k] = f[j] => k = j
  BY <1>3
<1> HIDE DEF f
<1>6. f \in Bijection(KeysIn(S), S)
  BY <1>2, <1>4, <1>5 DEF Bijection, Injection, Surjection, IsInjective
<1>7. ExistsBijection(KeysIn(S), S)
  BY <1>6 DEF ExistsBijection
<1> QED BY <1>1, <1>7, FS_Bijection, FS_CardinalityType

LEMMA AheadFinite ==
  ASSUME NEW k, NEW t
  PROVE  /\ IsFiniteSet(Ahead(k, t)) /\ Cardinality(Ahead(k, t)) \in Nat
         /\ \A S \in SUBSET Ahead(k, t) :
              Cardinality(S) <= Cardinality(Ahead(k, t)) /\ Cardinality(S) \in Nat
<1>1. Ahead(k, t) \in SUBSET Keys
  BY DEF Ahead
<1>2. IsFiniteSet(Ahead(k, t))
  BY <1>1, AiCacheAssumption, FS_Subset
<1> QED BY <1>2, FS_Subset, FS_CardinalityType

LEMMA LimitTypes ==
  BaseInv => limits.age \in Nat /\ limits.entries \in Nat /\ clock \in Nat
  BY AiCacheAssumption, AbsentNoTime DEF BaseInv, TypeOK

(* Of two entries the older one is spent where the newer one is, as long   *)
(* as it does not itself count against the newer one.                      *)
LEMMA OlderIsSpent ==
  ASSUME BaseInv, NEW j \in Keys, NEW k \in Keys, NEW m \in Times, NEW t \in Times,
         t <= m, Spent(j, m), k \notin Ahead(j, m)
  PROVE  Spent(k, t)
<1>1. m \in Nat /\ t \in Nat /\ \A f \in Files : files[f] \in Nat
  <2>1. \A f \in Files : files[f] \in Times \cup {Absent}
    BY DEF BaseInv, TypeOK
  <2> QED BY <2>1, AbsentNoTime
<1>2. CASE TooOld(m, clock)
  BY <1>1, <1>2, LimitTypes DEF Spent, TooOld
<1>3. CASE limits.entries > 0 /\ Cardinality(Ahead(j, m)) >= limits.entries
  <2>1. Ahead(j, m) \in SUBSET Ahead(k, t)
    BY <1>1 DEF Ahead, Exr, Files, Extensions
  <2>2. Cardinality(Ahead(j, m)) <= Cardinality(Ahead(k, t))
    BY <2>1, AheadFinite
  <2>3. Cardinality(Ahead(k, t)) >= limits.entries
    BY <1>3, <2>2, AheadFinite, LimitTypes
  <2> QED BY <1>3, <2>3 DEF Spent
<1> QED BY <1>2, <1>3 DEF Spent

(* As time passes *)
LEMMA SpentLater ==
  ASSUME BaseInv, UNCHANGED limits, clock' \in Times, clock <= clock',
         \A j \in Keys : files'[Exr(j)] = files[Exr(j)]
  PROVE  \A k \in Keys, t \in Times : Spent(k, t) => Spent(k, t)'
<1> SUFFICES ASSUME NEW k \in Keys, NEW t \in Times, Spent(k, t) PROVE Spent(k, t)'
  OBVIOUS
<1>1. t \in Nat /\ clock' \in Nat
  BY AbsentNoTime
<1>2. TooOld(t, clock) => TooOld(t, clock)'
  BY <1>1, LimitTypes DEF TooOld
<1>3. Ahead(k, t)' = Ahead(k, t)
  BY DEF Ahead
<1> QED BY <1>2, <1>3 DEF Spent

(* When an image goes that is spent itself *)
LEMMA SpentStays ==
  ASSUME BaseInv, UNCHANGED <<clock, limits>>, NEW r \in Keys,
         files' = [files EXCEPT ![Exr(r)] = Absent],
         Has(r) => Spent(r, files[Exr(r)])
  PROVE  \A k \in Keys, t \in Times :
            (Has(k) => files[Exr(k)] = t) /\ Spent(k, t) => Spent(k, t)'
<1> SUFFICES ASSUME NEW k \in Keys, NEW t \in Times, Has(k) => files[Exr(k)] = t, Spent(k, t)
             PROVE  Spent(k, t)'
  OBVIOUS
<1>1. /\ \A j \in Keys \ {r} : files'[Exr(j)] = files[Exr(j)]
      /\ files'[Exr(r)] = Absent
      /\ \A j \in Keys : Exr(j) \in Files /\ files[Exr(j)] \in Times \cup {Absent}
  BY DEF BaseInv, TypeOK, Exr, Files, Extensions
<1>2. Ahead(k, t)' = Ahead(k, t) \ {r}
  BY <1>1 DEF Ahead
<1>3. CASE r \notin Ahead(k, t)
  BY <1>2, <1>3 DEF Spent, TooOld
<1>4. CASE r \in Ahead(k, t)
  <2>1. PICK m \in Times : files[Exr(r)] = m /\ t <= m
    BY <1>1, <1>4, AbsentNoTime DEF Ahead
  <2>2. Spent(r, m) /\ r # k
    BY <1>4, <2>1 DEF Has, Ahead
  <2>3. CASE TooOld(m, clock)
    <3>1. TooOld(t, clock)
      BY <2>1, <2>3, AbsentNoTime, LimitTypes DEF TooOld
    <3> QED BY <3>1 DEF Spent, TooOld
  <2>4. CASE limits.entries > 0 /\ Cardinality(Ahead(r, m)) >= limits.entries
    <3>1. k \notin Ahead(r, m)
      <4> SUFFICES ASSUME k \in Ahead(r, m) PROVE FALSE
        OBVIOUS
      <4>1. files[Exr(k)] # Absent /\ files[Exr(k)] >= m
        BY DEF Ahead
      <4>2. files[Exr(k)] = t
        BY <4>1 DEF Has
      <4>3. t = m
        BY <2>1, <4>1, <4>2, AbsentNoTime
      <4> QED BY <2>1, <2>2, <4>1, <4>2, <4>3 DEF BaseInv, TimesDiffer, TimeOf
    <3>2. Ahead(r, m) \in SUBSET (Ahead(k, t) \ {r})
      <4>1. t \in Nat /\ m \in Nat /\ \A j \in Keys : files[Exr(j)] \in Nat
        BY <1>1, AbsentNoTime
      <4> QED BY <2>1, <3>1, <4>1 DEF Ahead
    <3>3. Cardinality(Ahead(r, m)) <= Cardinality(Ahead(k, t) \ {r})
      <4>1. (Ahead(k, t) \ {r}) \in SUBSET Ahead(k, t)
        OBVIOUS
      <4>2. IsFiniteSet(Ahead(k, t) \ {r})
        BY <4>1, AheadFinite, FS_Subset
      <4> QED BY <3>2, <4>2, FS_Subset
    <3>4. Cardinality(Ahead(k, t) \ {r}) \in Nat
      BY AheadFinite
    <3>5. Cardinality(Ahead(k, t)') >= limits.entries
      BY <1>2, <2>4, <3>3, <3>4, AheadFinite, LimitTypes
    <3> QED BY <2>4, <3>5 DEF Spent
  <2> QED BY <2>2, <2>3, <2>4 DEF Spent
<1> QED BY <1>3, <1>4

(* What any step does to the directory under a prune() it does not disturb *)
Thinned ==
  /\ UNCHANGED limits /\ clock' \in Times /\ clock <= clock'
  /\ \A f \in Keys \X Extensions : files'[f] \in {files[f], Absent}
  /\ \A k \in Keys, t \in Times :
       (Has(k) => files[Exr(k)] = t) /\ Spent(k, t) => Spent(k, t)'
  /\ \A k \in Keys : Has(k) /\ files'[Exr(k)] = Absent =>
       Spent(k, files[Exr(k)]) /\ Json(k) \in BeingPruned'
  /\ \A k \in Keys : Json(k) \in BeingPruned =>
       Json(k) \in BeingPruned' \/ files'[Json(k)] = Absent

LEMMA SinceStays ==
  ASSUME BaseInv, Thinned, NEW it, SinceInv(it)
  PROVE  SinceInv(it)'
<1>1. \A k \in Keys : Exr(k) \in Keys \X Extensions /\ Json(k) \in Keys \X Extensions
  BY DEF Exr, Json, Extensions
<1>2. \A k \in Keys : files'[Exr(k)] \in {files[Exr(k)], Absent}
                   /\ files'[Json(k)] \in {files[Json(k)], Absent}
  BY <1>1 DEF Thinned
<1>3. \A k \in Keys : Has(k)' => files'[Exr(k)] = it.began[Exr(k)]
  BY <1>2 DEF Has, SinceInv
<1>4. ASSUME NEW k \in Keys, it.began[Exr(k)] # Absent, ~ Has(k)'
      PROVE  /\ Spent(k, it.began[Exr(k)])'
             /\ Json(k) \in BeingPruned' \/ files'[Json(k)] = Absent
  <2>1. files'[Exr(k)] = Absent
    BY <1>4 DEF Has
  <2>2. PICK t \in Times : t = it.began[Exr(k)]
    <3>1. Exr(k) \in Files
      BY DEF Exr, Files, Extensions
    <3> QED BY <1>4, <3>1 DEF SinceInv
  <2>3. Has(k) => files[Exr(k)] = t
    BY <2>2 DEF SinceInv
  <2>4. CASE Has(k)
    <3>1. Spent(k, t) /\ Json(k) \in BeingPruned'
      BY <2>1, <2>3, <2>4 DEF Thinned
    <3>2. Spent(k, t)'
      BY <2>3, <3>1 DEF Thinned
    <3> QED BY <2>2, <3>1, <3>2
  <2>5. CASE ~ Has(k)
    <3>1. Spent(k, t) /\ (Json(k) \in BeingPruned \/ files[Json(k)] = Absent)
      BY <1>4, <2>2, <2>5 DEF SinceInv
    <3>2. Spent(k, t)'
      BY <2>3, <3>1 DEF Thinned
    <3>3. Json(k) \in BeingPruned' \/ files'[Json(k)] = Absent
      BY <1>2, <3>1 DEF Thinned
    <3> QED BY <2>2, <3>2, <3>3
  <2> QED BY <2>4, <2>5
<1> QED BY <1>3, <1>4 DEF SinceInv

LEMMA ProgressStays ==
  ASSUME BaseInv, Thinned, NEW it, LocalInv(it), SinceInv(it), ProgressInv(it)
  PROVE  ProgressInv(it)'
<1>1. \A k \in Keys : files'[Exr(k)] \in {files[Exr(k)], Absent}
  BY DEF Thinned, Exr, Extensions
<1>2. Entries' \subseteq Entries /\ \A k \in Entries' : files'[Exr(k)] = files[Exr(k)]
  BY <1>1 DEF Entries, Has
<1>3. it.now \in Nat /\ clock \in Nat /\ clock' \in Nat /\ clock <= clock'
  <2>1. it.now \in Times /\ clock' \in Times
    BY DEF LocalInv, Calls, Thinned
  <2> QED BY <2>1, AbsentNoTime, LimitTypes DEF Thinned
<1>4. \A e \in it.doomed : Spent(e.key, e.mtime)'
  <2> SUFFICES ASSUME NEW e \in it.doomed PROVE Spent(e.key, e.mtime)'
    OBVIOUS
  <2>1. e.key \in Keys /\ e.mtime \in Times
    BY DEF LocalInv, Calls
  <2>2. Spent(e.key, e.mtime) /\ (Has(e.key) => files[Exr(e.key)] = e.mtime)
    BY <2>1 DEF SinceInv, ProgressInv
  <2> QED BY <2>1, <2>2 DEF Thinned
<1>5. it.pc \in {"age", "entries"} => it.now <= clock'
  BY <1>3 DEF ProgressInv
<1>6. \A e \in it.seen : ~ TooOld(e.mtime, it.now) => ~ TooOld(e.mtime, it.now)'
  BY DEF TooOld, Thinned
<1>7. \A k \in Entries' : ~ TooOld(files[Exr(k)], it.now) => ~ TooOld(files[Exr(k)], it.now)'
  BY <1>2 DEF TooOld, Thinned
<1>8. limits.entries > 0 /\ it.pc = "entries" =>
        Cardinality(Entries' \ KeysIn(it.doomed)) <= limits.entries
  <2> DEFINE before == Entries \ KeysIn(it.doomed)
             after == Entries' \ KeysIn(it.doomed)
  <2>1. before \in SUBSET Keys /\ after \in SUBSET before
    BY <1>2 DEF Entries
  <2>2. IsFiniteSet(before)
    BY <2>1, AiCacheAssumption, FS_Subset
  <2>3. Cardinality(after) <= Cardinality(before) /\ Cardinality(before) \in Nat
    BY <2>1, <2>2, FS_Subset, FS_CardinalityType
  <2>4. Cardinality(after) \in Nat
    BY <2>1, <2>2, FS_Subset, FS_CardinalityType
  <2>5. limits.entries > 0 /\ it.pc = "entries" => Cardinality(before) <= limits.entries
    BY DEF ProgressInv
  <2> HIDE DEF before, after
  <2>6. limits.entries > 0 /\ it.pc = "entries" => Cardinality(after) <= limits.entries
    BY <2>3, <2>4, <2>5, LimitTypes
  <2> QED BY <2>6 DEF after
<1>9. UNCHANGED limits
  BY DEF Thinned
<1> QED BY <1>2, <1>4, <1>5, <1>6, <1>7, <1>8, <1>9 DEF ProgressInv

(* What the acting prune() knows next, while the directory stays as it is *)

LEMMA ScanProgress ==
  ASSUME NEW it, NEW new, NEW k \in Keys, SinceInv(it), ProgressInv(it),
         it.pc = "scan", new.pc = "scan", new.began = it.began, new.doomed = {},
         new.unread = it.unread \ {Exr(k)},
         new.seen = it.seen \cup
           (IF Has(k) THEN {[key |-> k, mtime |-> files[Exr(k)]]} ELSE {})
  PROVE  ProgressInv(new)
<1>1. \A e \in new.seen : e.mtime = new.began[Exr(e.key)]
  BY DEF SinceInv, ProgressInv
<1>2. KeysIn(it.seen) \subseteq KeysIn(new.seen) /\ (Has(k) => k \in KeysIn(new.seen))
  <2>1. \A e \in it.seen : e \in new.seen
    OBVIOUS
  <2>2. Has(k) => \E e \in new.seen : e.key = k
    <3>1. [key |-> k, mtime |-> files[Exr(k)]].key = k
      OBVIOUS
    <3> QED BY <3>1
  <2> QED BY <2>1, <2>2 DEF KeysIn
<1>3. \A j \in Entries : Exr(j) \in new.unread \/ j \in KeysIn(new.seen)
  BY <1>2 DEF ProgressInv, Entries, Exr
<1> QED BY <1>1, <1>3 DEF ProgressInv

LEMMA AgeProgress ==
  ASSUME BaseInv, NEW it, NEW new, SinceInv(it), ProgressInv(it),
         it.pc = "scan", it.unread = {}, new.pc = "age", new.now = clock,
         new.began = it.began,
         new.doomed = {e \in it.seen : TooOld(e.mtime, clock)},
         new.seen = it.seen \ new.doomed
  PROVE  ProgressInv(new)
<1>1. /\ \A e \in new.seen \cup new.doomed : e.mtime = new.began[Exr(e.key)]
      /\ \A e \in new.doomed : Spent(e.key, e.mtime)
      /\ \A e \in new.seen : ~ TooOld(e.mtime, new.now)
  BY DEF ProgressInv, Spent
<1>2. Entries \subseteq KeysIn(new.seen) \cup KeysIn(new.doomed)
  BY DEF ProgressInv, KeysIn
<1>3. new.now <= clock
  BY LimitTypes
<1> QED BY <1>1, <1>2, <1>3 DEF ProgressInv

(* Of the entries in the list, those past the first max_entries are spent, *)
(* although others may have removed some of the first since the scan: what *)
(* is gone was spent itself, and not because of an older one.              *)
LEMMA SurplusIsSpent ==
  ASSUME BaseInv, NEW it, LocalInv(it), SinceInv(it), ProgressInv(it),
         NEW s \in Surplus(it.seen), limits.entries > 0, NEW e \in s
  PROVE  Spent(e.key, e.mtime)
<1> DEFINE kept == it.seen \ s
<1>1. /\ s \in SUBSET it.seen /\ Cardinality(kept) = limits.entries
      /\ \A h \in kept : h.mtime >= e.mtime
  BY DEF Surplus
<1>2. \A h \in it.seen : h \in [key : Keys, mtime : Times] /\ h.mtime = it.began[Exr(h.key)]
  BY DEF LocalInv, Calls, ProgressInv
<1>3. \A h \in kept : h.key \in Keys /\ h.mtime \in Times /\ h.key # e.key
  <2> SUFFICES ASSUME NEW h \in kept, h.key = e.key PROVE FALSE
    BY <1>2
  <2>1. h = e
    BY <1>1, <1>2
  <2> QED BY <2>1
<1>4. e.key \in Keys /\ e.mtime \in Times /\ e.mtime = it.began[Exr(e.key)]
  BY <1>1, <1>2
<1>5. CASE \A h \in kept : Has(h.key)
  <2>1. \A h \in kept : h.key \in Ahead(e.key, e.mtime)
    BY <1>1, <1>2, <1>3, <1>5 DEF SinceInv, Ahead, Has
  <2>2. KeysIn(kept) \in SUBSET Ahead(e.key, e.mtime)
    BY <2>1 DEF KeysIn
  <2>3. Cardinality(KeysIn(kept)) = limits.entries
    <3>1. kept \in SUBSET [key : Keys, mtime : Times]
      BY <1>2
    <3>2. \A h \in kept : h.mtime = it.began[Exr(h.key)]
      BY <1>2
    <3> HIDE DEF kept
    <3> QED BY <1>1, <3>1, <3>2, EntriesOf
  <2>4. limits.entries <= Cardinality(Ahead(e.key, e.mtime))
    BY <2>2, <2>3, AheadFinite
  <2> QED BY <2>4, AheadFinite, LimitTypes DEF Spent
<1>6. CASE ~ \A h \in kept : Has(h.key)
  <2>1. PICK h \in kept : ~ Has(h.key)
    BY <1>6
  <2>2. h.mtime = it.began[Exr(h.key)] /\ it.began[Exr(h.key)] # Absent
    BY <1>2, <1>3, AbsentNoTime
  <2>3. Spent(h.key, h.mtime)
    BY <1>3, <2>1, <2>2 DEF SinceInv
  <2>4. e.key \notin Ahead(h.key, h.mtime)
    <3> SUFFICES ASSUME e.key \in Ahead(h.key, h.mtime) PROVE FALSE
      OBVIOUS
    <3>1. Has(e.key) /\ files[Exr(e.key)] >= h.mtime
      BY <1>4 DEF Ahead, Has
    <3>2. files[Exr(e.key)] = e.mtime
      BY <1>4, <3>1 DEF SinceInv
    <3>3. e.mtime = h.mtime
      <4>1. h.mtime \in Nat /\ e.mtime \in Nat
        BY <1>3, <1>4, AbsentNoTime
      <4>2. h.mtime >= e.mtime /\ e.mtime >= h.mtime
        BY <1>1, <3>1, <3>2
      <4> QED BY <4>1, <4>2
    <3> QED BY <1>3, <1>4, <2>2, <3>3 DEF SinceInv, TimesDiffer, TimeOf
  <2>5. e.mtime <= h.mtime
    BY <1>1, <1>3, <1>4, AbsentNoTime
  <2> QED BY <1>3, <1>4, <2>3, <2>4, <2>5, OlderIsSpent
<1> QED BY <1>5, <1>6

LEMMA EntryProgress ==
  ASSUME BaseInv, NEW it, NEW new, LocalInv(it), SinceInv(it), ProgressInv(it),
         it.pc = "age", it.doomed = {}, new.pc = "entries", new.now = it.now,
         new.began = it.began, new.seen = it.seen,
         \/ /\ limits.entries > 0 /\ Cardinality(it.seen) > limits.entries
            /\ new.doomed \in Surplus(it.seen)
         \/ /\ ~ (limits.entries > 0 /\ Cardinality(it.seen) > limits.entries)
            /\ new.doomed = {}
  PROVE  ProgressInv(new)
<1> DEFINE kept == it.seen \ new.doomed
<1>1. new.doomed \in SUBSET it.seen
  BY DEF Surplus
<1>2. it.seen \in SUBSET [key : Keys, mtime : Times]
  BY DEF LocalInv, Calls
<1>3. /\ \A e \in new.seen \cup new.doomed : e.mtime = new.began[Exr(e.key)]
      /\ new.now <= clock
  BY <1>1 DEF ProgressInv
<1>4. \A e \in new.doomed : Spent(e.key, e.mtime)
  BY SurplusIsSpent
<1>5. \A k \in Entries : ~ TooOld(files[Exr(k)], new.now)
  <2> SUFFICES ASSUME NEW k \in Entries PROVE ~ TooOld(files[Exr(k)], it.now)
    OBVIOUS
  <2>1. k \in KeysIn(it.seen)
    BY DEF ProgressInv, KeysIn
  <2>2. PICK e \in it.seen : e.key = k
    BY <2>1 DEF KeysIn
  <2>3. e.mtime = files[Exr(k)]
    BY <2>2 DEF ProgressInv, SinceInv, Entries
  <2> QED BY <2>2, <2>3 DEF ProgressInv
<1>6. limits.entries > 0 => Cardinality(Entries \ KeysIn(new.doomed)) <= limits.entries
  <2> SUFFICES ASSUME limits.entries > 0
               PROVE  Cardinality(Entries \ KeysIn(new.doomed)) <= limits.entries
    OBVIOUS
  <2>1. (Entries \ KeysIn(new.doomed)) \in SUBSET KeysIn(kept)
    BY <1>1 DEF ProgressInv, KeysIn
  <2>2. /\ IsFiniteSet(KeysIn(kept)) /\ Cardinality(kept) = Cardinality(KeysIn(kept))
        /\ Cardinality(kept) \in Nat
    <3>1. kept \in SUBSET [key : Keys, mtime : Times]
      BY <1>2
    <3>2. \A h \in kept : h.mtime = it.began[Exr(h.key)]
      BY DEF ProgressInv
    <3> HIDE DEF kept
    <3> QED BY <3>1, <3>2, EntriesOf
  <2>3. Cardinality(kept) <= limits.entries
    <3>1. Cardinality(it.seen) \in Nat
      BY <1>2, EntriesOf DEF ProgressInv
    <3>2. CASE new.doomed \in Surplus(it.seen)
      <4>1. Cardinality(kept) = limits.entries
        BY <3>2 DEF Surplus
      <4> QED BY <4>1, LimitTypes
    <3>3. CASE new.doomed = {} /\ ~ (Cardinality(it.seen) > limits.entries)
      <4>1. kept = it.seen
        BY <3>3
      <4> QED BY <3>1, <3>3, <4>1, LimitTypes
    <3> QED BY <3>2, <3>3
  <2>4. /\ Cardinality(Entries \ KeysIn(new.doomed)) <= Cardinality(KeysIn(kept))
        /\ Cardinality(Entries \ KeysIn(new.doomed)) \in Nat
    <3> HIDE DEF kept
    <3> QED BY <2>1, <2>2, FS_Subset, FS_CardinalityType
  <2> HIDE DEF kept
  <2> QED BY <2>2, <2>3, <2>4, LimitTypes
<1> QED BY <1>3, <1>4, <1>5, <1>6 DEF ProgressInv

-----------------------------------------------------------------------------
(* The steps of prune() and of those beside it *)

LEMMA SameSidecars ==
  ASSUME NEW c \in Callers, \A d \in Callers \ {c} : call'[d] = call[d],
         call'[c].sidecars = call[c].sidecars
  PROVE  BeingPruned' = BeingPruned
<1>1. \A d \in Callers : call'[d].sidecars = call[d].sidecars
  OBVIOUS
<1> QED BY <1>1 DEF BeingPruned

LEMMA QuietThins ==
  ASSUME BaseInv, UNCHANGED <<files, limits>>, clock' \in Times, clock <= clock',
         BeingPruned' = BeingPruned
  PROVE  Thinned
<1>1. \A k \in Keys, t \in Times : Spent(k, t) => Spent(k, t)'
  BY SpentLater
<1> QED BY <1>1 DEF Thinned, Has

LEMMA Assembled ==
  ASSUME BaseInv, PruneInv, NEW c \in Callers, \A d \in Callers \ {c} : call'[d] = call[d],
         NEW new, call'[c] = new,
         (\A d \in Callers : ~ call[d].disturbed) => Thinned /\ ~ new.disturbed,
         Undisturbed(new) => \A d \in Callers : ~ call[d].disturbed,
         Undisturbed(new) =>
           \/ LocalInv(new) /\ SinceInv(new) /\ ProgressInv(new)
           \/ SinceInv(new)' /\ ProgressInv(new)'
  PROVE  PruneInv'
<1>1. ASSUME NEW d \in Callers, Undisturbed(call'[d])
      PROVE  /\ \A b \in Callers : ~ call'[b].disturbed
             /\ SinceInv(call[d])' /\ ProgressInv(call[d])'
  <2>1. \A b \in Callers : ~ call[b].disturbed
    <3>1. CASE d = c
      BY <1>1, <3>1
    <3>2. CASE d # c
      BY <1>1, <3>2 DEF PruneInv
    <3> QED BY <3>1, <3>2
  <2>2. Thinned /\ \A b \in Callers : ~ call'[b].disturbed
    BY <2>1
  <2>3. PICK it : it = call'[d]
    OBVIOUS
  <2>4. SinceInv(it)' /\ ProgressInv(it)'
    <3>1. CASE d = c
      <4>1. it = new /\ Undisturbed(new)
        BY <1>1, <2>3, <3>1
      <4>2. CASE LocalInv(new) /\ SinceInv(new) /\ ProgressInv(new)
        BY <2>2, <4>1, <4>2, SinceStays, ProgressStays
      <4> QED BY <4>1, <4>2
    <3>2. CASE d # c
      <4>1. it = call[d] /\ Undisturbed(it)
        BY <1>1, <2>3, <3>2
      <4>2. LocalInv(it) /\ SinceInv(it) /\ ProgressInv(it)
        BY <4>1 DEF BaseInv, PruneInv
      <4> QED BY <2>2, <4>2, SinceStays, ProgressStays
    <3> QED BY <3>1, <3>2
  <2> QED BY <2>2, <2>3, <2>4
<1> QED BY <1>1 DEF PruneInv

LEMMA AllDisturbed ==
  ASSUME \A d \in Callers : call'[d].op = "prune" => call'[d].disturbed
  PROVE  PruneInv'
  BY DEF PruneInv, Undisturbed

LEMMA PruneOpen ==
  ASSUME BaseInv, PruneInv, NEW c \in Callers, NEW op \in {"clear", "prune"}, Open(c, op)
  PROVE  PruneInv'
<1>1. PICK new : new = call'[c]
  OBVIOUS
<1>2. /\ BaseInv' /\ call[c] = NoCall /\ UNCHANGED <<files, clock, limits>>
      /\ \A d \in Callers \ {c} : call'[d] = call[d]
  BY OpenBase DEF Open
<1>3. LocalInv(new)
  BY <1>1, <1>2 DEF BaseInv
<1>4. \/ new.disturbed /\ \E d \in Callers : call[d].disturbed
      \/ /\ \A d \in Callers : ~ call[d].disturbed
         /\ ~ new.disturbed /\ new.op = op /\ new.pc = "scan"
         /\ new.began = files /\ new.seen = {} /\ new.doomed = {}
         /\ new.unread = {f \in Scanned(op) : files[f] # Absent}
  BY <1>1, OpenBase
<1>5. new.pc = "scan" /\ LocalInv(new) => new.sidecars = {}
  BY DEF LocalInv
<1>6. ASSUME \A d \in Callers : ~ call[d].disturbed PROVE Thinned /\ ~ new.disturbed
  <2>1. call'[c].sidecars = call[c].sidecars
    BY <1>1, <1>2, <1>3, <1>4, <1>5, <1>6 DEF NoCall
  <2>2. BeingPruned' = BeingPruned
    BY <1>2, <2>1, SameSidecars
  <2>3. clock' \in Times /\ clock <= clock'
    BY <1>2, LimitTypes DEF BaseInv, TypeOK
  <2> QED BY <1>2, <1>4, <1>6, <2>2, <2>3, QuietThins
<1>7. ASSUME Undisturbed(new)
      PROVE  /\ \A d \in Callers : ~ call[d].disturbed
             /\ SinceInv(new) /\ ProgressInv(new)
  <2>1. /\ \A d \in Callers : ~ call[d].disturbed
        /\ new.began = files /\ new.seen = {} /\ new.doomed = {} /\ new.pc = "scan"
        /\ new.unread = {f \in Scanned("prune") : files[f] # Absent}
    BY <1>4, <1>7 DEF Undisturbed
  <2>2. SinceInv(new)
    BY <2>1 DEF SinceInv, BaseInv, TypeOK, Has
  <2>3. \A k \in Entries : Exr(k) \in new.unread
    BY <2>1 DEF Entries, Has, Scanned
  <2> QED BY <2>1, <2>2, <2>3 DEF ProgressInv
<1> QED BY <1>1, <1>2, <1>3, <1>6, <1>7, Assembled

LEMMA PruneLeave ==
  ASSUME BaseInv, PruneInv, NEW c \in Callers, Leaves(c)
  PROVE  PruneInv'
<1>1. /\ call'[c] = NoCall /\ \A d \in Callers \ {c} : call'[d] = call[d]
      /\ UNCHANGED <<files, clock, limits>>
  BY DEF Leaves
<1>2. BeingPruned' = BeingPruned
  <2>1. call'[c].sidecars = call[c].sidecars
    BY DEF Leaves, NoCall
  <2> QED BY <1>1, <2>1, SameSidecars
<1>3. Thinned
  <2>1. clock' \in Times /\ clock <= clock'
    BY <1>1, LimitTypes DEF BaseInv, TypeOK
  <2> QED BY <1>1, <1>2, <2>1, QuietThins
<1>4. ~ NoCall.disturbed /\ ~ Undisturbed(NoCall)
  BY DEF NoCall, Undisturbed
<1> QED BY <1>1, <1>3, <1>4, Assembled

(* The steps that only change what the call knows *)
LEMMA PrunePasses ==
  ASSUME BaseInv, PruneInv, NEW c \in Callers,
         ScanEntry(c) \/ StartAgePass(c) \/ StartEntryPass(c)
  PROVE  PruneInv'
<1>1. PICK it, new : it = call[c] /\ new = call'[c]
  OBVIOUS
<1>2. /\ BaseInv' /\ it.op = "prune" /\ new.op = "prune" /\ new.disturbed = it.disturbed
      /\ new.sidecars = it.sidecars /\ new.began = it.began
      /\ \A d \in Callers \ {c} : call'[d] = call[d]
  BY <1>1, ScanBase, AgePassBase, EntryPassBase
<1>3. UNCHANGED <<files, clock, limits>>
  BY DEF ScanEntry, StartAgePass, StartEntryPass
<1>4. LocalInv(it) /\ LocalInv(new)
  BY <1>1, <1>2 DEF BaseInv
<1>5. Thinned
  <2>1. BeingPruned' = BeingPruned
    BY <1>1, <1>2, SameSidecars
  <2>2. clock' \in Times /\ clock <= clock'
    BY <1>3, LimitTypes DEF BaseInv, TypeOK
  <2> QED BY <1>3, <2>1, <2>2, QuietThins
<1>6. ASSUME Undisturbed(new)
      PROVE  /\ \A d \in Callers : ~ call[d].disturbed
             /\ SinceInv(new) /\ ProgressInv(new)
  <2>1. Undisturbed(call[c])
    BY <1>1, <1>2, <1>6 DEF Undisturbed
  <2>2. (\A d \in Callers : ~ call[d].disturbed) /\ SinceInv(it) /\ ProgressInv(it)
    BY <1>1, <2>1 DEF PruneInv
  <2>3. SinceInv(new)
    BY <1>2, <2>2 DEF SinceInv
  <2>4. ProgressInv(new)
    <3>1. CASE ScanEntry(c)
      BY <1>1, <2>2, <3>1, ScanBase, ScanProgress
    <3>2. CASE StartAgePass(c)
      BY <1>1, <2>2, <3>2, AgePassBase, AgeProgress
    <3>3. CASE StartEntryPass(c)
      BY <1>1, <1>4, <2>2, <3>3, EntryPassBase, EntryProgress
    <3> QED BY <3>1, <3>2, <3>3
  <2> QED BY <2>2, <2>3, <2>4
<1>7. (\A d \in Callers : ~ call[d].disturbed) => ~ new.disturbed
  BY <1>1, <1>2
<1> QED BY <1>1, <1>2, <1>4, <1>5, <1>6, <1>7, Assembled

LEMMA PruneRemoveExr ==
  ASSUME BaseInv, PruneInv, NEW c \in Callers, RemoveExr(c)
  PROVE  PruneInv'
<1>1. CASE \A d \in Callers : call'[d].op # "none" => call'[d].disturbed
  BY <1>1, AllDisturbed
<1>2. CASE ~ \A d \in Callers : call'[d].op # "none" => call'[d].disturbed
  <2>1. PICK it, new : it = call[c] /\ new = call'[c]
    OBVIOUS
  <2>2. PICK e \in it.doomed :
          /\ files' = [files EXCEPT ![Exr(e.key)] = Absent]
          /\ \A d \in Callers \ {c} : call'[d] = call[d]
          /\ it.sidecars = {} /\ new.sidecars = {Json(e.key)}
          /\ new.doomed = it.doomed \ {e} /\ new.seen = it.seen
          /\ it.op = "prune" /\ new.op = it.op
          /\ it.pc \in {"age", "entries"} /\ new.pc = it.pc
          /\ new.unread = it.unread /\ new.now = it.now
          /\ new.began = it.began /\ new.disturbed = it.disturbed
          /\ e.key \in Keys /\ e.mtime \in Times
    BY <1>2, <2>1, RemoveExrBase
  <2>3. BaseInv' /\ UNCHANGED <<clock, limits>> /\ LocalInv(it)
    BY <2>1, RemoveExrBase DEF BaseInv
  <2>4. /\ \A k \in Keys \ {e.key} : files'[Exr(k)] = files[Exr(k)]
        /\ files'[Exr(e.key)] = Absent
        /\ \A k \in Keys : files'[Json(k)] = files[Json(k)]
        /\ \A f \in Keys \X Extensions : files'[f] \in {files[f], Absent}
    <3>1. Exr(e.key) \in Keys \X Extensions
      BY <2>2 DEF Exr, Extensions
    <3>2. \A f \in Keys \X Extensions : f \in Files
      BY DEF Files
    <3>3. \A k \in Keys : /\ Exr(k) \in Keys \X Extensions /\ Json(k) \in Keys \X Extensions
                          /\ Json(k) # Exr(e.key) /\ (k # e.key => Exr(k) # Exr(e.key))
      BY DEF Exr, Json, Extensions
    <3> QED BY <2>2, <3>1, <3>2, <3>3, RemovedFile
  <2>5. ASSUME \A d \in Callers : ~ call[d].disturbed
        PROVE  Thinned /\ SinceInv(it) /\ ProgressInv(it)
    <3>1. SinceInv(it) /\ ProgressInv(it)
      BY <2>1, <2>2, <2>5 DEF PruneInv, Undisturbed
    <3>2. Spent(e.key, e.mtime) /\ (Has(e.key) => files[Exr(e.key)] = e.mtime)
      BY <2>2, <3>1 DEF SinceInv, ProgressInv
    <3>3. \A k \in Keys, t \in Times :
            (Has(k) => files[Exr(k)] = t) /\ Spent(k, t) => Spent(k, t)'
      BY <2>2, <2>3, <3>2, SpentStays
    <3>4. \A k \in Keys : Has(k) /\ files'[Exr(k)] = Absent =>
            Spent(k, files[Exr(k)]) /\ Json(k) \in BeingPruned'
      <4>1. \A k \in Keys : Has(k) /\ files'[Exr(k)] = Absent => k = e.key
        BY <2>4 DEF Has
      <4>2. Json(e.key) \in BeingPruned'
        BY <2>1, <2>2 DEF BeingPruned
      <4>3. Has(e.key) => Spent(e.key, files[Exr(e.key)])
        BY <3>2
      <4> QED BY <4>1, <4>2, <4>3
    <3>5. \A k \in Keys : Json(k) \in BeingPruned => Json(k) \in BeingPruned'
      BY <2>1, <2>2 DEF BeingPruned
    <3>6. clock' \in Times /\ clock <= clock'
      BY <2>3, LimitTypes DEF BaseInv, TypeOK
    <3> QED BY <2>3, <2>4, <3>1, <3>3, <3>4, <3>5, <3>6 DEF Thinned
  <2>6. ASSUME Undisturbed(new)
        PROVE  /\ \A d \in Callers : ~ call[d].disturbed
               /\ SinceInv(new)' /\ ProgressInv(new)'
    <3>1. \A d \in Callers : ~ call[d].disturbed
      BY <2>1, <2>2, <2>6 DEF PruneInv, Undisturbed
    <3>2. Thinned /\ SinceInv(it) /\ ProgressInv(it)
      BY <2>5, <3>1
    <3>3. SinceInv(it)' /\ ProgressInv(it)'
      BY <2>3, <3>2, SinceStays, ProgressStays
    <3>4. SinceInv(new)'
      BY <2>2, <3>3 DEF SinceInv
    <3>5. \A k \in Entries' : k \in KeysIn(new.doomed) <=> k \in KeysIn(it.doomed)
      <4>1. \A k \in Entries' : k # e.key
        BY <2>4 DEF Entries, Has
      <4> QED BY <2>2, <4>1 DEF KeysIn
    <3>6. Entries' \ KeysIn(new.doomed) = Entries' \ KeysIn(it.doomed)
      BY <3>5
    <3>7. ProgressInv(new)'
      BY <2>2, <3>3, <3>5, <3>6 DEF ProgressInv
    <3> QED BY <3>1, <3>4, <3>7
  <2>7. (\A d \in Callers : ~ call[d].disturbed) => Thinned /\ ~ new.disturbed
    BY <2>1, <2>2, <2>5
  <2> QED BY <2>1, <2>2, <2>6, <2>7, Assembled
<1> QED BY <1>1, <1>2

LEMMA PruneRemoveSidecar ==
  ASSUME BaseInv, PruneInv, NEW c \in Callers, RemoveSidecar(c)
  PROVE  PruneInv'
<1>1. CASE \A d \in Callers : call'[d].op # "none" => call'[d].disturbed
  BY <1>1, AllDisturbed
<1>2. CASE ~ \A d \in Callers : call'[d].op # "none" => call'[d].disturbed
  <2>1. PICK it, new : it = call[c] /\ new = call'[c]
    OBVIOUS
  <2>2. PICK r \in Keys :
          /\ files' = [files EXCEPT ![Json(r)] = Absent]
          /\ \A d \in Callers \ {c} : call'[d] = call[d]
          /\ it.sidecars = {Json(r)} /\ new.sidecars = {}
          /\ new.doomed = it.doomed /\ new.seen = it.seen
          /\ it.op = "prune" /\ new.op = it.op
          /\ it.pc \in {"age", "entries"} /\ new.pc = it.pc
          /\ new.unread = it.unread /\ new.now = it.now
          /\ new.began = it.began /\ new.disturbed = it.disturbed
    BY <1>2, <2>1, RemoveSidecarBase
  <2>3. BaseInv' /\ UNCHANGED <<clock, limits>> /\ LocalInv(it)
    BY <2>1, RemoveSidecarBase DEF BaseInv
  <2>4. /\ \A k \in Keys : files'[Exr(k)] = files[Exr(k)]
        /\ files'[Json(r)] = Absent
        /\ \A f \in Keys \X Extensions : files'[f] \in {files[f], Absent}
    <3>1. Json(r) \in Keys \X Extensions
      BY DEF Json, Extensions
    <3>2. \A f \in Keys \X Extensions : f \in Files
      BY DEF Files
    <3>3. \A k \in Keys : Exr(k) \in Keys \X Extensions /\ Exr(k) # Json(r)
      BY DEF Exr, Json, Extensions
    <3> QED BY <2>2, <3>1, <3>2, <3>3, RemovedFile
  <2>5. Thinned
    <3>1. clock' \in Times /\ clock <= clock'
      BY <2>3, LimitTypes DEF BaseInv, TypeOK
    <3>2. \A k \in Keys, t \in Times : Spent(k, t) => Spent(k, t)'
      BY <2>3, <2>4, <3>1, SpentLater
    <3>3. \A k \in Keys : Json(k) \in BeingPruned =>
            Json(k) \in BeingPruned' \/ files'[Json(k)] = Absent
      <4> SUFFICES ASSUME NEW k \in Keys, Json(k) \in BeingPruned
                   PROVE  Json(k) \in BeingPruned' \/ files'[Json(k)] = Absent
        OBVIOUS
      <4>1. PICK d \in Callers : Json(k) \in call[d].sidecars
        BY DEF BeingPruned
      <4>2. CASE d = c
        BY <2>1, <2>2, <2>4, <4>1, <4>2 DEF Json
      <4>3. CASE d # c
        BY <2>2, <4>1, <4>3 DEF BeingPruned
      <4> QED BY <4>2, <4>3
    <3> QED BY <2>3, <2>4, <3>1, <3>2, <3>3 DEF Thinned, Has
  <2>6. ASSUME Undisturbed(new)
        PROVE  /\ \A d \in Callers : ~ call[d].disturbed
               /\ SinceInv(new)' /\ ProgressInv(new)'
    <3>1. /\ \A d \in Callers : ~ call[d].disturbed
          /\ SinceInv(it) /\ ProgressInv(it)
      BY <2>1, <2>2, <2>6 DEF PruneInv, Undisturbed
    <3>2. SinceInv(it)' /\ ProgressInv(it)'
      BY <2>3, <2>5, <3>1, SinceStays, ProgressStays
    <3>3. SinceInv(new)'
      BY <2>2, <3>2 DEF SinceInv
    <3>4. ProgressInv(new)'
      BY <2>2, <3>2 DEF ProgressInv
    <3> QED BY <3>1, <3>3, <3>4
  <2>7. (\A d \in Callers : ~ call[d].disturbed) => Thinned /\ ~ new.disturbed
    BY <2>1, <2>2, <2>5
  <2> QED BY <2>1, <2>2, <2>6, <2>7, Assembled
<1> QED BY <1>1, <1>2

LEMMA PruneTick == ASSUME BaseInv, PruneInv, Tick \/ UNCHANGED vars PROVE PruneInv'
<1>1. UNCHANGED <<files, limits, call>> /\ BeingPruned' = BeingPruned
  BY DEF Tick, vars, BeingPruned
<1>2. clock' \in Times /\ clock <= clock'
  BY TickBase, LimitTypes DEF Tick, vars, BaseInv, TypeOK
<1>3. Thinned
  BY <1>1, <1>2, QuietThins
<1> SUFFICES ASSUME NEW c \in Callers
             PROVE  PruneInv'
  BY DEF PruneInv
<1>4. PICK it : it = call[c]
  OBVIOUS
<1>5. Undisturbed(it) => /\ \A d \in Callers : ~ call[d].disturbed
                         /\ LocalInv(it) /\ SinceInv(it) /\ ProgressInv(it)
  BY <1>4 DEF PruneInv, BaseInv
<1>6. (\A d \in Callers : ~ call[d].disturbed) => ~ it.disturbed
  BY <1>4
<1> QED BY <1>1, <1>3, <1>4, <1>5, <1>6, Assembled

LEMMA PruneStep ==
  ASSUME BaseInv, PruneInv, [Next]_vars
  PROVE  PruneInv'
<1>1. ASSUME NEW k \in Keys, StoreExr(k) \/ WriteSidecar(k) PROVE PruneInv'
  BY <1>1, WrittenBase, AllDisturbed
<1>2. ASSUME NEW c \in Callers, ClearEntry(c) PROVE PruneInv'
  BY <1>2, ClearEntryBase, AllDisturbed
<1>3. ASSUME NEW c \in Callers,
             OpenFails(c) \/ ScanThrows(c) \/ ClearReturns(c) \/ PruneReturns(c)
      PROVE  PruneInv'
  BY <1>3, LeaveBase, PruneLeave
<1> QED BY <1>1, <1>2, <1>3, PruneOpen, PrunePasses, PruneRemoveExr,
           PruneRemoveSidecar, PruneTick DEF Next, Clear, Prune

-----------------------------------------------------------------------------
(* The three promises *)

LEMMA Invariant == Spec => []IInv
<1>1. Init => IInv
  <2>1. Init => PruneInv
    BY DEF Init, NoCall, PruneInv, Undisturbed
  <2> QED BY <2>1, InitInv DEF IInv
<1>2. IInv /\ [Next]_vars => IInv'
  BY ClearStep, PruneStep DEF IInv
<1> QED BY <1>1, <1>2, PTL DEF Spec

(* The state of clear() and prune() keeps its type: only files that could  *)
(* be dated get into a list, and only names that are the cache's.          *)
THEOREM Types == Spec => []TypeOK
<1>1. IInv => TypeOK
  BY DEF IInv, BaseInv
<1> QED BY <1>1, Invariant, PTL

(* clear() that ends with nothing stored beside it and no removal refused  *)
(* has left no entry and no sidecar, whoever else cleared or pruned the    *)
(* directory, and every file that is not the cache's.                      *)
THEOREM ClearIsComplete == Spec => ClearLeavesForeignOnly
<1> DEFINE Promise(c) ==
       call[c].op = "clear" /\ Completed(c) /\ ~ call[c].disturbed
         => {f \in Files : files[f] # Absent} = Foreign \X Extensions
<1>1. ASSUME IInv, NEW c \in Callers PROVE Promise(c)
  <2> SUFFICES ASSUME call[c].op = "clear", call[c].unread = {}, ~ call[c].disturbed
               PROVE  {f \in Files : files[f] # Absent} = Foreign \X Extensions
    BY DEF Completed
  <2>1. \A f \in Keys \X Extensions : files[f] = Absent
    BY <1>1 DEF IInv, ClearInv
  <2>2. \A f \in Foreign \X Extensions : files[f] # Absent /\ f \in Files
    BY <1>1 DEF IInv, BaseInv, Files
  <2>3. \A f \in Files : f \in Keys \X Extensions \/ f \in Foreign \X Extensions
    BY DEF Files
  <2> QED BY <2>1, <2>2, <2>3
<1>2. IInv => [\A c \in Callers : Promise(c)]_vars
  BY <1>1
<1> QED BY <1>2, Invariant, PTL DEF ClearLeavesForeignOnly

(* Nothing else than its end takes a call out of the second pass. *)
LEMMA Returns ==
  ASSUME BaseInv, Next, NEW c \in Callers, call[c].pc = "entries", call'[c] = NoCall
  PROVE  call[c].doomed = {}
<1>1. call'[c].pc = "idle" /\ call'[c].pc # call[c].pc
  BY DEF NoCall
<1>2. ~ Tick /\ ~ \E k \in Keys : StoreExr(k) \/ WriteSidecar(k)
  BY <1>1, WrittenBase DEF Tick
<1>3. PICK d \in Callers : Clear(d) \/ Prune(d) \/ OpenFails(d) \/ ScanThrows(d)
  BY <1>2 DEF Next
<1>4. ~ ClearEntry(d) /\ ~ RemoveExr(d) /\ ~ RemoveSidecar(d)
  BY <1>1, ClearEntryBase, RemoveExrBase, RemoveSidecarBase
<1>5. ~ (Open(d, "clear") \/ Open(d, "prune") \/ OpenFails(d))
  <2>1. CASE d = c
    BY <2>1 DEF Open, OpenFails
  <2>2. CASE d # c
    BY <1>1, <2>2, OpenBase, LeaveBase DEF Leaves
  <2> QED BY <2>1, <2>2
<1>6. ~ (ScanEntry(d) \/ StartAgePass(d) \/ StartEntryPass(d))
  BY <1>1, ScanBase, AgePassBase, EntryPassBase
<1>7. ScanThrows(d) \/ ClearReturns(d) \/ PruneReturns(d)
  BY <1>3, <1>4, <1>5, <1>6 DEF Clear, Prune
<1>8. d = c
  BY <1>1, <1>7, LeaveBase DEF Leaves
<1>9. LocalInv(call[c])
  BY DEF BaseInv
<1> QED BY <1>7, <1>8, <1>9 DEF ScanThrows, ClearReturns, PruneReturns, Finished, LocalInv

(* prune() beside which nothing is stored or cleared and no removal is     *)
(* refused leaves every entry that is young enough and among the newest    *)
(* max_entries, no other, and no sidecar of what has gone, however many    *)
(* other callers prune the same directory meanwhile.                       *)
THEOREM PruneIsExact == Spec => PruneLeavesNewest
<1> DEFINE Promise(c) ==
       call[c].pc = "entries" /\ Completed(c) /\ ~ call[c].disturbed
         => LET began == call[c].began IN
            /\ Protected(began) \subseteq Entries
            /\ \A k \in Entries : ~ TooOld(files[Exr(k)], call[c].now)
            /\ limits.entries > 0 => Cardinality(Entries) <= limits.entries
            /\ \A k \in Keys : /\ began[Exr(k)] # Absent
                               /\ Json(k) \notin BeingPruned
                               => Has(k) \/ files[Json(k)] = Absent
<1>1. ASSUME IInv, Next, NEW c \in Callers PROVE Promise(c)
  <2> SUFFICES ASSUME call[c].pc = "entries", call'[c] = NoCall, ~ call[c].disturbed
               PROVE  LET began == call[c].began IN
                      /\ Protected(began) \subseteq Entries
                      /\ \A k \in Entries : ~ TooOld(files[Exr(k)], call[c].now)
                      /\ limits.entries > 0 => Cardinality(Entries) <= limits.entries
                      /\ \A k \in Keys : /\ began[Exr(k)] # Absent
                                         /\ Json(k) \notin BeingPruned
                                         => Has(k) \/ files[Json(k)] = Absent
    BY DEF Completed
  <2>1. call[c].doomed = {}
    BY <1>1, Returns DEF IInv
  <2>2. PICK it : it = call[c]
    OBVIOUS
  <2>3. BaseInv /\ LocalInv(it) /\ SinceInv(it) /\ ProgressInv(it)
    BY <1>1, <2>2 DEF IInv, BaseInv, PruneInv, Undisturbed, LocalInv
  <2>4. it.pc = "entries" /\ KeysIn(it.doomed) = {}
    BY <2>1, <2>2 DEF KeysIn
  <2>5. Protected(it.began) \subseteq Entries
    <3> SUFFICES ASSUME NEW k \in Protected(it.began), ~ Has(k) PROVE FALSE
      BY DEF Protected, Entries
    <3>1. k \in Keys /\ it.began[Exr(k)] # Absent /\ ~ TooOld(it.began[Exr(k)], clock)
      BY DEF Protected
    <3>2. Spent(k, it.began[Exr(k)])
      BY <2>3, <3>1 DEF SinceInv
    <3> DEFINE rivals == {j \in Keys \ {k} : /\ it.began[Exr(j)] # Absent
                                             /\ it.began[Exr(j)] >= it.began[Exr(k)]}
    <3>3. limits.entries > 0 /\ Cardinality(Ahead(k, it.began[Exr(k)])) >= limits.entries
      BY <3>1, <3>2 DEF Spent
    <3>4. Cardinality(rivals) < limits.entries
      BY <3>3, LimitTypes, <2>3 DEF Protected
    <3>5. Ahead(k, it.began[Exr(k)]) \in SUBSET rivals
      BY <2>3 DEF Ahead, SinceInv, Has
    <3>6. rivals \in SUBSET Keys
      OBVIOUS
    <3> HIDE DEF rivals
    <3>7. IsFiniteSet(rivals) /\ Cardinality(rivals) \in Nat
      BY <3>6, AiCacheAssumption, FS_Subset, FS_CardinalityType
    <3>8. /\ Cardinality(Ahead(k, it.began[Exr(k)])) <= Cardinality(rivals)
          /\ Cardinality(Ahead(k, it.began[Exr(k)])) \in Nat
      BY <3>5, <3>7, FS_Subset, AheadFinite
    <3> QED BY <2>3, <3>3, <3>4, <3>7, <3>8, LimitTypes
  <2>6. \A k \in Entries : ~ TooOld(files[Exr(k)], it.now)
    BY <2>3, <2>4 DEF ProgressInv
  <2>7. limits.entries > 0 => Cardinality(Entries) <= limits.entries
    <3>1. Entries \ KeysIn(it.doomed) = Entries
      BY <2>4
    <3> QED BY <2>3, <2>4, <3>1 DEF ProgressInv
  <2>8. \A k \in Keys : /\ it.began[Exr(k)] # Absent
                         /\ Json(k) \notin BeingPruned
                         => Has(k) \/ files[Json(k)] = Absent
    BY <2>3 DEF SinceInv
  <2> QED BY <2>2, <2>5, <2>6, <2>7, <2>8
<1>2. IInv /\ [Next]_vars => [\A c \in Callers : Promise(c)]_vars
  BY <1>1
<1> QED BY <1>2, Invariant, PTL DEF Spec, PruneLeavesNewest
=============================================================================
