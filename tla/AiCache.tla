------------------------------- MODULE AiCache ------------------------------
(***************************************************************************)
(* class AiCache of core/src/ai_cache.cpp: the directory of <key>.exr and  *)
(* <key>.json files, with clear() and prune() called from several threads  *)
(* or processes while others store results.  The directory is read entry   *)
(* by entry and each file is removed on its own, so the calls interleave   *)
(* at every one of these points.  A stem that is_hex_key accepts is a      *)
(* member of Keys, every other name is in Foreign.  Counts that the calls  *)
(* return are left out.                                                    *)
(***************************************************************************)
EXTENDS Naturals, FiniteSets, TLC

CONSTANTS
  Keys,         \* stems that are 64 hex digits
  Foreign,      \* stems of files that are not the cache's
  Callers,      \* threads inside clear() or prune()
  AgeLimits,    \* values of max_age_seconds; 0 switches the limit off
  EntryLimits,  \* values of max_entries; 0 switches the limit off
  MaxTime,      \* bound: the last second of the clock
  MaxWrites,    \* bound: files written while callers run
  MaxFaults     \* bound: removals and directory reads that fail

ASSUME AiCacheAssumption ==
  /\ IsFiniteSet(Keys)
  /\ Keys \cap Foreign = {}
  /\ AgeLimits \subseteq Nat /\ EntryLimits \subseteq Nat
  /\ MaxTime \in Nat \ {0} /\ MaxWrites \in Nat /\ MaxFaults \in Nat

VARIABLES
  files,        \* [Files -> time of the last write, or Absent]
  clock,
  limits,       \* what every caller passes to prune()
  call,         \* [Callers -> local state of clear() or prune()]
  writes,
  faults

vars == <<files, clock, limits, call, writes, faults>>

Times == 0 .. MaxTime
Absent == MaxTime + 1
Extensions == {"exr", "json"}
Files == (Keys \cup Foreign) \X Extensions

Exr(k) == <<k, "exr">>
Json(k) == <<k, "json">>

(* has(), and lookup(), which only adds the path *)
Has(k) == k \in Keys /\ files[Exr(k)] # Absent

(* Mutant: the stem is not tested. *)
ScannedAnyName(op) ==
  IF op = "clear" THEN Files ELSE {Exr(k) : k \in Keys}

(* The names that the loops over the directory do not skip *)
Scanned(op) ==
  IF op = "clear" THEN Keys \X Extensions ELSE {Exr(k) : k \in Keys}

NoCall == [op |-> "none", pc |-> "idle", unread |-> {}, seen |-> {}, now |-> 0,
           doomed |-> {}, sidecars |-> {}, disturbed |-> FALSE, began |-> [f \in {} |-> 0]]

(* Only the time of an image is ever asked for. *)
Stamp(f, time) == IF f[2] = "json" /\ time # Absent THEN 0 ELSE time

(* Images are not written at the same time, to the resolution of the file  *)
(* system: of two with equal times, two prunes can remove one each.        *)
TimesDiffer(at) == \A j, k \in Keys : j # k /\ at[j] = at[k] => at[j] = Absent

(* A directory that earlier bakes have filled *)
Init ==
  /\ \E at \in [Keys -> (0 .. MaxTime - 1) \cup {Absent}] :
     /\ TimesDiffer(at)
     /\ files = [f \in Files |-> IF f[1] \in Foreign THEN 0 ELSE Stamp(f, at[f[1]])]
  /\ clock = MaxTime - 1
  /\ limits \in [age : AgeLimits, entries : EntryLimits]
  /\ call = [c \in Callers |-> NoCall]
  /\ writes = 0
  /\ faults = 0

Tick == /\ clock < MaxTime
        /\ clock' = clock + 1
        /\ UNCHANGED <<files, limits, call, writes, faults>>

(* What a call promises does not cover what has happened: began goes too.  *)
(* A call that starts beside one whose list is stale can promise nothing   *)
(* either: the other one may remove what has been stored since.            *)
Disturb(it) ==
  IF it.pc = "idle" THEN it ELSE [it EXCEPT !.disturbed = TRUE, !.began = NoCall.began]

Disturbed(calls) == [c \in Callers |-> Disturb(calls[c])]

-----------------------------------------------------------------------------
(* A file appears, or is written again.  A loop that is reading the        *)
(* directory may or may not come across it.                                *)
Written(f) ==
  /\ writes < MaxWrites
  /\ writes' = writes + 1
  /\ files' = [files EXCEPT ![f] = Stamp(f, clock)]
  /\ \E told \in SUBSET {c \in Callers : call[c].pc = "scan" /\ f \in Scanned(call[c].op)} :
       call' = Disturbed([c \in Callers |->
                 IF c \in told THEN [call[c] EXCEPT !.unread = @ \cup {f}] ELSE call[c]])
  /\ UNCHANGED <<clock, limits, faults>>

(* The owner of the cache writes the image under exr_path_for(key). *)
StoreExr(k) ==
  /\ TimesDiffer([j \in Keys |-> IF j = k THEN clock ELSE files[Exr(j)]])
  /\ Written(Exr(k))

(* write_sidecar; where it returns false nothing but a short file is left. *)
WriteSidecar(k) == Written(Json(k))

-----------------------------------------------------------------------------
SetCall(c, new) == call' = [call EXCEPT ![c] = new]

(* directory_iterator(cache_dir_, ec) *)
Open(c, op) ==
  /\ call[c].pc = "idle"
  /\ LET new == [NoCall EXCEPT !.op = op, !.pc = "scan", !.began = files,
                      !.unread = {f \in Scanned(op) : files[f] # Absent}]
     IN SetCall(c, IF \E d \in Callers : call[d].disturbed THEN Disturb(new) ELSE new)
  /\ UNCHANGED <<files, clock, limits, writes, faults>>

(* ec is set: the call returns 0. *)
OpenFails(c) ==
  /\ call[c].pc = "idle"
  /\ SetCall(c, NoCall)
  /\ UNCHANGED <<files, clock, limits, writes, faults>>

(* operator++ of the range-for has no error code: it throws. *)
ScanThrows(c) ==
  /\ call[c].pc = "scan"
  /\ faults < MaxFaults
  /\ faults' = faults + 1
  /\ SetCall(c, NoCall)
  /\ UNCHANGED <<files, clock, limits, writes>>

(* fs::remove with an error code: the file goes, has gone, or has to stay. *)
Removing(f, calls) ==
  \/ /\ files' = [files EXCEPT ![f] = Absent]
     /\ call' = calls
     /\ UNCHANGED faults
  \/ /\ files[f] # Absent
     /\ faults < MaxFaults
     /\ faults' = faults + 1
     /\ call' = Disturbed(calls)
     /\ UNCHANGED files

(* The loop of clear(): every prune in progress loses entries to it. *)
ClearEntry(c) ==
  /\ call[c].op = "clear"
  /\ \E f \in call[c].unread :
       Removing(f, [d \in Callers |->
         CASE d = c -> [call[c] EXCEPT !.unread = @ \ {f}]
           [] call[d].op = "prune" -> Disturb(call[d])
           [] OTHER -> call[d]])
  /\ UNCHANGED <<clock, limits, writes>>

ClearReturns(c) ==
  /\ call[c].op = "clear"
  /\ call[c].unread = {}
  /\ SetCall(c, NoCall)
  /\ UNCHANGED <<files, clock, limits, writes, faults>>

(* Mutant: the error code of last_write_time is not looked at. *)
ScanEntryUnchecked(c) ==
  /\ call[c].op = "prune"
  /\ call[c].pc = "scan"
  /\ \E f \in call[c].unread :
       SetCall(c, [call[c] EXCEPT !.unread = @ \ {f},
                     !.seen = @ \cup {[key |-> f[1], mtime |-> files[f]]}])
  /\ UNCHANGED <<files, clock, limits, writes, faults>>

(* The first loop of prune(): last_write_time, unless the file has gone. *)
ScanEntry(c) ==
  /\ call[c].op = "prune"
  /\ call[c].pc = "scan"
  /\ \E f \in call[c].unread :
       SetCall(c, [call[c] EXCEPT !.unread = @ \ {f},
                     !.seen = @ \cup (IF files[f] = Absent THEN {}
                                      ELSE {[key |-> f[1], mtime |-> files[f]]})])
  /\ UNCHANGED <<files, clock, limits, writes, faults>>

TooOld(mtime, now) == limits.age > 0 /\ now > mtime + limits.age

(* now = clock::now(), and the entries whose age is over the limit *)
StartAgePass(c) ==
  LET aged == {e \in call[c].seen : TooOld(e.mtime, clock)} IN
  /\ call[c].op = "prune"
  /\ call[c].pc = "scan"
  /\ call[c].unread = {}
  /\ SetCall(c, [call[c] EXCEPT !.pc = "age", !.now = clock, !.doomed = aged,
                   !.seen = @ \ aged])
  /\ UNCHANGED <<files, clock, limits, writes, faults>>

(* Mutant: sorted the other way round. *)
SurplusNewest(entries) ==
  {s \in SUBSET entries :
     /\ Cardinality(entries \ s) = limits.entries
     /\ \A gone \in s, kept \in entries \ s : kept.mtime <= gone.mtime}

(* What std::sort may leave behind the first max_entries *)
Surplus(entries) ==
  {s \in SUBSET entries :
     /\ Cardinality(entries \ s) = limits.entries
     /\ \A gone \in s, kept \in entries \ s : kept.mtime >= gone.mtime}

Finished(c) == call[c].doomed = {} /\ call[c].sidecars = {}

StartEntryPass(c) ==
  LET over == limits.entries > 0 /\ Cardinality(call[c].seen) > limits.entries IN
  /\ call[c].pc = "age"
  /\ Finished(c)
  /\ \E s \in IF over THEN Surplus(call[c].seen) ELSE {{}} :
       SetCall(c, [call[c] EXCEPT !.pc = "entries", !.doomed = s])
  /\ UNCHANGED <<files, clock, limits, writes, faults>>

(* Both passes remove the image and, whatever came of that, the sidecar. *)
RemoveExr(c) ==
  /\ call[c].sidecars = {}
  /\ \E e \in call[c].doomed :
       Removing(Exr(e.key), [call EXCEPT ![c].doomed = @ \ {e}, ![c].sidecars = {Json(e.key)}])
  /\ UNCHANGED <<clock, limits, writes>>

RemoveSidecar(c) ==
  /\ \E f \in call[c].sidecars : Removing(f, [call EXCEPT ![c].sidecars = {}])
  /\ UNCHANGED <<clock, limits, writes>>

PruneReturns(c) ==
  /\ call[c].pc = "entries"
  /\ Finished(c)
  /\ SetCall(c, NoCall)
  /\ UNCHANGED <<files, clock, limits, writes, faults>>

Clear(c) == Open(c, "clear") \/ ClearEntry(c) \/ ClearReturns(c)

Prune(c) ==
  \/ Open(c, "prune") \/ ScanEntry(c) \/ StartAgePass(c) \/ StartEntryPass(c)
  \/ RemoveExr(c) \/ RemoveSidecar(c) \/ PruneReturns(c)

Next ==
  \/ Tick
  \/ \E k \in Keys : StoreExr(k) \/ WriteSidecar(k)
  \/ \E c \in Callers : Clear(c) \/ Prune(c) \/ OpenFails(c) \/ ScanThrows(c)

Spec == Init /\ [][Next]_vars

-----------------------------------------------------------------------------
Calls ==
  [op : {"none", "clear", "prune"}, pc : {"idle", "scan", "age", "entries"},
   unread : SUBSET Files, seen : SUBSET [key : Keys, mtime : Times], now : Times,
   doomed : SUBSET [key : Keys, mtime : Times], sidecars : SUBSET Files,
   disturbed : BOOLEAN, began : {NoCall.began} \cup [Files -> Times \cup {Absent}]]

(* Only files that could be dated are taken into prune()'s list, and only  *)
(* the cache's own names into anybody's.                                   *)
TypeOK ==
  /\ files \in [Files -> Times \cup {Absent}]
  /\ clock \in Times
  /\ limits \in [age : AgeLimits, entries : EntryLimits]
  /\ call \in [Callers -> Calls]
  /\ writes \in 0 .. MaxWrites
  /\ faults \in 0 .. MaxFaults

(* The entries that nobody may take as long as only prune() runs: young    *)
(* enough, and with fewer than max_entries others as new as they are.      *)
Protected(began) ==
  {k \in Keys :
     /\ began[Exr(k)] # Absent
     /\ ~ TooOld(began[Exr(k)], clock)
     /\ \/ limits.entries = 0
        \/ Cardinality({j \in Keys \ {k} : /\ began[Exr(j)] # Absent
                                           /\ began[Exr(j)] >= began[Exr(k)]})
             < limits.entries}

Entries == {k \in Keys : Has(k)}
Completed(c) == call'[c] = NoCall /\ call[c].unread = {}
BeingPruned == UNION {call[c].sidecars : c \in Callers}

(* "Delete entries older than max_age_seconds, capped at max_entries":     *)
(* a prune() leaves the newest entries and no others, and no sidecar of an *)
(* image it removed, although other callers prune the same directory at    *)
(* the same time and each sees what the others have left.                  *)
PruneLeavesNewest ==
  [][\A c \in Callers :
       call[c].pc = "entries" /\ Completed(c) /\ ~ call[c].disturbed
         => LET began == call[c].began IN
            /\ Protected(began) \subseteq Entries
            /\ \A k \in Entries : ~ TooOld(files[Exr(k)], call[c].now)
            /\ limits.entries > 0 => Cardinality(Entries) <= limits.entries
            /\ \A k \in Keys : /\ began[Exr(k)] # Absent
                               /\ Json(k) \notin BeingPruned
                               => Has(k) \/ files[Json(k)] = Absent]_vars

(* "Delete all cached entries": clear() leaves no entry and no sidecar,    *)
(* and never takes a file that is not the cache's.                         *)
ClearLeavesForeignOnly ==
  [][\A c \in Callers :
       call[c].op = "clear" /\ Completed(c) /\ ~ call[c].disturbed
         => {f \in Files : files[f] # Absent} = Foreign \X Extensions]_vars
Symmetry == Permutations(Keys) \cup Permutations(Callers)
=============================================================================
