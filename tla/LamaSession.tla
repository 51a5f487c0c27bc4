---------------------------- MODULE LamaSession -----------------------------
(***************************************************************************)
(* core/src/lama_session.cpp: one LamaSession that any number of threads   *)
(* call run() on.  The first call builds the ONNX Runtime session under    *)
(* std::call_once while the others wait; what went wrong then is kept and  *)
(* thrown again by every later call.  Tensors are left out: the buffers of *)
(* a call are its own.                                                     *)
(***************************************************************************)
CONSTANT Callers

VARIABLES
  once,        \* init_flag: "new", "running", "done"
  preferred,   \* preferred_backend
  active,      \* active_backend
  session,     \* session # nullptr
  initError,   \* init_error # nullptr
  pc,          \* [Callers -> where its call is]
  outcome,     \* [Callers -> how its last call ended]
  verdicts     \* history: what ensure_initialized() has told callers

initVars == <<once, preferred, active, session, initError>>
sessionVars == <<initVars, pc, outcome, verdicts>>

Backends == {"Cpu", "Cuda"}
InitPcs == {"cuda", "build", "inspect"}
RunPcs == {"ensure", "ensured", "infer"} \cup InitPcs
Outcomes == {"none", "ok", "cancelled", "error"}

SessionInit ==
  /\ once = "new"
  /\ preferred \in Backends
  /\ active = "Cpu"
  /\ session = FALSE
  /\ initError = FALSE
  /\ pc = [c \in Callers |-> "idle"]
  /\ outcome = [c \in Callers |-> "none"]
  /\ verdicts = {}

Goto(c, to) == pc' = [pc EXCEPT ![c] = to] /\ UNCHANGED outcome

End(c, how) == pc' = [pc EXCEPT ![c] = "idle"] /\ outcome' = [outcome EXCEPT ![c] = how]

-----------------------------------------------------------------------------
(* ensure_initialized: of the callers that come first, one runs initialize. *)
EnterOnce(c) ==
  /\ pc[c] = "ensure"
  /\ once = "new"
  /\ once' = "running"
  /\ Goto(c, "cuda")
  /\ UNCHANGED <<preferred, active, session, initError, verdicts>>

PassOnce(c) ==
  /\ pc[c] = "ensure"
  /\ once = "done"
  /\ Goto(c, "ensured")
  /\ UNCHANGED <<initVars, verdicts>>

(* AppendExecutionProvider_CUDA: a failure leaves the CPU. *)
ChooseBackend(c) ==
  /\ pc[c] = "cuda"
  /\ active' \in IF preferred = "Cuda" THEN Backends ELSE {active}
  /\ Goto(c, "build")
  /\ UNCHANGED <<once, preferred, session, initError, verdicts>>

BuildSession(c) ==
  /\ pc[c] = "build"
  /\ session' = TRUE
  /\ Goto(c, "inspect")
  /\ UNCHANGED <<once, preferred, active, initError, verdicts>>

(* The model has at least two inputs and an output. *)
AcceptModel(c) ==
  /\ pc[c] = "inspect"
  /\ once' = "done"
  /\ Goto(c, "ensured")
  /\ UNCHANGED <<preferred, active, session, initError, verdicts>>

(* Mutant: the exception leaves call_once, which the next caller tries anew. *)
InitThrows(c) ==
  /\ pc[c] \in InitPcs
  /\ once' = "new"
  /\ End(c, "error")
  /\ verdicts' = verdicts \cup {"error"}
  /\ UNCHANGED <<preferred, active, session, initError>>

(* The environment, the model file or the model's inputs and outputs: what  *)
(* initialize throws is caught and kept.                                    *)
InitFails(c) ==
  /\ pc[c] \in InitPcs
  /\ initError' = TRUE
  /\ once' = "done"
  /\ Goto(c, "ensured")
  /\ UNCHANGED <<preferred, active, session, verdicts>>

(* Mutant: a failed initialisation is waited for again. *)
RetryInitError(c) ==
  /\ pc[c] = "ensured"
  /\ initError
  /\ Goto(c, "ensure")
  /\ UNCHANGED <<initVars, verdicts>>

RethrowInitError(c) ==
  /\ pc[c] = "ensured"
  /\ initError
  /\ verdicts' = verdicts \cup {"error"}
  /\ End(c, "error")
  /\ UNCHANGED initVars

Initialized(c) ==
  /\ pc[c] = "ensured"
  /\ ~ initError
  /\ verdicts' = verdicts \cup {"ok"}
  /\ Goto(c, "infer")
  /\ UNCHANGED initVars

(* Session::Run throws, returns nothing, or an output of another shape. *)
InferenceFails(c) ==
  /\ pc[c] = "infer"
  /\ End(c, "error")
  /\ UNCHANGED <<initVars, verdicts>>

Infer(c) ==
  /\ pc[c] = "infer"
  /\ Goto(c, "inferred")
  /\ UNCHANGED <<initVars, verdicts>>

RunStep(c) ==
  \/ EnterOnce(c) \/ PassOnce(c) \/ ChooseBackend(c) \/ BuildSession(c) \/ AcceptModel(c)
  \/ InitFails(c) \/ RethrowInitError(c) \/ Initialized(c) \/ InferenceFails(c) \/ Infer(c)

-----------------------------------------------------------------------------
(* "Errors stash an exception_ptr that ensure_initialized() will rethrow on *)
(* every subsequent call": all callers, the first ones included, learn the  *)
(* same of the model, nobody infers on a session that is not whole, one     *)
(* caller at most is inside initialize.                                     *)
OneVerdict ==
  /\ verdicts \in {{}, {"ok"}, {"error"}}
  /\ \A c \in Callers : pc[c] = "infer" => once = "done" /\ session /\ ~ initError
  /\ \A c, d \in Callers : pc[c] \in InitPcs /\ pc[d] \in InitPcs => c = d
=============================================================================
