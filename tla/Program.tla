-------------------------------- MODULE Program --------------------------------
(***************************************************************************)
(* A run of the program with what it was built from at work: the policy    *)
(* its calls ask, and the model detector they scan with.  Each answers on  *)
(* its own; what ties them together is that the run configured them, and   *)
(* the context it did or did not let a file decide.                        *)
(***************************************************************************)
EXTENDS Invocation, Gliner2

programVars == <<runVars, vars, engineVars>>

\* The crates are a library too: a caller of its own asks a policy as it likes.
LibraryInit ==
  /\ phase = "calling" /\ job \in [context : Context, config : Configs]
  /\ input = Unset /\ disk = Unset /\ config = Unset /\ resolved = Unset /\ todo = <<>>
  /\ vault = Unset /\ lines = {} /\ report = Unset

ProgramInit == (RunInit \/ LibraryInit) /\ Init /\ EngineInit

InvocationStep == RunNext /\ UNCHANGED <<vars, engineVars>>

-----------------------------------------------------------------------------

Running == phase = "running"
\* The run goes on with one of its calls, or in one of its parts.
GoesOn(as, with) ==
  /\ phase' = as /\ job' = with
  /\ UNCHANGED <<input, config, resolved, todo, disk, vault, lines, report>>

\* processing_context: what a call of the server leaves out is the server's own.
Arguments == [recipient : Recipient \cup {Unset}, data_category : Category \cup {Unset},
              jurisdiction : {w \in Written : w.valid} \cup {Unset},
              purpose : Purpose \cup {Unset}]
ProcessingContext(args, base) ==
  [f \in ContextSetting |-> IF args[f] # Unset THEN args[f] ELSE base[f]]
\* The contexts calls are made in: `sanitize` makes one, in the run's own.
Stated(j) == IF j.command = "sanitize" THEN {j.context}
             ELSE {ProcessingContext(args, j.context) : args \in Arguments}

BeginCall ==
  /\ Running
  /\ job.command = "sanitize" \/ (job.command = "mcp_stdio" /\ "sanitize" \in job.tools)
  /\ job.policy \in {"default", "matrix"}
  /\ \E ctx \in Stated(job) : GoesOn("calling", [context |-> ctx, config |-> job.matrix])
  /\ UNCHANGED <<vars, engineVars>>

\* One entity of a call.
AskPolicy ==
  /\ phase = "calling"
  /\ \E kind \in Kind, d \in Decision :
       Ask([kind |-> kind, decision |-> d, context |-> job.context, config |-> job.config])
  /\ GoesOn("decided", Unset) /\ UNCHANGED engineVars

UsesModel == job.detector \in {"gliner2", "hybrid"}
CallsOf == [sanitize |-> 1, inspect |-> 1, mcp_stdio |-> MaxCalls, doctor |-> 0]

\* gliner2_detector; `doctor` only looks at what such a detector would find.
OpenDetector ==
  /\ Running /\ job.command \in DOMAIN CallsOf /\ UsesModel
  /\ Open(job.configured, job.limit, CallsOf[job.command])
  /\ GoesOn("detecting", Unset) /\ UNCHANGED vars

\* doctor_report of the other detectors.
DoctorReport ==
  /\ Running /\ job.command = "doctor" /\ ~UsesModel
  /\ GoesOn(IF job.detector = "process" => job.runnable THEN "ready" ELSE "unready", Unset)
  /\ UNCHANGED <<vars, engineVars>>

EngineWorks == phase = "detecting" /\ EngineStep /\ UNCHANGED <<runVars, vars>>

ProgramNext == \/ InvocationStep \/ BeginCall \/ AskPolicy
               \/ OpenDetector \/ DoctorReport \/ EngineWorks

ProgramSpec == ProgramInit /\ [][ProgramNext]_programVars /\ EngineFairness
=============================================================================
