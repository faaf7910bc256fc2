----------------------------- MODULE Invocation -----------------------------
(***************************************************************************)
(* One run of the program, from its arguments to the call that does the    *)
(* work (crates/do-context-shield-cli: main.rs, pipeline.rs; run_stdio of  *)
(* crates/mcp-server).  A file is loaded, the environment put over it, the *)
(* whole of it validated, the flags put over that, and one stage after     *)
(* another is built; the first thing that fails ends the run.              *)
(***************************************************************************)
EXTENDS Configuration

CONSTANTS Inputs,   \* what runs are started with
          Contents  \* what configuration files say

ASSUME InvocationAssumption ==
  /\ \A i \in Inputs : /\ i # Unset /\ i.command \in Subcommand
                       /\ i.disk \in [Path -> Content]
  /\ Contents \cap {Absent, Broken, Unset} = {}

VARIABLES
  input,     \* arguments, environment and files the run was started with
  phase,     \* "start", "loaded", "building", "running", "reported", "failed"
  config,    \* the loaded configuration
  resolved,  \* what the flags, the configuration and the defaults come to
  todo,      \* stages still to build
  disk,      \* the files that stages open
  vault,     \* the vault that was built
  lines,     \* command lines the built stages will run
  report,    \* what `config` printed
  job        \* what the running program works with

runVars == <<input, phase, config, resolved, todo, disk, vault, lines, report, job>>

RunInit ==
  /\ input \in Inputs /\ phase = "start" /\ disk = input.disk
  /\ config = Unset /\ resolved = Unset /\ todo = <<>> /\ vault = Unset /\ lines = {}
  /\ report = Unset /\ job = Unset

\* What a run went by is let go of when it is over or under way.
Release ==
  /\ input' = Unset /\ config' = Unset /\ resolved' = Unset /\ todo' = <<>>
  /\ vault' = Unset /\ lines' = {} /\ disk' = Unset

-----------------------------------------------------------------------------
(* main: parse, load, validate, resolve. *)

Found == Discovered(input.command, input.explicit, input.cwd, input.home)
Loadable ==
  /\ FlagsParse(input.command, input.flags)
  /\ Readable(Found.file) /\ EnvAccepted(input.env)

Load ==
  /\ phase = "start" /\ Loadable
  /\ config' = Merged(Found, input.env) /\ phase' = "loaded"
  /\ UNCHANGED <<input, resolved, todo, disk, vault, lines, report, job>>

ResolveSettings ==
  /\ phase = "loaded" /\ Valid(config)
  /\ resolved' = Resolve(input.flags, config)
  /\ todo' = StagesOf[input.command] /\ phase' = "building"
  /\ UNCHANGED <<input, config, disk, vault, lines, report, job>>

-----------------------------------------------------------------------------
(* build_pipeline, vault_pipeline, inspect_pipeline, run_stdio. *)

Building == phase = "building" /\ todo # <<>>

\* An absent destination is created, and stays when a later stage fails.
OpenAudit ==
  /\ Building /\ Head(todo) = "audit"
  /\ \/ resolved.audit_file = Unset /\ UNCHANGED disk
     \/ /\ resolved.audit_file # Unset /\ AuditOpens(resolved, disk)
        /\ disk' = [disk EXCEPT ![Canonical[resolved.audit_file]] = "log"]
  /\ todo' = Tail(todo)
  /\ UNCHANGED <<input, phase, config, resolved, vault, lines, report, job>>

Selected == SelectedVault(input.command, resolved)

OpenVault ==
  /\ Building /\ Head(todo) = "vault" /\ VaultOpens(Selected, resolved, disk)
  /\ vault' = Selected
  /\ lines' = IF Selected.kind = "process" THEN lines \cup {resolved.vault_command} ELSE lines
  /\ todo' = Tail(todo)
  /\ UNCHANGED <<input, phase, config, resolved, disk, report, job>>

Opened == {"audit", "vault"}
Construct ==
  /\ Building /\ Head(todo) \notin Opened /\ Constructs(Head(todo), resolved)
  /\ lines' = IF resolved[Head(todo)] = "process"
              THEN lines \cup {resolved[CommandOf[Head(todo)]]} ELSE lines
  /\ todo' = Tail(todo)
  /\ UNCHANGED <<input, phase, config, resolved, disk, vault, report, job>>

-----------------------------------------------------------------------------
(* What the run then does, or why it does not. *)

Reports == phase = "building" /\ input.command = "config"

Report ==
  /\ Reports /\ VaultKind(resolved) # Conflict
  /\ report' = Explain(input.flags, config) /\ phase' = "reported"
  /\ UNCHANGED <<input, config, resolved, todo, disk, vault, lines, job>>

Job == [command |-> input.command, detector |-> resolved.detector,
        runnable |-> Runnable(resolved.detector_command),
        configured |-> resolved.model_dir # Unset, limit |-> resolved.model_max_tokens,
        policy |-> resolved.policy, matrix |-> resolved.policy_matrix,
        context |-> ToContext(resolved), tools |-> ToolSet(resolved.tools)]

Start ==
  /\ phase = "building" /\ todo = <<>> /\ ~Reports
  /\ job' = Job /\ phase' = "running" /\ Release /\ UNCHANGED report

Refused ==
  \/ phase = "start" /\ ~Loadable
  \/ phase = "loaded" /\ ~Valid(config)
  \/ Reports /\ VaultKind(resolved) = Conflict
  \/ Building /\ Head(todo) = "audit" /\ resolved.audit_file # Unset
       /\ ~AuditOpens(resolved, disk)
  \/ Building /\ Head(todo) = "vault" /\ ~VaultOpens(Selected, resolved, disk)
  \/ Building /\ Head(todo) \notin Opened /\ ~Constructs(Head(todo), resolved)

Refuse == Refused /\ phase' = "failed" /\ Release /\ UNCHANGED <<report, job>>

RunNext == \/ Load \/ ResolveSettings \/ OpenAudit \/ OpenVault \/ Construct
           \/ Report \/ Start \/ Refuse

RunSpec == RunInit /\ [][RunNext]_runVars
-----------------------------------------------------------------------------
(* Correctness. *)

(* A repository that is the working directory has no say in what is run and *)
(* in whom the output is for: what its file holds changes no command and no *)
(* part of the context, and nothing at all of mcp-stdio or beside an        *)
(* explicit file (config.rs load, resolve; main.rs:463).  Every command line *)
(* that is run was a flag or stands in a file named with --config.          *)
RepositoryHasNoSay ==
  resolved # Unset =>
    /\ \A other \in Contents :
         LET there == Discovered(input.command, input.explicit, other, input.home)
             would == Resolve(input.flags, Merged(there, input.env))
         IN /\ input.cwd # Absent =>
                 \A s \in Command \cup ContextSetting : would[s] = resolved[s]
            /\ input.command = "mcp_stdio" \/ input.explicit # Unset => would = resolved
    /\ \A line \in lines :
         \E s \in Command : \/ line = input.flags[s]
                            \/ input.explicit # Unset /\ line = input.explicit[s]

(* Whichever layer names a key file, no vault is used that is not encrypted *)
(* with it, and none that was not (validate_vault, vault_kind, build_vault, *)
(* open_with_key_file).                                                     *)
KeyMeansEncrypted ==
  vault # Unset /\ {input.flags.vault_key_file, input.env.vault_key_file,
                    Found.file.vault_key_file} # {Unset}
    => /\ vault.kind = "json" /\ vault.keyed
       /\ At(disk, resolved.vault_file) # "plain"

(* The vault rules are written twice: whatever the one-shot commands and    *)
(* `config` take a selection for, the MCP server takes it for too, but for  *)
(* a lifetime with a process vault (vault_kind, mcp-server build_vault).    *)
SurfacesAgree ==
  resolved # Unset =>
    LET one == OneShotVault(resolved)  mcp == McpVault(resolved) IN
    IF mcp.kind = Conflict
    THEN one.kind = Conflict \/ (one.kind = "process" /\ resolved.vault_ttl_seconds # Unset)
    ELSE /\ one.kind = mcp.kind /\ one.keyed = mcp.keyed
         /\ mcp.kind = "json" => one.ttl = mcp.ttl

(* The report is what the commands go by: the layer it names for a setting  *)
(* is the one the resolved value came from (diag.rs explain, config.rs      *)
(* resolve; commands in a file that is not heard on them are left out).     *)
SuppliedBy(layer, s) ==
  CASE layer = "cli"         -> input.flags[s]
    [] layer = "environment" -> input.env[s]
    [] layer = "file"        -> Found.file[s]
    [] layer = "default"     -> DefaultOf(s)
    [] layer = "none"        -> Unset

ReportNamesTheLayer ==
  report # Unset =>
    \A s \in Reported : s \notin Command \/ IsExplicit(config) =>
      resolved[s] = SuppliedBy(report.layer[s], s)
=============================================================================
