---------------------------- MODULE Configuration ----------------------------
(***************************************************************************)
(* How one run of the program gets its settings                            *)
(* (crates/do-context-shield-cli: config.rs, config/, pipeline.rs; the     *)
(* plugin registry; crates/mcp-server: vault.rs, run_stdio).  Four layers  *)
(* may supply a setting: a flag, an environment variable, one file, the    *)
(* built-in default.  A layer is a function from settings to values; Unset *)
(* is what it leaves to the layers below it.                               *)
(***************************************************************************)
EXTENDS Policy

CONSTANTS Path,        \* paths as somebody writes them
          Canonical,   \* the place a path leads to, Unset without a parent directory
          LockOf,      \* path.with_extension("json.lock")
          TmpOf,       \* path.with_extension("json.tmp")
          Duration,    \* lifetimes and timeouts
          Absent,      \* no file there
          Broken       \* a file that cannot be read or parsed, a place that cannot be
                       \* examined

\* Files by what is in them.
Content == {"absent", "plain", "sealed", "log", "key", "other"}

Stage == {"detector", "policy", "transformer", "judge", "vault"}
Command == {"detector_command", "policy_command", "transformer_command",
            "judge_command", "vault_command"}
CommandOf == [detector |-> "detector_command", policy |-> "policy_command",
              transformer |-> "transformer_command", judge |-> "judge_command",
              vault |-> "vault_command"]
ContextSetting == {"recipient", "data_category", "purpose", "jurisdiction"}
EnvSetting == Stage \cup ContextSetting \cup
              {"tools", "vault_file", "vault_key_file", "audit_file", "vault_ttl_seconds"}
FileSetting == EnvSetting \cup Command \cup {"model_dir", "policy_matrix", "timeout_ms"}
Limit == {"model_max_tokens", "model_threads", "audit_max_records", "audit_max_bytes"}
Setting == FileSetting \cup Limit

NoSettings == [s \in Setting |-> Unset]

\* The names a setting may carry; "typo" stands for any other.
Accepted ==
  [detector |-> {"regex", "gliner2", "hybrid", "process"},
   policy |-> {"default", "matrix", "process"},
   transformer |-> {"pseudonymize", "generalize", "mask", "process"},
   judge |-> {"heuristics", "process"}, vault |-> {"memory", "json", "process"},
   recipient |-> Recipient, data_category |-> Category]

ASSUME ConfigurationAssumption ==
  /\ Canonical \in [Path -> Path \cup {Unset, Broken}]
  /\ LockOf \in [Path -> Path] /\ TmpOf \in [Path -> Path]
  /\ Absent # Broken /\ Unset \notin Duration \cup Path
  /\ {Unset, Broken} \cap Content = {}
  /\ \A s \in DOMAIN Accepted : Unset \notin Accepted[s]

ToolName == {"sanitize", "restore", "inspect", "forget"}

\* ToolSet::parse, of the set of names a list spells.
ToolsParse(list) == list # {} /\ list \subseteq ToolName \cup {"all"}
ToolSet(list) == IF "all" \in list THEN ToolName ELSE list
ModelFacing == {"sanitize", "inspect"}

Default == [detector |-> "regex", policy |-> "default", transformer |-> "pseudonymize",
            recipient |-> "external", data_category |-> "personal",
            timeout_ms |-> "default", policy_matrix |-> DefaultConfig,
            tools |-> ModelFacing]
DefaultOf(s) == IF s \in DOMAIN Default THEN Default[s] ELSE Unset

-----------------------------------------------------------------------------
(* Loading: one file, then the environment over it.                        *)

\* What `load` (one-shot commands) and `load_explicit` (mcp-stdio) select.
Discovered(command, explicit, cwd, home) ==
  CASE explicit # Unset -> [source |-> "Explicit", file |-> explicit]
    [] explicit = Unset /\ command # "mcp_stdio" /\ cwd # Absent
         -> [source |-> "WorkingDir", file |-> cwd]
    [] explicit = Unset /\ command # "mcp_stdio" /\ cwd = Absent /\ home # Absent
         -> [source |-> "UserHome", file |-> home]
    [] OTHER -> [source |-> "None", file |-> NoSettings]

Readable(file) == file \notin {Absent, Broken}

NameAccepted(s, v) == s \in DOMAIN Accepted => v \in Accepted[s]
\* env::apply checks a variable before it is merged.
EnvAccepted(env) ==
  /\ \A s \in EnvSetting : env[s] # Unset => NameAccepted(s, env[s])
  /\ env.tools # Unset => ToolsParse(env.tools)
  /\ env.vault_ttl_seconds # Unset => env.vault_ttl_seconds \in Duration

FromEnv(env) == {s \in EnvSetting : env[s] # Unset}
Merged(found, env) ==
  [settings |-> [s \in Setting |->
                   IF s \in EnvSetting /\ env[s] # Unset THEN env[s] ELSE found.file[s]],
   env |-> FromEnv(env), source |-> found.source]

-----------------------------------------------------------------------------
(* validate, of the file with the environment over it.                     *)

VaultValid(c) ==
  LET set(s) == c.settings[s] # Unset
      vault  == c.settings.vault
  IN /\ vault = "process" => ~set("vault_file") /\ ~set("vault_ttl_seconds")
                                               /\ ~set("vault_key_file")
     /\ vault = "memory" => ~set("vault_file") /\ ~set("vault_key_file")
     /\ vault = "json" => set("vault_file")
     /\ vault = Unset => (set("vault_key_file") => set("vault_file"))

MatrixSelected(c) ==
  c.settings.policy_matrix \notin {Unset, DefaultConfig} => c.settings.policy \in {Unset, "matrix"}

Valid(c) ==
  /\ \A s \in DOMAIN Accepted : c.settings[s] # Unset => NameAccepted(s, c.settings[s])
  /\ c.settings.tools # Unset => ToolsParse(c.settings.tools)
  /\ c.settings.jurisdiction # Unset => c.settings.jurisdiction.valid
  /\ MatrixSelected(c)
  /\ VaultValid(c)

-----------------------------------------------------------------------------
(* resolve: the flags over that, the defaults under it.                    *)

IsExplicit(c) == c.source = "Explicit"
ContextIsTrusted(c) == c.source # "WorkingDir"

\* Mistake: any file may name the commands that are run.
HeardFromAnyFile(c, s) ==
  IF s \in ContextSetting /\ ~ContextIsTrusted(c) THEN s \in c.env ELSE TRUE

\* Which settings a loaded configuration is heard on: commands from an explicit
\* file only, the context not from the working directory unless a variable set it.
Heard(c, s) ==
  /\ s \in Command => IsExplicit(c)
  /\ s \in ContextSetting => ContextIsTrusted(c) \/ s \in c.env

Picked(flags, c, s) ==
  IF flags[s] # Unset THEN flags[s]
  ELSE IF Heard(c, s) /\ c.settings[s] # Unset THEN c.settings[s]
  ELSE DefaultOf(s)

Resolve(flags, c) == [s \in Setting |-> Picked(flags, c, s)]

\* Resolved::to_context.
ToContext(r) == [recipient |-> r.recipient, data_category |-> r.data_category,
                 jurisdiction |-> r.jurisdiction, purpose |-> r.purpose]

-----------------------------------------------------------------------------
(* The flags a subcommand has, and what clap accepts for them.             *)

DetectorFlag == {"detector", "model_dir", "model_max_tokens", "model_threads",
                 "detector_command"}
PipelineFlag == {"policy", "policy_command", "transformer", "transformer_command",
                 "judge", "judge_command"}
VaultFlag == {"vault", "vault_command", "vault_file", "vault_key_file"}
AuditFlag == {"audit_file", "audit_max_records", "audit_max_bytes"}
SelectionFlag == DetectorFlag \cup PipelineFlag \cup VaultFlag \cup AuditFlag
                 \cup {"timeout_ms"}
FlagOf ==
  [sanitize |-> SelectionFlag \cup ContextSetting, config |-> SelectionFlag \cup ContextSetting,
   restore |-> VaultFlag \cup AuditFlag \cup {"timeout_ms"},
   forget |-> VaultFlag \cup AuditFlag \cup {"timeout_ms"},
   inspect |-> DetectorFlag \cup {"timeout_ms"}, doctor |-> DetectorFlag,
   mcp_stdio |-> SelectionFlag \cup {"vault_ttl_seconds", "tools"}]
Subcommand == DOMAIN FlagOf

FlagsParse(command, flags) ==
  \A s \in Setting : flags[s] # Unset =>
    /\ s \in FlagOf[command] /\ NameAccepted(s, flags[s])
    /\ s = "jurisdiction" => flags[s].valid
    /\ s = "tools" => ToolsParse(flags[s])

-----------------------------------------------------------------------------
(* Which vault a selection names: vault_kind and build_vault of the        *)
(* one-shot commands, build_vault of the MCP server.  A vault that opens   *)
(* ignores what its kind has no use for.                                   *)

Conflict == "conflict"
Needless(r) == r.vault_file # Unset \/ r.vault_key_file # Unset
Process == [kind |-> "process", keyed |-> FALSE, ttl |-> Unset]
Memory(ttl) == [kind |-> "memory", keyed |-> FALSE, ttl |-> ttl]
Json(r) == [kind |-> "json", keyed |-> r.vault_key_file # Unset, ttl |-> r.vault_ttl_seconds]
NoVault == [kind |-> Conflict, keyed |-> FALSE, ttl |-> Unset]

\* Mistake: a key file nobody can use is left aside.
VaultKindKeyIgnored(r) ==
  CASE r.vault = "process" -> IF r.vault_file # Unset THEN Conflict ELSE "process"
    [] r.vault = "json"    -> IF r.vault_file = Unset THEN Conflict ELSE "json"
    [] r.vault = "memory"  -> IF r.vault_file # Unset THEN Conflict ELSE "memory"
    [] r.vault = Unset     -> IF r.vault_file # Unset THEN "json" ELSE "memory"

VaultKind(r) ==
  CASE r.vault = "process" -> IF Needless(r) THEN Conflict ELSE "process"
    [] r.vault = "json"    -> IF r.vault_file = Unset THEN Conflict ELSE "json"
    [] r.vault = "memory"  -> IF Needless(r) THEN Conflict ELSE "memory"
    [] r.vault = Unset     -> IF r.vault_file # Unset THEN "json"
                              ELSE IF r.vault_key_file # Unset THEN Conflict
                              ELSE "memory"

OneShotVault(r) ==
  CASE VaultKind(r) = "process" -> Process
    [] VaultKind(r) = "json"    -> Json(r)
    [] VaultKind(r) = "memory"  -> Memory(Unset)
    [] OTHER -> NoVault

\* Mistake: without a name the server looks at the key before the file.
McpVaultKeyFirst(r) ==
  CASE r.vault = "process" ->
         IF Needless(r) \/ r.vault_ttl_seconds # Unset THEN NoVault ELSE Process
    [] r.vault = "json"   -> IF r.vault_file = Unset THEN NoVault ELSE Json(r)
    [] r.vault = "memory" -> IF Needless(r) THEN NoVault ELSE Memory(r.vault_ttl_seconds)
    [] r.vault = Unset    -> IF r.vault_key_file # Unset THEN NoVault
                             ELSE IF r.vault_file # Unset THEN Json(r)
                             ELSE Memory(r.vault_ttl_seconds)

McpVault(r) ==
  CASE r.vault = "process" ->
         IF Needless(r) \/ r.vault_ttl_seconds # Unset THEN NoVault ELSE Process
    [] r.vault = "json"   -> IF r.vault_file = Unset THEN NoVault ELSE Json(r)
    [] r.vault = "memory" -> IF Needless(r) THEN NoVault ELSE Memory(r.vault_ttl_seconds)
    [] r.vault = Unset    -> IF r.vault_file # Unset THEN Json(r)
                             ELSE IF r.vault_key_file # Unset THEN NoVault
                             ELSE Memory(r.vault_ttl_seconds)

SelectedVault(command, r) == IF command = "mcp_stdio" THEN McpVault(r) ELSE OneShotVault(r)

-----------------------------------------------------------------------------
(* Building the stages.                                                    *)

\* In the order they are built.  restore and forget take only the vault from the
\* configuration, inspect only the detector.
StagesOf ==
  [sanitize |-> <<"audit", "detector", "policy", "transformer", "vault", "judge">>,
   restore |-> <<"audit", "vault">>, forget |-> <<"audit", "vault">>,
   inspect |-> <<"detector">>, config |-> <<>>, doctor |-> <<>>,
   mcp_stdio |-> <<"audit", "vault", "detector", "policy", "transformer", "judge">>]

\* A command line with a word in it (from_selection).
Runnable(line) == line \notin {Unset, "blank"}

\* Stages with nothing to open: a registered name, and a command where one is run.
Constructs(stage, r) == r[stage] = "process" => Runnable(r[CommandOf[stage]])

\* What is at the place a path leads to.
At(disk, path) == IF Canonical[path] \in Path THEN disk[Canonical[path]] ELSE Canonical[path]

VaultOpens(v, r, disk) ==
  CASE v.kind = Conflict -> FALSE
    [] v.kind = "process" -> Runnable(r.vault_command)
    [] v.kind = "memory" -> TRUE
    [] v.kind = "json" ->
         /\ v.keyed => At(disk, r.vault_key_file) = "key"
         /\ At(disk, r.vault_file) \in {"absent", Unset, IF v.keyed THEN "sealed" ELSE "plain"}

\* What the registry keeps the audit file apart from.
Protected(r) ==
  (IF r.vault_file = Unset THEN {}
   ELSE {r.vault_file, LockOf[r.vault_file], TmpOf[r.vault_file]}) \cup
  (IF r.vault_key_file = Unset THEN {} ELSE {r.vault_key_file})

\* reject_alias, over all of them: a place that cannot be found is nobody's.
Aliases(r) ==
  \E p \in Protected(r) :
    \/ Broken \in {Canonical[r.audit_file], Canonical[p]}
    \/ Canonical[r.audit_file] # Unset /\ Canonical[r.audit_file] = Canonical[p]

AuditOpens(r, disk) == ~Aliases(r) /\ At(disk, r.audit_file) \in {"absent", "log"}

-----------------------------------------------------------------------------
(* The `config` report: for every setting the layer said to supply it.     *)

\* Mistake: the report credits any file with the context.
FileSuppliesAny(c, s) == c.settings[s] # Unset
\* The merged value, a context only where the file may set it.  Commands are
\* credited to a file that is not heard on them.
FileSupplies(c, s) ==
  c.settings[s] # Unset /\ (s \in ContextSetting => ContextIsTrusted(c))

Layer(flags, c, s) ==
  IF flags[s] # Unset THEN "cli"
  ELSE IF s \in c.env THEN "environment"
  ELSE IF FileSupplies(c, s) THEN "file"
  ELSE IF DefaultOf(s) # Unset THEN "default" ELSE "none"

\* Settings the report lists.
Reported == (FileSetting \ {"tools", "policy_matrix"})
Explain(flags, c) ==
  [layer |-> [s \in Reported |-> Layer(flags, c, s)],
   effective_vault |-> VaultKind(Resolve(flags, c))]
=============================================================================
