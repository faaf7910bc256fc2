-------------------------- MODULE InvocationProofs --------------------------
(* What a run takes its settings from, for every set of inputs, every        *)
(* content of configuration files, and any paths and files.                  *)
EXTENDS Invocation, TLAPS

-----------------------------------------------------------------------------
(* One setting. *)

LEMMA ResolvedIsPicked ==
  ASSUME NEW flags, NEW c, NEW s \in Setting
  PROVE  Resolve(flags, c)[s] = Picked(flags, c, s)
  BY DEF Resolve

LEMMA MergedSetting ==
  ASSUME NEW found, NEW env, NEW s \in Setting
  PROVE  Merged(found, env).settings[s] =
           IF s \in EnvSetting /\ env[s] # Unset THEN env[s] ELSE found.file[s]
  BY DEF Merged

LEMMA MergedFrom ==
  ASSUME NEW found, NEW env
  PROVE  /\ Merged(found, env).env = FromEnv(env)
         /\ Merged(found, env).source = found.source
  BY DEF Merged

LEMMA SettingKinds ==
  /\ Command \subseteq Setting /\ ContextSetting \subseteq EnvSetting
  /\ EnvSetting \subseteq Setting /\ Command \cap EnvSetting = {}
  /\ \A s \in Command : DefaultOf(s) = Unset
  BY DEF Command, ContextSetting, EnvSetting, Setting, FileSetting, Stage, DefaultOf, Default

\* An executable's command line was a flag or stands in an explicit file.
LEMMA CommandsAreExplicit ==
  ASSUME NEW flags, NEW found, NEW env, NEW s \in Command,
         Resolve(flags, Merged(found, env))[s] # Unset
  PROVE  \/ Resolve(flags, Merged(found, env))[s] = flags[s]
         \/ /\ found.source = "Explicit"
            /\ Resolve(flags, Merged(found, env))[s] = found.file[s]
  <1> DEFINE c == Merged(found, env)
  <1>1. s \in Setting /\ s \notin EnvSetting /\ DefaultOf(s) = Unset
    BY SettingKinds
  <1>2. Resolve(flags, c)[s] = Picked(flags, c, s)
    BY <1>1, ResolvedIsPicked
  <1>3. c.settings[s] = found.file[s]
    BY <1>1, MergedSetting
  <1>4. Heard(c, s) => found.source = "Explicit"
    BY MergedFrom DEF Heard, IsExplicit
  <1>5. QED
    BY <1>1, <1>2, <1>3, <1>4 DEF Picked

\* What the working directory's file says of a command or of the context is not heard.
LEMMA WorkingDirIsNotHeard ==
  ASSUME NEW flags, NEW f, NEW g, NEW env, NEW s \in Command \cup ContextSetting,
         f.source = "WorkingDir", g.source = "WorkingDir"
  PROVE  Resolve(flags, Merged(f, env))[s] = Resolve(flags, Merged(g, env))[s]
  <1> DEFINE c == Merged(f, env)  d == Merged(g, env)
  <1>1. s \in Setting
    BY SettingKinds
  <1>2. /\ Resolve(flags, c)[s] = Picked(flags, c, s)
        /\ Resolve(flags, d)[s] = Picked(flags, d, s)
    BY <1>1, ResolvedIsPicked
  <1>3. /\ c.source = "WorkingDir" /\ d.source = "WorkingDir"
        /\ c.env = FromEnv(env) /\ d.env = FromEnv(env)
    BY MergedFrom
  <1>4. CASE s \in Command
    <2>1. ~Heard(c, s) /\ ~Heard(d, s)
      BY <1>3, <1>4 DEF Heard, IsExplicit
    <2>2. QED BY <1>2, <2>1 DEF Picked
  <1>5. CASE s \in ContextSetting
    <2>1. s \in EnvSetting
      BY <1>5, SettingKinds
    <2>2. CASE env[s] # Unset
      <3>1. c.settings[s] = env[s] /\ d.settings[s] = env[s]
        BY <1>1, <2>1, <2>2, MergedSetting
      <3>2. Heard(c, s) <=> Heard(d, s)
        BY <1>3 DEF Heard, IsExplicit, ContextIsTrusted
      <3>3. QED BY <1>2, <3>1, <3>2 DEF Picked
    <2>3. CASE env[s] = Unset
      <3>1. s \notin FromEnv(env)
        BY <2>3 DEF FromEnv
      <3>2. ~Heard(c, s) /\ ~Heard(d, s)
        BY <1>3, <1>5, <3>1 DEF Heard, ContextIsTrusted
      <3>3. QED BY <1>2, <3>2 DEF Picked
    <2>4. QED BY <2>2, <2>3
  <1>6. QED BY <1>4, <1>5

LEMMA WhereSettingsAreFound ==
  ASSUME NEW command, NEW explicit, NEW cwd, NEW home
  PROVE  LET found == Discovered(command, explicit, cwd, home) IN
         /\ found.source = "Explicit" => explicit # Unset /\ found.file = explicit
         /\ explicit # Unset \/ command = "mcp_stdio" =>
              \A other : Discovered(command, explicit, other, home) = found
         /\ explicit = Unset /\ command # "mcp_stdio" /\ cwd # Absent =>
              found.source = "WorkingDir"
  <1>1. CASE explicit # Unset
    BY <1>1 DEF Discovered
  <1>2. CASE explicit = Unset /\ command = "mcp_stdio"
    BY <1>2 DEF Discovered
  <1>3. CASE explicit = Unset /\ command # "mcp_stdio" /\ cwd # Absent
    BY <1>3 DEF Discovered
  <1>4. CASE explicit = Unset /\ command # "mcp_stdio" /\ cwd = Absent /\ home # Absent
    BY <1>4 DEF Discovered
  <1>5. CASE explicit = Unset /\ command # "mcp_stdio" /\ cwd = Absent /\ home = Absent
    BY <1>5 DEF Discovered
  <1>6. QED BY <1>1, <1>2, <1>3, <1>4, <1>5

-----------------------------------------------------------------------------
(* Which vault. *)

VaultName == {"memory", "json", "process", Unset}

LEMMA VaultNameIsAccepted ==
  ASSUME NEW command, NEW flags, FlagsParse(command, flags),
         NEW c, Valid(c)
  PROVE  Resolve(flags, c).vault \in VaultName
  <1>1. "vault" \in Setting /\ "vault" \in DOMAIN Accepted /\ DefaultOf("vault") = Unset
    BY DEF Setting, FileSetting, EnvSetting, Stage, Accepted, DefaultOf, Default
  <1>2. Accepted["vault"] = {"memory", "json", "process"}
    BY DEF Accepted
  <1>3. flags["vault"] # Unset => flags["vault"] \in VaultName
    BY <1>1, <1>2 DEF FlagsParse, NameAccepted, VaultName
  <1>4. c.settings["vault"] # Unset => c.settings["vault"] \in VaultName
    BY <1>1, <1>2 DEF Valid, NameAccepted, VaultName
  <1>5. Resolve(flags, c)["vault"] = Picked(flags, c, "vault")
    BY <1>1, ResolvedIsPicked
  <1>6. Picked(flags, c, "vault") \in VaultName
    BY <1>1, <1>3, <1>4 DEF Picked, VaultName
  <1>7. QED BY <1>5, <1>6

LEMMA UnsetIsNoName == Unset \notin {"memory", "json", "process"}
  BY ConfigurationAssumption DEF Accepted

LEMMA KeyedVault ==
  ASSUME NEW command, NEW r, r.vault \in VaultName, r.vault_key_file # Unset
  PROVE  /\ SelectedVault(command, r).kind \in {"json", Conflict}
         /\ SelectedVault(command, r).kind = "json" => SelectedVault(command, r).keyed
  <1>1. OneShotVault(r).kind \in {"json", Conflict} /\
        (OneShotVault(r).kind = "json" => OneShotVault(r).keyed)
    BY UnsetIsNoName DEF OneShotVault, VaultKind, Needless, VaultName, Json, NoVault, Process, Memory, Conflict
  <1>2. McpVault(r).kind \in {"json", Conflict} /\
        (McpVault(r).kind = "json" => McpVault(r).keyed)
    BY UnsetIsNoName DEF McpVault, Needless, VaultName, Json, NoVault, Process, Memory, Conflict
  <1>3. QED BY <1>1, <1>2 DEF SelectedVault

LEMMA VaultRecordsKeyed ==
  ASSUME NEW command, NEW r, r.vault \in VaultName, SelectedVault(command, r).keyed
  PROVE  SelectedVault(command, r).kind = "json"
  <1>1. OneShotVault(r).keyed => OneShotVault(r).kind = "json"
    BY UnsetIsNoName DEF OneShotVault, VaultKind, Needless, VaultName, Json, NoVault, Process,
       Memory, Conflict
  <1>2. McpVault(r).keyed => McpVault(r).kind = "json"
    BY UnsetIsNoName DEF McpVault, Needless, VaultName, Json, NoVault, Process, Memory, Conflict
  <1>3. QED BY <1>1, <1>2 DEF SelectedVault

LEMMA TheRulesAgree ==
  ASSUME NEW r, r.vault \in VaultName
  PROVE  LET one == OneShotVault(r)  mcp == McpVault(r) IN
         IF mcp.kind = Conflict
         THEN one.kind = Conflict \/ (one.kind = "process" /\ r.vault_ttl_seconds # Unset)
         ELSE /\ one.kind = mcp.kind /\ one.keyed = mcp.keyed
              /\ mcp.kind = "json" => one.ttl = mcp.ttl
  BY UnsetIsNoName DEF OneShotVault, McpVault, VaultKind, Needless, VaultName, Json, NoVault, Process,
         Memory, Conflict

\* A key file that any layer names is a key file of the run.
LEMMA KeyIsPicked ==
  ASSUME NEW flags, NEW found, NEW env,
         {flags.vault_key_file, env.vault_key_file, found.file.vault_key_file} # {Unset}
  PROVE  Resolve(flags, Merged(found, env)).vault_key_file # Unset
  <1> DEFINE c == Merged(found, env)  s == "vault_key_file"
  <1>1. s \in Setting /\ s \in EnvSetting /\ s \notin Command \cup ContextSetting
    BY DEF Setting, FileSetting, EnvSetting, Command, ContextSetting
  <1>2. Resolve(flags, c)[s] = Picked(flags, c, s)
    BY <1>1, ResolvedIsPicked
  <1>3. c.settings[s] = IF env[s] # Unset THEN env[s] ELSE found.file[s]
    BY <1>1, MergedSetting
  <1>4. Heard(c, s)
    BY <1>1 DEF Heard
  <1>5. flags[s] # Unset \/ env[s] # Unset \/ found.file[s] # Unset
    OBVIOUS
  <1>6. QED BY <1>2, <1>3, <1>4, <1>5 DEF Picked

-----------------------------------------------------------------------------
(* The inductive invariant: while a run is under way its configuration is the *)
(* file and the environment it was started with, its settings are resolved    *)
(* from that, and what was built was built from the settings.                 *)

Under == {"building", "reported"}
Loaded == phase \in {"loaded"} \cup Under =>
            /\ config = Merged(Found, input.env) /\ FlagsParse(input.command, input.flags)
Settled ==
  IF phase \in Under
  THEN resolved = Resolve(input.flags, config) /\ resolved.vault \in VaultName
  ELSE resolved = Unset /\ vault = Unset /\ lines = {}
OnDisk == phase \in {"start", "loaded"} \cup Under =>
            input \in Inputs /\ disk \in [Path -> Content]
Planned == todo \in Seq(Stage \cup {"audit"})
Commanded == \A line \in lines : \E s \in Command : line = resolved[s] /\ line # Unset
Vaulted ==
  vault # Unset => /\ vault = Selected /\ vault.kind # Conflict
                   /\ vault.keyed => At(disk, resolved.vault_file) # "plain"
Told == IF phase = "reported" THEN report = Explain(input.flags, config) ELSE report = Unset

RInv == Loaded /\ Settled /\ OnDisk /\ Planned /\ Commanded /\ Vaulted /\ Told

LEMMA RInvInit == RunInit => RInv
  BY InvocationAssumption DEF RunInit, RInv, Loaded, Settled, OnDisk, Planned, Commanded, Vaulted,
     Told, Under

LEMMA RInvLoad == RInv /\ Load => RInv'
  <1> SUFFICES ASSUME RInv, Load PROVE RInv'
    OBVIOUS
  <1>1. Found' = Found
    BY DEF Load, Found
  <1>2. QED
    BY <1>1 DEF RInv, Load, Loadable, Loaded, Settled, OnDisk, Planned, Commanded, Vaulted, Told, Under

LEMMA PlansAreStages ==
  \A command \in Subcommand : StagesOf[command] \in Seq(Stage \cup {"audit"})
  <1> DEFINE S == Stage \cup {"audit"}
  <1>1. Subcommand = {"sanitize", "restore", "forget", "inspect", "config", "doctor", "mcp_stdio"}
    BY DEF Subcommand, FlagOf
  <1>2. /\ <<"audit", "detector", "policy", "transformer", "vault", "judge">> \in Seq(S)
        /\ <<"audit", "vault", "detector", "policy", "transformer", "judge">> \in Seq(S)
    BY DEF Stage
  <1>3. <<"audit", "vault">> \in Seq(S) /\ <<"detector">> \in Seq(S) /\ <<>> \in Seq(S)
    BY DEF Stage
  <1>4. /\ StagesOf["sanitize"] \in Seq(S) /\ StagesOf["mcp_stdio"] \in Seq(S)
        /\ StagesOf["restore"] \in Seq(S) /\ StagesOf["forget"] \in Seq(S)
        /\ StagesOf["inspect"] \in Seq(S) /\ StagesOf["config"] \in Seq(S)
        /\ StagesOf["doctor"] \in Seq(S)
    BY <1>2, <1>3 DEF StagesOf
  <1>5. QED BY <1>1, <1>4

LEMMA RInvResolve == RInv /\ ResolveSettings => RInv'
  <1> SUFFICES ASSUME RInv, ResolveSettings PROVE RInv'
    OBVIOUS
  <1>1. phase = "loaded" /\ phase' = "building" /\ Found' = Found
    BY DEF ResolveSettings, Found
  <1>2. FlagsParse(input.command, input.flags) /\ Valid(config)
    BY <1>1 DEF RInv, Loaded, ResolveSettings
  <1>3. Resolve(input.flags, config).vault \in VaultName
    BY <1>2, VaultNameIsAccepted
  <1>4. resolved = Unset /\ vault = Unset /\ lines = {} /\ report = Unset
    BY <1>1 DEF RInv, Settled, Told, Under
  <1>5. Loaded' /\ Settled' /\ OnDisk' /\ Told'
    BY <1>1, <1>2, <1>3, <1>4
       DEF RInv, ResolveSettings, Loaded, Settled, OnDisk, Told, Under
  <1>6. Commanded' /\ Vaulted'
    BY <1>4 DEF ResolveSettings, Commanded, Vaulted
  <1>7. Planned'
    BY <1>1, PlansAreStages, InvocationAssumption DEF ResolveSettings, RInv, OnDisk, Planned
  <1>8. QED BY <1>5, <1>6, <1>7 DEF RInv

\* What stays as it is while stages are built.
LEMMA BuildingKeeps ==
  ASSUME RInv, Building, disk' \in [Path -> Content], todo' = Tail(todo),
         UNCHANGED <<input, phase, config, resolved, report>>
  PROVE  /\ Found' = Found /\ Loaded' /\ Settled' /\ OnDisk' /\ Planned' /\ Told'
  <1>1. Planned'
    BY DEF RInv, Building, Planned
  <1>2. Found' = Found
    BY DEF Found
  <1>3. QED BY <1>1, <1>2 DEF RInv, Building, Loaded, Settled, OnDisk, Told, Under

\* A log where a path leads is no vault in plain text, and changes nothing elsewhere.
LEMMA ALogIsNoVault ==
  ASSUME NEW d \in [Path -> Content], NEW x, NEW p
  PROVE  /\ [d EXCEPT ![x] = "log"] \in [Path -> Content]
         /\ At(d, p) # "plain" => At([d EXCEPT ![x] = "log"], p) # "plain"
  BY DEF At, Content

LEMMA RInvOpenAudit == RInv /\ OpenAudit => RInv'
  <1> SUFFICES ASSUME RInv, OpenAudit PROVE RInv'
    OBVIOUS
  <1>1. phase = "building" /\ disk \in [Path -> Content]
    BY DEF OpenAudit, Building, RInv, OnDisk, Under
  <1>2. \/ disk' = disk
        \/ disk' = [disk EXCEPT ![Canonical[resolved.audit_file]] = "log"]
    BY DEF OpenAudit
  <1>3. disk' \in [Path -> Content]
    BY <1>1, <1>2, ALogIsNoVault
  <1>4. At(disk, resolved.vault_file) # "plain" => At(disk', resolved.vault_file) # "plain"
    BY <1>1, <1>2, ALogIsNoVault
  <1>5. UNCHANGED <<input, phase, config, resolved, vault, lines, report>>
    BY DEF OpenAudit
  <1>6. Vaulted'
    BY <1>4, <1>5 DEF RInv, Vaulted, Selected, At
  <1>7. Commanded'
    BY <1>5 DEF RInv, Commanded
  <1>8. QED BY <1>3, <1>5, <1>6, <1>7, BuildingKeeps DEF OpenAudit, RInv

LEMMA RInvOpenVault == RInv /\ OpenVault => RInv'
  <1> SUFFICES ASSUME RInv, OpenVault PROVE RInv'
    OBVIOUS
  <1>1. phase = "building" /\ disk \in [Path -> Content] /\ resolved.vault \in VaultName
    BY DEF OpenVault, Building, RInv, OnDisk, Settled, Under
  <1>2. UNCHANGED <<input, phase, config, resolved, disk, report>> /\ vault' = Selected
    BY DEF OpenVault
  <1>3. Selected' = Selected
    BY <1>2 DEF Selected
  <1>4. VaultOpens(Selected, resolved, disk)
    BY DEF OpenVault
  <1>5. Selected.kind # Conflict
    BY <1>4 DEF VaultOpens, Conflict
  <1>6. Selected.keyed => Selected.kind = "json"
    BY <1>1, VaultRecordsKeyed DEF Selected
  <1>7. Selected.keyed => At(disk, resolved.vault_file) # "plain"
    BY <1>4, <1>6, ConfigurationAssumption DEF VaultOpens, Content, Conflict
  <1>8. Vaulted'
    BY <1>2, <1>3, <1>5, <1>7 DEF Vaulted
  <1>9. Commanded'
    <2>1. resolved.vault_command = resolved["vault_command"] /\ "vault_command" \in Command
      BY DEF Command
    <2>2. Selected.kind = "process" => resolved.vault_command # Unset
      BY <1>4 DEF VaultOpens, Runnable, Conflict
    <2>3. QED BY <1>2, <2>1, <2>2 DEF OpenVault, RInv, Commanded
  <1>10. QED BY <1>1, <1>2, <1>8, <1>9, BuildingKeeps DEF OpenVault, RInv

LEMMA RInvConstruct == RInv /\ Construct => RInv'
  <1> SUFFICES ASSUME RInv, Construct PROVE RInv'
    OBVIOUS
  <1>1. phase = "building" /\ disk \in [Path -> Content]
    BY DEF Construct, Building, RInv, OnDisk, Under
  <1>2. UNCHANGED <<input, phase, config, resolved, disk, vault, report>>
    BY DEF Construct
  <1>3. Vaulted'
    BY <1>2 DEF RInv, Vaulted, Selected
  <1>4. Commanded'
    <2>1. CASE lines' = lines
      BY <1>2, <2>1 DEF RInv, Commanded
    <2>2. CASE /\ resolved[Head(todo)] = "process"
               /\ lines' = lines \cup {resolved[CommandOf[Head(todo)]]}
      <3>1. resolved[CommandOf[Head(todo)]] # Unset
        BY <2>2 DEF Construct, Constructs, Runnable
      <3>2. Head(todo) \in Stage
        BY DEF Construct, Building, Opened, RInv, Planned
      <3>3. CommandOf[Head(todo)] \in Command
        BY <3>2 DEF CommandOf, Command, Stage
      <3>4. QED BY <1>2, <2>2, <3>1, <3>3 DEF RInv, Commanded
    <2>3. QED BY <2>1, <2>2 DEF Construct
  <1>5. QED BY <1>1, <1>2, <1>3, <1>4, BuildingKeeps DEF Construct, RInv

LEMMA RInvReport == RInv /\ Report => RInv'
  <1> SUFFICES ASSUME RInv, Report PROVE RInv'
    OBVIOUS
  <1>1. phase = "building" /\ Found' = Found
    BY DEF Report, Reports, Found
  <1>2. Selected' = Selected
    BY DEF Report, Selected
  <1>3. QED
    BY <1>1, <1>2 DEF Report, RInv, Loaded, Settled, OnDisk, Planned, Commanded, Vaulted, Told, Under

LEMMA RInvLetGo == RInv /\ (Start \/ Refuse) => RInv'
  <1> SUFFICES ASSUME RInv, Start \/ Refuse PROVE RInv'
    OBVIOUS
  <1>1. phase # "reported"
    BY DEF Start, Refuse, Refused, Reports, Building
  <1>2. phase' \in {"running", "failed"} /\ Release /\ report' = report
    BY DEF Start, Refuse
  <1>3. QED
    BY <1>1, <1>2
       DEF Release, RInv, Loaded, Settled, OnDisk, Planned, Commanded, Vaulted, Told, Under

LEMMA RInvIsInvariant == RunSpec => []RInv
  <1>1. RInv /\ UNCHANGED runVars => RInv'
    <2> SUFFICES ASSUME RInv, UNCHANGED runVars PROVE RInv'
      OBVIOUS
    <2>1. Found' = Found /\ Selected' = Selected
      BY DEF runVars, Found, Selected
    <2>2. QED
      BY <2>1 DEF runVars, RInv, Loaded, Settled, OnDisk, Planned, Commanded, Vaulted, Told, Under
  <1>2. RInv /\ [RunNext]_runVars => RInv'
    BY <1>1, RInvLoad, RInvResolve, RInvOpenAudit, RInvOpenVault, RInvConstruct, RInvReport,
       RInvLetGo DEF RunNext
  <1>3. QED BY RInvInit, <1>2, PTL DEF RunSpec

-----------------------------------------------------------------------------
LEMMA NoSayFromInvariant == RInv => RepositoryHasNoSay
  <1> SUFFICES ASSUME RInv, resolved # Unset PROVE RepositoryHasNoSay
    BY DEF RepositoryHasNoSay
  <1>1. /\ resolved = Resolve(input.flags, Merged(Found, input.env))
        /\ Commanded
    BY DEF RInv, Settled, Loaded, Under
  <1>2. ASSUME NEW other \in Contents
        PROVE  LET there == Discovered(input.command, input.explicit, other, input.home)
                   would == Resolve(input.flags, Merged(there, input.env))
               IN /\ input.cwd # Absent =>
                       \A s \in Command \cup ContextSetting : would[s] = resolved[s]
                  /\ input.command = "mcp_stdio" \/ input.explicit # Unset => would = resolved
    <2> DEFINE there == Discovered(input.command, input.explicit, other, input.home)
    <2>1. CASE input.command = "mcp_stdio" \/ input.explicit # Unset
      BY <1>1, <2>1, WhereSettingsAreFound DEF Found
    <2>2. CASE ~(input.command = "mcp_stdio" \/ input.explicit # Unset)
      <3>1. other # Absent
        BY InvocationAssumption
      <3>2. there.source = "WorkingDir"
        BY <2>2, <3>1, WhereSettingsAreFound
      <3>3. input.cwd # Absent => Found.source = "WorkingDir"
        BY <2>2, WhereSettingsAreFound DEF Found
      <3>4. QED BY <1>1, <2>2, <3>2, <3>3, WorkingDirIsNotHeard
    <2>3. QED BY <2>1, <2>2
  <1>3. ASSUME NEW line \in lines
        PROVE  \E s \in Command : \/ line = input.flags[s]
                                  \/ input.explicit # Unset /\ line = input.explicit[s]
    <2>1. PICK s \in Command : line = resolved[s] /\ line # Unset
      BY <1>1 DEF Commanded
    <2>2. \/ resolved[s] = input.flags[s]
          \/ Found.source = "Explicit" /\ resolved[s] = Found.file[s]
      BY <1>1, <2>1, CommandsAreExplicit
    <2>3. Found.source = "Explicit" => input.explicit # Unset /\ Found.file = input.explicit
      BY WhereSettingsAreFound DEF Found
    <2>4. QED BY <2>1, <2>2, <2>3
  <1>4. QED BY <1>2, <1>3 DEF RepositoryHasNoSay

(* The file of a working directory has no say in which executables run and  *)
(* in whom the output is for, whatever it holds, and no executable runs that *)
(* a flag or an explicit file did not name.                                 *)
THEOREM TheRepositoryHasNoSay == RunSpec => []RepositoryHasNoSay
  BY RInvIsInvariant, NoSayFromInvariant, PTL

LEMMA KeyFromInvariant == RInv => KeyMeansEncrypted
  <1> SUFFICES ASSUME RInv, vault # Unset,
                      {input.flags.vault_key_file, input.env.vault_key_file,
                       Found.file.vault_key_file} # {Unset}
               PROVE  /\ vault.kind = "json" /\ vault.keyed
                      /\ At(disk, resolved.vault_file) # "plain"
    BY DEF KeyMeansEncrypted
  <1>1. phase \in Under
    BY DEF RInv, Settled
  <1>2. /\ resolved = Resolve(input.flags, Merged(Found, input.env))
        /\ resolved.vault \in VaultName
    BY <1>1 DEF RInv, Settled, Loaded
  <1>3. resolved.vault_key_file # Unset
    BY <1>2, KeyIsPicked
  <1>4. /\ vault = SelectedVault(input.command, resolved) /\ vault.kind # Conflict
        /\ vault.keyed => At(disk, resolved.vault_file) # "plain"
    BY DEF RInv, Vaulted, Selected
  <1>5. QED BY <1>2, <1>3, <1>4, KeyedVault

(* A key file that any layer names ends in a vault that is encrypted with   *)
(* it, or in no vault.                                                      *)
THEOREM AKeyMeansEncrypted == RunSpec => []KeyMeansEncrypted
  BY RInvIsInvariant, KeyFromInvariant, PTL

LEMMA AgreementFromInvariant == RInv => SurfacesAgree
  <1> SUFFICES ASSUME RInv, resolved # Unset PROVE SurfacesAgree
    BY DEF SurfacesAgree
  <1>1. resolved.vault \in VaultName
    BY DEF RInv, Settled
  <1>2. QED BY <1>1, TheRulesAgree DEF SurfacesAgree

(* The two copies of the vault rules take the same settings for the same    *)
(* vault, but for the one difference they are meant to have.                *)
THEOREM TheSurfacesAgree == RunSpec => []SurfacesAgree
  BY RInvIsInvariant, AgreementFromInvariant, PTL

LEMMA LayerIsTheSource ==
  ASSUME NEW flags, NEW found, NEW env, NEW s \in Reported,
         s \notin Command \/ found.source = "Explicit"
  PROVE  LET c == Merged(found, env)
             layer == Layer(flags, c, s)
         IN Resolve(flags, c)[s] =
              CASE layer = "cli"         -> flags[s]
                [] layer = "environment" -> env[s]
                [] layer = "file"        -> found.file[s]
                [] layer = "default"     -> DefaultOf(s)
                [] layer = "none"        -> Unset
  <1> DEFINE c == Merged(found, env)  layer == Layer(flags, c, s)
  <1>1. s \in Setting
    BY DEF Reported, Setting
  <1>2. Resolve(flags, c)[s] = Picked(flags, c, s)
    BY <1>1, ResolvedIsPicked
  <1>3. c.settings[s] = IF s \in EnvSetting /\ env[s] # Unset THEN env[s] ELSE found.file[s]
    BY <1>1, MergedSetting
  <1>4. s \in c.env <=> s \in EnvSetting /\ env[s] # Unset
    BY MergedFrom DEF FromEnv
  <1>5. s \in Command => IsExplicit(c)
    BY MergedFrom DEF IsExplicit
  <1>6. CASE flags[s] # Unset
    BY <1>2, <1>6 DEF Picked, Layer
  <1>7. CASE flags[s] = Unset /\ s \in c.env
    <2>1. Heard(c, s) /\ c.settings[s] = env[s] /\ env[s] # Unset
      BY <1>3, <1>4, <1>5, <1>7 DEF Heard
    <2>2. QED BY <1>2, <1>7, <2>1 DEF Picked, Layer
  <1>8. CASE flags[s] = Unset /\ s \notin c.env
    <2>1. c.settings[s] = found.file[s]
      BY <1>3, <1>4, <1>8
    <2>2. FileSupplies(c, s) <=> Heard(c, s) /\ c.settings[s] # Unset
      BY <1>5, <1>8 DEF Heard, FileSupplies
    <2>3. QED BY <1>2, <1>8, <2>1, <2>2 DEF Picked, Layer
  <1>9. QED BY <1>6, <1>7, <1>8

LEMMA ReportFromInvariant == RInv => ReportNamesTheLayer
  <1> SUFFICES ASSUME RInv, report # Unset, NEW s \in Reported,
                      s \notin Command \/ IsExplicit(config)
               PROVE  resolved[s] = SuppliedBy(report.layer[s], s)
    BY DEF ReportNamesTheLayer
  <1>1. phase = "reported"
    BY DEF RInv, Told
  <1>2. /\ report = Explain(input.flags, config) /\ config = Merged(Found, input.env)
        /\ resolved = Resolve(input.flags, config)
    BY <1>1 DEF RInv, Told, Loaded, Settled, Under
  <1>3. report.layer[s] = Layer(input.flags, config, s)
    BY <1>2 DEF Explain
  <1>4. s \notin Command \/ Found.source = "Explicit"
    BY <1>2, MergedFrom DEF IsExplicit
  <1>5. LET c == Merged(Found, input.env)
        IN Resolve(input.flags, c)[s] = SuppliedBy(Layer(input.flags, c, s), s)
    BY <1>4, LayerIsTheSource DEF SuppliedBy
  <1>6. QED BY <1>2, <1>3, <1>5

(* The report names the layer a setting came from.                          *)
THEOREM TheReportNamesTheLayer == RunSpec => []ReportNamesTheLayer
  BY RInvIsInvariant, ReportFromInvariant, PTL
=============================================================================
