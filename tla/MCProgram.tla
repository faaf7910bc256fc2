------------------------------ MODULE MCProgram ------------------------------
(* Instances of Program for TLC.                                            *)
EXTENDS Program

CONSTANTS c1, c2

-----------------------------------------------------------------------------
(* Matrix configurations. *)

De == [code |-> c1, case |-> "upper", valid |-> TRUE]
us == [code |-> c2, case |-> "lower", valid |-> TRUE]
rule(p, cat, who, act) ==
  [purpose |-> p, data_category |-> cat, recipients |-> who, action |-> act]

Pair == [DefaultConfig EXCEPT !.origin = De, !.adequate = {us}]
\* Unconfigured; a pair; no origin; enforcement off; rules that let out, that hold back,
\* and that shadow one another.
Matrices ==
  {DefaultConfig, Pair,
   [DefaultConfig EXCEPT !.adequate = {us}],
   [DefaultConfig EXCEPT !.enforce = FALSE],
   [DefaultConfig EXCEPT !.origin = us,
      !.rules = <<rule("support", Unset, {}, "keep")>>],
   [DefaultConfig EXCEPT !.origin = De, !.adequate = {us},
      !.rules = <<rule("support", "personal", {"external"}, "block"),
                  rule("support", Unset, {"trusted", "external"}, "keep"),
                  rule("support", "special_category", {}, "pseudonymize")>>]}

-----------------------------------------------------------------------------
(* Files: a vault with what lies beside it, a key, a log; "link" leads to the *)
(* vault, "gone" has no parent directory, "odd" cannot be examined.           *)

Places == {"v", "v.lock", "v.tmp", "k", "a", "link", "gone", "odd"}
Leads == [p \in Places |-> CASE p = "link" -> "v" [] p = "gone" -> Unset
                             [] p = "odd" -> Broken [] OTHER -> p]
Beside(suffix) == [p \in Places |-> IF p = "v" THEN suffix ELSE "gone"]
Locks == Beside("v.lock")
Tmps == Beside("v.tmp")
\* @: what there is of a vault, a key and a log.
Disk(v, k, a) == [p \in Places |-> CASE p = "v" -> v [] p = "k" -> k [] p = "a" -> a
                                     [] OTHER -> "absent"]

-----------------------------------------------------------------------------
(* Inputs. *)

Says(r) == [s \in Setting |-> IF s \in DOMAIN r THEN r[s] ELSE Unset]
Over(f, g) == [s \in Setting |-> IF f[s] # Unset THEN f[s] ELSE g[s]]
One(s, v) == [t \in Setting |-> IF t = s THEN v ELSE Unset]

Trusting == Says([recipient |-> "trusted", purpose |-> "support",
                  detector_command |-> "theirs", timeout_ms |-> "long"])
Misspelt == Says([recipient |-> "typo"])
Special == Says([data_category |-> "special_category", jurisdiction |-> us,
                 policy |-> "matrix", policy_matrix |-> Pair])
BadCode == Says([jurisdiction |-> [code |-> c1, case |-> "lower", valid |-> FALSE]])
Unused == Says([policy |-> "default", policy_matrix |-> Pair])
Files == {NoSettings, Trusting, Misspelt, Special, BadCode, Unused}

Run(command, flags, env, explicit, cwd, home, d) ==
  [command |-> command, flags |-> flags, env |-> env, explicit |-> explicit,
   cwd |-> cwd, home |-> home, disk |-> d]
Empties == Disk("absent", "key", "absent")

\* Who the output is for, from every layer.
ForWhom ==
  {Run(command, flags, env, explicit, cwd, home, Empties) :
     command \in {"sanitize", "mcp_stdio", "config"},
     flags \in {NoSettings, Says([recipient |-> "local"])},
     env \in {NoSettings, Says([recipient |-> "trusted"]), Says([purpose |-> "audit"]),
              Misspelt},
     explicit \in {Unset, Absent, Special}, cwd \in {Absent, Broken} \cup Files,
     home \in {Absent, Trusting, Special}}

\* A setting nobody gives, or one layer gives.
Nobody == [flag |-> NoSettings, env |-> NoSettings, file |-> NoSettings]
Given(s, values, layers) ==
  {Nobody} \cup {[Nobody EXCEPT ![l] = One(s, v)] : v \in values, l \in layers}
Both(g, h) == [l \in DOMAIN Nobody |-> Over(g[l], h[l])]
\* The file is the one a server has too.
FromLayers(command, g, d) == Run(command, g.flag, g.env, g.file, Absent, Absent, d)

\* Which vault, by name, file, key and lifetime.
Vaults ==
  {FromLayers(command, Both(Both(name, file), Both(key, ttl)), d) :
     command \in {"sanitize", "mcp_stdio", "config"},
     name \in Given("vault", {"memory", "json", "process"}, {"flag", "file"}),
     file \in Given("vault_file", {"v"}, {"flag", "env", "file"}),
     key \in Given("vault_key_file", {"k"}, {"flag", "env", "file"}),
     ttl \in Given("vault_ttl_seconds", {"day"}, {"env", "file"}),
     d \in {Disk("plain", "key", "absent"), Disk("sealed", "key", "absent"),
            Disk("absent", "other", "absent")}}

\* A stage that is an executable, and where its command line stands.
Executables ==
  {Run(command, Over(name.flag, line.flag), NoSettings,
       IF where = "explicit" THEN Over(name.file, line.file) ELSE Unset,
       IF where = "cwd" THEN Over(name.file, line.file) ELSE Absent, Absent, Empties) :
     command \in {"sanitize", "mcp_stdio", "restore", "inspect", "config"},
     where \in {"explicit", "cwd"},
     name \in UNION {Given(s, {"process"}, {"flag", "file"}) : s \in Stage},
     line \in UNION {Given(CommandOf[s], {"ours", "blank"}, {"flag", "file"}) : s \in Stage}}

\* An audit file among the others.
Audits ==
  {Run(command, Says([audit_file |-> log, vault_file |-> v, vault_key_file |-> k]), NoSettings,
       Unset, Absent, Absent, Disk(IF k = Unset THEN "plain" ELSE "sealed", "key", a)) :
     command \in {"sanitize", "forget", "mcp_stdio"}, log \in Places,
     v \in {Unset, "v", "odd"}, k \in {Unset, "k"}, a \in {"absent", "log", "other"}}

\* A detector, and what it is told of a model.
Scans ==
  {Run(command, Over(Says([model_dir |-> dir, model_max_tokens |-> tokens]),
                     Says([detector |-> name, detector_command |-> line, tools |-> tools])),
       NoSettings, Unset, Absent, Absent, Empties) :
     command \in {"sanitize", "inspect", "mcp_stdio", "doctor"},
     name \in {Unset, "gliner2", "hybrid", "process"}, dir \in {Unset, "models"},
     tokens \in {Unset, 1, 5}, line \in {Unset, "ours", "blank"},
     tools \in {Unset, {"inspect"}, {"all", "typo"}}}

Runs == ForWhom \cup Vaults \cup Executables \cup Audits \cup Scans

-----------------------------------------------------------------------------
(* Exports and texts: characters of one byte, and of several. *)

Whole == [dir |-> TRUE, boundary |-> FALSE, encoder |-> FALSE, families |-> FALSE,
          model |-> TRUE, tokenizer |-> TRUE, labels |-> TRUE, runtime |-> TRUE,
          wraps |-> TRUE, specials |-> 2]
SomeExports ==
  {NoExport, Whole, [Whole EXCEPT !.labels = FALSE], [Whole EXCEPT !.model = FALSE],
   [Whole EXCEPT !.encoder = TRUE], [Whole EXCEPT !.encoder = TRUE, !.families = TRUE],
   [Whole EXCEPT !.runtime = FALSE, !.specials = 0], [Whole EXCEPT !.boundary = TRUE],
   [Whole EXCEPT !.wraps = FALSE]}
Texts == {Empty, [length |-> 5, boundary |-> 0 .. 5],
          [length |-> 7, boundary |-> {0, 1, 4, 5, 7}]}
=============================================================================
