SPECIFICATION Spec
CONSTANTS
  a = a b = b email = email name = name key = key
  Client = {c1, c2}
  Scope = {s1, s2}
  Kind = {email, name, key}
  SecretKind = {key}
  Letter = {a, b}
  Token = {t1, t2, t3}
  Inputs <- ShortTexts
  Reports <- Plain
  Transformers = {"pseudonymize", "process"}
  Rewrites <- Placeholders
  VisibleTail = 1
  Lapsing = TRUE
  MaxCalls = 3
  Redacted = Redacted Star = Star
SYMMETRY Symmetry
CHECK_DEADLOCK FALSE
INVARIANT NothingUnrecorded
PROPERTY OpensInItsScopeOnly
