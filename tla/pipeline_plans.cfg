SPECIFICATION Spec
CONSTANTS
  a = a b = b email = email name = name key = key
  Client = {c1}
  Scope = {s1, s2}
  Kind = {email, name, key}
  SecretKind = {key}
  Letter = {a, b}
  Token = {t1, t2, t3}
  Inputs <- LongTexts
  Reports <- EveryReport
  Transformers = {"pseudonymize", "mask", "generalize", "process"}
  Rewrites <- AnyText
  VisibleTail = 1
  Lapsing = FALSE
  MaxCalls = 1
  Redacted = Redacted Star = Star
SYMMETRY Symmetry
CHECK_DEADLOCK FALSE
INVARIANTS RemovedIsGone RestIsUntouched NoSecretStored BlockIsTerminal
