--------------------------- MODULE McpServerProofs ---------------------------
(* What holds of the MCP server and its memory vault for every set of       *)
(* requests, tools, scopes, kinds, values and suffixes, every frame limit   *)
(* and every lifetime, however many bytes a client sends.                   *)
EXTENDS McpServer, WellFoundedInduction, SequenceTheorems, TLAPS

USE MemoryAssumption, ServerAssumption

-----------------------------------------------------------------------------
(* What may be run, and on what.                                            *)

Running == {"validate", "call", "alias", "record"}

(* What is known of the request in hand at each stage of its checks: one    *)
(* that is called has none of the faults looked for before, and one that is *)
(* run passed every check, so that what a tool reads of it is there.        *)
TypeOK ==
  /\ pc \in {"read", "handle", "respond", "ended"} \cup Running
  /\ tools \in ToolSets
  /\ todo \in Seq(Kind \X Original)
  /\ pc \in Running => request \in Requests
  /\ pc \notin Running => request = NoRequest
  /\ pc = "call" => /\ request.id /\ request.method = "tools_call"
                    /\ request.faults \cap (EnvelopeFault \cup ParamsFault) = {}
  /\ pc \in {"alias", "record"} => MayWrite(request)
  /\ pc \notin {"alias", "record"} => got = {}
  /\ pc = "alias" /\ got # {} => todo # <<>>

(* The arguments a tool checks are the ones the catalogue says it takes.    *)
LEMMA FitsTheCatalogue ==
  ASSUME TypeOK, NEW t \in ToolName, Called(t), ArgumentsFit(request)
  PROVE  /\ t \notin ReadOnly => MayWrite(request)
         /\ t \in NeedsSession => request.session \in Scope
  <1>1. request \in Request /\ request.tool = t /\ t \in tools
    BY DEF Called, TypeOK, Running
  <1>2. t \in NeedsSession => request.session # NoScope
    BY <1>1 DEF NeedsSession, ArgumentsFit
  <1>3. request.faults \cap Takes[t] = {}
    BY <1>1 DEF Takes, ArgumentsFit, ToolName
  <1>4. t \notin ReadOnly => MayWrite(request)
    BY <1>1, <1>2, <1>3 DEF MayWrite, TypeOK, Called
  <1> QED BY <1>1, <1>2, <1>4 DEF Request

LEMMA Typing == Spec => []TypeOK
  <1>1. Init => TypeOK
    BY DEF Init, TypeOK, Running
  <1>2. TypeOK /\ [Next]_vars => TypeOK'
    <2> SUFFICES ASSUME TypeOK, [Next]_vars PROVE TypeOK'
      OBVIOUS
    <2> USE DEF TypeOK, Running, wire, run
    <2>1. CASE Send \/ Close \/ Clock
      BY <2>1 DEF Send, Close, Clock, MayWrite
    <2>2. ASSUME NEW n \in DOMAIN pipe, ReadFrame(n) PROVE TypeOK'
      BY <2>2 DEF ReadFrame
    <2>3. CASE EndOfInput \/ SkipBlank \/ RejectBytes
      <3>1. CASE EndOfInput
        BY <3>1 DEF EndOfInput
      <3>2. CASE SkipBlank
        BY <3>2 DEF SkipBlank, NextFrame
      <3>3. CASE RejectBytes
        BY <3>3 DEF RejectBytes, Answering
      <3> QED BY <2>3, <3>1, <3>2, <3>3
    <2>4. ASSUME NEW r \in Requests, Parse(r) PROVE TypeOK'
      BY <2>4 DEF Parse
    <2>5. CASE RefuseEnvelope \/ RefuseParams \/ RefuseMethod \/ RefuseTool \/ RefuseArguments
      <3>1. pc \in {"validate", "call"}
        BY <2>5 DEF RefuseEnvelope, RefuseParams, RefuseMethod, RefuseTool, RefuseArguments, Valid,
                    Dispatched, Called
      <3> QED BY <2>5, <3>1 DEF RefuseEnvelope, RefuseParams, RefuseMethod, RefuseTool,
                                RefuseArguments, Refused, Answering
    <2>6. CASE Ignore \/ Describe
      BY <2>6 DEF Ignore, Describe, NextFrame, Answering, Dispatched, Valid
    <2>7. CASE ToolCall
      BY <2>7 DEF ToolCall, Dispatched, Valid
    <2>8. CASE SanitizeExpire \/ Restore \/ Forget
      <3>1. MayWrite(request)
        BY <2>8, FitsTheCatalogue DEF SanitizeExpire, Restore, Forget, ToolName, ReadOnly
      <3>2. MayWrite(request)'
        BY <2>8, <3>1 DEF SanitizeExpire, Restore, Forget, MayWrite
      <3> QED BY <2>8, <3>2 DEF SanitizeExpire, Restore, Forget, Called
    <2>9. CASE Collect \/ Alias
      <3>1. CASE Collect
        <4>1. Tail(todo) \in Seq(Kind \X Original)
          BY <3>1, HeadTailProperties DEF Collect
        <4> QED BY <3>1, <4>1 DEF Collect, MayWrite
      <3> QED BY <2>9, <3>1 DEF Alias, MayWrite
    <2>10. CASE AliasFails \/ Record \/ Inspect
      BY <2>10, EmptySeq DEF AliasFails, Record, Inspect, Called, Finish, Answering
    <2>11. CASE WriteResponse \/ WriteFails
      BY <2>11 DEF WriteResponse, WriteFails, NextFrame
    <2>12. CASE UNCHANGED vars
      BY <2>12 DEF vars, MayWrite
    <2> QED BY <2>1, <2>2, <2>3, <2>4, <2>5, <2>6, <2>7, <2>8, <2>9, <2>10, <2>11, <2>12
            DEF Next, Server, Handle, Tool
  <1> QED BY <1>1, <1>2, PTL DEF Spec

(* Only four steps of the server touch the map; the clock moves beside it.  *)
LEMMA VaultSteps ==
  ASSUME [Next]_vars
  PROVE  \/ SanitizeExpire \/ Alias \/ AliasFails \/ Forget \/ Clock
         \/ UNCHANGED vault
  <1>1. CASE Send \/ Close \/ UNCHANGED vars
    BY <1>1 DEF Send, Close, vars
  <1>2. ASSUME NEW n \in DOMAIN pipe, ReadFrame(n) PROVE UNCHANGED vault
    BY <1>2 DEF ReadFrame
  <1>3. CASE EndOfInput \/ SkipBlank \/ RejectBytes \/ Collect \/ Record \/ Restore
               \/ Inspect \/ WriteResponse \/ WriteFails
    BY <1>3 DEF EndOfInput, SkipBlank, RejectBytes, Collect, Record, Restore, Inspect,
                WriteResponse, WriteFails
  <1>4. CASE Handle
    BY <1>4 DEF Handle, Parse, RefuseEnvelope, Ignore, RefuseParams, RefuseMethod, Describe,
                ToolCall, RefuseTool, RefuseArguments, Refused
  <1> QED BY <1>1, <1>2, <1>3, <1>4 DEF Next, Server, Tool

(* Nothing but an event of a tool adds to the log.                          *)
LEMMA LogSteps ==
  ASSUME TypeOK, [Next]_vars
  PROVE  Record \/ (logged' => logged)
  <1> USE DEF run, TypeOK
  <1>1. CASE Send \/ Close \/ Clock \/ UNCHANGED vars
    BY <1>1 DEF Send, Close, Clock, vars
  <1>2. ASSUME NEW n \in DOMAIN pipe, ReadFrame(n) PROVE logged' => logged
    BY <1>2 DEF ReadFrame
  <1>3. CASE EndOfInput \/ SkipBlank \/ RejectBytes \/ WriteResponse \/ WriteFails
    BY <1>3 DEF EndOfInput, SkipBlank, RejectBytes, NextFrame, WriteResponse, WriteFails
  <1>4. CASE Handle
    BY <1>4 DEF Handle, Parse, RefuseEnvelope, Ignore, RefuseParams, RefuseMethod, Describe,
                ToolCall, RefuseTool, RefuseArguments, Refused, NextFrame
  <1>5. CASE Tool /\ ~Record
    BY <1>5 DEF Tool, SanitizeExpire, Alias, Collect, AliasFails, Restore, Forget, Inspect
  <1> QED BY <1>1, <1>2, <1>3, <1>4, <1>5 DEF Next, Server

(* A line that is refused, at whichever check, a notification and a call of *)
(* a read-only tool leave the vault and the log as they are, even what has  *)
(* lapsed: by the time a tool touches either, its request has the form the  *)
(* catalogue asks for.                                                      *)
THEOREM NothingRefusedWrites == Spec => RefusalsWriteNothing
  <1>1. ASSUME TypeOK, [Next]_vars, request = NoRequest \/ ~MayWrite(request)
        PROVE  UNCHANGED <<mappings, counters, issued>> /\ (logged' => logged)
    <2>1. pc \notin {"alias", "record"}
      <3>1. CASE ~MayWrite(request)
        BY <1>1, <3>1 DEF TypeOK
      <3>2. CASE request = NoRequest /\ pc \in {"alias", "record"}
        BY <1>1, <3>2 DEF TypeOK, Running
      <3> QED BY <1>1, <3>1, <3>2
    <2>2. ~SanitizeExpire /\ ~Forget
      <3>1. CASE ~MayWrite(request)
        BY <1>1, <3>1, FitsTheCatalogue DEF SanitizeExpire, Forget, ToolName, ReadOnly
      <3>2. CASE request = NoRequest /\ pc = "call"
        BY <1>1, <3>2 DEF TypeOK, Running
      <3> QED BY <1>1, <3>1, <3>2 DEF SanitizeExpire, Forget, Called
    <2>3. ~Alias /\ ~AliasFails /\ ~Record
      BY <2>1 DEF Alias, AliasFails, Record
    <2>4. UNCHANGED <<mappings, counters, issued>>
      BY <1>1, <2>2, <2>3, VaultSteps DEF Clock, Tick, vault
    <2> QED BY <1>1, <2>3, <2>4, LogSteps
  <1> QED BY <1>1, Typing, PTL DEF Spec, RefusalsWriteNothing

-----------------------------------------------------------------------------
(* The memory vault.                                                        *)

(* Everything in the map was issued, under a token of its own, and a value  *)
(* has one entry, its stale one at most.                                    *)
VaultInv ==
  /\ now \in Nat /\ counters \in [Scope \X Kind -> Nat]
  /\ issued \subseteq Entry /\ mappings \subseteq issued
  /\ \A a, b \in issued : a.token = b.token => a = b
  /\ \A a, b \in mappings :
       a.scope = b.scope /\ a.kind = b.kind /\ a.original = b.original => a = b

LEMMA FreshType ==
  ASSUME VaultInv, NEW s \in Scope, NEW k \in Kind, NEW o \in Original, NEW e \in Entropy
  PROVE  /\ Fresh(s, k, o, e) \in Entry
         /\ Fresh(s, k, o, e).scope = s /\ Fresh(s, k, o, e).kind = k
         /\ Fresh(s, k, o, e).original = o /\ Fresh(s, k, o, e).created_at = now
  <1>1. Bumped(s, k)[<<s, k>>] \in Nat
    BY DEF VaultInv, Bumped
  <1> QED BY <1>1 DEF Fresh, Entry, Token, VaultInv

LEMMA BumpedType ==
  ASSUME VaultInv, NEW s \in Scope, NEW k \in Kind
  PROVE  Bumped(s, k) \in [Scope \X Kind -> Nat]
  BY DEF VaultInv, Bumped

LEMMA ScopeType == ASSUME TypeOK, pc \in Running PROVE ScopeOf(request) \in Scope
  BY DEF TypeOK, ScopeOf, Request

LEMMA ItemType ==
  ASSUME TypeOK, todo # <<>>
  PROVE  todo[1][1] \in Kind /\ todo[1][2] \in Original
  BY DEF TypeOK

LEMMA VaultInvariant == Spec => []VaultInv
  <1>1. Init => VaultInv
    BY DEF Init, VaultInit, VaultInv
  <1>2. TypeOK /\ VaultInv /\ [Next]_vars => VaultInv'
    <2> SUFFICES ASSUME TypeOK, VaultInv, [Next]_vars PROVE VaultInv'
      OBVIOUS
    <2>1. CASE SanitizeExpire
      BY <2>1 DEF SanitizeExpire, Expire, Live, VaultInv
    <2>2. CASE Alias
      <3> DEFINE s == ScopeOf(request)
                 k == todo[1][1]
                 o == todo[1][2]
      <3>1. s \in Scope /\ k \in Kind /\ o \in Original
        BY <2>2, ScopeType, ItemType DEF Alias, Running
      <3>2. PICK m : Get(s, k, o, m) \/ Insert(s, k, o, m)
        BY <2>2 DEF Alias
      <3>3. CASE Get(s, k, o, m)
        BY <3>3 DEF Get, vault, VaultInv
      <3>4. CASE Insert(s, k, o, m)
        <4> HIDE DEF s, k, o
        <4>1. PICK e \in Entropy : m = Fresh(s, k, o, e)
          BY <3>4 DEF Insert
        <4>2. m \in Entry /\ m.scope = s /\ m.kind = k /\ m.original = o
          BY <3>1, <4>1, FreshType
        <4>3. /\ mappings' = (mappings \ Holding(s, k, o)) \cup {m}
              /\ counters' = Bumped(s, k) /\ issued' = issued \cup {m} /\ now' = now
              /\ \A i \in issued : i.token # m.token
          BY <3>4 DEF Insert
        <4>4. \A a \in mappings \ Holding(s, k, o) :
                 ~(a.scope = s /\ a.kind = k /\ a.original = o)
          BY DEF Holding
        <4>5. \A a, b \in issued' : a.token = b.token => a = b
          BY <4>3 DEF VaultInv
        <4>6. \A a, b \in mappings' :
                 a.scope = b.scope /\ a.kind = b.kind /\ a.original = b.original => a = b
          BY <4>2, <4>3, <4>4 DEF VaultInv
        <4> QED BY <3>1, <4>2, <4>3, <4>5, <4>6, BumpedType DEF VaultInv
      <3> QED BY <3>2, <3>3, <3>4
    <2>3. CASE AliasFails
      <3>1. ScopeOf(request) \in Scope /\ todo[1][1] \in Kind
        BY <2>3, ScopeType, ItemType DEF AliasFails, Running
      <3> QED BY <2>3, <3>1, BumpedType DEF AliasFails, InsertFails, VaultInv
    <2>4. CASE Forget
      BY <2>4 DEF Forget, DeleteScope, VaultInv
    <2>5. CASE Clock
      BY <2>5 DEF Clock, Tick, VaultInv
    <2>6. CASE UNCHANGED vault
      BY <2>6 DEF vault, VaultInv
    <2> QED BY <2>1, <2>2, <2>3, <2>4, <2>5, <2>6, VaultSteps
  <1> QED BY <1>1, <1>2, Typing, PTL DEF Spec

(* What lapsed stays lapsed while the clock runs on.                        *)
LEMMA LapsedForGood ==
  ASSUME VaultInv, now' \in Nat, now <= now', NEW m \in Entry, Expired(m)
  PROVE  Expired(m)'
  BY DEF VaultInv, Expired, Alive, Entry

(* Entries that live have one token per value and one value per token.      *)
LEMMA LiveIsFaithful == VaultInv => Contract!Faithful(Live)
  BY DEF VaultInv, Live, Contract!Faithful

LEMMA LiveIsFaithfulNext == VaultInv' => Contract!Faithful(Live')
  BY DEF VaultInv, Live, Expired, Contract!Faithful

(* Steps that leave the map and what is told alone are nothing to the       *)
(* contract, and neither is the removal of what had lapsed.                 *)
LEMMA NothingToTheContract ==
  ASSUME UNCHANGED <<now, issued, got>>, Live' = Live
  PROVE  UNCHANGED Contract!vars
  BY DEF Retired, Contract!vars

(* The only value a call of the vault is told: from then on it is done.     *)
LEMMA DoneWithIt ==
  ASSUME UNCHANGED vault, got' = {}
  PROVE  Contract!Next
  <1>1. Live' = Live /\ Retired' = Retired
    BY DEF vault, Live, Retired, Expired
  <1>2. [c \in {"server"} |-> got'] = [[c \in {"server"} |-> got] EXCEPT !["server"] = {}]
    OBVIOUS
  <1>3. Contract!Done("server")
    BY <1>1, <1>2 DEF Contract!Done, Contract!Answer
  <1> QED BY <1>3 DEF Contract!Next

LEMMA AliasIsStored ==
  ASSUME TTL # 0, TypeOK, VaultInv, VaultInv', Alias
  PROVE  Contract!Next
  <1> DEFINE s == ScopeOf(request)
             k == todo[1][1]
             o == todo[1][2]
  <1>1. s \in Scope /\ k \in Kind /\ o \in Original
    BY ScopeType, ItemType DEF Alias, Running
  <1>2. PICK m : (Get(s, k, o, m) \/ Insert(s, k, o, m)) /\ got' = {m}
    BY DEF Alias
  <1> HIDE DEF s, k, o
  <1>3. /\ m \in Live' /\ m.scope = s
        /\ Live' \ Live \subseteq {m} /\ Live \subseteq Live'
        /\ Retired' = Retired
        /\ m \notin Live => \A i \in issued : i.token # m.token
    <2>1. CASE Get(s, k, o, m)
      BY <2>1 DEF Get, vault, Live, Retired, Holding, Expired
    <2>2. CASE Insert(s, k, o, m)
      <3>1. PICK e \in Entropy : m = Fresh(s, k, o, e)
        BY <2>2 DEF Insert
      <3>2. m \in Entry /\ m.scope = s /\ m.created_at = now
        BY <1>1, <3>1, FreshType
      <3>3. /\ mappings' = (mappings \ Holding(s, k, o)) \cup {m}
            /\ issued' = issued \cup {m} /\ now' = now
            /\ \A i \in issued : i.token # m.token
            /\ \A h \in Holding(s, k, o) : Expired(h)
        BY <2>2 DEF Insert
      <3>4. \A x \in Entry : Expired(x)' <=> Expired(x)
        BY <3>3 DEF Expired
      <3>5. ~Expired(m)
        BY <3>2 DEF Expired, Alive, VaultInv
      <3>6. mappings \subseteq Entry /\ m \notin issued
        BY <3>3 DEF VaultInv
      <3>7. Live' = Live \cup {m}
        BY <3>2, <3>3, <3>4, <3>5, <3>6 DEF Live, Expired
      <3>8. Retired' = Retired
        BY <3>3, <3>6, <3>7 DEF Retired
      <3> QED BY <3>2, <3>3, <3>7, <3>8
    <2> QED BY <1>2, <2>1, <2>2
  <1>4. Live \subseteq issued /\ Retired \subseteq issued
    BY DEF VaultInv, Live, Retired, Expired
  <1>5. Contract!Move(Live')
    <2>1. Contract!Faithful(Live')
      BY LiveIsFaithfulNext
    <2> QED BY <1>3, <1>4, <2>1 DEF Contract!Move
  <1>6. got = {}
    BY DEF Alias
  <1>7. Contract!Store("server", s)
    <2>1. [c \in {"server"} |-> got]["server"] = {} /\ [c \in {"server"} |-> got']["server"] = {m}
      BY <1>2, <1>6
    <2>2. [c \in {"server"} |-> got'] = [[c \in {"server"} |-> got] EXCEPT !["server"] = {m}]
      BY <1>2
    <2> QED BY <1>3, <1>5, <2>1, <2>2 DEF Contract!Store, Contract!Answer, Contract!In
  <1> QED BY <1>1, <1>7 DEF Contract!Next

LEMMA ForgetErases ==
  ASSUME TypeOK, VaultInv, VaultInv', Forget
  PROVE  Contract!Next
  <1> DEFINE s == request.session
  <1>1. s \in Scope
    BY FitsTheCatalogue DEF Forget, ToolName, NeedsSession
  <1> HIDE DEF s
  <1>2. /\ mappings' = {m \in mappings : m.scope # s}
        /\ UNCHANGED <<now, issued, got>>
    BY DEF Forget, DeleteScope, s
  <1>3. Live' = {m \in Live : m.scope # s}
    BY <1>2 DEF Live, Expired
  <1>4. Retired' = Retired \cup (Live \ Live') /\ Live \subseteq issued
    BY <1>2, <1>3 DEF Retired, VaultInv, Live, Expired
  <1>5. Contract!Move(Live')
    BY <1>3, <1>4, LiveIsFaithfulNext DEF Contract!Move
  <1>6. Contract!Forget(s)
    BY <1>2, <1>3, <1>5 DEF Contract!Forget, Contract!In
  <1> QED BY <1>1, <1>6 DEF Contract!Next

LEMMA TimePasses ==
  ASSUME VaultInv, VaultInv', Clock
  PROVE  Contract!Next \/ UNCHANGED Contract!vars
  <1>1. now' \in Nat /\ now <= now' /\ UNCHANGED <<mappings, issued, got>>
    BY DEF Clock, Tick, VaultInv, run
  <1>2. \A m \in Entry : Expired(m) => Expired(m)'
    BY <1>1, LapsedForGood
  <1>3. Live' \subseteq Live /\ Live \subseteq issued
    BY <1>1, <1>2 DEF Live, Expired, VaultInv
  <1>4. Retired' = Retired \cup (Live \ Live')
    BY <1>1, <1>3 DEF Retired
  <1>5. Contract!Move(Live')
    BY <1>3, <1>4, LiveIsFaithfulNext DEF Contract!Move
  <1>6. CASE TTL # NoTTL
    BY <1>1, <1>3, <1>5, <1>6 DEF Contract!Lapse, Contract!Next
  <1>7. CASE TTL = NoTTL
    <2>1. Live' = Live
      BY <1>1, <1>7 DEF Live, Expired, Alive
    <2> QED BY <1>1, <2>1 DEF Retired, Contract!vars
  <1> QED BY <1>6, <1>7

LEMMA RestoreResolves ==
  ASSUME TypeOK, Restore
  PROVE  Contract!Next
  <1> DEFINE s == request.session
  <1>1. s \in Scope /\ got = {}
    BY FitsTheCatalogue DEF TypeOK, Restore, Called, ToolName, NeedsSession
  <1>2. got' = Resolved(s) /\ UNCHANGED vault
    BY DEF Restore
  <1> HIDE DEF s
  <1>3. Live' = Live /\ Retired' = Retired
    BY <1>2 DEF vault, Live, Retired, Expired
  <1>4. [c \in {"server"} |-> got'] = [[c \in {"server"} |-> got] EXCEPT !["server"] = got']
    OBVIOUS
  <1>5. Contract!Resolve("server", s)
    BY <1>1, <1>2, <1>3, <1>4 DEF Resolved, Contract!Resolve, Contract!Answer, Contract!In
  <1> QED BY <1>1, <1>5 DEF Contract!Next

(* The remaining steps neither ask the vault nor are told anything by it.   *)
LEMMA VaultAside ==
  ASSUME TypeOK, [Next]_vars,
         ~SanitizeExpire, ~Alias, ~AliasFails, ~Forget, ~Clock, ~Restore
  PROVE  UNCHANGED vault /\ (got' = got \/ got' = {})
  <1>1. CASE Send \/ Close \/ UNCHANGED vars
    BY <1>1 DEF Send, Close, vars, run
  <1>2. ASSUME NEW n \in DOMAIN pipe, ReadFrame(n) PROVE got' = got
    BY <1>2 DEF ReadFrame, run
  <1>3. CASE EndOfInput \/ SkipBlank \/ RejectBytes \/ Collect \/ Record \/ Inspect
               \/ WriteResponse \/ WriteFails
    BY <1>3 DEF EndOfInput, SkipBlank, RejectBytes, Collect, Record, Inspect,
                WriteResponse, WriteFails, Finish, run
  <1>4. CASE Handle
    BY <1>4 DEF Handle, Parse, RefuseEnvelope, Ignore, RefuseParams, RefuseMethod, Describe,
                ToolCall, RefuseTool, RefuseArguments, Refused, run
  <1> QED BY <1>1, <1>2, <1>3, <1>4, VaultSteps DEF Next, Server, Tool

(* Whatever the server does with its vault, one call after the other while  *)
(* mappings lapse, is what ScopedVault allows.  A lifetime of zero is left  *)
(* out: its aliases lapse before they are told.                             *)
THEOREM MemoryKeepsTheContract == ASSUME TTL # 0 PROVE Spec => MemoryContract
  <1>1. Init => Contract!Init
    BY DEF Init, VaultInit, Live, Retired, Expired, Contract!Init
  <1>2. TypeOK /\ VaultInv /\ VaultInv' /\ [Next]_vars => [Contract!Next]_(Contract!vars)
    <2> SUFFICES ASSUME TypeOK, VaultInv, VaultInv', [Next]_vars
                 PROVE  Contract!Next \/ UNCHANGED Contract!vars
      OBVIOUS
    <2>1. CASE SanitizeExpire
      <3>1. Live' = Live /\ UNCHANGED <<now, issued, got>>
        BY <2>1 DEF SanitizeExpire, Expire, Live, Expired
      <3> QED BY <3>1, NothingToTheContract
    <2>2. CASE AliasFails
      <3>1. UNCHANGED <<now, issued, got>>
        BY <2>2 DEF AliasFails, InsertFails, Finish
      <3>2. Live' = Live
        BY <2>2, <3>1 DEF AliasFails, InsertFails, Live, Expired
      <3> QED BY <3>1, <3>2, NothingToTheContract
    <2>3. CASE UNCHANGED vault /\ got' = got
      <3>1. Live' = Live /\ UNCHANGED <<now, issued, got>>
        BY <2>3 DEF vault, Live, Expired
      <3> QED BY <3>1, NothingToTheContract
    <2> QED BY <2>1, <2>2, <2>3, AliasIsStored, ForgetErases, TimePasses, RestoreResolves,
               DoneWithIt, VaultAside
  <1> QED BY <1>1, <1>2, Typing, VaultInvariant, PTL DEF Spec, MemoryContract, Contract!Spec

-----------------------------------------------------------------------------
(* The transport.                                                           *)

(* What is read so far, or handled, is part of one line within the limit.   *)
StreamInv ==
  /\ pipe \in Seq(Byte) /\ buf \in Seq(Byte) /\ sending \in BOOLEAN
  /\ Len(buf) <= Limit
  /\ \A i \in DOMAIN buf : buf[i] # "newline"

LEMMA LeastNatural ==
  ASSUME NEW S \in SUBSET Nat, S # {}
  PROVE  \E m \in S : \A n \in S : m <= n
  <1>1. PICK m \in S : ~ \E n \in S : <<n, m>> \in OpToRel(<, Nat)
    BY WFMin, NatLessThanWellFounded
  <1>2. \A n \in S : ~(n < m)
    BY <1>1 DEF OpToRel
  <1> QED BY <1>2

(* What one fill_buf leaves: the line grows up to its newline, or up to one *)
(* byte over the limit, or by all that there is; nothing is lost.           *)
LEMMA FrameStep ==
  ASSUME StreamInv, NEW n \in DOMAIN pipe, ReadFrame(n)
  PROVE  \E t \in 0 .. n :
           /\ \A i \in 1 .. t : pipe[i] # "newline"
           /\ \/ /\ Len(buf) + t = Limit + 1
                 /\ pc' = "ended" /\ buf' = <<>>
                 /\ \E u \in 0 .. Len(pipe) : pipe' = SubSeq(pipe, u + 1, Len(pipe))
              \/ /\ Len(buf) + t <= Limit /\ t < n /\ pipe[t + 1] = "newline"
                 /\ pc' = "handle" /\ buf' = buf \o SubSeq(pipe, 1, t)
                 /\ pipe' = SubSeq(pipe, t + 2, Len(pipe))
              \/ /\ Len(buf) + t <= Limit
                 /\ pc' = "read" /\ buf' = buf \o SubSeq(pipe, 1, t)
                 /\ pipe' = SubSeq(pipe, t + 1, Len(pipe))
  <1> DEFINE capacity == Limit + 1
             newlines == {i \in 1 .. n : pipe[i] = "newline"}
             upto     == IF newlines = {} THEN n
                         ELSE (CHOOSE i \in newlines : \A j \in newlines : i <= j) - 1
             take     == IF upto <= capacity - Len(buf) THEN upto ELSE capacity - Len(buf)
             whole    == newlines # {} /\ take = upto
             read     == buf \o SubSeq(pipe, 1, take)
  <1>1. /\ pipe' = SubSeq(pipe, (IF whole THEN take + 2 ELSE take + 1), Len(pipe))
        /\ pc' = IF Len(read) > Limit THEN "ended" ELSE IF whole THEN "handle" ELSE "read"
        /\ buf' = IF Len(read) > Limit THEN <<>> ELSE read
    BY DEF ReadFrame
  <1>2. n \in 1 .. Len(pipe) /\ Len(pipe) \in Nat /\ Len(buf) \in Nat /\ Limit \in Nat
    BY ServerAssumption DEF StreamInv
  <1>3. /\ upto \in 0 .. n /\ \A i \in 1 .. upto : pipe[i] # "newline"
        /\ newlines # {} => upto < n /\ pipe[upto + 1] = "newline"
    <2>1. CASE newlines = {}
      BY <1>2, <2>1
    <2>2. CASE newlines # {}
      <3>1. newlines \in SUBSET Nat
        BY <1>2
      <3>2. newlines \subseteq 1 .. n /\ \A i \in 1 .. n : i \in newlines <=> pipe[i] = "newline"
        OBVIOUS
      <3> HIDE DEF newlines
      <3>3. \E m \in newlines : \A j \in newlines : m <= j
        BY <3>1, <2>2, LeastNatural
      <3>4. PICK m : m \in newlines /\ (\A j \in newlines : m <= j) /\ upto = m - 1
        BY <2>2, <3>3
      <3> HIDE DEF upto
      <3> QED BY <1>2, <2>2, <3>2, <3>4
    <2> QED BY <2>1, <2>2
  <1> HIDE DEF upto
  <1>4. /\ take \in 0 .. n /\ take <= upto /\ Len(buf) + take <= Limit + 1
        /\ take # upto => Len(buf) + take = Limit + 1
    BY <1>2, <1>3 DEF StreamInv
  <1> HIDE DEF take, newlines
  <1>5. Len(read) = Len(buf) + take
    <2>1. SubSeq(pipe, 1, take) \in Seq(Byte) /\ Len(SubSeq(pipe, 1, take)) = take
      BY <1>2, <1>4 DEF StreamInv
    <2> QED BY <2>1, ConcatProperties DEF StreamInv
  <1>6. \A i \in 1 .. take : pipe[i] # "newline"
    BY <1>2, <1>3, <1>4
  <1>7. CASE Len(read) > Limit
    <2>1. Len(buf) + take = Limit + 1 /\ pc' = "ended" /\ buf' = <<>>
      BY <1>1, <1>2, <1>4, <1>5, <1>7
    <2>2. \E u \in 0 .. Len(pipe) : pipe' = SubSeq(pipe, u + 1, Len(pipe))
      <3>1. CASE whole
        <4>1. take + 1 \in 0 .. Len(pipe) /\ take + 2 = (take + 1) + 1
          BY <1>2, <1>3, <1>4, <3>1
        <4> QED BY <1>1, <3>1, <4>1
      <3>2. CASE ~whole
        <4>1. take \in 0 .. Len(pipe)
          BY <1>2, <1>4
        <4> QED BY <1>1, <3>2, <4>1
      <3> QED BY <3>1, <3>2
    <2> QED BY <1>4, <1>6, <2>1, <2>2
  <1>8. CASE Len(read) <= Limit /\ whole
    <2>1. Len(buf) + take <= Limit /\ take < n /\ pipe[take + 1] = "newline"
      BY <1>2, <1>3, <1>4, <1>5, <1>8
    <2>2. ~(Len(read) > Limit)
      BY <1>2, <1>4, <1>5, <1>8
    <2>3. pc' = "handle" /\ buf' = read /\ pipe' = SubSeq(pipe, take + 2, Len(pipe))
      BY <1>1, <1>8, <2>2
    <2> QED BY <1>4, <1>6, <2>1, <2>3
  <1>9. CASE Len(read) <= Limit /\ ~whole
    <2>1. Len(buf) + take <= Limit /\ ~(Len(read) > Limit)
      BY <1>2, <1>4, <1>5, <1>9
    <2>2. pc' = "read" /\ buf' = read /\ pipe' = SubSeq(pipe, take + 1, Len(pipe))
      BY <1>1, <1>9, <2>1
    <2> QED BY <1>4, <1>6, <2>1, <2>2
  <1>10. Len(read) > Limit \/ Len(read) <= Limit
    BY <1>2, <1>4, <1>5
  <1> QED BY <1>7, <1>8, <1>9, <1>10

(* Of the other steps three end the handling of a line, two the session,    *)
(* and the rest leaves the stream alone.                                    *)
AtWork == {"handle", "respond"} \cup Running

LEMMA OtherSteps ==
  ASSUME TypeOK, [Next]_vars, ~Send, ~Close, \A n \in DOMAIN pipe : ~ReadFrame(n)
  PROVE  /\ UNCHANGED <<pipe, sending>>
         /\ \/ pc = "read" /\ pipe = <<>> /\ ~sending /\ pc' = "ended" /\ buf' = <<>>
            \/ pc \in AtWork /\ pc' \in {"read", "ended"} /\ buf' = <<>>
            \/ pc \in AtWork /\ pc' \in AtWork /\ buf' = buf
            \/ UNCHANGED <<pc, buf>>
  <1> USE DEF wire, run
  <1>1. CASE EndOfInput
    BY <1>1 DEF EndOfInput
  <1>2. CASE SkipBlank \/ RejectBytes \/ WriteResponse \/ WriteFails
    BY <1>2 DEF SkipBlank, NextFrame, RejectBytes, Answering, WriteResponse, WriteFails, AtWork
  <1>3. CASE Ignore
    BY <1>3 DEF Ignore, NextFrame, AtWork, Running
  <1>4. CASE Handle /\ ~Ignore
    <2>1. pc \in AtWork
      BY <1>4 DEF Handle, Parse, RefuseEnvelope, RefuseParams, RefuseMethod, Describe, ToolCall,
                  RefuseTool, RefuseArguments, Dispatched, Valid, Called, AtWork, Running
    <2> QED BY <1>4, <2>1 DEF Handle, Parse, RefuseEnvelope, RefuseParams, RefuseMethod, Describe,
                              ToolCall, RefuseTool, RefuseArguments, Refused, Answering, AtWork,
                              Running
  <1>5. CASE Tool
    BY <1>5 DEF Tool, SanitizeExpire, Alias, Collect, AliasFails, Record, Restore, Forget, Inspect,
                Called, Finish, Answering, AtWork, Running
  <1>6. CASE Clock \/ UNCHANGED vars
    BY <1>6 DEF Clock, vars
  <1> QED BY <1>1, <1>2, <1>3, <1>4, <1>5, <1>6 DEF Next, Server

LEMMA StreamInvariant == Spec => []StreamInv
  <1>1. Init => StreamInv
    BY EmptySeq DEF Init, StreamInv
  <1>2. TypeOK /\ StreamInv /\ [Next]_vars => StreamInv'
    <2> SUFFICES ASSUME TypeOK, StreamInv, [Next]_vars PROVE StreamInv'
      OBVIOUS
    <2>1. CASE Send
      <3>1. PICK b \in Byte : pipe' = Append(pipe, b)
        BY <2>1 DEF Send
      <3>2. pipe' \in Seq(Byte)
        BY <3>1, AppendProperties DEF StreamInv
      <3> QED BY <2>1, <3>2 DEF Send, StreamInv
    <2>2. CASE Close
      BY <2>2 DEF Close, StreamInv
    <2>3. ASSUME NEW n \in DOMAIN pipe, ReadFrame(n) PROVE StreamInv'
      <3>1. PICK t \in 0 .. n :
              /\ \A i \in 1 .. t : pipe[i] # "newline"
              /\ \/ /\ buf' = <<>>
                    /\ \E u \in 0 .. Len(pipe) : pipe' = SubSeq(pipe, u + 1, Len(pipe))
                 \/ /\ Len(buf) + t <= Limit
                    /\ buf' = buf \o SubSeq(pipe, 1, t)
                    /\ pipe' \in {SubSeq(pipe, t + 1, Len(pipe)), SubSeq(pipe, t + 2, Len(pipe))}
        BY <2>3, FrameStep
      <3>2. n \in 1 .. Len(pipe) /\ Len(pipe) \in Nat /\ Len(buf) \in Nat
        BY DEF StreamInv
      <3>3. \A m \in Nat \ {0} : SubSeq(pipe, m, Len(pipe)) \in Seq(Byte)
        BY <3>2, SubSeqProperties, ElementOfSeq DEF StreamInv
      <3>4. pipe' \in Seq(Byte) /\ sending' = sending
        <4>1. t + 1 \in Nat \ {0} /\ t + 2 \in Nat \ {0}
              /\ \A u \in 0 .. Len(pipe) : u + 1 \in Nat \ {0}
          BY <3>2
        <4>2. pipe' \in Seq(Byte)
          BY <3>1, <3>3, <4>1
        <4> QED BY <2>3, <4>2 DEF ReadFrame
      <3>5. CASE buf' = <<>>
        BY <3>4, <3>5, EmptySeq DEF StreamInv
      <3>6. CASE Len(buf) + t <= Limit /\ buf' = buf \o SubSeq(pipe, 1, t)
        <4>1. /\ SubSeq(pipe, 1, t) \in Seq(Byte) /\ Len(SubSeq(pipe, 1, t)) = t
              /\ \A i \in 1 .. t : SubSeq(pipe, 1, t)[i] = pipe[i]
          BY <3>2, SubSeqProperties, ElementOfSeq DEF StreamInv
        <4>2. /\ buf' \in Seq(Byte) /\ Len(buf') = Len(buf) + t
              /\ \A i \in 1 .. Len(buf) + t :
                   buf'[i] = IF i <= Len(buf) THEN buf[i] ELSE SubSeq(pipe, 1, t)[i - Len(buf)]
          BY <3>6, <4>1, ConcatProperties DEF StreamInv
        <4>3. ASSUME NEW i \in DOMAIN buf' PROVE buf'[i] # "newline"
          <5>1. i \in 1 .. Len(buf) + t
            BY <4>2, <4>3
          <5>2. CASE i <= Len(buf)
            BY <3>2, <4>2, <5>1, <5>2 DEF StreamInv
          <5>3. CASE ~(i <= Len(buf))
            <6>1. i - Len(buf) \in 1 .. t
              BY <3>2, <5>1, <5>3
            <6> QED BY <3>1, <4>1, <4>2, <5>1, <5>3, <6>1
          <5> QED BY <5>2, <5>3
        <4> QED BY <3>4, <3>6, <4>2, <4>3 DEF StreamInv
      <3> QED BY <3>1, <3>5, <3>6
    <2>4. CASE ~Send /\ ~Close /\ \A n \in DOMAIN pipe : ~ReadFrame(n)
      <3>1. UNCHANGED <<pipe, sending>> /\ (buf' = buf \/ buf' = <<>>)
        BY <2>4, OtherSteps
      <3>2. <<>> \in Seq(Byte) /\ Len(<<>>) = 0 /\ DOMAIN <<>> = {}
        BY EmptySeq
      <3>3. Limit \in Nat
        BY ServerAssumption
      <3>4. buf' \in Seq(Byte) /\ Len(buf') <= Limit /\ \A i \in DOMAIN buf' : buf'[i] # "newline"
        <4>1. CASE buf' = buf
          BY <4>1 DEF StreamInv
        <4>2. CASE buf' = <<>>
          BY <3>2, <3>3, <4>2
        <4> QED BY <3>1, <4>1, <4>2
      <3>5. pipe' \in Seq(Byte) /\ sending' \in BOOLEAN
        BY <3>1 DEF StreamInv
      <3> QED BY <3>4, <3>5 DEF StreamInv
    <2> QED BY <2>1, <2>2, <2>3, <2>4
  <1> QED BY <1>1, <1>2, Typing, PTL DEF Spec

(* The stream seen from the transport: a server reads, or has a line.       *)
LEMMA LineInHand ==
  ASSUME StreamInv
  PROVE  /\ pc = "read" => Unread = buf \o pipe /\ InHand = Stream!NoLine
         /\ pc = "ended" => Unread = <<>> /\ InHand = Stream!NoLine
         /\ pc \in AtWork => Unread = pipe /\ InHand = buf /\ buf # Stream!NoLine
         /\ Unread \in Seq(Byte)
  <1>1. buf # <<"newline">>
    BY DEF StreamInv
  <1>2. buf \o pipe \in Seq(Byte) /\ <<>> \in Seq(Byte)
    BY ConcatProperties, EmptySeq DEF StreamInv
  <1> QED BY <1>1, <1>2 DEF Unread, InHand, Stream!NoLine, AtWork, Running, StreamInv

(* A fill_buf hands over the next line of the stream, ends the session at   *)
(* one that is over the limit, or only moves bytes into the buffer.         *)
LEMMA FrameOfStream ==
  ASSUME StreamInv, StreamInv', NEW n \in DOMAIN pipe, ReadFrame(n)
  PROVE  Stream!Take \/ Stream!End \/ UNCHANGED Stream!vars
  <1>1. pc = "read" /\ sending' = sending
    BY DEF ReadFrame
  <1>2. Unread = buf \o pipe /\ InHand = Stream!NoLine
    BY <1>1, LineInHand
  <1>3. /\ Len(buf) \in Nat /\ Len(pipe) \in Nat /\ n \in 1 .. Len(pipe) /\ Limit \in Nat
        /\ buf \in Seq(Byte) /\ pipe \in Seq(Byte)
        /\ \A i \in 1 .. Len(buf) : buf[i] # "newline"
    BY ServerAssumption DEF StreamInv
  <1>4. /\ Unread \in Seq(Byte) /\ Len(Unread) = Len(buf) + Len(pipe)
        /\ \A i \in 1 .. Len(buf) + Len(pipe) :
             Unread[i] = IF i <= Len(buf) THEN buf[i] ELSE pipe[i - Len(buf)]
    BY <1>2, <1>3, ConcatProperties
  <1>5. PICK t \in 0 .. n :
          /\ \A i \in 1 .. t : pipe[i] # "newline"
          /\ \/ Len(buf) + t = Limit + 1 /\ pc' = "ended"
             \/ /\ Len(buf) + t <= Limit /\ t < n /\ pipe[t + 1] = "newline"
                /\ pc' = "handle" /\ buf' = buf \o SubSeq(pipe, 1, t)
                /\ pipe' = SubSeq(pipe, t + 2, Len(pipe))
             \/ /\ Len(buf) + t <= Limit
                /\ pc' = "read" /\ buf' = buf \o SubSeq(pipe, 1, t)
                /\ pipe' = SubSeq(pipe, t + 1, Len(pipe))
    BY FrameStep
  <1>6. t \in Nat /\ t <= Len(pipe) /\ SubSeq(pipe, 1, t) \in Seq(Byte)
        /\ Len(SubSeq(pipe, 1, t)) = t
        /\ \A i \in 1 .. t : SubSeq(pipe, 1, t)[i] = pipe[i]
    BY <1>3, SubSeqProperties, ElementOfSeq
  <1>7. \A i \in 1 .. Len(buf) + t : Unread[i] # "newline"
    <2> SUFFICES ASSUME NEW i \in 1 .. Len(buf) + t PROVE Unread[i] # "newline"
      OBVIOUS
    <2>1. CASE i <= Len(buf)
      <3>1. i \in 1 .. Len(buf) /\ i \in 1 .. Len(buf) + Len(pipe)
        BY <1>3, <1>6, <2>1
      <3> QED BY <1>3, <1>4, <2>1, <3>1
    <2>2. CASE ~(i <= Len(buf))
      <3>1. i - Len(buf) \in 1 .. t /\ i \in 1 .. Len(buf) + Len(pipe)
        BY <1>3, <1>6, <2>2
      <3> QED BY <1>4, <1>5, <2>2, <3>1
    <2> QED BY <2>1, <2>2
  <1>8. CASE Len(buf) + t = Limit + 1 /\ pc' = "ended"
    <2>1. Stream!TooLong
      BY <1>3, <1>4, <1>6, <1>7, <1>8 DEF Stream!TooLong
    <2>2. Unread' = <<>> /\ InHand' = Stream!NoLine /\ (pc # "ended")' = FALSE
      BY <1>8 DEF Unread, InHand, Stream!NoLine
    <2> QED BY <1>1, <2>1, <2>2 DEF Stream!End
  <1>9. CASE /\ Len(buf) + t <= Limit /\ t < n /\ pipe[t + 1] = "newline"
             /\ pc' = "handle" /\ buf' = buf \o SubSeq(pipe, 1, t)
             /\ pipe' = SubSeq(pipe, t + 2, Len(pipe))
    <2> DEFINE i == Len(buf) + t + 1
    <2>1. i \in 1 .. Limit + 1 /\ i \in 1 .. Len(Unread) /\ i - Len(buf) = t + 1
          /\ ~(i <= Len(buf)) /\ i - 1 = Len(buf) + t
      BY <1>3, <1>4, <1>6, <1>9
    <2>2. Stream!Ends(i)
      <3>1. Unread[i] = "newline" /\ DOMAIN Unread = 1 .. Len(Unread)
        BY <1>4, <1>9, <2>1
      <3> HIDE DEF i
      <3> QED BY <1>7, <2>1, <3>1 DEF Stream!Ends
    <2>3. buf \o SubSeq(pipe, 1, t) = SubSeq(Unread, 1, i - 1)
      <3>1. buf \o SubSeq(pipe, 1, t) \in Seq(Byte)
            /\ Len(buf \o SubSeq(pipe, 1, t)) = Len(buf) + t
            /\ \A j \in 1 .. Len(buf) + t :
                 (buf \o SubSeq(pipe, 1, t))[j]
                   = IF j <= Len(buf) THEN buf[j] ELSE SubSeq(pipe, 1, t)[j - Len(buf)]
        BY <1>3, <1>6, ConcatProperties
      <3>2. \A j \in 1 .. Len(buf) + t : Unread[j] \in Byte
        BY <1>3, <1>4, <1>6, ElementOfSeq
      <3>3. /\ SubSeq(Unread, 1, Len(buf) + t) \in Seq(Byte)
            /\ Len(SubSeq(Unread, 1, Len(buf) + t)) = Len(buf) + t
            /\ \A j \in 1 .. Len(buf) + t : SubSeq(Unread, 1, Len(buf) + t)[j] = Unread[j]
        BY <1>3, <1>6, <3>2, SubSeqProperties
      <3>4. ASSUME NEW j \in 1 .. Len(buf) + t
            PROVE  (buf \o SubSeq(pipe, 1, t))[j] = SubSeq(Unread, 1, Len(buf) + t)[j]
        <4>1. j \in 1 .. Len(buf) + Len(pipe)
          BY <1>3, <1>6
        <4>2. ~(j <= Len(buf)) => j - Len(buf) \in 1 .. t
          BY <1>3, <1>6
        <4> QED BY <1>4, <1>6, <3>1, <3>3, <4>1, <4>2
      <3> QED BY <2>1, <3>1, <3>3, <3>4, SeqEqual
    <2>4. SubSeq(pipe, t + 2, Len(pipe)) = SubSeq(Unread, i + 1, Len(Unread))
      <3>1. CASE t + 2 > Len(pipe)
        <4>1. t + 2 \in Int /\ i + 1 \in Int /\ Len(Unread) \in Int /\ i + 1 > Len(Unread)
          BY <1>3, <1>4, <1>6, <3>1
        <4> QED BY <1>3, <3>1, <4>1, SubSeqEmpty
      <3>2. CASE t + 2 <= Len(pipe)
        <4>1. /\ i + 1 \in Len(buf) + 1 .. Len(buf) + Len(pipe)
              /\ Len(Unread) \in Len(buf) + 1 .. Len(buf) + Len(pipe)
              /\ i + 1 - Len(buf) = t + 2 /\ Len(Unread) - Len(buf) = Len(pipe)
          BY <1>3, <1>4, <1>6, <3>2
        <4> QED BY <1>2, <1>3, <4>1, SubSeqOfConcat2
      <3> QED BY <1>3, <1>6, <3>1, <3>2
    <2>5. Unread' = pipe' /\ InHand' = buf' /\ (pc # "ended") /\ (pc # "ended")'
      BY <1>1, <1>9 DEF Unread, InHand
    <2> HIDE DEF i
    <2>6. i \in 1 .. Limit + 1 /\ InHand' = SubSeq(Unread, 1, i - 1)
          /\ Unread' = SubSeq(Unread, i + 1, Len(Unread))
      BY <1>9, <2>1, <2>3, <2>4, <2>5
    <2> QED BY <1>1, <1>2, <2>2, <2>5, <2>6 DEF Stream!Take
  <1>10. CASE /\ Len(buf) + t <= Limit
              /\ pc' = "read" /\ buf' = buf \o SubSeq(pipe, 1, t)
              /\ pipe' = SubSeq(pipe, t + 1, Len(pipe))
    <2>1. pipe = SubSeq(pipe, 1, t) \o SubSeq(pipe, t + 1, Len(pipe))
      <3>1. 1 \in 1 .. Len(pipe) + 1 /\ t \in 1 - 1 .. Len(pipe) /\ Len(pipe) \in t .. Len(pipe)
        BY <1>3, <1>6
      <3>2. SubSeq(pipe, 1, t) \o SubSeq(pipe, t + 1, Len(pipe)) = SubSeq(pipe, 1, Len(pipe))
        BY <1>3, <3>1, ConcatAdjacentSubSeq
      <3> QED BY <1>3, <3>2, SubSeqFull
    <2>2. pipe' \in Seq(Byte)
      BY DEF StreamInv
    <2>3. Unread' = Unread
      <3>1. Unread' = (buf \o SubSeq(pipe, 1, t)) \o pipe'
        BY <1>10 DEF Unread
      <3>2. @ = buf \o (SubSeq(pipe, 1, t) \o pipe')
        <4>1. buf \in Seq(Byte) /\ SubSeq(pipe, 1, t) \in Seq(Byte) /\ pipe' \in Seq(Byte)
          BY <1>3, <1>6, <2>2
        <4>2. \A u, v, w \in Seq(Byte) : (u \o v) \o w = u \o (v \o w)
          BY ConcatAssociative
        <4> QED BY <4>1, <4>2
      <3> QED BY <1>2, <1>10, <2>1, <3>1, <3>2
    <2>4. InHand' = InHand /\ (pc # "ended")' = (pc # "ended")
      BY <1>1, <1>10 DEF InHand
    <2> QED BY <1>1, <2>3, <2>4 DEF Stream!vars
  <1> QED BY <1>5, <1>8, <1>9, <1>10

(* However the bytes arrive, the server takes from the stream one whole     *)
(* line after the other, and ends where LineStream allows it.               *)
THEOREM TransportKeepsTheContract == Spec => TransportContract
  <1>1. Init => Stream!Init
    <2> SUFFICES ASSUME Init PROVE Stream!Init
      OBVIOUS
    <2>1. Unread = <<>> \o <<>> /\ InHand = <<"newline">>
      BY DEF Init, Unread, InHand
    <2>2. <<>> \o <<>> = <<>>
      BY EmptySeq, ConcatEmptySeq
    <2> QED BY <2>1, <2>2 DEF Init, Stream!Init, Stream!NoLine
  <1>2. TypeOK /\ StreamInv /\ StreamInv' /\ [Next]_vars => [Stream!Next]_(Stream!vars)
    <2> SUFFICES ASSUME TypeOK, StreamInv, StreamInv', [Next]_vars
                 PROVE  Stream!Next \/ UNCHANGED Stream!vars
      OBVIOUS
    <2>1. CASE Send
      <3>1. PICK b \in Byte : pipe' = Append(pipe, b)
        BY <2>1 DEF Send
      <3>2. sending /\ UNCHANGED <<sending, pc, buf>>
        BY <2>1 DEF Send
      <3>3. InHand' = InHand /\ (pc # "ended")' = (pc # "ended")
        BY <3>2 DEF InHand
      <3>4. CASE pc = "ended"
        BY <3>2, <3>3, <3>4 DEF Unread, Stream!vars
      <3>5. CASE pc = "read"
        <4>1. Unread' = buf \o Append(pipe, b) /\ Unread = buf \o pipe
          BY <3>1, <3>2, <3>5 DEF Unread
        <4>2. buf \o Append(pipe, b) = Append(buf \o pipe, b)
          <5>1. <<b>> \in Seq(Byte) /\ buf \o pipe \in Seq(Byte)
            BY ConcatProperties DEF StreamInv
          <5>2. buf \o Append(pipe, b) = buf \o (pipe \o <<b>>)
            BY AppendIsConcat DEF StreamInv
          <5>3. @ = (buf \o pipe) \o <<b>>
            BY <5>1, ConcatAssociative DEF StreamInv
          <5>4. @ = Append(buf \o pipe, b)
            BY <5>1, AppendIsConcat
          <5> QED BY <5>2, <5>3, <5>4
        <4>3. Stream!Send
          BY <3>2, <3>3, <4>1, <4>2 DEF Stream!Send
        <4> QED BY <4>3 DEF Stream!Next
      <3>6. CASE pc \notin {"read", "ended"}
        <4>1. Stream!Send
          BY <3>1, <3>2, <3>3, <3>6 DEF Stream!Send, Unread
        <4> QED BY <4>1 DEF Stream!Next
      <3> QED BY <3>4, <3>5, <3>6
    <2>2. CASE Close
      <3>1. sending' = FALSE /\ UNCHANGED <<pipe, pc, buf>>
        BY <2>2 DEF Close
      <3>2. Stream!Close
        BY <3>1 DEF Stream!Close, Unread, InHand
      <3> QED BY <3>2 DEF Stream!Next
    <2>3. ASSUME NEW n \in DOMAIN pipe, ReadFrame(n)
          PROVE  Stream!Next \/ UNCHANGED Stream!vars
      BY <2>3, FrameOfStream DEF Stream!Next
    <2>4. CASE ~Send /\ ~Close /\ \A n \in DOMAIN pipe : ~ReadFrame(n)
      <3>1. UNCHANGED <<pipe, sending>>
        BY <2>4, OtherSteps
      <3>2. CASE pc = "read" /\ pipe = <<>> /\ ~sending /\ pc' = "ended" /\ buf' = <<>>
        <4>1. Unread = buf /\ Unread' = <<>> /\ InHand' = Stream!NoLine /\ InHand = Stream!NoLine
          <5>1. buf \o <<>> = buf
            BY ConcatEmptySeq DEF StreamInv
          <5> QED BY <3>2, <5>1 DEF Unread, InHand, Stream!NoLine
        <4>2. \A i \in DOMAIN Unread : ~Stream!Ends(i)
          BY <4>1 DEF Stream!Ends, StreamInv
        <4>3. Stream!End
          BY <3>1, <3>2, <4>1, <4>2 DEF Stream!End
        <4> QED BY <4>3 DEF Stream!Next
      <3>3. CASE pc \in AtWork /\ pc' \in {"read", "ended"} /\ buf' = <<>>
        <4>1. Unread = pipe /\ InHand # Stream!NoLine /\ InHand' = Stream!NoLine /\ pc # "ended"
          BY <3>3, LineInHand DEF InHand, Stream!NoLine, AtWork, Running
        <4>2. CASE pc' = "ended"
          <5>1. Stream!End
            BY <3>1, <4>1, <4>2 DEF Stream!End, Unread
          <5> QED BY <5>1 DEF Stream!Next
        <4>3. CASE pc' = "read"
          <5>1. <<>> \o pipe = pipe
            BY ConcatEmptySeq DEF StreamInv
          <5>2. Unread' = pipe
            BY <3>1, <3>3, <4>3, <5>1 DEF Unread
          <5>3. Stream!Handled
            BY <3>1, <4>1, <4>3, <5>2 DEF Stream!Handled
          <5> QED BY <5>3 DEF Stream!Next
        <4> QED BY <3>3, <4>2, <4>3
      <3>4. CASE pc \in AtWork /\ pc' \in AtWork /\ buf' = buf
        BY <3>1, <3>4 DEF Stream!vars, Unread, InHand, AtWork, Running
      <3>5. CASE UNCHANGED <<pc, buf>>
        BY <3>1, <3>5 DEF Stream!vars, Unread, InHand
      <3> QED BY <2>4, <3>2, <3>3, <3>4, <3>5, OtherSteps
    <2> QED BY <2>1, <2>2, <2>3, <2>4
  <1> QED BY <1>1, <1>2, Typing, StreamInvariant, PTL DEF Spec, TransportContract, Stream!Spec
=============================================================================
