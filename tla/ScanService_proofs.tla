------------------------- MODULE ScanService_proofs -------------------------
(***************************************************************************)
(* Theorems about the paid-scan pipeline, for any number of calls, requests *)
(* and entitlements, any set of faults and any number of restarts.         *)
(*                                                                         *)
(* The safety argument is one inductive invariant: OneHolder is the mutual *)
(* exclusion of the ledger, ResultSpends says that delivering closes the   *)
(* entitlement, and the other two conjuncts follow from these at the steps *)
(* that hand out a result or write the execution row.                      *)
(***************************************************************************)
EXTENDS ScanService, TLAPS

PipelineInv ==
    /\ ScanTypeOK
    /\ OneHolder
    /\ ResultSpends
    /\ AtMostOneResult
    /\ NewResultOnRecord

---------------------------------------------------------------------------
(* Types *)

\* The initial states of the pipeline are well typed.
LEMMA InitTyped == ScanInit => ScanTypeOK
  BY CallsAssumption, FaultsAssumption
     DEF ScanInit, ScanTypeOK, EntitlementStatus, ScanStatus, Ended, Holding

\* A database step keeps the types, whatever it decides.
LEMMA DbStepTyped ==
  ASSUME ScanTypeOK, NEW c \in Calls, NEW step, NEW next, NEW onThrow,
         next \in {"idle", "gated"} \cup Holding \cup Ended,
         onThrow \in {"idle", "gated"} \cup Holding \cup Ended,
         \/ DbStep(c, step, ReserveRows, next, onThrow)
         \/ DbStep(c, step, MarkRow, next, onThrow)
         \/ DbStep(c, step, PersistRows, next, onThrow)
         \/ DbStep(c, step, FailRows, next, onThrow)
  PROVE  ScanTypeOK'
  <1> DEFINE r == RequestOf[c]
             e == EntitlementOf[c]
  <1>1. r \in Requests /\ e \in Entitlements
    BY CallsAssumption
  <1>2. /\ pc' \in [Calls -> {"idle", "gated"} \cup Holding \cup Ended]
        /\ UNCHANGED <<ledgerVars, restarts>>
    BY DEF DbStep, Goto, ScanTypeOK
  <1>3. \/ ReserveRows(r, e) \/ MarkRow(r, e) \/ PersistRows(r, e) \/ FailRows(r, e)
        \/ UNCHANGED rowVars
    BY DEF DbStep
  <1>4. /\ execRow' \in [Requests -> ScanStatus \cup {"NONE"}]
        /\ usageRow' \in [Entitlements -> Requests \cup {NoRequest}]
        /\ entRow' \in [Entitlements -> EntitlementStatus \cup {"NONE"}]
        /\ snapshots' \subseteq Requests
    BY <1>1, <1>3
       DEF ReserveRows, MarkRow, PersistRows, FailRows, rowVars, ScanTypeOK,
           ScanStatus, EntitlementStatus
  <1> QED
    BY <1>2, <1>4 DEF ScanTypeOK, ledgerVars

\* Every step of the pipeline keeps the types.
LEMMA StepTyped == ScanTypeOK /\ [ScanNext]_scanVars => ScanTypeOK'
  <1> SUFFICES ASSUME ScanTypeOK, [ScanNext]_scanVars PROVE ScanTypeOK'
    OBVIOUS
  <1> USE DEF Holding, Ended
  <1>1. ASSUME NEW c \in Calls, CallStep(c) PROVE ScanTypeOK'
    <2>0. RequestOf[c] \in Requests /\ EntitlementOf[c] \in Entitlements
      BY CallsAssumption
    <2>1. CASE Gate(c) \/ GateThrows(c) \/ Refuse(c) \/ Produce(c) \/ ProduceNothing(c)
               \/ AcquireThrows(c)
      BY <2>1 DEF Gate, GateThrows, Refuse, Produce, ProduceNothing, AcquireThrows,
                  Goto, ScanTypeOK, ledgerVars, rowVars
    <2>2. CASE Consume(c)
      BY <2>0, <2>2 DEF Consume, ConsumeInLedger, Goto, ScanTypeOK, rowVars,
                        EntitlementStatus
    <2>3. CASE UndoReserve(c) \/ Release(c)
      BY <2>0, <2>3 DEF UndoReserve, Release, ReleaseIfUnused, Goto, ScanTypeOK,
                        ledgerVars, rowVars, EntitlementStatus
    <2>4. CASE Reserve(c)
      BY <2>4, DbStepTyped DEF Reserve
    <2>5. CASE Mark(c)
      BY <2>5, DbStepTyped DEF Mark
    <2>6. CASE Persist(c)
      BY <2>6, DbStepTyped DEF Persist
    <2>7. CASE RecordFailure(c)
      BY <2>7, DbStepTyped DEF RecordFailure
    <2> QED
      BY <1>1, <2>1, <2>2, <2>3, <2>4, <2>5, <2>6, <2>7 DEF CallStep
  <1>2. CASE Restart
    BY <1>2, FaultsAssumption
       DEF Restart, LoseMemory, ScanTypeOK, rowVars, EntitlementStatus
  <1>3. CASE UNCHANGED scanVars
    BY <1>3 DEF scanVars, ScanTypeOK
  <1> QED
    BY <1>1, <1>2, <1>3 DEF ScanNext

\* Types are an invariant of the pipeline, whatever fails.
THEOREM TypeCorrect == ScanSpec => []ScanTypeOK
  BY InitTyped, StepTyped, PTL DEF ScanSpec

---------------------------------------------------------------------------
(* Safety *)

LEMMA InitSafe == ScanInit => PipelineInv
  <1> SUFFICES ASSUME ScanInit PROVE PipelineInv
    OBVIOUS
  <1>1. ScanTypeOK
    BY InitTyped
  <1>2. \A c \in Calls : pc[c] = "idle"
    BY DEF ScanInit
  <1> QED
    BY <1>1, <1>2
       DEF PipelineInv, OneHolder, ResultSpends, AtMostOneResult, NewResultOnRecord,
           Holders, Holding, AtRest

\* A call that moves without touching the ledger or the rows, and neither starts
\* to hold its entitlement nor delivers, preserves the invariant.
LEMMA MoveSafe ==
  ASSUME PipelineInv, ScanTypeOK', NEW c \in Calls, NEW to, Goto(c, to),
         UNCHANGED <<ledgerVars, rowVars>>,
         to # "ok", to \in Holding => pc[c] \in Holding
  PROVE  PipelineInv'
  <1> USE DEF PipelineInv, ScanTypeOK, Goto, ledgerVars, rowVars
  <1>1. \A e \in Entitlements : Holders(e)' \subseteq Holders(e)
    BY DEF Holders
  <1>2. OneHolder' /\ ResultSpends'
    BY <1>1, CallsAssumption DEF OneHolder, ResultSpends, AtRest, Holders
  <1>3. AtMostOneResult' /\ NewResultOnRecord'
    BY DEF AtMostOneResult, NewResultOnRecord, OnRecord
  <1> QED
    BY <1>2, <1>3

\* A call that holds its entitlement is the only one, and none has delivered on
\* it; so no result is on the execution row it may write.
LEMMA HolderAlone ==
  ASSUME PipelineInv, NEW c \in Calls, pc[c] \in Holding
  PROVE  /\ \A d \in Calls : EntitlementOf[d] = EntitlementOf[c] =>
                pc[d] # "ok" /\ (pc[d] \in Holding => d = c)
         /\ \A d \in Calls : pc[d] = "ok" => RequestOf[d] # RequestOf[c]
         /\ status[EntitlementOf[c]] = "CONSUMED"
         /\ usage[EntitlementOf[c]] = RequestOf[c]
  BY CallsAssumption, RequestBinding
     DEF PipelineInv, OneHolder, ResultSpends, AtRest, Holders

\* Giving the entitlement back ends the call that held it.
LEMMA GiveBackSafe ==
  ASSUME PipelineInv, ScanTypeOK', NEW c \in Calls, pc[c] \in Holding,
         ReleaseIfUnused(EntitlementOf[c]), Goto(c, "failed"), UNCHANGED rowVars
  PROVE  PipelineInv'
  <1>1. \A f \in Entitlements : f # EntitlementOf[c] => status'[f] = status[f]
    <2>1. status \in [Entitlements -> EntitlementStatus \cup {"NONE"}]
      BY DEF PipelineInv, ScanTypeOK
    <2>2. \/ status' = [status EXCEPT ![EntitlementOf[c]] = "ISSUED"]
          \/ status' = status
      BY DEF ReleaseIfUnused, ledgerVars
    <2> QED
      BY <2>1, <2>2
  <1> USE CallsAssumption
      DEF PipelineInv, ScanTypeOK, Goto, ReleaseIfUnused, rowVars, ledgerVars
  <1>2. \A d \in Calls : pc'[d] = IF d = c THEN "failed" ELSE pc[d]
    OBVIOUS
  <1>3. \A d \in Calls : EntitlementOf[d] = EntitlementOf[c] =>
            pc[d] # "ok" /\ (pc[d] \in Holding => d = c)
    BY HolderAlone
  <1>4. OneHolder'
    BY <1>3, <1>2 DEF OneHolder, Holders, Holding
  <1>5. ResultSpends'
    <2> SUFFICES ASSUME NEW d \in Calls, pc'[d] = "ok"
                 PROVE  /\ status'[EntitlementOf[d]] # "ISSUED"
                        /\ \A h \in Calls : EntitlementOf[h] = EntitlementOf[d] =>
                              pc'[h] \notin Holding
      BY DEF ResultSpends, AtRest, Holders
    <2>1. pc[d] = "ok" /\ EntitlementOf[d] # EntitlementOf[c]
      BY <1>3, <1>2
    <2>2. status'[EntitlementOf[d]] # "ISSUED"
      <3>1. status[EntitlementOf[d]] # "ISSUED"
        BY <2>1 DEF ResultSpends
      <3>2. status'[EntitlementOf[d]] = status[EntitlementOf[d]]
        BY <1>1, <2>1
      <3> QED
        BY <3>1, <3>2
    <2>3. \A h \in Calls : EntitlementOf[h] = EntitlementOf[d] => pc[h] \notin Holding
      BY <2>1 DEF ResultSpends, AtRest, Holders
    <2> QED
      BY <1>2, <2>1, <2>2, <2>3
  <1>6. AtMostOneResult' /\ NewResultOnRecord'
    BY <1>2 DEF AtMostOneResult, NewResultOnRecord, OnRecord
  <1> QED
    BY <1>4, <1>5, <1>6

\* A database step of a holder: it writes only its own execution row, and a
\* result is handed out only by a commit that puts it on record.
LEMMA DbStepSafe ==
  ASSUME PipelineInv, ScanTypeOK', NEW c \in Calls, pc[c] \in Holding,
         NEW step, NEW next, NEW onThrow, onThrow # "ok",
         \/ DbStep(c, step, ReserveRows, next, onThrow) /\ next # "ok"
         \/ DbStep(c, step, MarkRow, next, onThrow) /\ next # "ok"
         \/ DbStep(c, step, PersistRows, next, onThrow) /\ next = "ok"
         \/ DbStep(c, step, FailRows, next, onThrow) /\ next # "ok"
  PROVE  PipelineInv'
  <1> DEFINE r == RequestOf[c]
             e == EntitlementOf[c]
  <1>1. r \in Requests /\ e \in Entitlements
    BY CallsAssumption
  <1>2. /\ \A d \in Calls : EntitlementOf[d] = e =>
              pc[d] # "ok" /\ (pc[d] \in Holding => d = c)
        /\ \A d \in Calls : pc[d] = "ok" => RequestOf[d] # r
    BY HolderAlone
  <1>3. \/ next # "ok" /\ Goto(c, next)
        \/ Goto(c, onThrow)
        \/ PersistRows(r, e) /\ next = "ok" /\ Goto(c, next)
    BY DEF DbStep
  <1>4. PICK to : Goto(c, to) /\ (to = "ok" => PersistRows(r, e))
    BY <1>3
  <1>5. UNCHANGED ledgerVars
    BY DEF DbStep
  <1>6. \A d \in Calls : pc'[d] = IF d = c THEN to ELSE pc[d]
    BY <1>4 DEF Goto, PipelineInv, ScanTypeOK
  <1>7. \A f \in Entitlements : Holders(f)' \subseteq Holders(f)
    BY <1>6 DEF Holders
  <1>8. OneHolder'
    BY <1>5, <1>7, CallsAssumption DEF PipelineInv, OneHolder, ledgerVars, Holders
  <1>9. \A d \in Calls : EntitlementOf[d] = e /\ pc'[d] \in Holding /\ to = "ok" => FALSE
    BY <1>2, <1>6 DEF Holding
  <1>10. ResultSpends'
    <2> SUFFICES ASSUME NEW d \in Calls, pc'[d] = "ok"
                 PROVE  /\ status'[EntitlementOf[d]] # "ISSUED"
                        /\ \A h \in Calls : EntitlementOf[h] = EntitlementOf[d] =>
                              pc'[h] \notin Holding
      BY DEF ResultSpends, AtRest, Holders
    <2>1. CASE d = c
      BY <1>5, <1>6, <1>9, <2>1, HolderAlone DEF ledgerVars
    <2>2. CASE d # c
      BY <1>5, <1>6, <1>7, <2>2, CallsAssumption
         DEF PipelineInv, ResultSpends, AtRest, Holders, ledgerVars
    <2> QED
      BY <2>1, <2>2
  <1>11. AtMostOneResult'
    BY <1>2, <1>6 DEF PipelineInv, AtMostOneResult
  <1>12. execRow \in [Requests -> ScanStatus \cup {"NONE"}]
    BY DEF PipelineInv, ScanTypeOK
  <1>13. \A q \in Requests : q # r => (OnRecord(q) => OnRecord(q)')
    <2>1. \/ ReserveRows(r, e) \/ MarkRow(r, e) \/ PersistRows(r, e) \/ FailRows(r, e)
          \/ UNCHANGED rowVars
      BY DEF DbStep
    <2> QED
      BY <1>1, <1>12, <2>1 DEF ReserveRows, MarkRow, PersistRows, FailRows, rowVars, OnRecord
  <1>14. to = "ok" => OnRecord(r)'
    BY <1>1, <1>12, <1>4 DEF PersistRows, OnRecord
  <1>15. NewResultOnRecord'
    BY <1>2, <1>6, CallsAssumption, <1>13, <1>14 DEF PipelineInv, NewResultOnRecord
  <1> QED
    BY <1>8, <1>10, <1>11, <1>15 DEF PipelineInv

\* Consuming: the ledger offers an entitlement only while no call holds it.
LEMMA ConsumeSafe ==
  ASSUME PipelineInv, ScanTypeOK', NEW c \in Calls, Consume(c)
  PROVE  PipelineInv'
  <1> DEFINE e == EntitlementOf[c]
  <1> USE CallsAssumption
      DEF PipelineInv, ScanTypeOK, Consume, Consumable, ConsumeInLedger, Goto, rowVars,
          Holding
  <1>1. \A d \in Calls : pc'[d] = IF d = c THEN "reserving" ELSE pc[d]
    OBVIOUS
  <1>2. \A d \in Calls : EntitlementOf[d] = e => pc[d] \notin Holding /\ pc[d] # "ok"
    BY DEF OneHolder, ResultSpends, Holders
  <1>3. OneHolder'
    BY <1>1, <1>2 DEF OneHolder, Holders
  <1>4. ResultSpends'
    BY <1>1, <1>2 DEF ResultSpends, AtRest, Holders
  <1>5. AtMostOneResult' /\ NewResultOnRecord'
    BY <1>1 DEF AtMostOneResult, NewResultOnRecord, OnRecord
  <1> QED
    BY <1>3, <1>4, <1>5

LEMMA RestartSafe ==
  ASSUME PipelineInv, ScanTypeOK', Restart
  PROVE  PipelineInv'
  <1> USE CallsAssumption
      DEF PipelineInv, ScanTypeOK, Restart, LoseMemory, rowVars, Holding
  <1>1. \A c \in Calls : pc'[c] \notin Holding /\ (pc'[c] = "ok" => pc[c] = "ok")
    OBVIOUS
  <1>2. OneHolder' /\ ResultSpends'
    BY <1>1 DEF OneHolder, ResultSpends, AtRest, Holders
  <1>3. AtMostOneResult' /\ NewResultOnRecord'
    BY <1>1 DEF AtMostOneResult, NewResultOnRecord, OnRecord
  <1> QED
    BY <1>2, <1>3

LEMMA StepSafe == PipelineInv /\ [ScanNext]_scanVars => PipelineInv'
  <1> SUFFICES ASSUME PipelineInv, [ScanNext]_scanVars PROVE PipelineInv'
    OBVIOUS
  <1>0. ScanTypeOK'
    BY StepTyped DEF PipelineInv
  <1>1. ASSUME NEW c \in Calls, CallStep(c) PROVE PipelineInv'
    <2>1. CASE Gate(c) \/ GateThrows(c) \/ Refuse(c)
      <3>1. PICK to \in {"reused", "gated", "threw", "refused"} :
               Goto(c, to) /\ UNCHANGED <<ledgerVars, rowVars>>
        BY <2>1 DEF Gate, GateThrows, Refuse
      <3> QED
        BY <1>0, <3>1, MoveSafe DEF Holding
    <2>2. CASE Produce(c) \/ ProduceNothing(c) \/ AcquireThrows(c)
      <3>1. PICK to \in {"persisting", "failing", "threw"} :
               Goto(c, to) /\ UNCHANGED <<ledgerVars, rowVars>>
        BY <2>2 DEF Produce, ProduceNothing, AcquireThrows
      <3>2. pc[c] \in Holding
        BY <2>2 DEF Produce, ProduceNothing, AcquireThrows, Holding
      <3> QED
        BY <1>0, <3>1, <3>2, MoveSafe
    <2>3. CASE Consume(c)
      BY <1>0, <2>3, ConsumeSafe
    <2>4. CASE UndoReserve(c) \/ Release(c)
      BY <1>0, <2>4, GiveBackSafe DEF UndoReserve, Release, Holding
    <2>5. CASE Reserve(c)
      BY <1>0, <2>5, DbStepSafe DEF Reserve, Holding
    <2>6. CASE Mark(c)
      BY <1>0, <2>6, DbStepSafe DEF Mark, Holding
    <2>7. CASE Persist(c)
      BY <1>0, <2>7, DbStepSafe DEF Persist, Holding
    <2>8. CASE RecordFailure(c)
      BY <1>0, <2>8, DbStepSafe DEF RecordFailure, Holding
    <2> QED
      BY <1>1, <2>1, <2>2, <2>3, <2>4, <2>5, <2>6, <2>7, <2>8 DEF CallStep
  <1>2. CASE Restart
    BY <1>0, <1>2, RestartSafe
  <1>3. CASE UNCHANGED scanVars
    BY <1>3 DEF PipelineInv, scanVars, ScanTypeOK, OneHolder, ResultSpends, AtRest,
                AtMostOneResult, NewResultOnRecord, OnRecord, Holders
  <1> QED
    BY <1>1, <1>2, <1>3 DEF ScanNext

LEMMA PipelineSafe == ScanSpec => []PipelineInv
  BY InitSafe, StepSafe, PTL DEF ScanSpec

\* The single-consumption gate excludes: one call at a time works on an
\* entitlement, and the ledger names its request.
THEOREM SingleConsumption == ScanSpec => []OneHolder
  <1>1. PipelineInv => OneHolder
    BY DEF PipelineInv
  <1> QED
    BY <1>1, PipelineSafe, PTL

\* One entitlement buys at most one successful scan, whatever fails.
THEOREM OneResultPerEntitlement == ScanSpec => []AtMostOneResult
  <1>1. PipelineInv => AtMostOneResult
    BY DEF PipelineInv
  <1> QED
    BY <1>1, PipelineSafe, PTL

\* A result handed out stays on record through lost commits and restarts.
THEOREM ResultsAreKept == ScanSpec => []NewResultOnRecord
  <1>1. PipelineInv => NewResultOnRecord
    BY DEF PipelineInv
  <1> QED
    BY <1>1, PipelineSafe, PTL

---------------------------------------------------------------------------
(* When only what the code catches goes wrong *)

\* Nothing throws but the steps inside a try, and no process dies: under these
\* faults the entitlement is never lost and the rows agree with the ledger.
HandledFaults ==
    /\ Throws \cap {"mark", "acquire", "fail"} = {}
    /\ LostAcks = {}
    /\ MaxRestarts = 0

\* The rows of an entitlement while a call holds it.
RowsInUse(c) ==
    /\ entRow[EntitlementOf[c]] = "ISSUED"
    /\ usageRow[EntitlementOf[c]] =
         IF pc[c] \in {"reserving", "reserveFailed", "releasing"} THEN NoRequest ELSE RequestOf[c]

EntitlementSound(e) ==
    /\ AtRest(e) => usageRow[e] = usage[e] /\ entRow[e] = status[e]
    /\ \A c \in Holders(e) : RowsInUse(c)
    /\ status[e] = "CONSUMED" => Delivered(e) \/ ~AtRest(e)

HasResult(r) == \E c \in Calls : pc[c] = "ok" /\ RequestOf[c] = r

HandledInv ==
    /\ PipelineInv
    /\ \A e \in Entitlements : EntitlementSound(e)
    /\ \A r \in Requests : execRow[r] = "COMPLETED" => HasResult(r)
    /\ \A c \in Calls : pc[c] = "reused" => HasResult(RequestOf[c])

LEMMA HandledInit == ScanInit => HandledInv
  <1> SUFFICES ASSUME ScanInit PROVE HandledInv
    OBVIOUS
  <1>1. \A c \in Calls : pc[c] = "idle"
    BY DEF ScanInit
  <1>2. \A e \in Entitlements : EntitlementSound(e)
    BY <1>1 DEF ScanInit, EntitlementSound, Holders, Holding
  <1> QED
    BY <1>1, <1>2, InitSafe DEF ScanInit, HandledInv

\* A call's step leaves the entitlements of other calls as they are.
LEMMA OthersSound ==
  ASSUME ScanTypeOK, NEW c \in Calls, NEW to, Goto(c, to),
         NEW e \in Entitlements, e # EntitlementOf[c], EntitlementSound(e),
         status'[e] = status[e], usage'[e] = usage[e],
         entRow'[e] = entRow[e], usageRow'[e] = usageRow[e]
  PROVE  EntitlementSound(e)'
  <1>1. \A d \in Calls : EntitlementOf[d] = e => pc'[d] = pc[d]
    BY DEF Goto, ScanTypeOK
  <1>2. \A d \in Calls : EntitlementOf[d] = e /\ RowsInUse(d) => RowsInUse(d)'
    BY <1>1 DEF RowsInUse
  <1> QED
    BY <1>1, <1>2 DEF EntitlementSound, Holders, AtRest, Delivered

\* A result, once handed out, stays with its call; a step that completes no
\* execution keeps what is known of results.
LEMMA ResultsStay ==
  ASSUME ScanTypeOK, NEW c \in Calls, NEW to, Goto(c, to), pc[c] # "ok",
         NEW r \in Requests, HasResult(r)
  PROVE  HasResult(r)'
  BY DEF HasResult, Goto, ScanTypeOK

\* A holder moves, and writes the rows of its entitlement as its place calls for.
LEMMA HolderMoves ==
  ASSUME HandledInv, NEW c \in Calls, pc[c] \in Holding, NEW to \in Holding, Goto(c, to),
         UNCHANGED ledgerVars, RowsInUse(c)',
         \A e \in Entitlements : e # EntitlementOf[c] =>
             entRow'[e] = entRow[e] /\ usageRow'[e] = usageRow[e]
  PROVE  \A e \in Entitlements : EntitlementSound(e)'
  <1> SUFFICES ASSUME NEW e \in Entitlements PROVE EntitlementSound(e)'
    OBVIOUS
  <1>0. ScanTypeOK /\ EntitlementSound(e)
    BY DEF HandledInv, PipelineInv
  <1>1. CASE e # EntitlementOf[c]
    BY <1>0, <1>1, OthersSound DEF ledgerVars
  <1>2. CASE e = EntitlementOf[c]
    <2>1. pc'[c] = to /\ \A d \in Calls : d # c => pc'[d] = pc[d]
      BY <1>0 DEF Goto, ScanTypeOK
    <2>2. \A d \in Calls : EntitlementOf[d] = e /\ pc[d] \in Holding => d = c
      BY <1>2, HolderAlone DEF HandledInv
    <2>3. Holders(e)' = {c}
      BY <1>2, <2>1, <2>2 DEF Holders
    <2> QED
      BY <2>3 DEF EntitlementSound, AtRest
  <1> QED
    BY <1>1, <1>2

\* A call that neither holds an entitlement nor comes to hold one moves.
LEMMA IdleMoves ==
  ASSUME HandledInv, NEW c \in Calls, pc[c] \notin Holding, pc[c] # "ok",
         NEW to, to \notin Holding, Goto(c, to), UNCHANGED <<ledgerVars, rowVars>>
  PROVE  \A e \in Entitlements : EntitlementSound(e)'
  <1> SUFFICES ASSUME NEW e \in Entitlements PROVE EntitlementSound(e)'
    OBVIOUS
  <1>0. ScanTypeOK /\ EntitlementSound(e)
    BY DEF HandledInv, PipelineInv
  <1>1. pc'[c] = to /\ \A d \in Calls : d # c => pc'[d] = pc[d]
    BY <1>0 DEF Goto, ScanTypeOK
  <1>2. Holders(e)' = Holders(e) /\ (Delivered(e) => Delivered(e)')
    BY <1>1 DEF Holders, Delivered
  <1>3. \A d \in Calls : pc[d] \in Holding /\ RowsInUse(d) => RowsInUse(d)'
    BY <1>1 DEF RowsInUse, rowVars
  <1> QED
    BY <1>0, <1>2, <1>3 DEF EntitlementSound, AtRest, Holders, ledgerVars, rowVars

LEMMA ConsumeSound ==
  ASSUME HandledInv, NEW c \in Calls, Consume(c)
  PROVE  \A e \in Entitlements : EntitlementSound(e)'
  <1> DEFINE f == EntitlementOf[c]
  <1>0. /\ ScanTypeOK /\ f \in Entitlements /\ Goto(c, "reserving") /\ UNCHANGED rowVars
        /\ status' = [status EXCEPT ![f] = "CONSUMED"]
        /\ usage' = [usage EXCEPT ![f] = RequestOf[c]]
        /\ status[f] = "ISSUED" /\ usage[f] = NoRequest /\ pc[c] = "gated"
    BY CallsAssumption DEF HandledInv, PipelineInv, Consume, Consumable, ConsumeInLedger
  <1>1. pc'[c] = "reserving" /\ \A d \in Calls : d # c => pc'[d] = pc[d]
    BY <1>0 DEF Goto, ScanTypeOK
  <1>2. AtRest(f)
    BY <1>0 DEF HandledInv, PipelineInv, OneHolder, AtRest
  <1>3. usageRow[f] = NoRequest /\ entRow[f] = "ISSUED"
    BY <1>0, <1>2 DEF HandledInv, EntitlementSound
  <1>4. Holders(f)' = {c}
    BY <1>1, <1>2 DEF AtRest, Holders, Holding
  <1>5. RowsInUse(c)'
    BY <1>0, <1>1, <1>3 DEF RowsInUse, rowVars
  <1>6. EntitlementSound(f)'
    BY <1>4, <1>5 DEF EntitlementSound, AtRest
  <1>7. ASSUME NEW e \in Entitlements, e # f PROVE EntitlementSound(e)'
    <2>1. /\ status'[e] = status[e] /\ usage'[e] = usage[e]
          /\ entRow'[e] = entRow[e] /\ usageRow'[e] = usageRow[e]
      BY <1>0, <1>7 DEF ScanTypeOK, rowVars
    <2> QED
      BY <1>0, <1>7, <2>1, OthersSound DEF HandledInv
  <1> QED
    BY <1>6, <1>7

\* A database step that does not end the call.
LEMMA WriteSound ==
  ASSUME HandledInv, HandledFaults, NEW c \in Calls,
         Reserve(c) \/ Mark(c) \/ RecordFailure(c) \/ (Persist(c) /\ UNCHANGED rowVars)
  PROVE  (\A e \in Entitlements : EntitlementSound(e)') /\ pc'[c] \in Holding
  <1> DEFINE r == RequestOf[c]
             e == EntitlementOf[c]
  <1>0. ScanTypeOK /\ r \in Requests /\ e \in Entitlements /\ r # NoRequest
    BY CallsAssumption DEF HandledInv, PipelineInv
  <1>1. pc[c] \in Holding /\ UNCHANGED ledgerVars
    BY DEF Reserve, Mark, RecordFailure, Persist, DbStep, Holding
  <1>2. RowsInUse(c)
    BY <1>0, <1>1 DEF HandledInv, EntitlementSound, Holders
  <1>3. CASE Reserve(c)
    <2>1. \/ ReserveRows(r, e) /\ Goto(c, "reserved")
          \/ UNCHANGED rowVars /\ Goto(c, "reserveFailed")
      BY <1>3 DEF Reserve, DbStep, HandledFaults
    <2>2. PICK to \in {"reserved", "reserveFailed"} : Goto(c, to) /\ pc'[c] = to
      BY <1>0, <2>1 DEF Goto, ScanTypeOK
    <2>3. pc[c] = "reserving"
      BY <1>3 DEF Reserve
    <2>4. /\ RowsInUse(c)'
          /\ \A f \in Entitlements : f # e => entRow'[f] = entRow[f] /\ usageRow'[f] = usageRow[f]
      BY <1>0, <1>2, <2>1, <2>3 DEF RowsInUse, ReserveRows, rowVars, Goto, ScanTypeOK
    <2>5. to \in Holding
      BY DEF Holding
    <2> QED
      BY <1>1, <2>2, <2>4, <2>5, HolderMoves
  <1>4. CASE Mark(c)
    <2>1. MarkRow(r, e) /\ Goto(c, "executing") /\ pc[c] = "reserved"
      BY <1>4 DEF Mark, DbStep, HandledFaults
    <2>2. pc'[c] = "executing" /\ "executing" \in Holding
      BY <1>0, <2>1 DEF Goto, ScanTypeOK, Holding
    <2>3. RowsInUse(c)' /\ UNCHANGED <<entRow, usageRow>>
      BY <1>2, <2>1, <2>2 DEF RowsInUse, MarkRow
    <2> QED
      BY <1>1, <2>1, <2>2, <2>3, HolderMoves
  <1>5. CASE RecordFailure(c)
    <2>1. FailRows(r, e) /\ Goto(c, "releasing") /\ pc[c] = "failing"
      BY <1>5 DEF RecordFailure, DbStep, HandledFaults
    <2>2. pc'[c] = "releasing" /\ "releasing" \in Holding
      BY <1>0, <2>1 DEF Goto, ScanTypeOK, Holding
    <2>3. /\ RowsInUse(c)'
          /\ \A f \in Entitlements : f # e => entRow'[f] = entRow[f] /\ usageRow'[f] = usageRow[f]
      BY <1>0, <2>1, <2>2 DEF RowsInUse, FailRows, ScanTypeOK
    <2> QED
      BY <1>1, <2>1, <2>2, <2>3, HolderMoves
  <1>6. CASE Persist(c) /\ UNCHANGED rowVars
    <2>1. Goto(c, "failing") \/ (Goto(c, "ok") /\ PersistRows(r, e))
      BY <1>6 DEF Persist, DbStep, HandledFaults
    <2>2. ~PersistRows(r, e)
      <3>1. entRow[e] = "ISSUED"
        BY <1>2 DEF RowsInUse
      <3> QED
        BY <1>0, <1>6, <3>1 DEF PersistRows, rowVars, ScanTypeOK
    <2>3. Goto(c, "failing") /\ pc'[c] = "failing" /\ "failing" \in Holding /\ pc[c] = "persisting"
      BY <1>0, <1>6, <2>1, <2>2 DEF Goto, ScanTypeOK, Holding, Persist
    <2>4. RowsInUse(c)' /\ UNCHANGED <<entRow, usageRow>>
      BY <1>2, <1>6, <2>3 DEF RowsInUse, rowVars
    <2> QED
      BY <1>1, <2>3, <2>4, HolderMoves
  <1> QED
    BY <1>3, <1>4, <1>5, <1>6

\* The call that held an entitlement is done with it: delivered or given back,
\* and the rows say the same.
LEMMA HolderEnds ==
  ASSUME HandledInv, NEW c \in Calls, pc[c] \in Holding, NEW to \in {"ok", "failed"}, Goto(c, to),
         usageRow'[EntitlementOf[c]] = usage'[EntitlementOf[c]],
         entRow'[EntitlementOf[c]] = status'[EntitlementOf[c]],
         to = "failed" => status'[EntitlementOf[c]] = "ISSUED",
         \A e \in Entitlements : e # EntitlementOf[c] =>
             /\ entRow'[e] = entRow[e] /\ usageRow'[e] = usageRow[e]
             /\ status'[e] = status[e] /\ usage'[e] = usage[e]
  PROVE  \A e \in Entitlements : EntitlementSound(e)'
  <1> SUFFICES ASSUME NEW e \in Entitlements PROVE EntitlementSound(e)'
    OBVIOUS
  <1>0. ScanTypeOK /\ EntitlementSound(e)
    BY DEF HandledInv, PipelineInv
  <1>1. CASE e # EntitlementOf[c]
    BY <1>0, <1>1, OthersSound
  <1>2. CASE e = EntitlementOf[c]
    <2>1. pc'[c] = to /\ \A d \in Calls : d # c => pc'[d] = pc[d]
      BY <1>0 DEF Goto, ScanTypeOK
    <2>2. \A d \in Calls : EntitlementOf[d] = e /\ pc[d] \in Holding => d = c
      BY <1>2, HolderAlone DEF HandledInv
    <2>3. Holders(e)' = {}
      BY <1>2, <2>1, <2>2 DEF Holders, Holding
    <2>4. to = "ok" => Delivered(e)'
      BY <1>2, <2>1 DEF Delivered
    <2> QED
      BY <1>2, <2>3, <2>4 DEF EntitlementSound, AtRest
  <1> QED
    BY <1>1, <1>2

LEMMA EndSound ==
  ASSUME HandledInv, HandledFaults, NEW c \in Calls,
         UndoReserve(c) \/ Release(c) \/ (Persist(c) /\ ~UNCHANGED rowVars)
  PROVE  \A e \in Entitlements : EntitlementSound(e)'
  <1> DEFINE r == RequestOf[c]
             e == EntitlementOf[c]
  <1>0. ScanTypeOK /\ r \in Requests /\ e \in Entitlements
    BY CallsAssumption DEF HandledInv, PipelineInv
  <1>1. pc[c] \in Holding
    BY DEF UndoReserve, Release, Persist, Holding
  <1>2. RowsInUse(c)
    BY <1>0, <1>1 DEF HandledInv, EntitlementSound, Holders
  <1>3. status[e] = "CONSUMED" /\ usage[e] = r
    BY <1>1, HolderAlone DEF HandledInv
  <1>4. CASE UndoReserve(c) \/ Release(c)
    <2>1. /\ status' = [status EXCEPT ![e] = "ISSUED"]
          /\ usage' = [usage EXCEPT ![e] = NoRequest]
          /\ Goto(c, "failed") /\ UNCHANGED rowVars /\ pc[c] \in {"reserveFailed", "releasing"}
      BY <1>3, <1>4 DEF UndoReserve, Release, ReleaseIfUnused
    <2>2. usageRow[e] = NoRequest /\ entRow[e] = "ISSUED"
      BY <1>2, <2>1 DEF RowsInUse
    <2>3. /\ usageRow'[e] = usage'[e] /\ entRow'[e] = status'[e] /\ status'[e] = "ISSUED"
          /\ \A f \in Entitlements : f # e =>
               /\ entRow'[f] = entRow[f] /\ usageRow'[f] = usageRow[f]
               /\ status'[f] = status[f] /\ usage'[f] = usage[f]
      BY <1>0, <2>1, <2>2 DEF rowVars, ScanTypeOK
    <2> QED
      BY <1>1, <2>1, <2>3, HolderEnds
  <1>5. CASE Persist(c) /\ ~UNCHANGED rowVars
    <2>1. PersistRows(r, e) /\ Goto(c, "ok") /\ UNCHANGED ledgerVars /\ pc[c] = "persisting"
      BY <1>5 DEF Persist, DbStep, HandledFaults
    <2>2. usageRow[e] = r
      BY <1>2, <2>1 DEF RowsInUse
    <2>3. /\ usageRow'[e] = usage'[e] /\ entRow'[e] = status'[e]
          /\ \A f \in Entitlements : f # e =>
               /\ entRow'[f] = entRow[f] /\ usageRow'[f] = usageRow[f]
               /\ status'[f] = status[f] /\ usage'[f] = usage[f]
      BY <1>0, <1>3, <2>1, <2>2 DEF PersistRows, ledgerVars, ScanTypeOK
    <2> QED
      BY <1>1, <2>1, <2>3, HolderEnds
  <1> QED
    BY <1>4, <1>5

LEMMA SoundStep ==
  ASSUME HandledInv, HandledFaults, NEW c \in Calls, CallStep(c)
  PROVE  \A e \in Entitlements : EntitlementSound(e)'
  <1>0. ScanTypeOK
    BY DEF HandledInv, PipelineInv
  <1>1. CASE Gate(c) \/ GateThrows(c) \/ Refuse(c)
    <2>1. PICK to \in {"reused", "gated", "threw", "refused"} :
             /\ Goto(c, to) /\ UNCHANGED <<ledgerVars, rowVars>>
             /\ pc[c] \in {"idle", "gated"}
      BY <1>1 DEF Gate, GateThrows, Refuse
    <2>2. pc[c] \notin Holding /\ pc[c] # "ok" /\ to \notin Holding
      BY <2>1 DEF Holding
    <2> QED
      BY <2>1, <2>2, IdleMoves
  <1>2. CASE Produce(c) \/ ProduceNothing(c) \/ AcquireThrows(c)
    <2>1. PICK to \in {"persisting", "failing"} :
             /\ Goto(c, to) /\ UNCHANGED <<ledgerVars, rowVars>> /\ pc[c] = "executing"
      BY <1>2 DEF Produce, ProduceNothing, AcquireThrows, HandledFaults
    <2>2. pc[c] \in Holding /\ to \in Holding /\ pc'[c] = to
      BY <1>0, <2>1 DEF Holding, Goto, ScanTypeOK
    <2>3. RowsInUse(c)
      BY <2>2, CallsAssumption DEF HandledInv, EntitlementSound, Holders
    <2>4. RowsInUse(c)' /\ UNCHANGED <<entRow, usageRow>>
      BY <2>1, <2>2, <2>3 DEF RowsInUse, rowVars
    <2> QED
      BY <2>1, <2>2, <2>4, HolderMoves
  <1> QED
    BY <1>1, <1>2, ConsumeSound, WriteSound, EndSound DEF CallStep

\* What is known of results: only a delivering call completes an execution.
LEMMA ResultStep ==
  ASSUME HandledInv, HandledFaults, NEW c \in Calls, CallStep(c)
  PROVE  /\ \A r \in Requests : execRow'[r] = "COMPLETED" => HasResult(r)'
         /\ \A d \in Calls : pc'[d] = "reused" => HasResult(RequestOf[d])'
  <1>0. ScanTypeOK /\ RequestOf \in [Calls -> Requests]
    BY CallsAssumption DEF HandledInv, PipelineInv
  <1>1. pc[c] # "ok"
    BY DEF CallStep, Gate, GateThrows, Consume, Refuse, Reserve, UndoReserve, Mark, Produce,
           ProduceNothing, AcquireThrows, Persist, RecordFailure, Release
  <1>2. PICK to : Goto(c, to)
    BY DEF CallStep, Gate, GateThrows, Consume, Refuse, Reserve, UndoReserve, Mark, Produce,
           ProduceNothing, AcquireThrows, Persist, RecordFailure, Release, DbStep
  <1>3. \A r \in Requests : HasResult(r) => HasResult(r)'
    BY <1>0, <1>1, <1>2, ResultsStay
  <1>4. pc'[c] = to /\ \A d \in Calls : d # c => pc'[d] = pc[d]
    BY <1>0, <1>2 DEF Goto, ScanTypeOK
  <1>5. CASE Persist(c)
    <2>1. \/ UNCHANGED execRow
          \/ pc'[c] = "ok" /\ execRow' = [execRow EXCEPT ![RequestOf[c]] = "COMPLETED"]
      BY <1>0, <1>5 DEF HandledFaults, Persist, DbStep, PersistRows, rowVars, Goto, ScanTypeOK
    <2>2. pc'[c] # "reused"
      BY <1>0, <1>5 DEF Persist, DbStep, Goto, ScanTypeOK
    <2>3. pc'[c] = "ok" => HasResult(RequestOf[c])'
      BY DEF HasResult
    <2>4. \A r \in Requests : execRow'[r] = "COMPLETED" => HasResult(r)'
      BY <1>0, <1>3, <2>1, <2>3 DEF HandledInv, ScanTypeOK
    <2>5. \A d \in Calls : pc'[d] = "reused" => HasResult(RequestOf[d])'
      BY <1>0, <1>3, <1>4, <2>2 DEF HandledInv
    <2> QED
      BY <2>4, <2>5
  <1>6. CASE ~Persist(c)
    <2>1. \A r \in Requests : execRow'[r] = "COMPLETED" => execRow[r] = "COMPLETED"
      <3>1. \/ UNCHANGED execRow
            \/ \E x \in {"RESERVED", "EXECUTING", "FAILED"} :
                 execRow' = [execRow EXCEPT ![RequestOf[c]] = x]
            \/ execRow' = [execRow EXCEPT ![RequestOf[c]] = IF @ = "NONE" THEN "RESERVED" ELSE @]
        BY <1>6 DEF CallStep, Gate, GateThrows, Consume, Refuse, Reserve, UndoReserve, Mark,
                    Produce, ProduceNothing, AcquireThrows, RecordFailure, Release, DbStep,
                    ReserveRows, MarkRow, FailRows, rowVars
      <3> QED
        BY <1>0, <3>1 DEF ScanTypeOK
    <2>2. pc'[c] = "reused" => execRow[RequestOf[c]] = "COMPLETED"
      <3>1. pc'[c] = "reused" => Gate(c)
        BY <1>0, <1>6 DEF CallStep, GateThrows, Consume, Refuse, Reserve, UndoReserve, Mark,
                    Produce, ProduceNothing, AcquireThrows, RecordFailure, Release, DbStep,
                    Goto, ScanTypeOK
      <3> QED
        BY <1>0, <3>1 DEF Gate, Goto, ScanTypeOK
    <2>3. \A d \in Calls : pc'[d] = "reused" => HasResult(RequestOf[d])'
      BY <1>0, <1>3, <1>4, <2>2 DEF HandledInv
    <2> QED
      BY <1>3, <2>1, <2>3 DEF HandledInv
  <1> QED
    BY <1>5, <1>6

LEMMA HandledStep == HandledFaults /\ HandledInv /\ [ScanNext]_scanVars => HandledInv'
  <1> SUFFICES ASSUME HandledFaults, HandledInv, [ScanNext]_scanVars PROVE HandledInv'
    OBVIOUS
  <1>1. PipelineInv'
    BY StepSafe DEF HandledInv
  <1>2. ASSUME NEW c \in Calls, CallStep(c) PROVE HandledInv'
    BY <1>1, <1>2, SoundStep, ResultStep DEF HandledInv
  <1>3. ~Restart
    BY DEF Restart, HandledFaults, HandledInv, PipelineInv, ScanTypeOK
  <1>4. CASE UNCHANGED scanVars
    <2>1. \A e \in Entitlements : EntitlementSound(e)'
      BY <1>4 DEF HandledInv, EntitlementSound, AtRest, Holders, RowsInUse, Delivered, scanVars
    <2> QED
      BY <1>1, <1>4, <2>1 DEF HandledInv, HasResult, scanVars
  <1> QED
    BY <1>2, <1>3, <1>4 DEF ScanNext

LEMMA HandledSafe ==
  ASSUME HandledFaults
  PROVE  ScanSpec => []HandledInv
  <1>1. HandledInv /\ [ScanNext]_scanVars => HandledInv'
    BY HandledStep
  <1> QED
    BY <1>1, HandledInit, PTL DEF ScanSpec

\* "A failed capability run must NOT silently consume the entitlement"
\* (entitlement.ts): while only what the code catches goes wrong, whatever was
\* consumed delivered or is being worked on.
THEOREM NothingSilentlyConsumed ==
  ASSUME HandledFaults
  PROVE  ScanSpec => []NoSilentConsumption
  <1>1. HandledInv => NoSilentConsumption
    BY DEF HandledInv, EntitlementSound, NoSilentConsumption
  <1> QED
    BY <1>1, HandledSafe, PTL

\* The rows agree with the ledger whenever no call is between its two writes.
THEOREM RowsAgree ==
  ASSUME HandledFaults
  PROVE  ScanSpec => []RowsMirrorLedger
  <1>1. HandledInv => RowsMirrorLedger
    BY DEF HandledInv, EntitlementSound, RowsMirrorLedger
  <1> QED
    BY <1>1, HandledSafe, PTL

\* Every report that was handed out, new or existing, is on record.
THEOREM ResultsOnRecord ==
  ASSUME HandledFaults
  PROVE  ScanSpec => []ResultOnRecord
  <1>1. HandledInv => ResultOnRecord
    BY DEF HandledInv, PipelineInv, NewResultOnRecord, ResultOnRecord, HasResult
  <1> QED
    BY <1>1, HandledSafe, PTL
=============================================================================
