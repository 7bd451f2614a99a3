--------------------------- MODULE XdslLineProofs ---------------------------
(***************************************************************************)
(* Theorems about XdslLine for every number of callers, threads, helpers   *)
(* and rows, every driver behaviour and every set of failing calls that    *)
(* the statement admits.                                                   *)
(***************************************************************************)
EXTENDS XdslLine, TLAPS

(* Typing.  The actions fall into those of the callers and the HAL, those   *)
(* of the state machine threads and those of the helpers; one lemma each.   *)

LEMMA InitTypeOK == Init => TypeOK
<1> SUFFICES ASSUME Init PROVE TypeOK
  OBVIOUS
<1> USE LineConstants DEF Init
<1>1. line \in LineRecord
  BY DEF LineRecord, IfNames, WanStates, LinkStates
<1>2. helper \in [Helpers -> HelperRecord]
  BY DEF FreeHelper, HelperRecord, HelperPCs, Tables
<1>3. rows \in [Links -> RowRecord]
  BY DEF NoEntry, RowRecord
<1>4. /\ dmlUpstream \in BOOLEAN
      /\ caller \in [Callers -> [pc : {"idle", "check"},
                                 tid : Threads \cup {NoThread}]]
      /\ pc \in [Threads -> PCs]
      /\ smState \in [Threads -> SmStates]
      /\ priv \in [Threads -> IfNames \cup {"freed"}]
      /\ wanLink \in {"none", "Up", "Down"}
  BY DEF PCs, SmStates
<1> QED
  BY <1>1, <1>2, <1>3, <1>4 DEF TypeOK

LEMMA CallerTypeOK ==
  ASSUME TypeOK, NEW c \in Callers,
         \/ \E v \in BOOLEAN : SetUpstream(c, v)
         \/ \E w \in WanStates : SetWanStatus(c, w)
         \/ CallerStep(c)
  PROVE  TypeOK'
<1> USE LineConstants DEF TypeOK, smVars, LineRecord, IfNames, WanStates
<1>1. ASSUME NEW v \in BOOLEAN, SetUpstream(c, v) PROVE TypeOK'
  BY <1>1 DEF SetUpstream
<1>2. ASSUME NEW w \in WanStates, SetWanStatus(c, w) PROVE TypeOK'
  BY <1>2 DEF SetWanStatus
<1>4. CASE RecheckThread(c)
  BY <1>4 DEF RecheckThread
<1>5. CASE GiveUp(c)
  BY <1>5 DEF GiveUp
<1>6. CASE StartStateMachine(c)
  BY <1>6 DEF StartStateMachine, PCs, SmStates
<1> QED
  BY <1>1, <1>2, <1>4, <1>5, <1>6 DEF CallerStep

LEMMA ThreadTypeOK ==
  ASSUME TypeOK, NEW t \in Threads, ThreadStep(t)
  PROVE  TypeOK'
<1> USE LineConstants DEF TypeOK, smVars, Goto, Terminate
<1>1. CASE LookupToPublish(t)
  BY <1>1 DEF LookupToPublish, PCs
<1>2. CASE PublishTid(t)
  BY <1>2 DEF PublishTid, PCs, LineRecord
<1>3. ASSUME NEW s \in Standards, QueryStandard(t, s) PROVE TypeOK'
  BY <1>3 DEF QueryStandard, PCs, SmStates, LineRecord
<1>4. CASE QueryExhausted(t)
  BY <1>4 DEF QueryExhausted, PCs, SmStates
<1>5. CASE StateDisconnected(t)
  BY <1>5 DEF StateDisconnected, PCs, SmStates
<1>6. CASE StateTraining(t)
  BY <1>6 DEF StateTraining, PCs, SmStates
<1>7. CASE XtmSetAdslWanUp(t)
  BY <1>7 DEF XtmSetAdslWanUp, PCs, LineRecord, WanStates
<1>8. CASE StateXtmConfiguring(t)
  BY <1>8 DEF StateXtmConfiguring, PCs, SmStates
<1>9. CASE StateWanLinkUp(t)
  BY <1>9 DEF StateWanLinkUp, PCs, SmStates
<1>10. ASSUME NEW job \in {"create", "delete"}, SpawnHelper(t, job)
       PROVE  helper' \in [Helpers -> HelperRecord]
  BY <1>10 DEF SpawnHelper, FreeHelper, HelperRecord, HelperPCs, Tables
<1>11. CASE TransitionTrained(t)
  BY <1>10, <1>11 DEF TransitionTrained, PCs, SmStates
<1>12. CASE TransitionPhyInterfaceDown(t)
  BY <1>10, <1>12 DEF TransitionPhyInterfaceDown, PCs, SmStates
<1>13. CASE BeginWait(t)
  BY <1>13 DEF BeginWait, PCs, SmStates
<1>14. CASE WaitTimedOut(t)
  BY <1>14 DEF WaitTimedOut, Resume, PCs, SmStates
<1>15. CASE TransitionWanLinkUp(t)
  BY <1>15 DEF TransitionWanLinkUp, SetWanLinkStatus, PCs, SmStates
<1>16. CASE NotifyWanDown(t)
  BY <1>16 DEF NotifyWanDown, SetWanLinkStatus, PCs, SmStates
<1>17. CASE LeaveLoop(t)
  BY <1>17 DEF LeaveLoop, PCs, SmStates
<1>18. CASE LookupToClear(t)
  BY <1>18 DEF LookupToClear, PCs, SmStates
<1>19. CASE ClearTid(t)
  BY <1>19 DEF ClearTid, PCs, SmStates, LineRecord
<1> QED
  BY <1>1, <1>2, <1>3, <1>4, <1>5, <1>6, <1>7, <1>8, <1>9, <1>11, <1>12,
     <1>13, <1>14, <1>15, <1>16, <1>17, <1>18, <1>19 DEF ThreadStep

\* What the helpers write into their records keeps the type.
LEMMA HelperFields ==
  ASSUME NEW f \in [Helpers -> HelperRecord], NEW h \in Helpers
  PROVE  /\ \A p \in HelperPCs :
               [f EXCEPT ![h].pc = p] \in [Helpers -> HelperRecord]
         /\ \A tb \in Tables :
               [f EXCEPT ![h].table = tb] \in [Helpers -> HelperRecord]
         /\ \A ll \in BOOLEAN :
               [f EXCEPT ![h].ll = ll] \in [Helpers -> HelperRecord]
         /\ \A r \in Nat :
               [f EXCEPT ![h].row = r] \in [Helpers -> HelperRecord]
<1>1. ASSUME NEW p \in HelperPCs
      PROVE  [f EXCEPT ![h].pc = p] \in [Helpers -> HelperRecord]
  BY DEF HelperRecord
<1>2. ASSUME NEW tb \in Tables
      PROVE  [f EXCEPT ![h].table = tb] \in [Helpers -> HelperRecord]
  BY DEF HelperRecord
<1>3. ASSUME NEW ll \in BOOLEAN
      PROVE  [f EXCEPT ![h].ll = ll] \in [Helpers -> HelperRecord]
  BY DEF HelperRecord
<1>4. ASSUME NEW r \in Nat
      PROVE  [f EXCEPT ![h].row = r] \in [Helpers -> HelperRecord]
  BY DEF HelperRecord
<1> QED
  BY <1>1, <1>2, <1>3, <1>4

LEMMA HelperWrites ==
  ASSUME helper \in [Helpers -> HelperRecord], NEW h \in Helpers,
         NEW p \in HelperPCs
  PROVE  /\ [helper EXCEPT ![h].pc = p] \in [Helpers -> HelperRecord]
         /\ \A tb \in Tables :
               [helper EXCEPT ![h].pc = p, ![h].table = tb]
                   \in [Helpers -> HelperRecord]
         /\ \A ll \in BOOLEAN :
               [helper EXCEPT ![h].pc = p, ![h].ll = ll]
                   \in [Helpers -> HelperRecord]
         /\ \A r \in Nat :
               [helper EXCEPT ![h].pc = p, ![h].row = r]
                   \in [Helpers -> HelperRecord]
         /\ \A ll \in BOOLEAN, r \in Nat :
               [helper EXCEPT ![h].pc = p, ![h].ll = ll, ![h].row = r]
                   \in [Helpers -> HelperRecord]
<1> DEFINE moved   == [helper EXCEPT ![h].pc = p]
           told(ll) == [moved EXCEPT ![h].ll = ll]
<1>1. moved \in [Helpers -> HelperRecord]
  BY HelperFields
<1>2. ASSUME NEW tb \in Tables
      PROVE  [helper EXCEPT ![h].pc = p, ![h].table = tb]
                 \in [Helpers -> HelperRecord]
  <2>1. [moved EXCEPT ![h].table = tb] \in [Helpers -> HelperRecord]
    <3> HIDE DEF moved
    <3> QED
      BY <1>1, HelperFields
  <2> QED
    BY <2>1
<1>3. ASSUME NEW ll \in BOOLEAN
      PROVE  told(ll) \in [Helpers -> HelperRecord]
  <2> HIDE DEF moved
  <2> QED
    BY <1>1, HelperFields
<1>4. ASSUME NEW r \in Nat
      PROVE  [helper EXCEPT ![h].pc = p, ![h].row = r]
                 \in [Helpers -> HelperRecord]
  <2>1. [moved EXCEPT ![h].row = r] \in [Helpers -> HelperRecord]
    <3> HIDE DEF moved
    <3> QED
      BY <1>1, HelperFields
  <2> QED
    BY <2>1
<1>5. ASSUME NEW ll \in BOOLEAN, NEW r \in Nat
      PROVE  [helper EXCEPT ![h].pc = p, ![h].ll = ll, ![h].row = r]
                 \in [Helpers -> HelperRecord]
  <2>1. [told(ll) EXCEPT ![h].row = r] \in [Helpers -> HelperRecord]
    <3> HIDE DEF told
    <3> QED
      BY <1>3, HelperFields
  <2> QED
    BY <2>1
<1> QED
  BY <1>1, <1>2, <1>3, <1>4, <1>5

LEMMA HelperMoves ==
  ASSUME TypeOK, NEW h \in Helpers,
         \/ ReadStandard(h) \/ FindRow(h) \/ AddRow(h)
         \/ ConfigureRow(h) \/ DisableRow(h) \/ DeleteRow(h)
  PROVE  helper' \in [Helpers -> HelperRecord]
<1>1. helper \in [Helpers -> HelperRecord]
  BY DEF TypeOK
<1>2. ASSUME NEW p \in HelperPCs, MoveHelper(h, p)
      PROVE  helper' \in [Helpers -> HelperRecord]
  BY <1>1, <1>2, HelperWrites DEF MoveHelper
<1>3. CASE ReadStandard(h)
  <2>1. \/ \E tb \in Tables :
              helper' = [helper EXCEPT ![h].pc = "find", ![h].table = tb]
        \/ MoveHelper(h, "signal")
    BY <1>3 DEF ReadStandard, Tables
  <2>2. ASSUME NEW tb \in Tables,
               helper' = [helper EXCEPT ![h].pc = "find", ![h].table = tb]
        PROVE  helper' \in [Helpers -> HelperRecord]
    BY <1>1, <2>2, HelperWrites DEF HelperPCs
  <2> QED
    BY <1>2, <2>1, <2>2 DEF HelperPCs
<1>4. CASE FindRow(h)
  <2>1. KnownToHelper(h) \subseteq BOOLEAN
    BY DEF KnownToHelper, Known
  <2>2. \E ll \in BOOLEAN :
           \/ \E r \in Nat, p \in {"configure", "disable"} :
                 helper' = [helper EXCEPT ![h].pc = p, ![h].ll = ll, ![h].row = r]
           \/ \E p \in {"add", "signal"} :
                 helper' = [helper EXCEPT ![h].pc = p, ![h].ll = ll]
    <3>1. \A r \in Rows : LastDigit(r) \in Nat
      BY LineConstants DEF LastDigit
    <3> QED
      BY <1>4, <2>1, <3>1 DEF FindRow, Matching
  <2>3. ASSUME NEW ll \in BOOLEAN, NEW r \in Nat,
               NEW p \in {"configure", "disable"},
               helper' = [helper EXCEPT ![h].pc = p, ![h].ll = ll, ![h].row = r]
        PROVE  helper' \in [Helpers -> HelperRecord]
    <3>1. p \in HelperPCs
      BY DEF HelperPCs
    <3> QED
      BY <1>1, <2>3, <3>1, HelperWrites
  <2>4. ASSUME NEW ll \in BOOLEAN, NEW p \in {"add", "signal"},
               helper' = [helper EXCEPT ![h].pc = p, ![h].ll = ll]
        PROVE  helper' \in [Helpers -> HelperRecord]
    <3>1. p \in HelperPCs
      BY DEF HelperPCs
    <3> QED
      BY <1>1, <2>4, <3>1, HelperWrites
  <2> QED
    BY <2>2, <2>3, <2>4
<1>5. CASE AddRow(h)
  <2>1. \/ \E r \in Rows :
              helper' = [helper EXCEPT ![h].pc = "configure", ![h].row = r]
        \/ MoveHelper(h, "signal")
    BY <1>5, Zenon DEF AddRow
  <2>3. Rows \subseteq Nat
    BY LineConstants
  <2>2. ASSUME NEW r \in Nat,
               helper' = [helper EXCEPT ![h].pc = "configure", ![h].row = r]
        PROVE  helper' \in [Helpers -> HelperRecord]
    BY <1>1, <2>2, HelperWrites DEF HelperPCs
  <2> QED
    BY <1>2, <2>1, <2>2, <2>3 DEF HelperPCs
<1>6. CASE ConfigureRow(h)
  BY <1>2, <1>6 DEF ConfigureRow, HelperPCs
<1>7. CASE DisableRow(h)
  BY <1>2, <1>7 DEF DisableRow, HelperPCs
<1>8. CASE DeleteRow(h)
  BY <1>2, <1>8 DEF DeleteRow, HelperPCs
<1> QED
  BY <1>3, <1>4, <1>5, <1>6, <1>7, <1>8

LEMMA HelperTypeOK ==
  ASSUME TypeOK, NEW h \in Helpers, HelperStep(h)
  PROVE  TypeOK'
<1> USE LineConstants DEF TypeOK, smVars, MoveHelper, HelperRecord, HelperPCs
<1>0. /\ helper[h].table \in Tables
      /\ \A k \in Links : rows[k] \in RowRecord
  OBVIOUS
<1>1. CASE ReadStandard(h)
  <2>1. helper' \in [Helpers -> HelperRecord]
    BY <1>1, HelperMoves
  <2> QED
    BY <1>1, <2>1 DEF ReadStandard
<1>2. CASE FindRow(h)
  <2>1. helper' \in [Helpers -> HelperRecord]
    BY <1>2, HelperMoves
  <2> QED
    BY <1>2, <2>1 DEF FindRow
<1>3. CASE AddRow(h)
  <2>1. NewEntry \in RowRecord
    BY DEF NewEntry, RowRecord
  <2>2. rows' \in [Links -> RowRecord]
    <3>1. \A r \in Rows : <<helper[h].table, r>> \in Links
      BY <1>0 DEF Links
    <3> QED
      BY <1>3, <2>1, <3>1 DEF AddRow
  <2>3. helper' \in [Helpers -> HelperRecord]
    BY <1>3, HelperMoves
  <2> QED
    BY <1>3, <2>2, <2>3 DEF AddRow
<1>4. ASSUME NEW new \in RowRecord, Addressed(h), SetRow(h, new)
      PROVE  rows' \in [Links -> RowRecord]
  BY <1>4 DEF SetRow, Addressed
<1>5. ASSUME NEW old \in RowRecord
      PROVE  /\ \A ll \in BOOLEAN : LowerLayersSet(old, ll) \subseteq RowRecord
             /\ \A b \in BOOLEAN : EnableSet(old, b) \subseteq RowRecord
  BY DEF LowerLayersSet, EnableSet, RowRecord
<1>6. CASE ConfigureRow(h)
  <2>1. rows' \in [Links -> RowRecord]
    <3>1. CASE Addressed(h)
      <4>1. rows[Target(h)] \in RowRecord
        BY <1>0, <3>1 DEF Addressed
      <4>2. PICK named \in LowerLayersSet(rows[Target(h)], helper[h].ll) :
                \E entry \in EnableSet(named, TRUE) : SetRow(h, entry)
        BY <1>6, <3>1 DEF ConfigureRow
      <4>3. named \in RowRecord
        BY <1>5, <4>1
      <4> QED
        BY <1>4, <1>5, <3>1, <4>2, <4>3
    <3>2. CASE ~Addressed(h)
      BY <1>6, <3>2 DEF ConfigureRow
    <3> QED
      BY <3>1, <3>2
  <2>2. helper' \in [Helpers -> HelperRecord]
    BY <1>6, HelperMoves
  <2> QED
    BY <1>6, <2>1, <2>2 DEF ConfigureRow
<1>7. CASE DisableRow(h)
  <2>1. rows' \in [Links -> RowRecord]
    <3>1. CASE Addressed(h)
      <4>1. rows[Target(h)] \in RowRecord
        BY <1>0, <3>1 DEF Addressed
      <4>2. \E entry \in EnableSet(rows[Target(h)], FALSE) : SetRow(h, entry)
        BY <1>7, <3>1 DEF DisableRow
      <4> QED
        BY <1>4, <1>5, <3>1, <4>1, <4>2
    <3>2. CASE ~Addressed(h)
      BY <1>7, <3>2 DEF DisableRow
    <3> QED
      BY <3>1, <3>2
  <2>2. helper' \in [Helpers -> HelperRecord]
    BY <1>7, HelperMoves
  <2> QED
    BY <1>7, <2>1, <2>2 DEF DisableRow
<1>8. CASE DeleteRow(h)
  <2>1. NoEntry \in RowRecord
    BY DEF NoEntry, RowRecord
  <2>2. rows' \in [Links -> RowRecord]
    BY <1>4, <1>8, <2>1 DEF DeleteRow
  <2>3. helper' \in [Helpers -> HelperRecord]
    BY <1>8, HelperMoves
  <2> QED
    BY <1>8, <2>2, <2>3 DEF DeleteRow
<1>9. CASE SignalDone(h)
  BY <1>9 DEF SignalDone, Resume, Goto, Waiting, FreeHelper, PCs, SmStates,
              Tables
<1> QED
  BY <1>1, <1>2, <1>3, <1>6, <1>7, <1>8, <1>9 DEF HelperStep

\* The type invariant holds in every reachable state.
THEOREM TypeCorrect == Spec => []TypeOK
<1>1. Init => TypeOK
  BY InitTypeOK
<1>2. TypeOK /\ [Next]_vars => TypeOK'
  <2> SUFFICES ASSUME TypeOK, [Next]_vars PROVE TypeOK'
    OBVIOUS
  <2>1. ASSUME NEW c \in Callers, NEW v \in BOOLEAN, SetUpstream(c, v)
        PROVE  TypeOK'
    BY <2>1, CallerTypeOK
  <2>2. ASSUME NEW c \in Callers, NEW w \in WanStates, SetWanStatus(c, w)
        PROVE  TypeOK'
    BY <2>2, CallerTypeOK
  <2>3. ASSUME NEW s \in LinkEvents, LinkStatusCallback(s) PROVE TypeOK'
    BY <2>3, LineConstants
       DEF LinkStatusCallback, TypeOK, LineRecord, IfNames, smVars
  <2>4. ASSUME NEW c \in Callers, CallerStep(c) PROVE TypeOK'
    BY <2>4, CallerTypeOK
  <2>5. ASSUME NEW t \in Threads, ThreadStep(t) PROVE TypeOK'
    BY <2>5, ThreadTypeOK
  <2>6. ASSUME NEW h \in Helpers, HelperStep(h) PROVE TypeOK'
    BY <2>6, HelperTypeOK
  <2>7. CASE UNCHANGED vars
    BY <2>7 DEF vars, smVars, TypeOK
  <2> QED
    BY <2>1, <2>2, <2>3, <2>4, <2>5, <2>6, <2>7 DEF Next
<1> QED
  BY <1>1, <1>2, PTL DEF Spec
-----------------------------------------------------------------------------
(* The Up at the WAN manager always has a state machine that owes a Down.   *)

\* A thread that carries a name carries the line's: the line is named once.
NameStable == \A t \in Threads : priv[t] = "dsl0" => line.Name = "dsl0"

OrphanInv == TypeOK /\ NameStable /\ NoOrphanUp

LEMMA NameStableStep == TypeOK /\ NameStable /\ [Next]_vars => NameStable'
<1> SUFFICES ASSUME TypeOK, NameStable, [Next]_vars PROVE NameStable'
  OBVIOUS
<1> USE DEF TypeOK, NameStable, LineRecord, smVars
<1>1. ASSUME NEW c \in Callers, NEW v \in BOOLEAN, SetUpstream(c, v)
      PROVE  NameStable'
  BY <1>1 DEF SetUpstream
<1>2. ASSUME NEW c \in Callers, NEW w \in WanStates, SetWanStatus(c, w)
      PROVE  NameStable'
  BY <1>2 DEF SetWanStatus
<1>3. ASSUME NEW s \in LinkEvents, LinkStatusCallback(s) PROVE NameStable'
  BY <1>3 DEF LinkStatusCallback
<1>4. ASSUME NEW c \in Callers, CallerStep(c) PROVE NameStable'
  BY <1>4 DEF CallerStep, RecheckThread, GiveUp, StartStateMachine
<1>5. ASSUME NEW t \in Threads, ThreadStep(t) PROVE NameStable'
  <2>1. line'.Name = line.Name
    BY <1>5 DEF ThreadStep, LookupToPublish, PublishTid, QueryStandard,
         QueryExhausted, StateDisconnected, StateTraining, XtmSetAdslWanUp,
         StateXtmConfiguring, StateWanLinkUp, TransitionTrained,
         TransitionPhyInterfaceDown, BeginWait, WaitTimedOut,
         TransitionWanLinkUp, NotifyWanDown, LeaveLoop, LookupToClear, ClearTid
  <2>2. \A u \in Threads : priv'[u] = priv[u] \/ priv'[u] = "freed"
    BY <1>5 DEF ThreadStep, LookupToPublish, PublishTid, QueryStandard,
         QueryExhausted, StateDisconnected, StateTraining, XtmSetAdslWanUp,
         StateXtmConfiguring, StateWanLinkUp, TransitionTrained,
         TransitionPhyInterfaceDown, BeginWait, WaitTimedOut,
         TransitionWanLinkUp, NotifyWanDown, LeaveLoop, LookupToClear,
         ClearTid, Terminate
  <2> QED
    BY <2>1, <2>2
<1>6. ASSUME NEW h \in Helpers, HelperStep(h) PROVE NameStable'
  BY <1>6 DEF HelperStep, ReadStandard, FindRow, AddRow, ConfigureRow,
              DisableRow, DeleteRow, SignalDone
<1>7. CASE UNCHANGED vars
  BY <1>7 DEF vars
<1> QED
  BY <1>1, <1>2, <1>3, <1>4, <1>5, <1>6, <1>7 DEF Next

\* What one step of thread t does to the announcement: it leaves it alone and
\* keeps t's duty to withdraw it, or takes the duty on, or withdraws it.
LEMMA ThreadOrphan ==
  ASSUME TypeOK, NameStable, NoOrphanUp, "wan" \notin Faults,
         NEW t \in Threads, ThreadStep(t)
  PROVE  NoOrphanUp'
<1> DEFINE Keeps == wanLink' = wanLink /\ (Watching(t) => Watching(t)')
<1> USE DEF TypeOK, smVars, Goto, Terminate
<1>1. \A u \in Threads \ {t} : Watching(u) => Watching(u)'
  BY DEF Watching, ThreadStep, LookupToPublish, PublishTid, QueryStandard,
         QueryExhausted, StateDisconnected, StateTraining, XtmSetAdslWanUp,
         StateXtmConfiguring, StateWanLinkUp, TransitionTrained,
         TransitionPhyInterfaceDown, BeginWait, WaitTimedOut, Resume,
         TransitionWanLinkUp, NotifyWanDown, LeaveLoop, LookupToClear, ClearTid
<1>2. ASSUME Keeps PROVE NoOrphanUp'
  BY <1>1, <1>2 DEF NoOrphanUp
<1>3. CASE TransitionWanLinkUp(t)
  <2>1. CASE GlobalInfo(t).Name = "dsl0"
    <3>1. priv[t] = "dsl0"
      BY <2>1 DEF GlobalInfo, Known, Zeroed
    <3>2. Watching(t)'
      BY <1>3, <3>1 DEF TransitionWanLinkUp, Watching
    <3> QED
      BY <3>2 DEF NoOrphanUp
  <2>2. CASE GlobalInfo(t).Name # "dsl0"
    <3>1. Keeps
      BY <1>3, <2>2 DEF TransitionWanLinkUp, SetWanLinkStatus, Watching
    <3> QED
      BY <1>2, <3>1
  <2> QED
    BY <2>1, <2>2
<1>4. CASE NotifyWanDown(t)
  <2>1. CASE priv[t] = "dsl0"
    <3>1. GlobalInfo(t).Name = "dsl0"
      BY <2>1 DEF GlobalInfo, Known, NameStable
    <3>2. wanLink' = "Down"
      BY <1>4, <3>1 DEF NotifyWanDown, SetWanLinkStatus
    <3> QED
      BY <3>2 DEF NoOrphanUp
  <2>2. CASE priv[t] # "dsl0"
    <3>1. GlobalInfo(t).Name # "dsl0"
      BY <2>2 DEF GlobalInfo, Known, Zeroed
    <3>2. Keeps
      BY <1>4, <2>2, <3>1 DEF NotifyWanDown, SetWanLinkStatus, Watching
    <3> QED
      BY <1>2, <3>2
  <2> QED
    BY <2>1, <2>2
<1>5. ASSUME \/ LookupToPublish(t) \/ PublishTid(t)
             \/ \E s \in Standards : QueryStandard(t, s)
             \/ QueryExhausted(t) \/ StateDisconnected(t)
             \/ StateTraining(t) \/ LeaveLoop(t) \/ LookupToClear(t)
             \/ ClearTid(t)
      PROVE  Keeps
  BY <1>5 DEF Watching, LookupToPublish, PublishTid, QueryStandard,
              QueryExhausted, InState, StateDisconnected, StateTraining,
              LeaveLoop, LookupToClear, ClearTid
<1>6. ASSUME \/ XtmSetAdslWanUp(t) \/ StateXtmConfiguring(t)
             \/ StateWanLinkUp(t) \/ TransitionTrained(t)
             \/ TransitionPhyInterfaceDown(t) \/ BeginWait(t)
             \/ WaitTimedOut(t)
      PROVE  Keeps
  BY <1>6 DEF Watching, InState, XtmSetAdslWanUp, StateXtmConfiguring,
              StateWanLinkUp, TransitionTrained, TransitionPhyInterfaceDown,
              BeginWait, WaitTimedOut, Resume
<1> QED
  BY <1>2, <1>3, <1>4, <1>5, <1>6 DEF ThreadStep

\* The WAN manager never holds an Up that no state machine watches, provided
\* its calls do not fail: for every number of racing state machines, every
\* timing of the helpers and every other failing call.
THEOREM NoOrphanUpHolds == "wan" \notin Faults /\ Spec => []NoOrphanUp
<1> SUFFICES ASSUME "wan" \notin Faults PROVE Spec => []NoOrphanUp
  OBVIOUS
<1>1. Init => OrphanInv
  <2> SUFFICES ASSUME Init PROVE OrphanInv
    OBVIOUS
  <2> QED
    BY InitTypeOK DEF OrphanInv, Init, NameStable, NoOrphanUp
<1>2. TypeOK /\ OrphanInv /\ [Next]_vars => NameStable' /\ NoOrphanUp'
  <2> SUFFICES ASSUME TypeOK, NameStable, NoOrphanUp, [Next]_vars
               PROVE  NoOrphanUp'
    BY NameStableStep DEF OrphanInv
  <2> USE DEF NoOrphanUp, Watching, TypeOK, smVars
  <2>1. ASSUME NEW c \in Callers, NEW v \in BOOLEAN, SetUpstream(c, v)
        PROVE  NoOrphanUp'
    BY <2>1 DEF SetUpstream
  <2>2. ASSUME NEW c \in Callers, NEW w \in WanStates, SetWanStatus(c, w)
        PROVE  NoOrphanUp'
    BY <2>2 DEF SetWanStatus
  <2>3. ASSUME NEW s \in LinkEvents, LinkStatusCallback(s)
        PROVE  NoOrphanUp'
    BY <2>3 DEF LinkStatusCallback
  <2>4. ASSUME NEW c \in Callers, CallerStep(c) PROVE NoOrphanUp'
    BY <2>4 DEF CallerStep, RecheckThread, GiveUp, StartStateMachine,
                FreeThread, Live
  <2>5. ASSUME NEW t \in Threads, ThreadStep(t) PROVE NoOrphanUp'
    BY <2>5, ThreadOrphan
  <2>6. ASSUME NEW h \in Helpers, HelperStep(h) PROVE NoOrphanUp'
    <3>1. wanLink' = wanLink /\ priv' = priv
      BY <2>6 DEF HelperStep, ReadStandard, FindRow, AddRow, ConfigureRow,
                  DisableRow, DeleteRow, SignalDone
    <3>2. CASE SignalDone(h)
      BY <3>1, <3>2 DEF SignalDone, Waiting, Resume, Goto
    <3>3. CASE ~SignalDone(h)
      <4>1. pc' = pc /\ smState' = smState
        BY <2>6, <3>3 DEF HelperStep, ReadStandard, FindRow, AddRow,
                          ConfigureRow, DisableRow, DeleteRow
      <4> QED
        BY <3>1, <4>1
    <3> QED
      BY <3>2, <3>3
  <2>7. CASE UNCHANGED vars
    BY <2>7 DEF vars
  <2> QED
    BY <2>1, <2>2, <2>3, <2>4, <2>5, <2>6, <2>7 DEF Next
<1> QED
  BY <1>1, <1>2, TypeCorrect, PTL DEF Spec, OrphanInv
-----------------------------------------------------------------------------
(* The line implements the session it owes the WAN manager.                 *)

LEMMA QuietStepRefines ==
  ASSUME NoOrphanUp', wanLink' = wanLink
  PROVE  [Session!Next]_(Session!sessionVars)
<1> DEFINE running == \E t \in Threads : Live(t)
<1>1. wanLink' = "Up" => running'
  BY DEF NoOrphanUp, Watching, Live
<1>2. CASE running' = running
  BY <1>2 DEF Session!sessionVars
<1>3. CASE running' /\ ~running
  BY <1>3 DEF Session!Next, Session!Start
<1>4. CASE ~running' /\ running
  BY <1>1, <1>4 DEF Session!Next, Session!Stop
<1> QED
  BY <1>2, <1>3, <1>4

LEMMA ReportRefines ==
  ASSUME TypeOK, NEW t \in Threads,
         NEW v \in {"Up", "Down"}, wanLink' = v, Live(t), Live(t)'
  PROVE  [Session!Next]_(Session!sessionVars)
BY DEF Session!Next, Session!Report

\* Every behaviour of the line is, seen from the WAN manager, a session that
\* reports only while a state machine runs and never stops while Up, again
\* provided that the calls to the WAN manager do not fail.
THEOREM LineRefinesSession == "wan" \notin Faults /\ Spec => SessionSpec
<1> SUFFICES ASSUME "wan" \notin Faults PROVE Spec => SessionSpec
  OBVIOUS
<1>1. Init => Session!Init
  BY DEF Init, Session!Init, Live
<1>2. TypeOK /\ NoOrphanUp' /\ [Next]_vars
        => [Session!Next]_(Session!sessionVars)
  <2> SUFFICES ASSUME TypeOK, NoOrphanUp', [Next]_vars
               PROVE  [Session!Next]_(Session!sessionVars)
    OBVIOUS
  <2>1. CASE wanLink' = wanLink
    BY <2>1, QuietStepRefines
  <2>2. CASE wanLink' # wanLink
    <3>1. PICK t \in Threads : TransitionWanLinkUp(t) \/ NotifyWanDown(t)
      BY <2>2 DEF Next, vars, SetUpstream, SetWanStatus, LinkStatusCallback,
           CallerStep, RecheckThread, GiveUp, StartStateMachine,
           ThreadStep, LookupToPublish, PublishTid, QueryStandard,
           QueryExhausted, StateDisconnected, StateTraining,
           XtmSetAdslWanUp, StateXtmConfiguring, StateWanLinkUp,
           TransitionTrained, TransitionPhyInterfaceDown, BeginWait,
           WaitTimedOut, LeaveLoop, LookupToClear, ClearTid,
           HelperStep, ReadStandard, FindRow, AddRow, ConfigureRow,
           DisableRow, DeleteRow, SignalDone
    <3>2. Live(t) /\ Live(t)'
      BY <3>1 DEF TransitionWanLinkUp, NotifyWanDown, Goto, Live, TypeOK
    <3>3. wanLink' = "Up" \/ wanLink' = "Down"
      BY <2>2, <3>1
         DEF TransitionWanLinkUp, NotifyWanDown, SetWanLinkStatus
    <3> QED
      BY <3>2, <3>3, ReportRefines
  <2> QED
    BY <2>1, <2>2
<1>3. Spec => []NoOrphanUp
  BY NoOrphanUpHolds
<1> QED
  BY <1>1, <1>2, <1>3, TypeCorrect, PTL DEF Spec, SessionSpec, Session!Spec
=============================================================================
