----------------------- MODULE XdslLineOrderlyProofs -----------------------
(***************************************************************************)
(* Theorems about XdslLine for one bus thread that delivers the requests,  *)
(* a line that has its name, and threads that are not outrun (Prompt,      *)
(* Patient): what the code relies on for one state machine and one XTM     *)
(* link per line.  They hold for every number of threads, helpers and      *)
(* rows, every driver answer and every failing call the statement admits.  *)
(***************************************************************************)
EXTENDS XdslLineProofs

\* One bus thread, a named line, and threads that publish their id in time.
Orderly ==
    /\ Prompt
    /\ NameAtStart = "dsl0"
    /\ \A c, d \in Callers : c = d

----------------------------------------------------------------------------
(* One state machine.                                                      *)

\* A live thread has the line's name and, once started, the published id; a
\* caller that waits saw no thread start, and one that stopped waiting finds
\* no thread at all.
SoleInv ==
    /\ line.Name = "dsl0"
    /\ \A t \in Threads : Live(t) => priv[t] = "dsl0"
    /\ OneStateMachine
    /\ \A t \in Threads : Live(t) => Starting(t) \/ line.tid = t
    /\ \A c \in Callers : caller[c].pc = "check" =>
          /\ \A t \in Threads : ~Starting(t)
          /\ caller[c].tid = NoThread => \A t \in Threads : ~Live(t)

\* The published id is that of a thread past its start.
TidInv == line.tid # NoThread => Live(line.tid) /\ ~Starting(line.tid)

----------------------------------------------------------------------------
(* Helpers.                                                                *)

\* Where a state machine stands while its helper works.
WaitPCs(job) == IF job = "create" THEN {"preCreate", "waitCreate"}
                                  ELSE {"preDelete", "waitDelete"}

\* A helper works only while its owner stands still for it, and alone.
HelpInv ==
    /\ \A h \in Helpers :
          Active(h) => /\ helper[h].owner \in Threads
                       /\ pc[helper[h].owner] \in WaitPCs(helper[h].job)
    /\ \A h, k \in Helpers : Active(h) /\ Active(k) => h = k

----------------------------------------------------------------------------
(* Rows.                                                                   *)

HasTable  == line.StandardUsed \in {"ADSL", "VDSL"}
LineTable == IF line.StandardUsed = "ADSL" THEN "ATM" ELSE "PTM"
Entry(tb, r) == rows[<<tb, r>>]

\* r is the only link of table tb.
Only(tb, r) ==
    /\ r \in Rows /\ Entry(tb, r).present
    /\ \A q \in Rows : q # r => ~Entry(tb, q).present

\* r is the only link of tb, named and committed; one whose number is misread
\* is not disabled any more.
Held(tb, r) ==
    /\ Only(tb, r)
    /\ Entry(tb, r).ll /\ ~Entry(tb, r).fresh
    /\ LastDigit(r) # r => Entry(tb, r).enable

\* A table that no state machine uses: empty, or with the ATM link that could
\* not be deleted, or with the link whose number is misread.
Empty(tb) == \A r \in Rows : ~Entry(tb, r).present
Left(tb)  == \E r \in Rows :
                /\ Held(tb, r)
                /\ LastDigit(r) = r => tb = "ATM" /\ ~Entry(tb, r).enable
Resting(tb) == Empty(tb) \/ Left(tb)
AllRest     == \A tb \in Tables : Resting(tb)
OthersRest  == \A tb \in Tables : tb # LineTable => Resting(tb)

Made  == /\ HasTable /\ OthersRest
         /\ \E r \in Rows : Held(LineTable, r) /\ Entry(LineTable, r).enable
Ready == Made \/ (~HasTable /\ AllRest)
Tidy  == Made \/ AllRest

\* The link in use, found by its LowerLayers and handed on as number n; or the
\* link n that was just added.
Found(n) == \E r \in Rows : Held(LineTable, r) /\ n = LastDigit(r)
Off(n)   == \E r \in Rows : /\ Held(LineTable, r) /\ n = LastDigit(r)
                            /\ n = r => ~Entry(LineTable, r).enable
Added(n) == Only(LineTable, n) /\ Entry(LineTable, n) = NewEntry

\* What the links are while helper h works.
HelperPhase(h) ==
    LET p == helper[h].pc
        n == helper[h].row
    IN
    /\ p \notin {"read", "signal"} =>
           HasTable /\ helper[h].table = LineTable
    /\ helper[h].job = "create" =>
          /\ p \in {"read", "find", "add", "configure", "signal"}
          /\ p \in {"read", "find", "add"} => AllRest
          /\ p \in {"add", "configure"} => helper[h].ll
          /\ p = "add" => Empty(LineTable)
          /\ p = "configure" => OthersRest /\ (Found(n) \/ Added(n))
          /\ p = "signal" => Ready
    /\ helper[h].job = "delete" =>
          /\ p \in {"read", "find", "disable", "delete", "signal"}
          /\ p \in {"read", "find"} => Tidy
          /\ p = "disable" => OthersRest /\ Found(n)
          /\ p = "delete" => OthersRest /\ Off(n)
          /\ p = "signal" => AllRest

\* t stands in a state that may have a link, and in one that must.
MayHave(t) == /\ smState[t] \in {"XTM_CONFIGURING", "WAN_LINK_UP"}
              /\ pc[t] \in {"loop", "xtmPoll", "notifyUp", "phyDown"}
MustHave(t) == \/ pc[t] \in {"preCreate", "waitCreate"}
               \/ /\ smState[t] = "XTM_CONFIGURING"
                  /\ pc[t] \in {"loop", "xtmPoll", "notifyUp"}

\* What the rows are while t lives and no helper works.
ThreadPhase(t) ==
    /\ MustHave(t) => Ready
    /\ MayHave(t) => Tidy
    /\ ~MustHave(t) /\ ~MayHave(t) => AllRest

RowInv ==
    /\ \A t \in Threads : pc[t] = "xtmPoll" => smState[t] = "XTM_CONFIGURING"
    /\ \A h \in Helpers : Active(h) => HelperPhase(h)
    /\ (\A h \in Helpers : ~Active(h)) =>
          /\ (\A t \in Threads : ~Live(t)) => AllRest
          /\ \A t \in Threads : Live(t) => ThreadPhase(t)
----------------------------------------------------------------------------
(* What a step of a thread changes.                                        *)

\* A step of t runs while t lives; it leaves the callers, the line's name and
\* the other threads alone, gives t no other name and starts nothing.
LEMMA ThreadEffect ==
  ASSUME TypeOK, NEW t \in Threads, ThreadStep(t)
  PROVE  /\ Live(t) /\ caller' = caller
         /\ line'.Name = line.Name
         /\ \A u \in Threads \ {t} : /\ pc'[u] = pc[u] /\ smState'[u] = smState[u]
                                     /\ priv'[u] = priv[u]
         /\ Live(t)' => priv'[t] = priv[t]
         /\ Starting(t)' => Starting(t)
<1> USE DEF TypeOK, LineRecord, smVars, Goto, Terminate, Live, Starting
<1>1. CASE \/ LookupToPublish(t) \/ PublishTid(t)
           \/ \E s \in Standards : QueryStandard(t, s)
           \/ QueryExhausted(t)
  BY <1>1 DEF LookupToPublish, PublishTid, QueryStandard, QueryExhausted
<1>2. CASE \/ StateDisconnected(t) \/ StateTraining(t)
           \/ XtmSetAdslWanUp(t) \/ StateXtmConfiguring(t)
           \/ StateWanLinkUp(t)
  BY <1>2 DEF StateDisconnected, StateTraining, XtmSetAdslWanUp,
              StateXtmConfiguring, StateWanLinkUp, InState
<1>3. CASE \/ TransitionTrained(t) \/ TransitionPhyInterfaceDown(t)
           \/ BeginWait(t) \/ WaitTimedOut(t)
  BY <1>3 DEF TransitionTrained, TransitionPhyInterfaceDown, BeginWait,
              WaitTimedOut, Resume
<1>4. CASE \/ TransitionWanLinkUp(t) \/ NotifyWanDown(t)
           \/ LeaveLoop(t) \/ LookupToClear(t) \/ ClearTid(t)
  BY <1>4 DEF TransitionWanLinkUp, NotifyWanDown, LeaveLoop, LookupToClear,
              ClearTid, InState
<1> QED
  BY <1>1, <1>2, <1>3, <1>4 DEF ThreadStep

\* The published id changes when t publishes its own or clears it, and t only
\* gets past its start or ends by the steps named here.
LEMMA TidEffect ==
  ASSUME TypeOK, SoleInv, NEW t \in Threads, ThreadStep(t)
  PROVE  \/ line'.tid = t /\ Live(t)' /\ ~Starting(t)'
         \/ line'.tid = line.tid /\ Starting(t)'
         \/ /\ line'.tid = line.tid /\ ~Starting(t)
            /\ Live(t)' \/ "setspecific" \in Faults \/ "standard" \in Faults
         \/ line'.tid = NoThread /\ ~Live(t)'
<1> USE DEF TypeOK, LineRecord, smVars, Goto, Terminate, Live, Starting
<1>0. Known(t)
  BY ThreadEffect DEF SoleInv, Known
<1>1. CASE LookupToPublish(t) \/ PublishTid(t)
  BY <1>0, <1>1 DEF LookupToPublish, PublishTid
<1>2. CASE \/ \E s \in Standards : QueryStandard(t, s)
           \/ QueryExhausted(t)
  BY <1>2 DEF QueryStandard, QueryExhausted
<1>3. CASE \/ StateDisconnected(t) \/ StateTraining(t)
           \/ XtmSetAdslWanUp(t) \/ StateXtmConfiguring(t)
           \/ StateWanLinkUp(t)
  BY <1>3 DEF StateDisconnected, StateTraining, XtmSetAdslWanUp,
              StateXtmConfiguring, StateWanLinkUp, InState
<1>4. CASE \/ TransitionTrained(t) \/ TransitionPhyInterfaceDown(t)
           \/ BeginWait(t) \/ WaitTimedOut(t)
  BY <1>4 DEF TransitionTrained, TransitionPhyInterfaceDown, BeginWait,
              WaitTimedOut, Resume
<1>5. CASE \/ TransitionWanLinkUp(t) \/ NotifyWanDown(t)
           \/ LeaveLoop(t) \/ LookupToClear(t) \/ ClearTid(t)
  BY <1>0, <1>5 DEF TransitionWanLinkUp, NotifyWanDown, LeaveLoop,
              LookupToClear, ClearTid, InState
<1> QED
  BY <1>1, <1>2, <1>3, <1>4, <1>5 DEF ThreadStep

\* A step of a helper moves at most threads that wait, to a place of their loop.
LEMMA HelperEffect ==
  ASSUME TypeOK, NEW h \in Helpers, HelperStep(h)
  PROVE  /\ line' = line /\ caller' = caller /\ priv' = priv
         /\ \A t \in Threads : /\ Live(t)' <=> Live(t)
                               /\ Starting(t)' <=> Starting(t)
<1>1. CASE SignalDone(h)
  BY <1>1 DEF SignalDone, Resume, Waiting, Goto, Live, Starting, TypeOK
<1>2. CASE ~SignalDone(h)
  BY <1>2 DEF HelperStep, ReadStandard, FindRow, AddRow, ConfigureRow,
              DisableRow, DeleteRow, smVars, Live, Starting
<1> QED
  BY <1>1, <1>2

----------------------------------------------------------------------------
(* One state machine.                                                      *)

LEMMA InitSoleInv == Orderly /\ Init => SoleInv /\ TidInv
BY LineConstants
   DEF Orderly, Init, SoleInv, TidInv, OneStateMachine, Live, Starting

LEMMA CallerSoleInv ==
  ASSUME Orderly, TypeOK, SoleInv, NEW c \in Callers,
         \/ \E v \in BOOLEAN : SetUpstream(c, v)
         \/ \E w \in WanStates : SetWanStatus(c, w)
         \/ CallerStep(c)
  PROVE  SoleInv' /\ (TidInv => TidInv')
<1> USE LineConstants
    DEF TypeOK, LineRecord, smVars, SoleInv, TidInv, OneStateMachine, Orderly,
        Live, Starting
<1>1. ASSUME NEW v \in BOOLEAN, SetUpstream(c, v)
      PROVE  SoleInv' /\ (TidInv => TidInv')
  BY <1>1 DEF SetUpstream
<1>2. ASSUME NEW w \in WanStates, SetWanStatus(c, w)
      PROVE  SoleInv' /\ (TidInv => TidInv')
  BY <1>2 DEF SetWanStatus
<1>3. CASE RecheckThread(c)
  BY <1>3 DEF RecheckThread
<1>4. CASE GiveUp(c)
  BY <1>4 DEF GiveUp
<1>5. CASE StartStateMachine(c)
  <2>1. /\ \A t \in Threads : ~Live(t)
        /\ \A d \in Callers : caller'[d].pc = "idle"
        /\ line' = line
    BY <1>5 DEF StartStateMachine
  <2>2. CASE UNCHANGED smVars
    BY <2>1, <2>2
  <2>3. ASSUME NEW t \in Threads, pc' = [pc EXCEPT ![t] = "spawned"],
               priv' = [priv EXCEPT ![t] = line.Name]
        PROVE  SoleInv' /\ (TidInv => TidInv')
    BY <2>1, <2>3
  <2> QED
    BY <1>5, <2>2, <2>3 DEF StartStateMachine
<1> QED
  BY <1>1, <1>2, <1>3, <1>4, <1>5 DEF CallerStep

LEMMA ThreadSoleInv ==
  ASSUME TypeOK, SoleInv, NEW t \in Threads, ThreadStep(t)
  PROVE  SoleInv'
<1>1. \A u \in Threads : /\ Live(u)' => u = t
                         /\ Live(u) => u = t
  BY ThreadEffect DEF SoleInv, OneStateMachine, Live
<1>2. \A u \in Threads : Live(u)' => priv'[u] = "dsl0"
  BY <1>1, ThreadEffect DEF SoleInv
<1>3. \A u \in Threads : Starting(u)' => Live(u)'
  BY DEF Starting, Live
<1>4. Live(t)' => Starting(t)' \/ line'.tid = t
  BY TidEffect, ThreadEffect DEF SoleInv
<1>5. \A u \in Threads : Starting(u)' => Starting(u)
  BY <1>1, <1>3, ThreadEffect
<1>6. \A u \in Threads : Live(u)' => Live(u)
  BY <1>1, ThreadEffect
<1> QED
  BY <1>1, <1>2, <1>4, <1>5, <1>6, ThreadEffect DEF SoleInv, OneStateMachine

LEMMA NextSoleInv ==
  ASSUME Orderly, TypeOK, SoleInv, [Next]_vars
  PROVE  SoleInv'
<1>1. ASSUME NEW c \in Callers, NEW v \in BOOLEAN, SetUpstream(c, v)
      PROVE  SoleInv'
  BY <1>1, CallerSoleInv
<1>2. ASSUME NEW c \in Callers, NEW w \in WanStates, SetWanStatus(c, w)
      PROVE  SoleInv'
  BY <1>2, CallerSoleInv
<1>3. ASSUME NEW s \in LinkEvents, LinkStatusCallback(s) PROVE SoleInv'
  BY <1>3 DEF LinkStatusCallback, SoleInv, OneStateMachine, Live, Starting,
              TypeOK, LineRecord, smVars
<1>4. ASSUME NEW c \in Callers, CallerStep(c) PROVE SoleInv'
  BY <1>4, CallerSoleInv
<1>5. ASSUME NEW t \in Threads, ThreadStep(t) PROVE SoleInv'
  BY <1>5, ThreadSoleInv
<1>6. ASSUME NEW h \in Helpers, HelperStep(h) PROVE SoleInv'
  BY <1>6, HelperEffect DEF SoleInv, OneStateMachine
<1>7. CASE UNCHANGED vars
  BY <1>7 DEF vars, smVars, SoleInv, OneStateMachine, Live, Starting
<1> QED
  BY <1>1, <1>2, <1>3, <1>4, <1>5, <1>6, <1>7 DEF Next

LEMMA SoleInvHolds == Orderly /\ Spec => [](TypeOK /\ SoleInv)
<1> SUFFICES ASSUME Orderly PROVE Spec => [](TypeOK /\ SoleInv)
  OBVIOUS
<1>1. Init => SoleInv
  BY InitSoleInv
<1>2. TypeOK /\ SoleInv /\ [Next]_vars => SoleInv'
  BY NextSoleInv
<1> QED
  BY <1>1, <1>2, TypeCorrect, PTL DEF Spec

\* With one bus thread and prompt threads a line has at most one state
\* machine, whatever calls fail, a state machine that dies at its start
\* included.
THEOREM OneStateMachineHolds == Orderly /\ Spec => []OneStateMachine
<1> SUFFICES ASSUME Orderly PROVE Spec => []OneStateMachine
  OBVIOUS
<1>1. SoleInv => OneStateMachine
  BY DEF SoleInv
<1> QED
  BY <1>1, SoleInvHolds, PTL

\* The published id is that of a live thread, so that a later request never
\* waits for one that is gone, unless the thread died at its start.
THEOREM TidNamesLiveThreadHolds ==
    /\ Orderly
    /\ "setspecific" \notin Faults /\ "standard" \notin Faults
    /\ Spec
    => []TidNamesLiveThread
<1> SUFFICES ASSUME Orderly, "setspecific" \notin Faults,
                    "standard" \notin Faults
             PROVE  Spec => []TidNamesLiveThread
  OBVIOUS
<1>1. Init => TidInv
  BY InitSoleInv
<1>2. TypeOK /\ SoleInv /\ TidInv /\ [Next]_vars => TidInv'
  <2> SUFFICES ASSUME TypeOK, SoleInv, TidInv, [Next]_vars PROVE TidInv'
    OBVIOUS
  <2>1. ASSUME NEW c \in Callers, NEW v \in BOOLEAN, SetUpstream(c, v)
        PROVE  TidInv'
    BY <2>1, CallerSoleInv
  <2>2. ASSUME NEW c \in Callers, NEW w \in WanStates, SetWanStatus(c, w)
        PROVE  TidInv'
    BY <2>2, CallerSoleInv
  <2>3. ASSUME NEW s \in LinkEvents, LinkStatusCallback(s) PROVE TidInv'
    BY <2>3 DEF LinkStatusCallback, TidInv, Live, Starting, TypeOK,
                LineRecord, smVars
  <2>4. ASSUME NEW c \in Callers, CallerStep(c) PROVE TidInv'
    BY <2>4, CallerSoleInv
  <2>5. ASSUME NEW t \in Threads, ThreadStep(t) PROVE TidInv'
    <3>1. CASE line.tid \in Threads
      <4>1. line.tid = t /\ Live(t) /\ ~Starting(t)
        BY <2>5, <3>1, ThreadEffect, LineConstants
           DEF SoleInv, OneStateMachine, TidInv
      <4> QED
        BY <2>5, <4>1, TidEffect, ThreadEffect DEF TidInv
    <3>2. CASE line.tid = NoThread
      <4>1. Starting(t)
        BY <2>5, <3>2, ThreadEffect, LineConstants DEF SoleInv
      <4> QED
        BY <2>5, <3>2, <4>1, TidEffect DEF TidInv
    <3> QED
      BY <3>1, <3>2 DEF TypeOK, LineRecord
  <2>6. ASSUME NEW h \in Helpers, HelperStep(h) PROVE TidInv'
    BY <2>6, HelperEffect DEF TidInv, TypeOK, LineRecord
  <2>7. CASE UNCHANGED vars
    BY <2>7 DEF vars, smVars, TidInv, Live, Starting
  <2> QED
    BY <2>1, <2>2, <2>3, <2>4, <2>5, <2>6, <2>7 DEF Next
<1>3. TidInv => TidNamesLiveThread
  BY DEF TidInv, TidNamesLiveThread
<1> QED
  BY <1>1, <1>2, <1>3, SoleInvHolds, PTL DEF Spec

----------------------------------------------------------------------------
(* Helpers.                                                                *)

\* The owner of a helper is the state machine, so a state machine that does
\* not stand still for one, or none at all, leaves no helper at work.
LEMMA OwnerIsThread ==
  ASSUME SoleInv, HelpInv
  PROVE  /\ \A t \in Threads, h \in Helpers :
               Live(t) /\ Active(h) =>
                   helper[h].owner = t /\ pc[t] \in WaitPCs(helper[h].job)
         /\ (\A t \in Threads : ~Live(t)) => \A h \in Helpers : ~Active(h)
BY DEF SoleInv, OneStateMachine, HelpInv, WaitPCs, Live

\* The steps of a thread, by what they do to its helper: only a spawn makes
\* one, and the steps of a wait are the only others it can meet.
Spawns(t) ==
    \/ pc[t] = "trained" /\ SpawnHelper(t, "create") /\ pc'[t] = "preCreate"
    \/ pc[t] = "phyDown" /\ SpawnHelper(t, "delete") /\ pc'[t] = "preDelete"

LEMMA ThreadHelper ==
  ASSUME TypeOK, NEW t \in Threads, ThreadStep(t)
  PROVE  /\ rows' = rows
         /\ \/ Spawns(t) /\ smState' = smState /\ line' = line
            \/ BeginWait(t)
            \/ WaitTimedOut(t)
            \/ /\ pc[t] \notin WaitPCs("create") \cup WaitPCs("delete")
               /\ helper' = helper /\ ~Spawns(t)
<1> USE DEF TypeOK, smVars, Goto, Terminate, WaitPCs, Spawns
<1>1. CASE \/ LookupToPublish(t) \/ PublishTid(t)
           \/ \E s \in Standards : QueryStandard(t, s)
           \/ QueryExhausted(t)
  BY <1>1 DEF LookupToPublish, PublishTid, QueryStandard, QueryExhausted
<1>2. CASE \/ StateDisconnected(t) \/ StateTraining(t)
           \/ XtmSetAdslWanUp(t) \/ StateXtmConfiguring(t)
           \/ StateWanLinkUp(t)
  BY <1>2 DEF StateDisconnected, StateTraining, XtmSetAdslWanUp,
              StateXtmConfiguring, StateWanLinkUp, InState
<1>3. CASE TransitionTrained(t) \/ TransitionPhyInterfaceDown(t)
  BY <1>3 DEF TransitionTrained, TransitionPhyInterfaceDown
<1>4. CASE BeginWait(t) \/ WaitTimedOut(t)
  BY <1>4 DEF BeginWait, WaitTimedOut
<1>5. CASE \/ TransitionWanLinkUp(t) \/ NotifyWanDown(t)
           \/ LeaveLoop(t) \/ LookupToClear(t) \/ ClearTid(t)
  BY <1>5 DEF TransitionWanLinkUp, NotifyWanDown, LeaveLoop, LookupToClear,
              ClearTid, InState
<1> QED
  BY <1>1, <1>2, <1>3, <1>4, <1>5 DEF ThreadStep

\* What a helper that added a link is and is to do.
LEMMA AddOutcome ==
  ASSUME TypeOK, NEW h \in Helpers, AddRow(h)
  PROVE  /\ helper[h].pc = "add"
         /\ UNCHANGED <<line, dmlUpstream, caller, smVars, wanLink>>
         /\ \A k \in Helpers \ {h} : helper'[k] = helper[k]
         /\ helper'[h].job = helper[h].job
         /\ helper'[h].owner = helper[h].owner
         /\ helper'[h].table = helper[h].table
         /\ helper'[h].ll = helper[h].ll
         /\ \/ \E q \in Rows :
                   /\ ~rows[<<helper[h].table, q>>].present
                   /\ rows' = [rows EXCEPT ![<<helper[h].table, q>>] = NewEntry]
                   /\ helper'[h].pc = "configure" /\ helper'[h].row = q
            \/ /\ rows' = rows /\ helper'[h].pc = "signal"
               /\ \/ "xtm" \in Faults
                  \/ \A q \in Rows : rows[<<helper[h].table, q>>].present
<1>1. /\ helper[h].pc = "add"
      /\ UNCHANGED <<line, dmlUpstream, caller, smVars, wanLink>>
  BY DEF AddRow
<1>2. \/ \E q \in Rows :
            /\ ~rows[<<helper[h].table, q>>].present
            /\ rows' = [rows EXCEPT ![<<helper[h].table, q>>] = NewEntry]
            /\ helper' = [helper EXCEPT ![h].pc = "configure", ![h].row = q]
      \/ /\ rows' = rows
         /\ helper' = [helper EXCEPT ![h].pc = "signal"]
         /\ \/ "xtm" \in Faults
            \/ \A q \in Rows : rows[<<helper[h].table, q>>].present
  <2> DEFINE free == {r \in Rows : ~rows[<<helper[h].table, r>>].present}
  <2>1. \/ \E q \in free :
              /\ rows' = [rows EXCEPT ![<<helper[h].table, q>>] = NewEntry]
              /\ helper' = [helper EXCEPT ![h].pc = "configure", ![h].row = q]
        \/ /\ free = {} \/ "xtm" \in Faults
           /\ helper' = [helper EXCEPT ![h].pc = "signal"]
           /\ rows' = rows
    BY Zenon DEF AddRow, MoveHelper
  <2> QED
    BY <2>1, Zenon
<1>3. ASSUME NEW q, helper' = [helper EXCEPT ![h].pc = "configure", ![h].row = q]
      PROVE  /\ \A k \in Helpers \ {h} : helper'[k] = helper[k]
             /\ helper'[h].job = helper[h].job
             /\ helper'[h].owner = helper[h].owner
             /\ helper'[h].table = helper[h].table
             /\ helper'[h].ll = helper[h].ll
             /\ helper'[h].pc = "configure" /\ helper'[h].row = q
  BY <1>3 DEF TypeOK, HelperRecord
<1>4. ASSUME helper' = [helper EXCEPT ![h].pc = "signal"]
      PROVE  /\ \A k \in Helpers \ {h} : helper'[k] = helper[k]
             /\ helper'[h].job = helper[h].job
             /\ helper'[h].owner = helper[h].owner
             /\ helper'[h].table = helper[h].table
             /\ helper'[h].ll = helper[h].ll
             /\ helper'[h].pc = "signal"
  BY <1>4 DEF TypeOK, HelperRecord
<1>5. CASE \E q \in Rows :
            /\ ~rows[<<helper[h].table, q>>].present
            /\ rows' = [rows EXCEPT ![<<helper[h].table, q>>] = NewEntry]
            /\ helper' = [helper EXCEPT ![h].pc = "configure", ![h].row = q]
  BY <1>1, <1>3, <1>5, Zenon
<1>6. CASE /\ rows' = rows
           /\ helper' = [helper EXCEPT ![h].pc = "signal"]
           /\ \/ "xtm" \in Faults
              \/ \A q \in Rows : rows[<<helper[h].table, q>>].present
  BY <1>1, <1>4, <1>6, Zenon
<1> QED
  BY <1>2, <1>5, <1>6

\* A helper's own step ends it or keeps its job and its owner.
LEMMA HelperKeeps ==
  ASSUME TypeOK, NEW h \in Helpers, HelperStep(h)
  PROVE  /\ Active(h)
         /\ \A k \in Helpers \ {h} : helper'[k] = helper[k]
         /\ \/ SignalDone(h) /\ ~Active(h)'
            \/ /\ UNCHANGED smVars
               /\ helper'[h].job = helper[h].job
               /\ helper'[h].owner = helper[h].owner
<1> USE DEF TypeOK, HelperRecord, Active, MoveHelper
<1>1. CASE SignalDone(h)
  BY <1>1 DEF SignalDone, FreeHelper
<1>2. CASE ReadStandard(h)
  BY <1>2 DEF ReadStandard
<1>3. CASE FindRow(h)
  BY <1>3 DEF FindRow
<1>4. CASE AddRow(h)
  <2>1. helper'[h].pc # "free"
    BY <1>4, AddOutcome
  <2> QED
    BY <1>4, <2>1, AddOutcome DEF smVars
<1>5. CASE ConfigureRow(h) \/ DisableRow(h) \/ DeleteRow(h)
  BY <1>5 DEF ConfigureRow, DisableRow, DeleteRow
<1> QED
  BY <1>1, <1>2, <1>3, <1>4, <1>5 DEF HelperStep

LEMMA ThreadHelpInv ==
  ASSUME Patient, TypeOK, SoleInv, HelpInv, NEW t \in Threads, ThreadStep(t)
  PROVE  HelpInv'
<1>1. Live(t)
  BY ThreadEffect
<1>2. CASE Spawns(t)
  <2>1. \A h \in Helpers : ~Active(h)
    BY <1>1, <1>2, OwnerIsThread DEF Spawns, WaitPCs
  <2>2. PICK h \in Helpers, job \in {"create", "delete"} :
           /\ helper' = [helper EXCEPT ![h] =
                           [pc |-> "read", job |-> job, owner |-> t,
                            table |-> "PTM", ll |-> FALSE, row |-> NoRow]]
           /\ pc'[t] \in WaitPCs(job)
    BY <1>2 DEF Spawns, SpawnHelper, WaitPCs
  <2> QED
    BY <2>1, <2>2 DEF HelpInv, Active, TypeOK
<1>3. CASE BeginWait(t)
  <2>1. /\ helper' = helper
        /\ \A job : pc[t] \in WaitPCs(job) => pc'[t] \in WaitPCs(job)
    BY <1>3 DEF BeginWait, Goto, WaitPCs, TypeOK
  <2> QED
    BY <1>1, <2>1, OwnerIsThread DEF HelpInv, Active
<1>4. CASE WaitTimedOut(t)
  BY <1>1, <1>4, OwnerIsThread DEF WaitTimedOut, HelpInv, Active
<1>5. CASE /\ pc[t] \notin WaitPCs("create") \cup WaitPCs("delete")
           /\ helper' = helper
  BY <1>1, <1>5, OwnerIsThread DEF HelpInv, Active, WaitPCs
<1> QED
  BY <1>2, <1>3, <1>4, <1>5, ThreadHelper

LEMMA NextHelpInv ==
  ASSUME Patient, TypeOK, SoleInv, HelpInv, [Next]_vars
  PROVE  HelpInv'
<1>1. ASSUME NEW t \in Threads, ThreadStep(t) PROVE HelpInv'
  BY <1>1, ThreadHelpInv
<1>2. ASSUME NEW h \in Helpers, HelperStep(h) PROVE HelpInv'
  <2>1. \A k \in Helpers : Active(k) => k = h
    BY <1>2, HelperKeeps DEF HelpInv
  <2>2. \A k \in Helpers \ {h} : ~Active(k)'
    BY <1>2, <2>1, HelperKeeps DEF Active
  <2> QED
    BY <1>2, <2>2, HelperKeeps DEF HelpInv, smVars
<1>3. ASSUME NEW c \in Callers, StartStateMachine(c) PROVE HelpInv'
  <2>1. \A h \in Helpers : ~Active(h)
    BY <1>3, OwnerIsThread DEF StartStateMachine, SoleInv
  <2> QED
    BY <1>3, <2>1 DEF StartStateMachine, HelpInv, Active
<1>4. CASE UNCHANGED <<pc, helper>>
  BY <1>4 DEF HelpInv, Active
<1> QED
  BY <1>1, <1>2, <1>3, <1>4
     DEF Next, CallerStep, SetUpstream, SetWanStatus, LinkStatusCallback,
         RecheckThread, GiveUp, vars, smVars

LEMMA HelpInvHolds ==
  Orderly /\ Patient /\ Spec => [](TypeOK /\ SoleInv /\ HelpInv)
<1> SUFFICES ASSUME Orderly, Patient
             PROVE  Spec => [](TypeOK /\ SoleInv /\ HelpInv)
  OBVIOUS
<1>1. Init => HelpInv
  BY DEF Init, HelpInv, Active, FreeHelper
<1>2. TypeOK /\ SoleInv /\ HelpInv /\ [Next]_vars => HelpInv'
  BY NextHelpInv
<1> QED
  BY <1>1, <1>2, SoleInvHolds, PTL DEF Spec

----------------------------------------------------------------------------
(* Rows.                                                                   *)

\* Steps that leave the links and the standard alone.
LEMMA RowsFrame ==
  ASSUME rows' = rows, line'.StandardUsed = line.StandardUsed
  PROVE  /\ AllRest' <=> AllRest
         /\ OthersRest' <=> OthersRest
         /\ Ready' <=> Ready
         /\ Tidy' <=> Tidy
         /\ HasTable' <=> HasTable
         /\ LineTable' = LineTable
         /\ \A tb, r : Entry(tb, r)' = Entry(tb, r)
         /\ \A tb, r : Held(tb, r)' <=> Held(tb, r)
         /\ \A tb : Empty(tb)' <=> Empty(tb)
         /\ \A n : /\ Found(n)' <=> Found(n)
                   /\ Off(n)' <=> Off(n)
                   /\ Added(n)' <=> Added(n)
<1>1. \A tb, r : Entry(tb, r)' = Entry(tb, r)
  BY DEF Entry
<1>2. LineTable' = LineTable /\ (HasTable' <=> HasTable)
  BY DEF LineTable, HasTable
<1>3. /\ \A tb, r : Only(tb, r)' <=> Only(tb, r)
      /\ \A tb : Empty(tb)' <=> Empty(tb)
  BY <1>1 DEF Only, Empty
<1>4. \A tb, r : Held(tb, r)' <=> Held(tb, r)
  BY <1>1, <1>3 DEF Held
<1>5. \A tb : Resting(tb)' <=> Resting(tb)
  BY <1>1, <1>3, <1>4 DEF Resting, Left
<1>6. /\ AllRest' <=> AllRest
      /\ OthersRest' <=> OthersRest
  BY <1>2, <1>5 DEF AllRest, OthersRest
<1>7. Made' <=> Made
  BY <1>1, <1>2, <1>4, <1>6 DEF Made
<1>8. (Ready' <=> Ready) /\ (Tidy' <=> Tidy)
  BY <1>2, <1>6, <1>7 DEF Ready, Tidy
<1>9. \A n : /\ Found(n)' <=> Found(n)
             /\ Off(n)' <=> Off(n)
             /\ Added(n)' <=> Added(n)
  BY <1>1, <1>2, <1>3, <1>4 DEF Found, Off, Added
<1> QED
  BY <1>1, <1>2, <1>3, <1>4, <1>6, <1>8, <1>9

\* A table that no link changes in rests if it did.
LEMMA TableFrame ==
  ASSUME NEW tb \in Tables,
         \A r \in Rows : rows'[<<tb, r>>] = rows[<<tb, r>>]
  PROVE  Resting(tb) => Resting(tb)'
<1>1. \A r \in Rows : Entry(tb, r)' = Entry(tb, r)
  BY DEF Entry
<1>2. Empty(tb) => Empty(tb)'
  BY <1>1 DEF Empty
<1>3. \A r \in Rows : Held(tb, r) => Held(tb, r)'
  BY <1>1 DEF Held, Only
<1> QED
  BY <1>1, <1>2, <1>3 DEF Resting, Left

\* Writing one link of the line's table leaves the other tables alone.
LEMMA OneChange ==
  ASSUME TypeOK, NEW n \in Rows, NEW e, line' = line,
         rows' = [rows EXCEPT ![<<LineTable, n>>] = e]
  PROVE  /\ LineTable' = LineTable /\ (HasTable' <=> HasTable)
         /\ OthersRest => OthersRest'
         /\ Entry(LineTable, n)' = e
         /\ \A q \in Rows : q # n =>
                Entry(LineTable, q)' = Entry(LineTable, q)
<1>1. LineTable \in Tables /\ LineTable' = LineTable
      /\ (HasTable' <=> HasTable)
  BY DEF LineTable, Tables, HasTable
<1>2. \A tb \in Tables, r \in Rows :
          rows'[<<tb, r>>] = IF tb = LineTable /\ r = n THEN e
                             ELSE rows[<<tb, r>>]
  BY <1>1 DEF TypeOK, Links
<1>3. OthersRest => OthersRest'
  BY <1>1, <1>2, TableFrame DEF OthersRest
<1> QED
  BY <1>1, <1>2, <1>3 DEF Entry

LEMMA PhaseFrame ==
  ASSUME rows' = rows, line'.StandardUsed = line.StandardUsed,
         NEW h \in Helpers, helper'[h] = helper[h], HelperPhase(h)
  PROVE  HelperPhase(h)'
BY RowsFrame DEF HelperPhase

\* Whether every table rests does not depend on the standard.
LEMMA RestFrame ==
  ASSUME rows' = rows, AllRest
  PROVE  AllRest'
BY TableFrame DEF AllRest

\* The steps of a thread that stands still for no helper.
LEMMA ThreadPhaseStep ==
  ASSUME TypeOK, NEW t \in Threads, ThreadStep(t), ThreadPhase(t),
         pc[t] = "xtmPoll" => smState[t] = "XTM_CONFIGURING",
         pc[t] \notin WaitPCs("create") \cup WaitPCs("delete"),
         ~Spawns(t), "helper" \notin Faults
  PROVE  /\ ThreadPhase(t)'
         /\ pc'[t] = "xtmPoll" => smState'[t] = "XTM_CONFIGURING"
<1> USE DEF TypeOK, smVars, Goto, Terminate, WaitPCs, ThreadPhase, MustHave,
            MayHave
<1>1. Ready => Tidy
  BY DEF Ready, Tidy
<1>2. rows' = rows
  BY ThreadHelper
<1>3. ASSUME NEW s \in Standards, QueryStandard(t, s)
      PROVE  /\ ThreadPhase(t)'
             /\ pc'[t] = "xtmPoll" => smState'[t] = "XTM_CONFIGURING"
  <2>1. AllRest'
    <3>1. AllRest
      BY <1>3 DEF QueryStandard
    <3> QED
      BY <1>2, <3>1, RestFrame
  <2> QED
    BY <1>3, <2>1 DEF QueryStandard
<1>4. CASE line'.StandardUsed = line.StandardUsed
  <2>0. /\ AllRest' <=> AllRest
        /\ Ready' <=> Ready
        /\ Tidy' <=> Tidy
    BY <1>2, <1>4, RowsFrame
  <2>1. CASE LookupToPublish(t) \/ PublishTid(t) \/ QueryExhausted(t)
    BY <1>1, <2>0, <2>1 DEF LookupToPublish, PublishTid, QueryExhausted
  <2>2. CASE \/ StateDisconnected(t) \/ StateTraining(t)
             \/ XtmSetAdslWanUp(t) \/ StateXtmConfiguring(t)
             \/ StateWanLinkUp(t)
    BY <1>1, <2>0, <2>2
       DEF StateDisconnected, StateTraining, XtmSetAdslWanUp,
           StateXtmConfiguring, StateWanLinkUp, InState
  <2>3. CASE \/ TransitionTrained(t) \/ TransitionPhyInterfaceDown(t)
             \/ BeginWait(t) \/ WaitTimedOut(t)
    BY <2>3 DEF TransitionTrained, TransitionPhyInterfaceDown, BeginWait,
                WaitTimedOut, Resume, Spawns
  <2>4. CASE TransitionWanLinkUp(t) \/ NotifyWanDown(t)
    BY <1>1, <2>0, <2>4 DEF TransitionWanLinkUp, NotifyWanDown, Tidy
  <2>6. CASE LeaveLoop(t) \/ LookupToClear(t) \/ ClearTid(t)
    BY <1>1, <2>0, <2>6 DEF LeaveLoop, LookupToClear, ClearTid, InState
  <2>5. CASE \E s \in Standards : QueryStandard(t, s)
    BY <1>3, <2>5
  <2> QED
    BY <2>1, <2>2, <2>3, <2>4, <2>5, <2>6 DEF ThreadStep
<1>5. CASE line'.StandardUsed # line.StandardUsed
  <2>1. \E s \in Standards : QueryStandard(t, s)
    BY <1>5 DEF ThreadStep, LookupToPublish, PublishTid, QueryExhausted,
         StateDisconnected, StateTraining, XtmSetAdslWanUp,
         StateXtmConfiguring, StateWanLinkUp, TransitionTrained,
         TransitionPhyInterfaceDown, BeginWait, WaitTimedOut,
         TransitionWanLinkUp, NotifyWanDown, LeaveLoop, LookupToClear,
         ClearTid, LineRecord
  <2> QED
    BY <1>3, <2>1
<1> QED
  BY <1>4, <1>5

LEMMA ThreadRowInv ==
  ASSUME Patient, "helper" \notin Faults,
         TypeOK, SoleInv, HelpInv, RowInv, NEW t \in Threads, ThreadStep(t)
  PROVE  RowInv'
<1>0. /\ Live(t)
      /\ \A u \in Threads : u # t => ~Live(u) /\ ~Live(u)'
  BY ThreadEffect DEF SoleInv, OneStateMachine, Live
<1>1. \A u \in Threads : u # t => pc'[u] # "xtmPoll"
  BY <1>0 DEF Live
<1>2. rows' = rows
  BY ThreadHelper
<1>3. CASE Spawns(t) /\ smState' = smState /\ line' = line
  <2>1. \A h \in Helpers : ~Active(h)
    BY <1>0, <1>3, OwnerIsThread DEF Spawns, WaitPCs
  <2>2. /\ pc[t] = "trained" => AllRest
        /\ Tidy
    BY <1>0, <1>3, <2>1
       DEF RowInv, ThreadPhase, Spawns, MustHave, MayHave, Tidy
  <2>3. PICK h \in Helpers, job \in {"create", "delete"} :
           /\ helper' = [helper EXCEPT ![h] =
                           [pc |-> "read", job |-> job, owner |-> t,
                            table |-> "PTM", ll |-> FALSE, row |-> NoRow]]
           /\ job = "create" => pc[t] = "trained"
           /\ pc'[t] # "xtmPoll"
    BY <1>3 DEF Spawns, SpawnHelper
  <2>4. HelperPhase(h)'
    BY <1>2, <1>3, <2>2, <2>3, RowsFrame DEF HelperPhase, TypeOK
  <2>5. \A k \in Helpers : k # h => ~Active(k)'
    BY <2>1, <2>3 DEF Active, TypeOK
  <2>6. Active(h)'
    BY <2>3 DEF Active, TypeOK
  <2> QED
    BY <1>1, <2>3, <2>4, <2>5, <2>6 DEF RowInv
<1>4. CASE BeginWait(t)
  <2>1. /\ helper' = helper /\ line' = line
        /\ pc'[t] \in {"waitCreate", "waitDelete"}
        /\ MustHave(t)' <=> MustHave(t)
        /\ ~MayHave(t)' /\ ~MayHave(t)
    BY <1>4 DEF BeginWait, Goto, TypeOK, MustHave, MayHave
  <2>2. \A h \in Helpers : Active(h)' => HelperPhase(h)'
    BY <1>2, <2>1, PhaseFrame DEF RowInv, Active
  <2>3. (\A h \in Helpers : ~Active(h)') => ThreadPhase(t)'
    <3> SUFFICES ASSUME \A h \in Helpers : ~Active(h) PROVE ThreadPhase(t)'
      BY <2>1 DEF Active
    <3>1. ThreadPhase(t)
      BY <1>0 DEF RowInv
    <3> QED
      BY <1>2, <2>1, <3>1, RowsFrame DEF ThreadPhase
  <2>4. Live(t)'
    BY <2>1 DEF Live
  <2> QED
    BY <1>0, <1>1, <2>1, <2>2, <2>3, <2>4 DEF RowInv
<1>5. CASE WaitTimedOut(t)
  <2>1. /\ helper' = helper /\ line' = line
        /\ \A h \in Helpers : ~Active(h)
    BY <1>0, <1>5, OwnerIsThread DEF WaitTimedOut
  <2>2. ThreadPhase(t)
    BY <1>0, <2>1 DEF RowInv
  <2>3. /\ ThreadPhase(t)' /\ Live(t)'
        /\ pc'[t] # "xtmPoll"
    BY <1>2, <1>5, <2>1, <2>2, RowsFrame
       DEF WaitTimedOut, Resume, Goto, TypeOK, ThreadPhase, MustHave, MayHave,
           Live, Ready, Tidy
  <2> QED
    BY <1>0, <1>1, <2>1, <2>3 DEF RowInv, Active
<1>6. CASE /\ pc[t] \notin WaitPCs("create") \cup WaitPCs("delete")
           /\ helper' = helper /\ ~Spawns(t)
  <2>1. \A h \in Helpers : ~Active(h)
    BY <1>0, <1>6, OwnerIsThread DEF WaitPCs
  <2>2. /\ ThreadPhase(t)'
        /\ pc'[t] = "xtmPoll" => smState'[t] = "XTM_CONFIGURING"
    BY <1>0, <1>6, <2>1, ThreadPhaseStep DEF RowInv
  <2>3. ~Live(t)' => AllRest'
    BY <2>2 DEF ThreadPhase, MustHave, MayHave, Live
  <2> QED
    BY <1>0, <1>1, <1>6, <2>1, <2>2, <2>3 DEF RowInv, Active
<1> QED
  BY <1>3, <1>4, <1>5, <1>6, ThreadHelper

\* Reading back what FindRow writes.
LEMMA FieldsSet ==
  ASSUME TypeOK, NEW h \in Helpers, NEW p, NEW ll, NEW r
  PROVE  /\ LET new == [helper EXCEPT ![h].pc = p, ![h].ll = ll, ![h].row = r]
            IN  /\ new[h].pc = p /\ new[h].ll = ll /\ new[h].row = r
                /\ new[h].job = helper[h].job
                /\ new[h].table = helper[h].table
         /\ LET new == [helper EXCEPT ![h].pc = p, ![h].ll = ll]
            IN  /\ new[h].pc = p /\ new[h].ll = ll
                /\ new[h].job = helper[h].job
                /\ new[h].table = helper[h].table
BY DEF TypeOK, HelperRecord

\* A helper that knows the line's name goes on with a row if there is one.
LEMMA FindOutcome ==
  ASSUME TypeOK, NEW h \in Helpers, FindRow(h), KnownToHelper(h) = {TRUE},
         "xtm" \notin Faults
  PROVE  LET found  == Matching(helper[h].table, TRUE)
             create == helper[h].job = "create"
         IN  /\ helper'[h].job = helper[h].job
             /\ helper'[h].table = helper[h].table
             /\ helper'[h].ll = TRUE
             /\ \/ /\ \E q \in found : helper'[h].row = LastDigit(q)
                   /\ helper'[h].pc = IF create THEN "configure" ELSE "disable"
                \/ /\ found = {}
                   /\ helper'[h].pc = IF create THEN "add" ELSE "signal"
<1> DEFINE found   == Matching(helper[h].table, TRUE)
           create  == helper[h].job = "create"
           onFound == IF create THEN "configure" ELSE "disable"
           onNone  == IF create THEN "add" ELSE "signal"
<1>1. \/ \E q \in found :
            helper' = [helper EXCEPT ![h].pc = onFound, ![h].ll = TRUE,
                                     ![h].row = LastDigit(q)]
      \/ /\ found = {}
         /\ helper' = [helper EXCEPT ![h].pc = onNone, ![h].ll = TRUE]
  BY DEF FindRow
<1> HIDE DEF found, onFound, onNone
<1>2. ASSUME NEW q \in found,
             helper' = [helper EXCEPT ![h].pc = onFound, ![h].ll = TRUE,
                                      ![h].row = LastDigit(q)]
      PROVE  /\ helper'[h].job = helper[h].job
             /\ helper'[h].table = helper[h].table
             /\ helper'[h].ll = TRUE
             /\ helper'[h].row = LastDigit(q) /\ helper'[h].pc = onFound
  BY <1>2, FieldsSet
<1>3. ASSUME helper' = [helper EXCEPT ![h].pc = onNone, ![h].ll = TRUE]
      PROVE  /\ helper'[h].job = helper[h].job
             /\ helper'[h].table = helper[h].table
             /\ helper'[h].ll = TRUE
             /\ helper'[h].pc = onNone
  BY <1>3, FieldsSet
<1> QED
  BY <1>1, <1>2, <1>3 DEF found, onFound, onNone

\* What the tables are for a lookup in the line's table.
LEMMA LookupSees ==
  ASSUME TypeOK
  PROVE  /\ \A q \in Matching(LineTable, TRUE) : q \in Rows
         /\ AllRest => OthersRest /\ Resting(LineTable)
         /\ \A q \in Matching(LineTable, TRUE) :
                Tidy => OthersRest /\ Held(LineTable, q)
         /\ AllRest /\ Matching(LineTable, TRUE) = {} => Empty(LineTable)
         /\ Tidy /\ Matching(LineTable, TRUE) = {} => AllRest
<1>1. LineTable \in Tables
  BY DEF LineTable, Tables
<1>2. AllRest => OthersRest /\ Resting(LineTable)
  BY <1>1 DEF AllRest, OthersRest
<1>3. \A r \in Rows : Held(LineTable, r) => r \in Matching(LineTable, TRUE)
  <2>1. \A r \in Rows : rows[<<LineTable, r>>].ll \in BOOLEAN
    BY <1>1 DEF TypeOK, Links, RowRecord
  <2> QED
    BY <2>1 DEF Held, Only, Entry, Matching
<1>4. \A q \in Matching(LineTable, TRUE) :
          /\ ~Empty(LineTable)
          /\ \A r \in Rows : Held(LineTable, r) => r = q
  BY DEF Matching, Empty, Held, Only, Entry
<1>5. Tidy => \/ OthersRest /\ Empty(LineTable)
              \/ OthersRest /\ \E r \in Rows : Held(LineTable, r)
  BY <1>2 DEF Tidy, Made, Resting, Left
<1>6. Matching(LineTable, TRUE) = {} => ~Made /\ ~Left(LineTable)
  BY <1>3 DEF Made, Left
<1>7. \A q \in Matching(LineTable, TRUE) : q \in Rows
  BY DEF Matching
<1> QED
  BY <1>2, <1>4, <1>5, <1>6, <1>7 DEF Tidy, Resting

\* Enable is set and the link committed, or nothing changes because the
\* number handed on is not that of the line's link.
LEMMA EnableFound ==
  ASSUME TypeOK, line' = line, OthersRest, "xtm" \notin Faults,
         NEW h \in Helpers, helper[h].table = LineTable, NEW b \in BOOLEAN,
         Found(helper[h].row),
         IF Addressed(h)
         THEN SetRow(h, [rows[Target(h)] EXCEPT !.ll = TRUE, !.enable = b,
                                                !.fresh = FALSE])
         ELSE UNCHANGED rows
  PROVE  /\ OthersRest'
         /\ LineTable' = LineTable /\ (HasTable' <=> HasTable)
         /\ \E r \in Rows :
               /\ Held(LineTable, r)' /\ helper[h].row = LastDigit(r)
               /\ helper[h].row = r => Entry(LineTable, r)'.enable = b
<1> DEFINE n == helper[h].row
           tb == LineTable
           new == [rows[<<tb, n>>] EXCEPT !.ll = TRUE, !.enable = b,
                                          !.fresh = FALSE]
<1>1. PICK r \in Rows : Held(tb, r) /\ n = LastDigit(r)
  BY DEF Found
<1>2. tb \in Tables
  BY DEF LineTable, Tables
<1>3. Target(h) = <<tb, n>>
  BY DEF Target
<1>4. CASE n = r
  <2>1. Addressed(h)
    BY <1>1, <1>2, <1>3, <1>4 DEF Addressed, Held, Only, Entry, Links
  <2>2. rows' = [rows EXCEPT ![<<tb, r>>] = new]
    BY <1>3, <1>4, <2>1 DEF SetRow
  <2>3. /\ new.present = Entry(tb, r).present
        /\ new.ll = TRUE /\ new.enable = b /\ new.fresh = FALSE
    <3>1. rows[<<tb, n>>] \in RowRecord
      BY <1>2, <1>4 DEF TypeOK, Links
    <3> QED
      BY <1>4, <3>1 DEF RowRecord, Entry
  <2> HIDE DEF new
  <2>4. /\ LineTable' = LineTable /\ (HasTable' <=> HasTable)
        /\ OthersRest'
        /\ Entry(LineTable, r)' = new
        /\ \A q \in Rows : q # r =>
               Entry(LineTable, q)' = Entry(LineTable, q)
    BY <2>2, OneChange
  <2>5. Held(tb, r)'
    BY <1>1, <1>4, <2>3, <2>4 DEF Held, Only
  <2> QED
    BY <1>1, <1>4, <2>3, <2>4, <2>5
<1>5. CASE n # r
  <2>1. ~Addressed(h)
    BY <1>1, <1>3, <1>5 DEF Addressed, Held, Only, Entry, Links
  <2>2. rows' = rows
    BY <2>1
  <2> QED
    BY <1>1, <1>5, <2>2, RowsFrame
<1> QED
  BY <1>4, <1>5

\* The steps of the one helper at work, which knows the line's name.
LEMMA HelperPhaseStep ==
  ASSUME "xtm" \notin Faults, Rows # {},
         TypeOK, NEW h \in Helpers, HelperStep(h), ~SignalDone(h),
         HelperPhase(h), KnownToHelper(h) = {TRUE}
  PROVE  HelperPhase(h)'
<1> DEFINE n == helper[h].row
           create == helper[h].job = "create"
<1> USE DEF TypeOK, HelperRecord, MoveHelper
<1>0. helper[h].job \in {"create", "delete"}
  OBVIOUS
<1>1. CASE ReadStandard(h)
  <2>1. /\ rows' = rows /\ line' = line
        /\ helper'[h].job = helper[h].job /\ helper[h].pc = "read"
        /\ \/ HasTable /\ helper'[h].pc = "find" /\ helper'[h].table = LineTable
           \/ ~HasTable /\ helper'[h].pc = "signal"
    BY <1>1 DEF ReadStandard, HasTable, LineTable
  <2>2. ~HasTable /\ Tidy => AllRest
    BY DEF Tidy, Made
  <2> QED
    BY <1>0, <2>1, <2>2, RowsFrame DEF HelperPhase, Ready
<1>2. CASE FindRow(h)
  <2>1. /\ helper[h].pc = "find" /\ rows' = rows /\ line' = line
        /\ helper'[h].job = helper[h].job
        /\ helper'[h].table = helper[h].table
    <3>1. helper[h].pc = "find" /\ rows' = rows /\ line' = line
      BY <1>2 DEF FindRow
    <3> QED
      BY <1>2, <3>1, FindOutcome
  <2>2. HasTable /\ helper[h].table = LineTable
    BY <2>1 DEF HelperPhase
  <2>3. \/ /\ \E q \in Matching(LineTable, TRUE) :
                  helper'[h].row = LastDigit(q)
           /\ helper'[h].pc = IF create THEN "configure" ELSE "disable"
           /\ helper'[h].ll = TRUE
        \/ /\ Matching(LineTable, TRUE) = {} /\ helper'[h].ll = TRUE
           /\ helper'[h].pc = IF create THEN "add" ELSE "signal"
    BY <1>2, <2>2, FindOutcome
  <2>4. Tidy /\ (create => AllRest)
    BY <1>0, <2>1 DEF HelperPhase, Tidy
  <2>5. CASE Matching(LineTable, TRUE) = {}
    <3>1. /\ AllRest /\ Empty(LineTable)
          /\ helper'[h].pc = IF create THEN "add" ELSE "signal"
          /\ helper'[h].ll = TRUE
      BY <2>3, <2>4, <2>5, LookupSees
    <3> QED
      BY <1>0, <2>1, <2>2, <3>1, RowsFrame DEF HelperPhase
  <2>6. CASE Matching(LineTable, TRUE) # {}
    <3>1. PICK q \in Matching(LineTable, TRUE) :
              /\ helper'[h].row = LastDigit(q) /\ helper'[h].ll = TRUE
              /\ helper'[h].pc = IF create THEN "configure" ELSE "disable"
      BY <2>3, <2>6
    <3>2. OthersRest /\ Found(helper'[h].row)
      BY <2>4, <3>1, LookupSees DEF Found
    <3>3. OthersRest' /\ Found(helper[h].row)'
      <4>1. Found(helper'[h].row) => Found(helper[h].row)'
        BY <2>1 DEF Found, Held, Only, Entry, LineTable
      <4> QED
        BY <2>1, <3>2, <4>1, RowsFrame
    <3> QED
      BY <1>0, <2>1, <2>2, <3>1, <3>3, RowsFrame DEF HelperPhase
  <2> QED
    BY <2>5, <2>6
<1>3. CASE AddRow(h)
  <2>1. /\ helper[h].pc = "add" /\ line' = line
        /\ helper'[h].job = helper[h].job
        /\ helper'[h].table = helper[h].table
        /\ helper'[h].ll = helper[h].ll
    BY <1>3, AddOutcome
  <2>2. /\ HasTable /\ helper[h].table = LineTable
        /\ create /\ AllRest /\ Empty(LineTable) /\ helper[h].ll
    BY <1>0, <2>1 DEF HelperPhase
  <2>3. PICK q \in Rows :
           /\ rows' = [rows EXCEPT ![<<LineTable, q>>] = NewEntry]
           /\ helper'[h].pc = "configure" /\ helper'[h].row = q
    <3>1. ~\A q \in Rows : rows[<<LineTable, q>>].present
      BY <2>2 DEF Empty, Entry
    <3> QED
      BY <1>3, <2>2, <3>1, AddOutcome
  <2>4. /\ LineTable' = LineTable /\ HasTable' /\ OthersRest'
        /\ Entry(LineTable, q)' = NewEntry
        /\ \A r \in Rows : r # q =>
               Entry(LineTable, r)' = Entry(LineTable, r)
    <3>1. OthersRest
      BY <2>2, LookupSees
    <3> HIDE DEF TypeOK
    <3> QED
      BY <2>1, <2>2, <2>3, <3>1, OneChange
  <2>5. Only(LineTable, q)'
    BY <2>2, <2>4 DEF Only, Empty, NewEntry
  <2>6. Added(helper[h].row)'
    BY <2>3, <2>4, <2>5 DEF Added
  <2> QED
    BY <2>1, <2>2, <2>3, <2>4, <2>6 DEF HelperPhase
<1>4. CASE ConfigureRow(h)
  <2>1. /\ helper[h].pc = "configure" /\ line' = line
        /\ helper'[h].job = helper[h].job /\ helper'[h].pc = "signal"
    BY <1>4 DEF ConfigureRow
  <2>2. /\ HasTable /\ helper[h].table = LineTable
        /\ create /\ helper[h].ll = TRUE
        /\ OthersRest /\ (Found(n) \/ Added(n))
    BY <1>0, <2>1 DEF HelperPhase
  <2>3. IF Addressed(h)
        THEN SetRow(h, [rows[Target(h)] EXCEPT !.ll = TRUE, !.enable = TRUE,
                                               !.fresh = FALSE])
        ELSE UNCHANGED rows
    BY <1>4, <2>2 DEF ConfigureRow, LowerLayersSet, EnableSet
  <2>4. Ready'
    <3>1. CASE Found(n)
      <4>1. PICK r \in Rows :
               /\ OthersRest' /\ LineTable' = LineTable /\ HasTable'
               /\ Held(LineTable, r)' /\ n = LastDigit(r)
               /\ n = r => Entry(LineTable, r)'.enable = TRUE
        BY <2>1, <2>2, <2>3, <3>1, EnableFound
      <4>2. Entry(LineTable, r)'.enable = TRUE
        <5>1. CASE n = r
          BY <4>1, <5>1
        <5>2. CASE n # r
          BY <4>1, <5>2 DEF Held
        <5> QED
          BY <5>1, <5>2
      <4> QED
        BY <4>1, <4>2 DEF Ready, Made
    <3>2. CASE Added(n)
      <4>0. PICK q \in Rows : q = n /\ Added(q)
        BY <3>2 DEF Added, Only
      <4>1. LineTable \in Tables /\ Target(h) = <<LineTable, q>>
        BY <2>2, <4>0 DEF LineTable, Tables, Target
      <4>2. /\ Addressed(h)
            /\ rows[Target(h)] = NewEntry
        BY <4>0, <4>1 DEF Added, Only, Entry, Addressed, Links
      <4> DEFINE done == [NewEntry EXCEPT !.ll = TRUE, !.enable = TRUE,
                                          !.fresh = FALSE]
      <4>3. done.present /\ done.ll /\ done.enable /\ ~done.fresh
        BY DEF NewEntry
      <4>4. rows' = [rows EXCEPT ![<<LineTable, q>>] = done]
        BY <2>3, <4>1, <4>2 DEF SetRow
      <4> HIDE DEF TypeOK, done
      <4>5. /\ LineTable' = LineTable /\ (HasTable' <=> HasTable)
            /\ OthersRest => OthersRest'
            /\ Entry(LineTable, q)' = done
            /\ \A r \in Rows : r # q =>
                   Entry(LineTable, r)' = Entry(LineTable, r)
        BY <2>1, <4>4, OneChange
      <4>6. Held(LineTable, q)' /\ Entry(LineTable, q)'.enable
        BY <4>0, <4>3, <4>5 DEF Added, Held, Only
      <4> QED
        BY <2>2, <4>5, <4>6 DEF Ready, Made
    <3> QED
      BY <2>2, <3>1, <3>2
  <2> QED
    BY <2>1, <2>2, <2>4 DEF HelperPhase
<1>5. CASE DisableRow(h)
  <2>1. /\ helper[h].pc = "disable" /\ line' = line
        /\ helper'[h].job = helper[h].job /\ helper'[h].pc = "delete"
        /\ helper'[h].table = helper[h].table
        /\ helper'[h].row = n
    BY <1>5 DEF DisableRow
  <2>2. /\ HasTable /\ helper[h].table = LineTable
        /\ helper[h].job = "delete" /\ OthersRest /\ Found(n)
    BY <1>0, <2>1 DEF HelperPhase
  <2>3. IF Addressed(h)
        THEN SetRow(h, [rows[Target(h)] EXCEPT !.ll = TRUE, !.enable = FALSE,
                                               !.fresh = FALSE])
        ELSE UNCHANGED rows
    <3>1. Addressed(h) => /\ rows[Target(h)] \in RowRecord
                          /\ rows[Target(h)].ll = TRUE
      <4> SUFFICES ASSUME Addressed(h)
                   PROVE  /\ rows[Target(h)] \in RowRecord
                          /\ rows[Target(h)].ll = TRUE
        OBVIOUS
      <4>1. rows[Target(h)] \in RowRecord
        BY DEF Addressed
      <4>2. PICK r \in Rows : Held(LineTable, r)
        BY <2>2 DEF Found
      <4>3. n \in Rows /\ rows[<<LineTable, n>>].present
        BY <2>2 DEF Addressed, Target, Links
      <4>4. n = r
        BY <4>2, <4>3 DEF Held, Only, Entry
      <4> QED
        BY <2>2, <4>1, <4>2, <4>4 DEF Held, Entry, Target, RowRecord
    <3>2. Addressed(h) =>
             [rows[Target(h)] EXCEPT !.ll = TRUE, !.enable = FALSE,
                                     !.fresh = FALSE]
             = [rows[Target(h)] EXCEPT !.enable = FALSE, !.fresh = FALSE]
      BY <3>1 DEF RowRecord
    <3> QED
      BY <1>5, <3>2 DEF DisableRow, EnableSet
  <2>4. PICK r \in Rows :
           /\ OthersRest' /\ LineTable' = LineTable /\ HasTable'
           /\ Held(LineTable, r)' /\ n = LastDigit(r)
           /\ n = r => Entry(LineTable, r)'.enable = FALSE
    BY <2>1, <2>2, <2>3, EnableFound
  <2>5. Off(helper[h].row)'
    BY <2>1, <2>4 DEF Off
  <2> QED
    BY <2>1, <2>2, <2>4, <2>5 DEF HelperPhase
<1>6. CASE DeleteRow(h)
  <2>1. /\ helper[h].pc = "delete" /\ line' = line
        /\ helper'[h].job = helper[h].job /\ helper'[h].pc = "signal"
    BY <1>6 DEF DeleteRow
  <2>2. /\ helper[h].table = LineTable
        /\ helper[h].job = "delete"
        /\ OthersRest /\ Off(n)
    BY <1>0, <2>1 DEF HelperPhase
  <2>3. PICK r \in Rows : /\ Held(LineTable, r) /\ n = LastDigit(r)
                          /\ n = r => ~Entry(LineTable, r).enable
    BY <2>2 DEF Off
  <2>4. LineTable \in Tables /\ Target(h) = <<LineTable, n>>
    BY <2>2 DEF LineTable, Tables, Target
  <2>5. CASE rows' = rows /\ (LineTable = "ATM" \/ n # r)
    <3>1. Left(LineTable)
      BY <2>3, <2>5 DEF Left
    <3>2. AllRest
      BY <2>2, <3>1 DEF AllRest, OthersRest, Resting
    <3> QED
      BY <2>1, <2>2, <2>5, <3>2, RowsFrame DEF HelperPhase
  <2>6. CASE n = r /\ rows' = [rows EXCEPT ![<<LineTable, r>>] = NoEntry]
    <3>1. /\ LineTable' = LineTable /\ OthersRest'
          /\ Entry(LineTable, r)' = NoEntry
          /\ \A q \in Rows : q # r =>
                 Entry(LineTable, q)' = Entry(LineTable, q)
      BY <2>1, <2>2, <2>6, OneChange
    <3>2. Empty(LineTable)'
      BY <2>3, <3>1 DEF Empty, Held, Only, NoEntry
    <3>3. AllRest'
      BY <3>1, <3>2 DEF AllRest, OthersRest, Resting
    <3> QED
      BY <2>1, <2>2, <3>3 DEF HelperPhase
  <2>7. CASE n = r
    <3>1. Addressed(h) /\ ~rows[Target(h)].fresh
      BY <2>3, <2>4, <2>7 DEF Addressed, Held, Only, Entry, Links
    <3> QED
      BY <1>6, <2>2, <2>4, <2>5, <2>6, <2>7, <3>1 DEF DeleteRow, SetRow
  <2>8. CASE n # r
    <3>1. ~Addressed(h)
      BY <2>3, <2>4, <2>8 DEF Addressed, Held, Only, Entry, Links
    <3> QED
      BY <1>6, <2>5, <2>8, <3>1 DEF DeleteRow
  <2> QED
    BY <2>7, <2>8
<1> QED
  BY <1>1, <1>2, <1>3, <1>4, <1>5, <1>6 DEF HelperStep

LEMMA HelperRowInv ==
  ASSUME "xtm" \notin Faults, Rows # {},
         TypeOK, SoleInv, HelpInv, RowInv, NEW h \in Helpers, HelperStep(h)
  PROVE  RowInv'
<1>1. /\ Active(h) /\ HelperPhase(h)
      /\ \A k \in Helpers : k # h => ~Active(k) /\ ~Active(k)'
  BY HelperKeeps DEF HelpInv, RowInv, Active
<1>2. PICK t \in Threads :
         /\ helper[h].owner = t /\ Live(t)
         /\ pc[t] \in WaitPCs(helper[h].job)
         /\ \A u \in Threads : u # t => ~Live(u)
  BY <1>1 DEF HelpInv, SoleInv, OneStateMachine, WaitPCs, Live
<1>3. KnownToHelper(h) = {TRUE}
  BY <1>2 DEF KnownToHelper, Known, SoleInv
<1>4. helper[h].job \in {"create", "delete"}
  BY DEF TypeOK, HelperRecord
<1>5. CASE SignalDone(h)
  <2>1. /\ rows' = rows /\ line' = line
        /\ helper[h].pc = "signal"
        /\ \A k \in Helpers : ~Active(k)'
    BY <1>1, <1>5 DEF SignalDone, Active, FreeHelper, TypeOK
  <2>2. \A u \in Threads : u # t => ~Live(u)' /\ pc'[u] # "xtmPoll"
    BY <1>2, HelperEffect DEF Live
  <2>3. IF helper[h].job = "create" THEN Ready ELSE AllRest
    BY <1>1, <1>4, <2>1 DEF HelperPhase
  <2>4. \/ pc'[t] = pc[t]
        \/ /\ pc[t] = "waitCreate" /\ pc'[t] = "loop"
           /\ smState'[t] = "XTM_CONFIGURING"
        \/ pc[t] = "waitDelete" /\ pc'[t] = "notifyDown"
    <3>1. \A u \in Waiting(helper[h].job) : u = t
      BY <1>2, <1>4 DEF Waiting, Live
    <3> QED
      BY <1>5, <3>1 DEF SignalDone, Resume, Goto, TypeOK
  <2>5. ThreadPhase(t)' /\ Live(t)' /\ pc'[t] # "xtmPoll"
    BY <1>2, <1>4, <2>1, <2>3, <2>4, RowsFrame
       DEF ThreadPhase, MustHave, MayHave, WaitPCs, Live, Ready, Tidy
  <2> QED
    BY <2>1, <2>2, <2>5 DEF RowInv
<1>6. CASE ~SignalDone(h)
  <2>1. HelperPhase(h)'
    BY <1>1, <1>3, <1>6, HelperPhaseStep
  <2>2. UNCHANGED smVars /\ helper'[h].job = helper[h].job
    BY <1>6, HelperKeeps
  <2>3. Active(h)'
    BY <1>4, <2>1, <2>2 DEF HelperPhase, Active
  <2> QED
    BY <1>1, <2>1, <2>2, <2>3 DEF RowInv, smVars
<1> QED
  BY <1>5, <1>6

\* Steps of the bus and of the HAL that start no thread.
LEMMA QuietRowInv ==
  ASSUME RowInv, UNCHANGED <<smVars, helper, rows>>,
         line'.StandardUsed = line.StandardUsed
  PROVE  RowInv'
<1>1. \A h \in Helpers : HelperPhase(h) => HelperPhase(h)'
  BY PhaseFrame
<1>2. \A t \in Threads : ThreadPhase(t) => ThreadPhase(t)'
  BY RowsFrame DEF ThreadPhase, MustHave, MayHave, smVars
<1> QED
  BY <1>1, <1>2, RowsFrame DEF RowInv, Active, Live, smVars

LEMMA NextRowInv ==
  ASSUME Patient, "helper" \notin Faults, "xtm" \notin Faults, Rows # {},
         TypeOK, SoleInv, HelpInv, RowInv, [Next]_vars
  PROVE  RowInv'
<1>1. ASSUME NEW t \in Threads, ThreadStep(t) PROVE RowInv'
  BY <1>1, ThreadRowInv
<1>2. ASSUME NEW h \in Helpers, HelperStep(h) PROVE RowInv'
  BY <1>2, HelperRowInv
<1>3. ASSUME NEW c \in Callers, StartStateMachine(c) PROVE RowInv'
  <2>1. /\ \A t \in Threads : ~Live(t)
        /\ \A h \in Helpers : ~Active(h)
    BY <1>3, OwnerIsThread DEF StartStateMachine, SoleInv
  <2>2. AllRest
    BY <2>1 DEF RowInv
  <2>3. line' = line /\ helper' = helper /\ rows' = rows
    BY <1>3 DEF StartStateMachine
  <2>4. CASE UNCHANGED smVars
    BY <2>3, <2>4, QuietRowInv
  <2>5. ASSUME NEW t \in Threads, pc' = [pc EXCEPT ![t] = "spawned"]
        PROVE  RowInv'
    <3>1. AllRest'
      BY <2>2, <2>3, RestFrame
    <3>2. \A u \in Threads : pc'[u] \in {"off", "spawned"}
      BY <2>1, <2>5 DEF Live, TypeOK
    <3> QED
      BY <2>1, <2>3, <3>1, <3>2
         DEF RowInv, ThreadPhase, MustHave, MayHave, Active
  <2> QED
    BY <1>3, <2>4, <2>5 DEF StartStateMachine
<1>4. CASE /\ UNCHANGED <<smVars, helper, rows>>
           /\ line'.StandardUsed = line.StandardUsed
  BY <1>4, QuietRowInv
<1>5. ASSUME NEW c \in Callers, NEW v \in BOOLEAN, SetUpstream(c, v)
      PROVE  RowInv'
  BY <1>4, <1>5 DEF SetUpstream, TypeOK, LineRecord
<1>6. ASSUME NEW c \in Callers, NEW w \in WanStates, SetWanStatus(c, w)
      PROVE  RowInv'
  BY <1>4, <1>6 DEF SetWanStatus, TypeOK, LineRecord
<1>7. ASSUME NEW s \in LinkEvents, LinkStatusCallback(s) PROVE RowInv'
  BY <1>4, <1>7 DEF LinkStatusCallback, TypeOK, LineRecord
<1>8. ASSUME NEW c \in Callers, RecheckThread(c) \/ GiveUp(c) PROVE RowInv'
  BY <1>4, <1>8 DEF RecheckThread, GiveUp
<1>9. CASE UNCHANGED vars
  BY <1>4, <1>9 DEF vars
<1> QED
  BY <1>1, <1>2, <1>3, <1>5, <1>6, <1>7, <1>8, <1>9 DEF Next, CallerStep

\* Orderly, with helpers in time, room for a row and XTM calls that succeed.
Tame == /\ Orderly /\ Patient
        /\ "helper" \notin Faults /\ "xtm" \notin Faults
        /\ Rows # {}

LEMMA RowInvHolds ==
  Tame /\ Spec => [](TypeOK /\ SoleInv /\ HelpInv /\ RowInv)
<1> SUFFICES ASSUME Orderly, Patient, "helper" \notin Faults,
                    "xtm" \notin Faults, Rows # {}
             PROVE  Spec => [](TypeOK /\ SoleInv /\ HelpInv /\ RowInv)
  BY DEF Tame
<1>1. Init => RowInv
  BY DEF Init, RowInv, Active, FreeHelper, Live, AllRest, Resting, Empty,
         Entry, Links, NoEntry
<1>2. TypeOK /\ SoleInv /\ HelpInv /\ RowInv /\ [Next]_vars => RowInv'
  BY NextRowInv
<1> QED
  BY <1>1, <1>2, HelpInvHolds, PTL DEF Spec

\* A line that waits for its WAN side has its link, enabled and of the kind
\* the standard calls for, however the request, the events and the helpers
\* interleave.
THEOREM ConfiguringHasLinkHolds == Tame /\ Spec => []ConfiguringHasLink
<1> SUFFICES ASSUME Tame PROVE Spec => []ConfiguringHasLink
  OBVIOUS
<1>1. TypeOK /\ SoleInv /\ HelpInv /\ RowInv => ConfiguringHasLink
  <2> SUFFICES ASSUME TypeOK, SoleInv, HelpInv, RowInv, NEW t \in Threads,
                      smState[t] = "XTM_CONFIGURING",
                      pc[t] \in {"loop", "xtmPoll", "notifyUp"}, HasTable
               PROVE  \E r \in Rows :
                         rows[<<LineTable, r>>] =
                            [present |-> TRUE, ll |-> TRUE, enable |-> TRUE,
                             fresh |-> FALSE]
    BY DEF ConfiguringHasLink, HasTable, LineTable
  <2>1. Live(t) /\ \A h \in Helpers : ~Active(h)
    BY OwnerIsThread DEF Live, WaitPCs
  <2>2. Ready
    BY <2>1 DEF RowInv, ThreadPhase, MustHave
  <2>3. PICK r \in Rows : Held(LineTable, r) /\ Entry(LineTable, r).enable
    BY <2>2 DEF Ready, Made
  <2>4. Entry(LineTable, r) \in RowRecord
    BY DEF TypeOK, Links, Tables, LineTable, Entry
  <2> QED
    BY <2>3, <2>4 DEF Held, Only, Entry, RowRecord
<1> QED
  BY <1>1, RowInvHolds, PTL

\* Whatever the state machine and its helper are at, only the line's table can
\* have a link in use, and it has one link at most.
LEMMA LinksShape ==
  ASSUME TypeOK, RowInv
  PROVE  /\ OthersRest
         /\ Empty(LineTable) \/ \E r \in Rows : Only(LineTable, r)
<1>1. AllRest \/ Ready \/ Tidy => \/ AllRest
                                  \/ /\ OthersRest
                                     /\ \E r \in Rows : Held(LineTable, r)
  BY DEF Ready, Tidy, Made
<1>2. AllRest => /\ OthersRest
                 /\ \/ Empty(LineTable)
                    \/ \E r \in Rows : Held(LineTable, r)
  <2>1. LineTable \in Tables
    BY DEF LineTable, Tables
  <2> QED
    BY <2>1 DEF AllRest, OthersRest, Resting, Left
<1>3. ASSUME NEW h \in Helpers, Active(h)
      PROVE  \/ AllRest \/ Ready \/ Tidy
             \/ /\ OthersRest
                /\ \E r \in Rows : Held(LineTable, r) \/ Only(LineTable, r)
  <2>1. helper[h].job \in {"create", "delete"}
    BY DEF TypeOK, HelperRecord
  <2> QED
    BY <1>3, <2>1 DEF RowInv, HelperPhase, Found, Off, Added, Only
<1>4. ASSUME \A h \in Helpers : ~Active(h)
      PROVE  AllRest \/ Ready \/ Tidy
  BY <1>4 DEF RowInv, ThreadPhase
<1> QED
  BY <1>1, <1>2, <1>3, <1>4 DEF Held

\* The line never has two links in one table, so its lookup by LowerLayers has
\* one answer, and never two enabled ones whose numbers are read right: for
\* any numbers the links may get, although ATM links are never deleted.
THEOREM OneRowHolds == Tame /\ Spec => []OneRow
<1> SUFFICES ASSUME Tame PROVE Spec => []OneRow
  OBVIOUS
<1>1. TypeOK /\ RowInv => OneRow
  <2> SUFFICES ASSUME TypeOK, RowInv,
                      NEW tb \in Tables, NEW r \in Rows, Entry(tb, r).present,
                      NEW uc \in Tables, NEW q \in Rows, Entry(uc, q).present,
                      \/ tb = uc
                      \/ /\ Entry(tb, r).enable /\ LastDigit(r) = r
                         /\ Entry(uc, q).enable /\ LastDigit(q) = q
               PROVE  tb = uc /\ r = q
    <3>1. \A k \in Links : \E tb \in Tables, r \in Rows :
             /\ k = <<tb, r>> /\ k[1] = tb /\ k[2] = r
             /\ rows[k] = Entry(tb, r)
      BY DEF Links, Entry
    <3> QED
      BY <3>1 DEF OneRow, ReadRight
  <2>1. \A t \in Tables : Empty(t) \/ \E x \in Rows : Only(t, x)
    BY LinksShape DEF OthersRest, Resting, Left, Held
  <2>2. tb = uc => r = q
    BY <2>1 DEF Empty, Only
  <2>3. ASSUME NEW t \in Tables, NEW x \in Rows, Entry(t, x).present,
               Entry(t, x).enable, LastDigit(x) = x
        PROVE  t = LineTable
    BY <2>3, LinksShape DEF OthersRest, Resting, Empty, Left, Held, Only
  <2> QED
    BY <2>2, <2>3
<1> QED
  BY <1>1, RowInvHolds, PTL

\* No link is left in use by a state machine that has gone back to
\* DISCONNECTED or has ended: a PTM link is gone, an ATM link disabled, unless
\* its number was misread.
THEOREM NoOrphanRowHolds == Tame /\ Spec => []NoOrphanRow
<1> SUFFICES ASSUME Tame PROVE Spec => []NoOrphanRow
  OBVIOUS
<1>1. HelpInv /\ RowInv => NoOrphanRow
  <2> SUFFICES ASSUME HelpInv, RowInv,
                      NEW tb \in Tables, NEW r \in Rows, Entry(tb, r).present,
                      LastDigit(r) = r, tb = "PTM" \/ Entry(tb, r).enable
               PROVE  \E t \in Threads : Attached(t)
    BY DEF NoOrphanRow, ReadRight, Entry, Links
  <2>1. ASSUME NEW h \in Helpers, Active(h)
        PROVE  Attached(helper[h].owner) /\ helper[h].owner \in Threads
    BY <2>1 DEF HelpInv, WaitPCs, Attached
  <2>2. CASE \A h \in Helpers : ~Active(h)
    <3>1. ~AllRest
      BY DEF AllRest, Resting, Empty, Left, Held, Only
    <3>2. PICK t \in Threads : Live(t) /\ ThreadPhase(t)
      BY <2>2, <3>1 DEF RowInv
    <3> QED
      BY <3>1, <3>2 DEF ThreadPhase, MustHave, MayHave, Attached
  <2> QED
    BY <2>1, <2>2
<1> QED
  BY <1>1, RowInvHolds, PTL
=============================================================================
