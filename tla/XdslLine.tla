------------------------------ MODULE XdslLine ------------------------------
(***************************************************************************)
(* The life of one DSL line in RdkXdslManager: the global line record      *)
(* (gpstLineGInfo[0]), the data-model calls that write it, the link        *)
(* callback of the HAL, the DSL state machine thread of xdsl_manager.c and *)
(* the XTM helper threads that create and delete the PTM or ATM link.      *)
(*                                                                         *)
(* Every critical section of gmXdslGInfo_mutex and every call to another   *)
(* agent is one atomic step; two such sections in a row are two steps      *)
(* wherever another thread can tell the difference.                        *)
(***************************************************************************)
EXTENDS Integers, FiniteSets

CONSTANTS
    Callers,      \* threads of the message bus that deliver data-model calls
    Threads,      \* slots for state machine threads (bound on live threads)
    Helpers,      \* slots for XTM helper threads (bound on live helpers)
    Rows,         \* instance numbers a PTM or ATM link may get (bound)
    NoThread,     \* iface_thread_id 0
    NoHelperOwner,\* owner of a free helper slot
    LinkEvents,   \* link states the HAL callback delivers
    Standards,    \* values the driver may give for StandardUsed
    NameAtStart,  \* "" until the first link event, else "dsl0"
    AdslAllowed,  \* isAdslAllowed(); TRUE on every product but HUB4
    Faults,       \* which calls may fail, see AllFaults
    Prompt,       \* a runnable thread is not outrun by the bus, see below
    Patient       \* XTM helpers finish within the 15 s of the timed wait

LinkStates == {"Up", "Initializing", "EstablishingLink", "NoSignal",
               "Disabled", "Error"}
WanStates  == {"UP", "DOWN"}
AllStandards == {"ADSL", "VDSL", "GFAST"}
IfNames    == {"", "dsl0"}
AllFaults  ==
    {"create",      \* malloc or pthread_create of the state machine
     "standard",    \* thirty queries of StandardUsed without an answer
     "setspecific", \* pthread_setspecific
     "helper",      \* pthread_create of an XTM helper
     "xtm",         \* a call to the XTM tables
     "wan"}         \* a call to the WAN manager

ASSUME LineConstants ==
    /\ NoThread \notin Threads
    /\ NoHelperOwner \notin Threads
    /\ Rows \subseteq Nat \ {0}
    /\ LinkEvents \subseteq LinkStates
    /\ Standards \subseteq AllStandards
    /\ NameAtStart \in IfNames
    /\ AdslAllowed \in BOOLEAN
    /\ Faults \subseteq AllFaults
    /\ Prompt \in BOOLEAN
    /\ Patient \in BOOLEAN
-----------------------------------------------------------------------------
VARIABLES
    line,        \* gpstLineGInfo[0]
    dmlUpstream, \* pXDSLLine->Upstream, the data model's own copy
    caller,      \* progress of DmlXdslLineSetUpstream per bus thread
    pc,          \* where each state machine thread stands
    smState,     \* currentSmState of each state machine thread
    priv,        \* Name in the thread's XDSL_SM_PRIVATE_INFO, or "freed"
    helper,      \* the XTM helper threads
    rows,        \* the PTM and ATM link tables of the XTM agent
    wanLink      \* Wan.LinkStatus as last set at the WAN manager

smVars == <<pc, smState, priv>>
vars   == <<line, dmlUpstream, caller, smVars, helper, rows, wanLink>>

SmStates == {"EXIT", "DISCONNECTED", "TRAINING", "XTM_CONFIGURING",
             "WAN_LINK_UP"}
PCs == {"off", "spawned", "publish", "query", "loop", "xtmPoll", "trained",
        "preCreate", "waitCreate", "notifyUp", "phyDown", "preDelete",
        "waitDelete", "notifyDown", "exit", "clear"}
HelperPCs == {"free", "read", "find", "add", "configure", "disable",
              "delete", "signal"}

Tables == {"PTM", "ATM"}
Links  == Tables \X Rows
NoRow  == -1

LineRecord == [Name : IfNames, Upstream : BOOLEAN, WanStatus : WanStates,
               LinkStatus : LinkStates,
               StandardUsed : AllStandards \cup {"none"},
               tid : Threads \cup {NoThread}]
HelperRecord == [pc : HelperPCs, job : {"create", "delete"},
                 owner : Threads \cup {NoHelperOwner},
                 table : Tables, ll : BOOLEAN, row : Nat \cup {NoRow}]

\* An entry of a link table: its LowerLayers are this line's, its Enable as
\* it was last set, and bNew, that is, it was added and never committed.
RowRecord == [present : BOOLEAN, ll : BOOLEAN, enable : BOOLEAN,
              fresh : BOOLEAN]

FreeHelper == [pc |-> "free", job |-> "create", owner |-> NoHelperOwner,
               table |-> "PTM", ll |-> FALSE, row |-> NoRow]
NoEntry    == [present |-> FALSE, ll |-> FALSE, enable |-> FALSE,
               fresh |-> FALSE]
NewEntry   == [present |-> TRUE, ll |-> FALSE, enable |-> FALSE,
               fresh |-> TRUE]

\* What a state sees when the name lookup fails: a zeroed copy.
Zeroed == [Name |-> "", Upstream |-> FALSE, WanStatus |-> "zero",
           LinkStatus |-> "zero", StandardUsed |-> "none", tid |-> NoThread]
-----------------------------------------------------------------------------
(* Lookups by interface name.                                              *)

\* DmlXdslLineGetIndexFromIfName finds the entry of this thread.
Known(t) == priv[t] = line.Name

\* DmlXdslLineGetCopyOfGlobalInfoForGivenIfName, from thread t.
GlobalInfo(t) == IF Known(t) THEN line ELSE Zeroed

\* A helper looks up through the pointer into its owner's private info; once
\* that buffer is freed the comparison may come out either way.
KnownToHelper(h) ==
    LET owner == helper[h].owner
    IN  IF priv[owner] = "freed" THEN BOOLEAN ELSE {Known(owner)}

Live(t)        == pc[t] # "off"
Active(h)      == helper[h].pc # "free"
FreeThread(t)  == /\ ~Live(t)
                  /\ \A h \in Helpers : helper[h].owner # t
Starting(t)    == pc[t] \in {"spawned", "publish"}
Leaving(t)     == \/ pc[t] \in {"exit", "clear"}
                  \/ pc[t] = "loop" /\ smState[t] = "EXIT"
-----------------------------------------------------------------------------
Init ==
    /\ line = [Name |-> NameAtStart, Upstream |-> FALSE,
               WanStatus |-> "DOWN", LinkStatus |-> "Disabled",
               StandardUsed |-> "none", tid |-> NoThread]
    /\ dmlUpstream = FALSE
    /\ caller = [c \in Callers |-> [pc |-> "idle", tid |-> NoThread]]
    /\ pc = [t \in Threads |-> "off"]
    /\ smState = [t \in Threads |-> "EXIT"]
    /\ priv = [t \in Threads |-> "freed"]
    /\ helper = [h \in Helpers |-> FreeHelper]
    /\ rows = [k \in Links |-> NoEntry]
    /\ wanLink = "none"
-----------------------------------------------------------------------------
(* Data-model calls and HAL events.                                        *)

\* Mutant: starts without looking at iface_thread_id.
SetUpstream_NoWait(c, v) ==
    /\ caller[c].pc = "idle"
    /\ v # dmlUpstream
    /\ dmlUpstream' = v
    /\ line' = [line EXCEPT !.Upstream = v]
    /\ caller' = [caller EXCEPT ![c] =
                     IF v THEN [pc |-> "check", tid |-> NoThread] ELSE @]
    /\ UNCHANGED <<smVars, helper, rows, wanLink>>

\* Line_SetParamBoolValue("Upstream") and the first critical section of
\* DmlXdslLineSetUpstream.  Prompt: the bus delivers no further request until
\* a thread just created has published its id.
SetUpstream(c, v) ==
    /\ caller[c].pc = "idle"
    /\ v # dmlUpstream
    /\ Prompt => \A t \in Threads : ~Starting(t)
    /\ dmlUpstream' = v
    /\ line' = [line EXCEPT !.Upstream = v]
    /\ caller' = [caller EXCEPT ![c] =
                     IF v THEN [pc |-> "check", tid |-> line.tid] ELSE @]
    /\ UNCHANGED <<smVars, helper, rows, wanLink>>

\* One pass of the wait for the old thread: sleep(1), read the id again.
RecheckThread(c) ==
    /\ caller[c].pc = "check"
    /\ caller[c].tid # NoThread
    /\ caller' = [caller EXCEPT ![c].tid = line.tid]
    /\ UNCHANGED <<line, dmlUpstream, smVars, helper, rows, wanLink>>

\* Fifteen passes are over.  Prompt: they are never all spent while the old
\* thread is on its last 50 ms pass.
GiveUp(c) ==
    /\ caller[c].pc = "check"
    /\ caller[c].tid # NoThread
    /\ Prompt => line.tid # NoThread /\ ~Leaving(line.tid)
    /\ caller' = [caller EXCEPT ![c] = [pc |-> "idle", tid |-> NoThread]]
    /\ UNCHANGED <<line, dmlUpstream, smVars, helper, rows, wanLink>>

\* No thread id is published: snapshot the name and start a state machine.
StartStateMachine(c) ==
    /\ caller[c].pc = "check"
    /\ caller[c].tid = NoThread
    /\ caller' = [caller EXCEPT ![c] = [pc |-> "idle", tid |-> NoThread]]
    /\ \/ \E t \in Threads :
             /\ FreeThread(t)
             /\ pc' = [pc EXCEPT ![t] = "spawned"]
             /\ smState' = [smState EXCEPT ![t] = "EXIT"]
             /\ priv' = [priv EXCEPT ![t] = line.Name]
       \/ "create" \in Faults /\ UNCHANGED smVars
    /\ UNCHANGED <<line, dmlUpstream, helper, rows, wanLink>>

\* Line_SetParamUlongValue("X_RDK_WanStatus").
SetWanStatus(c, w) ==
    /\ caller[c].pc = "idle"
    /\ line' = [line EXCEPT !.WanStatus = w]
    /\ UNCHANGED <<dmlUpstream, caller, smVars, helper, rows, wanLink>>

\* DmlXdslLineLinkStatusCallback: the first event names the line.
LinkStatusCallback(s) ==
    /\ line' = [line EXCEPT !.Name = "dsl0", !.LinkStatus = s]
    /\ UNCHANGED <<dmlUpstream, caller, smVars, helper, rows, wanLink>>
-----------------------------------------------------------------------------
(* The state machine thread: start.                                        *)

Goto(t, p, s) ==
    /\ pc' = [pc EXCEPT ![t] = p]
    /\ smState' = [smState EXCEPT ![t] = s]

Terminate(t) ==
    /\ Goto(t, "off", "EXIT")
    /\ priv' = [priv EXCEPT ![t] = "freed"]

\* DmlXdslLine_UpdateIfaceTidByGivenIfName(Name, self): lookup, then write.
LookupToPublish(t) ==
    /\ pc[t] = "spawned"
    /\ Goto(t, IF Known(t) THEN "publish" ELSE "query", smState[t])
    /\ UNCHANGED <<line, dmlUpstream, caller, priv, helper, rows, wanLink>>

PublishTid(t) ==
    /\ pc[t] = "publish"
    /\ line' = [line EXCEPT !.tid = t]
    /\ Goto(t, "query", smState[t])
    /\ UNCHANGED <<dmlUpstream, caller, priv, helper, rows, wanLink>>

\* Mutant: writes its copy of the record back, zeroed when the lookup failed.
QueryStandard_WriteBack(t, s) ==
    /\ pc[t] = "query"
    /\ line' = [GlobalInfo(t) EXCEPT !.StandardUsed = s]
    /\ Goto(t, "loop", "DISCONNECTED")
    /\ UNCHANGED <<dmlUpstream, caller, priv, helper, rows, wanLink>>

\* The driver answers StandardUsed; TransitionStart follows.
QueryStandard(t, s) ==
    /\ pc[t] = "query"
    /\ line' = IF Known(t) THEN [line EXCEPT !.StandardUsed = s] ELSE line
    /\ \/ Goto(t, "loop", "DISCONNECTED") /\ UNCHANGED priv
       \/ "setspecific" \in Faults /\ Terminate(t)
    /\ UNCHANGED <<dmlUpstream, caller, helper, rows, wanLink>>

\* Thirty queries without an answer: goto EXIT before pthread_setspecific, so
\* pthread_getspecific yields NULL there, the id is not cleared and the
\* private info is not freed.
QueryExhausted(t) ==
    /\ pc[t] = "query"
    /\ "standard" \in Faults
    /\ Goto(t, "off", "EXIT")
    /\ UNCHANGED <<line, dmlUpstream, caller, priv, helper, rows, wanLink>>
-----------------------------------------------------------------------------
(* The state machine thread: one pass of the loop per state.  A pass that  *)
(* stays where it is changes nothing and is a stuttering step.             *)

InState(t, s) == pc[t] = "loop" /\ smState[t] = s

\* Mutant: no way from DISCONNECTED when the WAN side is already up.
StateDisconnected_NoShortcut(t) ==
    /\ InState(t, "DISCONNECTED")
    /\ LET g == GlobalInfo(t) IN
       \/ ~g.Upstream /\ Goto(t, "loop", "EXIT")
       \/ /\ g.Upstream /\ g.LinkStatus = "Up" /\ g.WanStatus = "DOWN"
          /\ Goto(t, "trained", smState[t])
       \/ /\ g.Upstream
          /\ g.LinkStatus \in {"Initializing", "EstablishingLink"}
          /\ Goto(t, "loop", "TRAINING")
    /\ UNCHANGED <<line, dmlUpstream, caller, priv, helper, rows, wanLink>>

StateDisconnected(t) ==
    /\ InState(t, "DISCONNECTED")
    /\ LET g == GlobalInfo(t) IN
       \/ ~g.Upstream /\ Goto(t, "loop", "EXIT")
       \/ /\ g.Upstream
          /\ \/ /\ g.LinkStatus = "Up" /\ g.WanStatus = "DOWN"
                /\ Goto(t, "trained", smState[t])
             \/ /\ g.LinkStatus = "Up" /\ g.WanStatus = "UP"
                /\ Goto(t, "notifyUp", smState[t])
             \/ /\ g.LinkStatus \in {"Initializing", "EstablishingLink"}
                /\ Goto(t, "loop", "TRAINING")
    /\ UNCHANGED <<line, dmlUpstream, caller, priv, helper, rows, wanLink>>

\* Mutant: a line that keeps training ignores Upstream FALSE.
StateTraining_IgnoresUpstream(t) ==
    /\ InState(t, "TRAINING")
    /\ LET g == GlobalInfo(t) IN
       \/ g.LinkStatus = "Up" /\ Goto(t, "trained", smState[t])
       \/ /\ g.LinkStatus \in {"NoSignal", "Disabled", "Error"}
          /\ Goto(t, "phyDown", smState[t])
    /\ UNCHANGED <<line, dmlUpstream, caller, priv, helper, rows, wanLink>>

StateTraining(t) ==
    /\ InState(t, "TRAINING")
    /\ LET g == GlobalInfo(t) IN
       \/ g.LinkStatus = "Up" /\ Goto(t, "trained", smState[t])
       \/ /\ g.LinkStatus # "Up"
          /\ ~g.Upstream \/ g.LinkStatus \in {"NoSignal", "Disabled", "Error"}
          /\ Goto(t, "phyDown", smState[t])
    /\ UNCHANGED <<line, dmlUpstream, caller, priv, helper, rows, wanLink>>

\* StateXtmConfiguring, before its copy: on an ADSL line the thread itself
\* sets WanStatus.
XtmSetAdslWanUp(t) ==
    /\ InState(t, "XTM_CONFIGURING")
    /\ line' = IF AdslAllowed /\ Known(t) /\ line.StandardUsed = "ADSL"
               THEN [line EXCEPT !.WanStatus = "UP"]
               ELSE line
    /\ Goto(t, "xtmPoll", smState[t])
    /\ UNCHANGED <<dmlUpstream, caller, priv, helper, rows, wanLink>>

StateXtmConfiguring(t) ==
    /\ pc[t] = "xtmPoll"
    /\ LET g == GlobalInfo(t)
           down == ~g.Upstream \/ g.LinkStatus # "Up"
       IN  \/ g.WanStatus = "UP" /\ Goto(t, "notifyUp", smState[t])
           \/ g.WanStatus # "UP" /\ down /\ Goto(t, "phyDown", smState[t])
           \/ g.WanStatus # "UP" /\ ~down /\ Goto(t, "loop", smState[t])
    /\ UNCHANGED <<line, dmlUpstream, caller, priv, helper, rows, wanLink>>

\* Mutant: falls back to DISCONNECTED without TransitionPhyInterfaceDown.
StateWanLinkUp_Silent(t) ==
    /\ InState(t, "WAN_LINK_UP")
    /\ LET g == GlobalInfo(t)
       IN  ~g.Upstream \/ g.WanStatus = "DOWN" \/ g.LinkStatus # "Up"
    /\ Goto(t, "loop", "DISCONNECTED")
    /\ UNCHANGED <<line, dmlUpstream, caller, priv, helper, rows, wanLink>>

\* Mutant: Upstream FALSE ends the thread at once.
StateWanLinkUp_Exit(t) ==
    /\ InState(t, "WAN_LINK_UP")
    /\ LET g == GlobalInfo(t) IN
       \/ ~g.Upstream /\ Goto(t, "loop", "EXIT")
       \/ /\ g.Upstream
          /\ g.WanStatus = "DOWN" \/ g.LinkStatus # "Up"
          /\ Goto(t, "phyDown", smState[t])
    /\ UNCHANGED <<line, dmlUpstream, caller, priv, helper, rows, wanLink>>

\* Mutant: does not watch the link.
StateWanLinkUp_IgnoresLink(t) ==
    /\ InState(t, "WAN_LINK_UP")
    /\ ~GlobalInfo(t).Upstream \/ GlobalInfo(t).WanStatus = "DOWN"
    /\ Goto(t, "phyDown", smState[t])
    /\ UNCHANGED <<line, dmlUpstream, caller, priv, helper, rows, wanLink>>

StateWanLinkUp(t) ==
    /\ InState(t, "WAN_LINK_UP")
    /\ LET g == GlobalInfo(t)
       IN  ~g.Upstream \/ g.WanStatus = "DOWN" \/ g.LinkStatus # "Up"
    /\ Goto(t, "phyDown", smState[t])
    /\ UNCHANGED <<line, dmlUpstream, caller, priv, helper, rows, wanLink>>
-----------------------------------------------------------------------------
(* The state machine thread: transitions.                                  *)

\* pthread_create of an XTM helper that is given t's own copy of the name.
SpawnHelper(t, job) ==
    \E h \in Helpers :
        /\ ~Active(h)
        /\ helper' = [helper EXCEPT ![h] =
                         [pc |-> "read", job |-> job, owner |-> t,
                          table |-> "PTM", ll |-> FALSE, row |-> NoRow]]

\* Mutant: does not wait for the creation.
TransitionTrained_NoWait(t) ==
    /\ pc[t] = "trained"
    /\ SpawnHelper(t, "create")
    /\ Goto(t, "loop", "XTM_CONFIGURING")
    /\ UNCHANGED <<line, dmlUpstream, caller, priv, rows, wanLink>>

\* TransitionTrained up to the timed wait of DmlXdslCreateXTMLink.
TransitionTrained(t) ==
    /\ pc[t] = "trained"
    /\ \/ SpawnHelper(t, "create") /\ Goto(t, "preCreate", smState[t])
       \/ /\ "helper" \in Faults
          /\ Goto(t, "loop", "XTM_CONFIGURING")
          /\ UNCHANGED helper
    /\ UNCHANGED <<line, dmlUpstream, caller, priv, rows, wanLink>>

\* Mutant: does not wait for the deletion.
TransitionPhyInterfaceDown_NoWait(t) ==
    /\ pc[t] = "phyDown"
    /\ SpawnHelper(t, "delete")
    /\ Goto(t, "notifyDown", smState[t])
    /\ UNCHANGED <<line, dmlUpstream, caller, priv, rows, wanLink>>

\* Mutant: only tells the WAN manager.
TransitionPhyInterfaceDown_NoDelete(t) ==
    /\ pc[t] = "phyDown"
    /\ Goto(t, "notifyDown", smState[t])
    /\ UNCHANGED <<line, dmlUpstream, caller, priv, helper, rows, wanLink>>

\* TransitionPhyInterfaceDown up to the timed wait of DmlXdslDeleteXTMLink.
TransitionPhyInterfaceDown(t) ==
    /\ pc[t] = "phyDown"
    /\ \/ SpawnHelper(t, "delete") /\ Goto(t, "preDelete", smState[t])
       \/ /\ "helper" \in Faults
          /\ Goto(t, "notifyDown", smState[t])
          /\ UNCHANGED helper
    /\ UNCHANGED <<line, dmlUpstream, caller, priv, rows, wanLink>>

\* mCondMutex is taken and the wait begins; the helper is already running.
BeginWait(t) ==
    /\ \/ pc[t] = "preCreate" /\ Goto(t, "waitCreate", smState[t])
       \/ pc[t] = "preDelete" /\ Goto(t, "waitDelete", smState[t])
    /\ UNCHANGED <<line, dmlUpstream, caller, priv, helper, rows, wanLink>>

\* Where t goes on when its wait is over, whatever ended it.
Resume(t) ==
    \/ pc[t] = "waitCreate" /\ Goto(t, "loop", "XTM_CONFIGURING")
    \/ pc[t] = "waitDelete" /\ Goto(t, "notifyDown", smState[t])

\* pthread_cond_timedwait gives up.  Patient: not before t's helper is done.
WaitTimedOut(t) ==
    /\ Resume(t)
    /\ Patient => \A h \in Helpers : helper[h].owner # t
    /\ UNCHANGED <<line, dmlUpstream, caller, priv, helper, rows, wanLink>>

\* DmlXdslSetWanLinkStatusForWanManager; without a name there is no instance.
SetWanLinkStatus(t, v) ==
    \/ wanLink' = IF GlobalInfo(t).Name = "dsl0" THEN v ELSE wanLink
    \/ "wan" \in Faults /\ UNCHANGED wanLink

TransitionWanLinkUp(t) ==
    /\ pc[t] = "notifyUp"
    /\ SetWanLinkStatus(t, "Up")
    /\ Goto(t, "loop", "WAN_LINK_UP")
    /\ UNCHANGED <<line, dmlUpstream, caller, priv, helper, rows>>

NotifyWanDown(t) ==
    /\ pc[t] = "notifyDown"
    /\ SetWanLinkStatus(t, "Down")
    /\ Goto(t, "loop", "DISCONNECTED")
    /\ UNCHANGED <<line, dmlUpstream, caller, priv, helper, rows>>

\* One more pass sees STATE_EXIT and leaves the loop.
LeaveLoop(t) ==
    /\ InState(t, "EXIT")
    /\ Goto(t, "exit", smState[t])
    /\ UNCHANGED <<line, dmlUpstream, caller, priv, helper, rows, wanLink>>

\* Mutant: the thread ends with its id still published.
LookupToClear_KeepTid(t) ==
    /\ pc[t] = "exit"
    /\ Terminate(t)
    /\ UNCHANGED <<line, dmlUpstream, caller, helper, rows, wanLink>>

\* DmlXdslLine_UpdateIfaceTidByGivenIfName(Name, 0): lookup, then write.
LookupToClear(t) ==
    /\ pc[t] = "exit"
    /\ \/ Known(t) /\ Goto(t, "clear", smState[t]) /\ UNCHANGED priv
       \/ ~Known(t) /\ Terminate(t)
    /\ UNCHANGED <<line, dmlUpstream, caller, helper, rows, wanLink>>

ClearTid(t) ==
    /\ pc[t] = "clear"
    /\ line' = [line EXCEPT !.tid = NoThread]
    /\ Terminate(t)
    /\ UNCHANGED <<dmlUpstream, caller, helper, rows, wanLink>>
-----------------------------------------------------------------------------
(* The XTM helper threads.                                                 *)

MoveHelper(h, p) == helper' = [helper EXCEPT ![h].pc = p]

\* DmlXdslLine_GetStandardUsedByGivenIfName picks the table.
ReadStandard(h) ==
    /\ helper[h].pc = "read"
    /\ \E known \in KnownToHelper(h) :
          IF known /\ line.StandardUsed \in {"ADSL", "VDSL"}
          THEN helper' = [helper EXCEPT
                   ![h].pc = "find",
                   ![h].table = IF line.StandardUsed = "ADSL"
                                THEN "ATM" ELSE "PTM"]
          ELSE MoveHelper(h, "signal")
    /\ UNCHANGED <<line, dmlUpstream, caller, smVars, rows, wanLink>>

\* The links DmlXdslGetLowerLayersInstanceInOtherAgent would match: those with
\* this line's LowerLayers, or with an empty one when the name is not known.
Matching(table, ll) ==
    {r \in Rows : rows[<<table, r>>].present /\ rows[<<table, r>>].ll = ll}

\* Two characters of "...Link.12." are read as the number, "2." here.
LastDigit(r) == r % 10

FindRow(h) ==
    /\ helper[h].pc = "find"
    /\ \E known \in KnownToHelper(h) :
       LET found   == Matching(helper[h].table, known)
           create  == helper[h].job = "create"
           onFound == IF create THEN "configure" ELSE "disable"
           onNone  == IF create THEN "add" ELSE "signal"
       IN  \/ \E r \in found :
                 helper' = [helper EXCEPT ![h].pc = onFound, ![h].ll = known,
                                          ![h].row = LastDigit(r)]
           \/ /\ found = {} \/ "xtm" \in Faults
              /\ helper' = [helper EXCEPT ![h].pc = onNone, ![h].ll = known]
    /\ UNCHANGED <<line, dmlUpstream, caller, smVars, rows, wanLink>>

\* CcspBaseIf_AddTblRow, which returns the whole number; the table picks one
\* that is free, and a full table refuses.
AddRow(h) ==
    /\ helper[h].pc = "add"
    /\ LET table == helper[h].table
           free  == {r \in Rows : ~rows[<<table, r>>].present}
       IN
       \/ \E r \in free :
             /\ rows' = [rows EXCEPT ![<<table, r>>] = NewEntry]
             /\ helper' = [helper EXCEPT ![h].pc = "configure", ![h].row = r]
       \/ /\ free = {} \/ "xtm" \in Faults
          /\ MoveHelper(h, "signal")
          /\ UNCHANGED rows
    /\ UNCHANGED <<line, dmlUpstream, caller, smVars, wanLink>>

\* The link a helper means, and whether it is there; a set on one that is not
\* fails at the table and is ignored here.
Target(h)    == <<helper[h].table, helper[h].row>>
Addressed(h) == Target(h) \in Links /\ rows[Target(h)].present
SetRow(h, new) == rows' = [rows EXCEPT ![Target(h)] = new]

\* The outcomes of setting LowerLayers; a failure is ignored here too.
LowerLayersSet(entry, ll) ==
    {[entry EXCEPT !.ll = ll]} \cup (IF "xtm" \in Faults THEN {entry} ELSE {})

\* The outcomes of setting Enable, which also commits the link: the set may
\* fail, or only the commit of a new link.
EnableSet(entry, b) ==
    {[entry EXCEPT !.enable = b, !.fresh = FALSE]}
        \cup (IF "xtm" \in Faults
              THEN {entry, [entry EXCEPT !.enable = b]} ELSE {})

\* Mutant: forgets LowerLayers.
ConfigureRow_NoLowerLayers(h) ==
    /\ helper[h].pc = "configure"
    /\ IF Addressed(h)
       THEN \E entry \in EnableSet(rows[Target(h)], TRUE) : SetRow(h, entry)
       ELSE UNCHANGED rows
    /\ MoveHelper(h, "signal")
    /\ UNCHANGED <<line, dmlUpstream, caller, smVars, wanLink>>

\* LowerLayers, Alias and Enable = true, one set after the other.
ConfigureRow(h) ==
    /\ helper[h].pc = "configure"
    /\ IF Addressed(h)
       THEN \E named \in LowerLayersSet(rows[Target(h)], helper[h].ll) :
               \E entry \in EnableSet(named, TRUE) : SetRow(h, entry)
       ELSE UNCHANGED rows
    /\ MoveHelper(h, "signal")
    /\ UNCHANGED <<line, dmlUpstream, caller, smVars, wanLink>>

\* Enable = false, then sleep(2).
DisableRow(h) ==
    /\ helper[h].pc = "disable"
    /\ IF Addressed(h)
       THEN \E entry \in EnableSet(rows[Target(h)], FALSE) : SetRow(h, entry)
       ELSE UNCHANGED rows
    /\ MoveHelper(h, "delete")
    /\ UNCHANGED <<line, dmlUpstream, caller, smVars, wanLink>>

\* CcspBaseIf_DeleteTblRow.  A committed ATM link never goes: DmlDelAtm gives
\* the driver a NULL link, fails, and the entry stays in the table.
DeleteRow(h) ==
    /\ helper[h].pc = "delete"
    /\ \/ /\ Addressed(h)
          /\ helper[h].table = "PTM" \/ rows[Target(h)].fresh
          /\ SetRow(h, NoEntry)
       \/ /\ \/ ~Addressed(h)
             \/ helper[h].table = "ATM" /\ ~rows[Target(h)].fresh
             \/ "xtm" \in Faults
          /\ UNCHANGED rows
    /\ MoveHelper(h, "signal")
    /\ UNCHANGED <<line, dmlUpstream, caller, smVars, wanLink>>

\* The threads that wait on mCreationCond or mDeletionCond.
Waiting(job) ==
    {t \in Threads : pc[t] = IF job = "create" THEN "waitCreate"
                                               ELSE "waitDelete"}

\* pthread_cond_signal wakes one waiter, whoever it is, and is lost when
\* nobody waits.  Then the helper is gone.
SignalDone(h) ==
    /\ helper[h].pc = "signal"
    /\ LET waiting == Waiting(helper[h].job) IN
       \/ \E t \in waiting : Resume(t)
       \/ waiting = {} /\ UNCHANGED <<pc, smState>>
    /\ helper' = [helper EXCEPT ![h] = FreeHelper]
    /\ UNCHANGED <<line, dmlUpstream, caller, priv, rows, wanLink>>
-----------------------------------------------------------------------------
CallerStep(c) == \/ RecheckThread(c) \/ GiveUp(c) \/ StartStateMachine(c)

ThreadStep(t) ==
    \/ LookupToPublish(t) \/ PublishTid(t)
    \/ \E s \in Standards : QueryStandard(t, s)
    \/ QueryExhausted(t)
    \/ StateDisconnected(t) \/ StateTraining(t)
    \/ XtmSetAdslWanUp(t) \/ StateXtmConfiguring(t) \/ StateWanLinkUp(t)
    \/ TransitionTrained(t) \/ TransitionPhyInterfaceDown(t)
    \/ BeginWait(t) \/ WaitTimedOut(t)
    \/ TransitionWanLinkUp(t) \/ NotifyWanDown(t)
    \/ LeaveLoop(t) \/ LookupToClear(t) \/ ClearTid(t)

HelperStep(h) ==
    \/ ReadStandard(h) \/ FindRow(h) \/ AddRow(h) \/ ConfigureRow(h)
    \/ DisableRow(h) \/ DeleteRow(h) \/ SignalDone(h)

Next ==
    \/ \E c \in Callers, v \in BOOLEAN : SetUpstream(c, v)
    \/ \E c \in Callers, w \in WanStates : SetWanStatus(c, w)
    \/ \E s \in LinkEvents : LinkStatusCallback(s)
    \/ \E c \in Callers : CallerStep(c)
    \/ \E t \in Threads : ThreadStep(t)
    \/ \E h \in Helpers : HelperStep(h)

Spec == Init /\ [][Next]_vars

\* Threads that can run do run, and the caller's loop is bounded; requests and
\* link events need not come.
Fairness ==
    /\ \A c \in Callers : /\ WF_vars(RecheckThread(c))
                          /\ WF_vars(GiveUp(c))
                          /\ WF_vars(StartStateMachine(c))
    /\ \A t \in Threads : WF_vars(ThreadStep(t))
    /\ \A h \in Helpers : WF_vars(HelperStep(h))

FairSpec == Spec /\ Fairness
-----------------------------------------------------------------------------
(* Properties.                                                             *)

\* Every variable keeps its type.
TypeOK ==
    /\ line \in LineRecord
    /\ dmlUpstream \in BOOLEAN
    /\ caller \in [Callers -> [pc : {"idle", "check"},
                               tid : Threads \cup {NoThread}]]
    /\ pc \in [Threads -> PCs]
    /\ smState \in [Threads -> SmStates]
    /\ priv \in [Threads -> IfNames \cup {"freed"}]
    /\ helper \in [Helpers -> HelperRecord]
    /\ rows \in [Links -> RowRecord]
    /\ wanLink \in {"none", "Up", "Down"}

\* t told the WAN manager Up and has not yet told it Down.
Watching(t) ==
    /\ smState[t] = "WAN_LINK_UP"
    /\ pc[t] \in {"loop", "phyDown", "preDelete", "waitDelete", "notifyDown"}
    /\ priv[t] = "dsl0"

\* The WAN manager holds Up only while some state machine still watches the
\* line and owes it a Down (xdsl_manager.c: every way out of WAN_LINK_UP is
\* TransitionPhyInterfaceDown), whatever the number of threads, the naming of
\* the line and the timing of the helpers.
NoOrphanUp == wanLink = "Up" => \E t \in Threads : Watching(t)

\* One line has at most one state machine thread (the comment in
\* DmlXdslLineSetUpstream: a thread only starts if no other runs).
OneStateMachine == \A t, u \in Threads : Live(t) /\ Live(u) => t = u

\* A published iface_thread_id is that of a thread that is still there
\* (DslStateMachineThread: "Clean iface id thread" before it ends); otherwise
\* DmlXdslLineSetUpstream refuses to start another for good.
TidNamesLiveThread == line.tid # NoThread => Live(line.tid)

\* No helper still holds a pointer into private info its state machine has
\* freed.
HelperNameAlive ==
    \A h \in Helpers : Active(h) => priv[helper[h].owner] # "freed"

\* t has begun to create an XTM link and has not seen its deletion through.
Attached(t) ==
    \/ smState[t] \in {"XTM_CONFIGURING", "WAN_LINK_UP"}
    \/ pc[t] \in {"preCreate", "waitCreate", "preDelete", "waitDelete"}

\* The number of a link survives its being read from two characters.
ReadRight(k) == LastDigit(k[2]) = k[2]

\* No link is left in use when the line is disconnected or its thread gone: a
\* PTM link, or an ATM link that is enabled, exists only while a state machine
\* answers for it.  (A committed ATM link stays in its table, disabled; a link
\* whose number is misread is neither disabled nor deleted.)
NoOrphanRow ==
    (\E k \in Links : /\ rows[k].present /\ ReadRight(k)
                      /\ k[1] = "PTM" \/ rows[k].enable)
        => \E t \in Threads : Attached(t)

\* The line has at most one link per table, so that the lookup by LowerLayers
\* has one answer although ATM links stay and numbers are misread; and at most
\* one enabled link, when numbers are read right.
OneRow ==
    \A j, k \in Links :
        /\ rows[j].present /\ rows[k].present
        /\ \/ j[1] = k[1]
           \/ /\ rows[j].enable /\ rows[k].enable
              /\ ReadRight(j) /\ ReadRight(k)
        => j = k

\* StateXtmConfiguring waits for a link that is there, created, enabled and of
\* the kind the line's standard calls for, and it is there still when the WAN
\* manager is told Up - be it new, left over from an earlier session, or one
\* whose number is misread.
ConfiguringHasLink ==
    \A t \in Threads :
        /\ smState[t] = "XTM_CONFIGURING"
        /\ pc[t] \in {"loop", "xtmPoll", "notifyUp"}
        /\ line.StandardUsed \in {"ADSL", "VDSL"}
        => \E r \in Rows :
              rows[<<IF line.StandardUsed = "ADSL" THEN "ATM" ELSE "PTM", r>>]
                  = [present |-> TRUE, ll |-> TRUE, enable |-> TRUE,
                     fresh |-> FALSE]

\* Upstream withdrawn and not set again: the state machine ends and its id is
\* cleared, so that a later Upstream can start one.
UpstreamOffStops ==
    ~line.Upstream ~> \/ line.Upstream
                      \/ /\ line.tid = NoThread
                         /\ \A t \in Threads : ~Live(t)

\* A lost link does not stay announced: the Up is taken back, unless the line
\* recovers first.
LinkLossWithdrawn ==
    (wanLink = "Up" /\ line.LinkStatus # "Up")
        ~> (wanLink # "Up" \/ line.LinkStatus = "Up")

\* A wanted line whose link is up and whose WAN side is up gets announced,
\* however the request raced with the end of an earlier state machine.
LinkGainAnnounced ==
    (line.Upstream /\ line.LinkStatus = "Up" /\ line.WanStatus = "UP")
        ~> \/ wanLink = "Up"
           \/ ~line.Upstream
           \/ line.LinkStatus # "Up"
           \/ line.WanStatus = "DOWN"

\* The session the WAN manager sees, abstractly.
Session == INSTANCE WanLinkSession
               WITH running <- \E t \in Threads : Live(t), link <- wanLink

\* The line implements the abstract session under every interleaving.
SessionSpec == Session!Spec
=============================================================================
