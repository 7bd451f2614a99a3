----------------------------- MODULE XdslReport -----------------------------
(***************************************************************************)
(* The DSL report of RdkXdslManager: the unlocked settings of              *)
(* xdsl_report.c, the reporter threads that harvest and send, the data     *)
(* model object Device.DSL.X_RDK_Report.DSL with its staged values, and    *)
(* the records kept in PSM across restarts.                                *)
(*                                                                         *)
(* The settings are plain globals: each read or write of one is a step of  *)
(* its own where another thread can tell the difference.                   *)
(***************************************************************************)
EXTENDS Naturals, FiniteSets

CONSTANTS
    Reporters, \* slots for reporter threads (bound on live reporters)
    Periods,   \* reporting periods a request may ask for
    TTLs,      \* override TTLs a request may ask for, of 1..900
    Faults,    \* which calls may fail, see AllFaults
    Calm       \* reporting is not enabled again until the last reporter is gone

\* XdslReportValidateReportingPeriod.
ValidPeriods == {0, 1, 5, 15, 30, 60, 300, 900, 1800, 3600, 10800, 21600,
                 43200, 86400}

AllFaults ==
    {"create",  \* pthread_create of a reporter
     "parodus", \* ParodusClientInit, when there is no url
     "harvest", \* harvester_report_Xdsl: schema file or avro writer
     "psm"}     \* the store answers no get and takes no set

ASSUME ReportConstants ==
    /\ Periods \subseteq Nat
    /\ TTLs \subseteq 1..900
    /\ Faults \subseteq AllFaults
    /\ Calm \in BOOLEAN
-----------------------------------------------------------------------------
VARIABLES
    rep,      \* the globals: status, period, dflt, ttl and spent, the
              \* seconds of override used up (CurrentOverrideReportingPeriod)
    dml,      \* the report object of the data model, staged values included
    nvram,    \* the three PSM records
    bus,      \* the thread that delivers data-model requests
    reporter  \* the reporter threads

vars == <<rep, dml, nvram, bus, reporter>>

\* Mutant: the number is kept as it is.
ToBool_Wide(n) == n

\* A BOOL holds whatever number it is given: 2 stands for any but 0 and 1.
ToBool(n) == IF n > 1 THEN 2 ELSE n

Settings == [status : 0..2, period : Nat, dflt : Nat, ttl : Nat, spent : Nat]
Object   == [Enabled : 0..2, bEnableChanged : BOOLEAN, ReportingPeriod : Nat,
             bReportingPeriodChanged : BOOLEAN]
Store    == [Enabled : 0..2, ReportingPeriod : Nat, Default : Nat]

\* The states of a thread in XdslReportSetStatus: before the test, before the
\* assignment, before the second test.
Setting == {"compare", "assign", "branch"}
BusPCs  == {"boot", "idle", "save"} \cup Setting
RepPCs  == {"off", "init", "top", "decide", "send", "wait", "cleanup"}
               \cup Setting
Reporter == [pc : RepPCs, failed : BOOLEAN, ttl : Nat, dflt : Nat,
             period : Nat]

PowerOn  == [status |-> 0, period |-> 0, dflt |-> 0, ttl |-> 0, spent |-> 0]
NewObject == [Enabled |-> 0, bEnableChanged |-> FALSE, ReportingPeriod |-> 0,
              bReportingPeriodChanged |-> FALSE]
NoReporter  == [pc |-> "off", failed |-> FALSE, ttl |-> 0, dflt |-> 0,
                period |-> 0]
NewReporter == [NoReporter EXCEPT !.pc = "init"]

Live(r)  == reporter[r].pc # "off"
Idle     == bus.pc = "idle"

Init ==
    /\ rep = PowerOn
    /\ dml = NewObject
    /\ nvram \in [Enabled : 0..1, ReportingPeriod : Periods \cap ValidPeriods,
                  Default : Periods \cap ValidPeriods]
    /\ bus = [pc |-> "boot", arg |-> 0]
    /\ reporter = [r \in Reporters |-> NoReporter]
-----------------------------------------------------------------------------
(* XdslReportSetStatus, run by the bus thread and by a reporter.           *)

\* After the assignment: a thread is started or a waiting one is signalled, by
\* what the status is by now.  f is reporter with the caller's own move done.
StartOrSignal(f) ==
    LET waiting == {r \in Reporters : f[r].pc = "wait"} IN
    IF rep.status # 0
    THEN {[f EXCEPT ![r] = NewReporter] : r \in {q \in Reporters :
                                                     f[q].pc = "off"}}
             \cup (IF "create" \in Faults THEN {f} ELSE {})
    ELSE IF waiting = {} THEN {f}
         ELSE {[f EXCEPT ![r].pc = "top"] : r \in waiting}

\* Mutant: does not test whether the status changes.
BusSetStatus_NoTest ==
    /\ \/ /\ bus.pc = "compare"
          /\ bus' = [bus EXCEPT !.pc = "assign"]
          /\ UNCHANGED <<rep, reporter>>
       \/ /\ bus.pc = "assign"
          /\ rep' = [rep EXCEPT !.status = bus.arg]
          /\ bus' = [bus EXCEPT !.pc = "branch"]
          /\ UNCHANGED reporter
       \/ /\ bus.pc = "branch"
          /\ bus' = [bus EXCEPT !.pc = "save"]
          /\ reporter' \in StartOrSignal(reporter)
          /\ UNCHANGED rep
    /\ UNCHANGED <<dml, nvram>>

\* XdslReportSetStatus(bus.arg): test, write, test again.
BusSetStatus ==
    /\ \/ /\ bus.pc = "compare"
          /\ bus' = [bus EXCEPT !.pc = IF rep.status = bus.arg THEN "save"
                                                               ELSE "assign"]
          /\ UNCHANGED <<rep, reporter>>
       \/ /\ bus.pc = "assign"
          /\ rep' = [rep EXCEPT !.status = bus.arg]
          /\ bus' = [bus EXCEPT !.pc = "branch"]
          /\ UNCHANGED reporter
       \/ /\ bus.pc = "branch"
          /\ bus' = [bus EXCEPT !.pc = "save"]
          /\ reporter' \in StartOrSignal(reporter)
          /\ UNCHANGED rep
    /\ UNCHANGED <<dml, nvram>>
-----------------------------------------------------------------------------
(* The process starts and dies.                                            *)

\* What GetNVRamULONGConfiguration leaves in psmValue; prev was in it.
Got(record, prev) == {record} \cup (IF "psm" \in Faults THEN {prev} ELSE {})

\* What SetNVRamULONGConfiguration leaves in the store.
Stored(value, old) == {value} \cup (IF "psm" \in Faults THEN {old} ELSE {})

\* DmlXdslReportInit up to XdslReportSetStatus: one psmValue for three gets.
DmlXdslReportInit ==
    /\ bus.pc = "boot"
    /\ \E dflt \in Got(nvram.Default, 0) :
       \E period \in Got(nvram.ReportingPeriod, dflt) :
       \E enabled \in Got(nvram.Enabled, ToBool(period)) :
          /\ rep' = [rep EXCEPT !.dflt = dflt, !.period = period]
          /\ dml' = [NewObject EXCEPT !.ReportingPeriod = period,
                                      !.Enabled = enabled]
          /\ bus' = [pc |-> "compare", arg |-> enabled]
    /\ UNCHANGED <<nvram, reporter>>

Crash ==
    /\ bus.pc # "boot"
    /\ rep' = PowerOn
    /\ dml' = NewObject
    /\ bus' = [pc |-> "boot", arg |-> 0]
    /\ reporter' = [r \in Reporters |-> NoReporter]
    /\ UNCHANGED <<nvram>>
-----------------------------------------------------------------------------
(* Requests of the data model.                                             *)

\* X_RDK_Report_DSL_SetParamBoolValue and ..._SetParamUlongValue only stage.
SetEnabled(v) ==
    /\ Idle
    /\ dml' = [dml EXCEPT !.Enabled = v, !.bEnableChanged = TRUE]
    /\ UNCHANGED <<rep, nvram, bus, reporter>>

SetReportingPeriod(p) ==
    /\ Idle
    /\ dml' = [dml EXCEPT !.ReportingPeriod = p,
                          !.bReportingPeriodChanged = TRUE]
    /\ UNCHANGED <<rep, nvram, bus, reporter>>

\* Mutant: a period set together with Enabled is not looked at.
Valid_NotWithEnabled ==
    dml.bReportingPeriodChanged /\ ~dml.bEnableChanged
        => dml.ReportingPeriod \in ValidPeriods

\* X_RDK_Report_DSL_Validate.
Valid == dml.bReportingPeriodChanged => dml.ReportingPeriod \in ValidPeriods

\* The bound on reporters: reporting is enabled only while there is a free slot
\* for it and one more for each reporter, which may start another as it ends.
Room == Cardinality({r \in Reporters : Live(r)})
            < Cardinality({r \in Reporters : ~Live(r)})

\* X_RDK_Report_DSL_Commit, first part: Enabled goes to XdslReportSetStatus.
\* Calm: reporting that is off is enabled only once its last reporter is gone.
Commit ==
    /\ Idle
    /\ dml.bEnableChanged /\ dml.Enabled # 0 =>
          /\ Room
          /\ Calm /\ rep.status = 0 => \A r \in Reporters : ~Live(r)
    /\ dml.bEnableChanged \/ dml.bReportingPeriodChanged
    /\ Valid
    /\ bus' = IF dml.bEnableChanged
              THEN [pc |-> "compare", arg |-> dml.Enabled]
              ELSE [pc |-> "save", arg |-> 0]
    /\ UNCHANGED <<rep, dml, nvram, reporter>>

\* Mutant: the store is left as it was.
CommitRest_NotStored ==
    /\ bus.pc = "save"
    /\ rep' = IF dml.bReportingPeriodChanged
              THEN [rep EXCEPT !.period = dml.ReportingPeriod] ELSE rep
    /\ dml' = [dml EXCEPT !.bEnableChanged = FALSE,
                          !.bReportingPeriodChanged = FALSE]
    /\ bus' = [pc |-> "idle", arg |-> 0]
    /\ UNCHANGED <<nvram, reporter>>

\* The rest of Commit: the flags, the period and the store.
CommitRest ==
    /\ bus.pc = "save"
    /\ rep' = IF dml.bReportingPeriodChanged
              THEN [rep EXCEPT !.period = dml.ReportingPeriod] ELSE rep
    /\ \E enabled \in IF dml.bEnableChanged
                      THEN Stored(dml.Enabled, nvram.Enabled)
                      ELSE {nvram.Enabled},
          period \in IF dml.bReportingPeriodChanged
                     THEN Stored(dml.ReportingPeriod, nvram.ReportingPeriod)
                     ELSE {nvram.ReportingPeriod} :
          nvram' = [nvram EXCEPT !.Enabled = enabled,
                                 !.ReportingPeriod = period]
    /\ dml' = [dml EXCEPT !.bEnableChanged = FALSE,
                          !.bReportingPeriodChanged = FALSE]
    /\ bus' = [pc |-> "idle", arg |-> 0]
    /\ UNCHANGED <<reporter>>

\* X_RDK_Report_DSL_Rollback: after a failed Validate, of this object or of
\* another one in the same request.
Rollback ==
    /\ Idle
    /\ dml.bEnableChanged \/ dml.bReportingPeriodChanged
    /\ dml' = [Enabled |-> IF dml.bEnableChanged THEN rep.status
                                                 ELSE dml.Enabled,
               bEnableChanged |-> FALSE,
               ReportingPeriod |-> IF dml.bReportingPeriodChanged
                                   THEN rep.period ELSE dml.ReportingPeriod,
               bReportingPeriodChanged |-> FALSE]
    /\ UNCHANGED <<rep, nvram, bus, reporter>>

\* X_RDK_Report_DSL_Default_SetParamUlongValue works at once.
SetDefaultReportingPeriod(p) ==
    /\ Idle
    /\ p \in ValidPeriods
    /\ rep' = [rep EXCEPT !.dflt = p]
    /\ \E stored \in Stored(p, nvram.Default) :
          nvram' = [nvram EXCEPT !.Default = stored]
    /\ UNCHANGED <<dml, bus, reporter>>

SetOverrideTTL(ttl) ==
    /\ Idle
    /\ rep' = [rep EXCEPT !.ttl = ttl]
    /\ UNCHANGED <<dml, nvram, bus, reporter>>

-----------------------------------------------------------------------------
(* The reporter thread.                                                    *)

Move(r, p) == reporter' = [reporter EXCEPT ![r].pc = p]

\* The same, and what the reporter had read is of no use any more.
Forget(r, p) ==
    reporter' = [reporter EXCEPT ![r] = [NoReporter EXCEPT !.pc = p]]

\* XdslReportingThread: ParodusClientInit retries until the service answers.
XdslReportingThread(r) ==
    /\ reporter[r].pc = "init"
    /\ \/ Move(r, "top")
       \/ "parodus" \in Faults /\ Move(r, "off")
    /\ UNCHANGED <<rep, dml, nvram, bus>>

\* Mutant: a failed reporter just ends.
LoopTop_JustEnd(r) ==
    /\ reporter[r].pc = "top"
    /\ IF ~reporter[r].failed /\ rep.status # 0
       THEN reporter' = [reporter EXCEPT ![r] =
                            [pc |-> "decide", failed |-> FALSE,
                             ttl |-> rep.ttl, dflt |-> rep.dflt,
                             period |-> rep.period]]
       ELSE Move(r, "cleanup")
    /\ UNCHANGED <<rep, dml, nvram, bus>>

\* Mutant: the loop only ends on a failure.
LoopTop_IgnoresStatus(r) ==
    /\ reporter[r].pc = "top"
    /\ IF ~reporter[r].failed
       THEN reporter' = [reporter EXCEPT ![r] =
                            [pc |-> "decide", failed |-> FALSE,
                             ttl |-> rep.ttl, dflt |-> rep.dflt,
                             period |-> rep.period]]
       ELSE Move(r, "compare")
    /\ UNCHANGED <<rep, dml, nvram, bus>>

\* The loop test of StartXdslReporting and the three reads after it.
LoopTop(r) ==
    /\ reporter[r].pc = "top"
    /\ IF ~reporter[r].failed /\ rep.status # 0
       THEN reporter' = [reporter EXCEPT ![r] =
                            [pc |-> "decide", failed |-> FALSE,
                             ttl |-> rep.ttl, dflt |-> rep.dflt,
                             period |-> rep.period]]
       ELSE Move(r, "compare")
    /\ UNCHANGED <<rep, dml, nvram, bus>>

\* Mutant: does not count the override time.
Decide_NoCount(r) ==
    LET my == reporter[r] IN
    /\ my.pc = "decide"
    /\ \/ /\ my.ttl # 0 /\ (my.period = 0 \/ rep.spent >= my.ttl)
          /\ rep' = [rep EXCEPT !.ttl = 0, !.spent = 0]
          /\ Forget(r, "wait")
       \/ /\ my.ttl # 0 /\ my.period # 0 /\ rep.spent < my.ttl
          /\ Forget(r, "send")
          /\ UNCHANGED rep
       \/ /\ my.ttl = 0
          /\ Forget(r, IF my.dflt # 0 THEN "send" ELSE "wait")
          /\ UNCHANGED rep
    /\ UNCHANGED <<dml, nvram, bus>>

\* Mutant: nothing is sent by default.
Decide_OverrideOnly(r) ==
    LET my == reporter[r] IN
    /\ my.pc = "decide"
    /\ \/ /\ my.ttl # 0 /\ my.period = 0
          /\ rep' = [rep EXCEPT !.ttl = 0]
          /\ Forget(r, "wait")
       \/ /\ my.ttl # 0 /\ my.period # 0 /\ rep.spent >= my.ttl
          /\ rep' = [rep EXCEPT !.ttl = 0, !.spent = 0]
          /\ Forget(r, "wait")
       \/ /\ my.ttl # 0 /\ my.period # 0 /\ rep.spent < my.ttl
          /\ rep' = [rep EXCEPT !.spent = @ + my.period]
          /\ Forget(r, "send")
       \/ /\ my.ttl = 0
          /\ Forget(r, "wait")
          /\ UNCHANGED rep
    /\ UNCHANGED <<dml, nvram, bus>>

\* What to do and how long to wait.  An override with a period sends until its
\* TTL is spent; one without only waits; without one the default rules.
Decide(r) ==
    LET my == reporter[r] IN
    /\ my.pc = "decide"
    /\ \/ /\ my.ttl # 0 /\ my.period = 0
          /\ rep' = [rep EXCEPT !.ttl = 0]
          /\ Forget(r, "wait")
       \/ /\ my.ttl # 0 /\ my.period # 0 /\ rep.spent >= my.ttl
          /\ rep' = [rep EXCEPT !.ttl = 0, !.spent = 0]
          /\ Forget(r, "wait")
       \/ /\ my.ttl # 0 /\ my.period # 0 /\ rep.spent < my.ttl
          /\ rep' = [rep EXCEPT !.spent = @ + my.period]
          /\ Forget(r, "send")
       \/ /\ my.ttl = 0
          /\ Forget(r, IF my.dflt # 0 THEN "send" ELSE "wait")
          /\ UNCHANGED rep
    /\ UNCHANGED <<dml, nvram, bus>>

\* PrepareAndSendXdslReport: a line that is up is harvested (LinkStatus is
\* another component's and may be anything here), and a harvest that fails ends
\* the loop after the wait.
PrepareAndSendXdslReport(r) ==
    /\ reporter[r].pc = "send"
    /\ \E failed \in IF "harvest" \in Faults THEN BOOLEAN ELSE {FALSE} :
          reporter' = [reporter EXCEPT ![r].pc = "wait", ![r].failed = failed]
    /\ UNCHANGED <<rep, dml, nvram, bus>>

\* The wait times out.
WaitTimedOut(r) ==
    /\ reporter[r].pc = "wait"
    /\ Move(r, "top")
    /\ UNCHANGED <<rep, dml, nvram, bus>>

\* XdslReportSetStatus(FALSE) at the end of StartXdslReporting.
ReporterSetStatus(r) ==
    /\ \/ /\ reporter[r].pc = "compare"
          /\ Move(r, IF rep.status = 0 THEN "cleanup" ELSE "assign")
          /\ UNCHANGED rep
       \/ /\ reporter[r].pc = "assign"
          /\ rep' = [rep EXCEPT !.status = 0]
          /\ Move(r, "branch")
       \/ /\ reporter[r].pc = "branch"
          /\ reporter' \in StartOrSignal([reporter EXCEPT ![r].pc = "cleanup"])
          /\ UNCHANGED rep
    /\ UNCHANGED <<dml, nvram, bus>>

\* rt_avro_cleanup, and the thread is gone.
Cleanup(r) ==
    /\ reporter[r].pc = "cleanup"
    /\ reporter' = [reporter EXCEPT ![r] = NoReporter]
    /\ UNCHANGED <<rep, dml, nvram, bus>>
-----------------------------------------------------------------------------
BusStep == DmlXdslReportInit \/ BusSetStatus \/ CommitRest

Request ==
    \/ \E v \in {0, 1} : SetEnabled(v)
    \/ \E p \in Periods : SetReportingPeriod(p)
    \/ Commit \/ Rollback
    \/ \E p \in Periods : SetDefaultReportingPeriod(p)
    \/ \E ttl \in TTLs : SetOverrideTTL(ttl)

ReporterStep(r) ==
    \/ XdslReportingThread(r) \/ LoopTop(r) \/ Decide(r)
    \/ PrepareAndSendXdslReport(r) \/ WaitTimedOut(r)
    \/ ReporterSetStatus(r) \/ Cleanup(r)

Next == \/ BusStep \/ Request \/ Crash
        \/ \E r \in Reporters : ReporterStep(r)

Spec == Init /\ [][Next]_vars

\* Threads that can run do run, and a timed wait ends; requests need not come.
Fairness == /\ WF_vars(BusStep)
            /\ \A r \in Reporters : WF_vars(ReporterStep(r))

FairSpec == Spec /\ Fairness
-----------------------------------------------------------------------------
(* Properties.                                                             *)

\* Every variable keeps its type.
TypeOK ==
    /\ rep \in Settings
    /\ dml \in Object
    /\ nvram \in Store
    /\ bus \in [pc : BusPCs, arg : 0..2]
    /\ reporter \in [Reporters -> Reporter]

\* r will still look at the status before it ends.
Serving(r) == reporter[r].pc \in RepPCs \ {"off", "branch", "cleanup"}

\* Reporting that is enabled has a thread that serves it, whatever the order
\* in which XdslReportSetStatus runs in the bus thread and in reporters that
\* end (it tests and writes the status without a lock).
StatusHasReporter ==
    rep.status # 0 => \/ bus.pc = "branch"
                      \/ \E r \in Reporters :
                            Serving(r) \/ reporter[r].pc = "branch"

\* One reporter at most, so that the avro writer has one user.
OneReporter == \A r, q \in Reporters : Live(r) /\ Live(q) => r = q

\* Between requests the data model, the running settings and the store agree,
\* across restarts too: what a user reads is in force and will be again.
CommittedInForce ==
    bus.pc = "idle" =>
        /\ ~dml.bEnableChanged =>
              dml.Enabled = rep.status /\ dml.Enabled = nvram.Enabled
        /\ ~dml.bReportingPeriodChanged =>
              /\ dml.ReportingPeriod = rep.period
              /\ dml.ReportingPeriod = nvram.ReportingPeriod
        /\ rep.dflt = nvram.Default

\* A period outside the list of XdslReportValidateReportingPeriod is neither
\* used nor stored, whatever was staged, rolled back or read back from PSM.
ValidInForce ==
    {rep.period, rep.dflt, nvram.ReportingPeriod, nvram.Default}
        \subseteq ValidPeriods

\* When the request that disabled reporting is over, no reporter is asleep in
\* its wait (XdslReportSetStatus: "Send signal to unblock thread").
DisabledNotAsleep ==
    rep.status = 0 /\ bus.pc = "idle" =>
        \A r \in Reporters : reporter[r].pc # "wait"

\* Disabled reporting ends every reporter.
ReporterStops ==
    rep.status = 0 ~> rep.status # 0 \/ \A r \in Reporters : ~Live(r)

\* An override does not last for ever.
OverrideEnds == rep.status # 0 /\ rep.ttl # 0 ~> rep.status = 0 \/ rep.ttl = 0

\* Enabled reporting with a period gets to sending again and again.
KeepsReporting ==
    (rep.status # 0 /\ rep.dflt # 0)
        ~> \/ rep.status = 0 \/ rep.dflt = 0
           \/ \E r \in Reporters : reporter[r].pc = "send"
           \/ rep.ttl # 0 /\ rep.period = 0
=============================================================================
