-------------------------- MODULE XdslReportProofs --------------------------
(***************************************************************************)
(* Theorems about XdslReport, for any number of reporters, any requested   *)
(* periods and TTLs, and every combination of failures but the named ones. *)
(***************************************************************************)
EXTENDS XdslReport, TLAPS

\* What an update of one of the three records keeps.
LEMMA SettingsUpdate ==
  ASSUME NEW s \in Settings, NEW n \in Nat
  PROVE  /\ [s EXCEPT !.period = n] \in Settings
         /\ [s EXCEPT !.dflt = n] \in Settings
         /\ [s EXCEPT !.ttl = n] \in Settings
<1>1. [s EXCEPT !.period = n] \in Settings
  BY DEF Settings
<1>2. [s EXCEPT !.dflt = n] \in Settings
  BY DEF Settings
<1>3. [s EXCEPT !.ttl = n] \in Settings
  BY DEF Settings
<1> QED
  BY <1>1, <1>2, <1>3

LEMMA SettingsBoot ==
  ASSUME NEW s \in Settings, NEW n \in Nat, NEW m \in Nat
  PROVE  [s EXCEPT !.dflt = n, !.period = m] \in Settings
  BY DEF Settings

LEMMA SettingsSpend ==
  ASSUME NEW s \in Settings, NEW n \in Nat
  PROVE  [s EXCEPT !.spent = @ + n] \in Settings
<1>1. s.spent + n \in Nat
  BY DEF Settings
<1> QED
  BY <1>1 DEF Settings

LEMMA SettingsReset ==
  ASSUME NEW s \in Settings
  PROVE  [s EXCEPT !.ttl = 0, !.spent = 0] \in Settings
  BY DEF Settings

LEMMA ObjectEnabled ==
  ASSUME NEW d \in Object, NEW v \in 0..2
  PROVE  [d EXCEPT !.Enabled = v, !.bEnableChanged = TRUE] \in Object
  BY DEF Object

LEMMA ObjectPeriod ==
  ASSUME NEW d \in Object, NEW n \in Nat
  PROVE  [d EXCEPT !.ReportingPeriod = n, !.bReportingPeriodChanged = TRUE]
            \in Object
  BY DEF Object

LEMMA ObjectBoot ==
  ASSUME NEW d \in Object, NEW n \in Nat, NEW v \in 0..2
  PROVE  [d EXCEPT !.ReportingPeriod = n, !.Enabled = v] \in Object
  BY DEF Object

LEMMA ObjectReset ==
  ASSUME NEW d \in Object
  PROVE  [d EXCEPT !.bEnableChanged = FALSE,
                   !.bReportingPeriodChanged = FALSE] \in Object
  BY DEF Object

LEMMA StoreUpdate ==
  ASSUME NEW s \in Store, NEW n \in Nat, NEW v \in 0..2
  PROVE  [s EXCEPT !.Enabled = v, !.ReportingPeriod = n] \in Store
  BY DEF Store

LEMMA StoreDefault ==
  ASSUME NEW s \in Store, NEW n \in Nat
  PROVE  [s EXCEPT !.Default = n] \in Store
  BY DEF Store

LEMMA ReporterUpdate ==
  ASSUME NEW f \in [Reporters -> Reporter], NEW r \in Reporters,
         NEW p \in RepPCs, NEW failed \in BOOLEAN
  PROVE  /\ [f EXCEPT ![r].pc = p] \in [Reporters -> Reporter]
         /\ [f EXCEPT ![r].pc = p, ![r].failed = failed]
               \in [Reporters -> Reporter]
<1> DEFINE g == [f EXCEPT ![r].pc = p]
<1>1. [f[r] EXCEPT !.pc = p] \in Reporter
  BY DEF Reporter
<1>2. g \in [Reporters -> Reporter]
  BY <1>1
<1>3. [g[r] EXCEPT !.failed = failed] \in Reporter
  BY <1>2 DEF Reporter
<1>4. [f EXCEPT ![r].pc = p, ![r].failed = failed]
         = [g EXCEPT ![r] = [g[r] EXCEPT !.failed = failed]]
  BY Zenon
<1> QED
  BY <1>2, <1>3, <1>4

\* XdslReportSetStatus starts or wakes a reporter and keeps their types.
LEMMA StartOrSignalType ==
  ASSUME NEW f \in [Reporters -> Reporter]
  PROVE  StartOrSignal(f) \subseteq [Reporters -> Reporter]
<1>1. NewReporter \in Reporter
  BY DEF NewReporter, NoReporter, Reporter, RepPCs, Setting
<1>2. \A r \in Reporters : [f[r] EXCEPT !.pc = "top"] \in Reporter
  BY DEF Reporter, RepPCs
<1> QED
  BY <1>1, <1>2 DEF StartOrSignal

LEMMA InitType == Init => TypeOK
<1> SUFFICES ASSUME Init PROVE TypeOK
  OBVIOUS
<1> DEFINE Some == Periods \cap ValidPeriods
<1>1. nvram \in Store
  <2>1. nvram \in [Enabled : 0..1, ReportingPeriod : Some, Default : Some]
    BY DEF Init
  <2>2. Some \subseteq Nat
    BY ReportConstants
  <2>3. 0..1 \subseteq 0..2
    OBVIOUS
  <2> HIDE DEF Some
  <2> QED
    BY <2>1, <2>2, <2>3 DEF Store
<1>2. NoReporter \in Reporter
  BY DEF NoReporter, Reporter, RepPCs
<1> QED
  BY <1>1, <1>2 DEF Init, TypeOK, PowerOn, Settings, NewObject, Object, BusPCs

\* The steps of the bus thread and the requests keep every type.
LEMMA BusType ==
  ASSUME TypeOK, BusStep \/ Request \/ Crash
  PROVE  TypeOK'
<1> USE ReportConstants DEF TypeOK
<1>1. CASE DmlXdslReportInit
  <2> DEFINE Boot(dflt, period, enabled) ==
           /\ rep' = [rep EXCEPT !.dflt = dflt, !.period = period]
           /\ dml' = [NewObject EXCEPT !.ReportingPeriod = period,
                                       !.Enabled = enabled]
           /\ bus' = [pc |-> "compare", arg |-> enabled]
  <2>1. PICK dflt \in Nat, period \in Nat, enabled \in 0..2 :
           Boot(dflt, period, enabled)
    <3>1. /\ nvram.Default \in Nat /\ nvram.ReportingPeriod \in Nat
          /\ nvram.Enabled \in 0..2
      BY DEF Store
    <3>2. \A a, b \in Nat : Got(a, b) \subseteq Nat
      BY DEF Got
    <3>3. \A a, b \in 0..2 : Got(a, b) \subseteq 0..2
      BY DEF Got
    <3>4. \A n \in Nat : ToBool(n) \in 0..2
      BY DEF ToBool
    <3>5. PICK dflt \in Got(nvram.Default, 0) :
             \E period \in Got(nvram.ReportingPeriod, dflt) :
             \E enabled \in Got(nvram.Enabled, ToBool(period)) :
                Boot(dflt, period, enabled)
      BY <1>1 DEF DmlXdslReportInit
    <3>6. PICK period \in Got(nvram.ReportingPeriod, dflt) :
             \E enabled \in Got(nvram.Enabled, ToBool(period)) :
                Boot(dflt, period, enabled)
      BY <3>5
    <3>7. PICK enabled \in Got(nvram.Enabled, ToBool(period)) :
             Boot(dflt, period, enabled)
      BY <3>6
    <3>8. dflt \in Nat
      BY <3>1, <3>2, <3>5
    <3>9. period \in Nat
      BY <3>1, <3>2, <3>6, <3>8
    <3>10. enabled \in 0..2
      BY <3>1, <3>3, <3>4, <3>7, <3>9
    <3> QED
      BY <3>7, <3>8, <3>9, <3>10
  <2>2. rep' \in Settings
    <3>1. [rep EXCEPT !.dflt = dflt, !.period = period] \in Settings
      BY SettingsBoot
    <3> QED
      BY <2>1, <3>1
  <2>3. dml' \in Object
    <3>1. NewObject \in Object
      BY DEF NewObject, Object
    <3>2. [NewObject EXCEPT !.ReportingPeriod = period, !.Enabled = enabled]
             \in Object
      BY <3>1, ObjectBoot
    <3> QED
      BY <2>1, <3>2
  <2>4. bus' \in [pc : BusPCs, arg : 0..2]
    BY <2>1 DEF BusPCs, Setting
  <2> QED
    BY <1>1, <2>2, <2>3, <2>4 DEF DmlXdslReportInit
<1>2. CASE BusSetStatus
  <2>1. reporter' \in [Reporters -> Reporter]
    BY <1>2, StartOrSignalType DEF BusSetStatus
  <2> QED
    BY <1>2, <2>1 DEF BusSetStatus, Settings, BusPCs, Setting
<1>3. CASE CommitRest
  <2>1. nvram' \in Store /\ rep' \in Settings
    <3>1. /\ dml.ReportingPeriod \in Nat /\ nvram.ReportingPeriod \in Nat
          /\ nvram.Enabled \in 0..2 /\ dml.Enabled \in 0..2
      BY DEF Object, Store
    <3>2. rep' \in Settings
      <4>1. [rep EXCEPT !.period = dml.ReportingPeriod] \in Settings
        BY <3>1, SettingsUpdate
      <4> QED
        BY <1>3, <4>1 DEF CommitRest
    <3>3. /\ Stored(dml.Enabled, nvram.Enabled) \subseteq 0..2
          /\ Stored(dml.ReportingPeriod, nvram.ReportingPeriod) \subseteq Nat
      BY <3>1 DEF Stored
    <3>4. PICK enabled \in IF dml.bEnableChanged
                            THEN Stored(dml.Enabled, nvram.Enabled)
                            ELSE {nvram.Enabled},
                period \in IF dml.bReportingPeriodChanged
                           THEN Stored(dml.ReportingPeriod,
                                       nvram.ReportingPeriod)
                           ELSE {nvram.ReportingPeriod} :
              nvram' = [nvram EXCEPT !.Enabled = enabled,
                                     !.ReportingPeriod = period]
      BY <1>3 DEF CommitRest
    <3>5. enabled \in 0..2 /\ period \in Nat
      BY <3>1, <3>3, <3>4
    <3> QED
      BY <3>2, <3>4, <3>5, StoreUpdate
  <2>2. dml' \in Object
    BY <1>3, ObjectReset DEF CommitRest
  <2>3. bus' \in [pc : BusPCs, arg : 0..2]
    BY <1>3 DEF CommitRest, BusPCs
  <2> QED
    BY <1>3, <2>1, <2>2, <2>3 DEF CommitRest
<1>4. CASE Request
  <2>1. ASSUME NEW v \in {0, 1}, SetEnabled(v) PROVE TypeOK'
    <3>1. v \in 0..2
      OBVIOUS
    <3>2. dml' \in Object
      BY <2>1, <3>1, ObjectEnabled DEF SetEnabled
    <3> QED
      BY <2>1, <3>2 DEF SetEnabled
  <2>2. ASSUME NEW p \in Periods, SetReportingPeriod(p) PROVE TypeOK'
    <3>1. dml' \in Object
      <4>1. p \in Nat /\ dml \in Object
        OBVIOUS
      <4>2. [dml EXCEPT !.ReportingPeriod = p,
                        !.bReportingPeriodChanged = TRUE] \in Object
        BY <4>1, ObjectPeriod
      <4> QED
        BY <2>2, <4>2 DEF SetReportingPeriod
    <3> QED
      BY <2>2, <3>1 DEF SetReportingPeriod
  <2>3. CASE Commit
    <3>1. bus' \in [pc : BusPCs, arg : 0..2]
      BY <2>3 DEF Commit, Object, BusPCs, Setting
    <3> QED
      BY <2>3, <3>1 DEF Commit
  <2>4. CASE Rollback
    <3>1. dml' \in Object
      BY <2>4 DEF Rollback, Object, Settings
    <3> QED
      BY <2>4, <3>1 DEF Rollback
  <2>5. ASSUME NEW p \in Periods, SetDefaultReportingPeriod(p) PROVE TypeOK'
    <3>1. rep' \in Settings
      <4>1. [rep EXCEPT !.dflt = p] \in Settings
        BY SettingsUpdate
      <4> QED
        BY <2>5, <4>1 DEF SetDefaultReportingPeriod
    <3>2. PICK stored \in Nat : nvram' = [nvram EXCEPT !.Default = stored]
      BY <2>5 DEF SetDefaultReportingPeriod, Stored, Store
    <3>3. nvram' \in Store
      BY <3>2, StoreDefault
    <3> QED
      BY <2>5, <3>1, <3>3 DEF SetDefaultReportingPeriod
  <2>6. ASSUME NEW ttl \in TTLs, SetOverrideTTL(ttl) PROVE TypeOK'
    <3>1. ttl \in Nat
      OBVIOUS
    <3>2. rep' \in Settings
      <4>1. [rep EXCEPT !.ttl = ttl] \in Settings
        BY <3>1, SettingsUpdate
      <4> QED
        BY <2>6, <4>1 DEF SetOverrideTTL
    <3> QED
      BY <2>6, <3>2 DEF SetOverrideTTL
  <2> HIDE DEF TypeOK
  <2> QED
    BY <1>4, <2>1, <2>2, <2>3, <2>4, <2>5, <2>6 DEF Request
<1>5. CASE Crash
  <2>1. NoReporter \in Reporter
    BY DEF NoReporter, Reporter, RepPCs
  <2> QED
    BY <1>5, <2>1
       DEF Crash, PowerOn, Settings, NewObject, Object, BusPCs
<1> QED
  BY <1>1, <1>2, <1>3, <1>4, <1>5 DEF BusStep

\* The steps of a reporter keep every type.
LEMMA ReporterType ==
  ASSUME TypeOK, NEW r \in Reporters, ReporterStep(r)
  PROVE  TypeOK'
<1> USE ReportConstants DEF TypeOK
<1>1. ASSUME NEW p \in RepPCs, Move(r, p)
      PROVE  reporter' \in [Reporters -> Reporter]
  BY <1>1 DEF Move, Reporter
<1>2. ASSUME NEW p \in RepPCs, Forget(r, p)
      PROVE  reporter' \in [Reporters -> Reporter]
  BY <1>2 DEF Forget, Reporter, NoReporter
<1>3. CASE XdslReportingThread(r)
  BY <1>1, <1>3 DEF XdslReportingThread, RepPCs
<1>4. CASE LoopTop(r)
  <2>1. [pc |-> "decide", failed |-> FALSE, ttl |-> rep.ttl,
         dflt |-> rep.dflt, period |-> rep.period] \in Reporter
    BY DEF Reporter, RepPCs, Settings
  <2>2. CASE ~reporter[r].failed /\ rep.status # 0
    <3>1. reporter' \in [Reporters -> Reporter]
      BY <1>4, <2>1, <2>2 DEF LoopTop
    <3> QED
      BY <1>4, <3>1 DEF LoopTop
  <2>3. CASE ~(~reporter[r].failed /\ rep.status # 0)
    BY <1>1, <1>4, <2>3 DEF LoopTop, RepPCs, Setting
  <2> QED
    BY <2>2, <2>3
<1>5. CASE Decide(r)
  <2>1. reporter' \in [Reporters -> Reporter]
    BY <1>2, <1>5 DEF Decide, RepPCs
  <2>2. reporter[r].period \in Nat
    BY DEF Reporter
  <2> HIDE DEF TypeOK
  <2>3. /\ [rep EXCEPT !.ttl = 0] \in Settings
        /\ [rep EXCEPT !.ttl = 0, !.spent = 0] \in Settings
        /\ [rep EXCEPT !.spent = @ + reporter[r].period] \in Settings
    <3>1. rep \in Settings /\ 0 \in Nat /\ 0 \in 0..2
      BY DEF TypeOK
    <3>2. [rep EXCEPT !.ttl = 0] \in Settings
      BY <3>1, SettingsUpdate
    <3>3. [rep EXCEPT !.ttl = 0, !.spent = 0] \in Settings
      BY <3>1, SettingsReset
    <3>4. [rep EXCEPT !.spent = @ + reporter[r].period] \in Settings
      BY <2>2, <3>1, SettingsSpend
    <3> QED
      BY <3>2, <3>3, <3>4
  <2>4. \/ rep' = [rep EXCEPT !.ttl = 0]
        \/ rep' = [rep EXCEPT !.ttl = 0, !.spent = 0]
        \/ rep' = [rep EXCEPT !.spent = @ + reporter[r].period]
        \/ rep' = rep
    BY <1>5, Zenon DEF Decide
  <2>5. rep' \in Settings
    BY <2>3, <2>4 DEF TypeOK
  <2> QED
    BY <1>5, <2>1, <2>5 DEF Decide, TypeOK
<1>6. CASE PrepareAndSendXdslReport(r)
  <2>1. PICK failed \in BOOLEAN :
           reporter' = [reporter EXCEPT ![r].pc = "wait", ![r].failed = failed]
    BY <1>6 DEF PrepareAndSendXdslReport
  <2>2. reporter' \in [Reporters -> Reporter]
    BY <2>1, ReporterUpdate DEF RepPCs
  <2> QED
    BY <1>6, <2>2 DEF PrepareAndSendXdslReport
<1>7. CASE WaitTimedOut(r)
  BY <1>1, <1>7 DEF WaitTimedOut, RepPCs
<1>8. CASE ReporterSetStatus(r)
  <2>1. [reporter EXCEPT ![r].pc = "cleanup"] \in [Reporters -> Reporter]
    BY ReporterUpdate DEF RepPCs
  <2>2. reporter' \in [Reporters -> Reporter]
    BY <1>1, <1>8, <2>1, StartOrSignalType
       DEF ReporterSetStatus, RepPCs, Setting
  <2> QED
    BY <1>8, <2>2 DEF ReporterSetStatus, Settings
<1>9. CASE Cleanup(r)
  <2>1. NoReporter \in Reporter
    BY DEF NoReporter, Reporter, RepPCs
  <2> QED
    BY <1>9, <2>1 DEF Cleanup
<1> QED
  BY <1>3, <1>4, <1>5, <1>6, <1>7, <1>8, <1>9 DEF ReporterStep

\* The type invariant holds in every reachable state.
THEOREM TypeCorrect == Spec => []TypeOK
<1>1. TypeOK /\ [Next]_vars => TypeOK'
  <2> SUFFICES ASSUME TypeOK, [Next]_vars PROVE TypeOK'
    OBVIOUS
  <2>1. CASE BusStep \/ Request \/ Crash
    BY <2>1, BusType
  <2>2. ASSUME NEW r \in Reporters, ReporterStep(r) PROVE TypeOK'
    BY <2>2, ReporterType
  <2>3. CASE UNCHANGED vars
    BY <2>3 DEF TypeOK, vars
  <2> QED
    BY <2>1, <2>2, <2>3 DEF Next
<1> QED
  BY InitType, <1>1, PTL DEF Spec
-----------------------------------------------------------------------------
(* Reporting that is enabled is served.  The invariant is inductive with    *)
(* the typing alone: a thread that writes the status has not ended yet, and *)
(* a reporter that has passed its second test started another if it found   *)
(* the status set again.                                                    *)

\* Starting a reporter leaves one that will look at the status.
LEMMA StartServes ==
  ASSUME NEW f \in [Reporters -> Reporter], "create" \notin Faults,
         rep.status # 0, NEW g \in StartOrSignal(f)
  PROVE  \E q \in Reporters : g[q].pc = "init"
<1>1. PICK q \in Reporters : f[q].pc = "off" /\ g = [f EXCEPT ![q] = NewReporter]
  BY DEF StartOrSignal
<1>2. NewReporter.pc = "init"
  BY DEF NewReporter, NoReporter
<1> QED
  BY <1>1, <1>2

LEMMA BusServes ==
  ASSUME TypeOK, StatusHasReporter, "create" \notin Faults,
         BusStep \/ Request \/ Crash
  PROVE  StatusHasReporter'
<1> USE DEF StatusHasReporter, Serving, RepPCs, Setting
<1>1. CASE DmlXdslReportInit
  <2>1. rep'.status = rep.status
    BY <1>1 DEF DmlXdslReportInit, TypeOK, Settings
  <2> QED
    BY <1>1, <2>1 DEF DmlXdslReportInit
<1>2. CASE BusSetStatus
  <2>1. CASE bus.pc = "compare"
    BY <1>2, <2>1 DEF BusSetStatus
  <2>2. CASE bus.pc = "assign"
    BY <1>2, <2>2 DEF BusSetStatus, TypeOK
  <2>3. CASE bus.pc = "branch"
    <3>1. rep' = rep /\ reporter' \in StartOrSignal(reporter)
      BY <1>2, <2>3 DEF BusSetStatus
    <3>2. reporter \in [Reporters -> Reporter]
      BY DEF TypeOK
    <3>3. rep.status # 0 => \E q \in Reporters : reporter'[q].pc = "init"
      BY <3>1, <3>2, StartServes
    <3> QED
      BY <3>1, <3>3
  <2> QED
    BY <1>2, <2>1, <2>2, <2>3 DEF BusSetStatus
<1>3. CASE CommitRest
  <2>1. rep'.status = rep.status
    BY <1>3 DEF CommitRest, TypeOK, Settings
  <2> QED
    BY <1>3, <2>1 DEF CommitRest
<1>4. CASE Request
  <2>1. ASSUME NEW p \in Periods, SetDefaultReportingPeriod(p)
        PROVE  StatusHasReporter'
    <3>1. rep'.status = rep.status
      BY <2>1 DEF SetDefaultReportingPeriod, TypeOK, Settings
    <3> QED
      BY <2>1, <3>1 DEF SetDefaultReportingPeriod
  <2>2. ASSUME NEW ttl \in TTLs, SetOverrideTTL(ttl) PROVE StatusHasReporter'
    <3>1. rep'.status = rep.status
      BY <2>2 DEF SetOverrideTTL, TypeOK, Settings
    <3> QED
      BY <2>2, <3>1 DEF SetOverrideTTL
  <2>3. ASSUME NEW v \in {0, 1}, SetEnabled(v) PROVE StatusHasReporter'
    BY <2>3 DEF SetEnabled
  <2>4. ASSUME NEW p \in Periods, SetReportingPeriod(p)
        PROVE  StatusHasReporter'
    BY <2>4 DEF SetReportingPeriod
  <2>5. CASE Commit
    BY <2>5 DEF Commit, Idle
  <2>6. CASE Rollback
    BY <2>6 DEF Rollback
  <2> QED
    BY <1>4, <2>1, <2>2, <2>3, <2>4, <2>5, <2>6 DEF Request
<1>5. CASE Crash
  BY <1>5 DEF Crash, PowerOn
<1> QED
  BY <1>1, <1>2, <1>3, <1>4, <1>5 DEF BusStep

LEMMA ReporterServes ==
  ASSUME TypeOK, StatusHasReporter, NEW r \in Reporters, ReporterStep(r),
         "create" \notin Faults, "parodus" \notin Faults
  PROVE  StatusHasReporter'
<1> USE DEF StatusHasReporter, Serving, RepPCs, Setting
<1>1. reporter \in [Reporters -> Reporter]
  BY DEF TypeOK
<1>2. ASSUME NEW p \in RepPCs \ {"off", "cleanup"}, reporter'[r].pc = p
      PROVE  StatusHasReporter'
  BY <1>2
<1>3. ASSUME NEW p, Move(r, p) PROVE reporter'[r].pc = p
  BY <1>1, <1>3 DEF Move, Reporter
<1>4. ASSUME NEW p, Forget(r, p) PROVE reporter'[r].pc = p
  BY <1>1, <1>4 DEF Forget, NoReporter
<1>5. CASE XdslReportingThread(r)
  BY <1>2, <1>3, <1>5 DEF XdslReportingThread
<1>6. CASE LoopTop(r)
  <2>1. reporter'[r].pc = "decide" \/ reporter'[r].pc = "compare"
    BY <1>1, <1>3, <1>6 DEF LoopTop
  <2> QED
    BY <1>2, <2>1
<1>7. CASE Decide(r)
  <2>1. Forget(r, "wait") \/ Forget(r, "send")
    BY <1>7 DEF Decide
  <2> QED
    BY <1>2, <1>4, <2>1
<1>8. CASE PrepareAndSendXdslReport(r)
  <2>1. PICK failed \in BOOLEAN :
           reporter' = [reporter EXCEPT ![r].pc = "wait", ![r].failed = failed]
    BY <1>8 DEF PrepareAndSendXdslReport
  <2>2. reporter'[r].pc = "wait"
    BY <1>1, <2>1 DEF Reporter
  <2> QED
    BY <1>2, <2>2
<1>9. CASE WaitTimedOut(r)
  BY <1>2, <1>3, <1>9 DEF WaitTimedOut
<1>10. CASE ReporterSetStatus(r)
  <2>1. CASE reporter[r].pc = "compare"
    <3>1. rep' = rep
      BY <1>10, <2>1 DEF ReporterSetStatus
    <3>2. rep.status # 0 => reporter'[r].pc = "assign"
      BY <1>3, <1>10, <2>1 DEF ReporterSetStatus
    <3> QED
      BY <1>2, <3>1, <3>2
  <2>2. CASE reporter[r].pc = "assign"
    <3>1. reporter'[r].pc = "branch"
      BY <1>3, <1>10, <2>2 DEF ReporterSetStatus
    <3> QED
      BY <1>2, <3>1
  <2>3. CASE reporter[r].pc = "branch"
    <3> DEFINE f == [reporter EXCEPT ![r].pc = "cleanup"]
    <3>1. rep' = rep /\ reporter' \in StartOrSignal(f)
      BY <1>10, <2>3 DEF ReporterSetStatus
    <3>2. f \in [Reporters -> Reporter]
      BY <1>1, ReporterUpdate
    <3> HIDE DEF f
    <3>3. rep.status # 0 => \E q \in Reporters : reporter'[q].pc = "init"
      BY <3>1, <3>2, StartServes
    <3> QED
      BY <3>1, <3>3
  <2> QED
    BY <1>10, <2>1, <2>2, <2>3 DEF ReporterSetStatus
<1>11. CASE Cleanup(r)
  <2>1. /\ UNCHANGED <<rep, bus>> /\ reporter[r].pc = "cleanup"
        /\ \A q \in Reporters \ {r} : reporter'[q] = reporter[q]
    BY <1>1, <1>11 DEF Cleanup
  <2> QED
    BY <2>1
<1> QED
  BY <1>5, <1>6, <1>7, <1>8, <1>9, <1>10, <1>11 DEF ReporterStep

\* If no reporter fails to start, reporting that is enabled always has a
\* reporter to serve it, whatever the unlocked XdslReportSetStatus of the bus
\* thread and of the reporters interleave to.
THEOREM StatusHasReporterHolds ==
  ASSUME "create" \notin Faults, "parodus" \notin Faults
  PROVE  Spec => []StatusHasReporter
<1>1. Init => StatusHasReporter
  BY DEF Init, PowerOn, StatusHasReporter
<1>2. TypeOK /\ StatusHasReporter /\ [Next]_vars => StatusHasReporter'
  <2> SUFFICES ASSUME TypeOK, StatusHasReporter, [Next]_vars
               PROVE  StatusHasReporter'
    OBVIOUS
  <2>1. CASE BusStep \/ Request \/ Crash
    BY <2>1, BusServes
  <2>2. ASSUME NEW r \in Reporters, ReporterStep(r) PROVE StatusHasReporter'
    BY <2>2, ReporterServes
  <2>3. CASE UNCHANGED vars
    BY <2>3 DEF StatusHasReporter, Serving, vars
  <2> QED
    BY <2>1, <2>2, <2>3 DEF Next
<1> QED
  BY TypeCorrect, <1>1, <1>2, PTL DEF Spec
-----------------------------------------------------------------------------
(* Only valid periods are in force.  ValidInForce alone is not inductive:   *)
(* CommitRest uses the staged period many steps after Validate looked at    *)
(* it, so the invariant also says what is staged while a request runs.      *)

PeriodInv ==
  /\ ValidInForce
  /\ bus.pc # "idle" /\ dml.bReportingPeriodChanged
        => dml.ReportingPeriod \in ValidPeriods

LEMMA BusPeriods ==
  ASSUME TypeOK, PeriodInv, BusStep \/ Request \/ Crash
  PROVE  PeriodInv'
<1> USE DEF PeriodInv, ValidInForce
<1>0. 0 \in ValidPeriods
  BY DEF ValidPeriods
<1>1. CASE DmlXdslReportInit
  <2> DEFINE Boot(dflt, period, enabled) ==
           /\ rep' = [rep EXCEPT !.dflt = dflt, !.period = period]
           /\ dml' = [NewObject EXCEPT !.ReportingPeriod = period,
                                       !.Enabled = enabled]
           /\ nvram' = nvram
  <2>1. PICK dflt \in ValidPeriods, period \in ValidPeriods :
           \E enabled : Boot(dflt, period, enabled)
    <3>1. \A a, b \in ValidPeriods : Got(a, b) \subseteq ValidPeriods
      BY DEF Got
    <3>2. PICK dflt \in Got(nvram.Default, 0) :
             \E period \in Got(nvram.ReportingPeriod, dflt) :
             \E enabled \in Got(nvram.Enabled, ToBool(period)) :
                Boot(dflt, period, enabled)
      BY <1>1 DEF DmlXdslReportInit
    <3>3. PICK period \in Got(nvram.ReportingPeriod, dflt) :
             \E enabled \in Got(nvram.Enabled, ToBool(period)) :
                Boot(dflt, period, enabled)
      BY <3>2
    <3>4. dflt \in ValidPeriods
      BY <1>0, <3>1
    <3>5. period \in ValidPeriods
      BY <3>1, <3>3, <3>4
    <3> QED
      BY <3>3, <3>4, <3>5
  <2>2. rep'.period \in ValidPeriods /\ rep'.dflt \in ValidPeriods
    BY <2>1 DEF TypeOK, Settings
  <2>3. ~dml'.bReportingPeriodChanged
    BY <2>1 DEF NewObject
  <2> QED
    BY <2>1, <2>2, <2>3
<1>2. CASE BusSetStatus
  <2>1. rep'.period = rep.period /\ rep'.dflt = rep.dflt
    BY <1>2 DEF BusSetStatus, TypeOK, Settings
  <2>2. UNCHANGED <<dml, nvram>> /\ bus.pc # "idle"
    BY <1>2 DEF BusSetStatus
  <2> QED
    BY <2>1, <2>2
<1>3. CASE CommitRest
  <2>1. bus.pc = "save" /\ bus'.pc = "idle"
    BY <1>3 DEF CommitRest
  <2>2. rep'.period \in ValidPeriods /\ rep'.dflt = rep.dflt
    BY <1>3, <2>1 DEF CommitRest, TypeOK, Settings
  <2>3. nvram'.ReportingPeriod \in ValidPeriods
        /\ nvram'.Default = nvram.Default
    <3>1. dml.bReportingPeriodChanged
            => Stored(dml.ReportingPeriod, nvram.ReportingPeriod)
                  \subseteq ValidPeriods
      BY <2>1 DEF Stored
    <3>2. PICK enabled \in IF dml.bEnableChanged
                            THEN Stored(dml.Enabled, nvram.Enabled)
                            ELSE {nvram.Enabled},
               period \in IF dml.bReportingPeriodChanged
                          THEN Stored(dml.ReportingPeriod,
                                      nvram.ReportingPeriod)
                          ELSE {nvram.ReportingPeriod} :
             nvram' = [nvram EXCEPT !.Enabled = enabled,
                                    !.ReportingPeriod = period]
      BY <1>3 DEF CommitRest
    <3>3. period \in ValidPeriods
      BY <3>1, <3>2
    <3> QED
      BY <3>2, <3>3 DEF TypeOK, Store
  <2> QED
    BY <2>1, <2>2, <2>3
<1>4. CASE Request
  <2>1. ASSUME NEW p \in Periods, SetDefaultReportingPeriod(p)
        PROVE  PeriodInv'
    <3>1. p \in ValidPeriods /\ UNCHANGED <<dml, bus>>
      BY <2>1 DEF SetDefaultReportingPeriod
    <3>2. rep'.period = rep.period /\ rep'.dflt = p
      BY <2>1 DEF SetDefaultReportingPeriod, TypeOK, Settings
    <3>3. PICK stored \in Stored(p, nvram.Default) :
             nvram' = [nvram EXCEPT !.Default = stored]
      BY <2>1 DEF SetDefaultReportingPeriod
    <3>4. stored \in ValidPeriods
      BY <3>1, <3>3 DEF Stored
    <3>5. /\ nvram'.ReportingPeriod = nvram.ReportingPeriod
          /\ nvram'.Default = stored
      BY <3>3 DEF TypeOK, Store
    <3> QED
      BY <3>1, <3>2, <3>4, <3>5
  <2>2. ASSUME NEW ttl \in TTLs, SetOverrideTTL(ttl) PROVE PeriodInv'
    <3>1. rep'.period = rep.period /\ rep'.dflt = rep.dflt
      BY <2>2 DEF SetOverrideTTL, TypeOK, Settings
    <3> QED
      BY <2>2, <3>1 DEF SetOverrideTTL
  <2>3. ASSUME NEW v \in {0, 1}, SetEnabled(v) PROVE PeriodInv'
    BY <2>3 DEF SetEnabled, Idle
  <2>4. ASSUME NEW p \in Periods, SetReportingPeriod(p) PROVE PeriodInv'
    BY <2>4 DEF SetReportingPeriod, Idle
  <2>5. CASE Commit
    BY <2>5 DEF Commit, Valid
  <2>6. CASE Rollback
    BY <2>6 DEF Rollback, Idle
  <2> QED
    BY <1>4, <2>1, <2>2, <2>3, <2>4, <2>5, <2>6 DEF Request
<1>5. CASE Crash
  BY <1>0, <1>5 DEF Crash, PowerOn, NewObject
<1> QED
  BY <1>1, <1>2, <1>3, <1>4, <1>5 DEF BusStep

\* A reporter changes the status and the TTL, never a period.
LEMMA ReporterPeriods ==
  ASSUME TypeOK, PeriodInv, NEW r \in Reporters, ReporterStep(r)
  PROVE  PeriodInv'
<1>1. UNCHANGED <<dml, nvram, bus>>
  BY DEF ReporterStep, XdslReportingThread, LoopTop, Decide,
         PrepareAndSendXdslReport, WaitTimedOut, ReporterSetStatus, Cleanup
<1>2. \/ rep' = rep
      \/ rep' = [rep EXCEPT !.ttl = 0]
      \/ rep' = [rep EXCEPT !.ttl = 0, !.spent = 0]
      \/ rep' = [rep EXCEPT !.spent = @ + reporter[r].period]
      \/ rep' = [rep EXCEPT !.status = 0]
  BY Zenon
     DEF ReporterStep, XdslReportingThread, LoopTop, Decide,
         PrepareAndSendXdslReport, WaitTimedOut, ReporterSetStatus, Cleanup
<1>3. rep'.period = rep.period /\ rep'.dflt = rep.dflt
  BY <1>2 DEF TypeOK, Settings
<1> QED
  BY <1>1, <1>3 DEF PeriodInv, ValidInForce

LEMMA PeriodInvHolds == Spec => [](TypeOK /\ PeriodInv)
<1>1. Init => PeriodInv
  <2> SUFFICES ASSUME Init PROVE PeriodInv
    OBVIOUS
  <2>1. nvram.ReportingPeriod \in ValidPeriods
        /\ nvram.Default \in ValidPeriods
    BY DEF Init
  <2>2. ~dml.bReportingPeriodChanged /\ rep.period = 0 /\ rep.dflt = 0
    BY DEF Init, NewObject, PowerOn
  <2> QED
    BY <2>1, <2>2 DEF PeriodInv, ValidInForce, ValidPeriods
<1>2. TypeOK /\ PeriodInv /\ [Next]_vars => PeriodInv'
  <2> SUFFICES ASSUME TypeOK, PeriodInv, [Next]_vars PROVE PeriodInv'
    OBVIOUS
  <2>1. CASE BusStep \/ Request \/ Crash
    BY <2>1, BusPeriods
  <2>2. ASSUME NEW r \in Reporters, ReporterStep(r) PROVE PeriodInv'
    BY <2>2, ReporterPeriods
  <2>3. CASE UNCHANGED vars
    BY <2>3 DEF PeriodInv, ValidInForce, vars
  <2> QED
    BY <2>1, <2>2, <2>3 DEF Next
<1> QED
  BY TypeCorrect, <1>1, <1>2, PTL DEF Spec

\* Whatever requests stage, commit and roll back, whatever calls to the store
\* fail and whenever the process restarts, only the periods that
\* XdslReportValidateReportingPeriod accepts are used and stored.
THEOREM ValidInForceHolds == Spec => []ValidInForce
<1>1. PeriodInv => ValidInForce
  BY DEF PeriodInv
<1> QED
  BY PeriodInvHolds, <1>1, PTL
-----------------------------------------------------------------------------
(* An override is counted.  A reporter adds the period it has read to a      *)
(* count that every reporter and every later override shares, and tests it   *)
(* against a TTL it has read, so the bound rests on what reporters hold.     *)

\* The seconds counted towards an override stay below the TTL of some request
\* and one period more, however many reporters count them and whatever is
\* requested in between: the count never wraps, and an override with a period
\* runs out after finitely many rounds.
OverrideSpent ==
  rep.spent # 0 => \E ttl \in TTLs, p \in ValidPeriods : rep.spent < ttl + p

SpentInv ==
  /\ OverrideSpent
  /\ rep.ttl \in TTLs \cup {0}
  /\ \A r \in Reporters :
        reporter[r].pc = "decide" => /\ reporter[r].ttl \in TTLs \cup {0}
                                     /\ reporter[r].period \in ValidPeriods

\* XdslReportSetStatus starts and wakes reporters, but none of them decides.
LEMMA StartDecides ==
  ASSUME NEW f \in [Reporters -> Reporter], NEW g \in StartOrSignal(f),
         NEW q \in Reporters, g[q].pc = "decide"
  PROVE  g[q] = f[q]
<1>1. CASE g = f
  BY <1>1
<1>2. ASSUME NEW r \in Reporters, g = [f EXCEPT ![r] = NewReporter]
      PROVE  g[q] = f[q]
  BY <1>2 DEF NewReporter, NoReporter
<1>3. ASSUME NEW r \in Reporters, g = [f EXCEPT ![r].pc = "top"]
      PROVE  g[q] = f[q]
  <2>1. f[r] \in Reporter
    OBVIOUS
  <2> QED
    BY <1>3, <2>1 DEF Reporter
<1> QED
  BY <1>1, <1>2, <1>3 DEF StartOrSignal

\* Nothing but a request gives a TTL, and requests count nothing.
LEMMA BusSpends ==
  ASSUME TypeOK, SpentInv, BusStep \/ Request \/ Crash
  PROVE  SpentInv'
<1> USE DEF SpentInv, OverrideSpent
<1>1. CASE Crash
  BY <1>1 DEF Crash, PowerOn, NoReporter
<1>2. ASSUME BusStep \/ Request
      PROVE  rep'.spent = rep.spent /\ rep'.ttl \in TTLs \cup {0}
  BY <1>2
     DEF BusStep, DmlXdslReportInit, BusSetStatus, CommitRest, Request,
         SetEnabled, SetReportingPeriod, Commit, Rollback,
         SetDefaultReportingPeriod, SetOverrideTTL, TypeOK, Settings
<1>3. ASSUME BusStep \/ Request, NEW q \in Reporters,
             reporter'[q].pc = "decide"
      PROVE  reporter'[q] = reporter[q]
  <2>1. reporter' = reporter \/ reporter' \in StartOrSignal(reporter)
    BY <1>3
       DEF BusStep, DmlXdslReportInit, BusSetStatus, CommitRest, Request,
           SetEnabled, SetReportingPeriod, Commit, Rollback,
           SetDefaultReportingPeriod, SetOverrideTTL
  <2> QED
    BY <1>3, <2>1, StartDecides DEF TypeOK
<1> QED
  BY <1>1, <1>2, <1>3

\* A reporter counts its period only while the TTL it has read is not spent.
LEMMA ReporterSpends ==
  ASSUME TypeOK, PeriodInv, SpentInv, NEW r \in Reporters, ReporterStep(r)
  PROVE  SpentInv'
<1> USE DEF SpentInv, OverrideSpent
<1>0. reporter \in [Reporters -> Reporter] /\ rep \in Settings
  BY DEF TypeOK
<1>1. CASE LoopTop(r)
  <2>1. /\ rep' = rep
        /\ \A q \in Reporters \ {r} : reporter'[q] = reporter[q]
        /\ reporter'[r].pc = "decide"
              => reporter'[r].ttl = rep.ttl /\ reporter'[r].period = rep.period
    BY <1>0, <1>1 DEF LoopTop, Move, Reporter
  <2>2. rep.period \in ValidPeriods
    BY DEF PeriodInv, ValidInForce
  <2> QED
    BY <2>1, <2>2
<1>2. CASE Decide(r)
  <2>1. \A q \in Reporters :
           reporter'[q].pc = "decide" => reporter'[q] = reporter[q]
    BY <1>0, <1>2 DEF Decide, Forget, NoReporter
  <2>2. rep'.ttl \in TTLs \cup {0}
    BY <1>0, <1>2 DEF Decide, Settings
  <2>3. \/ rep'.spent = rep.spent \/ rep'.spent = 0
        \/ /\ rep'.spent = rep.spent + reporter[r].period
           /\ reporter[r].ttl # 0 /\ rep.spent < reporter[r].ttl
    BY <1>0, <1>2 DEF Decide, Settings
  <2>4. /\ reporter[r].ttl \in TTLs \cup {0} /\ reporter[r].ttl \in Nat
        /\ reporter[r].period \in ValidPeriods /\ reporter[r].period \in Nat
        /\ rep.spent \in Nat
    BY <1>0, <1>2 DEF Decide, Reporter, Settings
  <2>5. OverrideSpent'
    <3>1. CASE rep'.spent = rep.spent \/ rep'.spent = 0
      BY <3>1
    <3>2. CASE /\ rep'.spent = rep.spent + reporter[r].period
               /\ reporter[r].ttl # 0 /\ rep.spent < reporter[r].ttl
      BY <2>4, <3>2
    <3> QED
      BY <2>3, <3>1, <3>2
  <2> QED
    BY <2>1, <2>2, <2>5
<1>3. CASE ReporterSetStatus(r)
  <2>1. rep'.spent = rep.spent /\ rep'.ttl = rep.ttl
    BY <1>0, <1>3 DEF ReporterSetStatus, Settings
  <2>2. ASSUME NEW q \in Reporters, reporter'[q].pc = "decide"
        PROVE  reporter'[q] = reporter[q]
    <3> DEFINE f == [reporter EXCEPT ![r].pc = "cleanup"]
    <3>1. CASE reporter[r].pc \in {"compare", "assign"}
      BY <1>0, <1>3, <2>2, <3>1 DEF ReporterSetStatus, Move, Reporter
    <3>2. CASE reporter' \in StartOrSignal(f)
      <4>1. f \in [Reporters -> Reporter]
        BY <1>0, ReporterUpdate DEF RepPCs
      <4>2. f[q].pc = "decide" => f[q] = reporter[q]
        BY <1>0 DEF Reporter
      <4> HIDE DEF f
      <4> QED
        BY <2>2, <3>2, <4>1, <4>2, StartDecides
    <3> QED
      BY <1>3, <3>1, <3>2 DEF ReporterSetStatus
  <2> QED
    BY <2>1, <2>2
<1>4. CASE \/ XdslReportingThread(r) \/ PrepareAndSendXdslReport(r)
           \/ WaitTimedOut(r) \/ Cleanup(r)
  <2>1. rep' = rep
    BY <1>4 DEF XdslReportingThread, PrepareAndSendXdslReport, WaitTimedOut,
                Cleanup
  <2>2. /\ reporter'[r].pc # "decide"
        /\ \A q \in Reporters \ {r} : reporter'[q] = reporter[q]
    <3>1. CASE PrepareAndSendXdslReport(r)
      <4>1. PICK failed \in BOOLEAN :
               reporter' = [reporter EXCEPT ![r].pc = "wait",
                                            ![r].failed = failed]
        BY <3>1 DEF PrepareAndSendXdslReport
      <4> QED
        BY <1>0, <4>1 DEF Reporter
    <3>2. CASE XdslReportingThread(r) \/ WaitTimedOut(r) \/ Cleanup(r)
      BY <1>0, <3>2 DEF XdslReportingThread, WaitTimedOut, Cleanup, Move,
                        NoReporter, Reporter
    <3> QED
      BY <1>4, <3>1, <3>2
  <2> QED
    BY <2>1, <2>2
<1> QED
  BY <1>1, <1>2, <1>3, <1>4 DEF ReporterStep

\* Whatever requests, restarts and failures there are and however many
\* reporters run, the count of an override stays below a TTL and one period.
THEOREM OverrideSpentHolds == Spec => []OverrideSpent
<1>1. Init => SpentInv
  BY DEF Init, PowerOn, NoReporter, SpentInv, OverrideSpent
<1>2. TypeOK /\ PeriodInv /\ SpentInv /\ [Next]_vars => SpentInv'
  <2> SUFFICES ASSUME TypeOK, PeriodInv, SpentInv, [Next]_vars
               PROVE  SpentInv'
    OBVIOUS
  <2>1. CASE BusStep \/ Request \/ Crash
    BY <2>1, BusSpends
  <2>2. ASSUME NEW r \in Reporters, ReporterStep(r) PROVE SpentInv'
    BY <2>2, ReporterSpends
  <2>3. CASE UNCHANGED vars
    BY <2>3 DEF SpentInv, OverrideSpent, vars
  <2> QED
    BY <2>1, <2>2, <2>3 DEF Next
<1>3. SpentInv => OverrideSpent
  BY DEF SpentInv
<1> QED
  BY PeriodInvHolds, <1>1, <1>2, <1>3, PTL DEF Spec
=============================================================================
