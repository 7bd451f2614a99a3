------------------------ MODULE XdslReportCalmProofs ------------------------
(***************************************************************************)
(* Theorems about XdslReport for reporting that is not enabled again while *)
(* its last reporter is on its way out (Calm), with every other request at *)
(* any time: one reporter at most, and settings that agree.  For any       *)
(* number of reporters, any periods and TTLs, any restarts and every       *)
(* failure but that of a harvest or of the store.                          *)
(***************************************************************************)
EXTENDS XdslReportProofs

Off == \A r \in Reporters : reporter[r].pc = "off"

\* A reporter never writes the status: it has not failed, and it leaves its
\* loop only when the status is off, which it still is at its own test.
NotWriting(my) == /\ ~my.failed
                  /\ my.pc \notin {"assign", "branch"}
                  /\ my.pc = "compare" => rep.status = 0

\* So only the bus thread starts reporters, and from the request on, to the
\* second test of the status, it finds none left.  A BOOL beyond 1 would count
\* as a change and start a second reporter.
SoleReporter ==
    /\ rep.status \in {0, 1} /\ bus.arg \in {0, 1}
    /\ dml.Enabled \in {0, 1} /\ nvram.Enabled \in {0, 1}
    /\ OneReporter
    /\ \A r \in Reporters : NotWriting(reporter[r])
    /\ bus.pc = "boot" => Off
    /\ bus.pc = "compare" /\ rep.status = 0 /\ bus.arg = 1 => Off
    /\ bus.pc = "assign" => rep.status # bus.arg
    /\ bus.pc = "branch" => rep.status = bus.arg
    /\ bus.pc \in {"assign", "branch"} /\ bus.arg = 1 => Off

\* What agrees at which step of a request.
Agree ==
    /\ bus.pc = "boot" => ~dml.bEnableChanged /\ ~dml.bReportingPeriodChanged
    /\ bus.pc # "boot" =>
          /\ rep.dflt = nvram.Default
          /\ rep.period = nvram.ReportingPeriod
          /\ ~dml.bReportingPeriodChanged => dml.ReportingPeriod = rep.period
          /\ ~dml.bEnableChanged => dml.Enabled = nvram.Enabled
    /\ bus.pc \in {"compare", "assign", "branch"} => bus.arg = dml.Enabled
    /\ bus.pc = "branch" => rep.status = bus.arg
    /\ bus.pc = "save" => rep.status = dml.Enabled
    /\ bus.pc = "idle" => rep.status = nvram.Enabled

----------------------------------------------------------------------------
(* What the steps change.                                                  *)

\* One step of a reporter, by the place it starts from.
LEMMA ReporterEffect ==
  ASSUME TypeOK, NEW r \in Reporters, ReporterStep(r)
  PROVE  /\ UNCHANGED <<dml, nvram, bus>>
         /\ rep'.dflt = rep.dflt /\ rep'.period = rep.period
         /\ reporter[r].pc # "assign" => rep'.status = rep.status
         /\ reporter[r].pc # "branch" =>
               /\ \A q \in Reporters : q # r => reporter'[q] = reporter[q]
               /\ reporter'[r].failed =>
                     reporter[r].failed \/ "harvest" \in Faults
         /\ \/ /\ reporter[r].pc \in {"init", "decide", "send"}
               /\ reporter'[r].pc \in {"off", "top", "send", "wait"}
            \/ reporter[r].pc = "cleanup" /\ reporter'[r].pc = "off"
            \/ reporter[r].pc = "wait" /\ reporter'[r].pc = "top"
            \/ /\ reporter[r].pc = "top" /\ reporter'[r].pc = "decide"
               /\ rep.status # 0
            \/ /\ reporter[r].pc = "top" /\ reporter'[r].pc = "compare"
               /\ reporter[r].failed \/ rep.status = 0
            \/ /\ reporter[r].pc = "compare"
               /\ reporter'[r].pc = IF rep.status = 0 THEN "cleanup"
                                                      ELSE "assign"
            \/ /\ reporter[r].pc = "assign" /\ reporter'[r].pc = "branch"
               /\ rep'.status = 0
            \/ /\ reporter[r].pc = "branch"
               /\ reporter' \in
                     StartOrSignal([reporter EXCEPT ![r].pc = "cleanup"])
<1> USE DEF TypeOK
<1>1. ASSUME NEW p, Move(r, p)
      PROVE  /\ reporter'[r].pc = p /\ reporter'[r].failed = reporter[r].failed
             /\ \A q \in Reporters : q # r => reporter'[q] = reporter[q]
  BY <1>1 DEF Move, Reporter
<1>2. ASSUME NEW p, Forget(r, p)
      PROVE  /\ reporter'[r].pc = p /\ reporter'[r].failed = FALSE
             /\ \A q \in Reporters : q # r => reporter'[q] = reporter[q]
  BY <1>2 DEF Forget, NoReporter
<1>3. CASE XdslReportingThread(r)
  BY <1>1, <1>3 DEF XdslReportingThread
<1>4. CASE LoopTop(r)
  <2>1. /\ reporter[r].pc = "top" /\ UNCHANGED <<rep, dml, nvram, bus>>
        /\ \/ /\ rep.status # 0
              /\ reporter' = [reporter EXCEPT ![r] =
                                 [pc |-> "decide", failed |-> FALSE,
                                  ttl |-> rep.ttl, dflt |-> rep.dflt,
                                  period |-> rep.period]]
           \/ (reporter[r].failed \/ rep.status = 0) /\ Move(r, "compare")
    BY <1>4 DEF LoopTop
  <2>2. CASE Move(r, "compare") /\ (reporter[r].failed \/ rep.status = 0)
    BY <1>1, <2>1, <2>2
  <2>3. CASE /\ rep.status # 0
             /\ reporter' = [reporter EXCEPT ![r] =
                                 [pc |-> "decide", failed |-> FALSE,
                                  ttl |-> rep.ttl, dflt |-> rep.dflt,
                                  period |-> rep.period]]
    BY <2>1, <2>3
  <2> QED
    BY <2>1, <2>2, <2>3
<1>5. CASE Decide(r)
  <2>1. /\ reporter[r].pc = "decide" /\ UNCHANGED <<dml, nvram, bus>>
        /\ Forget(r, "wait") \/ Forget(r, "send")
    BY <1>5 DEF Decide
  <2>2. \/ rep' = rep
        \/ rep' = [rep EXCEPT !.ttl = 0]
        \/ rep' = [rep EXCEPT !.ttl = 0, !.spent = 0]
        \/ rep' = [rep EXCEPT !.spent = @ + reporter[r].period]
    BY <1>5, Zenon DEF Decide
  <2>3. /\ rep'.status = rep.status /\ rep'.dflt = rep.dflt
        /\ rep'.period = rep.period
    BY <2>2 DEF Settings
  <2> QED
    BY <1>2, <2>1, <2>3
<1>6. CASE PrepareAndSendXdslReport(r)
  <2>1. PICK failed \in IF "harvest" \in Faults THEN BOOLEAN ELSE {FALSE} :
           reporter' = [reporter EXCEPT ![r].pc = "wait", ![r].failed = failed]
    BY <1>6 DEF PrepareAndSendXdslReport
  <2>2. /\ reporter'[r].pc = "wait" /\ reporter'[r].failed = failed
        /\ \A q \in Reporters : q # r => reporter'[q] = reporter[q]
    BY <2>1 DEF Reporter
  <2>3. failed => "harvest" \in Faults
    OBVIOUS
  <2>4. reporter[r].pc = "send" /\ UNCHANGED <<rep, dml, nvram, bus>>
    BY <1>6 DEF PrepareAndSendXdslReport
  <2> QED
    BY <2>2, <2>3, <2>4
<1>7. CASE WaitTimedOut(r)
  BY <1>1, <1>7 DEF WaitTimedOut
<1>8. CASE ReporterSetStatus(r)
  <2>1. CASE reporter[r].pc = "compare"
    BY <1>1, <1>8, <2>1 DEF ReporterSetStatus
  <2>2. CASE reporter[r].pc = "assign"
    <3>1. /\ rep'.status = 0 /\ rep'.dflt = rep.dflt
          /\ rep'.period = rep.period
      BY <1>8, <2>2 DEF ReporterSetStatus, Settings
    <3> QED
      BY <1>1, <1>8, <2>2, <3>1 DEF ReporterSetStatus
  <2>3. CASE reporter[r].pc = "branch"
    BY <1>8, <2>3 DEF ReporterSetStatus
  <2> QED
    BY <1>8, <2>1, <2>2, <2>3 DEF ReporterSetStatus
<1>9. CASE Cleanup(r)
  BY <1>9 DEF Cleanup, NoReporter
<1> QED
  BY <1>3, <1>4, <1>5, <1>6, <1>7, <1>8, <1>9 DEF ReporterStep

----------------------------------------------------------------------------
(* One reporter.                                                           *)

LEMMA ReporterSole ==
  ASSUME "harvest" \notin Faults, TypeOK, SoleReporter, NEW r \in Reporters,
         ReporterStep(r)
  PROVE  SoleReporter'
<1>1. /\ NotWriting(reporter[r]) /\ reporter[r].pc # "off"
      /\ \A q \in Reporters : q # r => reporter[q].pc = "off"
  BY ReporterEffect DEF SoleReporter, OneReporter, Live
<1>2. /\ reporter[r].pc \notin {"assign", "branch"} /\ ~reporter[r].failed
      /\ reporter[r].pc = "compare" => rep.status = 0
  BY <1>1 DEF NotWriting
<1>3. /\ rep'.status = rep.status /\ UNCHANGED <<dml, nvram, bus>>
      /\ \A q \in Reporters : q # r => reporter'[q] = reporter[q]
      /\ ~reporter'[r].failed
      /\ reporter'[r].pc \notin {"assign", "branch"}
      /\ reporter'[r].pc = "compare" => rep.status = 0
  BY <1>2, ReporterEffect
<1>4. OneReporter'
  BY <1>1, <1>3 DEF OneReporter, Live
<1>5. \A q \in Reporters : NotWriting(reporter[q])'
  <2> TAKE q \in Reporters
  <2>1. CASE q = r
    BY <1>3, <2>1 DEF NotWriting
  <2>2. CASE q # r
    <3>1. NotWriting(reporter[q])
      BY DEF SoleReporter
    <3> QED
      BY <1>3, <2>2, <3>1 DEF NotWriting
  <2> QED
    BY <2>1, <2>2
<1>6. ~Off
  BY <1>1 DEF Off
<1> QED
  BY <1>3, <1>4, <1>5, <1>6 DEF SoleReporter

\* The steps of a request and of the start, by what they do to the reporters.
LEMMA SetStatusSole ==
  ASSUME TypeOK, SoleReporter, BusSetStatus
  PROVE  SoleReporter'
<1> USE DEF SoleReporter, OneReporter, Live, Off, NotWriting
<1>0. UNCHANGED <<dml, nvram>>
  BY DEF BusSetStatus
<1>1. CASE bus.pc = "compare"
  <2>1. /\ rep' = rep /\ reporter' = reporter /\ bus'.arg = bus.arg
        /\ bus'.pc = IF rep.status = bus.arg THEN "save" ELSE "assign"
    BY <1>1 DEF BusSetStatus, TypeOK
  <2> QED
    BY <1>0, <1>1, <2>1
<1>2. CASE bus.pc = "assign"
  <2>1. /\ rep'.status = bus.arg /\ reporter' = reporter
        /\ bus'.pc = "branch" /\ bus'.arg = bus.arg
    BY <1>2 DEF BusSetStatus, TypeOK, Settings
  <2> QED
    BY <1>0, <1>2, <2>1
<1>3. CASE bus.pc = "branch"
  <2>1. /\ rep' = rep /\ bus'.pc = "save" /\ bus'.arg = bus.arg
        /\ reporter' \in StartOrSignal(reporter)
    BY <1>3 DEF BusSetStatus, TypeOK
  <2>2. CASE reporter' = reporter
    BY <1>0, <1>3, <2>1, <2>2
  <2>3. ASSUME NEW q \in Reporters, rep.status # 0,
               reporter' = [reporter EXCEPT ![q] = NewReporter]
        PROVE  SoleReporter'
    <3>1. \A r \in Reporters :
             /\ reporter'[r].pc = IF r = q THEN "init" ELSE "off"
             /\ ~reporter'[r].failed
      BY <1>3, <2>3 DEF NewReporter, NoReporter, TypeOK
    <3> QED
      BY <1>0, <2>1, <3>1
  <2>4. ASSUME NEW q \in Reporters, reporter[q].pc = "wait",
               reporter' = [reporter EXCEPT ![q].pc = "top"]
        PROVE  SoleReporter'
    <3>1. \A r \in Reporters :
             /\ reporter'[r].pc = IF r = q THEN "top" ELSE reporter[r].pc
             /\ ~reporter'[r].failed
      BY <2>4 DEF TypeOK, Reporter
    <3> QED
      BY <1>0, <2>1, <2>4, <3>1
  <2> QED
    BY <2>1, <2>2, <2>3, <2>4 DEF StartOrSignal
<1> QED
  BY <1>1, <1>2, <1>3 DEF BusSetStatus

\* What the start reads when the store answers.
LEMMA BootReads ==
  ASSUME "psm" \notin Faults, TypeOK, DmlXdslReportInit
  PROVE  /\ rep'.status = rep.status /\ rep'.dflt = nvram.Default
         /\ rep'.period = nvram.ReportingPeriod
         /\ dml'.Enabled = nvram.Enabled
         /\ dml'.ReportingPeriod = nvram.ReportingPeriod
         /\ ~dml'.bEnableChanged /\ ~dml'.bReportingPeriodChanged
         /\ bus.pc = "boot" /\ bus'.pc = "compare" /\ bus'.arg = nvram.Enabled
         /\ UNCHANGED <<nvram, reporter>>
<1>1. \A record, prev : Got(record, prev) = {record}
  BY DEF Got
<1>2. /\ rep' = [rep EXCEPT !.dflt = nvram.Default,
                            !.period = nvram.ReportingPeriod]
      /\ dml' = [NewObject EXCEPT !.ReportingPeriod = nvram.ReportingPeriod,
                                  !.Enabled = nvram.Enabled]
      /\ bus' = [pc |-> "compare", arg |-> nvram.Enabled]
      /\ bus.pc = "boot" /\ UNCHANGED <<nvram, reporter>>
  BY <1>1 DEF DmlXdslReportInit
<1> QED
  BY <1>2 DEF TypeOK, Settings, NewObject

\* What the end of a request leaves when the store takes it.
LEMMA RestWrites ==
  ASSUME "psm" \notin Faults, TypeOK, CommitRest
  PROVE  /\ rep'.status = rep.status /\ rep'.dflt = rep.dflt
         /\ rep'.period = IF dml.bReportingPeriodChanged
                          THEN dml.ReportingPeriod ELSE rep.period
         /\ nvram'.ReportingPeriod = IF dml.bReportingPeriodChanged
                THEN dml.ReportingPeriod ELSE nvram.ReportingPeriod
         /\ nvram'.Enabled = IF dml.bEnableChanged THEN dml.Enabled
                                                   ELSE nvram.Enabled
         /\ nvram'.Default = nvram.Default
         /\ dml'.Enabled = dml.Enabled
         /\ dml'.ReportingPeriod = dml.ReportingPeriod
         /\ bus.pc = "save" /\ bus'.pc = "idle" /\ bus'.arg = 0
         /\ reporter' = reporter
<1>1. \A value, old : Stored(value, old) = {value}
  BY DEF Stored
<1>2. nvram' = [nvram EXCEPT
                  !.Enabled = IF dml.bEnableChanged THEN dml.Enabled
                                                    ELSE nvram.Enabled,
                  !.ReportingPeriod = IF dml.bReportingPeriodChanged
                      THEN dml.ReportingPeriod ELSE nvram.ReportingPeriod]
  BY <1>1 DEF CommitRest
<1>3. /\ nvram'.ReportingPeriod = IF dml.bReportingPeriodChanged
                THEN dml.ReportingPeriod ELSE nvram.ReportingPeriod
      /\ nvram'.Enabled = IF dml.bEnableChanged THEN dml.Enabled
                                                ELSE nvram.Enabled
      /\ nvram'.Default = nvram.Default
  BY <1>2 DEF TypeOK, Store
<1>4. /\ rep'.status = rep.status /\ rep'.dflt = rep.dflt
      /\ rep'.period = IF dml.bReportingPeriodChanged
                       THEN dml.ReportingPeriod ELSE rep.period
  BY DEF CommitRest, TypeOK, Settings
<1>5. /\ dml'.Enabled = dml.Enabled
      /\ dml'.ReportingPeriod = dml.ReportingPeriod
  BY DEF CommitRest, TypeOK, Object
<1> QED
  BY <1>3, <1>4, <1>5 DEF CommitRest

LEMMA BusSole ==
  ASSUME Calm, "psm" \notin Faults, TypeOK, SoleReporter,
         BusStep \/ Request \/ Crash
  PROVE  SoleReporter'
<1> USE DEF SoleReporter, OneReporter, Live, Off, NotWriting
<1>1. CASE DmlXdslReportInit
  BY <1>1, BootReads
<1>2. CASE BusSetStatus
  BY <1>2, SetStatusSole
<1>3. CASE CommitRest
  BY <1>3, RestWrites
<1>4. CASE Crash
  BY <1>4 DEF Crash, PowerOn, NewObject, NoReporter
<1>5. ASSUME UNCHANGED <<bus, reporter>>, rep'.status = rep.status,
             dml'.Enabled \in {0, 1}, nvram'.Enabled = nvram.Enabled
      PROVE  SoleReporter'
  BY <1>5
<1>6. CASE Request
  <2>1. ASSUME NEW v \in {0, 1}, SetEnabled(v) PROVE SoleReporter'
    <3>1. dml'.Enabled = v
      BY <2>1 DEF SetEnabled, TypeOK, Object
    <3> QED
      BY <1>5, <2>1, <3>1 DEF SetEnabled
  <2>2. ASSUME NEW p \in Periods, SetReportingPeriod(p) PROVE SoleReporter'
    <3>1. dml'.Enabled = dml.Enabled
      BY <2>2 DEF SetReportingPeriod, TypeOK, Object
    <3> QED
      BY <1>5, <2>2, <3>1 DEF SetReportingPeriod
  <2>3. CASE Commit
    <3>1. /\ UNCHANGED <<rep, dml, nvram, reporter>>
          /\ \/ /\ bus'.pc = "compare" /\ bus'.arg = dml.Enabled
                /\ dml.Enabled = 1 /\ rep.status = 0 => Off
             \/ bus'.pc = "save" /\ bus'.arg = 0
      BY <2>3 DEF Commit
    <3> QED
      BY <3>1
  <2>4. CASE Rollback
    <3>1. dml'.Enabled \in {rep.status, dml.Enabled}
      BY <2>4 DEF Rollback
    <3> QED
      BY <1>5, <2>4, <3>1 DEF Rollback
  <2>5. ASSUME NEW p \in Periods, SetDefaultReportingPeriod(p)
        PROVE  SoleReporter'
    <3>1. rep'.status = rep.status /\ nvram'.Enabled = nvram.Enabled
      BY <2>5 DEF SetDefaultReportingPeriod, TypeOK, Settings, Store
    <3> QED
      BY <1>5, <2>5, <3>1 DEF SetDefaultReportingPeriod
  <2>6. ASSUME NEW ttl \in TTLs, SetOverrideTTL(ttl) PROVE SoleReporter'
    <3>1. rep'.status = rep.status
      BY <2>6 DEF SetOverrideTTL, TypeOK, Settings
    <3> QED
      BY <1>5, <2>6, <3>1 DEF SetOverrideTTL
  <2> QED
    BY <1>6, <2>1, <2>2, <2>3, <2>4, <2>5, <2>6 DEF Request
<1> QED
  BY <1>1, <1>2, <1>3, <1>4, <1>6 DEF BusStep

LEMMA SoleHolds ==
  Calm /\ "psm" \notin Faults /\ "harvest" \notin Faults /\ Spec
      => [](TypeOK /\ SoleReporter)
<1> SUFFICES ASSUME Calm, "psm" \notin Faults, "harvest" \notin Faults
             PROVE  Spec => [](TypeOK /\ SoleReporter)
  OBVIOUS
<1>1. Init => SoleReporter
  BY DEF Init, PowerOn, NewObject, NoReporter, SoleReporter, OneReporter,
         Live, Off, NotWriting
<1>2. TypeOK /\ SoleReporter /\ [Next]_vars => SoleReporter'
  <2> SUFFICES ASSUME TypeOK, SoleReporter, [Next]_vars PROVE SoleReporter'
    OBVIOUS
  <2>1. CASE BusStep \/ Request \/ Crash
    BY <2>1, BusSole
  <2>2. ASSUME NEW r \in Reporters, ReporterStep(r) PROVE SoleReporter'
    BY <2>2, ReporterSole
  <2>3. CASE UNCHANGED vars
    BY <2>3 DEF vars, SoleReporter, OneReporter, Live, Off, NotWriting
  <2> QED
    BY <2>1, <2>2, <2>3 DEF Next
<1> QED
  BY <1>1, <1>2, TypeCorrect, PTL DEF Spec

\* Only enabling can start a second reporter: whatever is requested while a
\* reporter harvests, sends, waits or ends, there is one, if the one before is
\* gone by the time reporting is enabled.  A failed harvest or a period read
\* into Enabled from a store that does not answer would start another.
THEOREM OneReporterHolds ==
  Calm /\ "psm" \notin Faults /\ "harvest" \notin Faults /\ Spec
      => []OneReporter
<1> SUFFICES ASSUME Calm, "psm" \notin Faults, "harvest" \notin Faults
             PROVE  Spec => []OneReporter
  OBVIOUS
<1>1. SoleReporter => OneReporter
  BY DEF SoleReporter
<1> QED
  BY <1>1, SoleHolds, PTL

----------------------------------------------------------------------------
(* Settings that agree.                                                    *)

\* A reporter leaves the status and everything a request writes alone.
LEMMA ReporterAgree ==
  ASSUME TypeOK, SoleReporter, Agree, NEW r \in Reporters, ReporterStep(r)
  PROVE  Agree'
<1>1. reporter[r].pc # "assign"
  BY DEF SoleReporter, NotWriting
<1> QED
  BY <1>1, ReporterEffect DEF Agree

LEMMA BusAgree ==
  ASSUME "psm" \notin Faults, TypeOK, Agree, BusStep \/ Request \/ Crash
  PROVE  Agree'
<1>1. CASE DmlXdslReportInit
  BY <1>1, BootReads DEF Agree
<1>2. CASE BusSetStatus
  <2>1. /\ UNCHANGED <<dml, nvram>>
        /\ rep'.dflt = rep.dflt /\ rep'.period = rep.period
        /\ bus'.arg = bus.arg
        /\ \/ /\ bus.pc = "compare" /\ rep'.status = rep.status
              /\ bus'.pc = IF rep.status = bus.arg THEN "save" ELSE "assign"
           \/ /\ bus.pc = "assign" /\ rep'.status = bus.arg
              /\ bus'.pc = "branch"
           \/ /\ bus.pc = "branch" /\ rep'.status = rep.status
              /\ bus'.pc = "save"
    BY <1>2 DEF BusSetStatus, TypeOK, Settings
  <2> QED
    BY <2>1 DEF Agree
<1>3. CASE CommitRest
  <2>1. ~dml'.bEnableChanged /\ ~dml'.bReportingPeriodChanged
    BY <1>3 DEF CommitRest, TypeOK, Object
  <2> QED
    BY <1>3, <2>1, RestWrites DEF Agree
<1>4. CASE Crash
  BY <1>4 DEF Crash, PowerOn, NewObject, Agree
<1>5. CASE Request
  <2>0. bus.pc = "idle"
    BY <1>5 DEF Request, SetEnabled, SetReportingPeriod, Commit, Rollback,
                SetDefaultReportingPeriod, SetOverrideTTL, Idle
  <2>1. ASSUME NEW v \in {0, 1}, SetEnabled(v) PROVE Agree'
    <3>1. /\ dml'.bEnableChanged
          /\ dml'.bReportingPeriodChanged = dml.bReportingPeriodChanged
          /\ dml'.ReportingPeriod = dml.ReportingPeriod
      BY <2>1 DEF SetEnabled, TypeOK, Object
    <3> QED
      BY <2>0, <2>1, <3>1 DEF SetEnabled, Agree
  <2>2. ASSUME NEW p \in Periods, SetReportingPeriod(p) PROVE Agree'
    <3>1. /\ dml'.bReportingPeriodChanged
          /\ dml'.bEnableChanged = dml.bEnableChanged
          /\ dml'.Enabled = dml.Enabled
      BY <2>2 DEF SetReportingPeriod, TypeOK, Object
    <3> QED
      BY <2>0, <2>2, <3>1 DEF SetReportingPeriod, Agree
  <2>3. CASE Commit
    <3>1. \/ /\ dml.bEnableChanged
             /\ bus'.pc = "compare" /\ bus'.arg = dml.Enabled
          \/ ~dml.bEnableChanged /\ bus'.pc = "save"
      BY <2>3 DEF Commit
    <3> QED
      BY <2>0, <2>3, <3>1 DEF Commit, Agree
  <2>4. CASE Rollback
    <3>1. /\ dml'.Enabled = IF dml.bEnableChanged THEN rep.status
                                                  ELSE dml.Enabled
          /\ dml'.ReportingPeriod = IF dml.bReportingPeriodChanged
                                    THEN rep.period ELSE dml.ReportingPeriod
      BY <2>4 DEF Rollback
    <3> QED
      BY <2>0, <2>4, <3>1 DEF Rollback, Agree
  <2>5. ASSUME NEW p \in Periods, SetDefaultReportingPeriod(p) PROVE Agree'
    <3>1. \A value, old : Stored(value, old) = {value}
      BY DEF Stored
    <3>2. nvram' = [nvram EXCEPT !.Default = p] /\ rep' = [rep EXCEPT !.dflt = p]
      BY <2>5, <3>1 DEF SetDefaultReportingPeriod
    <3>3. /\ nvram'.Default = p /\ nvram'.Enabled = nvram.Enabled
          /\ nvram'.ReportingPeriod = nvram.ReportingPeriod
          /\ rep'.dflt = p /\ rep'.status = rep.status
          /\ rep'.period = rep.period
      BY <3>2 DEF TypeOK, Settings, Store
    <3> QED
      BY <2>0, <2>5, <3>3 DEF SetDefaultReportingPeriod, Agree
  <2>6. ASSUME NEW ttl \in TTLs, SetOverrideTTL(ttl) PROVE Agree'
    <3>1. /\ rep'.dflt = rep.dflt /\ rep'.status = rep.status
          /\ rep'.period = rep.period
      BY <2>6 DEF SetOverrideTTL, TypeOK, Settings
    <3> QED
      BY <2>0, <2>6, <3>1 DEF SetOverrideTTL, Agree
  <2> QED
    BY <1>5, <2>1, <2>2, <2>3, <2>4, <2>5, <2>6 DEF Request
<1> QED
  BY <1>1, <1>2, <1>3, <1>4, <1>5 DEF BusStep

\* Between requests the data model, the running settings and the store agree,
\* through every commit, rollback, crash and restart, as long as the store
\* answers and no harvest fails.
THEOREM CommittedInForceHolds ==
  Calm /\ "psm" \notin Faults /\ "harvest" \notin Faults /\ Spec
      => []CommittedInForce
<1> SUFFICES ASSUME Calm, "psm" \notin Faults, "harvest" \notin Faults
             PROVE  Spec => []CommittedInForce
  OBVIOUS
<1>1. Init => Agree
  BY DEF Init, PowerOn, NewObject, Agree
<1>2. TypeOK /\ SoleReporter /\ Agree /\ [Next]_vars => Agree'
  <2> SUFFICES ASSUME TypeOK, SoleReporter, Agree, [Next]_vars PROVE Agree'
    OBVIOUS
  <2>1. CASE BusStep \/ Request \/ Crash
    BY <2>1, BusAgree
  <2>2. ASSUME NEW r \in Reporters, ReporterStep(r) PROVE Agree'
    BY <2>2, ReporterAgree
  <2>3. CASE UNCHANGED vars
    BY <2>3 DEF vars, Agree
  <2> QED
    BY <2>1, <2>2, <2>3 DEF Next
<1>3. Agree => CommittedInForce
  BY DEF Agree, CommittedInForce
<1> QED
  BY <1>1, <1>2, <1>3, SoleHolds, PTL DEF Spec
=============================================================================
