------------------------ MODULE XtmLinksSafetyProofs ------------------------
(***************************************************************************)
(* Further theorems about XtmLinks: it implements LinkTable, drives only   *)
(* what was committed, deletes the right row of Ethernet.Link, keeps rows  *)
(* and links alike when nothing fails, and brings stored settings back.    *)
(***************************************************************************)
EXTENDS XtmLinksProofs

----------------------------------------------------------------------------
(* What a step does to the committed links.                                *)

LEMMA SameLinks ==
  ASSUME UNCHANGED <<list, fresh>>
  PROVE  Listed' = Listed /\ Committed' = Committed
BY DEF Listed, Committed

LEMMA AddedLink ==
  ASSUME Inv, NEW n \in Nums, AddEntry(n)
  PROVE  /\ n \notin Listed /\ Listed' = Listed \union {n}
         /\ fresh' = fresh \union {n} /\ Committed' = Committed
<1>1. list \in Seq(Nums)
  BY DEF Inv, TypeOK
<1>2. PICK i \in 1..(Len(list) + 1) : list' = InsertedAt(i, n)
  BY DEF AddEntry
<1>3. Listed' = Listed \union {n}
  BY <1>1, <1>2, InsertListed
<1>4. n \notin Listed /\ fresh' = fresh \union {n}
  BY DEF AddEntry, FirstFree
<1> QED
  BY <1>3, <1>4 DEF Committed

LEMMA RemovedLink ==
  ASSUME Inv, NEW n \in Nums, Removed(n)
  PROVE  /\ n \in Listed /\ Listed' = Listed \ {n}
         /\ fresh' = fresh \ {n} /\ Committed' = Committed \ {n}
BY RemovedFacts DEF Committed

LEMMA GoneLinks ==
  ASSUME Crash
  PROVE  Listed' = {} /\ fresh' = {} /\ Committed' = {}
BY DEF Crash, Listed, Committed

\* Numbers that steps speak of.
LEMMA StepNums ==
  ASSUME Inv
  PROVE  /\ TypeOK /\ Listed \subseteq Nums /\ fresh \subseteq Listed
         /\ op.pc \in {"find", "add", "set"} => op.num \in fresh
         /\ op.pc \in {"drop", "off"} => op.num \in Committed
         /\ op.pc # "idle" => op.num \in Nums
<1>1. TypeOK /\ OpInv /\ Listed \subseteq Nums /\ fresh \subseteq Listed
  BY ListedNums DEF Inv, TypeOK
<1>2. op.pc \in {"idle", "find", "add", "set", "drop", "off"}
  BY <1>1 DEF TypeOK, Op
<1> QED
  BY <1>1, <1>2 DEF OpInv, Committed

----------------------------------------------------------------------------
(* The abstract table.                                                     *)

LEMMA QuietTable ==
  ASSUME fresh' = fresh, Committed' = Committed
  PROVE  [Table!Next]_(Table!linkVars)
BY DEF Table!linkVars

LEMMA CommitRefines ==
  ASSUME Inv, NEW n \in fresh, list' = list, fresh' = fresh \ {n}
  PROVE  [Table!Next]_(Table!linkVars)
<1>1. n \in Nums /\ n \in Listed
  BY StepNums
<1>2. Committed' = Committed \union {n}
  BY <1>1, StepNums DEF Committed, Listed
<1> QED
  BY <1>1, <1>2 DEF Table!Next, Table!Commit

LEMMA DeleteRefines ==
  ASSUME Inv, NEW n \in Nums, Removed(n)
  PROVE  [Table!Next]_(Table!linkVars)
<1>1. n \in fresh \union Committed
  BY RemovedLink DEF Committed
<1> QED
  BY <1>1, RemovedLink DEF Table!Next, Table!Delete

LEMMA StepRefines ==
  ASSUME Inv, [Next]_vars
  PROVE  [Table!Next]_(Table!linkVars)
<1>0. /\ Listed \subseteq Nums
      /\ op.pc \in {"find", "add", "set"} => op.num \in fresh
      /\ op.pc # "idle" => op.num \in Nums
  BY StepNums
<1>1. ASSUME NEW n \in Nums, AddEntry(n)
      PROVE  [Table!Next]_(Table!linkVars)
  <2>1. n \notin fresh \union Committed
    BY <1>1, AddedLink, StepNums DEF Committed
  <2> QED
    BY <1>1, <2>1, AddedLink DEF Table!Next, Table!Add
<1>2. ASSUME NEW n \in Listed, NEW b \in BOOLEAN, SetEnable(n, b)
      PROVE  [Table!Next]_(Table!linkVars)
  BY <1>2, SameLinks, QuietTable DEF SetEnable
<1>3. ASSUME NEW n \in Listed, GetEnable(n)
      PROVE  [Table!Next]_(Table!linkVars)
  BY <1>3, SameLinks, QuietTable DEF GetEnable
<1>4. ASSUME NEW n \in Listed, Rollback(n)
      PROVE  [Table!Next]_(Table!linkVars)
  BY <1>4, SameLinks, QuietTable DEF Rollback
<1>5. ASSUME NEW n \in Listed, NEW s \in Settings, NEW v \in Values,
             SetSetting(n, s, v)
      PROVE  [Table!Next]_(Table!linkVars)
  BY <1>5, SameLinks, QuietTable DEF SetSetting
<1>6. ASSUME NEW n \in Listed, DelNewEntry(n)
      PROVE  [Table!Next]_(Table!linkVars)
  BY <1>0, <1>6, DeleteRefines DEF DelNewEntry
<1>7. ASSUME NEW n \in Listed, CommitAtm(n)
      PROVE  [Table!Next]_(Table!linkVars)
  BY <1>7, CommitRefines DEF CommitAtm
<1>8. ASSUME NEW n \in Listed, CommitPtm(n) \/ DelPtm(n)
      PROVE  [Table!Next]_(Table!linkVars)
  BY <1>8, SameLinks, QuietTable DEF CommitPtm, DelPtm, process
<1>9. ASSUME FindForCommit \/ AddEthRow \/ DropEthRow
      PROVE  [Table!Next]_(Table!linkVars)
  BY <1>9, SameLinks, QuietTable
     DEF FindForCommit, AddEthRow, DropEthRow, process
<1>10. ASSUME SetEthRow
       PROVE  [Table!Next]_(Table!linkVars)
  BY <1>0, <1>10, CommitRefines DEF SetEthRow
<1>11. ASSUME DropEntry
       PROVE  [Table!Next]_(Table!linkVars)
  <2>1. CASE Removed(op.num)
    BY <1>0, <1>11, <2>1, DeleteRefines DEF DropEntry
  <2>2. CASE UNCHANGED <<list, fresh>>
    BY <2>2, SameLinks, QuietTable
  <2> QED
    BY <1>11, <2>1, <2>2 DEF DropEntry
<1>12. ASSUME Crash
       PROVE  [Table!Next]_(Table!linkVars)
  BY <1>12, GoneLinks DEF Table!Next, Table!Restart
<1>13. CASE UNCHANGED vars
  BY <1>13, SameLinks, QuietTable DEF vars, process
<1> QED
  BY <1>1, <1>2, <1>3, <1>4, <1>5, <1>6, <1>7, <1>8, <1>9, <1>10, <1>11,
     <1>12, <1>13 DEF Next

\* Whatever fails, and however many calls a commit or a deletion makes, the
\* table of links does what LinkTable promises.
THEOREM TableRefined == Spec => TableSpec
<1>1. Init => Table!Init
  BY DEF Init, PowerOn, Committed, Listed, Table!Init
<1> QED
  BY <1>1, StepRefines, InvHolds, PTL DEF Spec, TableSpec, Table!Spec

----------------------------------------------------------------------------
(* Enable.                                                                 *)

\* An Enable that is set was granted, or is one of a new link that asked for
\* it; a commit that has begun has moved its link from the one to the other.
GrantInv ==
    /\ \A n \in Nums : enable[n] => granted \/ n \in asked
    /\ hal => granted
    /\ asked \subseteq fresh
    /\ op.pc \in {"find", "add", "set"} => op.num \notin asked

LEMMA GrantRemoved ==
  ASSUME Inv, GrantInv, NEW n \in Nums, Removed(n), asked' = asked \ {n},
         granted' = granted
  PROVE  /\ \A k \in Nums : enable'[k] => granted' \/ k \in asked'
         /\ asked' \subseteq fresh'
BY DEF Inv, TypeOK, GrantInv, Removed

LEMMA DriveGives ==
  ASSUME NEW b, Drive(b)
  PROVE  hal' => b \/ hal
BY DEF Drive

LEMMA NextGrantInv ==
  ASSUME Inv, GrantInv, [Next]_vars
  PROVE  GrantInv'
<1>0. /\ TypeOK /\ Listed \subseteq Nums /\ fresh \subseteq Listed
      /\ op.pc \in {"find", "add", "set"} => op.num \in fresh
      /\ op.pc \in {"drop", "off"} => op.num \in Committed
      /\ op.pc # "idle" => op.num \in Nums
  BY StepNums
<1>1. ASSUME NEW n \in Nums, AddEntry(n)
      PROVE  GrantInv'
  BY <1>0, <1>1, AddedLink DEF AddEntry, GrantInv, TypeOK, outside, history
<1>2. ASSUME NEW n \in Listed, NEW b \in BOOLEAN, SetEnable(n, b)
      PROVE  GrantInv'
  BY <1>0, <1>2 DEF SetEnable, GrantInv, TypeOK, outside, Idle, At
<1>3. ASSUME NEW n \in Listed, GetEnable(n)
      PROVE  GrantInv'
  BY <1>0, <1>3 DEF GetEnable, GrantInv, TypeOK, outside, history
<1>4. ASSUME NEW n \in Listed, Rollback(n)
      PROVE  GrantInv'
  BY <1>0, <1>4 DEF Rollback, GrantInv, TypeOK, outside
<1>5. ASSUME NEW n \in Listed, NEW s \in Settings, NEW v \in Values,
             SetSetting(n, s, v)
      PROVE  GrantInv'
  BY <1>5 DEF SetSetting, GrantInv
<1>6. ASSUME NEW n \in Listed, DelNewEntry(n)
      PROVE  GrantInv'
  BY <1>0, <1>6, GrantRemoved DEF DelNewEntry, GrantInv, outside
<1>7. ASSUME NEW n \in Listed, CommitAtm(n)
      PROVE  GrantInv'
  <2>1. /\ fresh' = fresh \ {n} /\ asked' = asked \ {n}
        /\ enable' = enable /\ op' = Idle
    BY <1>7 DEF CommitAtm
  <2>2. granted \/ n \in asked => granted'
    BY <1>7 DEF CommitAtm
  <2>3. hal' => enable[n] \/ hal
    BY <1>7, DriveGives DEF CommitAtm
  <2> QED
    BY <1>0, <2>1, <2>2, <2>3 DEF GrantInv, Idle, At
<1>8. ASSUME NEW n \in Listed, CommitPtm(n)
      PROVE  GrantInv'
  <2>1. /\ n \in fresh /\ fresh' = fresh /\ asked' = asked \ {n}
        /\ enable' = enable /\ op'.num = n
    BY <1>8 DEF CommitPtm, process, At
  <2>2. granted \/ n \in asked => granted'
    BY <1>8 DEF CommitPtm
  <2>3. hal' => enable[n] \/ hal
    BY <1>8, DriveGives DEF CommitPtm
  <2> QED
    BY <1>0, <2>1, <2>2, <2>3 DEF GrantInv
<1>9. ASSUME NEW n \in Listed, DelPtm(n)
      PROVE  GrantInv'
  <2>1. op'.pc \in {"drop", "off"}
    BY <1>9 DEF DelPtm, Lookup, At
  <2> QED
    BY <1>9, <2>1 DEF DelPtm, GrantInv, process, outside
<1>10. ASSUME FindForCommit
       PROVE  GrantInv'
  <2>1. op'.num = op.num
    BY <1>10 DEF FindForCommit, Lookup, At
  <2> QED
    BY <1>10, <2>1 DEF FindForCommit, GrantInv, process, outside
<1>11. ASSUME AddEthRow
       PROVE  GrantInv'
  <2>1. op' = Idle \/ op'.num = op.num
    BY <1>11 DEF AddEthRow, At
  <2> QED
    BY <1>11, <2>1 DEF AddEthRow, GrantInv, process, history, Idle, At
<1>12. ASSUME SetEthRow
       PROVE  GrantInv'
  BY <1>12 DEF SetEthRow, GrantInv, Idle, At
<1>13. ASSUME DropEthRow
       PROVE  GrantInv'
  BY <1>13 DEF DropEthRow, GrantInv, process, At
<1>14. ASSUME DropEntry
       PROVE  GrantInv'
  <2>0. op.num \in Nums /\ op.num \notin asked
    BY <1>0, <1>14 DEF DropEntry, GrantInv, Committed
  <2>1. CASE Removed(op.num) /\ hal' \in {enable[op.num], enable[op.num] \/ hal}
    BY <1>14, <2>0, <2>1, GrantRemoved DEF DropEntry, GrantInv, Idle, At
  <2>2. CASE UNCHANGED <<hal, list, fresh, enable, field>>
    BY <1>14, <2>2 DEF DropEntry, GrantInv, Idle, At
  <2> QED
    BY <1>14, <2>1, <2>2 DEF DropEntry
<1>15. ASSUME Crash
       PROVE  GrantInv'
  BY <1>15 DEF Crash, GrantInv, outside, Idle, At
<1>16. CASE UNCHANGED vars
  BY <1>16 DEF vars, process, outside, history, GrantInv
<1> QED
  BY <1>1, <1>2, <1>3, <1>4, <1>5, <1>6, <1>7, <1>8, <1>9, <1>10, <1>11,
     <1>12, <1>13, <1>14, <1>15, <1>16 DEF Next

\* An Enable reaches the driver only after some link was committed with it, or
\* set when it was committed: never one that was rolled back, however often
\* the getter overwrites the field with the driver's answer.
THEOREM DrivenWasCommittedHolds == Spec => []DrivenWasCommitted
<1>1. Init => GrantInv
  BY DEF Init, PowerOn, GrantInv, Idle, At
<1>2. GrantInv => DrivenWasCommitted
  BY DEF GrantInv, DrivenWasCommitted
<1> QED
  BY <1>1, <1>2, NextGrantInv, InvHolds, PTL DEF Spec

----------------------------------------------------------------------------
(* The stored settings.                                                    *)

\* PSM holds what was stored last under each name.
StoreInv == psm = told

LEMMA NextStoreInv ==
  ASSUME StoreInv, [Next]_vars
  PROVE  StoreInv'
BY DEF StoreInv, Next, AddEntry, SetEnable, GetEnable, Rollback, SetSetting,
       DelNewEntry, CommitAtm, CommitPtm, DelPtm, FindForCommit, AddEthRow,
       SetEthRow, DropEthRow, DropEntry, Crash, vars, outside, history,
       RecordOf

LEMMA NewLinkLoaded ==
  ASSUME Inv, StoreInv, NEW n \in Nums, AddEntry(n), kind = "ATM",
         NEW s \in Settings \ {"MaximumBurstSize"}
  PROVE  GetSetting(n, s)' \in {told[s], 0}
<1>1. PICK unread \in SUBSET Fields :
         field' = [field EXCEPT ![n] = LoadedBut(unread)]
  BY DEF AddEntry
<1>2. FieldOf(s) = s /\ s \in Fields
  BY DEF FieldOf, Fields
<1>3. field'[n] = LoadedBut(unread)
  BY <1>1 DEF Inv, TypeOK
<1> QED
  BY <1>2, <1>3 DEF GetSetting, LoadedBut, StoreInv, FieldOf

\* A link that is added has each setting as it was last stored, or its default
\* if the record cannot be read, after any failures and crashes.
THEOREM SettingsSurviveHolds == Spec => SettingsSurvive
<1> DEFINE Survives == \A n \in Listed' \ Listed : kind = "ATM" =>
                          \A s \in Settings \ {"MaximumBurstSize"} :
                              GetSetting(n, s)' \in {told[s], 0}
<1>1. Init => StoreInv
  BY DEF Init, StoreInv
<1>2. Inv /\ StoreInv /\ [Next]_vars => [Survives]_vars
  <2> SUFFICES ASSUME Inv, StoreInv, Next PROVE Survives
    OBVIOUS
  <2>1. ASSUME NEW n \in Nums, AddEntry(n)
        PROVE  Survives
    BY <2>1, AddedLink, NewLinkLoaded
  <2>2. ASSUME ~\E n \in Nums : AddEntry(n)
        PROVE  Listed' \subseteq Listed
    <3>1. CASE UNCHANGED list
      BY <3>1 DEF Listed
    <3>2. CASE \E n \in Nums : Removed(n)
      BY <3>2, RemovedLink
    <3>3. CASE Crash
      BY <3>3, GoneLinks
    <3> QED
      BY <2>2, <3>1, <3>2, <3>3, StepNums
         DEF Next, SetEnable, GetEnable, Rollback, SetSetting, DelNewEntry,
             CommitAtm, CommitPtm, DelPtm, FindForCommit, AddEthRow,
             SetEthRow, DropEthRow, DropEntry, process
  <2> QED
    BY <2>1, <2>2
<1> QED
  BY <1>1, <1>2, NextStoreInv, InvHolds, PTL DEF Spec, SettingsSurvive

----------------------------------------------------------------------------
(* Links and their rows of Ethernet.Link.                                  *)

\* A deletion that was not misled is about to drop a row of its link.
DropInv ==
    (op.pc = "drop" /\ op.num \notin misled) => lower[op.inst] = op.num

LEMMA DropInvLookup ==
  ASSUME NEW n, NEW found, NEW missing \in {"add", "off"},
         Lookup(n, found, missing), UNCHANGED lower
  PROVE  DropInv'
BY DEF Lookup, EthLinksOf, DropInv, At

LEMMA NextDropInv ==
  ASSUME DropInv, [Next]_vars
  PROVE  DropInv'
<1>1. CASE UNCHANGED <<op, lower, misled>>
  BY <1>1 DEF DropInv
<1>2. CASE op'.pc # "drop"
  BY <1>2 DEF DropInv
<1>3. ASSUME NEW n \in Listed, DelPtm(n)
      PROVE  DropInv'
  BY <1>3, DropInvLookup DEF DelPtm, outside
<1>4. ASSUME FindForCommit
      PROVE  DropInv'
  BY <1>4, DropInvLookup DEF FindForCommit, outside
<1> QED
  BY <1>1, <1>2, <1>3, <1>4
     DEF Next, AddEntry, SetEnable, GetEnable, Rollback, SetSetting,
         DelNewEntry, CommitAtm, CommitPtm, AddEthRow, SetEthRow, DropEthRow,
         DropEntry, Crash, vars, outside, history, Idle, At

\* A row of Ethernet.Link is removed only by the deletion of its own link, or
\* by one whose lookup was misled.
THEOREM DeletesOwnEthHolds == Spec => DeletesOwnEth
<1> DEFINE Own == \A e \in ethRows \ ethRows' :
                     lower[e] = op.num \/ op.num \in misled
<1>1. Init => DropInv
  BY DEF Init, PowerOn, DropInv, Idle, At
<1>2. DropInv /\ [Next]_vars => [Own]_vars
  BY DEF DropInv, Next, AddEntry, SetEnable, GetEnable, Rollback, SetSetting,
         DelNewEntry, CommitAtm, CommitPtm, DelPtm, FindForCommit, AddEthRow,
         SetEthRow, DropEthRow, DropEntry, Crash, outside
<1> QED
  BY <1>1, <1>2, NextDropInv, PTL DEF Spec, DeletesOwnEth

\* Links and rows match at every step but in a deletion that has dropped the
\* row and not yet the link.
RowsInv ==
    kind = "PTM" =>
        \A n \in Nums \ (hurt \union misled) :
            IF op.pc = "off" /\ op.num = n THEN EthLinksOf(n) = {}
            ELSE n \in Committed <=> EthLinksOf(n) # {}

\* Steps that leave links and rows alone.
LEMMA RowsFrame ==
  ASSUME RowsInv, UNCHANGED <<kind, ethRows, lower>>, Committed' = Committed,
         hurt \subseteq hurt', misled \subseteq misled',
         op' = op \/ (op.pc # "off" /\ op'.pc # "off")
  PROVE  RowsInv'
<1>1. \A n : EthLinksOf(n)' = EthLinksOf(n)
  BY DEF EthLinksOf
<1> QED
  BY <1>1 DEF RowsInv

LEMMA NextRowsInv ==
  ASSUME Inv, EthInv, DropInv, RowsInv, [Next]_vars
  PROVE  RowsInv'
<1>0. /\ TypeOK /\ Listed \subseteq Nums /\ fresh \subseteq Listed
      /\ op.pc \in {"find", "add", "set"} => op.num \in fresh
      /\ op.pc \in {"drop", "off"} => op.num \in Committed
      /\ op.pc # "idle" => op.num \in Nums
      /\ ethRows \subseteq EthIds /\ EthIds \subseteq Nat \ {0}
  BY StepNums, XtmConstants DEF TypeOK
<1>1. ASSUME NEW n \in Nums, AddEntry(n)
      PROVE  RowsInv'
  BY <1>1, AddedLink, RowsFrame DEF AddEntry, outside, history
<1>2. ASSUME NEW n \in Listed, NEW b \in BOOLEAN, SetEnable(n, b)
      PROVE  RowsInv'
  BY <1>2, SameLinks, RowsFrame DEF SetEnable, outside
<1>3. ASSUME NEW n \in Listed, GetEnable(n)
      PROVE  RowsInv'
  BY <1>3, SameLinks, RowsFrame DEF GetEnable, outside, history
<1>4. ASSUME NEW n \in Listed, Rollback(n)
      PROVE  RowsInv'
  BY <1>4, SameLinks, RowsFrame DEF Rollback, outside
<1>5. ASSUME NEW n \in Listed, NEW s \in Settings, NEW v \in Values,
             SetSetting(n, s, v)
      PROVE  RowsInv'
  BY <1>5, SameLinks, RowsFrame DEF SetSetting
<1>6. ASSUME NEW n \in Listed, DelNewEntry(n)
      PROVE  RowsInv'
  <2>1. Committed' = Committed
    BY <1>0, <1>6, RemovedLink DEF DelNewEntry, Committed
  <2> QED
    BY <1>6, <2>1, RowsFrame DEF DelNewEntry, outside
<1>7. ASSUME NEW n \in Listed, CommitAtm(n)
      PROVE  RowsInv'
  BY <1>7 DEF CommitAtm, RowsInv
<1>8. ASSUME NEW n \in Listed, CommitPtm(n)
      PROVE  RowsInv'
  BY <1>8, SameLinks, RowsFrame DEF CommitPtm, process, Idle, At
<1>9. ASSUME NEW n \in Listed, DelPtm(n)
      PROVE  RowsInv'
  <2>1. /\ Committed' = Committed /\ kind' = kind
        /\ UNCHANGED <<ethRows, lower, hurt>>
    BY <1>9, SameLinks DEF DelPtm, process, outside
  <2>2. /\ misled \subseteq misled' /\ op.pc = "idle"
        /\ op'.num = n /\ op'.pc \in {"drop", "off"}
        /\ op'.pc = "off" => EthLinksOf(n) = {} \/ n \in misled'
    BY <1>9 DEF DelPtm, Lookup, Idle, At
  <2>3. \A k : EthLinksOf(k)' = EthLinksOf(k)
    BY <2>1 DEF EthLinksOf
  <2> QED
    BY <2>1, <2>2, <2>3 DEF RowsInv
<1>10. ASSUME FindForCommit
       PROVE  RowsInv'
  <2>1. /\ misled \subseteq misled' /\ op.pc = "find"
        /\ op'.pc \in {"set", "add"}
    BY <1>10 DEF FindForCommit, Lookup, At
  <2> QED
    BY <1>10, <2>1, SameLinks, RowsFrame DEF FindForCommit, process, outside
<1>11. ASSUME AddEthRow
       PROVE  RowsInv'
  <2>1. /\ Committed' = Committed /\ kind' = kind
        /\ UNCHANGED <<lower, hurt, misled>>
        /\ op.pc # "off" /\ op'.pc # "off"
    BY <1>11, SameLinks DEF AddEthRow, process, history, Idle, At
  <2>2. ethRows' = ethRows \/ \E e \in EthIds \ ethRows : ethRows' = ethRows \union {e}
    BY <1>11 DEF AddEthRow
  <2>3. \A k \in Nums : EthLinksOf(k)' = EthLinksOf(k)
    BY <2>1, <2>2 DEF EthLinksOf, EthInv, Nums
  <2> QED
    BY <2>1, <2>3 DEF RowsInv
<1>12. ASSUME SetEthRow
       PROVE  RowsInv'
  <2> DEFINE i == op.inst
  <2>1. /\ op.num \in fresh /\ op.num \in Nums /\ op.pc = "set"
        /\ op'.pc = "idle" /\ kind' = kind
        /\ UNCHANGED <<ethRows, misled>> /\ hurt \subseteq hurt'
    BY <1>0, <1>12 DEF SetEthRow, Idle, At
  <2>2. Committed' = Committed \union {op.num}
    BY <1>0, <1>12, <2>1 DEF SetEthRow, Committed, Listed
  <2>3. CASE UNCHANGED lower /\ op.num \in hurt'
    <3>1. \A k : EthLinksOf(k)' = EthLinksOf(k)
      BY <2>1, <2>3 DEF EthLinksOf
    <3> QED
      BY <2>1, <2>2, <2>3, <3>1 DEF RowsInv
  <2>4. CASE /\ i \in ethRows /\ lower' = [lower EXCEPT ![i] = op.num]
             /\ hurt' = hurt \union ({lower[i]} \ {0, op.num})
    <3>1. \A e \in EthIds : lower'[e] = IF e = i THEN op.num ELSE lower[e]
      BY <1>0, <2>4 DEF TypeOK
    <3>2. \A k \in Nums : k = op.num => EthLinksOf(k)' # {}
      BY <1>0, <2>1, <2>4, <3>1 DEF EthLinksOf
    <3>3. \A k \in Nums \ hurt' : k # op.num => EthLinksOf(k)' = EthLinksOf(k)
      BY <1>0, <2>1, <2>4, <3>1 DEF EthLinksOf, Nums
    <3> QED
      BY <2>1, <2>2, <3>2, <3>3 DEF RowsInv
  <2> QED
    BY <1>12, <2>3, <2>4 DEF SetEthRow
<1>13. ASSUME DropEthRow
       PROVE  RowsInv'
  <2> DEFINE i == op.inst
  <2>1. /\ op.num \in Nums /\ op.num \in Committed /\ op.pc = "drop"
        /\ op'.pc = "off" /\ op'.num = op.num /\ kind' = kind
        /\ misled' = misled /\ hurt \subseteq hurt'
    BY <1>0, <1>13 DEF DropEthRow, process, At
  <2>2. Committed' = Committed
    BY <1>13, SameLinks DEF DropEthRow, process
  <2>3. CASE UNCHANGED <<ethRows, lower>> /\ op.num \in hurt'
    <3>1. \A k : EthLinksOf(k)' = EthLinksOf(k)
      BY <2>3 DEF EthLinksOf
    <3> QED
      BY <2>1, <2>2, <2>3, <3>1 DEF RowsInv
  <2>4. CASE /\ i \in ethRows /\ ethRows' = ethRows \ {i}
             /\ lower' = [lower EXCEPT ![i] = 0]
             /\ hurt' = hurt \union ({lower[i]} \ {0, op.num})
    <3>1. \A e \in EthIds : lower'[e] = IF e = i THEN 0 ELSE lower[e]
      BY <1>0, <2>4 DEF TypeOK
    <3>2. \A k \in Nums \ hurt' : k # op.num => EthLinksOf(k)' = EthLinksOf(k)
      BY <1>0, <2>1, <2>4, <3>1 DEF EthLinksOf, Nums
    <3>3. ASSUME op.num \notin misled
          PROVE  \A k \in Nums : k = op.num => EthLinksOf(k)' = {}
      <4>1. lower[i] = op.num
        BY <2>1, <3>3 DEF DropInv
      <4>2. \A e \in ethRows : lower[e] = op.num => e = i
        BY <2>1, <2>4, <3>3, <4>1 DEF EthInv, NoDuplicateEth, Nums
      <4>3. \A e \in ethRows' : e \in ethRows /\ e # i /\ lower'[e] = lower[e]
        BY <1>0, <2>4, <3>1
      <4> QED
        BY <4>2, <4>3 DEF EthLinksOf
    <3> QED
      BY <2>1, <2>2, <3>2, <3>3 DEF RowsInv
  <2> QED
    BY <1>13, <2>3, <2>4 DEF DropEthRow
<1>14. ASSUME DropEntry
       PROVE  RowsInv'
  <2>1. /\ op.num \in Nums /\ op.pc = "off" /\ op'.pc = "idle" /\ kind' = kind
        /\ UNCHANGED <<ethRows, lower, misled>> /\ hurt \subseteq hurt'
    BY <1>0, <1>14 DEF DropEntry, Idle, At
  <2>2. \A k : EthLinksOf(k)' = EthLinksOf(k)
    BY <2>1 DEF EthLinksOf
  <2>3. CASE Removed(op.num)
    BY <2>1, <2>2, <2>3, RemovedLink DEF RowsInv
  <2>4. CASE UNCHANGED <<list, fresh>> /\ op.num \in hurt'
    BY <2>1, <2>2, <2>4, SameLinks DEF RowsInv
  <2> QED
    BY <1>14, <2>3, <2>4 DEF DropEntry
<1>15. ASSUME Crash
       PROVE  RowsInv'
  <2>1. \A k : EthLinksOf(k)' = EthLinksOf(k)
    BY <1>15 DEF Crash, outside, EthLinksOf
  <2>2. /\ op'.pc = "idle" /\ hurt' = hurt \union Listed
        /\ misled' = misled /\ kind' = kind
    BY <1>15 DEF Crash, Idle, At
  <2> QED
    BY <1>0, <1>15, <2>1, <2>2, GoneLinks DEF RowsInv, Committed
<1>16. CASE UNCHANGED vars
  BY <1>16, SameLinks, RowsFrame DEF vars, process, outside, history
<1> QED
  BY <1>1, <1>2, <1>3, <1>4, <1>5, <1>6, <1>7, <1>8, <1>9, <1>10, <1>11,
     <1>12, <1>13, <1>14, <1>15, <1>16 DEF Next

\* Between requests, a committed PTM link has its row of Ethernet.Link and a
\* row has its link, unless a failing call, a crash or a misled lookup upset
\* that link.
THEOREM RowsMatchLinksHolds == Spec => []RowsMatchLinks
<1>1. Init => RowsInv /\ DropInv
  BY DEF Init, PowerOn, RowsInv, DropInv, Committed, Listed, EthLinksOf,
         Idle, At
<1>2. RowsInv => RowsMatchLinks
  BY DEF RowsInv, RowsMatchLinks, Idle, At
<1> QED
  BY <1>1, <1>2, NextRowsInv, NextDropInv, InvHolds, EthInvHolds, PTL DEF Spec
=============================================================================
