------------------------------ MODULE XtmLinks ------------------------------
(***************************************************************************)
(* Device.PTM.Link and Device.ATM.Link: the entry list with its instance   *)
(* numbers, the data-model handlers that add, set, commit, roll back and   *)
(* delete a link, and what they do to the driver (HAL), to the             *)
(* Ethernet.Link table of the VLAN manager and to the stored records       *)
(* (PSM), which all outlive the process.                                   *)
(*                                                                         *)
(* One data-model thread serves the requests, so a handler runs to its end *)
(* unless the process crashes between two of its calls.  The two tables    *)
(* share no state: a behaviour follows the one in "kind".                  *)
(***************************************************************************)
EXTENDS Integers, Sequences, FiniteSets

CONSTANTS
    NumMax,       \* largest instance number (2^w - 1 for a ULONG of w bits)
    MaxRows,      \* bound: links in the table at once
    EthIds,       \* bound: row numbers of the VLAN manager's Ethernet.Link
    Settings,     \* the ATM parameters that have a stored record
    Values,       \* the values clients write to them
    StartNumbers, \* next numbers a start may find in the registry, or 1
    MaxFailures   \* bound: failing calls and crashes in a behaviour

ASSUME XtmConstants ==
    /\ NumMax \in Nat /\ EthIds \subseteq Nat \ {0}
    /\ MaxRows \in Nat /\ MaxRows < NumMax
    /\ Values \subseteq Nat \ {0}
    /\ "PeakCellRate" \in Settings
    /\ StartNumbers # {} /\ StartNumbers \subseteq 0..NumMax
    /\ MaxFailures \in Nat

VARIABLES
    kind,    \* the table this behaviour follows, "PTM" or "ATM"
    list,    \* Q_PtmList or Q_AtmList: instance numbers in list order
    next,    \* ulPtNextInstanceNumber
    fresh,   \* links with bNew, added and not yet committed
    enable,  \* Enable of each link
    field,   \* ATM: the settings of each link
    op,      \* the commit or the deletion in progress
    hal,     \* the driver holds an enabled link
    psm,     \* the stored records of the settings
    ethRows, \* rows of Ethernet.Link
    lower,   \* their LowerLayers: the PTM link's number, 0 for none
    failures, \* calls that failed, and crashes
    \* history, read by the properties only:
    asked,   \* new links with an Enable that was set and not rolled back
    granted, \* an Enable was set and its link committed
    told,    \* the last value of each setting that PSM took
    misled,  \* links whose Ethernet.Link was looked up in vain or misread
    hurt     \* links whose Ethernet.Link a failing call or a crash upset

process == <<kind, list, next, fresh, enable, field>>
outside == <<hal, psm, ethRows, lower>>
history == <<asked, granted, told, misled, hurt>>
vars == <<process, op, outside, failures, history>>

Nums == 1..NumMax
NoRecords == [s \in Settings |-> 0]

\* MaximumBurstSize is set and read in the field of PeakCellRate; its own
\* field is only loaded and handed to the driver, and is left out.
FieldOf(s) == IF s = "MaximumBurstSize" THEN "PeakCellRate" ELSE s
\* Mutant: the record goes with the field.
RecordOfField(s) == FieldOf(s)
RecordOf(s) == s
Fields == {FieldOf(s) : s \in Settings}
NoFields == [f \in Fields |-> 0]
At(pc, n, i) == [pc |-> pc, num |-> n, inst |-> i]
Idle == At("idle", 0, 0)
Listed == {list[i] : i \in 1..Len(list)}
Committed == Listed \ fresh

\* A call to another process succeeds, or it fails.
Works == UNCHANGED failures
Fails == failures < MaxFailures /\ failures' = failures + 1

----------------------------------------------------------------------------
(* The list and its numbers.                                               *)

\* Mutant: takes the next number without looking at the list.
NextUnchecked(m) == m = IF next = 0 THEN 1 ELSE next

\* m is the number the loop ends at: from the next number on, 0 left out,
\* the first that is not in the list, starting again at 1 after the last.
FirstFree(m) ==
    LET start == IF next = 0 THEN 1 ELSE next
        Before(x) == IF m >= start THEN x \in start..(m - 1)
                                   ELSE x >= start \/ x < m
    IN  m \notin Listed /\ \A x \in Nums : Before(x) => x \in Listed

\* A new entry goes before the first one with a larger number.
IsSlot(i, n) ==
    /\ \A j \in 1..(i - 1) : list[j] <= n
    /\ i <= Len(list) => n < list[i]

\* Mutant: the new entry takes the place of the one it should go before.
PutAt(i, n) ==
    [j \in 1..(IF i > Len(list) THEN i ELSE Len(list)) |->
        IF j = i THEN n ELSE list[j]]

InsertedAt(i, n) ==
    [j \in 1..(Len(list) + 1) |->
        IF j < i THEN list[j] ELSE IF j = i THEN n ELSE list[j - 1]]

\* Mutant: takes the entry after it out.
WithoutNext(i) ==
    [j \in 1..(Len(list) - 1) |-> IF j <= i THEN list[j] ELSE list[j + 1]]

WithoutIndex(i) ==
    [j \in 1..(Len(list) - 1) |-> IF j < i THEN list[j] ELSE list[j + 1]]

----------------------------------------------------------------------------
(* Handlers that end at once.                                              *)

\* The settings of a new ATM link are loaded from the records that can be
\* read, in the same handler; a PTM link has none.
LoadedBut(unread) ==
    [f \in Fields |-> IF kind = "PTM" \/ f \in unread THEN 0 ELSE psm[f]]

AddEntry(n) ==
    /\ op = Idle
    /\ Len(list) < MaxRows
    /\ FirstFree(n)
    /\ \E i \in 1..(Len(list) + 1) : IsSlot(i, n) /\ list' = InsertedAt(i, n)
    /\ next' = (n + 1) % (NumMax + 1)
    /\ fresh' = fresh \union {n}
    /\ enable' = [enable EXCEPT ![n] = FALSE]
    /\ \E unread \in SUBSET Fields :
          /\ field' = [field EXCEPT ![n] = LoadedBut(unread)]
          /\ IF unread = {} THEN Works ELSE kind = "ATM" /\ Fails
    /\ UNCHANGED <<kind, op, outside, history>>

SetEnable(n, b) ==
    /\ op = Idle
    /\ enable' = [enable EXCEPT ![n] = b]
    /\ asked' = IF b /\ n \in fresh THEN asked \union {n} ELSE asked \ {n}
    /\ granted' = (granted \/ (b /\ n \notin fresh))
    /\ UNCHANGED <<kind, list, next, fresh, field, op, outside, failures,
                   told, misled, hurt>>

\* The getter asks the driver about the first link of the list and writes
\* the answer into the link it was asked for; if the driver fails nothing
\* changes.
GetEnable(n) ==
    /\ op = Idle
    /\ \E b \in {FALSE, hal} : enable' = [enable EXCEPT ![n] = b]
    /\ UNCHANGED <<kind, list, next, fresh, field, op, outside, failures,
                   history>>

\* Mutant: puts only the name back.
RollbackName(n) ==
    /\ op = Idle
    /\ n \in fresh
    /\ asked' = asked \ {n}
    /\ UNCHANGED <<process, op, outside, failures, granted, told, misled, hurt>>

Rollback(n) ==
    /\ op = Idle
    /\ n \in fresh
    /\ enable' = [enable EXCEPT ![n] = FALSE]
    /\ asked' = asked \ {n}
    /\ UNCHANGED <<kind, list, next, fresh, field, op, outside, failures,
                   granted, told, misled, hurt>>

GetSetting(n, s) == field[n][FieldOf(s)]

\* A setting is stored by its setter, before any Validate or Commit.
SetSetting(n, s, v) ==
    /\ op = Idle /\ kind = "ATM"
    /\ field' = [field EXCEPT ![n][FieldOf(s)] = v]
    /\ \/ /\ Works
          /\ psm' = [psm EXCEPT ![RecordOf(s)] = v]
          /\ told' = [told EXCEPT ![s] = v]
       \/ Fails /\ UNCHANGED <<psm, told>>
    /\ UNCHANGED <<kind, list, next, fresh, enable, op, hal, ethRows, lower,
                   asked, granted, misled, hurt>>

\* The entry is taken out of the list and freed.
Removed(n) ==
    /\ \E i \in 1..Len(list) : list[i] = n /\ list' = WithoutIndex(i)
    /\ fresh' = fresh \ {n}
    /\ enable' = [enable EXCEPT ![n] = FALSE]
    /\ field' = [field EXCEPT ![n] = NoFields]

\* Only a link that was never committed goes at once.  A committed ATM link
\* never goes: DmlDelAtm hands the driver a NULL link and fails.
DelNewEntry(n) ==
    /\ op = Idle
    /\ n \in fresh
    /\ Removed(n)
    /\ asked' = asked \ {n}
    /\ UNCHANGED <<kind, next, op, outside, failures, granted, told, misled, hurt>>

\* The driver takes an Enable for one link (for PTM the first of the list,
\* whichever is meant), another may stay enabled; or the call fails.
Drive(b) ==
    \/ Works /\ hal' \in {b, b \/ hal}
    \/ Fails /\ UNCHANGED hal

CommitAtm(n) ==
    /\ op = Idle /\ kind = "ATM" /\ n \in fresh
    /\ Drive(enable[n])
    /\ fresh' = fresh \ {n}
    /\ granted' = (granted \/ n \in asked)
    /\ asked' = asked \ {n}
    /\ UNCHANGED <<kind, list, next, enable, field, op, psm, ethRows, lower,
                   told, misled, hurt>>

----------------------------------------------------------------------------
(* Commit of a new PTM link: DmlAddPtm and DmlPtmCreateEthLink.            *)

\* Whatever the driver answers, the Ethernet.Link comes next.
CommitPtm(n) ==
    /\ op = Idle /\ kind = "PTM" /\ n \in fresh
    /\ Drive(enable[n])
    /\ granted' = (granted \/ n \in asked)
    /\ asked' = asked \ {n}
    /\ op' = At("find", n, 0)
    /\ UNCHANGED <<process, psm, ethRows, lower, told, misled, hurt>>

\* Two characters of "...Link.12." are read as a number, "2." here.
LastDigit(e) == e % 10

\* Mutant: LowerLayers is not compared.
AnyEthLink(n) == ethRows

EthLinksOf(n) == {e \in ethRows : lower[e] = n}

\* Mutant: does not look whether there is one.
NoLookup(n, found, missing) ==
    /\ op' = At(missing, n, 0)
    /\ Works /\ UNCHANGED misled

\* CosaDmlXtmGetLowerLayersInstanceInOtherAgent: a row with this LowerLayers,
\* of whose number only the last digit is read, or nothing; a query that
\* fails looks like nothing.
Lookup(n, found, missing) ==
    \/ /\ \E e \in EthLinksOf(n) :
             /\ op' = At(found, n, LastDigit(e))
             /\ misled' = IF LastDigit(e) = e THEN misled ELSE misled \union {n}
       /\ Works
    \/ /\ EthLinksOf(n) = {}
       /\ op' = At(missing, n, 0)
       /\ Works /\ UNCHANGED misled
    \/ /\ EthLinksOf(n) # {} /\ Fails
       /\ op' = At(missing, n, 0)
       /\ misled' = misled \union {n}

FindForCommit ==
    /\ op.pc = "find"
    /\ Lookup(op.num, "set", "add")
    /\ UNCHANGED <<process, outside, asked, granted, told, hurt>>

\* Mutant: does not look whether the row was added.
AddEthRowUnchecked ==
    /\ op.pc = "add"
    /\ \/ \E e \in EthIds \ ethRows :
             /\ ethRows' = ethRows \union {e}
             /\ op' = At("set", op.num, e)
             /\ Works /\ UNCHANGED fresh
       \/ /\ IF EthIds \subseteq ethRows THEN Works ELSE Fails
          /\ op' = Idle
          /\ fresh' = fresh \ {op.num}
          /\ UNCHANGED ethRows
    /\ UNCHANGED <<kind, list, next, enable, field, hal, psm, lower, history>>

\* CcspBaseIf_AddTblRow; if it fails the commit fails and the link stays new.
AddEthRow ==
    /\ op.pc = "add"
    /\ \/ \E e \in EthIds \ ethRows :
             /\ ethRows' = ethRows \union {e}
             /\ op' = At("set", op.num, e)
             /\ Works
       \/ /\ IF EthIds \subseteq ethRows THEN Works ELSE Fails
          /\ op' = Idle
          /\ UNCHANGED ethRows
    /\ UNCHANGED <<process, hal, psm, lower, history>>

\* Nobody looks at whether LowerLayers was taken: the link is committed.
SetEthRow ==
    LET i == op.inst
    IN  /\ op.pc = "set"
        /\ \/ /\ i \in ethRows /\ Works
              /\ lower' = [lower EXCEPT ![i] = op.num]
              /\ hurt' = hurt \union ({lower[i]} \ {0, op.num})
           \/ /\ IF i \in ethRows THEN Fails ELSE Works
              /\ hurt' = hurt \union {op.num}
              /\ UNCHANGED lower
        /\ fresh' = fresh \ {op.num}
        /\ op' = Idle
        /\ UNCHANGED <<kind, list, next, enable, field, hal, psm, ethRows,
                       asked, granted, told, misled>>

----------------------------------------------------------------------------
(* Deletion of a committed PTM link: DmlDelPtm.                            *)

DelPtm(n) ==
    /\ op = Idle /\ kind = "PTM" /\ n \in Committed
    /\ Lookup(n, "drop", "off")
    /\ UNCHANGED <<process, outside, asked, granted, told, hurt>>

DropEthRow ==
    LET i == op.inst
    IN  /\ op.pc = "drop"
        /\ \/ /\ i \in ethRows /\ Works
              /\ ethRows' = ethRows \ {i}
              /\ lower' = [lower EXCEPT ![i] = 0]
              /\ hurt' = hurt \union ({lower[i]} \ {0, op.num})
           \/ /\ IF i \in ethRows THEN Fails ELSE Works
              /\ hurt' = hurt \union {op.num}
              /\ UNCHANGED <<ethRows, lower>>
        /\ op' = At("off", op.num, op.inst)
        /\ UNCHANGED <<process, hal, psm, asked, granted, told, misled>>

\* "Remove actual interface" sends the link's own Enable once more, and its
\* success alone decides whether the entry goes.
DropEntry ==
    /\ op.pc = "off"
    /\ \/ /\ Works /\ hal' \in {enable[op.num], enable[op.num] \/ hal}
          /\ Removed(op.num)
          /\ UNCHANGED hurt
       \/ /\ Fails
          /\ hurt' = hurt \union {op.num}
          /\ UNCHANGED <<hal, list, fresh, enable, field>>
    /\ op' = Idle
    /\ UNCHANGED <<kind, next, psm, ethRows, lower, asked, granted, told, misled>>

----------------------------------------------------------------------------
(* Start and crash.                                                        *)

\* PtmInitialize and AtmInitialize: an empty list, and the next number from
\* the registry if it has one; the links of the last run do not come back.
PowerOn ==
    /\ list = <<>>
    /\ next \in StartNumbers
    /\ fresh = {}
    /\ enable = [n \in Nums |-> FALSE]
    /\ field = [n \in Nums |-> NoFields]
    /\ op = Idle

Init ==
    /\ kind \in {"PTM", "ATM"}
    /\ PowerOn
    /\ hal = FALSE
    /\ psm = NoRecords
    /\ ethRows = {} /\ lower = [e \in EthIds |-> 0]
    /\ failures = 0
    /\ asked = {} /\ granted = FALSE /\ told = NoRecords
    /\ misled = {} /\ hurt = {}

Crash ==
    /\ Fails
    /\ list' = <<>>
    /\ next' \in StartNumbers
    /\ fresh' = {}
    /\ enable' = [n \in Nums |-> FALSE]
    /\ field' = [n \in Nums |-> NoFields]
    /\ op' = Idle
    /\ asked' = {}
    /\ hurt' = hurt \union Listed
    /\ UNCHANGED <<kind, outside, granted, told, misled>>

Next ==
    \/ \E n \in Nums : AddEntry(n)
    \/ \E n \in Listed :
          \/ GetEnable(n) \/ Rollback(n) \/ DelNewEntry(n)
          \/ CommitAtm(n) \/ CommitPtm(n) \/ DelPtm(n)
          \/ \E b \in BOOLEAN : SetEnable(n, b)
          \/ \E s \in Settings, v \in Values : SetSetting(n, s, v)
    \/ FindForCommit \/ AddEthRow \/ SetEthRow
    \/ DropEthRow \/ DropEntry
    \/ Crash

Spec == Init /\ [][Next]_vars

----------------------------------------------------------------------------
(* Properties.                                                             *)

Op == [pc : {"idle", "find", "add", "set", "drop", "off"},
       num : 0..NumMax, inst : Nat]

TypeOK ==
    /\ kind \in {"PTM", "ATM"}
    /\ list \in Seq(Nums)
    /\ next \in 0..NumMax
    /\ fresh \subseteq Listed
    /\ enable \in [Nums -> BOOLEAN]
    /\ field \in [Nums -> [Fields -> Nat]]
    /\ op \in Op
    /\ hal \in BOOLEAN
    /\ psm \in [Settings -> Nat]
    /\ ethRows \subseteq EthIds
    /\ lower \in [EthIds -> 0..NumMax]
    /\ failures \in 0..MaxFailures
    /\ asked \subseteq Nums /\ granted \in BOOLEAN
    /\ told \in [Settings -> Nat]
    /\ misled \subseteq Nums /\ hurt \subseteq Nums

\* Whatever is added and deleted, and after the numbers have wrapped or
\* started again, the list is in the order of its instance numbers and no
\* number names two links (PtmGenForTriggerEntry, SListPushEntryByInsNum).
SortedUnique ==
    \A i, j \in 1..Len(list) : i < j => list[i] < list[j]

\* Over failing calls, repeated commits and crashes between any two calls, a
\* PTM link has at most one Ethernet.Link: a commit takes over the one it
\* finds (DmlPtmCreateEthLink), unless its query was misled.
NoDuplicateEth ==
    \A e, f \in ethRows :
        lower[e] = lower[f] /\ lower[e] \notin {0} \union misled => e = f

\* When no call failed and nothing crashed, the committed PTM links and the
\* rows of Ethernet.Link match: no link lacks its row and no row outlives its
\* link, through DmlAddPtm and DmlDelPtm, of whose results one hides the other.
RowsMatchLinks ==
    (kind = "PTM" /\ op = Idle) =>
        \A n \in Nums \ (hurt \union misled) :
            n \in Committed <=> EthLinksOf(n) # {}

\* A client's Enable reaches the driver only after it was committed: what was
\* set on a new link and rolled back is never driven, not even when the link
\* is committed later (PTMLink_Rollback, DML_PTM_INIT).  An Enable set on a
\* link that was already committed counts as committed.
DrivenWasCommitted == hal => granted

\* The deletion of a PTM link removes its own Ethernet.Link and no other
\* (DmlPtmDeleteEthLink), unless the lookup was misled.
DeletesOwnEth ==
    [][\A e \in ethRows \ ethRows' : lower[e] = op.num \/ op.num \in misled]_vars

\* A setting of an ATM link outlives a crash: a link added later has the
\* value the last setter stored, or the default if its record cannot be read
\* (ATMLink_AddEntry, the ATM setters).  MaximumBurstSize does not: its
\* setter and its getter use the field of PeakCellRate.
SettingsSurvive ==
    [][\A n \in Listed' \ Listed : kind = "ATM" =>
          \A s \in Settings \ {"MaximumBurstSize"} :
              GetSetting(n, s)' \in {told[s], 0}]_vars

Table == INSTANCE LinkTable WITH new <- fresh, committed <- Committed

\* Through all the calls and failures of a commit or a deletion, the table
\* does what LinkTable promises.
TableSpec == Table!Spec
=============================================================================
