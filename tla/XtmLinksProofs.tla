--------------------------- MODULE XtmLinksProofs ---------------------------
(***************************************************************************)
(* Theorems about XtmLinks, for instance numbers of any width, tables of   *)
(* any size below that, any Ethernet.Link rows, settings and values, and   *)
(* any number of failing calls and crashes.                                *)
(***************************************************************************)
EXTENDS XtmLinks, TLAPS

----------------------------------------------------------------------------
(* The list.                                                               *)

\* A new entry makes the list one longer, holding one number more.
LEMMA InsertFacts ==
  ASSUME list \in Seq(Nums), NEW n \in Nums, NEW i \in 1..(Len(list) + 1)
  PROVE  /\ InsertedAt(i, n) \in Seq(Nums)
         /\ Len(InsertedAt(i, n)) = Len(list) + 1
         /\ \A j \in 1..(Len(list) + 1) : InsertedAt(i, n)[j] =
               IF j < i THEN list[j] ELSE IF j = i THEN n ELSE list[j - 1]
<1> DEFINE new == InsertedAt(i, n)
<1>1. Len(list) \in Nat /\ \A j \in 1..Len(list) : list[j] \in Nums
  OBVIOUS
<1>2. new \in [1..(Len(list) + 1) -> Nums]
  BY <1>1 DEF InsertedAt
<1>3. new \in Seq(Nums) /\ Len(new) = Len(list) + 1
  BY <1>1, <1>2
<1> QED
  BY <1>3 DEF InsertedAt

LEMMA InsertListed ==
  ASSUME list \in Seq(Nums), NEW n \in Nums, NEW i \in 1..(Len(list) + 1),
         list' = InsertedAt(i, n)
  PROVE  Listed' = Listed \union {n}
<1>1. Len(list) \in Nat
  OBVIOUS
<1>2. /\ Len(list') = Len(list) + 1
      /\ \A j \in 1..(Len(list) + 1) : list'[j] =
            IF j < i THEN list[j] ELSE IF j = i THEN n ELSE list[j - 1]
  BY InsertFacts
<1>3. Listed' = {list'[j] : j \in 1..(Len(list) + 1)}
  BY <1>2 DEF Listed
<1>4. ASSUME NEW j \in 1..(Len(list) + 1)
      PROVE  list'[j] \in Listed \union {n}
  <2>1. CASE j < i
    <3>1. j \in 1..Len(list) /\ list'[j] = list[j]
      BY <2>1, <1>1, <1>2
    <3> QED
      BY <3>1 DEF Listed
  <2>2. CASE j = i
    BY <2>2, <1>2
  <2>3. CASE j > i
    <3>1. j - 1 \in 1..Len(list) /\ list'[j] = list[j - 1]
      BY <2>3, <1>1, <1>2
    <3> QED
      BY <3>1 DEF Listed
  <2> QED
    BY <2>1, <2>2, <2>3, <1>1
<1>5. n \in Listed'
  <2>1. list'[i] = n
    BY <1>2
  <2> QED
    BY <2>1, <1>3
<1>6. ASSUME NEW j \in 1..Len(list)
      PROVE  list[j] \in Listed'
  <2>1. CASE j < i
    <3>1. j \in 1..(Len(list) + 1) /\ list'[j] = list[j]
      BY <2>1, <1>1, <1>2
    <3> QED
      BY <3>1, <1>3
  <2>2. CASE j >= i
    <3>1. j + 1 \in 1..(Len(list) + 1) /\ list'[j + 1] = list[j]
      BY <2>2, <1>1, <1>2
    <3> QED
      BY <3>1, <1>3
  <2> QED
    BY <2>1, <2>2, <1>1
<1>7. Listed' \subseteq Listed \union {n}
  BY <1>3, <1>4
<1>8. Listed \subseteq Listed'
  BY <1>6 DEF Listed
<1> QED
  BY <1>5, <1>7, <1>8

\* Without one of its entries the list is one shorter.
LEMMA RemoveFacts ==
  ASSUME list \in Seq(Nums), NEW i \in 1..Len(list)
  PROVE  /\ WithoutIndex(i) \in Seq(Nums)
         /\ Len(WithoutIndex(i)) = Len(list) - 1
         /\ \A j \in 1..(Len(list) - 1) : WithoutIndex(i)[j] =
               IF j < i THEN list[j] ELSE list[j + 1]
<1> DEFINE new == WithoutIndex(i)
<1>1. Len(list) \in Nat /\ Len(list) - 1 \in Nat
      /\ \A j \in 1..Len(list) : list[j] \in Nums
  OBVIOUS
<1>2. new \in [1..(Len(list) - 1) -> Nums]
  BY <1>1 DEF WithoutIndex
<1>3. new \in Seq(Nums) /\ Len(new) = Len(list) - 1
  BY <1>1, <1>2
<1> QED
  BY <1>3 DEF WithoutIndex

LEMMA RemoveListed ==
  ASSUME list \in Seq(Nums), NEW i \in 1..Len(list),
         list' = WithoutIndex(i)
  PROVE  /\ Listed' \subseteq Listed
         /\ Listed \ {list[i]} \subseteq Listed'
         /\ SortedUnique => Listed' = Listed \ {list[i]}
<1>1. Len(list) \in Nat
  OBVIOUS
<1>2. /\ Len(list') = Len(list) - 1
      /\ \A j \in 1..(Len(list) - 1) : list'[j] =
            IF j < i THEN list[j] ELSE list[j + 1]
  BY RemoveFacts
<1>3. Listed' = {list'[j] : j \in 1..(Len(list) - 1)}
  BY <1>2 DEF Listed
<1>4. ASSUME NEW j \in 1..(Len(list) - 1)
      PROVE  \E k \in 1..Len(list) : k # i /\ list'[j] = list[k]
  <2>1. CASE j < i
    BY <2>1, <1>1, <1>2
  <2>2. CASE j >= i
    <3>1. j + 1 \in 1..Len(list) /\ j + 1 # i /\ list'[j] = list[j + 1]
      BY <2>2, <1>1, <1>2
    <3> QED
      BY <3>1
  <2> QED
    BY <2>1, <2>2, <1>1
<1>5. Listed' \subseteq Listed
  <2>1. ASSUME NEW j \in 1..(Len(list) - 1)
        PROVE  list'[j] \in Listed
    BY <1>4 DEF Listed
  <2> QED
    BY <1>3, <2>1
<1>6. ASSUME NEW k \in 1..Len(list), k # i
      PROVE  list[k] \in Listed'
  <2>1. CASE k < i
    <3>1. k \in 1..(Len(list) - 1) /\ list'[k] = list[k]
      BY <2>1, <1>1, <1>2
    <3> QED
      BY <3>1, <1>3
  <2>2. CASE k > i
    <3>1. k - 1 \in 1..(Len(list) - 1) /\ list'[k - 1] = list[k]
      BY <2>2, <1>1, <1>2
    <3> QED
      BY <3>1, <1>3
  <2> QED
    BY <2>1, <2>2, <1>6, <1>1
<1>7. Listed \ {list[i]} \subseteq Listed'
  BY <1>6 DEF Listed
<1>8. ASSUME SortedUnique
      PROVE  list[i] \notin Listed'
  <2> SUFFICES ASSUME NEW j \in 1..(Len(list) - 1), list'[j] = list[i]
               PROVE  FALSE
    BY <1>3
  <2>1. PICK k \in 1..Len(list) : k # i /\ list[k] = list[i]
    BY <1>4
  <2>2. list[k] < list[i] \/ list[i] < list[k]
    BY <2>1, <1>8, <1>1 DEF SortedUnique
  <2>3. list[i] \in Nums
    OBVIOUS
  <2>4. list[i] \in Int
    BY <2>3, XtmConstants DEF Nums
  <2> QED
    BY <2>1, <2>2, <2>4
<1> QED
  BY <1>5, <1>7, <1>8

----------------------------------------------------------------------------
(* Types, the order of the list, and what is known of the link in op.      *)

\* A commit in progress is of a new link, a deletion of a committed one.
OpInv ==
    /\ op.pc = "idle" => op.num = 0
    /\ op.pc \in {"find", "add", "set"} => op.num \in fresh
    /\ op.pc \in {"drop", "off"} => op.num \in Committed

Inv == TypeOK /\ SortedUnique /\ OpInv

LEMMA ListedNums ==
  ASSUME list \in Seq(Nums)
  PROVE  Listed \subseteq Nums
BY DEF Listed

LEMMA InitInv == Init => Inv
<1> SUFFICES ASSUME Init PROVE Inv
  OBVIOUS
<1>1. TypeOK
  <2>1. Idle \in Op
    BY XtmConstants DEF Idle, At, Op
  <2>2. next \in 0..NumMax
    BY XtmConstants DEF Init, PowerOn
  <2>3. list \in Seq(Nums) /\ fresh \subseteq Listed
    BY DEF Init, PowerOn
  <2>4. failures \in 0..MaxFailures
    BY XtmConstants DEF Init
  <2>5. lower \in [EthIds -> 0..NumMax]
    BY XtmConstants DEF Init
  <2> QED
    BY <2>1, <2>2, <2>3, <2>4, <2>5
       DEF Init, PowerOn, TypeOK, NoRecords, NoFields
<1>2. SortedUnique
  BY DEF Init, PowerOn, SortedUnique
<1>3. OpInv
  BY DEF Init, PowerOn, OpInv, Idle, At
<1> QED
  BY <1>1, <1>2, <1>3 DEF Inv

LEMMA FailuresStep ==
  ASSUME failures \in 0..MaxFailures, Works \/ Fails
  PROVE  failures' \in 0..MaxFailures
BY XtmConstants DEF Works, Fails

LEMMA AtType ==
  ASSUME NEW p \in {"idle", "find", "add", "set", "drop", "off"},
         NEW n \in 0..NumMax, NEW i \in Nat
  PROVE  At(p, n, i) \in Op
BY DEF At, Op

LEMMA AddEntryInv ==
  ASSUME Inv, NEW n \in Nums, AddEntry(n)
  PROVE  Inv'
<1> USE DEF Inv
<1>0. list \in Seq(Nums) /\ Len(list) \in Nat
  BY DEF TypeOK
<1>1. PICK i \in 1..(Len(list) + 1) : IsSlot(i, n) /\ list' = InsertedAt(i, n)
  BY DEF AddEntry
<1>2. /\ list' \in Seq(Nums)
      /\ Len(list') = Len(list) + 1
      /\ \A j \in 1..(Len(list) + 1) : list'[j] =
            IF j < i THEN list[j] ELSE IF j = i THEN n ELSE list[j - 1]
  BY <1>0, <1>1, InsertFacts
<1>3. Listed' = Listed \union {n}
  BY <1>0, <1>1, InsertListed
<1>4. n \notin Listed
  BY DEF AddEntry, FirstFree
<1>5. TypeOK'
  <2>1. fresh' \subseteq Listed'
    BY <1>3 DEF AddEntry, TypeOK
  <2>2. next' \in 0..NumMax
    BY XtmConstants DEF AddEntry, Nums
  <2>3. enable' \in [Nums -> BOOLEAN]
    BY DEF AddEntry, TypeOK
  <2>4. field' \in [Nums -> [Fields -> Nat]]
    <3>1. PICK unread \in SUBSET Fields :
             field' = [field EXCEPT ![n] = LoadedBut(unread)]
      BY DEF AddEntry
    <3>2. Fields \subseteq Settings
      BY XtmConstants DEF Fields, FieldOf
    <3>3. LoadedBut(unread) \in [Fields -> Nat]
      BY <3>2 DEF LoadedBut, TypeOK
    <3> QED
      BY <3>1, <3>3 DEF TypeOK
  <2>5. failures' \in 0..MaxFailures
    BY FailuresStep DEF AddEntry, TypeOK
  <2> QED
    BY <1>2, <2>1, <2>2, <2>3, <2>4, <2>5
       DEF AddEntry, TypeOK, outside, history
<1>6. SortedUnique'
  <2> SUFFICES ASSUME NEW j \in 1..(Len(list) + 1), NEW k \in 1..(Len(list) + 1),
                      j < k
               PROVE  list'[j] < list'[k]
    BY <1>2 DEF SortedUnique
  <2>1. \A m \in 1..Len(list) : list[m] \in Nums /\ list[m] # n
    BY <1>0, <1>4 DEF Listed
  <2>2. \A m \in Nums : m \in Int
    BY XtmConstants DEF Nums
  <2>3. \A m \in 1..Len(list) : m < i => list[m] < n
    <3> SUFFICES ASSUME NEW m \in 1..Len(list), m < i PROVE list[m] < n
      OBVIOUS
    <3>1. list[m] <= n
      BY <1>0, <1>1 DEF IsSlot
    <3> QED
      BY <3>1, <2>1, <2>2
  <2>4. \A m \in 1..Len(list) : m >= i => n < list[m]
    <3> SUFFICES ASSUME NEW m \in 1..Len(list), m >= i PROVE n < list[m]
      OBVIOUS
    <3>1. n < list[i] /\ i \in 1..Len(list)
      BY <1>0, <1>1 DEF IsSlot
    <3>2. m = i \/ list[i] < list[m]
      BY <3>1 DEF SortedUnique
    <3> QED
      BY <3>1, <3>2, <2>1, <2>2
  <2>5. CASE k < i
    <3>1. j \in 1..Len(list) /\ k \in 1..Len(list)
      BY <2>5, <1>0
    <3> QED
      BY <3>1, <2>5, <1>0, <1>2 DEF SortedUnique
  <2>6. CASE k = i
    <3>1. j \in 1..Len(list) /\ j < i
      BY <2>6, <1>0
    <3> QED
      BY <3>1, <2>3, <2>6, <1>2
  <2>7. CASE k > i
    <3>1. k - 1 \in 1..Len(list) /\ k - 1 >= i /\ list'[k] = list[k - 1]
      BY <2>7, <1>0, <1>2
    <3>2. CASE j < i
      <4>1. j \in 1..Len(list) /\ j < k - 1 /\ list'[j] = list[j]
        BY <3>2, <2>7, <1>0, <1>2
      <4> QED
        BY <4>1, <3>1 DEF SortedUnique
    <3>3. CASE j = i
      BY <3>1, <3>3, <2>4, <1>2
    <3>4. CASE j > i
      <4>1. j - 1 \in 1..Len(list) /\ j - 1 < k - 1 /\ list'[j] = list[j - 1]
        BY <3>4, <1>0, <1>2
      <4> QED
        BY <4>1, <3>1 DEF SortedUnique
    <3> QED
      BY <3>2, <3>3, <3>4, <1>0
  <2> QED
    BY <2>5, <2>6, <2>7, <1>0
<1>7. OpInv'
  BY DEF AddEntry, OpInv, Idle, At
<1> QED
  BY <1>5, <1>6, <1>7

\* Taking an entry out keeps the list in order and its types.
LEMMA RemovedFacts ==
  ASSUME Inv, NEW n \in Nums, Removed(n)
  PROVE  /\ list' \in Seq(Nums)
         /\ n \in Listed
         /\ Listed' = Listed \ {n}
         /\ fresh' = fresh \ {n} /\ fresh' \subseteq Listed'
         /\ enable' \in [Nums -> BOOLEAN]
         /\ field' \in [Nums -> [Fields -> Nat]]
         /\ SortedUnique'
<1>0. list \in Seq(Nums) /\ Len(list) \in Nat /\ SortedUnique
  BY DEF Inv, TypeOK
<1>1. PICK i \in 1..Len(list) : list[i] = n /\ list' = WithoutIndex(i)
  BY DEF Removed
<1>2. /\ list' \in Seq(Nums)
      /\ Len(list') = Len(list) - 1
      /\ \A j \in 1..(Len(list) - 1) : list'[j] =
            IF j < i THEN list[j] ELSE list[j + 1]
  BY <1>0, <1>1, RemoveFacts
<1>3. Listed' = Listed \ {n}
  BY <1>0, <1>1, RemoveListed
<1>4. n \in Listed
  BY <1>1 DEF Listed
<1>5. SortedUnique'
  <2> SUFFICES ASSUME NEW j \in 1..(Len(list) - 1), NEW k \in 1..(Len(list) - 1),
                      j < k
               PROVE  list'[j] < list'[k]
    BY <1>2 DEF SortedUnique
  <2>1. /\ j \in 1..Len(list) /\ j + 1 \in 1..Len(list)
        /\ k \in 1..Len(list) /\ k + 1 \in 1..Len(list)
        /\ j < k + 1 /\ j + 1 < k + 1
    BY <1>0
  <2>2. CASE k < i
    <3>1. list'[j] = list[j] /\ list'[k] = list[k]
      BY <2>2, <1>2, <1>0
    <3> QED
      BY <3>1, <2>1, <1>0 DEF SortedUnique
  <2>3. CASE j < i /\ k >= i
    <3>1. list'[j] = list[j] /\ list'[k] = list[k + 1]
      BY <2>3, <1>2, <1>0
    <3> QED
      BY <3>1, <2>1, <1>0 DEF SortedUnique
  <2>4. CASE j >= i
    <3>1. list'[j] = list[j + 1] /\ list'[k] = list[k + 1]
      BY <2>4, <1>2, <1>0
    <3> QED
      BY <3>1, <2>1, <1>0 DEF SortedUnique
  <2> QED
    BY <2>2, <2>3, <2>4, <1>0
<1>6. fresh' = fresh \ {n} /\ fresh' \subseteq Listed'
  BY <1>3 DEF Removed, Inv, TypeOK
<1>7. /\ enable' \in [Nums -> BOOLEAN]
      /\ field' \in [Nums -> [Fields -> Nat]]
  BY DEF Removed, Inv, TypeOK, NoFields
<1> QED
  BY <1>2, <1>3, <1>4, <1>5, <1>6, <1>7

\* The order of the list speaks of the list alone.
LEMMA SameList ==
  ASSUME list' = list
  PROVE  Listed' = Listed /\ (SortedUnique => SortedUnique')
BY DEF Listed, SortedUnique

LEMMA LookupFacts ==
  ASSUME TypeOK, NEW n \in Nums,
         NEW found \in {"set", "drop"}, NEW missing \in {"add", "off"},
         Lookup(n, found, missing)
  PROVE  /\ op' \in Op /\ op'.num = n /\ op'.pc \in {found, missing}
         /\ failures' \in 0..MaxFailures
         /\ misled' \subseteq Nums
<1>1. \A e \in ethRows : LastDigit(e) \in Nat
  BY XtmConstants DEF LastDigit, TypeOK
<1>2. op' \in Op /\ op'.num = n /\ op'.pc \in {found, missing}
  BY <1>1 DEF Lookup, EthLinksOf, At, Op, Nums
<1>3. failures' \in 0..MaxFailures
  BY FailuresStep DEF Lookup, TypeOK
<1>4. misled' \subseteq Nums
  BY DEF Lookup, TypeOK
<1> QED
  BY <1>2, <1>3, <1>4

LEMMA IdleType == Idle \in Op
BY XtmConstants DEF Idle, At, Op

LEMMA LowerUpdate ==
  ASSUME TypeOK, NEW i \in ethRows, NEW v \in 0..NumMax
  PROVE  /\ lower[i] \in 0..NumMax
         /\ [lower EXCEPT ![i] = v] \in [EthIds -> 0..NumMax]
BY DEF TypeOK

LEMMA HurtUpdate ==
  ASSUME TypeOK, NEW i, NEW n \in Nums,
         \/ i \in ethRows /\ hurt' = hurt \union ({lower[i]} \ {0, n})
         \/ hurt' = hurt \union {n}
  PROVE  hurt' \subseteq Nums
<1>1. CASE i \in ethRows /\ hurt' = hurt \union ({lower[i]} \ {0, n})
  <2>1. lower[i] \in 0..NumMax
    BY <1>1 DEF TypeOK
  <2>2. lower[i] # 0 => lower[i] \in Nums
    BY <2>1, XtmConstants DEF Nums
  <2> QED
    BY <1>1, <2>2 DEF TypeOK
<1>2. CASE hurt' = hurt \union {n}
  BY <1>2 DEF TypeOK
<1> QED
  BY <1>1, <1>2

LEMMA NextInv ==
  ASSUME Inv, [Next]_vars
  PROVE  Inv'
<1>0. /\ list \in Seq(Nums) /\ Listed \subseteq Nums
      /\ TypeOK /\ SortedUnique /\ OpInv
      /\ fresh \subseteq Listed /\ op \in Op
  BY ListedNums DEF Inv, TypeOK
<1>1. ASSUME NEW n \in Nums, AddEntry(n)
      PROVE  Inv'
  BY <1>1, AddEntryInv
<1>2. ASSUME NEW n \in Listed, NEW b \in BOOLEAN, SetEnable(n, b)
      PROVE  Inv'
  <2>1. TypeOK'
    BY <1>0, <1>2, SameList DEF SetEnable, TypeOK, outside
  <2>2. OpInv'
    BY <1>0, <1>2, SameList DEF SetEnable, OpInv, Committed
  <2> QED
    BY <2>1, <2>2, <1>0, <1>2, SameList DEF SetEnable, Inv
<1>3. ASSUME NEW n \in Listed, GetEnable(n)
      PROVE  Inv'
  <2>1. TypeOK'
    BY <1>0, <1>3, SameList DEF GetEnable, TypeOK, outside, history
  <2>2. OpInv'
    BY <1>0, <1>3, SameList DEF GetEnable, OpInv, Committed
  <2> QED
    BY <2>1, <2>2, <1>0, <1>3, SameList DEF GetEnable, Inv
<1>4. ASSUME NEW n \in Listed, Rollback(n)
      PROVE  Inv'
  <2>1. TypeOK'
    BY <1>0, <1>4, SameList DEF Rollback, TypeOK, outside
  <2>2. OpInv'
    BY <1>0, <1>4, SameList DEF Rollback, OpInv, Committed
  <2> QED
    BY <2>1, <2>2, <1>0, <1>4, SameList DEF Rollback, Inv
<1>5. ASSUME NEW n \in Listed, NEW s \in Settings, NEW v \in Values,
             SetSetting(n, s, v)
      PROVE  Inv'
  <2>1. field' \in [Nums -> [Fields -> Nat]]
    <3>1. v \in Nat /\ FieldOf(s) \in Fields /\ field[n] \in [Fields -> Nat]
      BY <1>0, XtmConstants DEF Fields, TypeOK
    <3>2. [field[n] EXCEPT ![FieldOf(s)] = v] \in [Fields -> Nat]
      BY <3>1
    <3> QED
      BY <3>2, <1>0, <1>5 DEF SetSetting, TypeOK
  <2>2. psm' \in [Settings -> Nat] /\ told' \in [Settings -> Nat]
    BY <1>0, <1>5, XtmConstants DEF SetSetting, TypeOK, RecordOf
  <2>3. failures' \in 0..MaxFailures
    BY <1>0, <1>5, FailuresStep DEF SetSetting, TypeOK
  <2>4. TypeOK'
    BY <2>1, <2>2, <2>3, <1>0, <1>5, SameList DEF SetSetting, TypeOK
  <2>5. OpInv'
    BY <1>0, <1>5, SameList DEF SetSetting, OpInv, Committed
  <2> QED
    BY <2>4, <2>5, <1>0, <1>5, SameList DEF SetSetting, Inv
<1>6. ASSUME NEW n \in Listed, DelNewEntry(n)
      PROVE  Inv'
  <2>1. Removed(n) /\ n \in Nums
    BY <1>0, <1>6 DEF DelNewEntry
  <2>2. TypeOK' /\ SortedUnique'
    BY <2>1, <1>0, <1>6, RemovedFacts DEF DelNewEntry, TypeOK, outside
  <2>3. OpInv'
    BY <1>6 DEF DelNewEntry, OpInv, Idle, At
  <2> QED
    BY <2>2, <2>3 DEF Inv
<1>7. ASSUME NEW n \in Listed, CommitAtm(n)
      PROVE  Inv'
  <2>1. failures' \in 0..MaxFailures /\ hal' \in BOOLEAN
    BY <1>0, <1>7, FailuresStep DEF CommitAtm, Drive, TypeOK
  <2>2. TypeOK'
    BY <2>1, <1>0, <1>7, SameList DEF CommitAtm, TypeOK
  <2>3. OpInv'
    BY <1>7 DEF CommitAtm, OpInv, Idle, At
  <2> QED
    BY <2>2, <2>3, <1>0, <1>7, SameList DEF CommitAtm, Inv
<1>8. ASSUME NEW n \in Listed, CommitPtm(n)
      PROVE  Inv'
  <2>1. failures' \in 0..MaxFailures /\ hal' \in BOOLEAN
    BY <1>0, <1>8, FailuresStep DEF CommitPtm, Drive, TypeOK
  <2>2. op' \in Op /\ op'.pc = "find" /\ op'.num = n
    BY <1>0, <1>8 DEF CommitPtm, At, Op, Nums
  <2>3. TypeOK'
    BY <2>1, <2>2, <1>0, <1>8, SameList DEF CommitPtm, TypeOK, process
  <2>4. OpInv'
    BY <2>2, <1>8 DEF CommitPtm, OpInv, process
  <2> QED
    BY <2>3, <2>4, <1>0, <1>8, SameList DEF CommitPtm, Inv, process
<1>9. ASSUME NEW n \in Listed, DelPtm(n)
      PROVE  Inv'
  <2>1. /\ op' \in Op /\ op'.num = n /\ op'.pc \in {"drop", "off"}
        /\ failures' \in 0..MaxFailures /\ misled' \subseteq Nums
    BY <1>0, <1>9, LookupFacts DEF DelPtm
  <2>2. TypeOK'
    BY <2>1, <1>0, <1>9, SameList DEF DelPtm, TypeOK, process, outside
  <2>3. OpInv'
    BY <2>1, <1>9, SameList DEF DelPtm, OpInv, process, Committed
  <2> QED
    BY <2>2, <2>3, <1>0, <1>9, SameList DEF DelPtm, Inv, process
<1>10. ASSUME FindForCommit
       PROVE  Inv'
  <2>0. op.num \in fresh /\ op.num \in Nums
    BY <1>0, <1>10 DEF FindForCommit, OpInv
  <2>1. /\ op' \in Op /\ op'.num = op.num /\ op'.pc \in {"set", "add"}
        /\ failures' \in 0..MaxFailures /\ misled' \subseteq Nums
    BY <2>0, <1>0, <1>10, LookupFacts DEF FindForCommit
  <2>2. TypeOK'
    BY <2>1, <1>0, <1>10, SameList DEF FindForCommit, TypeOK, process, outside
  <2>3. OpInv'
    BY <2>0, <2>1, <1>10 DEF FindForCommit, OpInv, process
  <2> QED
    BY <2>2, <2>3, <1>0, <1>10, SameList DEF FindForCommit, Inv, process
<1>11. ASSUME AddEthRow
       PROVE  Inv'
  <2>0. op.num \in fresh /\ op.num \in Nums
    BY <1>0, <1>11 DEF AddEthRow, OpInv
  <2>1. /\ op' \in Op /\ ((op'.pc = "set" /\ op'.num = op.num) \/ op' = Idle)
        /\ failures' \in 0..MaxFailures /\ ethRows' \subseteq EthIds
    <3>1. Idle \in Op /\ \A e \in EthIds : At("set", op.num, e) \in Op
      <4>1. op.num \in 0..NumMax
        BY <2>0, XtmConstants DEF Nums
      <4>2. EthIds \subseteq Nat
        BY XtmConstants
      <4> QED
        BY <4>1, <4>2, IdleType, AtType
    <3>2. failures' \in 0..MaxFailures
      BY <1>0, <1>11, FailuresStep DEF AddEthRow, TypeOK
    <3> QED
      BY <3>1, <3>2, <1>0, <1>11 DEF AddEthRow, At, TypeOK
  <2>2. TypeOK'
    BY <2>1, <1>0, <1>11, SameList DEF AddEthRow, TypeOK, process, history
  <2>3. OpInv'
    BY <2>0, <2>1, <1>11 DEF AddEthRow, OpInv, process, Idle, At
  <2> QED
    BY <2>2, <2>3, <1>0, <1>11, SameList DEF AddEthRow, Inv, process
<1>12. ASSUME SetEthRow
       PROVE  Inv'
  <2>0. op.num \in fresh /\ op.num \in Nums
    BY <1>0, <1>12 DEF SetEthRow, OpInv
  <2>1. failures' \in 0..MaxFailures
    BY <1>0, <1>12, FailuresStep DEF SetEthRow, TypeOK
  <2>2. lower' \in [EthIds -> 0..NumMax]
    <3> DEFINE i == op.inst
    <3>1. op.num \in 0..NumMax
      BY <2>0, XtmConstants DEF Nums
    <3>2. \/ i \in ethRows /\ lower' = [lower EXCEPT ![i] = op.num]
          \/ lower' = lower
      BY <1>12 DEF SetEthRow
    <3> QED
      BY <3>1, <3>2, <1>0, LowerUpdate DEF TypeOK
  <2>3. hurt' \subseteq Nums
    <3> DEFINE i == op.inst
    <3>1. \/ i \in ethRows /\ hurt' = hurt \union ({lower[i]} \ {0, op.num})
          \/ hurt' = hurt \union {op.num}
      BY <1>12 DEF SetEthRow
    <3> QED
      BY <3>1, <2>0, <1>0, HurtUpdate
  <2>4. TypeOK'
    BY <2>1, <2>2, <2>3, <1>0, <1>12, SameList, IdleType
       DEF SetEthRow, TypeOK
  <2>5. OpInv'
    BY <1>12 DEF SetEthRow, OpInv, Idle, At
  <2> QED
    BY <2>4, <2>5, <1>0, <1>12, SameList DEF SetEthRow, Inv
<1>13. ASSUME DropEthRow
       PROVE  Inv'
  <2>0. op.num \in Committed /\ op.num \in Nums
    BY <1>0, <1>13 DEF DropEthRow, OpInv, Committed
  <2>1. failures' \in 0..MaxFailures
    BY <1>0, <1>13, FailuresStep DEF DropEthRow, TypeOK
  <2>2. lower' \in [EthIds -> 0..NumMax] /\ ethRows' \subseteq EthIds
    <3> DEFINE i == op.inst
    <3>1. 0 \in 0..NumMax
      BY XtmConstants
    <3>2. \/ /\ i \in ethRows /\ ethRows' = ethRows \ {i}
             /\ lower' = [lower EXCEPT ![i] = 0]
          \/ lower' = lower /\ ethRows' = ethRows
      BY <1>13 DEF DropEthRow
    <3> QED
      BY <3>1, <3>2, <1>0, LowerUpdate DEF TypeOK
  <2>3. hurt' \subseteq Nums
    <3> DEFINE i == op.inst
    <3>1. \/ i \in ethRows /\ hurt' = hurt \union ({lower[i]} \ {0, op.num})
          \/ hurt' = hurt \union {op.num}
      BY <1>13 DEF DropEthRow
    <3> QED
      BY <3>1, <2>0, <1>0, HurtUpdate
  <2>4. op' \in Op /\ op'.pc = "off" /\ op'.num = op.num
    BY <1>0, <1>13 DEF DropEthRow, Op, At
  <2>5. TypeOK'
    BY <2>1, <2>2, <2>3, <2>4, <1>0, <1>13, SameList
       DEF DropEthRow, TypeOK, process
  <2>6. OpInv'
    BY <2>0, <2>4, <1>13, SameList DEF DropEthRow, OpInv, process, Committed
  <2> QED
    BY <2>5, <2>6, <1>0, <1>13, SameList DEF DropEthRow, Inv, process
<1>14. ASSUME DropEntry
       PROVE  Inv'
  <2>0. op.num \in Committed /\ op.num \in Nums
    BY <1>0, <1>14 DEF DropEntry, OpInv, Committed
  <2>1. /\ failures' \in 0..MaxFailures /\ hal' \in BOOLEAN
        /\ hurt' \subseteq Nums
    BY <2>0, <1>0, <1>14, FailuresStep DEF DropEntry, TypeOK
  <2>2. op' \in Op /\ op' = Idle
    BY <1>14, XtmConstants DEF DropEntry, Idle, At, Op
  <2>3. /\ list' \in Seq(Nums) /\ fresh' \subseteq Listed' /\ SortedUnique'
        /\ enable' \in [Nums -> BOOLEAN] /\ field' \in [Nums -> [Fields -> Nat]]
    <3>1. CASE Removed(op.num)
      BY <3>1, <2>0, RemovedFacts
    <3>2. CASE UNCHANGED <<hal, list, fresh, enable, field>>
      BY <3>2, <1>0, SameList DEF TypeOK
    <3> QED
      BY <3>1, <3>2, <1>14 DEF DropEntry
  <2>4. TypeOK'
    BY <2>1, <2>2, <2>3, <1>0, <1>14 DEF DropEntry, TypeOK
  <2>5. OpInv'
    BY <2>2 DEF OpInv, Idle, At
  <2> QED
    BY <2>3, <2>4, <2>5 DEF Inv
<1>15. ASSUME Crash
       PROVE  Inv'
  <2>1. list' \in Seq(Nums) /\ fresh' \subseteq Listed' /\ SortedUnique'
    BY <1>15 DEF Crash, SortedUnique
  <2>2. op' \in Op
    BY <1>15, XtmConstants DEF Crash, Idle, At, Op
  <2>3. /\ failures' \in 0..MaxFailures /\ next' \in 0..NumMax
        /\ hurt' \subseteq Nums
    BY <1>0, <1>15, FailuresStep, XtmConstants DEF Crash, TypeOK
  <2>4. TypeOK'
    BY <2>1, <2>2, <2>3, <1>0, <1>15 DEF Crash, TypeOK, outside, NoFields
  <2>5. OpInv'
    BY <1>15 DEF Crash, OpInv, Idle, At
  <2> QED
    BY <2>1, <2>4, <2>5 DEF Inv
<1>16. CASE UNCHANGED vars
  <2>1. TypeOK'
    BY <1>0, <1>16, SameList DEF vars, process, outside, history, TypeOK
  <2>2. OpInv'
    BY <1>0, <1>16, SameList DEF vars, process, OpInv, Committed
  <2> QED
    BY <2>1, <2>2, <1>0, <1>16, SameList DEF vars, process, Inv
<1> QED
  BY <1>1, <1>2, <1>3, <1>4, <1>5, <1>6, <1>7, <1>8, <1>9, <1>10, <1>11,
     <1>12, <1>13, <1>14, <1>15, <1>16 DEF Next

LEMMA InvHolds == Spec => []Inv
<1> QED
  BY InitInv, NextInv, PTL DEF Spec

\* Every variable keeps its type, whatever fails.
THEOREM TypeCorrect == Spec => []TypeOK
<1>1. Inv => TypeOK
  BY DEF Inv
<1> QED
  BY <1>1, InvHolds, PTL

\* For any width of the instance numbers and any size of the table below it,
\* the list is in the order of its numbers and no number names two links, over
\* wrapping, deletions and restarts.
THEOREM SortedUniqueHolds == Spec => []SortedUnique
<1>1. Inv => SortedUnique
  BY DEF Inv
<1> QED
  BY <1>1, InvHolds, PTL

----------------------------------------------------------------------------
(* Ethernet.Link.                                                          *)

\* A row that is not there has no LowerLayers; a commit that was not misled
\* adds a row only if its link has none, and has no other than the one it is
\* about to set.
EthInv ==
    /\ \A e \in EthIds \ ethRows : lower[e] = 0
    /\ NoDuplicateEth
    /\ (op.pc = "add" /\ op.num \notin misled) => EthLinksOf(op.num) = {}
    /\ (op.pc = "set" /\ op.num \notin misled) =>
          EthLinksOf(op.num) \subseteq {op.inst}

\* Steps that leave Ethernet.Link alone and start no commit.
LEMMA EthInvFrame ==
  ASSUME EthInv, UNCHANGED <<ethRows, lower, misled>>,
         op' = op \/ op'.pc \notin {"add", "set"}
  PROVE  EthInv'
BY DEF EthInv, NoDuplicateEth, EthLinksOf

LEMMA EthInvLookup ==
  ASSUME EthInv, TypeOK, NEW n \in Nums,
         NEW found \in {"set", "drop"}, NEW missing \in {"add", "off"},
         Lookup(n, found, missing), UNCHANGED <<ethRows, lower>>
  PROVE  EthInv'
<1>1. misled \subseteq misled' /\ op'.num = n
  BY DEF Lookup, At
<1>2. NoDuplicateEth' /\ (\A e \in EthIds \ ethRows : lower[e] = 0)'
  BY <1>1 DEF EthInv, NoDuplicateEth
<1>3. \A m : EthLinksOf(m)' = EthLinksOf(m)
  BY DEF EthLinksOf
<1>4. CASE EthLinksOf(n) = {}
  BY <1>1, <1>2, <1>3, <1>4 DEF EthInv
<1>5. CASE \E e \in EthLinksOf(n) :
              /\ op' = At(found, n, LastDigit(e))
              /\ misled' = IF LastDigit(e) = e THEN misled ELSE misled \union {n}
  <2>1. PICK e \in EthLinksOf(n) :
              /\ op' = At(found, n, LastDigit(e))
              /\ misled' = IF LastDigit(e) = e THEN misled ELSE misled \union {n}
    BY <1>5
  <2>2. op'.pc # "add" /\ op'.inst = LastDigit(e)
    BY <2>1 DEF At
  <2>3. ASSUME n \notin misled'
        PROVE  EthLinksOf(n) \subseteq {op'.inst}
    <3>1. op'.inst = e /\ n \notin misled
      BY <2>1, <2>2, <2>3
    <3>2. \A f \in EthLinksOf(n) : f = e
      BY <2>1, <3>1, XtmConstants DEF EthInv, NoDuplicateEth, EthLinksOf, Nums
    <3> QED
      BY <3>1, <3>2
  <2> QED
    BY <1>1, <1>2, <1>3, <2>2, <2>3 DEF EthInv
<1>6. CASE misled' = misled \union {n}
  BY <1>1, <1>2, <1>3, <1>6 DEF EthInv
<1> QED
  BY <1>4, <1>5, <1>6 DEF Lookup

LEMMA NextEthInv ==
  ASSUME Inv, EthInv, [Next]_vars
  PROVE  EthInv'
<1>0. TypeOK /\ OpInv /\ Listed \subseteq Nums /\ fresh \subseteq Listed
  BY ListedNums DEF Inv, TypeOK
<1>1. ASSUME NEW n \in Nums, AddEntry(n)
      PROVE  EthInv'
  BY <1>1, EthInvFrame DEF AddEntry, outside, history
<1>2. ASSUME NEW n \in Listed, NEW b \in BOOLEAN, SetEnable(n, b)
      PROVE  EthInv'
  BY <1>2, EthInvFrame DEF SetEnable, outside
<1>3. ASSUME NEW n \in Listed, GetEnable(n)
      PROVE  EthInv'
  BY <1>3, EthInvFrame DEF GetEnable, outside, history
<1>4. ASSUME NEW n \in Listed, Rollback(n)
      PROVE  EthInv'
  BY <1>4, EthInvFrame DEF Rollback, outside
<1>5. ASSUME NEW n \in Listed, NEW s \in Settings, NEW v \in Values,
             SetSetting(n, s, v)
      PROVE  EthInv'
  BY <1>5, EthInvFrame DEF SetSetting
<1>6. ASSUME NEW n \in Listed, DelNewEntry(n)
      PROVE  EthInv'
  BY <1>6, EthInvFrame DEF DelNewEntry, outside
<1>7. ASSUME NEW n \in Listed, CommitAtm(n)
      PROVE  EthInv'
  BY <1>7, EthInvFrame DEF CommitAtm
<1>8. ASSUME NEW n \in Listed, CommitPtm(n)
      PROVE  EthInv'
  BY <1>8, EthInvFrame DEF CommitPtm, At
<1>9. ASSUME NEW n \in Listed, DelPtm(n)
      PROVE  EthInv'
  BY <1>0, <1>9, EthInvLookup DEF DelPtm, outside
<1>10. ASSUME FindForCommit
       PROVE  EthInv'
  BY <1>0, <1>10, EthInvLookup DEF FindForCommit, outside, OpInv
<1>11. ASSUME AddEthRow
       PROVE  EthInv'
  <2>1. CASE op' = Idle /\ UNCHANGED ethRows
    BY <2>1, <1>11, EthInvFrame DEF AddEthRow, history, Idle, At
  <2>2. CASE \E e \in EthIds \ ethRows :
                ethRows' = ethRows \union {e} /\ op' = At("set", op.num, e)
    <3>1. PICK e \in EthIds \ ethRows :
                ethRows' = ethRows \union {e} /\ op' = At("set", op.num, e)
      BY <2>2
    <3>2. lower' = lower /\ misled' = misled /\ lower[e] = 0
      BY <1>11 DEF AddEthRow, history, EthInv
    <3>3. NoDuplicateEth'
      BY <3>1, <3>2 DEF NoDuplicateEth, EthInv
    <3>4. op'.pc = "set" /\ op'.num = op.num /\ op'.inst = e
      BY <3>1 DEF At
    <3>5. op.num \in Nums /\ op.pc = "add"
      BY <1>0, <1>11 DEF AddEthRow, OpInv
    <3>6. EthLinksOf(op.num)' = EthLinksOf(op.num)
      BY <3>1, <3>2, <3>4, <3>5, XtmConstants DEF EthLinksOf, Nums
    <3> QED
      BY <3>1, <3>2, <3>3, <3>4, <3>5, <3>6 DEF EthInv
  <2> QED
    BY <2>1, <2>2, <1>11 DEF AddEthRow
<1>12. ASSUME SetEthRow
       PROVE  EthInv'
  <2>0. op'.pc = "idle" /\ UNCHANGED <<ethRows, misled>> /\ op.pc = "set"
    BY <1>12 DEF SetEthRow, Idle, At
  <2>1. CASE UNCHANGED lower
    BY <2>0, <2>1, EthInvFrame
  <2>2. CASE op.inst \in ethRows /\ lower' = [lower EXCEPT ![op.inst] = op.num]
    <3>1. \A e \in EthIds : lower'[e] = IF e = op.inst THEN op.num ELSE lower[e]
      BY <2>2, <1>0 DEF TypeOK
    <3>2. ethRows \subseteq EthIds
      BY <1>0 DEF TypeOK
    <3>3. NoDuplicateEth'
      <4> SUFFICES ASSUME NEW e \in ethRows, NEW f \in ethRows,
                          lower'[e] = lower'[f],
                          lower'[e] \notin {0} \union misled
                   PROVE  e = f
        BY <2>0 DEF NoDuplicateEth
      <4>1. CASE lower'[e] = op.num
        <5>1. EthLinksOf(op.num) \subseteq {op.inst}
          BY <4>1, <2>0 DEF EthInv
        <5> QED
          BY <4>1, <5>1, <3>1, <3>2 DEF EthLinksOf
      <4>2. CASE lower'[e] # op.num
        BY <4>2, <3>1, <3>2 DEF EthInv, NoDuplicateEth
      <4> QED
        BY <4>1, <4>2
    <3>4. \A e \in EthIds \ ethRows : lower'[e] = 0
      BY <3>1, <2>2 DEF EthInv
    <3> QED
      BY <3>3, <3>4, <2>0 DEF EthInv
  <2> QED
    BY <2>1, <2>2, <1>12 DEF SetEthRow
<1>13. ASSUME DropEthRow
       PROVE  EthInv'
  <2>0. op'.pc = "off" /\ UNCHANGED misled
    BY <1>13 DEF DropEthRow, At
  <2>1. CASE UNCHANGED <<ethRows, lower>>
    BY <2>0, <2>1, EthInvFrame
  <2>2. CASE /\ op.inst \in ethRows /\ ethRows' = ethRows \ {op.inst}
             /\ lower' = [lower EXCEPT ![op.inst] = 0]
    <3>1. \A e \in EthIds : lower'[e] = IF e = op.inst THEN 0 ELSE lower[e]
      BY <2>2, <1>0 DEF TypeOK
    <3>2. ethRows \subseteq EthIds
      BY <1>0 DEF TypeOK
    <3>3. NoDuplicateEth'
      BY <3>1, <3>2, <2>0, <2>2 DEF NoDuplicateEth, EthInv
    <3>4. \A e \in EthIds \ ethRows' : lower'[e] = 0
      BY <3>1, <2>2 DEF EthInv
    <3> QED
      BY <3>3, <3>4, <2>0 DEF EthInv
  <2> QED
    BY <2>1, <2>2, <1>13 DEF DropEthRow
<1>14. ASSUME DropEntry
       PROVE  EthInv'
  BY <1>14, EthInvFrame DEF DropEntry, Idle, At
<1>15. ASSUME Crash
       PROVE  EthInv'
  BY <1>15, EthInvFrame DEF Crash, outside, Idle, At
<1>16. CASE UNCHANGED vars
  BY <1>16, EthInvFrame DEF vars, outside, history
<1> QED
  BY <1>1, <1>2, <1>3, <1>4, <1>5, <1>6, <1>7, <1>8, <1>9, <1>10, <1>11,
     <1>12, <1>13, <1>14, <1>15, <1>16 DEF Next

LEMMA InitEthInv == Init => EthInv
BY DEF Init, PowerOn, EthInv, NoDuplicateEth, EthLinksOf, Idle, At

LEMMA EthInvHolds == Spec => []EthInv
<1> QED
  BY InitEthInv, NextEthInv, InvHolds, PTL DEF Spec

\* A PTM link has at most one Ethernet.Link, whatever calls fail, however
\* often a commit is repeated and wherever the process crashes, unless a
\* lookup was misled.
THEOREM NoDuplicateEthHolds == Spec => []NoDuplicateEth
<1>1. EthInv => NoDuplicateEth
  BY DEF EthInv
<1> QED
  BY <1>1, EthInvHolds, PTL
=============================================================================
