-------------------------- MODULE DiscoveryProofs ---------------------------
(***************************************************************************)
(* Clean scans miss nothing and only what is gone is reported, for any     *)
(* items, page size, limits and number of scans.                           *)
(***************************************************************************)
EXTENDS Discovery, FiniteSetTheorems, TLAPS

-----------------------------------------------------------------------------
(* The inductive invariant.                                                 *)

\* How many pages are before the page of i.
Depth(i) == Cardinality(Newer(i)) \div PageSize

\* What the scan under way has dealt with.
Found == spawned \cup seen

TypedItems ==
    /\ published \in 0 .. LastItem
    /\ source \subseteq 1 .. published /\ start \subseteq 1 .. published
    /\ queue \subseteq (1 .. published) \ Bad
    /\ settled \subseteq ((1 .. published) \ Bad) \cup OtherGroup
    /\ spawned \subseteq (1 .. published) \ Bad /\ scanned \subseteq (1 .. published) \ Bad
    /\ seen \subseteq settled /\ reported \subseteq Items \cup OtherGroup

TypedScan ==
    /\ phase \in {"idle", "scanning", "returned"} /\ mode \in Modes
    /\ limit \in Limits \cup {1} /\ page \in Nat /\ page >= 1 /\ page <= limit + 1
    /\ scans \in Nat /\ scans <= MaxScans /\ slips \in Nat /\ slips <= MaxSlips

TypedFlags ==
    complete \in BOOLEAN /\ clean \in BOOLEAN /\ stable \in BOOLEAN /\ healed \in BOOLEAN

\* What came after the scan began is newer than all that was there or known by then.
LaterIsNewer ==
    phase # "idle" => \A j \in source \ start : \A i \in start \cup (Known \cap Items) : j > i

\* Of what is on the source, with an item in S all the older ones are in S.
Closed(S) == \A i \in S \cap source, j \in source \ Bad : j < i => j \in S

\* Nothing hides behind a known item, unless a scan that left something out was committed.
HealedOK == healed = TRUE => Closed(Known)

\* Of the pages behind the scan nothing is missing that was there when it began; and with
\* an item that came later, all the older ones on these pages were found.
ScanOK ==
    phase = "scanning" /\ clean = TRUE =>
        /\ \A i \in (start \cap source) \ Bad : Depth(i) < page - 1 => i \in Found
        /\ \A i \in Found \cap source, j \in source \ Bad :
              j < i /\ Depth(j) < page - 1 => j \in Found

\* As long as nothing is deleted, a full scan has come across all that was there.
StableOK ==
    phase = "scanning" /\ stable = TRUE /\ mode = "full" =>
        \A i \in (start \cap source) \ Bad : Depth(i) < page - 1 => i \in scanned

\* What a clean scan will commit, with what is known, leaves no gap.
ReturnedOK ==
    phase = "returned" /\ clean = TRUE /\ (mode = "full" \/ healed = TRUE) =>
        (start \cap source) \ Bad \subseteq Known \cup spawned /\ Closed(Known \cup spawned)

IdleOK == phase = "idle" /\ clean = TRUE /\ (healed = TRUE \/ mode = "full") => Collected

Typed == TypedItems /\ TypedScan /\ TypedFlags
GapsOK == LaterIsNewer /\ HealedOK /\ ScanOK /\ StableOK /\ ReturnedOK /\ IdleOK
ScanInv == Typed /\ GapsOK

-----------------------------------------------------------------------------
(* Pages.                                                                   *)

LEMMA Division ==
  ASSUME NEW P \in Nat \ {0}, NEW a \in Nat, NEW b \in Nat
  PROVE  /\ a \div P \in Nat
         /\ a <= b => a \div P <= b \div P
         /\ (a + 1) \div P <= a \div P + 1
         /\ 0 \div P = 0
<1>1. PICK q \in Int, r \in 0 .. P - 1 : q = a \div P /\ a = P * q + r
  OBVIOUS
<1>2. PICK t \in Int, u \in 0 .. P - 1 : t = b \div P /\ b = P * t + u
  OBVIOUS
<1>3. PICK v \in Int, w \in 0 .. P - 1 : v = (a + 1) \div P /\ a + 1 = P * v + w
  OBVIOUS
<1>4. q >= 0
  <2> SUFFICES ASSUME q <= -1 PROVE FALSE
    OBVIOUS
  <2>1. P * q <= P * (-1)
    OBVIOUS
  <2> QED BY <1>1, <2>1
<1>5. a <= b => q <= t
  <2> SUFFICES ASSUME a <= b, t <= q - 1 PROVE FALSE
    OBVIOUS
  <2>1. P * t <= P * (q - 1) /\ P * (q - 1) = P * q - P
    OBVIOUS
  <2> QED BY <1>1, <1>2, <2>1
<1>6. v <= q + 1
  <2> SUFFICES ASSUME q + 2 <= v PROVE FALSE
    OBVIOUS
  <2>1. P * (q + 2) <= P * v /\ P * (q + 2) = P * q + 2 * P
    OBVIOUS
  <2> QED BY <1>1, <1>3, <2>1
<1>7. 0 \div P = 0
  OBVIOUS
<1> QED BY <1>1, <1>2, <1>3, <1>4, <1>5, <1>6, <1>7

\* A set of positive numbers has a least one, and up to a bound a greatest one.
LEMMA Least ==
  ASSUME NEW S \in SUBSET Nat, S # {} PROVE \E n \in S : \A k \in S : n <= k
<1>1. PICK n \in S : \A k \in S : ~ (<<k, n>> \in OpToRel(<, Nat))
  BY NatLessThanWellFounded, WFMin
<1>2. ASSUME NEW k \in S, ~ (n <= k) PROVE FALSE
  <2>1. k \in Nat /\ n \in Nat /\ k < n
    BY <1>2
  <2>2. <<k, n>> \in OpToRel(<, Nat)
    BY <2>1 DEF OpToRel
  <2> QED BY <1>1, <2>2
<1> QED BY <1>2

LEMMA Greatest ==
  ASSUME NEW b \in Nat, NEW S \in SUBSET (1 .. b), S # {} PROVE \E n \in S : \A k \in S : k <= n
<1> DEFINE T == {n \in Nat : \E x \in S : n = b - x}
<1>1. T \subseteq Nat /\ T # {}
  <2>1. PICK x \in S : TRUE
    OBVIOUS
  <2>2. b - x \in Nat
    OBVIOUS
  <2> QED BY <2>2
<1>2. PICK n \in T : \A k \in T : n <= k
  <2> HIDE DEF T
  <2> QED BY <1>1, Least
<1>3. PICK x \in S : n = b - x
  OBVIOUS
<1>4. \A y \in S : b - y \in T
  OBVIOUS
<1> QED BY <1>2, <1>3, <1>4

LEMMA ItemsAreNumbers ==
  TypedItems => published \in Nat /\ LastItem \in Nat /\ \A i \in 1 .. published : i \in Nat /\ i <= published
  BY DiscoveryAssumption DEF TypedItems

LEMMA SourceNumbers == TypedItems => published \in Nat /\ \A i \in source : i \in Nat /\ i <= published
  BY ItemsAreNumbers DEF TypedItems

LEMMA PublishedAreItems ==
  ASSUME TypedItems PROVE \A i \in 1 .. published : i \in Items /\ i \in Nat
<1>1. published \in Nat /\ LastItem \in Nat /\ published <= LastItem
  BY DiscoveryAssumption DEF TypedItems
<1> QED BY <1>1 DEF Items

LEMMA NewerFinite ==
  ASSUME TypedItems, NEW i
  PROVE  IsFiniteSet(Newer(i)) /\ Cardinality(Newer(i)) \in Nat /\ Newer(i) \subseteq Nat
<1>1. published \in Nat
  BY DiscoveryAssumption DEF TypedItems
<1>2. IsFiniteSet(1 .. published)
  BY <1>1, FS_Interval
<1>3. Newer(i) \subseteq 1 .. published
  BY DEF TypedItems, Newer
<1> QED BY <1>1, <1>2, <1>3, FS_Subset, FS_CardinalityType

LEMMA DepthType == ASSUME TypedItems, NEW i PROVE Depth(i) \in Nat
  BY NewerFinite, Division, DiscoveryAssumption DEF Depth

\* Older items are no higher up.
LEMMA OlderIsDeeper ==
  ASSUME TypedItems, NEW i \in source, NEW j \in source, j < i PROVE Depth(i) <= Depth(j)
<1>1. Newer(i) \subseteq Newer(j)
  BY SourceNumbers DEF Newer
<1>2. Cardinality(Newer(i)) <= Cardinality(Newer(j))
  BY <1>1, NewerFinite, FS_Subset
<1> QED BY <1>2, NewerFinite, Division, DiscoveryAssumption DEF Depth

\* Pages have no gaps: below an empty page there is nothing.
LEMMA EmptyPageIsLast ==
  ASSUME TypedItems, NEW k \in Nat, k >= 1, Page(k) = {}, NEW i \in source PROVE Depth(i) < k - 1
<1> SUFFICES ASSUME ~ (Depth(i) < k - 1) PROVE FALSE
  OBVIOUS
<1> DEFINE T == {j \in source : Depth(j) >= k - 1}
<1>1. i \in T
  BY DepthType
<1>2. PICK j \in T : \A m \in T : m <= j
  <2>1. published \in Nat /\ T \in SUBSET (1 .. published) /\ T # {}
    BY <1>1, SourceNumbers DEF TypedItems
  <2> HIDE DEF T
  <2> QED BY <2>1, Greatest
<1>3. j \in source /\ Depth(j) >= k - 1 /\ j \in Nat
  BY SourceNumbers
<1>4. Depth(j) # k - 1
  BY <1>3 DEF Page, Depth
<1>5. CASE Newer(j) = {}
  <2>1. Cardinality(Newer(j)) = 0
    BY <1>5, FS_EmptySet
  <2>2. Depth(j) = 0
    BY <2>1, Division, DiscoveryAssumption DEF Depth
  <2> QED BY <1>3, <1>4, <2>2
<1>6. CASE Newer(j) # {}
  <2>1. PICK m \in Newer(j) : \A n \in Newer(j) : m <= n
    BY <1>6, NewerFinite, Least
  <2>2. m \in source /\ m > j /\ m \in Nat
    BY <2>1, NewerFinite DEF Newer
  <2>3. Newer(j) = Newer(m) \cup {m} /\ m \notin Newer(m)
    <3>1. ASSUME NEW n \in Newer(j) PROVE n = m \/ n \in Newer(m)
      <4>1. n \in source /\ n \in Nat /\ m <= n
        BY <2>1, SourceNumbers DEF Newer
      <4> QED BY <2>2, <4>1 DEF Newer
    <3>2. ASSUME NEW n \in Newer(m) PROVE n \in Newer(j)
      <4>1. n \in source /\ n \in Nat /\ n > m
        BY SourceNumbers DEF Newer
      <4> QED BY <1>3, <2>2, <4>1 DEF Newer
    <3>3. m \notin Newer(m)
      BY <2>2 DEF Newer
    <3> QED BY <2>1, <3>1, <3>2, <3>3
  <2>4. Cardinality(Newer(j)) = Cardinality(Newer(m)) + 1
    BY <2>3, NewerFinite, FS_AddElement
  <2>5. Depth(j) <= Depth(m) + 1
    BY <2>4, NewerFinite, Division, DiscoveryAssumption DEF Depth
  <2>6. ~ (Depth(m) >= k - 1)
    BY <1>2, <1>3, <2>2
  <2>7. Depth(m) \in Nat /\ Depth(j) \in Nat
    BY DepthType
  <2> QED BY <1>3, <1>4, <2>5, <2>6, <2>7
<1> QED BY <1>5, <1>6

-----------------------------------------------------------------------------
(* Types.                                                                   *)

LEMMA EntriesTyped ==
  ASSUME TypedItems, NEW k PROVE Entries(k) \subseteq (1 .. published) \ Bad /\ Entries(k) \subseteq source
  BY DEF TypedItems, Entries, Page

LEMMA ItemsStep == Typed /\ [Next]_vars => TypedItems'
<1> SUFFICES ASSUME Typed, [Next]_vars PROVE TypedItems'
  OBVIOUS
<1>0. TypedItems
  BY DEF Typed
<1>1. CASE Publish
  <2>1. /\ published' = published + 1 /\ published < LastItem /\ source' = source \cup {published'}
        /\ UNCHANGED <<queue, settled, seen, spawned, scanned, reported, start>>
    BY <1>1 DEF Publish, scan, history
  <2>2. published' \in 0 .. LastItem /\ published' \in 1 .. published' /\ 1 .. published \subseteq 1 .. published'
    BY <1>0, <2>1, ItemsAreNumbers
  <2>3. source' \subseteq 1 .. published' /\ start' \subseteq 1 .. published'
    BY <1>0, <2>1, <2>2 DEF TypedItems
  <2>4. /\ queue' \subseteq (1 .. published') \ Bad /\ settled' \subseteq ((1 .. published') \ Bad) \cup OtherGroup
        /\ spawned' \subseteq (1 .. published') \ Bad /\ scanned' \subseteq (1 .. published') \ Bad
        /\ seen' \subseteq settled' /\ reported' \subseteq Items \cup OtherGroup
    BY <1>0, <2>1, <2>2 DEF TypedItems
  <2> QED BY <2>2, <2>3, <2>4 DEF TypedItems
<1>2. ASSUME NEW i \in Items, Delete(i) PROVE TypedItems'
  BY <1>0, <1>2 DEF Delete, TypedItems, scan
<1>3. ASSUME NEW i \in Items, SettleChild(i) PROVE TypedItems'
  BY <1>0, <1>3 DEF SettleChild, TypedItems, scan, history
<1>4. ASSUME NEW m \in Modes, NEW l \in Limits, Begin(m, l) PROVE TypedItems'
  BY <1>0, <1>4 DEF Begin, TypedItems
<1>5. CASE ScanPage
  <2>1. PICK failing : spawned' = spawned \cup (Entries(page) \ (seen \cup failing))
    BY <1>5 DEF ScanPage
  <2>2. /\ scanned' \subseteq scanned \cup Entries(page)
        /\ UNCHANGED <<published, source, queue, settled, seen, reported, start>>
    BY <1>5 DEF ScanPage
  <2>3. Entries(page) \subseteq (1 .. published) \ Bad
    BY <1>0, EntriesTyped
  <2> QED BY <1>0, <2>1, <2>2, <2>3 DEF TypedItems
<1>6. CASE EndScan
  <2>1. UNCHANGED <<published, source, queue, settled, seen, spawned, scanned, start>>
    BY <1>6 DEF EndScan, scan
  <2>2. 1 .. published \subseteq Items
    BY <1>0, ItemsAreNumbers DEF TypedItems, Items
  <2>3. Missing \subseteq Items \cup OtherGroup
    BY <1>0, <2>2 DEF Missing, TypedItems
  <2>4. reported' \subseteq Items \cup OtherGroup
    BY <1>6, <2>3 DEF EndScan
  <2> QED BY <1>0, <2>1, <2>4 DEF TypedItems
<1>7. CASE Commit
  BY <1>0, <1>7 DEF Commit, Over, TypedItems
<1>8. CASE ScanDies
  BY <1>0, <1>8 DEF ScanDies, Over, TypedItems
<1>9. CASE UNCHANGED vars
  BY <1>0, <1>9 DEF vars, scan, history, TypedItems
<1> QED BY <1>1, <1>2, <1>3, <1>4, <1>5, <1>6, <1>7, <1>8, <1>9 DEF Next

LEMMA FlagsStep == Typed /\ [Next]_vars => TypedFlags'
<1> SUFFICES ASSUME TypedFlags, [Next]_vars PROVE TypedFlags'
  BY DEF Typed
<1>1. CASE Publish
  BY <1>1 DEF Publish, scan, history, TypedFlags
<1>2. ASSUME NEW i \in Items, Delete(i) PROVE TypedFlags'
  BY <1>2, Zenon DEF Delete, scan, TypedFlags
<1>3. ASSUME NEW i \in Items, SettleChild(i) PROVE TypedFlags'
  BY <1>3 DEF SettleChild, scan, history, TypedFlags
<1>4. ASSUME NEW m \in Modes, NEW l \in Limits, Begin(m, l) PROVE TypedFlags'
  BY <1>4 DEF Begin, TypedFlags
<1>5. CASE ScanPage
  BY <1>5, Zenon DEF ScanPage, TypedFlags
<1>6. CASE EndScan
  BY <1>6, Zenon DEF EndScan, scan, TypedFlags
<1>7. CASE Commit
  BY <1>7, Zenon DEF Commit, Over, TypedFlags
<1>8. CASE ScanDies
  BY <1>8 DEF ScanDies, Over, TypedFlags
<1>9. CASE UNCHANGED vars
  BY <1>9 DEF vars, scan, history, TypedFlags
<1> QED BY <1>1, <1>2, <1>3, <1>4, <1>5, <1>6, <1>7, <1>8, <1>9 DEF Next

LEMMA ScanStep == Typed /\ [Next]_vars => TypedScan'
<1> SUFFICES ASSUME Typed, [Next]_vars PROVE TypedScan'
  OBVIOUS
<1>0. TypedScan /\ Limits \subseteq Nat \ {0} /\ MaxScans \in Nat /\ MaxSlips \in Nat
  BY DiscoveryAssumption DEF Typed
<1>1. CASE Publish
  BY <1>0, <1>1 DEF Publish, scan, TypedScan
<1>2. ASSUME NEW i \in Items, Delete(i) \/ SettleChild(i) PROVE TypedScan'
  BY <1>0, <1>2 DEF Delete, SettleChild, scan, TypedScan
<1>3. ASSUME NEW m \in Modes, NEW l \in Limits, Begin(m, l) PROVE TypedScan'
  <2>1. /\ phase' = "scanning" /\ mode' = m /\ limit' = l /\ page' = 1
        /\ scans' = scans + 1 /\ scans < MaxScans /\ UNCHANGED slips
    BY <1>3 DEF Begin
  <2>2. l \in Nat /\ 1 <= l + 1 /\ scans' \in Nat /\ scans' <= MaxScans
    BY <1>0, <2>1 DEF TypedScan
  <2> QED BY <1>0, <2>1, <2>2 DEF TypedScan
<1>4. CASE ScanPage
  <2>1. /\ ~ (page > limit) /\ page' = page + 1 /\ UNCHANGED <<phase, mode, limit, scans>>
    BY <1>4 DEF ScanPage, StopsHere, NextPage
  <2>2. page' \in Nat /\ page' >= 1 /\ page' <= limit + 1
    BY <1>0, <2>1 DEF TypedScan
  <2>3. slips' \in Nat /\ slips' <= MaxSlips
    <3>1. PICK failing \in {{}} \cup {{i} : i \in Entries(page) \ seen} :
             slips + Cardinality(failing) <= MaxSlips /\ slips' = slips + Cardinality(failing)
      BY <1>4 DEF ScanPage
    <3>2. failing = {} \/ \E i : failing = {i}
      OBVIOUS
    <3>3. Cardinality(failing) \in Nat
      BY <3>2, FS_EmptySet, FS_Singleton
    <3> QED BY <1>0, <3>1, <3>3 DEF TypedScan
  <2> QED BY <1>0, <2>1, <2>2, <2>3 DEF TypedScan
<1>5. CASE EndScan
  BY <1>0, <1>5 DEF EndScan, scan, TypedScan
<1>6. CASE Commit
  BY <1>0, <1>6 DEF Commit, Over, TypedScan
<1>7. CASE ScanDies
  <2>1. /\ phase' = "idle" /\ limit' = 1 /\ page' = 1 /\ slips' = slips + 1 /\ slips < MaxSlips
        /\ UNCHANGED <<mode, scans>>
    BY <1>7 DEF ScanDies, Over
  <2> QED BY <1>0, <2>1 DEF TypedScan
<1>8. CASE UNCHANGED vars
  BY <1>0, <1>8 DEF vars, scan, TypedScan
<1> QED BY <1>1, <1>2, <1>3, <1>4, <1>5, <1>6, <1>7, <1>8 DEF Next

LEMMA TypedInit == Init => Typed
<1> SUFFICES ASSUME Init PROVE Typed
  OBVIOUS
<1>1. TypedItems
  BY DiscoveryAssumption DEF Init, TypedItems
<1>2. TypedScan
  BY DiscoveryAssumption DEF Init, TypedScan, Modes
<1>3. TypedFlags
  BY DEF Init, TypedFlags
<1> QED BY <1>1, <1>2, <1>3 DEF Typed

LEMMA TypedInvariant == Spec => []Typed
<1>1. Typed /\ [Next]_vars => Typed'
  BY ItemsStep, ScanStep, FlagsStep DEF Typed
<1> QED BY <1>1, TypedInit, PTL DEF Spec

\* The types of the scan and of what it leaves, for any items, pages and limits.
THEOREM DiscoveryTypes == Spec => []TypeOK
<1>1. Typed => TypeOK
  <2> SUFFICES ASSUME Typed PROVE TypeOK
    OBVIOUS
  <2>1. 1 .. published \subseteq Items /\ published \in 0 .. LastItem
    BY ItemsAreNumbers DEF Typed, TypedItems, Items
  <2>2. /\ source \subseteq 1 .. published /\ queue \subseteq Items \ Bad
        /\ settled \subseteq (Items \ Bad) \cup OtherGroup
        /\ spawned \cup scanned \subseteq Items \ Bad /\ reported \subseteq Items \cup OtherGroup
    BY <2>1 DEF Typed, TypedItems
  <2>3. page \in 1 .. limit + 1
    <3>1. limit \in Nat /\ page \in Nat /\ page >= 1 /\ page <= limit + 1
      BY DiscoveryAssumption DEF Typed, TypedScan
    <3> QED BY <3>1
  <2>4. {complete, clean, stable, healed} \subseteq BOOLEAN
    BY DEF Typed, TypedFlags
  <2> QED BY <2>1, <2>2, <2>3, <2>4 DEF TypeOK, Typed, TypedScan
<1> QED BY <1>1, TypedInvariant, PTL

-----------------------------------------------------------------------------
(* No gaps.                                                                 *)

\* What the scan and the records hold of Items has been published.
LEMMA HeldIsPublished ==
  ASSUME TypedItems, NEW i \in Known \cup Found \cup start, i \in Items PROVE i \in 1 .. published
<1>1. i \notin OtherGroup
  BY DiscoveryAssumption DEF Items
<1> QED BY <1>1 DEF TypedItems, Known, Found

\* Publishing pushes items down.
LEMMA PushedDown ==
  ASSUME NEW n \in Nat, NEW S, NEW T, S \subseteq T, T \subseteq 1 .. n, NEW i
  PROVE  Cardinality({j \in S : j > i}) \div PageSize <= Cardinality({j \in T : j > i}) \div PageSize
<1> DEFINE A == {j \in S : j > i}  B == {j \in T : j > i}
<1>1. IsFiniteSet(1 .. n)
  BY FS_Interval
<1>2. A \subseteq B /\ B \subseteq 1 .. n
  OBVIOUS
<1> HIDE DEF A, B
<1>3. IsFiniteSet(B)
  BY <1>1, <1>2, FS_Subset
<1>4. IsFiniteSet(A) /\ Cardinality(A) <= Cardinality(B)
  BY <1>2, <1>3, FS_Subset
<1>5. Cardinality(A) \in Nat /\ Cardinality(B) \in Nat
  BY <1>3, <1>4, FS_CardinalityType
<1>6. Cardinality(A) \div PageSize <= Cardinality(B) \div PageSize
  BY <1>4, <1>5, Division, DiscoveryAssumption
<1> QED BY <1>6 DEF A, B

LEMMA PublishGaps == ASSUME Typed, GapsOK, Publish, TypedItems' PROVE GapsOK'
<1>1. /\ published' = published + 1 /\ published < LastItem /\ source' = source \cup {published'}
      /\ UNCHANGED <<queue, settled, phase, mode, page, seen, spawned, scanned, start, clean, stable,
                     healed>>
  BY DEF Publish, scan, history
<1>2. TypedItems /\ published \in Nat /\ published' \in Nat /\ published' > published
  BY <1>1, ItemsAreNumbers DEF Typed
<1>3. published' \in Items
  BY <1>1, <1>2, ItemsAreNumbers DEF Items
<1>4. Known' = Known /\ Found' = Found
  BY <1>1 DEF Known, Found
<1>5. published' \notin Known \cup Found \cup start
  BY <1>2, <1>3, HeldIsPublished
<1>6. \A i \in (Known \cup Found \cup start) \cap Items : i \in Nat /\ i < published'
  <2> SUFFICES ASSUME NEW i \in (Known \cup Found \cup start) \cap Items PROVE i \in Nat /\ i < published'
    OBVIOUS
  <2>1. i \in 1 .. published
    BY <1>2, HeldIsPublished
  <2> QED BY <1>2, <2>1
<1>7. \A i \in source : i \in Nat /\ i \in Items /\ i < published'
  BY <1>2, SourceNumbers, ItemsAreNumbers DEF Items, TypedItems
<1>8. start \subseteq Items
  BY <1>2, ItemsAreNumbers DEF Items, TypedItems
<1>9. LaterIsNewer'
  <2> SUFFICES ASSUME phase # "idle", NEW j \in source' \ start, NEW i \in start \cup (Known \cap Items)
               PROVE  j > i
    BY <1>1, <1>4 DEF LaterIsNewer
  <2>1. i \in Nat /\ i < published'
    BY <1>6, <1>8
  <2>2. CASE j = published'
    BY <1>2, <2>1, <2>2
  <2>3. CASE j \in source
    BY <2>3 DEF GapsOK, LaterIsNewer
  <2> QED BY <1>1, <2>2, <2>3
<1>10. ASSUME NEW S, published' \notin S, Closed(S), NEW i \in S \cap source', NEW j \in source' \ Bad, j < i
       PROVE  j \in S
  <2>1. i \in source
    BY <1>1, <1>10
  <2>2. j # published'
    BY <1>2, <1>7, <1>10, <2>1
  <2>3. j \in source
    BY <1>1, <2>2
  <2> QED BY <1>10, <2>1, <2>3 DEF Closed
<1>11. HealedOK'
  <2> SUFFICES ASSUME healed = TRUE, NEW i \in Known \cap source', NEW j \in source' \ Bad, j < i
               PROVE  j \in Known
    BY <1>1, <1>4 DEF HealedOK, Closed
  <2>1. Closed(Known) /\ published' \notin Known
    BY <1>5 DEF GapsOK, HealedOK
  <2> QED BY <1>10, <2>1
<1>12. /\ \A i \in source : Depth(i) \in Nat /\ Depth(i)' \in Nat /\ Depth(i) <= Depth(i)'
       /\ page \in Nat /\ \A i \in source' : i = published' \/ i \in source
  <2>1. \A i \in source : Depth(i) \in Nat /\ Depth(i)' \in Nat /\ Depth(i) <= Depth(i)'
    <3> SUFFICES ASSUME NEW i \in source
                 PROVE  Depth(i) \in Nat /\ Depth(i)' \in Nat /\ Depth(i) <= Depth(i)'
      OBVIOUS
    <3> DEFINE A == {j \in source : j > i}  B == {j \in source' : j > i}
    <3>1. source \subseteq source' /\ source' \subseteq 1 .. published'
      BY <1>1 DEF TypedItems
    <3>2. Cardinality(A) \div PageSize <= Cardinality(B) \div PageSize
      BY <1>2, <3>1, PushedDown
    <3>3. Cardinality(B) \div PageSize \in Nat
      <4>1. B \subseteq 1 .. published'
        BY <3>1
      <4> HIDE DEF B
      <4>2. IsFiniteSet(1 .. published')
        BY <1>2, FS_Interval
      <4>3. Cardinality(B) \in Nat
        BY <4>1, <4>2, FS_Subset, FS_CardinalityType
      <4> QED BY <4>3, Division, DiscoveryAssumption
    <3>4. Depth(i) = Cardinality(A) \div PageSize /\ Depth(i)' = Cardinality(B) \div PageSize
      BY DEF Depth, Newer
    <3>5. Depth(i) \in Nat
      BY <1>2, DepthType
    <3> HIDE DEF A, B
    <3> QED BY <3>2, <3>3, <3>4, <3>5
  <2>2. page \in Nat
    BY DEF Typed, TypedScan
  <2>3. \A i \in source' : i = published' \/ i \in source
    BY <1>1
  <2> QED BY <2>1, <2>2, <2>3
<1>13. ScanOK'
  <2> SUFFICES ASSUME phase = "scanning", clean = TRUE PROVE ScanOK'
    BY <1>1 DEF ScanOK
  <2>1. ASSUME NEW i \in (start \cap source') \ Bad, Depth(i)' < page - 1 PROVE i \in Found
    <3>1. i \in source
      BY <1>5, <1>12
    <3>2. Depth(i) < page - 1
      BY <1>12, <2>1, <3>1
    <3> QED BY <3>1, <3>2 DEF GapsOK, ScanOK
  <2>2. ASSUME NEW i \in Found \cap source', NEW j \in source' \ Bad, j < i, Depth(j)' < page - 1
        PROVE  j \in Found
    <3>1. i \in source
      BY <1>5, <1>12
    <3>2. j # published'
      BY <1>2, <1>7, <2>2, <3>1
    <3>3. j \in source
      BY <1>12, <3>2
    <3>4. Depth(j) < page - 1
      BY <1>12, <2>2, <3>3
    <3> QED BY <2>2, <3>1, <3>3, <3>4 DEF GapsOK, ScanOK
  <2> QED BY <1>1, <1>4, <2>1, <2>2 DEF ScanOK
<1>14. StableOK'
  <2> SUFFICES ASSUME phase = "scanning", stable = TRUE, mode = "full",
                      NEW i \in (start \cap source') \ Bad, Depth(i)' < page - 1
               PROVE  i \in scanned
    BY <1>1 DEF StableOK
  <2>1. i \in source
    BY <1>5, <1>12
  <2>2. Depth(i) < page - 1
    BY <1>12, <2>1
  <2> QED BY <2>1, <2>2 DEF GapsOK, StableOK
<1>15. ReturnedOK'
  <2> SUFFICES ASSUME phase = "returned", clean = TRUE, mode = "full" \/ healed = TRUE
               PROVE  /\ (start \cap source') \ Bad \subseteq Known \cup spawned
                      /\ \A i \in (Known \cup spawned) \cap source', j \in source' \ Bad :
                            j < i => j \in Known \cup spawned
    BY <1>1, <1>4 DEF ReturnedOK, Closed
  <2>1. (start \cap source) \ Bad \subseteq Known \cup spawned /\ Closed(Known \cup spawned)
    BY DEF GapsOK, ReturnedOK
  <2>2. published' \notin Known \cup spawned /\ published' \notin start
    BY <1>5 DEF Found
  <2> QED BY <1>1, <1>10, <2>1, <2>2
<1>16. IdleOK'
  BY <1>1, <1>4, <1>5 DEF GapsOK, IdleOK, Collected
<1> QED BY <1>9, <1>11, <1>13, <1>14, <1>15, <1>16 DEF GapsOK

LEMMA DeleteGaps == ASSUME Typed, GapsOK, NEW d \in Items, Delete(d) PROVE GapsOK'
<1>1. /\ source' = source \ {d}
      /\ UNCHANGED <<queue, settled, phase, mode, page, seen, spawned, scanned, start, healed>>
  BY DEF Delete, scan
<1>2. /\ clean' = TRUE => clean = TRUE /\ phase # "scanning"
      /\ stable' = TRUE => phase # "scanning"
  BY Zenon DEF Delete, Typed, TypedFlags
<1>3. Known' = Known
  BY <1>1 DEF Known
<1>4. LaterIsNewer'
  BY <1>1, <1>3 DEF GapsOK, LaterIsNewer
<1>5. HealedOK'
  BY <1>1, <1>3 DEF GapsOK, HealedOK, Closed
<1>6. ScanOK' /\ StableOK'
  BY <1>1, <1>2 DEF ScanOK, StableOK
<1>7. ReturnedOK'
  BY <1>1, <1>2, <1>3 DEF GapsOK, ReturnedOK, Closed
<1>8. IdleOK'
  BY <1>1, <1>2, <1>3 DEF GapsOK, IdleOK, Collected
<1> QED BY <1>4, <1>5, <1>6, <1>7, <1>8 DEF GapsOK

\* Steps after which the source and all that is known are what they were.
LEMMA GapsSame ==
  ASSUME GapsOK, Known' = Known,
         UNCHANGED <<source, phase, mode, page, seen, spawned, scanned, start, clean, stable,
                     healed>>
  PROVE  GapsOK'
<1>1. Found' = Found /\ \A i : Depth(i)' = Depth(i)
  BY DEF Found, Depth, Newer
<1>2. LaterIsNewer' /\ HealedOK'
  BY DEF GapsOK, LaterIsNewer, HealedOK, Closed
<1>3. ScanOK' /\ StableOK'
  BY <1>1 DEF GapsOK, ScanOK, StableOK
<1>4. ReturnedOK' /\ IdleOK'
  BY DEF GapsOK, ReturnedOK, IdleOK, Closed, Collected
<1> QED BY <1>2, <1>3, <1>4 DEF GapsOK

LEMMA BeginGaps ==
  ASSUME Typed, GapsOK, NEW m \in Modes, NEW l \in Limits, Begin(m, l) PROVE GapsOK'
<1>1. /\ phase' = "scanning" /\ page' = 1 /\ start' = source
      /\ UNCHANGED <<source, queue, settled, healed>>
  BY DEF Begin
<1>2. Known' = Known
  BY <1>1 DEF Known
<1>3. LaterIsNewer' /\ HealedOK'
  BY <1>1, <1>2 DEF GapsOK, LaterIsNewer, HealedOK, Closed
<1>4. \A i : Depth(i)' = Depth(i) /\ ~ (Depth(i) < 0)
  <2>1. \A i : Depth(i)' = Depth(i)
    BY <1>1 DEF Depth, Newer
  <2>2. \A i : Depth(i) \in Nat
    BY DepthType DEF Typed
  <2>3. \A n \in Nat : ~ (n < 0)
    OBVIOUS
  <2> QED BY <2>1, <2>2, <2>3
<1>5. ScanOK' /\ StableOK'
  <2>1. page' - 1 = 0
    BY <1>1
  <2> QED BY <1>4, <2>1 DEF ScanOK, StableOK
<1>6. ReturnedOK' /\ IdleOK'
  BY <1>1 DEF ReturnedOK, IdleOK
<1> QED BY <1>3, <1>5, <1>6 DEF GapsOK

LEMMA ScanPageGaps == ASSUME Typed, GapsOK, ScanPage PROVE GapsOK'
<1>1. /\ phase = "scanning" /\ page' = page + 1
      /\ scanned' = IF mode = "full" THEN scanned \cup Entries(page) ELSE scanned
      /\ UNCHANGED <<source, queue, settled, phase, mode, seen, start, stable, healed>>
  BY DEF ScanPage, NextPage
<1>2. Known' = Known /\ \A i : Depth(i)' = Depth(i)
  BY <1>1 DEF Known, Depth, Newer
<1>3. LaterIsNewer' /\ HealedOK'
  BY <1>1, <1>2 DEF GapsOK, LaterIsNewer, HealedOK, Closed
<1>4. ReturnedOK' /\ IdleOK'
  BY <1>1 DEF ReturnedOK, IdleOK
<1>5. clean' = TRUE => clean = TRUE /\ spawned' = spawned \cup (Entries(page) \ seen)
  <2>1. PICK failing : /\ spawned' = spawned \cup (Entries(page) \ (seen \cup failing))
                       /\ clean' = (clean /\ failing = {})
    BY DEF ScanPage
  <2>2. clean' = TRUE => clean = TRUE /\ failing = {}
    BY <2>1, Zenon DEF Typed, TypedFlags
  <2>3. failing = {} => seen \cup failing = seen
    OBVIOUS
  <2> QED BY <2>1, <2>2, <2>3
<1>6. /\ page \in Nat /\ TypedItems /\ \A i : Depth(i) \in Nat
      /\ \A i \in source \ Bad : Depth(i) = page - 1 => i \in Entries(page)
  BY DepthType DEF Typed, TypedScan, Entries, Page, Depth
<1>7. \A i : Depth(i) < page' - 1 => Depth(i) < page - 1 \/ Depth(i) = page - 1
  BY <1>1, <1>6
<1>8. StableOK'
  <2> SUFFICES ASSUME stable = TRUE, mode = "full",
                      NEW i \in (start \cap source) \ Bad, Depth(i) < page' - 1
               PROVE  i \in scanned'
    BY <1>1, <1>2 DEF StableOK
  <2>1. CASE Depth(i) < page - 1
    BY <1>1, <2>1 DEF GapsOK, StableOK
  <2>2. CASE Depth(i) = page - 1
    BY <1>1, <1>6, <2>2
  <2> QED BY <1>7, <2>1, <2>2
<1>9. ScanOK'
  <2> SUFFICES ASSUME clean' = TRUE PROVE ScanOK'
    BY DEF ScanOK
  <2>1. clean = TRUE /\ Found' = Found \cup Entries(page)
    BY <1>1, <1>5 DEF Found
  <2>2. ASSUME NEW i \in (start \cap source) \ Bad, Depth(i) < page' - 1 PROVE i \in Found'
    <3>1. CASE Depth(i) < page - 1
      BY <1>1, <2>1, <3>1 DEF GapsOK, ScanOK
    <3>2. CASE Depth(i) = page - 1
      BY <1>6, <2>1, <3>2
    <3> QED BY <1>7, <2>2, <3>1, <3>2
  <2>3. ASSUME NEW i \in Found' \cap source, NEW j \in source \ Bad, j < i, Depth(j) < page' - 1
        PROVE  j \in Found'
    <3>1. CASE Depth(j) = page - 1
      BY <1>6, <2>1, <3>1
    <3>2. CASE Depth(j) < page - 1 /\ i \in Found
      BY <1>1, <2>1, <2>3, <3>2 DEF GapsOK, ScanOK
    <3>3. CASE Depth(j) < page - 1 /\ i \in Entries(page)
      <4>1. Depth(i) = page - 1
        BY <3>3 DEF Entries, Page, Depth
      <4>2. Depth(i) <= Depth(j)
        BY <1>6, <2>3, OlderIsDeeper
      <4> QED BY <1>6, <3>3, <4>1, <4>2
    <3> QED BY <1>7, <2>1, <2>3, <3>1, <3>2, <3>3
  <2> QED BY <1>1, <1>2, <2>2, <2>3 DEF ScanOK
<1> QED BY <1>3, <1>4, <1>8, <1>9 DEF GapsOK

\* The heart of the matter.  Where a clean scan ends nothing follows, or all that follows
\* is older than something known and so, if no gap was left before, known itself.
LEMMA EndScanGaps == ASSUME Typed, GapsOK, EndScan PROVE GapsOK'
<1>1. /\ phase = "scanning" /\ phase' = "returned" /\ StopsHere(page)
      /\ UNCHANGED <<source, queue, settled, mode, page, seen, spawned, scanned, start, healed>>
  BY DEF EndScan, scan
<1>2. Known' = Known
  BY <1>1 DEF Known
<1>3. LaterIsNewer' /\ HealedOK'
  BY <1>1, <1>2 DEF GapsOK, LaterIsNewer, HealedOK, Closed
<1>4. ScanOK' /\ StableOK' /\ IdleOK'
  BY <1>1 DEF ScanOK, StableOK, IdleOK
<1>5. clean' = TRUE => clean = TRUE /\ page <= limit /\ (Entries(page) = {} => Page(page) = {})
  BY Zenon DEF EndScan, Typed, TypedFlags
<1>6. ReturnedOK'
  <2> SUFFICES ASSUME clean' = TRUE, mode = "full" \/ healed = TRUE
               PROVE  /\ (start \cap source) \ Bad \subseteq Known \cup spawned
                      /\ Closed(Known \cup spawned)
    BY <1>1, <1>2 DEF ReturnedOK, Closed
  <2>1. page \in Nat /\ page >= 1 /\ limit \in Nat /\ TypedItems /\ \A i : Depth(i) \in Nat
    BY DepthType, DiscoveryAssumption DEF Typed, TypedScan
  <2>2. /\ \A i \in (start \cap source) \ Bad : Depth(i) < page - 1 => i \in Found
        /\ \A i \in Found \cap source, j \in source \ Bad : j < i /\ Depth(j) < page - 1 => j \in Found
    BY <1>1, <1>5 DEF GapsOK, ScanOK
  <2>3. Found \subseteq Known \cup spawned
    BY <2>1 DEF Found, Known, TypedItems
  <2>4. CASE Page(page) = {}
    <3>1. \A i \in source : Depth(i) < page - 1
      BY <2>1, <2>4, EmptyPageIsLast
    <3>2. (start \cap source) \ Bad \subseteq Found
      BY <2>2, <3>1
    <3>3. ASSUME NEW i \in (Known \cup spawned) \cap source, NEW j \in source \ Bad, j < i
          PROVE  j \in Known \cup spawned
      <4>1. CASE i \in spawned
        BY <2>2, <2>3, <3>1, <3>3, <4>1 DEF Found
      <4>2. CASE i \in Known
        <5>1. i \in Items /\ i \in Nat /\ j \in Nat
          BY <2>1, SourceNumbers, PublishedAreItems DEF TypedItems
        <5>2. j \notin source \ start
          <6>1. j \in source \ start => j > i
            BY <1>1, <4>2, <5>1 DEF GapsOK, LaterIsNewer
          <6> QED BY <3>3, <5>1, <6>1
        <5> QED BY <2>3, <3>2, <5>2
      <4> QED BY <4>1, <4>2
    <3> QED BY <2>3, <3>2, <3>3 DEF Closed
  <2>5. CASE Page(page) # {}
    <3>1. Entries(page) # {} /\ mode # "full" /\ Entries(page) \subseteq seen
      BY <1>1, <1>5, <2>1, <2>5 DEF StopsHere
    <3>2. PICK e \in Entries(page) : TRUE
      BY <3>1
    <3>3. e \in source /\ Depth(e) = page - 1 /\ e \in Known
      BY <2>1, <3>1 DEF Entries, Page, Depth, Known, TypedItems
    <3>4. Closed(Known)
      BY <3>1 DEF GapsOK, HealedOK
    <3>5. ASSUME NEW j \in source \ Bad, ~ (Depth(j) < page - 1) PROVE j \in Known
      <4>1. CASE Depth(j) = page - 1
        BY <2>1, <3>1, <4>1 DEF Entries, Page, Depth, Known, TypedItems
      <4>2. CASE Depth(j) > page - 1
        <5>1. j \in Nat /\ e \in Nat
          BY <2>1, <3>3, SourceNumbers
        <5>2. ~ (e < j)
          <6>1. e < j => Depth(j) <= Depth(e)
            BY <2>1, <3>3, OlderIsDeeper
          <6> QED BY <2>1, <3>3, <4>2, <6>1
        <5>3. j # e
          BY <2>1, <3>3, <4>2
        <5> QED BY <3>3, <3>4, <5>1, <5>2, <5>3 DEF Closed
      <4> QED BY <2>1, <3>5, <4>1, <4>2
    <3>6. (start \cap source) \ Bad \subseteq Known \cup spawned
      BY <2>2, <2>3, <3>5
    <3>7. ASSUME NEW i \in (Known \cup spawned) \cap source, NEW j \in source \ Bad, j < i
          PROVE  j \in Known \cup spawned
      <4>1. CASE i \in Known
        BY <3>4, <3>7, <4>1 DEF Closed
      <4>2. CASE i \in spawned
        BY <2>2, <2>3, <3>5, <3>7, <4>2 DEF Found
      <4> QED BY <4>1, <4>2
    <3> QED BY <3>6, <3>7 DEF Closed
  <2> QED BY <2>4, <2>5
<1> QED BY <1>3, <1>4, <1>6 DEF GapsOK

LEMMA CommitGaps == ASSUME Typed, GapsOK, Commit PROVE GapsOK'
<1>1. /\ phase = "returned" /\ phase' = "idle" /\ queue' = queue \cup spawned
      /\ UNCHANGED <<source, settled, mode, start, clean>>
  BY DEF Commit
<1>2. healed' = TRUE => clean = TRUE /\ (mode = "full" \/ healed = TRUE)
  BY Zenon DEF Commit, Typed, TypedFlags
<1>3. Known' = Known \cup spawned
  BY <1>1 DEF Known
<1>4. clean = TRUE /\ (mode = "full" \/ healed = TRUE) =>
        (start \cap source) \ Bad \subseteq Known' /\ Closed(Known')
  BY <1>1, <1>3 DEF GapsOK, ReturnedOK
<1>5. HealedOK'
  BY <1>1, <1>2, <1>4 DEF HealedOK, Closed
<1>6. IdleOK'
  BY <1>1, <1>2, <1>4 DEF IdleOK, Collected
<1>7. LaterIsNewer' /\ ScanOK' /\ StableOK' /\ ReturnedOK'
  BY <1>1 DEF LaterIsNewer, ScanOK, StableOK, ReturnedOK
<1> QED BY <1>5, <1>6, <1>7 DEF GapsOK

LEMMA ScanDiesGaps == ASSUME GapsOK, ScanDies PROVE GapsOK'
<1>1. phase' = "idle" /\ clean' = FALSE /\ UNCHANGED <<source, queue, settled, start, healed>>
  BY DEF ScanDies
<1>2. Known' = Known
  BY <1>1 DEF Known
<1>3. HealedOK'
  BY <1>1, <1>2 DEF GapsOK, HealedOK, Closed
<1>4. LaterIsNewer' /\ ScanOK' /\ StableOK' /\ ReturnedOK' /\ IdleOK'
  BY <1>1 DEF LaterIsNewer, ScanOK, StableOK, ReturnedOK, IdleOK
<1> QED BY <1>3, <1>4 DEF GapsOK

LEMMA GapsInit == Init => GapsOK
  BY DEF Init, GapsOK, LaterIsNewer, HealedOK, Closed, ScanOK, StableOK, ReturnedOK, IdleOK,
         Collected, Known

LEMMA GapsStep == Typed /\ GapsOK /\ [Next]_vars => GapsOK'
<1> SUFFICES ASSUME Typed, GapsOK, [Next]_vars PROVE GapsOK'
  OBVIOUS
<1>1. CASE Publish
  BY <1>1, ItemsStep, PublishGaps
<1>2. ASSUME NEW i \in Items, SettleChild(i) PROVE GapsOK'
  BY <1>2, GapsSame DEF SettleChild, Known, scan, history
<1>3. CASE UNCHANGED vars
  BY <1>3, GapsSame DEF vars, scan, history, Known
<1> QED BY <1>1, <1>2, <1>3, DeleteGaps, BeginGaps, ScanPageGaps, EndScanGaps, CommitGaps, ScanDiesGaps
    DEF Next

LEMMA GapsInvariant == Spec => []GapsOK
  BY TypedInvariant, GapsInit, GapsStep, PTL DEF Spec

\* Clean scans miss nothing, full ones whatever was left out before them, for any drift of
\* the pages and any order in which children are settled (_scan_pages).
THEOREM CleanScansFindHolds == Spec => []CleanScansFind
<1>1. Typed /\ GapsOK => CleanScansFind
  <2> SUFFICES ASSUME Typed, GapsOK, phase = "idle", clean, healed \/ mode = "full" PROVE Collected
    BY DEF CleanScansFind
  <2>1. clean = TRUE /\ (healed = TRUE \/ mode = "full")
    BY Zenon DEF Typed, TypedFlags
  <2> QED BY <2>1 DEF GapsOK, IdleOK
<1> QED BY <1>1, TypedInvariant, GapsInvariant, PTL

\* on_missing is told only of items that are gone from the source, unless one was deleted
\* under the scan, and of another group's only if the filter takes them for this group's
\* (_report_missing, _in_discovery_group).
THEOREM MissingIsGoneHolds == Spec => MissingIsGone
<1> DEFINE Gone == \A i \in reported' \ reported : i \in Items \cup Alike /\ (i \in source => ~ stable)
<1>1. Typed /\ GapsOK /\ [Next]_vars => [Gone]_vars
  <2> SUFFICES ASSUME Typed, GapsOK, Next, NEW i \in reported' \ reported
               PROVE  i \in Items \cup Alike /\ (i \in source => ~ stable)
    OBVIOUS
  <2>1. EndScan
    <3>1. CASE Publish \/ ScanPage
      BY <3>1 DEF Publish, ScanPage
    <3>2. ASSUME NEW d \in Items, Delete(d) \/ SettleChild(d) PROVE FALSE
      BY <3>2 DEF Delete, SettleChild
    <3>3. ASSUME NEW m \in Modes, NEW l \in Limits, Begin(m, l) PROVE FALSE
      BY <3>3 DEF Begin
    <3>4. CASE Commit \/ ScanDies
      BY <3>4 DEF Commit, ScanDies, Over
    <3> QED BY <3>1, <3>2, <3>3, <3>4 DEF Next
  <2>2. phase = "scanning" /\ StopsHere(page) /\ mode = "full" /\ CompleteAt(page) /\ i \in Missing
    BY <2>1 DEF EndScan
  <2>3. TypedItems /\ i \notin OtherGroup \ Alike /\ i \notin scanned /\ i \in settled
    BY <2>2 DEF Missing, InDiscoveryGroup, Typed, TypedItems
  <2>4. i \in Items \cup Alike
    BY <2>3, PublishedAreItems DEF TypedItems
  <2>5. ASSUME i \in source, stable = TRUE PROVE FALSE
    <3>1. i \in Items /\ i \in Nat /\ i \notin Bad /\ i \in Known
      <4>1. i \in Items /\ i \in Nat
        BY <2>3, <2>5, PublishedAreItems DEF TypedItems
      <4>2. i \notin OtherGroup
        BY <4>1, DiscoveryAssumption DEF Items
      <4> QED BY <2>3, <4>1, <4>2 DEF TypedItems, Known
    <3>2. i \in start
      <4>1. i \in source \ start => i > i
        BY <2>2, <3>1 DEF GapsOK, LaterIsNewer
      <4> QED BY <2>5, <3>1, <4>1
    <3>3. page \in Nat /\ page >= 1 /\ page <= limit /\ limit \in Nat
      BY <2>2, DiscoveryAssumption DEF CompleteAt, Typed, TypedScan
    <3>4. Page(page) = {}
      BY <2>2, <3>3 DEF StopsHere, CompleteAt, PageIntact, Entries
    <3>5. Depth(i) < page - 1
      BY <2>3, <2>5, <3>3, <3>4, EmptyPageIsLast
    <3> QED BY <2>2, <2>3, <2>5, <3>1, <3>2, <3>5 DEF GapsOK, StableOK
  <2>6. stable \in BOOLEAN
    BY DEF Typed, TypedFlags
  <2> QED BY <2>4, <2>5, <2>6
<1> QED BY <1>1, TypedInvariant, GapsInvariant, PTL DEF Spec, MissingIsGone
=============================================================================
