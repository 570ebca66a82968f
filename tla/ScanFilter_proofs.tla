-------------------------- MODULE ScanFilter_proofs --------------------------
(***************************************************************************)
(* The scan filters and the search (ScanFilter), for every client, every     *)
(* capacity of the filters, number of bonds and devices, set of reports and  *)
(* set of failures.  What the loop over the bonds adds is proved by the      *)
(* least number of bonds it could get wrong; the invariant then says whose   *)
(* turn it is (TurnInv) and what the filters hold while the search is on     *)
(* (SetUpInv).  The verdict on a report compares two counts, of the elements *)
(* found and of the kinds enabled; with one element of each kind they are    *)
(* the sizes of two sets, one within the other.                              *)
(***************************************************************************)
EXTENDS ScanFilter, FiniteSetTheorems, WellFoundedInduction, TLAPS

-----------------------------------------------------------------------------
(* The filters *)

\* What a filter set may change: nothing, or one more entry of its kind.
Stored(t, k, x, u) ==
  u = t \/ (Len(t[k]) < Capacity[k] /\ u = [t EXCEPT ![k] = Append(@, x)])

\* Whatever the checks of a kind find, the filter is stored or the table stays.
LEMMA StoreStores ==
  ASSUME NEW t, NEW k, NEW x, NEW valid, NEW duplicate
  PROVE  Stored(t, k, x, Store(t, k, x, valid, duplicate).table)
<1>1. Store(t, k, x, valid, duplicate).table =
        IF Len(t[k]) < Capacity[k] /\ valid /\ ~duplicate THEN [t EXCEPT ![k] = Append(@, x)] ELSE t
  BY DEF Store
<1> QED
  BY <1>1 DEF Stored

\* So does every kind of filter.
LEMMA AddedStores ==
  ASSUME NEW t, NEW k \in Kinds, NEW x
  PROVE  Stored(t, k, x, Added(t, k, x).table)
<1>1. CASE k = "name"
  <2>1. Added(t, k, x) = scan_name_filter_add(t, x)
    BY <1>1 DEF Added
  <2> QED
    BY <1>1, <2>1, StoreStores DEF scan_name_filter_add
<1>2. CASE k = "short_name"
  <2>1. Added(t, k, x) = scan_short_name_filter_add(t, x)
    BY <1>2 DEF Added
  <2> QED
    BY <1>2, <2>1, StoreStores DEF scan_short_name_filter_add
<1>3. CASE k = "addr"
  <2>1. Added(t, k, x) = scan_addr_filter_add(t, x)
    BY <1>3 DEF Added
  <2> QED
    BY <1>3, <2>1, StoreStores DEF scan_addr_filter_add
<1>4. CASE k = "uuid"
  <2>1. Added(t, k, x) = scan_uuid_filter_add(t, x)
    BY <1>4 DEF Added
  <2> QED
    BY <1>4, <2>1, StoreStores DEF scan_uuid_filter_add
<1>5. CASE k = "appearance"
  <2>1. Added(t, k, x) = scan_appearance_filter_add(t, x)
    BY <1>5 DEF Added
  <2> QED
    BY <1>5, <2>1, StoreStores DEF scan_appearance_filter_add
<1>6. CASE k = "manufacturer"
  <2>1. Added(t, k, x) = scan_manufacturer_data_filter_add(t, x)
    BY <1>6 DEF Added
  <2> QED
    BY <1>6, <2>1, StoreStores DEF scan_manufacturer_data_filter_add
<1> QED
  BY <1>1, <1>2, <1>3, <1>4, <1>5, <1>6 DEF Kinds, NameKinds

-----------------------------------------------------------------------------
(* The address filters of the search *)

\* Induction over data is done below with a least counterexample.
LEMMA LeastNatural ==
  ASSUME NEW T, T \subseteq Nat, T # {}
  PROVE  \E m \in T : \A k \in T : m <= k
<1> DEFINE R == {p \in Nat \X Nat : p[1] < p[2]}
<1>1. IsWellFoundedOn(R, Nat)
  BY NatLessThanWellFounded DEF OpToRel
<1> HIDE DEF R
<1>2. PICK m \in T : \A k \in T : ~ (<<k, m>> \in R)
  BY <1>1, WFMin
<1>3. \A k \in T : ~ (k < m)
  BY <1>2 DEF R
<1> QED
  BY <1>3

\* A set of numbers up to n has a greatest one.
LEMMA MaxIs ==
  ASSUME NEW n \in Nat, NEW s \in SUBSET (1..n), s # {}
  PROVE  Max(s) \in s /\ \A y \in s : y <= Max(s)
<1> DEFINE Bounds == {u \in Nat : \A y \in s : y <= u}
<1>1. n \in Bounds /\ Bounds \subseteq Nat
  OBVIOUS
<1>2. PICK u \in Bounds : \A v \in Bounds : u <= v
  BY <1>1, LeastNatural
<1>3. u \in s
  <2>1. SUFFICES ASSUME u \notin s
                 PROVE  FALSE
    OBVIOUS
  <2>2. PICK y \in s : TRUE
    OBVIOUS
  <2>3. u - 1 \in Nat
    <3>1. y \in 1..n /\ y <= u /\ u \in Nat
      BY <2>2
    <3> QED
      BY <3>1
  <2>4. \A z \in s : z <= u - 1
    BY <2>1
  <2>5. u - 1 \in Bounds
    BY <2>3, <2>4
  <2> QED
    BY <1>2, <2>5
<1>4. \A y \in s : u >= y /\ y <= u
  OBVIOUS
<1> HIDE DEF Bounds
<1>5. \E x \in s : \A y \in s : x >= y
  BY <1>3, <1>4
<1>6. Max(s) \in s /\ \A y \in s : Max(s) >= y
  BY <1>5 DEF Max
<1> QED
  BY <1>6

\* The numbers up to j + 1 are those up to j, and j + 1.
LEMMA UpTo ==
  ASSUME NEW j \in Nat
  PROVE  /\ Max(1..(j + 1)) = j + 1 /\ 1..(j + 1) # {}
         /\ (1..(j + 1)) \ {j + 1} = 1..j
<1>1. j + 1 \in 1..(j + 1)
  OBVIOUS
<1>2. Max(1..(j + 1)) \in 1..(j + 1) /\ j + 1 <= Max(1..(j + 1))
  <2>1. 1..(j + 1) # {} /\ j + 1 \in Nat
    BY <1>1
  <2> QED
    BY <1>1, <2>1, MaxIs
<1>3. Max(1..(j + 1)) = j + 1
  BY <1>2
<1> QED
  BY <1>1, <1>3

\* One step of the fold over the bonds, given the results f of the shorter folds.
Step(f, s) ==
  IF s = {} THEN Removed ELSE try_add_address_filter(f[s \ {Max(s)}], bonds[Max(s)])

\* f has the results of all folds over bonds up to n.
Folds(n, f) == f = [s \in SUBSET (1..n) |-> Step(f, s)]

\* The fold that FoldLeft names exists.
LEMMA FoldExists ==
  ASSUME NEW n \in Nat
  PROVE  \E f : Folds(n, f)
<1> DEFINE T == {m \in Nat : ~ \E f : Folds(m, f)}
<1>1. SUFFICES ASSUME T # {}
               PROVE  FALSE
  OBVIOUS
<1>2. PICK m \in T : \A k \in T : m <= k
  BY <1>1, LeastNatural
<1>3. CASE m = 0
  <2>1. SUBSET (1..0) = {{}}
    OBVIOUS
  <2>2. PICK f : f = [s \in SUBSET (1..0) |-> Removed]
    OBVIOUS
  <2>3. \A s \in SUBSET (1..0) : Step(f, s) = Removed
    BY <2>1 DEF Step
  <2>4. Folds(0, f)
    BY <2>2, <2>3 DEF Folds
  <2> QED
    BY <1>3, <2>4
<1>4. CASE m # 0
  <2>1. PICK k \in Nat : m = k + 1
    BY <1>4
  <2>2. k \notin T
    BY <1>2, <2>1
  <2>3. PICK g : Folds(k, g)
    BY <2>2
  <2>4. PICK f : f = [s \in SUBSET (1..m) |->
                        IF m \in s THEN try_add_address_filter(g[s \ {m}], bonds[m]) ELSE g[s]]
    OBVIOUS
  <2>5. ASSUME NEW s \in SUBSET (1..m)
        PROVE  f[s] = Step(f, s)
    <3>1. CASE s = {}
      <4>1. f[s] = g[s] /\ s \in SUBSET (1..k)
        BY <2>4, <3>1
      <4> QED
        BY <2>3, <3>1, <4>1 DEF Folds, Step
    <3>2. CASE s # {} /\ m \notin s
      <4>1. s \in SUBSET (1..k)
        BY <2>1, <3>2
      <4>2. Max(s) \in s
        BY <3>2, <4>1, MaxIs
      <4>3. /\ s \ {Max(s)} \in SUBSET (1..k) /\ s \ {Max(s)} \in SUBSET (1..m)
            /\ m \notin s \ {Max(s)}
        <5>1. \A r : s \ {r} \in SUBSET (1..k) /\ s \ {r} \in SUBSET (1..m) /\ m \notin s \ {r}
          BY <3>2, <4>1
        <5> QED
          BY <5>1
      <4>4. f[s] = g[s] /\ f[s \ {Max(s)}] = g[s \ {Max(s)}]
        BY <2>4, <3>2, <4>3
      <4>5. g[s] = Step(g, s)
        BY <2>3, <4>1 DEF Folds
      <4> QED
        BY <3>2, <4>4, <4>5 DEF Step
    <3>3. CASE m \in s
      <4>1. Max(s) \in s /\ \A y \in s : y <= Max(s)
        BY <3>3, MaxIs
      <4>2. Max(s) = m
        <5>1. Max(s) \in 1..m /\ m <= Max(s)
          BY <3>3, <4>1
        <5> QED
          BY <5>1
      <4>3. s \ {m} \in SUBSET (1..m) /\ m \notin s \ {m}
        OBVIOUS
      <4>4. f[s] = try_add_address_filter(g[s \ {m}], bonds[m]) /\ f[s \ {m}] = g[s \ {m}]
        BY <2>4, <3>3, <4>3
      <4> QED
        BY <3>3, <4>2, <4>4 DEF Step
    <3> QED
      BY <3>1, <3>2, <3>3
  <2>6. Folds(m, f)
    BY <2>4, <2>5 DEF Folds
  <2> QED
    BY <2>6
<1> QED
  BY <1>3, <1>4

\* The first of two numbers, if it is the smaller one.
Smaller(a, b) == IF a <= b THEN a ELSE b

\* The bonds up to n that the address filters can take.
BondsUpTo(n) == SubSeq(bonds, 1, Smaller(n, Capacity["addr"]))

\* The filters once those bonds have been added.
FrontTable(n) == [Removed EXCEPT !["addr"] = BondsUpTo(n)]

\* No device is bonded twice.
BondsDiffer == \A i, j \in 1..Len(bonds) : bonds[i] = bonds[j] => i = j

\* The first elements of a sequence, and one more.
LEMMA FrontOne ==
  ASSUME NEW S, NEW s \in Seq(S), NEW n \in Nat, n + 1 <= Len(s)
  PROVE  /\ Len(SubSeq(s, 1, n)) = n /\ \A i \in 1..n : SubSeq(s, 1, n)[i] = s[i]
         /\ SubSeq(s, 1, n + 1) = Append(SubSeq(s, 1, n), s[n + 1])
<1>1. Len(s) \in Nat /\ \A i \in 1..(n + 1) : i \in 1..Len(s) /\ s[i] \in S
  OBVIOUS
<1>2. PICK t : t = SubSeq(s, 1, n)
  OBVIOUS
<1>3. t \in Seq(S) /\ Len(t) = n /\ \A i \in 1..n : t[i] = s[i]
  BY <1>1, <1>2
<1>4. PICK u : u = SubSeq(s, 1, n + 1)
  OBVIOUS
<1>5. u \in Seq(S) /\ Len(u) = n + 1 /\ \A i \in 1..(n + 1) : u[i] = s[i]
  BY <1>1, <1>4
<1>6. PICK v : v = Append(t, s[n + 1])
  OBVIOUS
<1>7. v \in Seq(S) /\ Len(v) = n + 1 /\ v[n + 1] = s[n + 1] /\ \A i \in 1..n : v[i] = s[i]
  BY <1>1, <1>3, <1>6
<1>8. \A i \in 1..(n + 1) : u[i] = v[i]
  BY <1>5, <1>7
<1>9. u = v
  BY <1>5, <1>7, <1>8
<1> QED
  BY <1>2, <1>3, <1>4, <1>6, <1>9

\* One more bond: it is added behind the others while there is room.
LEMMA FrontGrows ==
  ASSUME bonds \in Seq(Devices), BondsDiffer, link = NoLink,
         NEW n \in Nat, n + 1 <= Len(bonds)
  PROVE  try_add_address_filter(FrontTable(n), bonds[n + 1]) = FrontTable(n + 1)
<1>1. PICK cap \in Nat : cap = Capacity["addr"]
  BY ScanConstants DEF ScanConstants, Kinds
<1>2. n + 1 \in 1..Len(bonds) /\ Len(bonds) \in Nat /\ bonds[n + 1] \in Devices
  OBVIOUS
<1>3. bonds[n + 1] # link.peer
  BY <1>2, ScanConstants DEF ScanConstants, NoLink
<1>4. "addr" \in DOMAIN Removed
  BY DEF Removed, Kinds
<1>5. FrontTable(n)["addr"] = BondsUpTo(n)
  BY <1>4 DEF FrontTable
<1>6. CASE n < cap
  <2>1. Smaller(n, Capacity["addr"]) = n /\ Smaller(n + 1, Capacity["addr"]) = n + 1
    BY <1>1, <1>6 DEF Smaller
  <2>2. /\ Len(BondsUpTo(n)) = n /\ \A i \in 1..n : BondsUpTo(n)[i] = bonds[i]
        /\ BondsUpTo(n + 1) = Append(BondsUpTo(n), bonds[n + 1])
    <3>1. BondsUpTo(n) = SubSeq(bonds, 1, n) /\ BondsUpTo(n + 1) = SubSeq(bonds, 1, n + 1)
      BY <2>1 DEF BondsUpTo
    <3>2. /\ Len(SubSeq(bonds, 1, n)) = n /\ \A i \in 1..n : SubSeq(bonds, 1, n)[i] = bonds[i]
          /\ SubSeq(bonds, 1, n + 1) = Append(SubSeq(bonds, 1, n), bonds[n + 1])
      BY FrontOne
    <3> QED
      BY <3>1, <3>2
  <2>3. ~ \E i \in 1..Len(BondsUpTo(n)) : BondsUpTo(n)[i] = bonds[n + 1]
    BY <1>2, <2>2 DEF BondsDiffer
  <2>4. scan_addr_filter_add(FrontTable(n), bonds[n + 1]).table =
          [FrontTable(n) EXCEPT !["addr"] = Append(@, bonds[n + 1])]
    BY <1>1, <1>5, <1>6, <2>2, <2>3 DEF scan_addr_filter_add, Store
  <2>5. [FrontTable(n) EXCEPT !["addr"] = Append(@, bonds[n + 1])] = FrontTable(n + 1)
    BY <1>4, <1>5, <2>2 DEF FrontTable, Removed
  <2> QED
    BY <1>3, <2>4, <2>5 DEF try_add_address_filter
<1>7. CASE ~ (n < cap)
  <2>1. Smaller(n, Capacity["addr"]) = cap /\ Smaller(n + 1, Capacity["addr"]) = cap
    BY <1>1, <1>7 DEF Smaller
  <2>2. Len(BondsUpTo(n)) = cap /\ BondsUpTo(n + 1) = BondsUpTo(n)
    BY <1>1, <1>2, <1>7, <2>1 DEF BondsUpTo
  <2>3. scan_addr_filter_add(FrontTable(n), bonds[n + 1]).table = FrontTable(n)
    BY <1>1, <1>5, <2>2 DEF scan_addr_filter_add, Store
  <2> QED
    BY <1>3, <2>2, <2>3 DEF try_add_address_filter, FrontTable
<1> QED
  BY <1>1, <1>6, <1>7

\* What scan_work_handler makes of the bonds: the filters hold the first ones, as many
\* as there is room for.
LEMMA BondsAdded ==
  ASSUME bonds \in Seq(Devices), BondsDiffer, link = NoLink
  PROVE  FoldLeft(try_add_address_filter, Removed, bonds) = FrontTable(Len(bonds))
<1>1. Len(bonds) \in Nat /\ DOMAIN bonds = 1..Len(bonds)
  OBVIOUS
<1>2. PICK f : /\ Folds(Len(bonds), f)
               /\ FoldLeft(try_add_address_filter, Removed, bonds) = f[1..Len(bonds)]
  <2>1. Folds(Len(bonds), CHOOSE f : Folds(Len(bonds), f))
    BY <1>1, FoldExists
  <2>2. FoldLeft(try_add_address_filter, Removed, bonds) =
          (CHOOSE f : Folds(Len(bonds), f))[1..Len(bonds)]
    BY <1>1 DEF FoldLeft, MapThenFoldSet, Folds, Step
  <2> QED
    BY <2>1, <2>2
<1> DEFINE T == {k \in Nat : k <= Len(bonds) /\ f[1..k] # FrontTable(k)}
<1>3. /\ T \subseteq Nat
      /\ \A k \in T : k <= Len(bonds) /\ f[1..k] # FrontTable(k)
      /\ \A k \in Nat : k <= Len(bonds) /\ k \notin T => f[1..k] = FrontTable(k)
  OBVIOUS
<1> HIDE DEF T
<1>4. ASSUME T # {}
      PROVE  FALSE
  <2>1. PICK k \in T : \A j \in T : k <= j
    BY <1>3, <1>4, LeastNatural
  <2>2. k \in Nat /\ k <= Len(bonds) /\ f[1..k] # FrontTable(k)
    BY <1>3, <2>1
  <2>3. f[1..k] = Step(f, 1..k)
    <3>1. 1..k \in SUBSET (1..Len(bonds))
      BY <1>1, <2>2
    <3> QED
      BY <1>2, <3>1 DEF Folds
  <2>4. CASE k = 0
    <3>1. f[1..k] = Removed
      BY <2>3, <2>4 DEF Step
    <3>2. BondsUpTo(0) = <<>>
      BY ScanConstants DEF BondsUpTo, Smaller, ScanConstants, Kinds
    <3>3. FrontTable(0) = Removed
      BY <3>2 DEF FrontTable, Removed
    <3> QED
      BY <2>2, <2>4, <3>1, <3>3
  <2>5. CASE k # 0
    <3>1. PICK j \in Nat : k = j + 1
      BY <2>2, <2>5
    <3>2. f[1..j] = FrontTable(j)
      <4>1. j <= Len(bonds) /\ ~ (k <= j)
        BY <1>1, <2>2, <3>1
      <4> QED
        BY <1>3, <2>1, <4>1
    <3>3. Max(1..k) = k /\ (1..k) \ {k} = 1..j /\ 1..k # {}
      BY <3>1, UpTo
    <3>4. Step(f, 1..k) = try_add_address_filter(FrontTable(j), bonds[j + 1])
      BY <3>1, <3>2, <3>3 DEF Step
    <3>5. try_add_address_filter(FrontTable(j), bonds[j + 1]) = FrontTable(j + 1)
      BY <2>2, <3>1, FrontGrows
    <3> QED
      BY <2>2, <2>3, <3>1, <3>4, <3>5
  <2> QED
    BY <2>4, <2>5
<1>5. f[1..Len(bonds)] = FrontTable(Len(bonds))
  BY <1>1, <1>3, <1>4
<1> QED
  BY <1>2, <1>5

-----------------------------------------------------------------------------
(* The inductive invariant *)

\* A link is one to a device; the search waits for its turn until the link has ended,
\* and is due, on, or held up by a link or a failure.
TurnInv ==
  /\ link = NoLink \/ link.peer \in Devices
  /\ due \/ scanning => link = NoLink
  /\ due => ~scanning
  /\ client = "search" => due \/ scanning \/ link # NoLink \/ failed

\* While the search is on, the filters are those of the bonds it was set up with, or
\* without bonds that of the service.
SetUp(t, e, a, s) ==
  /\ a = FALSE
  /\ \/ s # {} /\ e = {"addr"} /\ s = {t["addr"][i] : i \in 1..Len(t["addr"])}
     \/ s = {} /\ e = {"uuid"} /\ t["uuid"] = <<GoPro>>

\* So is the search, from its set-up on to the next one.
SetUpInv == client = "search" /\ scanning => SetUp(table, enabled, all_mode, sought)

\* The inductive invariant.
IInv == TypeOK /\ BondsDiffer /\ TurnInv /\ SetUpInv

-----------------------------------------------------------------------------
(* Steps *)

\* The types of the filters.
Tables(t) ==
  /\ DOMAIN t = Kinds
  /\ \A k \in Kinds : t[k] \in Seq(Target[k]) /\ Len(t[k]) <= Capacity[k]

\* The types of the memories the names of the filters are kept in.
Memories(m) == DOMAIN m = NameKinds /\ \A k \in NameKinds : DOMAIN m[k] = 1..Capacity[k]

\* The empty table has its types.
LEMMA RemovedTypes == Tables(Removed)
<1>1. \A k \in Kinds : Capacity[k] \in Nat
  BY ScanConstants DEF ScanConstants
<1>2. DOMAIN Removed = Kinds /\ \A k \in Kinds : Removed[k] = <<>>
  BY DEF Removed
<1>3. ASSUME NEW k \in Kinds
      PROVE  Removed[k] \in Seq(Target[k]) /\ Len(Removed[k]) <= Capacity[k]
  <2>1. Removed[k] = <<>> /\ Capacity[k] \in Nat
    BY <1>1, <1>2
  <2>2. <<>> \in Seq(Target[k])
    OBVIOUS
  <2>3. Len(<<>>) <= Capacity[k]
    BY <2>1
  <2> QED
    BY <2>1, <2>2, <2>3
<1> QED
  BY <1>2, <1>3 DEF Tables

\* A stored filter keeps the types.
LEMMA StoredTypes ==
  ASSUME NEW t, Tables(t), NEW k \in Kinds, NEW x \in Target[k], NEW u, Stored(t, k, x, u)
  PROVE  Tables(u)
<1>1. CASE u = t
  BY <1>1
<1>2. CASE Len(t[k]) < Capacity[k] /\ u = [t EXCEPT ![k] = Append(@, x)]
  <2>1. Append(t[k], x) \in Seq(Target[k]) /\ Len(Append(t[k], x)) = Len(t[k]) + 1 /\ Len(t[k]) \in Nat
    BY DEF Tables
  <2>2. Capacity[k] \in Nat
    BY ScanConstants DEF ScanConstants
  <2>3. DOMAIN u = Kinds /\ u[k] = Append(t[k], x) /\ \A j \in Kinds : j # k => u[j] = t[j]
    BY <1>2 DEF Tables
  <2>4. Len(u[k]) <= Capacity[k]
    BY <1>2, <2>1, <2>2, <2>3
  <2> QED
    BY <2>1, <2>3, <2>4 DEF Tables
<1> QED
  BY <1>1, <1>2 DEF Stored

\* The invariant holds at the start.
LEMMA InitHolds == Init => IInv
<1>1. SUFFICES ASSUME Init
               PROVE  IInv
  OBVIOUS
<1>2. Tables(table) /\ Memories(memory)
  BY <1>1, RemovedTypes DEF Init, Removed, Memories
<1>3. bonds \in Seq(Devices) /\ Len(bonds) <= MaxBonds /\ BondsDiffer
  <2>1. bonds = <<>> \/ \E c \in Devices : bonds = <<c>>
    BY <1>1, ScanConstants DEF Init, ScanConstants
  <2>2. MaxBonds \in Nat /\ MaxBonds >= 1
    BY ScanConstants DEF ScanConstants
  <2>3. CASE bonds = <<>>
    BY <2>2, <2>3 DEF BondsDiffer
  <2>4. ASSUME NEW c \in Devices, bonds = <<c>>
        PROVE  bonds \in Seq(Devices) /\ Len(bonds) <= MaxBonds /\ BondsDiffer
    <3>1. Len(bonds) = 1 /\ bonds \in Seq(Devices)
      BY <2>4
    <3>2. \A i, j \in 1..1 : i = j
      OBVIOUS
    <3> QED
      BY <2>2, <3>1, <3>2 DEF BondsDiffer
  <2> QED
    BY <2>1, <2>3, <2>4
<1>4. TypeOK
  BY <1>1, <1>2, <1>3 DEF Init, TypeOK, Tables, Memories, NoLink
<1>5. TurnInv /\ SetUpInv
  BY <1>1 DEF Init, TurnInv, SetUpInv
<1> QED
  BY <1>3, <1>4, <1>5 DEF IInv

\* What a client sets a filter to.
LEMMA SettingsAre ==
  ASSUME NEW k \in Kinds
  PROVE  Settings(k) \subseteq Target[k]
<1>1. CASE k = "name"
  <2>1. Settings(k) = [text : Texts, min_len : {0}]
    BY <1>1 DEF Settings
  <2>2. Target[k] = Names
    BY <1>1 DEF Target
  <2>3. [text : Texts, min_len : {0}] \subseteq Names
    BY DEF Names
  <2> QED
    BY <2>1, <2>2, <2>3
<1>2. CASE k = "short_name"
  <2>1. Settings(k) = [text : Texts, min_len : {1, 2}]
    BY <1>2 DEF Settings
  <2>2. Target[k] = Names
    BY <1>2 DEF Target
  <2>3. [text : Texts, min_len : {1, 2}] \subseteq Names
    BY DEF Names
  <2> QED
    BY <2>1, <2>2, <2>3
<1>3. CASE k \notin {"name", "short_name"}
  <2>1. Settings(k) = Target[k]
    BY <1>3 DEF Settings
  <2> QED
    BY <2>1
<1> QED
  BY <1>1, <1>2, <1>3

\* The client sets no filter of this program's search.
LEMMA AnyKeeps ==
  ASSUME IInv, AnyClient
  PROVE  IInv'
<1>1. /\ client = "any" /\ TypeOK /\ BondsDiffer /\ TurnInv
      /\ client' = client /\ scanning' = scanning /\ due' = due /\ bonds' = bonds /\ link' = link
      /\ sought' = sought /\ failed' = failed
  BY DEF IInv, AnyClient, search
<1>2. Tables(table) /\ Memories(memory)
  BY <1>1 DEF TypeOK, Tables, Memories
<1>3. Tables(table') /\ Memories(memory') /\ enabled' \subseteq Kinds /\ all_mode' \in BOOLEAN
  <2>1. CASE AnyAdd
    <3>1. PICK k \in Kinds : \E x \in Settings(k) : bt_scan_filter_add(k, x)
      BY <2>1 DEF AnyAdd
    <3>2. PICK x \in Target[k] : bt_scan_filter_add(k, x)
      BY <3>1, SettingsAre
    <3>3. Stored(table, k, x, table')
      BY <3>2, AddedStores DEF bt_scan_filter_add
    <3>4. Memories(memory')
      BY <1>2, <3>2 DEF bt_scan_filter_add, Memories
    <3>5. enabled' = enabled /\ all_mode' = all_mode
      BY <3>2 DEF bt_scan_filter_add
    <3> QED
      BY <1>1, <1>2, <3>2, <3>3, <3>4, <3>5, StoredTypes DEF TypeOK
  <2>2. CASE AnyEnable
    <3>1. PICK mode \in SUBSET Kinds, match_all \in BOOLEAN :
            bt_scan_filter_enable(mode, match_all) /\ UNCHANGED <<table, memory>>
      BY <2>2 DEF AnyEnable
    <3>2. enabled' \subseteq Kinds /\ all_mode' \in BOOLEAN
      BY <1>1, <3>1 DEF bt_scan_filter_enable, TypeOK
    <3> QED
      BY <1>2, <3>1, <3>2
  <2>3. CASE bt_scan_filter_remove_all
    BY <1>1, <1>2, <2>3, RemovedTypes DEF bt_scan_filter_remove_all, TypeOK
  <2>4. CASE bt_scan_filter_disable
    BY <1>1, <1>2, <2>4 DEF bt_scan_filter_disable, TypeOK
  <2> QED
    BY <2>1, <2>2, <2>3, <2>4 DEF AnyClient
<1>4. TypeOK'
  BY <1>1, <1>3 DEF TypeOK, Tables, Memories
<1>5. BondsDiffer' /\ TurnInv' /\ SetUpInv'
  BY <1>1 DEF BondsDiffer, TurnInv, SetUpInv
<1> QED
  BY <1>4, <1>5 DEF IInv

\* The steps that leave the filters and their search alone.
LEMMA SearchKeeps ==
  ASSUME IInv, table' = table, memory' = memory, enabled' = enabled, all_mode' = all_mode,
         client' = client, sought' = sought,
         due' \in BOOLEAN, scanning' \in BOOLEAN, failed' \in BOOLEAN, scanning' => scanning,
         bonds' \in Seq(Devices), Len(bonds') <= MaxBonds, BondsDiffer',
         link' \in [peer : Devices \cup {NoDevice}, st : {"none", "creating", "up"}],
         TurnInv'
  PROVE  IInv'
<1>1. TypeOK /\ SetUpInv
  BY DEF IInv
<1>2. TypeOK'
  BY <1>1 DEF TypeOK
<1>3. SetUpInv'
  BY <1>1 DEF SetUpInv
<1> QED
  BY <1>2, <1>3 DEF IInv

\* A report that matches ends the search, or the controller fails.
LEMMA ReportKeeps ==
  ASSUME IInv, NEW d \in Devices, Report(d)
  PROVE  IInv'
<1>1. /\ TypeOK /\ BondsDiffer /\ TurnInv /\ scanning /\ link = NoLink
      /\ client' = client /\ table' = table /\ memory' = memory /\ enabled' = enabled
      /\ all_mode' = all_mode /\ due' = due /\ bonds' = bonds /\ sought' = sought
  BY DEF IInv, Report, filters
<1>2. \/ scanning' = FALSE /\ link' = [peer |-> d, st |-> "creating"] /\ failed' = failed
      \/ scanning' \in BOOLEAN /\ failed' = TRUE /\ link' = link
  BY DEF Report, ble_connect
<1>3. due = FALSE
  BY <1>1 DEF TurnInv, TypeOK
<1>4. /\ link' \in [peer : Devices \cup {NoDevice}, st : {"none", "creating", "up"}]
      /\ scanning' \in BOOLEAN /\ failed' \in BOOLEAN
  <2>1. [peer |-> d, st |-> "creating"] \in [peer : Devices \cup {NoDevice}, st : {"none", "creating", "up"}]
    OBVIOUS
  <2> QED
    BY <1>1, <1>2, <2>1 DEF TypeOK
<1>5. link' # NoLink \/ failed'
  BY <1>2 DEF NoLink
<1>6. TurnInv'
  BY <1>1, <1>2, <1>3, <1>5 DEF TurnInv, NoLink
<1>7. BondsDiffer'
  BY <1>1 DEF BondsDiffer
<1> QED
  BY <1>1, <1>3, <1>4, <1>6, <1>7, SearchKeeps DEF TypeOK

\* A link comes up with the device it was created for.
LEMMA ConnectedKeeps ==
  ASSUME IInv, Connected
  PROVE  IInv'
<1>1. /\ TypeOK /\ BondsDiffer /\ TurnInv /\ link.st = "creating"
      /\ link' = [link EXCEPT !.st = "up"]
      /\ client' = client /\ table' = table /\ memory' = memory /\ enabled' = enabled
      /\ all_mode' = all_mode /\ scanning' = scanning /\ due' = due /\ bonds' = bonds
      /\ sought' = sought /\ failed' = failed
  BY DEF IInv, Connected, filters
<1>2. link # NoLink
  BY <1>1 DEF NoLink
<1>3. /\ link' \in [peer : Devices \cup {NoDevice}, st : {"none", "creating", "up"}]
      /\ link'.peer = link.peer /\ link'.st = "up"
  BY <1>1 DEF TypeOK
<1>4. TurnInv'
  <2>1. link' # NoLink
    BY <1>3 DEF NoLink
  <2> QED
    BY <1>1, <1>2, <1>3, <2>1 DEF TurnInv
<1>5. BondsDiffer'
  BY <1>1 DEF BondsDiffer
<1> QED
  BY <1>1, <1>3, <1>4, <1>5, SearchKeeps DEF TypeOK

\* A new bond is one with a device that has none.
LEMMA PairedKeeps ==
  ASSUME IInv, Paired
  PROVE  IInv'
<1>1. /\ TypeOK /\ BondsDiffer /\ TurnInv /\ link.st = "up" /\ link.peer \notin Bonded
      /\ bonds' = Append(IF Len(bonds) = MaxBonds THEN Tail(bonds) ELSE bonds, link.peer)
      /\ client' = client /\ table' = table /\ memory' = memory /\ enabled' = enabled
      /\ all_mode' = all_mode /\ scanning' = scanning /\ due' = due /\ link' = link
      /\ sought' = sought /\ failed' = failed
  BY DEF IInv, Paired, filters
<1>2. link.peer \in Devices
  BY <1>1 DEF TurnInv, NoLink
<1>3. /\ bonds \in Seq(Devices) /\ Len(bonds) <= MaxBonds /\ MaxBonds \in Nat \ {0}
      /\ \A i \in 1..Len(bonds) : bonds[i] # link.peer
  BY <1>1, ScanConstants DEF TypeOK, ScanConstants, Bonded, ToSet
<1>4. PICK rest : rest = IF Len(bonds) = MaxBonds THEN Tail(bonds) ELSE bonds
  OBVIOUS
<1>5. /\ rest \in Seq(Devices) /\ Len(rest) < MaxBonds
      /\ \A i \in 1..Len(rest) : rest[i] # link.peer
      /\ \A i, j \in 1..Len(rest) : rest[i] = rest[j] => i = j
  <2>1. CASE Len(bonds) = MaxBonds
    <3>1. rest = Tail(bonds) /\ bonds # <<>>
      BY <1>3, <1>4, <2>1
    <3>2. /\ rest \in Seq(Devices) /\ Len(rest) = Len(bonds) - 1
          /\ \A i \in 1..Len(rest) : rest[i] = bonds[i + 1]
      BY <1>3, <3>1
    <3>3. \A i \in 1..Len(rest) : i + 1 \in 1..Len(bonds)
      BY <1>3, <3>2
    <3>4. Len(rest) < MaxBonds
      BY <1>3, <2>1, <3>2
    <3>5. \A i \in 1..Len(rest) : rest[i] # link.peer
      BY <1>3, <3>2, <3>3
    <3>6. ASSUME NEW i \in 1..Len(rest), NEW j \in 1..Len(rest), rest[i] = rest[j]
          PROVE  i = j
      <4>1. i + 1 = j + 1
        BY <1>1, <3>2, <3>3, <3>6 DEF BondsDiffer
      <4> QED
        BY <4>1
    <3> QED
      BY <3>2, <3>4, <3>5, <3>6
  <2>2. CASE Len(bonds) # MaxBonds
    <3>1. rest = bonds
      BY <1>4, <2>2
    <3>2. Len(rest) < MaxBonds
      BY <1>3, <2>2, <3>1
    <3> QED
      BY <1>1, <1>3, <3>1, <3>2 DEF BondsDiffer
  <2> QED
    BY <2>1, <2>2
<1>6. bonds' = Append(rest, link.peer)
  BY <1>1, <1>4
<1>7. /\ bonds' \in Seq(Devices) /\ Len(bonds') = Len(rest) + 1 /\ Len(rest) \in Nat
      /\ bonds'[Len(rest) + 1] = link.peer /\ \A i \in 1..Len(rest) : bonds'[i] = rest[i]
  BY <1>2, <1>5, <1>6
<1>8. Len(bonds') <= MaxBonds
  BY <1>3, <1>5, <1>7
<1>9. BondsDiffer'
  <2>1. ASSUME NEW i \in 1..(Len(rest) + 1), NEW j \in 1..(Len(rest) + 1), bonds'[i] = bonds'[j]
        PROVE  i = j
    <3>1. \A k \in 1..(Len(rest) + 1) : k = Len(rest) + 1 \/ k \in 1..Len(rest)
      BY <1>7
    <3> QED
      BY <1>5, <1>7, <2>1, <3>1
  <2> QED
    BY <1>7, <2>1 DEF BondsDiffer
<1>10. TurnInv'
  BY <1>1 DEF TurnInv
<1> QED
  BY <1>1, <1>7, <1>8, <1>9, <1>10, SearchKeeps DEF TypeOK

\* The end of a link makes the search due.
LEMMA LinkEndsKeeps ==
  ASSUME IInv, LinkEnds
  PROVE  IInv'
<1>1. /\ TypeOK /\ BondsDiffer /\ TurnInv /\ link # NoLink /\ link' = NoLink /\ due' = TRUE
      /\ client' = client /\ table' = table /\ memory' = memory /\ enabled' = enabled
      /\ all_mode' = all_mode /\ scanning' = scanning /\ bonds' = bonds
      /\ sought' = sought /\ failed' = failed
  BY DEF IInv, LinkEnds, filters
<1>2. TurnInv'
  BY <1>1 DEF TurnInv
<1>3. link' \in [peer : Devices \cup {NoDevice}, st : {"none", "creating", "up"}]
  BY <1>1 DEF NoLink
<1>4. BondsDiffer'
  BY <1>1 DEF BondsDiffer
<1> QED
  BY <1>1, <1>2, <1>3, <1>4, SearchKeeps DEF TypeOK

\* Without bonds the search that is on goes on.
LEMMA UnpairKeeps ==
  ASSUME IInv, Unpair
  PROVE  IInv'
<1>1. /\ TypeOK /\ TurnInv /\ bonds' = <<>> /\ link' = link /\ due' = due
      /\ client' = client /\ table' = table /\ memory' = memory /\ enabled' = enabled
      /\ all_mode' = all_mode /\ scanning' = scanning /\ sought' = sought /\ failed' = failed
  BY DEF IInv, Unpair, filters
<1>2. TurnInv'
  BY <1>1 DEF TurnInv
<1>3. bonds' \in Seq(Devices) /\ Len(bonds') = 0
  BY <1>1
<1>4. Len(bonds') <= MaxBonds
  BY <1>3, ScanConstants DEF ScanConstants
<1>5. BondsDiffer'
  BY <1>3 DEF BondsDiffer
<1> QED
  BY <1>1, <1>2, <1>3, <1>4, <1>5, SearchKeeps DEF TypeOK

\* The invariant speaks of the variables only.
LEMMA StutterKeeps ==
  ASSUME IInv, UNCHANGED vars
  PROVE  IInv'
<1>1. /\ TypeOK /\ BondsDiffer /\ TurnInv /\ link' = link /\ due' = due /\ bonds' = bonds
      /\ client' = client /\ table' = table /\ memory' = memory /\ enabled' = enabled
      /\ all_mode' = all_mode /\ scanning' = scanning /\ sought' = sought /\ failed' = failed
  BY DEF IInv, vars, filters, search
<1>2. TurnInv' /\ BondsDiffer'
  BY <1>1 DEF TurnInv, BondsDiffer
<1> QED
  BY <1>1, <1>2, SearchKeeps DEF TypeOK

\* Without a link the filters of the bonds are those the search is for.
LEMMA FrontIsSought ==
  ASSUME bonds \in Seq(Devices), link = NoLink
  PROVE  LET F == BondsUpTo(Len(bonds))
         IN  /\ F \in Seq(Devices) /\ Len(F) <= Capacity["addr"]
             /\ Sought = {F[i] : i \in 1..Len(F)}
<1>1. PICK cap \in Nat : cap = Capacity["addr"]
  BY ScanConstants DEF ScanConstants, Kinds
<1>2. Len(bonds) \in Nat /\ \A i \in 1..Len(bonds) : bonds[i] \in Devices
  OBVIOUS
<1>3. PICK m \in Nat : m = Smaller(Len(bonds), cap) /\ m <= Len(bonds) /\ m <= cap
  BY <1>1, <1>2 DEF Smaller
<1>4. PICK F : F = BondsUpTo(Len(bonds))
  OBVIOUS
<1>5. F \in Seq(Devices) /\ Len(F) = m /\ \A i \in 1..m : F[i] = bonds[i]
  BY <1>1, <1>2, <1>3, <1>4 DEF BondsUpTo
<1>6. {j \in 1..Len(bonds) : j <= Capacity["addr"]} = 1..m
  BY <1>1, <1>2, <1>3 DEF Smaller
<1>7. Sought = {bonds[i] : i \in 1..m}
  <2>1. \A i \in 1..m : bonds[i] \in Devices
    BY <1>2, <1>3
  <2>2. \A d \in Devices : d # link.peer
    BY ScanConstants DEF ScanConstants, NoLink
  <2> QED
    BY <1>6, <2>1, <2>2 DEF Sought
<1>8. Sought = {F[i] : i \in 1..Len(F)}
  BY <1>5, <1>7
<1> QED
  BY <1>1, <1>3, <1>4, <1>5, <1>8

\* What the handler leaves when no call fails before: the address filters of the bonds,
\* or without bonds the filter of the service; the search is on, or the controller failed.
Searching ==
  /\ scanning' \in BOOLEAN /\ failed' \in BOOLEAN /\ (scanning' \/ failed')
  /\ sought' = Sought /\ Tables(table')
  /\ SetUp(table', enabled', all_mode', sought')

\* The handler of the search leaves its filters set up, or stops at a failing call.
LEMMA HandlerSearches ==
  ASSUME IInv, scan_work_handler
  PROVE  /\ link = NoLink /\ ~scanning /\ due' = FALSE
         /\ client' = client /\ bonds' = bonds /\ link' = link /\ memory' = memory
         /\ \/ Searching
            \/ /\ failed' = TRUE /\ scanning' = scanning /\ sought' = sought
               /\ table' = table /\ enabled' = enabled /\ all_mode' = all_mode
<1>1. /\ TypeOK /\ BondsDiffer /\ link = NoLink /\ ~scanning /\ due' = FALSE
      /\ client' = client /\ bonds' = bonds /\ link' = link
  BY DEF IInv, TurnInv, scan_work_handler
<1>2. CASE failed' = TRUE /\ UNCHANGED <<filters, scanning, sought>>
  BY <1>1, <1>2 DEF filters
<1> DEFINE t == FoldLeft(try_add_address_filter, Removed, bonds)
           addr == t["addr"] # <<>>
           u == scan_uuid_filter_add(t, GoPro)
<1>3. CASE /\ table' = IF addr THEN t ELSE u.table
           /\ IF addr \/ u.ok
              THEN /\ bt_scan_filter_enable(IF addr THEN {"addr"} ELSE {"uuid"}, FALSE)
                   /\ \/ scanning' = TRUE /\ UNCHANGED failed
                      \/ "hci" \in Faults /\ scanning' = FALSE /\ failed' = TRUE
              ELSE scanning' = FALSE /\ UNCHANGED <<enabled, all_mode, failed>>
           /\ sought' = Sought
           /\ UNCHANGED memory
  <2>1. t = FrontTable(Len(bonds))
    BY <1>1, BondsAdded DEF TypeOK
  <2> HIDE DEF t
  <2>2. PICK F : /\ F = BondsUpTo(Len(bonds)) /\ F \in Seq(Devices) /\ Len(F) <= Capacity["addr"]
                 /\ Sought = {F[i] : i \in 1..Len(F)}
    BY <1>1, FrontIsSought DEF TypeOK
  <2>3. /\ DOMAIN t = Kinds /\ t["addr"] = F
        /\ \A k \in Kinds : k # "addr" => t[k] = <<>>
    BY <2>1, <2>2 DEF FrontTable, Removed, Kinds
  <2>4. Tables(t)
    <3>1. Target["addr"] = Devices
      BY DEF Target
    <3>2. \A k \in Kinds : k # "addr" => t[k] = Removed[k]
      BY <2>3 DEF Removed
    <3> QED
      BY <2>2, <2>3, <3>1, <3>2, RemovedTypes DEF Tables
  <2>5. CASE addr
    <3>1. F # <<>> /\ Len(F) # 0
      BY <2>2, <2>3, <2>5
    <3>2. Sought # {}
      <4>1. 1 \in 1..Len(F)
        BY <2>2, <3>1
      <4> QED
        BY <2>2, <4>1
    <3>3. table' = t /\ enabled' = {"addr"} /\ all_mode' = FALSE /\ sought' = Sought
      BY <1>3, <2>5 DEF bt_scan_filter_enable
    <3>4. scanning' \in BOOLEAN /\ failed' \in BOOLEAN /\ (scanning' \/ failed')
      BY <1>1, <1>3, <2>5 DEF TypeOK
    <3>5. SetUp(table', enabled', all_mode', sought')
      BY <2>2, <2>3, <3>2, <3>3 DEF SetUp
    <3> QED
      BY <1>1, <1>3, <2>4, <3>3, <3>4, <3>5 DEF Searching
  <2>6. CASE ~ addr
    <3>1. F = <<>> /\ Sought = {}
      BY <2>2, <2>3, <2>6
    <3>2. /\ t["uuid"] = <<>> /\ Capacity["uuid"] >= 1 /\ Capacity["uuid"] \in Nat
          /\ "uuid" \in Kinds /\ GoPro \in Target["uuid"]
      BY <2>3, ScanConstants DEF ScanConstants, Kinds, Target
    <3>3. u.ok /\ u.table = [t EXCEPT !["uuid"] = Append(@, GoPro)]
      <4>1. Len(t["uuid"]) = 0 /\ Len(t["uuid"]) < Capacity["uuid"]
        BY <3>2
      <4>2. ~ \E i \in 1..Len(t["uuid"]) : t["uuid"][i] = GoPro
        BY <4>1
      <4> QED
        BY <4>1, <4>2 DEF scan_uuid_filter_add, Store
    <3>4. /\ table' = u.table /\ enabled' = {"uuid"} /\ all_mode' = FALSE /\ sought' = Sought
          /\ \/ scanning' = TRUE /\ failed' = failed
             \/ scanning' = FALSE /\ failed' = TRUE
      BY <1>3, <2>6, <3>3 DEF bt_scan_filter_enable
    <3>5. scanning' \in BOOLEAN /\ failed' \in BOOLEAN /\ (scanning' \/ failed')
      BY <1>1, <3>4 DEF TypeOK
    <3>6. table'["uuid"] = <<GoPro>>
      BY <2>3, <3>2, <3>3, <3>4
    <3>7. Tables(table')
      <4>1. Stored(t, "uuid", GoPro, table')
        BY <3>2, <3>3, <3>4 DEF Stored
      <4> QED
        BY <2>4, <3>2, <4>1, StoredTypes
    <3>8. SetUp(table', enabled', all_mode', sought')
      BY <3>1, <3>4, <3>6 DEF SetUp
    <3> QED
      BY <1>1, <1>3, <3>4, <3>5, <3>7, <3>8 DEF Searching
  <2> QED
    BY <2>5, <2>6
<1> QED
  BY <1>2, <1>3 DEF scan_work_handler

\* scan_work_handler keeps the invariant.
LEMMA HandlerKeeps ==
  ASSUME IInv, scan_work_handler
  PROVE  IInv'
<1>1. TypeOK /\ BondsDiffer /\ TurnInv
  BY DEF IInv
<1>2. CASE Searching
  <2>1. /\ link = NoLink /\ due' = FALSE
        /\ client' = client /\ bonds' = bonds /\ link' = link /\ memory' = memory
        /\ scanning' \in BOOLEAN /\ failed' \in BOOLEAN /\ (scanning' \/ failed')
        /\ sought' = Sought /\ Tables(table') /\ SetUp(table', enabled', all_mode', sought')
    BY <1>2, HandlerSearches DEF Searching
  <2>2. sought' \subseteq Devices
    BY <1>1, <2>1 DEF Sought, TypeOK
  <2>3. enabled' \subseteq Kinds /\ all_mode' \in BOOLEAN
    BY <2>1 DEF SetUp, Kinds
  <2>4. TypeOK'
    BY <1>1, <2>1, <2>2, <2>3 DEF TypeOK, Tables
  <2>5. TurnInv'
    BY <1>1, <2>1 DEF TurnInv
  <2>6. SetUpInv'
    BY <2>1 DEF SetUpInv
  <2>7. BondsDiffer'
    BY <1>1, <2>1 DEF BondsDiffer
  <2> QED
    BY <2>4, <2>5, <2>6, <2>7 DEF IInv
<1>3. CASE /\ failed' = TRUE /\ scanning' = scanning /\ sought' = sought
           /\ table' = table /\ enabled' = enabled /\ all_mode' = all_mode
  <2>1. /\ link = NoLink /\ ~scanning /\ due' = FALSE
        /\ client' = client /\ bonds' = bonds /\ link' = link /\ memory' = memory
    BY HandlerSearches
  <2>2. TurnInv' /\ BondsDiffer'
    BY <1>1, <1>3, <2>1 DEF TurnInv, BondsDiffer
  <2> QED
    BY <1>1, <1>3, <2>1, <2>2, SearchKeeps DEF TypeOK
<1> QED
  BY <1>2, <1>3, HandlerSearches

\* The invariant of the filters, for every client, number of filters and bonds, set of
\* devices and set of failures.
THEOREM FilterInvariant == Spec => []IInv
<1>1. IInv /\ [Next]_vars => IInv'
  BY AnyKeeps, HandlerKeeps, ReportKeeps, ConnectedKeeps, PairedKeeps, LinkEndsKeeps, UnpairKeeps,
     StutterKeeps DEF Next
<1> QED
  BY InitHolds, <1>1, PTL DEF Spec

\* Every variable keeps its type: no kind of filter outgrows its array
\* (CONFIG_BT_SCAN_<kind>_CNT), and no more devices are bonded than CONFIG_BT_MAX_PAIRED.
THEOREM TypeCorrect == Spec => []TypeOK
<1>1. IInv => TypeOK
  BY DEF IInv
<1> QED
  BY <1>1, FilterInvariant, PTL

-----------------------------------------------------------------------------
(* What the search finds *)

\* The elements of a report that match.
Found(r) == {i \in 1..Len(r.ad) : adv_data_found(r.ad[i])}

\* Without match_all one match is enough.
LEMMA OneMatch ==
  ASSUME NEW r, Len(r.ad) \in Nat, ~all_mode
  PROVE  Matched(r) <=> Found(r) # {} \/ AddrMatches(r)
<1>1. IsFiniteSet(Found(r))
  <2>1. IsFiniteSet(1..Len(r.ad))
    BY FS_Interval
  <2> QED
    BY <2>1, FS_Subset DEF Found
<1>2. Cardinality(Found(r)) \in Nat /\ (Cardinality(Found(r)) = 0 <=> Found(r) = {})
  BY <1>1, FS_CardinalityType, FS_EmptySet
<1>3. filter_match_cnt(r) = Cardinality(Found(r)) + (IF AddrMatches(r) THEN 1 ELSE 0)
  BY DEF filter_match_cnt, Found
<1>4. Matched(r) <=> filter_match_cnt(r) > 0
  BY DEF Matched
<1>5. CASE AddrMatches(r)
  BY <1>2, <1>3, <1>4, <1>5
<1>6. CASE ~ AddrMatches(r)
  BY <1>2, <1>3, <1>4, <1>6
<1> QED
  BY <1>5, <1>6

\* Of an element only the UUIDs count while only that kind of filter is enabled.
LEMMA UuidFound ==
  ASSUME NEW e, e.kind = "uuid"
  PROVE  adv_data_found(e) <=> is_filter_enabled("uuid") /\ uuid_check(e.data)
<1>1. adv_data_found(e) <=> is_filter_enabled(e.kind) /\ uuid_check(e.data)
  BY DEF adv_data_found
<1> QED
  BY <1>1

\* What the filters of the search find.
LEMMA SearchFinds ==
  ASSUME SetUp(table, enabled, all_mode, sought), NEW d \in Devices
  PROVE  Matched(Advert(d)) <=> d \in IF sought = {} THEN Cameras ELSE sought
<1>1. PICK e : e = [kind |-> "uuid", data |-> IF d \in Cameras THEN {GoPro} ELSE Uuids \ {GoPro}]
  OBVIOUS
<1>2. PICK r : r = Advert(d)
  OBVIOUS
<1>3. r.addr = d /\ r.ad = <<e>> /\ Len(r.ad) = 1 /\ r.ad[1] = e
  BY <1>1, <1>2 DEF Advert
<1>4. Found(r) # {} <=> is_filter_enabled("uuid") /\ uuid_check(e.data)
  <2>1. \A i \in 1..1 : i = 1
    OBVIOUS
  <2>2. 1 \in 1..1
    OBVIOUS
  <2>3. Found(r) # {} <=> adv_data_found(e)
    BY <1>3, <2>1, <2>2 DEF Found
  <2> QED
    BY <1>1, <2>3, UuidFound
<1>5. ~all_mode
  BY DEF SetUp
<1>6. Matched(r) <=> Found(r) # {} \/ AddrMatches(r)
  <2>1. Len(r.ad) \in Nat
    BY <1>3
  <2> QED
    BY <1>5, <2>1, OneMatch
<1>7. Capacity["addr"] > 0 /\ Capacity["uuid"] > 0
  BY ScanConstants DEF ScanConstants, Kinds
<1>8. CASE sought # {} /\ enabled = {"addr"} /\ sought = {table["addr"][i] : i \in 1..Len(table["addr"])}
  <2>1. ~ is_filter_enabled("uuid") /\ is_filter_enabled("addr")
    BY <1>7, <1>8 DEF is_filter_enabled
  <2>2. AddrMatches(r) <=> d \in sought
    BY <1>3, <1>8, <2>1 DEF AddrMatches, check_addr
  <2> QED
    BY <1>2, <1>4, <1>6, <1>8, <2>1, <2>2
<1>9. CASE sought = {} /\ enabled = {"uuid"} /\ table["uuid"] = <<GoPro>>
  <2>1. is_filter_enabled("uuid") /\ ~ is_filter_enabled("addr")
    BY <1>7, <1>9 DEF is_filter_enabled
  <2>2. Len(table["uuid"]) = 1 /\ table["uuid"][1] = GoPro /\ 1 \in 1..1 /\ \A i \in 1..1 : i = 1
    BY <1>9
  <2>3. uuid_check(e.data) <=> GoPro \in e.data
    BY <1>5, <2>2 DEF uuid_check
  <2>4. GoPro \in e.data <=> d \in Cameras
    BY <1>1
  <2> QED
    BY <1>2, <1>4, <1>6, <1>9, <2>1, <2>3, <2>4 DEF AddrMatches
<1> QED
  BY <1>8, <1>9 DEF SetUp

\* The search goes on until a camera is found or the controller fails, and finds the
\* cameras bonded when it was set up, or without bonds every camera, but nothing else:
\* adding the bonds and the service (try_add_address_filter, scan_work_handler) is never
\* refused in a way that stops it.
THEOREM SearchIsRight == Spec => []SearchTargets
<1>1. IInv => SearchTargets
  <2>1. SUFFICES ASSUME IInv, client = "search"
                 PROVE  /\ due \/ scanning \/ link # NoLink \/ failed
                        /\ scanning => {d \in Devices : Matched(Advert(d))} =
                                         IF sought = {} THEN Cameras ELSE sought
    BY DEF SearchTargets
  <2>2. due \/ scanning \/ link # NoLink \/ failed
    BY <2>1 DEF IInv, TurnInv
  <2>3. ASSUME scanning
        PROVE  {d \in Devices : Matched(Advert(d))} = IF sought = {} THEN Cameras ELSE sought
    <3>1. SetUp(table, enabled, all_mode, sought)
      BY <2>1, <2>3 DEF IInv, SetUpInv
    <3>2. sought \subseteq Devices /\ Cameras \subseteq Devices
      BY <2>1, ScanConstants DEF IInv, TypeOK, ScanConstants
    <3>3. \A d \in Devices : Matched(Advert(d)) <=> d \in IF sought = {} THEN Cameras ELSE sought
      BY <3>1, SearchFinds
    <3> QED
      BY <3>2, <3>3
  <2> QED
    BY <2>2, <2>3
<1> QED
  BY <1>1, FilterInvariant, PTL

-----------------------------------------------------------------------------
(* The verdict on a report *)

\* What the check of an element compares it with.
Check(e) ==
  \/ e.kind = "name" /\ name_check(e.data)
  \/ e.kind = "short_name" /\ short_name_check(e.data)
  \/ e.kind = "uuid" /\ uuid_check(e.data)
  \/ e.kind = "appearance" /\ appearance_check(e.data)
  \/ e.kind = "manufacturer" /\ manufacturer_data_check(e.data)

\* An element is found if its kind is enabled and its check succeeds.
LEMMA FoundIsChecked ==
  ASSUME NEW e, e.kind \in Kinds \ {"addr"}
  PROVE  adv_data_found(e) <=> is_filter_enabled(e.kind) /\ Check(e)
<1>1. ASSUME e.kind = "name"
      PROVE  adv_data_found(e) <=> is_filter_enabled(e.kind) /\ name_check(e.data)
  BY <1>1 DEF adv_data_found
<1>2. ASSUME e.kind = "short_name"
      PROVE  adv_data_found(e) <=> is_filter_enabled(e.kind) /\ short_name_check(e.data)
  BY <1>2 DEF adv_data_found
<1>3. ASSUME e.kind = "uuid"
      PROVE  adv_data_found(e) <=> is_filter_enabled(e.kind) /\ uuid_check(e.data)
  BY <1>3 DEF adv_data_found
<1>4. ASSUME e.kind = "appearance"
      PROVE  adv_data_found(e) <=> is_filter_enabled(e.kind) /\ appearance_check(e.data)
  BY <1>4 DEF adv_data_found
<1>5. ASSUME e.kind = "manufacturer"
      PROVE  adv_data_found(e) <=> is_filter_enabled(e.kind) /\ manufacturer_data_check(e.data)
  BY <1>5 DEF adv_data_found
<1> QED
  BY <1>1, <1>2, <1>3, <1>4, <1>5 DEF Check, Kinds, NameKinds

\* The reports the verdict is about.
Comparable(r) == r \in Reports /\ ~Diverges(r)

\* The filters of a kind, as a set and by number.
LEMMA Entries ==
  ASSUME TypeOK, NEW k \in Kinds
  PROVE  ToSet(table[k]) = {table[k][i] : i \in 1..Len(table[k])}
<1>1. DOMAIN table[k] = 1..Len(table[k])
  BY DEF TypeOK
<1> QED
  BY <1>1 DEF ToSet

\* The documented condition on an element, kind by kind.
LEMMA FitsIs ==
  ASSUME NEW e
  PROVE  /\ e.kind = "name" =>
              (Fits(e) <=> \E x \in ToSet(table["name"]) : IsPrefix(e.data, x.text))
         /\ e.kind = "short_name" =>
              (Fits(e) <=> \E x \in ToSet(table["short_name"]) :
                             IsPrefix(e.data, x.text) /\ Len(e.data) >= x.min_len)
         /\ e.kind = "uuid" =>
              (Fits(e) <=> /\ ToSet(table["uuid"]) # {}
                           /\ IF all_mode THEN ToSet(table["uuid"]) \subseteq e.data
                              ELSE ToSet(table["uuid"]) \cap e.data # {})
         /\ e.kind = "appearance" => (Fits(e) <=> e.data \in ToSet(table["appearance"]))
         /\ e.kind = "manufacturer" =>
              (Fits(e) <=> \E x \in ToSet(table["manufacturer"]) : IsPrefix(x, e.data))
<1>1. ASSUME e.kind = "name"
      PROVE  Fits(e) <=> \E x \in ToSet(table["name"]) : IsPrefix(e.data, x.text)
  BY <1>1 DEF Fits
<1>2. ASSUME e.kind = "short_name"
      PROVE  Fits(e) <=> \E x \in ToSet(table["short_name"]) :
                           IsPrefix(e.data, x.text) /\ Len(e.data) >= x.min_len
  BY <1>2 DEF Fits
<1>3. ASSUME e.kind = "uuid"
      PROVE  Fits(e) <=> /\ ToSet(table["uuid"]) # {}
                         /\ IF all_mode THEN ToSet(table["uuid"]) \subseteq e.data
                            ELSE ToSet(table["uuid"]) \cap e.data # {}
  BY <1>3 DEF Fits
<1>4. ASSUME e.kind = "appearance"
      PROVE  Fits(e) <=> e.data \in ToSet(table["appearance"])
  BY <1>4 DEF Fits
<1>5. ASSUME e.kind = "manufacturer"
      PROVE  Fits(e) <=> \E x \in ToSet(table["manufacturer"]) : IsPrefix(x, e.data)
  BY <1>5 DEF Fits
<1> QED
  BY <1>1, <1>2, <1>3, <1>4, <1>5

\* An element of an enabled kind passes its check if it fits a filter as documented,
\* except for the list of no UUIDs.
LEMMA CheckIsFits ==
  ASSUME TypeOK, NoTails, NEW e, e.kind \in Active \ {"addr"}, ~(all_mode /\ NothingSought)
  PROVE  Check(e) <=> Fits(e)
<1>1. e.kind \in Kinds \ {"addr"}
  BY DEF TypeOK, Active
<1>2. ToSet(table[e.kind]) = {table[e.kind][i] : i \in 1..Len(table[e.kind])}
  BY <1>1, Entries
<1>3. CASE e.kind = "name"
  <2>1. \A i \in 1..Len(table["name"]) : memory["name"][i] = table["name"][i].text
    BY DEF NoTails, NameKinds
  <2>2. Check(e) <=> \E x \in ToSet(table["name"]) : IsPrefix(e.data, x.text)
    BY <1>2, <1>3, <2>1 DEF Check, name_check
  <2> QED
    BY <1>3, <2>2, FitsIs
<1>4. CASE e.kind = "short_name"
  <2>1. \A i \in 1..Len(table["short_name"]) : memory["short_name"][i] = table["short_name"][i].text
    BY DEF NoTails, NameKinds
  <2>2. Check(e) <=> \E x \in ToSet(table["short_name"]) :
                       IsPrefix(e.data, x.text) /\ Len(e.data) >= x.min_len
    BY <1>2, <1>4, <2>1 DEF Check, short_name_check
  <2> QED
    BY <1>4, <2>2, FitsIs
<1>5. CASE e.kind = "uuid" /\ ~all_mode
  <2>1. Check(e) <=> ToSet(table["uuid"]) \cap e.data # {}
    BY <1>2, <1>5 DEF Check, uuid_check
  <2> QED
    BY <1>5, <2>1, FitsIs
<1>6. CASE e.kind = "uuid" /\ all_mode
  <2>1. Check(e) <=> ToSet(table["uuid"]) \subseteq e.data
    BY <1>2, <1>6 DEF Check, uuid_check
  <2>2. ToSet(table["uuid"]) # {}
    <3>1. table["uuid"] # <<>>
      BY <1>6 DEF NothingSought
    <3>2. table["uuid"] \in Seq(Target["uuid"])
      BY <1>1, <1>6 DEF TypeOK
    <3>3. 1 \in 1..Len(table["uuid"])
      BY <3>1, <3>2
    <3> QED
      BY <1>2, <1>6, <3>3
  <2> QED
    BY <1>6, <2>1, <2>2, FitsIs
<1>7. CASE e.kind = "appearance"
  <2>1. Check(e) <=> e.data \in ToSet(table["appearance"])
    BY <1>2, <1>7 DEF Check, appearance_check
  <2> QED
    BY <1>7, <2>1, FitsIs
<1>8. CASE e.kind = "manufacturer"
  <2>1. Check(e) <=> \E x \in ToSet(table["manufacturer"]) : IsPrefix(x, e.data)
    BY <1>2, <1>8 DEF Check, manufacturer_data_check
  <2> QED
    BY <1>8, <2>1, FitsIs
<1> QED
  BY <1>1, <1>3, <1>4, <1>5, <1>6, <1>7, <1>8 DEF Kinds, NameKinds

\* A kind is matched by the address or by an element.
Hit(r, k) == IF k = "addr" THEN check_addr(r.addr)
             ELSE \E i \in 1..Len(r.ad) : r.ad[i].kind = k /\ Check(r.ad[i])

\* A kind is met as documented if it is matched.
LEMMA HitIsMet ==
  ASSUME TypeOK, NoTails, NEW r, Comparable(r), NEW k \in Active
  PROVE  Meets(r, k) <=> Hit(r, k)
<1>1. CASE k = "addr"
  <2>1. ToSet(table["addr"]) = {table["addr"][i] : i \in 1..Len(table["addr"])}
    BY Entries DEF Kinds
  <2> QED
    BY <1>1, <2>1 DEF Meets, Hit, check_addr
<1>2. CASE k # "addr"
  <2>1. ~(all_mode /\ NothingSought)
    BY DEF Comparable, Diverges
  <2>2. OneFits(r, k) <=> Hit(r, k)
    BY <1>2, <2>1, CheckIsFits DEF OneFits, Hit
  <2>3. k = "uuid" /\ all_mode /\ AllUuids(r) => OneFits(r, k)
    BY DEF Comparable, Diverges, Spread
  <2> QED
    BY <1>2, <2>2, <2>3 DEF Meets
<1> QED
  BY <1>1, <1>2

\* The kinds that are matched, of those that are enabled.
Hits(r) == {k \in Active : Hit(r, k)}

\* The kinds that count are those built in and enabled; there are finitely many.
LEMMA ActiveIs ==
  ASSUME TypeOK
  PROVE  /\ \A k : k \in Active <=> k \in Kinds /\ is_filter_enabled(k)
         /\ Active \subseteq Kinds /\ IsFiniteSet(Active)
<1>1. \A k : k \in Active <=> k \in Kinds /\ is_filter_enabled(k)
  BY DEF Active, is_filter_enabled, TypeOK
<1>2. IsFiniteSet(Kinds)
  <2>1. Kinds = (((({"name"} \cup {"short_name"}) \cup {"addr"}) \cup {"uuid"}) \cup {"appearance"}) \cup {"manufacturer"}
    BY DEF Kinds, NameKinds
  <2>2. IsFiniteSet({"name"})
    BY FS_Singleton
  <2>3. \A S, x : IsFiniteSet(S) => IsFiniteSet(S \cup {x})
    BY FS_AddElement
  <2> QED
    BY <2>1, <2>2, <2>3
<1>3. Active \in SUBSET Kinds
  BY <1>1
<1>4. IsFiniteSet(Active)
  BY <1>2, <1>3, FS_Subset
<1> QED
  BY <1>1, <1>3, <1>4

\* The parser of advertising data reports elements of the known kinds.
LEMMA ReportsAre ==
  ASSUME NEW r \in Reports
  PROVE  Len(r.ad) \in Nat /\ \A i \in 1..Len(r.ad) : r.ad[i].kind \in Kinds \ {"addr"}
<1>1. \A q \in Reports : /\ Len(q.ad) \in Nat
                        /\ \A i \in 1..Len(q.ad) : q.ad[i].kind \in Kinds \ {"addr"}
  BY ScanConstants DEF ScanConstants
<1> QED
  BY <1>1

\* The elements found are those of the kinds matched.
LEMMA FoundAreHits ==
  ASSUME TypeOK, NEW r \in Reports
  PROVE  /\ \A i \in Found(r) : r.ad[i].kind \in Hits(r) \ {"addr"}
         /\ \A k \in Hits(r) \ {"addr"} : \E i \in Found(r) : r.ad[i].kind = k
<1>1. \A i \in 1..Len(r.ad) : r.ad[i].kind \in Kinds \ {"addr"}
  BY ReportsAre
<1>2. \A i \in 1..Len(r.ad) : i \in Found(r) <=> is_filter_enabled(r.ad[i].kind) /\ Check(r.ad[i])
  BY <1>1, FoundIsChecked DEF Found
<1>3. \A k : k \in Active <=> k \in Kinds /\ is_filter_enabled(k)
  BY ActiveIs
<1>4. ASSUME NEW i \in Found(r)
      PROVE  r.ad[i].kind \in Hits(r) \ {"addr"}
  <2>1. i \in 1..Len(r.ad)
    BY DEF Found
  <2>2. is_filter_enabled(r.ad[i].kind) /\ Check(r.ad[i]) /\ r.ad[i].kind \in Kinds \ {"addr"}
    BY <1>1, <1>2, <2>1
  <2>3. r.ad[i].kind \in Active /\ Hit(r, r.ad[i].kind)
    BY <1>3, <2>1, <2>2 DEF Hit
  <2> QED
    BY <2>2, <2>3 DEF Hits
<1>5. ASSUME NEW k \in Hits(r) \ {"addr"}
      PROVE  \E i \in Found(r) : r.ad[i].kind = k
  <2>1. PICK i \in 1..Len(r.ad) : r.ad[i].kind = k /\ Check(r.ad[i])
    BY DEF Hits, Hit
  <2>2. is_filter_enabled(k)
    BY <1>3 DEF Hits
  <2> QED
    BY <1>2, <2>1, <2>2
<1> QED
  BY <1>4, <1>5

\* Unless one is counted twice, as many matches are counted as kinds are matched.
LEMMA MatchesAreHits ==
  ASSUME TypeOK, NoTails, NEW r \in Reports, ~NothingSought, ~CountedTwice(r)
  PROVE  filter_match_cnt(r) = Cardinality(Hits(r))
<1>1. Found(r) \subseteq 1..Len(r.ad) /\ Len(r.ad) \in Nat
  BY ReportsAre DEF Found
<1>2. IsFiniteSet(Found(r))
  <2>1. IsFiniteSet(1..Len(r.ad))
    BY <1>1, FS_Interval
  <2> QED
    BY <1>1, <2>1, FS_Subset
<1>3. ExistsBijection(Found(r), Hits(r) \ {"addr"})
  <2>1. PICK f : f = [i \in Found(r) |-> r.ad[i].kind]
    OBVIOUS
  <2>2. f \in [Found(r) -> Hits(r) \ {"addr"}]
    BY <2>1, FoundAreHits
  <2>3. \A i, j \in Found(r) : f[i] = f[j] => i = j
    <3>1. ASSUME NEW i \in Found(r)
          PROVE  i \in 1..Len(r.ad) /\ r.ad[i].kind \in Active \ {"addr"} /\ Fits(r.ad[i])
      <4>1. i \in 1..Len(r.ad) /\ r.ad[i].kind \in Kinds \ {"addr"} /\ adv_data_found(r.ad[i])
        BY ReportsAre DEF Found
      <4>2. r.ad[i].kind \in Active /\ Check(r.ad[i])
        BY <4>1, FoundIsChecked, ActiveIs
      <4> QED
        BY <4>1, <4>2, CheckIsFits
    <3>2. \A i, j \in Found(r) : r.ad[i].kind = r.ad[j].kind => i = j
      BY <3>1 DEF CountedTwice
    <3> QED
      BY <2>1, <3>2
  <2>4. \A k \in Hits(r) \ {"addr"} : \E i \in Found(r) : f[i] = k
    BY <2>1, FoundAreHits
  <2>5. f \in Bijection(Found(r), Hits(r) \ {"addr"})
    BY <2>2, <2>3, <2>4 DEF Bijection, Injection, Surjection, IsInjective
  <2> QED
    BY <2>5 DEF ExistsBijection
<1>4. IsFiniteSet(Hits(r) \ {"addr"}) /\ Cardinality(Hits(r) \ {"addr"}) = Cardinality(Found(r))
  BY <1>2, <1>3, FS_Bijection
<1>5. filter_match_cnt(r) = Cardinality(Found(r)) + (IF AddrMatches(r) THEN 1 ELSE 0)
  BY DEF filter_match_cnt, Found
<1>6. "addr" \in Hits(r) <=> AddrMatches(r)
  <2>1. "addr" \in Active <=> is_filter_enabled("addr")
    BY ActiveIs DEF Kinds
  <2> QED
    BY <2>1 DEF Hits, Hit, AddrMatches
<1>7. CASE AddrMatches(r)
  <2>1. Hits(r) = (Hits(r) \ {"addr"}) \cup {"addr"}
    BY <1>6, <1>7
  <2>2. Cardinality((Hits(r) \ {"addr"}) \cup {"addr"}) = Cardinality(Hits(r) \ {"addr"}) + 1
    BY <1>4, FS_AddElement
  <2> QED
    BY <1>4, <1>5, <1>7, <2>1, <2>2
<1>8. CASE ~ AddrMatches(r)
  <2>1. Hits(r) = Hits(r) \ {"addr"}
    BY <1>6, <1>8
  <2>2. Cardinality(Found(r)) \in Nat
    BY <1>2, FS_CardinalityType
  <2> QED
    BY <1>4, <1>5, <1>8, <2>1, <2>2
<1> QED
  BY <1>7, <1>8

\* The filters accept a report as scan.h says, but with match_all when nothing is sought,
\* when two elements of a kind match or when the UUIDs are spread (Diverges), and but for
\* the tails of names (scan_name_filter_add).
THEOREM VerdictIsRight == Spec => []VerdictIsDocumented
<1>1. IInv => VerdictIsDocumented
  <2>1. SUFFICES ASSUME TypeOK, NoTails, NEW r \in Reports, ~Diverges(r)
                 PROVE  Matched(r) <=> Documented(r)
    BY DEF IInv, VerdictIsDocumented
  <2>2. \A k \in Active : Meets(r, k) <=> Hit(r, k)
    <3>1. Comparable(r)
      BY <2>1 DEF Comparable
    <3> QED
      BY <2>1, <3>1, HitIsMet
  <2>3. /\ \A k : k \in Active <=> k \in Kinds /\ is_filter_enabled(k)
        /\ Active \subseteq Kinds /\ IsFiniteSet(Active) /\ Hits(r) \subseteq Active
    BY <2>1, ActiveIs DEF Hits
  <2>4. CASE all_mode
    <3>1. Matched(r) <=> Cardinality(Hits(r)) = Cardinality(Active)
      <4>1. Active = {k \in Kinds : is_filter_enabled(k)}
        BY <2>3
      <4>2. filter_match_cnt(r) = Cardinality(Hits(r))
        BY <2>1, <2>4, MatchesAreHits DEF Diverges
      <4> QED
        BY <2>4, <4>1, <4>2 DEF Matched, filter_cnt
    <3>2. Cardinality(Hits(r)) = Cardinality(Active) <=> Hits(r) = Active
      BY <2>3, FS_Subset
    <3>3. Hits(r) = Active <=> \A k \in Active : Hit(r, k)
      BY DEF Hits
    <3>4. Active # {}
      BY <2>1, <2>4 DEF Diverges, NothingSought
    <3> QED
      BY <2>2, <2>4, <3>1, <3>2, <3>3, <3>4 DEF Documented
  <2>5. CASE ~all_mode
    <3>1. Matched(r) <=> Found(r) # {} \/ AddrMatches(r)
      BY <2>5, OneMatch, ReportsAre
    <3>2. Found(r) # {} <=> Hits(r) \ {"addr"} # {}
      BY <2>1, FoundAreHits
    <3>3. AddrMatches(r) <=> "addr" \in Hits(r)
      <4>1. "addr" \in Kinds
        BY DEF Kinds
      <4> QED
        BY <2>3, <4>1 DEF Hits, Hit, AddrMatches
    <3>4. Hits(r) # {} <=> \E k \in Active : Hit(r, k)
      BY DEF Hits
    <3> QED
      BY <2>2, <2>5, <3>1, <3>2, <3>3, <3>4 DEF Documented
  <2> QED
    BY <2>4, <2>5
<1> QED
  BY <1>1, FilterInvariant, PTL
=============================================================================
