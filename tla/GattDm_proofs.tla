---------------------------- MODULE GattDm_proofs ----------------------------
(***************************************************************************)
(* The discovery manager (GattDm), for every attribute table of a camera,    *)
(* every size of the manager's table and of a chunk, and every set of        *)
(* failures.  The binary search of the table is proved first, by the least   *)
(* range on which it could be wrong; then an invariant of five parts besides *)
(* the types, one action at a time: where the blocks lie (BlocksInv), what   *)
(* may be under way while the lock is held (LockInv), that the table is the  *)
(* front of one service (TableInv), how far the procedure has come           *)
(* (PhaseInv), and what an error comes from (ErrorHasCause).  The ownership  *)
(* of the memory, the one answer to each procedure and the contents of a     *)
(* completed table follow from it.                                           *)
(***************************************************************************)
EXTENDS GattDm, FiniteSetTheorems, WellFoundedInduction, TLAPS

-----------------------------------------------------------------------------
(* The inductive invariant *)

\* The block lies in a chunk of the list, before the words that are still free.
Placed(m, b) ==
  /\ b \in Blocks
  /\ b.chunk \in 1..m.chunks /\ b.from + b.len <= ChunkWords
  /\ b.chunk = m.chunks => b.from + b.len <= m.used

\* Two blocks share no word.
Apart(b, c) == b.chunk # c.chunk \/ b.from + b.len <= c.from \/ c.from + c.len <= b.from

\* The blocks of the table lie in the chunks, apart from each other.
BlocksInv ==
  /\ \A i \in 1..Len(attrs) :
       /\ Placed(mem, attrs[i].at)
       /\ attrs[i].val # NoBlock => Placed(mem, attrs[i].val)
  /\ \A i, j \in 1..Len(attrs) :
       /\ i # j => Apart(attrs[i].at, attrs[j].at)
       /\ attrs[j].val # NoBlock => Apart(attrs[i].at, attrs[j].val)
       /\ i # j /\ attrs[i].val # NoBlock /\ attrs[j].val # NoBlock
            => Apart(attrs[i].val, attrs[j].val)

\* What is under way while the manager is locked, and nothing else.
LockInv ==
  /\ mem.heap = mem.chunks
  /\ ~locked => attrs = <<>> /\ mem.chunks = 0 /\ ~running /\ ~work /\ ~pending
  /\ running => ~work /\ ~pending
  /\ work => ~pending /\ params.type # "primary"
  /\ pending => heard = "completed"
  /\ up \/ broken

\* The service under way, and the table: attributes from its declaration on, without a gap.
first == attrs[1].handle

TableInv ==
  /\ db \in Databases
  /\ \A i \in 1..Len(attrs) :
       /\ attrs[i].handle = first + i - 1
       /\ attrs[i].handle \in Members(first)
       /\ attrs[i].kind = db[attrs[i].handle]
  /\ attrs # <<>> => db[first] \in ServiceKinds /\ (params.by_uuid => db[first] = svc_uuid)

\* Each characteristic up to the handle has got the UUID of its value.
Valued(handle) ==
  \A i \in 1..Len(attrs) :
    attrs[i].kind = "chrc" /\ attrs[i].handle < handle => attrs[i].uuid = Uuid(attrs[i].handle + 1)

\* Every attribute of the service is in the table.
Whole == \A h \in Members(first) : \E i \in 1..Len(attrs) : attrs[i].handle = h

\* How far the procedure has come.
PhaseInv ==
  /\ running /\ params.type = "primary" => attrs = <<>> /\ params.uuid = params.by_uuid
  /\ (running \/ work) /\ params.type # "primary" =>
       /\ params.type \in {"attribute", "characteristic"}
       /\ attrs # <<>>
       /\ params.end_handle = EndHandle(first)
       /\ params.start_handle > first
  /\ (running \/ work) /\ params.type = "attribute" =>
       params.start_handle = first + Len(attrs)
  /\ (running \/ work) /\ params.type = "characteristic" =>
       Valued(params.start_handle) /\ (~broken => Whole)
  /\ pending => attrs # <<>>
  /\ pending /\ ~broken => Valued(LastHandle + 1) /\ Whole

IInv == TypeOK /\ BlocksInv /\ LockInv /\ TableInv /\ PhaseInv /\ ErrorHasCause

-----------------------------------------------------------------------------
(* The least element of a set of numbers *)

\* Induction over data is done below with a least counterexample.
LEMMA LeastNatural ==
  ASSUME NEW T, T \subseteq Nat, T # {}
  PROVE  \E m \in T : \A k \in T : m <= k
<1> DEFINE R == {p \in Nat \X Nat : p[1] < p[2]}
<1>1. IsWellFoundedOn(R, Nat)
  BY NatLessThanWellFounded DEF OpToRel
<1> HIDE DEF R
<1>2. PICK m \in T : \A k \in T : ~ (<<k, m>> \in R)
  BY <1>1, WFMin
<1>3. \A k \in T : ~ (k < m)
  BY <1>2 DEF R
<1> QED
  BY <1>3

\* A sequence with one element replaced.
Replaced(s, i, x, S) ==
  LET t == [s EXCEPT ![i] = x]
  IN  /\ t \in Seq(S) /\ Len(t) = Len(s) /\ t[i] = x
      /\ \A j \in 1..Len(s) : j # i => t[j] = s[j]

LEMMA ReplaceOne ==
  ASSUME NEW S, NEW s \in Seq(S), NEW i \in 1..Len(s), NEW x \in S
  PROVE  Replaced(s, i, x, S)
<1>1. s \in [1..Len(s) -> S] /\ Len(s) \in Nat
  OBVIOUS
<1>2. PICK t : t = [s EXCEPT ![i] = x]
  OBVIOUS
<1>3. t \in [1..Len(s) -> S] /\ t[i] = x /\ \A j \in 1..Len(s) : j # i => t[j] = s[j]
  BY <1>1, <1>2
<1>4. t \in Seq(S) /\ Len(t) = Len(s)
  BY <1>1, <1>3
<1> QED
  BY <1>2, <1>3, <1>4 DEF Replaced

-----------------------------------------------------------------------------
(* The binary search *)

\* The bounds of a search; upper may have passed lower.
Ranges == (1..(Len(attrs) + 1)) \X (0..Len(attrs))

\* One round of attr_find_by_handle, given the answers f of the rounds behind it.
Round(handle, f, lower, upper) ==
  LET m == (lower + upper) \div 2
  IN  IF upper < lower THEN 0
      ELSE IF attrs[m].handle < handle THEN f[<<m + 1, upper>>]
      ELSE IF attrs[m].handle > handle THEN f[<<lower, m - 1>>]
      ELSE m

\* f answers every round of the search for the handle.
Searches(handle, f) == f = [r \in Ranges |-> Round(handle, f, r[1], r[2])]

\* Where it should find the handle.
Hits(handle, r) == {j \in r[1]..r[2] : attrs[j].handle = handle}
Place(handle, r) == IF Hits(handle, r) = {} THEN 0 ELSE CHOOSE j \in Hits(handle, r) : TRUE
Placing(handle) == [r \in Ranges |-> Place(handle, r)]

\* The handles of the table ascend.
Sorted ==
  /\ Len(attrs) \in Nat
  /\ \A i \in 1..Len(attrs) : attrs[i].handle \in Nat
  /\ \A i, j \in 1..Len(attrs) : i < j => attrs[i].handle < attrs[j].handle

\* A round looks in the half where the handle is.
Halves(h, lower, upper, m) ==
  /\ m \in lower..upper
  /\ attrs[m].handle \in Nat
  /\ <<m + 1, upper>> \in Ranges /\ <<lower, m - 1>> \in Ranges
  /\ attrs[m].handle < h => Hits(h, <<lower, upper>>) = Hits(h, <<m + 1, upper>>)
  /\ attrs[m].handle > h => Hits(h, <<lower, upper>>) = Hits(h, <<lower, m - 1>>)
  /\ attrs[m].handle = h => Hits(h, <<lower, upper>>) = {m}

\* A round compares the middle entry, and the handle is where it then looks, or nowhere.
LEMMA RoundHalves ==
  ASSUME Sorted, NEW h \in Nat, NEW lower \in 1..(Len(attrs) + 1), NEW upper \in 0..Len(attrs),
         NEW m, m = (lower + upper) \div 2, lower <= upper
  PROVE  Halves(h, lower, upper, m)
<1>1. m \in lower..upper
  BY DEF Sorted
<1>2. attrs[m].handle \in Nat
  BY <1>1 DEF Sorted
<1>3. <<m + 1, upper>> \in Ranges /\ <<lower, m - 1>> \in Ranges
  BY <1>1 DEF Sorted, Ranges
<1>4. \A j \in lower..upper :
        /\ attrs[j].handle \in Nat
        /\ j < m => attrs[j].handle < attrs[m].handle
        /\ j > m => attrs[j].handle > attrs[m].handle
  BY <1>1 DEF Sorted
<1>5. ASSUME attrs[m].handle < h
      PROVE  Hits(h, <<lower, upper>>) = Hits(h, <<m + 1, upper>>)
  <2>1. ASSUME NEW j \in lower..upper, attrs[j].handle = h
        PROVE  j \in (m + 1)..upper
    <3>1. j # m /\ ~ (j < m)
      BY <1>2, <1>4, <1>5, <2>1
    <3> QED
      BY <1>1, <3>1
  <2>2. \A j \in (m + 1)..upper : j \in lower..upper
    BY <1>1
  <2> QED
    BY <2>1, <2>2 DEF Hits
<1>6. ASSUME attrs[m].handle > h
      PROVE  Hits(h, <<lower, upper>>) = Hits(h, <<lower, m - 1>>)
  <2>1. ASSUME NEW j \in lower..upper, attrs[j].handle = h
        PROVE  j \in lower..(m - 1)
    <3>1. j # m /\ ~ (j > m)
      BY <1>2, <1>4, <1>6, <2>1
    <3> QED
      BY <1>1, <3>1
  <2>2. \A j \in lower..(m - 1) : j \in lower..upper
    BY <1>1
  <2> QED
    BY <2>1, <2>2 DEF Hits
<1>7. ASSUME attrs[m].handle = h
      PROVE  Hits(h, <<lower, upper>>) = {m}
  <2>1. ASSUME NEW j \in lower..upper, attrs[j].handle = h
        PROVE  j = m
    BY <1>1, <1>2, <1>4, <1>7, <2>1
  <2>2. m \in lower..upper
    BY <1>1
  <2> QED
    BY <1>7, <2>1, <2>2 DEF Hits
<1> QED
  BY <1>1, <1>2, <1>3, <1>5, <1>6, <1>7 DEF Halves

\* The right places answer every round, so that there is such a function.
LEMMA PlacingSearches ==
  ASSUME Sorted, NEW h \in Nat
  PROVE  Searches(h, Placing(h))
<1>0. \A q \in Ranges : Placing(h)[q] = Place(h, q)
  BY DEF Placing
<1>1. ASSUME NEW lower \in 1..(Len(attrs) + 1), NEW upper \in 0..Len(attrs)
      PROVE  Place(h, <<lower, upper>>) = Round(h, Placing(h), lower, upper)
  <2>1. CASE upper < lower
    <3>1. Hits(h, <<lower, upper>>) = {}
      BY <2>1 DEF Hits, Sorted
    <3> QED
      BY <2>1, <3>1 DEF Place, Round
  <2>2. CASE lower <= upper
    <3>1. PICK m : m = (lower + upper) \div 2
      OBVIOUS
    <3>2. Halves(h, lower, upper, m)
      BY <2>2, <3>1, RoundHalves
    <3>3. Round(h, Placing(h), lower, upper) =
             IF attrs[m].handle < h THEN Place(h, <<m + 1, upper>>)
             ELSE IF attrs[m].handle > h THEN Place(h, <<lower, m - 1>>)
             ELSE m
      BY <1>0, <2>2, <3>1, <3>2 DEF Round, Halves
    <3>4. CASE attrs[m].handle < h
      BY <3>2, <3>3, <3>4 DEF Place, Halves
    <3>5. CASE attrs[m].handle > h
      <4>1. ~(attrs[m].handle < h)
        BY <3>2, <3>5 DEF Halves
      <4> QED
        BY <3>2, <3>3, <3>5, <4>1 DEF Place, Halves
    <3>6. CASE attrs[m].handle = h
      <4>1. Place(h, <<lower, upper>>) = m
        BY <3>2, <3>6 DEF Place, Halves
      <4>2. ~(attrs[m].handle < h) /\ ~(attrs[m].handle > h)
        BY <3>2, <3>6 DEF Halves
      <4> QED
        BY <3>3, <4>1, <4>2
    <3> QED
      BY <3>2, <3>4, <3>5, <3>6 DEF Halves
  <2> QED
    BY <2>1, <2>2 DEF Sorted
<1>2. \A r \in Ranges : Place(h, r) = Round(h, Placing(h), r[1], r[2])
  BY <1>1 DEF Ranges
<1> QED
  BY <1>2 DEF Searches, Placing

\* There is no other: of two that differ, take the shortest range where they do.
LEMMA SearchIsUnique ==
  ASSUME Sorted, NEW h \in Nat, NEW f, Searches(h, f)
  PROVE  f = Placing(h)
<1> DEFINE Wrong == {r \in Ranges : f[r] # Place(h, r)}
           Size(r) == r[2] + 1 + Len(attrs) - r[1]
           Sizes == {s \in Nat : \E r \in Wrong : s = Size(r)}
<1>0. \A r \in Ranges : Size(r) \in Nat /\ r[1] \in 1..(Len(attrs)+1) /\ r[2] \in 0..Len(attrs) /\ r = <<r[1], r[2]>>
  BY DEF Ranges, Sorted
<1>1. ASSUME Wrong # {}
      PROVE  FALSE
  <2>1. Sizes # {}
    BY <1>0, <1>1
  <2>2. PICK s \in Sizes : \A k \in Sizes : s <= k
    <3>1. Sizes \subseteq Nat
      OBVIOUS
    <3> HIDE DEF Sizes
    <3> QED
      BY <2>1, <3>1, LeastNatural
  <2>3. PICK r \in Wrong : s = Size(r)
    OBVIOUS
  <2>4. ASSUME NEW q \in Ranges, Size(q) < Size(r), f[q] # Place(h, q)
        PROVE  FALSE
    <3>1. Size(q) \in Nat /\ Size(q) \in Sizes
      BY <1>0, <2>4
    <3>2. Size(r) <= Size(q)
      BY <2>2, <2>3, <3>1
    <3>3. Size(r) \in Nat
      BY <1>0
    <3> HIDE DEF Size
    <3> QED
      BY <2>4, <3>1, <3>2, <3>3
  <2>5. PICK lower \in 1..(Len(attrs) + 1), upper \in 0..Len(attrs) : r = <<lower, upper>>
    BY DEF Ranges
  <2>6. f[r] = Round(h, f, lower, upper)
    BY <2>5 DEF Searches
  <2>7. Place(h, r) = Round(h, Placing(h), lower, upper)
    BY <2>5, PlacingSearches DEF Searches, Placing
  <2>8. CASE upper < lower
    BY <2>6, <2>7, <2>8 DEF Round
  <2>9. CASE lower <= upper
    <3>1. PICK m : m = (lower + upper) \div 2
      OBVIOUS
    <3>0. m \in lower..upper /\ <<m + 1, upper>> \in Ranges /\ <<lower, m - 1>> \in Ranges
      BY <2>9, <3>1, RoundHalves DEF Halves
    <3>2. \A g : Round(h, g, lower, upper) =
             IF attrs[m].handle < h THEN g[<<m + 1, upper>>]
             ELSE IF attrs[m].handle > h THEN g[<<lower, m - 1>>]
             ELSE m
      BY <2>9, <3>1 DEF Round
    <3>3. Size(<<m + 1, upper>>) < Size(<<lower, upper>>) /\ Size(<<lower, m - 1>>) < Size(<<lower, upper>>)
      BY <3>0 DEF Sorted
    <3>4. f[<<m + 1, upper>>] = Placing(h)[<<m + 1, upper>>] /\ f[<<lower, m - 1>>] = Placing(h)[<<lower, m - 1>>]
      BY <2>4, <2>5, <3>0, <3>3 DEF Placing
    <3> QED
      BY <2>6, <2>7, <3>2, <3>4
  <2> QED
    BY <2>8, <2>9 DEF Sorted
<1>2. \A r \in Ranges : f[r] = Placing(h)[r]
  BY <1>1 DEF Placing
<1> QED
  BY <1>2 DEF Searches, Placing

\* attr_find_by_handle finds the attribute with the handle, when there is one.
LEMMA FindsByHandle ==
  ASSUME Sorted, NEW h \in Nat
  PROVE  \/ /\ attr_find_by_handle(h) = 0
            /\ \A j \in 1..Len(attrs) : attrs[j].handle # h
         \/ /\ attr_find_by_handle(h) \in 1..Len(attrs)
            /\ attrs[attr_find_by_handle(h)].handle = h
<1>1. attr_find_by_handle(h) = (CHOOSE f : Searches(h, f))[<<1, Len(attrs)>>]
  BY DEF attr_find_by_handle, Searches, Round, Ranges
<1>2. Searches(h, CHOOSE f : Searches(h, f))
  BY PlacingSearches
<1>3. (CHOOSE f : Searches(h, f)) = Placing(h)
  BY <1>2, SearchIsUnique
<1>4. <<1, Len(attrs)>> \in Ranges
  BY DEF Ranges, Sorted
<1>5. attr_find_by_handle(h) = Place(h, <<1, Len(attrs)>>)
  BY <1>1, <1>3, <1>4 DEF Placing
<1> QED
  BY <1>5 DEF Place, Hits

-----------------------------------------------------------------------------
(* The camera's table *)

\* Attribute numbers are handles, and behind each declaration of a characteristic lies
\* its value.
LEMMA DatabaseShape ==
  ASSUME db \in Databases
  PROVE  \E n \in Nat \ {0} :
           /\ DOMAIN db = 1..n /\ Len(db) = n /\ db \in Seq(Kinds) /\ n <= MaxHandles
           /\ \A h \in 1..n : db[h] \in Kinds
           /\ \A h \in 1..n : db[h] = "chrc" => h + 1 \in 1..n /\ db[h + 1] = "val"
           /\ \A h \in 1..(n - 1) : db[h] = "val" => db[h + 1] \in ServiceKinds \cup {"chrc", "ccc"}
<1>1. PICK n \in 1..MaxHandles :
        /\ db \in [1..n -> Kinds]
        /\ db[1] \in ServiceKinds /\ db[n] # "chrc"
        /\ \A h \in 1..(n - 1) : db[h + 1] \in Follows(db[h])
  BY DEF Databases
<1>2. n \in Nat \ {0} /\ n <= MaxHandles
  BY DmConstants
<1>3. DOMAIN db = 1..n /\ Len(db) = n /\ db \in Seq(Kinds)
  BY <1>1, <1>2
<1>4. ASSUME NEW h \in 1..n, db[h] = "chrc"
      PROVE  h + 1 \in 1..n /\ db[h + 1] = "val"
  <2>1. h # n
    BY <1>1, <1>4
  <2>2. h \in 1..(n - 1)
    BY <1>2, <2>1
  <2>3. Follows(db[h]) = {"val"}
    BY <1>4 DEF Follows, ServiceKinds
  <2>4. db[h + 1] = "val"
    BY <1>1, <2>2, <2>3
  <2> QED
    BY <1>2, <2>2, <2>4
<1>5. ASSUME NEW h \in 1..(n - 1), db[h] = "val"
      PROVE  db[h + 1] \in ServiceKinds \cup {"chrc", "ccc"}
  <2>1. Follows(db[h]) = ServiceKinds \cup {"chrc", "ccc"}
    BY <1>5 DEF Follows, ServiceKinds
  <2> QED
    BY <1>1, <2>1
<1> QED
  BY <1>1, <1>2, <1>3, <1>4, <1>5

\* A service ends before the next one begins.
LEMMA EndHandleBounds ==
  ASSUME db \in Databases, NEW h \in DOMAIN db
  PROVE  /\ EndHandle(h) \in Nat /\ h <= EndHandle(h) /\ EndHandle(h) <= LastHandle
         /\ \A g \in DOMAIN db : h < g /\ g <= EndHandle(h) => db[g] \notin ServiceKinds
         /\ \/ EndHandle(h) = LastHandle
            \/ EndHandle(h) + 1 \in DOMAIN db /\ db[EndHandle(h) + 1] \in ServiceKinds
<1> DEFINE next == {g \in (h + 1)..Len(db) : db[g] \in ServiceKinds}
<1>1. PICK n \in Nat \ {0} : DOMAIN db = 1..n /\ Len(db) = n /\ n <= MaxHandles
  BY DatabaseShape
<1>2. h \in 1..n /\ LastHandle = MaxHandles + 1 /\ MaxHandles \in Nat
  BY <1>1, DmConstants DEF LastHandle
<1>3. EndHandle(h) = IF next = {} THEN LastHandle
                     ELSE (CHOOSE g \in next : \A x \in next : g <= x) - 1
  BY DEF EndHandle
<1>4. \A g \in DOMAIN db : h < g /\ db[g] \in ServiceKinds => g \in next
  BY <1>1, <1>2
<1>5. next \subseteq Nat
  BY <1>1, <1>2
<1>6. \A g \in next : h < g /\ g <= n /\ db[g] \in ServiceKinds
  BY <1>1, <1>2
<1> HIDE DEF next
<1>7. CASE next = {}
  <2>1. EndHandle(h) = LastHandle
    BY <1>3, <1>7
  <2> QED
    BY <1>1, <1>2, <1>4, <1>7, <2>1
<1>8. CASE next # {}
  <2>1. \E g \in next : \A x \in next : g <= x
    BY <1>5, <1>8, LeastNatural
  <2>2. PICK g \in next : EndHandle(h) = g - 1 /\ \A x \in next : g <= x
    BY <1>3, <1>8, <2>1
  <2>3. g \in Nat /\ h < g /\ g <= n /\ db[g] \in ServiceKinds
    BY <1>5, <1>6
  <2> QED
    BY <1>1, <1>2, <1>4, <2>2, <2>3
<1> QED
  BY <1>7, <1>8

\* The attributes of a service lie between its declaration and its end.
LEMMA MembersOf ==
  ASSUME db \in Databases, NEW h \in DOMAIN db
  PROVE  /\ Members(h) \subseteq DOMAIN db
         /\ h \in Members(h)
         /\ \A g \in DOMAIN db : g \in Members(h) <=> h <= g /\ g <= EndHandle(h)
         /\ \A g \in Members(h) :
              g + 1 \in DOMAIN db /\ db[g + 1] \notin ServiceKinds => g + 1 \in Members(h)
         /\ \A g \in Members(h) : db[g] = "chrc" => g + 1 \in Members(h) /\ db[g + 1] = "val"
<1>1. PICK n \in Nat \ {0} :
        /\ DOMAIN db = 1..n /\ n <= MaxHandles
        /\ \A g \in 1..n : db[g] = "chrc" => g + 1 \in 1..n /\ db[g + 1] = "val"
  BY DatabaseShape
<1>2. /\ EndHandle(h) \in Nat /\ h <= EndHandle(h)
      /\ \/ EndHandle(h) = LastHandle
         \/ EndHandle(h) + 1 \in DOMAIN db /\ db[EndHandle(h) + 1] \in ServiceKinds
  BY EndHandleBounds
<1>3. \A g \in DOMAIN db : g \in Members(h) <=> h <= g /\ g <= EndHandle(h)
  BY <1>1, <1>2 DEF Members
<1>4. ASSUME NEW g \in Members(h), g + 1 \in DOMAIN db, db[g + 1] \notin ServiceKinds
      PROVE  g + 1 \in Members(h)
  <2>1. g \in 1..n /\ h <= g /\ g <= EndHandle(h)
    BY <1>1, <1>2 DEF Members
  <2>2. g # LastHandle
    BY <1>1, <2>1, DmConstants DEF LastHandle
  <2>3. EndHandle(h) # g
    BY <1>2, <1>4, <2>2
  <2>4. h <= g + 1 /\ g + 1 <= EndHandle(h)
    BY <1>1, <1>2, <2>1, <2>3
  <2> QED
    BY <1>3, <1>4, <2>4
<1>5. ASSUME NEW g \in Members(h), db[g] = "chrc"
      PROVE  g + 1 \in Members(h) /\ db[g + 1] = "val"
  BY <1>1, <1>4, <1>5 DEF Members, ServiceKinds
<1> QED
  BY <1>1, <1>2, <1>3, <1>4, <1>5 DEF Members

\* The stack answers a request with the least of the attributes that match it.
LEMMA NearestMatches ==
  ASSUME Matching # {}, params.start_handle \in Nat
  PROVE  Nearest \in Matching /\ \A g \in Matching : Nearest <= g
<1>1. Matching \subseteq Nat
  BY DEF Matching
<1>2. \E h \in Matching : \A g \in Matching : h <= g
  BY <1>1, LeastNatural
<1> QED
  BY <1>2 DEF Nearest

-----------------------------------------------------------------------------
(* The memory *)

\* What the allocator hands out is free, and what it has handed out before stays where
\* it is.
LEMMA Allocation ==
  ASSUME NEW m \in [chunks : Nat, used : 0..ChunkWords, heap : Nat], NEW len \in 1..5
  PROVE  /\ user_data_alloc(m, len) \in [chunks : Nat, used : 0..ChunkWords, heap : Nat]
         /\ m.heap = m.chunks => user_data_alloc(m, len).heap = user_data_alloc(m, len).chunks
         /\ Placed(user_data_alloc(m, len), Space(m, len))
         /\ Space(m, len) # NoBlock
         /\ \A b : Placed(m, b) => Placed(user_data_alloc(m, len), b) /\ Apart(b, Space(m, len))
<1> USE DmConstants
<1>1. CASE Fits(m, len)
  <2>1. m.chunks \in Nat \ {0} /\ m.used + len <= ChunkWords /\ m.used \in Nat
    BY <1>1 DEF Fits
  <2>2. user_data_alloc(m, len) = [chunks |-> m.chunks, used |-> m.used + len, heap |-> m.heap]
    BY <1>1 DEF user_data_alloc
  <2>3. Space(m, len) = [chunk |-> m.chunks, from |-> m.used, len |-> len]
    BY <2>1, <2>2 DEF Space
  <2>4. Placed(user_data_alloc(m, len), Space(m, len)) /\ Space(m, len) # NoBlock
    BY <2>1, <2>2, <2>3 DEF Placed, Blocks, NoBlock
  <2>5. ASSUME NEW b, Placed(m, b)
        PROVE  Placed(user_data_alloc(m, len), b) /\ Apart(b, Space(m, len))
    BY <2>1, <2>2, <2>3, <2>5 DEF Placed, Blocks, Apart
  <2> QED
    BY <2>1, <2>2, <2>4, <2>5
<1>2. CASE ~Fits(m, len)
  <2>1. user_data_alloc(m, len) = [chunks |-> m.chunks + 1, used |-> len, heap |-> m.heap + 1]
    BY <1>2 DEF user_data_alloc
  <2>2. Space(m, len) = [chunk |-> m.chunks + 1, from |-> 0, len |-> len]
    BY <2>1 DEF Space
  <2>3. Placed(user_data_alloc(m, len), Space(m, len)) /\ Space(m, len) # NoBlock
    BY <2>1, <2>2 DEF Placed, Blocks, NoBlock
  <2>4. ASSUME NEW b, Placed(m, b)
        PROVE  Placed(user_data_alloc(m, len), b) /\ Apart(b, Space(m, len))
    BY <2>1, <2>2, <2>4 DEF Placed, Blocks, Apart
  <2> QED
    BY <2>1, <2>3, <2>4
<1> QED
  BY <1>1, <1>2

\* A UUID, and what is stored for an attribute, take one to five words: they fit a chunk.
LEMMA Sizes ==
  \A kind : get_uuid_size(kind) \in 1..5 /\ StoredWords(kind) \in 1..5
BY DEF get_uuid_size, StoredWords

-----------------------------------------------------------------------------
(* Steps *)

\* No step changes the camera's table.
LEMMA SameCamera ==
  ASSUME db' = db
  PROVE  \A h : EndHandle(h)' = EndHandle(h) /\ Members(h)' = Members(h) /\ Uuid(h)' = Uuid(h)
<1> TAKE h
<1>1. EndHandle(h)' = EndHandle(h)
  BY DEF EndHandle
<1>2. Members(h)' = Members(h)
  BY <1>1 DEF Members
<1> QED
  BY <1>1, <1>2 DEF Uuid

\* A table without entries has nothing wrong with it.
LEMMA EmptyTable ==
  ASSUME TableInv, db' = db, attrs' = <<>>
  PROVE  BlocksInv' /\ TableInv'
BY DEF BlocksInv, TableInv

\* An error keeps its cause: the camera's table stays and a failure is not forgotten.
LEMMA CauseStays ==
  ASSUME ErrorHasCause, db' = db, broken => broken',
         (heard' = "error" \/ halted') => heard = "error" \/ halted \/ broken'
  PROVE  ErrorHasCause'
<1>1. \A h : Members(h)' = Members(h)
  BY SameCamera
<1> QED
  BY <1>1 DEF ErrorHasCause

\* The manager without its lock holds nothing.
LEMMA Unlocked ==
  ASSUME LockInv, ~locked
  PROVE  attrs = <<>> /\ mem.chunks = 0 /\ mem.heap = 0 /\ ~running /\ ~work /\ ~pending
BY DEF LockInv

\* The types of the memory and of the parameters.
MemTypes == [chunks : Nat, used : 0..ChunkWords, heap : Nat]
ParamTypes ==
  [type : Phases, uuid : BOOLEAN, by_uuid : BOOLEAN, start_handle : Nat, end_handle : Nat]

\* The empty table and the memory after a release have their types.
LEMMA EmptyTypes ==
  /\ <<>> \in Seq(Attrs) /\ Len(<<>>) <= MaxAttrs
  /\ [chunks |-> 0, used |-> 0, heap |-> 0] \in MemTypes
<1>1. 0 \in 0..ChunkWords /\ 0 <= MaxAttrs
  BY DmConstants
<1> QED
  BY <1>1 DEF MemTypes

\* The start of a procedure finds the manager without data and begins with none.
LEMMA StartKeeps ==
  ASSUME IInv, NEW by_uuid \in BOOLEAN, bt_gatt_dm_start(by_uuid)
  PROVE  IInv'
<1>1. /\ TypeOK /\ LockInv /\ TableInv /\ ErrorHasCause /\ ~locked
      /\ attrs' = <<>> /\ db' = db /\ ~work'
      /\ mem' = [mem EXCEPT !.chunks = 0, !.used = 0]
  BY DEF IInv, bt_gatt_dm_start, peer
<1>2. mem.chunks = 0 /\ mem.heap = 0 /\ ~running /\ ~work /\ ~pending
  BY <1>1, Unlocked
<1>3. mem' = [chunks |-> 0, used |-> 0, heap |-> 0]
  BY <1>1, <1>2 DEF TypeOK
<1>4. TypeOK'
  <2>1. LastHandle \in Nat
    BY DmConstants DEF LastHandle
  <2>2. params' \in ParamTypes
    BY <2>1 DEF bt_gatt_dm_start, Phases, ParamTypes
  <2>3. attrs' \in Seq(Attrs) /\ Len(attrs') <= MaxAttrs /\ mem' \in MemTypes
    BY <1>1, <1>3, EmptyTypes
  <2> QED
    BY <1>1, <2>2, <2>3 DEF bt_gatt_dm_start, TypeOK, peer, ParamTypes, MemTypes
<1>5. LockInv'
  BY <1>1, <1>2, <1>3 DEF bt_gatt_dm_start, LockInv, peer
<1>6. BlocksInv' /\ TableInv'
  BY <1>1, EmptyTable
<1>7. PhaseInv'
  BY <1>1, <1>2 DEF bt_gatt_dm_start, PhaseInv
<1>8. ErrorHasCause'
  <2>1. /\ halted' = halted /\ ~halted
        /\ heard' = "none" \/ (heard' = heard /\ broken' = broken)
    BY DEF bt_gatt_dm_start
  <2>2. CASE heard' = "none"
    BY <2>1, <2>2 DEF ErrorHasCause
  <2>3. CASE heard' = heard /\ broken' = broken
    BY <1>1, <2>1, <2>3, CauseStays
  <2> QED
    BY <2>1, <2>2, <2>3
<1> QED
  BY <1>4, <1>5, <1>6, <1>7, <1>8 DEF IInv

\* The next search begins behind the service found before, without data, or there is none.
LEMMA ContinueKeeps ==
  ASSUME IInv, bt_gatt_dm_continue
  PROVE  IInv'
<1>1. /\ TypeOK /\ LockInv /\ TableInv /\ ErrorHasCause /\ ~locked /\ ~halted
      /\ db' = db /\ up' = up /\ work' = work /\ halted' = halted
  BY DEF IInv, bt_gatt_dm_continue, peer
<1>2. attrs = <<>> /\ mem.chunks = 0 /\ mem.heap = 0 /\ ~running /\ ~work /\ ~pending
  BY <1>1, Unlocked
<1>3. attrs' = <<>> /\ mem'.chunks = 0 /\ mem'.heap = 0 /\ mem' \in MemTypes
  BY <1>1, <1>2, DmConstants
     DEF bt_gatt_dm_continue, CompleteWithout, svc_attr_memory_release, TypeOK, MemTypes, data
<1> DEFINE again == [params EXCEPT !.start_handle = params.end_handle + 1,
                                   !.end_handle = LastHandle,
                                   !.type = "primary", !.uuid = params.by_uuid]
<1>0. \/ params' = params /\ running' = running
      \/ params' = again /\ running' = running /\ broken' = TRUE
      \/ params' = again /\ running' = TRUE /\ heard' = "none"
  BY DEF bt_gatt_dm_continue
<1>4. TypeOK'
  <2>0. LastHandle \in Nat /\ "primary" \in Phases
    BY DmConstants DEF LastHandle, Phases
  <2>1. params' \in ParamTypes
    <3>1. params \in ParamTypes
      BY <1>1 DEF TypeOK, ParamTypes
    <3>2. again \in ParamTypes
      <4> USE DEF ParamTypes
      <4>1. params.by_uuid \in BOOLEAN
        BY <3>1
      <4>2. [params EXCEPT !.start_handle = params.end_handle + 1] \in ParamTypes
        BY <3>1
      <4>3. [params EXCEPT !.start_handle = params.end_handle + 1, !.end_handle = LastHandle] \in ParamTypes
        BY <2>0, <4>2
      <4>4. [params EXCEPT !.start_handle = params.end_handle + 1, !.end_handle = LastHandle,
                           !.type = "primary"] \in ParamTypes
        BY <2>0, <4>3
      <4> QED
        BY <4>1, <4>4
    <3> HIDE DEF again
    <3> QED
      BY <1>0, <3>1, <3>2
  <2>3. attrs' \in Seq(Attrs) /\ Len(attrs') <= MaxAttrs
    BY <1>3, EmptyTypes
  <2>2. /\ locked' \in BOOLEAN /\ pending' \in BOOLEAN /\ running' \in BOOLEAN
        /\ heard' \in {"none", "completed", "not_found", "error"} /\ broken' \in BOOLEAN
    BY <1>1 DEF bt_gatt_dm_continue, CompleteWithout, TypeOK
  <2> QED
    BY <1>1, <1>3, <2>1, <2>2, <2>3 DEF TypeOK, ParamTypes, MemTypes
<1>5. LockInv'
  BY <1>1, <1>2, <1>3 DEF bt_gatt_dm_continue, CompleteWithout, LockInv
<1>6. BlocksInv' /\ TableInv'
  BY <1>1, <1>3, EmptyTable
<1>7. PhaseInv'
  <2>1. again.type = "primary" /\ again.uuid = again.by_uuid
    BY <1>1 DEF TypeOK
  <2>2. pending' = pending
    BY DEF bt_gatt_dm_continue, CompleteWithout
  <2> HIDE DEF again
  <2> QED
    BY <1>0, <1>1, <1>2, <1>3, <2>1, <2>2 DEF PhaseInv
<1>8. ErrorHasCause'
  <2>1. \/ heard' = "not_found" /\ broken' = broken
        \/ heard' = "none"
        \/ broken' = TRUE
    BY DEF bt_gatt_dm_continue, CompleteWithout
  <2> QED
    BY <1>1, <2>1, CauseStays DEF ErrorHasCause
<1> QED
  BY <1>4, <1>5, <1>6, <1>7, <1>8 DEF IInv

\* The release of the data frees every chunk and gives up the lock.
LEMMA ReleaseKeeps ==
  ASSUME IInv, bt_gatt_dm_data_release
  PROVE  IInv'
<1>1. /\ TypeOK /\ LockInv /\ TableInv /\ ErrorHasCause /\ pending /\ mem.heap = mem.chunks
      /\ db' = db /\ up' = up /\ work' = FALSE /\ halted' = halted /\ running' = running
      /\ pending' = FALSE /\ locked' = FALSE /\ params' = params /\ heard' = heard /\ broken' = broken
      /\ attrs' = <<>> /\ mem' = [chunks |-> 0, used |-> 0, heap |-> mem.heap - mem.chunks]
  BY DEF IInv, bt_gatt_dm_data_release, svc_attr_memory_release, peer, LockInv
<1>2. mem' = [chunks |-> 0, used |-> 0, heap |-> 0] /\ ~running
  BY <1>1 DEF TypeOK, LockInv
<1>3. TypeOK'
  <2>1. attrs' \in Seq(Attrs) /\ Len(attrs') <= MaxAttrs /\ mem' \in MemTypes
    BY <1>1, <1>2, EmptyTypes
  <2> QED
    BY <1>1, <2>1 DEF TypeOK, MemTypes
<1>4. LockInv'
  BY <1>1, <1>2 DEF LockInv
<1>5. BlocksInv' /\ TableInv'
  BY <1>1, EmptyTable
<1>6. PhaseInv'
  BY <1>1, <1>2 DEF PhaseInv
<1>7. ErrorHasCause'
  BY <1>1, CauseStays
<1> QED
  BY <1>3, <1>4, <1>5, <1>6, <1>7 DEF IInv

\* A step that leaves the table alone leaves what is known of it.
LEMMA SameTable ==
  ASSUME IInv, db' = db, attrs' = attrs, params'.by_uuid = params.by_uuid
  PROVE  /\ TableInv' /\ first' = first /\ EndHandle(first)' = EndHandle(first)
         /\ Whole' <=> Whole
         /\ \A handle : Valued(handle)' <=> Valued(handle)
<1>1. first' = first
  BY DEF first
<1>2. \A h : EndHandle(h)' = EndHandle(h) /\ Members(h)' = Members(h) /\ Uuid(h)' = Uuid(h)
  BY SameCamera
<1>3. EndHandle(first)' = EndHandle(first)
  BY <1>1 DEF EndHandle
<1>4. Members(first)' = Members(first)
  BY <1>1, <1>3 DEF Members
<1>5. TableInv'
  BY <1>1, <1>4 DEF IInv, TableInv
<1>6. Whole' <=> Whole
  BY <1>4 DEF Whole
<1>7. \A handle : Valued(handle)' <=> Valued(handle)
  BY DEF Valued, Uuid
<1> QED
  BY <1>1, <1>3, <1>5, <1>6, <1>7

\* discovery_complete_not_found and discovery_complete_error leave the manager idle and
\* empty.
LEMMA GiveUpKeeps ==
  ASSUME IInv, running \/ work, NEW answer \in {"not_found", "error"}, CompleteWithout(answer),
         running' = FALSE, work' = FALSE, db' = db, up' = up, halted' = halted, params' = params,
         broken' \in BOOLEAN, broken => broken', answer = "error" => broken' \/ ErrorHasCause'
  PROVE  IInv'
<1>1. /\ TypeOK /\ LockInv /\ TableInv /\ ErrorHasCause /\ mem.heap = mem.chunks /\ ~pending
      /\ attrs' = <<>> /\ mem' = [chunks |-> 0, used |-> 0, heap |-> mem.heap - mem.chunks]
      /\ locked' = FALSE /\ heard' = answer /\ pending' = pending
  BY DEF IInv, LockInv, CompleteWithout, svc_attr_memory_release
<1>2. mem' = [chunks |-> 0, used |-> 0, heap |-> 0]
  BY <1>1 DEF TypeOK
<1>3. TypeOK'
  <2>1. attrs' \in Seq(Attrs) /\ Len(attrs') <= MaxAttrs /\ mem' \in MemTypes
    BY <1>1, <1>2, EmptyTypes
  <2> QED
    BY <1>1, <2>1 DEF TypeOK, MemTypes
<1>4. LockInv'
  BY <1>1, <1>2 DEF LockInv
<1>5. BlocksInv' /\ TableInv'
  BY <1>1, EmptyTable
<1>6. PhaseInv'
  BY <1>1 DEF PhaseInv
<1>7. ErrorHasCause'
  BY <1>1, CauseStays
<1> QED
  BY <1>3, <1>4, <1>5, <1>6, <1>7 DEF IInv

\* The work item goes on with the next phase, or gives the procedure up.
LEMMA WorkKeeps ==
  ASSUME IInv, gatt_discover_work
  PROVE  IInv'
<1>1. /\ TypeOK /\ LockInv /\ PhaseInv /\ ErrorHasCause /\ work /\ locked /\ ~running /\ ~pending
      /\ params.type # "primary"
      /\ work' = FALSE /\ db' = db /\ up' = up /\ halted' = halted /\ params' = params
  BY DEF IInv, LockInv, gatt_discover_work, peer
<1> DEFINE Goes == /\ running' = TRUE /\ locked' = locked /\ pending' = pending
                   /\ attrs' = attrs /\ mem' = mem /\ heard' = heard /\ broken' = broken
           Stops == CompleteWithout("error") /\ broken' = TRUE /\ running' = FALSE
<1>0. Goes \/ Stops
  BY <1>1 DEF gatt_discover_work, flags, data, TypeOK
<1>2. CASE Goes
  <2>1. /\ running' = TRUE /\ locked' = locked /\ pending' = pending /\ attrs' = attrs /\ mem' = mem
        /\ heard' = heard /\ broken' = broken
    BY <1>2
  <2>2. /\ TableInv' /\ first' = first /\ EndHandle(first)' = EndHandle(first)
        /\ Whole' <=> Whole
        /\ \A handle : Valued(handle)' <=> Valued(handle)
    BY <1>1, <2>1, SameTable
  <2>3. TypeOK' /\ BlocksInv'
    BY <1>1, <2>1 DEF IInv, TypeOK, BlocksInv
  <2>4. LockInv'
    BY <1>1, <2>1 DEF LockInv
  <2>5. PhaseInv'
    BY <1>1, <2>1, <2>2 DEF PhaseInv
  <2>6. ErrorHasCause'
    BY <1>1, <2>1, CauseStays
  <2> QED
    BY <2>2, <2>3, <2>4, <2>5, <2>6 DEF IInv
<1>3. CASE Stops
  <2>1. CompleteWithout("error") /\ broken' = TRUE /\ running' = FALSE
    BY <1>3
  <2> QED
    BY <1>1, <2>1, GiveUpKeeps
<1> QED
  BY <1>0, <1>2, <1>3

\* A link that is lost, or comes up, leaves the procedure as it is.
LEMMA LinkKeeps ==
  ASSUME IInv, LinkLost \/ LinkUp
  PROVE  IInv'
<1>1. /\ TypeOK /\ LockInv /\ PhaseInv /\ ErrorHasCause
      /\ db' = db /\ up' \in BOOLEAN /\ halted' = halted /\ params' = params /\ running' = running
      /\ work' = work /\ locked' = locked /\ pending' = pending /\ attrs' = attrs /\ mem' = mem
      /\ heard' = heard /\ broken' \in BOOLEAN /\ (broken => broken') /\ (up' \/ broken')
  BY DEF IInv, TypeOK, LinkLost, LinkUp, flags, data
<1>2. /\ TableInv' /\ first' = first /\ EndHandle(first)' = EndHandle(first)
      /\ Whole' <=> Whole
      /\ \A handle : Valued(handle)' <=> Valued(handle)
  BY <1>1, SameTable
<1>3. TypeOK' /\ BlocksInv'
  BY <1>1 DEF IInv, TypeOK, BlocksInv
<1>4. LockInv'
  BY <1>1 DEF LockInv
<1>5. PhaseInv'
  BY <1>1, <1>2 DEF PhaseInv
<1>6. ErrorHasCause'
  BY <1>1, CauseStays
<1> QED
  BY <1>2, <1>3, <1>4, <1>5, <1>6 DEF IInv

\* The entry attr_store fills.
LEMMA Entry ==
  ASSUME db \in Databases, NEW h \in DOMAIN db, NEW m \in MemTypes, NEW val \in Blocks
  PROVE  /\ attr_store(m, h, val) \in Attrs
         /\ attr_store(m, h, val).handle = h /\ attr_store(m, h, val).kind = db[h]
         /\ attr_store(m, h, val).at = Space(m, StoredWords(db[h]))
         /\ attr_store(m, h, val).val = val
<1>1. h \in Nat /\ db[h] \in Kinds
  BY DatabaseShape
<1>2. Space(m, StoredWords(db[h])) \in Blocks
  BY Sizes, Allocation DEF Placed, MemTypes
<1> DEFINE uuid == CASE db[h] = "chrc" -> <<"chrc", 0>>
                     [] db[h] \in ServiceKinds -> Uuid(h)
                     [] OTHER -> NoUuid
<1>3. uuid \in Uuids
  <2>1. <<"chrc", 0>> \in Uuids /\ NoUuid \in Uuids
    BY DEF Uuids, NoUuid, Kinds
  <2>2. Uuid(h) \in Uuids
    BY <1>1 DEF Uuid, Uuids
  <2>3. CASE db[h] = "chrc"
    BY <2>1, <2>3 DEF ServiceKinds
  <2>4. CASE db[h] \in ServiceKinds /\ db[h] # "chrc"
    BY <2>2, <2>4
  <2>5. CASE db[h] \notin ServiceKinds /\ db[h] # "chrc"
    BY <2>1, <2>5
  <2> QED
    BY <2>3, <2>4, <2>5
<1>4. attr_store(m, h, val) =
        [handle |-> h, kind |-> db[h], at |-> Space(m, StoredWords(db[h])), uuid |-> uuid, val |-> val]
  BY DEF attr_store
<1> HIDE DEF uuid
<1> QED
  BY <1>1, <1>2, <1>3, <1>4 DEF Attrs

\* The callback of a primary service, discovery_process_service.
LEMMA ServiceKeeps ==
  ASSUME IInv, discovery_process_service
  PROVE  IInv'
<1>1. /\ TypeOK /\ LockInv /\ PhaseInv /\ TableInv /\ ErrorHasCause
      /\ running /\ params.type = "primary" /\ attrs = <<>> /\ params.uuid = params.by_uuid
      /\ running' = FALSE /\ db' = db /\ up' = up /\ halted' = halted /\ ~halted
      /\ ~work /\ ~pending
  BY DEF IInv, LockInv, PhaseInv, Reports, discovery_process_service, peer
<1>2. CASE NoAttr /\ CompleteWithout("not_found") /\ UNCHANGED <<params, work>>
  <2>1. broken' \in BOOLEAN /\ (broken => broken') /\ work' = FALSE /\ params' = params
    BY <1>1, <1>2 DEF NoAttr, TypeOK
  <2> QED
    BY <1>1, <1>2, <2>1, GiveUpKeeps
<1>3. CASE broken' = TRUE /\ CompleteWithout("error") /\ UNCHANGED <<params, work>>
  <2>1. work' = FALSE /\ params' = params
    BY <1>1, <1>3 DEF TypeOK
  <2> QED
    BY <1>1, <1>3, <2>1, GiveUpKeeps
<1> DEFINE m1 == user_data_alloc(mem, StoredWords(db[Nearest]))
           len == get_uuid_size(db[Nearest])
           last == EndHandle(Nearest)
<1>4. CASE /\ Attr
           /\ attrs' = <<attr_store(mem, Nearest, Space(m1, len))>>
           /\ mem' = uuid_store(m1, db[Nearest])
           /\ \/ /\ last = Nearest
                 /\ params' = [params EXCEPT !.end_handle = Nearest]
                 /\ pending' = TRUE /\ heard' = "completed"
                 /\ UNCHANGED work
              \/ /\ last # Nearest
                 /\ params' = [params EXCEPT !.type = "attribute", !.uuid = FALSE,
                                             !.start_handle = Nearest + 1,
                                             !.end_handle = last]
                 /\ work' = TRUE
                 /\ UNCHANGED <<pending, heard>>
           /\ UNCHANGED <<locked, broken>>
  <2> DEFINE e == attr_store(mem, Nearest, Space(m1, len))
  <2>1. /\ Nearest \in DOMAIN db /\ db[Nearest] \in ServiceKinds
        /\ params.by_uuid => db[Nearest] = svc_uuid
    <3>1. Nearest \in Matching
      BY <1>1, <1>4, NearestMatches DEF Attr, TypeOK
    <3> QED
      BY <1>1, <3>1 DEF Matching, Matches, svc_uuid, ServiceKinds
  <2>2. /\ m1 \in MemTypes /\ m1.heap = m1.chunks
        /\ Placed(m1, Space(mem, StoredWords(db[Nearest])))
    BY <1>1, Sizes, Allocation DEF MemTypes, TypeOK, LockInv
  <2>3. /\ mem' \in MemTypes /\ mem'.heap = mem'.chunks
        /\ Placed(mem', Space(m1, len)) /\ Space(m1, len) # NoBlock
        /\ Placed(mem', Space(mem, StoredWords(db[Nearest])))
        /\ Apart(Space(mem, StoredWords(db[Nearest])), Space(m1, len))
    <3> HIDE DEF m1
    <3> QED
      BY <1>4, <2>2, Sizes, Allocation DEF MemTypes, uuid_store
  <2>4. /\ e \in Attrs /\ e.handle = Nearest /\ e.kind = db[Nearest]
        /\ e.at = Space(mem, StoredWords(db[Nearest])) /\ e.val = Space(m1, len)
    <3>1. mem \in MemTypes /\ Space(m1, len) \in Blocks
      BY <1>1, <2>3 DEF TypeOK, MemTypes, Placed
    <3> HIDE DEF m1, len
    <3> QED
      BY <1>1, <2>1, <3>1, Entry DEF TableInv
  <2>5. attrs' = <<e>>
    BY <1>4
  <2> HIDE DEF e, m1, len
  <2>6. Len(attrs') = 1 /\ attrs'[1] = e /\ attrs' \in Seq(Attrs) /\ attrs' # <<>>
    BY <2>4, <2>5
  <2>7. /\ Nearest \in Nat /\ last \in Nat /\ Nearest <= last
    BY <1>1, <2>1, DatabaseShape, EndHandleBounds DEF TableInv
  <2>16. /\ params' \in ParamTypes /\ params'.by_uuid = params.by_uuid
         /\ last = Nearest => params'.type = "primary"
         /\ last # Nearest =>
              /\ params'.type = "attribute"
              /\ params'.start_handle = Nearest + 1 /\ params'.end_handle = last
    <3> HIDE DEF last
    <3>0. params \in ParamTypes /\ "attribute" \in Phases /\ Nearest + 1 \in Nat
      BY <1>1, <2>7 DEF TypeOK, ParamTypes, Phases
    <3>1. CASE last = Nearest
      <4>1. params' = [params EXCEPT !.end_handle = Nearest]
        BY <1>4, <3>1
      <4> QED
        BY <1>1, <2>7, <3>0, <3>1, <4>1 DEF ParamTypes
    <3>2. CASE last # Nearest
      <4> DEFINE p1 == [params EXCEPT !.type = "attribute", !.uuid = FALSE]
      <4>1. params' = [p1 EXCEPT !.start_handle = Nearest + 1, !.end_handle = last]
        BY <1>4, <3>2
      <4>2. p1 \in ParamTypes /\ p1.type = "attribute" /\ p1.by_uuid = params.by_uuid
        BY <3>0 DEF ParamTypes
      <4> HIDE DEF p1
      <4> QED
        BY <2>7, <3>0, <3>2, <4>1, <4>2 DEF ParamTypes
    <3> QED
      BY <3>1, <3>2
  <2>8. TypeOK'
    <3>1. Len(attrs') <= MaxAttrs
      BY <2>6, DmConstants
    <3>2. params' \in ParamTypes
      BY <2>16
    <3> QED
      BY <1>1, <1>4, <2>3, <2>6, <3>1, <3>2 DEF TypeOK, ParamTypes, MemTypes
  <2>9. LockInv'
    <3> HIDE DEF last
    <3> QED
      BY <1>1, <1>4, <2>3, <2>16 DEF LockInv, TypeOK
  <2>10. BlocksInv'
    BY <2>3, <2>4, <2>6 DEF BlocksInv
  <2>11. first' = Nearest
    BY <2>4, <2>6 DEF first
  <2>13. TableInv'
    <3>1. Members(first)' = Members(Nearest)
      BY <1>1, <2>11 DEF Members, EndHandle
    <3>2. Nearest \in Members(Nearest)
      BY <1>1, <2>1, MembersOf DEF TableInv
    <3> QED
      BY <1>1, <2>1, <2>4, <2>6, <2>7, <2>11, <2>16, <3>1, <3>2 DEF TableInv
  <2>14. PhaseInv'
    <3>1. EndHandle(first)' = last
      BY <1>1, <2>11 DEF EndHandle
    <3>2. attrs'[1].kind \in ServiceKinds
      BY <2>1, <2>4, <2>6
    <3>3. \A handle : Valued(handle)'
      BY <2>6, <3>2 DEF Valued, ServiceKinds
    <3>4. last = Nearest => Whole'
      <4>1. Members(first)' = Members(Nearest)
        BY <1>1, <2>11 DEF Members, EndHandle
      <4>2. last = Nearest => \A h \in Members(Nearest) : h = Nearest
        BY <1>1, <2>1, <2>7, MembersOf, DatabaseShape DEF TableInv
      <4> QED
        BY <2>4, <2>6, <4>1, <4>2 DEF Whole
    <3> HIDE DEF last
    <3>5. CASE last = Nearest
      <4>1. /\ ~running' /\ ~work' /\ attrs' # <<>>
        BY <1>1, <1>4, <2>6, <3>5
      <4> QED
        BY <3>3, <3>4, <3>5, <4>1 DEF PhaseInv
    <3>6. CASE last # Nearest
      <4>1. /\ ~running' /\ ~pending' /\ attrs' # <<>>
        BY <1>1, <1>4, <2>6, <3>6
      <4>2. params'.start_handle = first' + Len(attrs') /\ params'.start_handle > first'
        BY <2>6, <2>7, <2>11, <2>16, <3>6
      <4> QED
        BY <2>16, <3>1, <3>6, <4>1, <4>2 DEF PhaseInv
    <3> QED
      BY <3>5, <3>6
  <2>15. ErrorHasCause'
    BY <1>1, <1>4, CauseStays
  <2> QED
    BY <2>8, <2>9, <2>10, <2>13, <2>14, <2>15 DEF IInv
<1> QED
  BY <1>2, <1>3, <1>4 DEF discovery_process_service

\* The entries of the table, one handle after the other.
LEMMA TableShape ==
  ASSUME IInv, attrs # <<>>
  PROVE  /\ Len(attrs) \in Nat \ {0} /\ Len(attrs) <= MaxAttrs
         /\ \A i \in 1..Len(attrs) : attrs[i] \in Attrs
         /\ first \in DOMAIN db /\ first \in Nat /\ EndHandle(first) \in Nat
         /\ \A i \in 1..Len(attrs) : attrs[i].handle = first + i - 1 /\ attrs[i].handle \in DOMAIN db
         /\ Sorted
<1>1. attrs \in Seq(Attrs) /\ Len(attrs) <= MaxAttrs /\ TableInv
  BY DEF IInv, TypeOK
<1>2. Len(attrs) \in Nat \ {0} /\ \A i \in 1..Len(attrs) : attrs[i] \in Attrs
  BY <1>1
<1>3. \A i \in 1..Len(attrs) : attrs[i].handle = first + i - 1 /\ attrs[i].handle \in DOMAIN db
  BY <1>1 DEF TableInv, Members
<1>4. first \in DOMAIN db
  BY <1>2, <1>3 DEF first
<1>5. first \in Nat /\ EndHandle(first) \in Nat
  BY <1>1, <1>4, DatabaseShape, EndHandleBounds DEF TableInv
<1>6. Sorted
  BY <1>2, <1>3, <1>5 DEF Sorted, Attrs
<1> QED
  BY <1>1, <1>2, <1>3, <1>4, <1>5, <1>6

\* In the search for attributes the next one is the one behind the last of the table, and
\* without one the table has them all.
LEMMA NextAttribute ==
  ASSUME IInv, running, params.type = "attribute"
  PROVE  /\ attrs # <<>>
         /\ Matching # {} => Nearest = first + Len(attrs) /\ Nearest \in Members(first)
         /\ Matching = {} => Whole
<1>1. /\ attrs # <<>> /\ params.start_handle = first + Len(attrs)
      /\ params.end_handle = EndHandle(first) /\ db \in Databases
  BY DEF IInv, PhaseInv, TableInv
<1>2. /\ Len(attrs) \in Nat \ {0} /\ first \in DOMAIN db /\ first \in Nat /\ EndHandle(first) \in Nat
      /\ \A i \in 1..Len(attrs) : attrs[i].handle = first + i - 1
  BY <1>1, TableShape
<1>3. PICK n \in Nat : DOMAIN db = 1..n
  BY <1>1, DatabaseShape
<1>4. \A g \in DOMAIN db : g \in Members(first) <=> first <= g /\ g <= EndHandle(first)
  BY <1>1, <1>2, MembersOf
<1>5. \A g : g \in Matching <=> g \in DOMAIN db /\ first + Len(attrs) <= g /\ g <= EndHandle(first)
  BY <1>1, <1>2, <1>3 DEF Matching, Matches
<1>6. ASSUME Matching # {}
      PROVE  Nearest = first + Len(attrs) /\ Nearest \in Members(first)
  <2>1. Nearest \in Matching /\ \A g \in Matching : Nearest <= g
    BY <1>1, <1>2, <1>6, NearestMatches
  <2>2. Nearest \in 1..n /\ first + Len(attrs) <= Nearest /\ Nearest <= EndHandle(first)
    BY <1>3, <1>5, <2>1
  <2>3. first + Len(attrs) \in 1..n /\ first + Len(attrs) <= EndHandle(first)
    BY <1>2, <1>3, <2>2
  <2>4. first + Len(attrs) \in Matching
    BY <1>2, <1>3, <1>5, <2>3
  <2>5. Nearest <= first + Len(attrs)
    BY <2>1, <2>4
  <2>6. Nearest \in Nat /\ first + Len(attrs) \in Nat
    BY <1>2, <2>2
  <2>7. Nearest = first + Len(attrs)
    BY <2>2, <2>5, <2>6
  <2>8. Nearest \in DOMAIN db /\ first <= Nearest
    BY <1>2, <1>3, <2>2, <2>7
  <2>9. Nearest \in Members(first)
    BY <1>4, <2>2, <2>8
  <2> QED
    BY <2>7, <2>9
<1>7. ASSUME Matching = {}, NEW g \in Members(first)
      PROVE  \E i \in 1..Len(attrs) : attrs[i].handle = g
  <2>1. g \in 1..n /\ first <= g /\ g <= EndHandle(first)
    BY <1>3, <1>4 DEF Members
  <2>2. g < first + Len(attrs)
    BY <1>2, <1>3, <1>5, <1>7, <2>1
  <2>3. g - first + 1 \in 1..Len(attrs)
    BY <1>2, <2>1, <2>2
  <2>4. attrs[g - first + 1].handle = g
    BY <1>2, <2>1, <2>3
  <2> QED
    BY <2>3, <2>4
<1> QED
  BY <1>1, <1>6, <1>7 DEF Whole

\* A service of more members than the table has entries.
LEMMA TooMany ==
  ASSUME IInv, attrs # <<>>, first + Len(attrs) \in Members(first), TableFull
  PROVE  \E h \in DOMAIN db : db[h] \in ServiceKinds /\ Cardinality(Members(h)) > MaxAttrs
<1>1. /\ Len(attrs) \in Nat \ {0} /\ first \in DOMAIN db /\ first \in Nat /\ EndHandle(first) \in Nat
  BY TableShape
<1>2. db \in Databases /\ db[first] \in ServiceKinds
  BY DEF IInv, TableInv
<1>3. PICK n \in Nat : DOMAIN db = 1..n
  BY <1>2, DatabaseShape
<1>4. \A g \in DOMAIN db : g \in Members(first) <=> first <= g /\ g <= EndHandle(first)
  BY <1>1, <1>2, MembersOf
<1>5. Members(first) \subseteq 1..n
  BY <1>3 DEF Members
<1>6. first..(first + Len(attrs)) \subseteq Members(first)
  <2>1. /\ first + Len(attrs) \in 1..n /\ first + Len(attrs) <= EndHandle(first)
        /\ first \in 1..n
    BY <1>1, <1>3, <1>4, <1>5
  <2>2. ASSUME NEW g \in first..(first + Len(attrs))
        PROVE  g \in 1..n /\ first <= g /\ g <= EndHandle(first)
    BY <1>1, <2>1
  <2> QED
    BY <1>3, <1>4, <2>2
<1>7. IsFiniteSet(Members(first))
  <2>1. IsFiniteSet(1..n)
    BY FS_Interval
  <2> QED
    BY <1>5, <2>1, FS_Subset
<1>8. Cardinality(first..(first + Len(attrs))) = Len(attrs) + 1
  <2>1. PICK k \in Nat : k = first + Len(attrs)
    BY <1>1
  <2>2. Cardinality(first..k) = IF first > k THEN 0 ELSE k - first + 1
    <3>1. first \in Int /\ k \in Int
      BY <1>1, <2>1
    <3> QED
      BY <3>1, FS_Interval
  <2>3. first <= k /\ k - first + 1 = Len(attrs) + 1
    BY <1>1, <2>1
  <2> QED
    BY <1>1, <2>1, <2>2, <2>3
<1>9. Cardinality(first..(first + Len(attrs))) <= Cardinality(Members(first)) /\ Cardinality(Members(first)) \in Nat
  BY <1>6, <1>7, FS_Subset, FS_CardinalityType
<1>10. Len(attrs) >= MaxAttrs /\ MaxAttrs \in Nat
  BY DmConstants DEF TableFull
<1>11. Cardinality(Members(first)) > MaxAttrs
  BY <1>1, <1>8, <1>9, <1>10
<1> QED
  BY <1>1, <1>2, <1>11

\* An entry more.
LEMMA AppendKeeps ==
  ASSUME IInv, running, params.type = "attribute", Attr, ~TableFull,
         attrs' = Append(attrs, attr_store(mem, Nearest, NoBlock)),
         mem' = user_data_alloc(mem, StoredWords(db[Nearest])),
         params' = [params EXCEPT !.start_handle = Nearest + 1],
         UNCHANGED <<peer, running, work, flags, heard, broken, halted>>
  PROVE  IInv'
<1> DEFINE e == attr_store(mem, Nearest, NoBlock)
           len == StoredWords(db[Nearest])
<1>1. /\ TypeOK /\ LockInv /\ PhaseInv /\ TableInv /\ BlocksInv /\ ErrorHasCause
      /\ attrs # <<>> /\ params.end_handle = EndHandle(first)
      /\ ~work /\ ~pending /\ db \in Databases
  BY DEF IInv, LockInv, PhaseInv, TableInv
<1>2. Nearest = first + Len(attrs) /\ Nearest \in Members(first) /\ Nearest \in DOMAIN db
  BY NextAttribute DEF Attr, Members
<1>3. /\ Len(attrs) \in Nat \ {0} /\ first \in DOMAIN db /\ first \in Nat /\ EndHandle(first) \in Nat
      /\ \A i \in 1..Len(attrs) : attrs[i].handle = first + i - 1 /\ attrs[i] \in Attrs
  BY <1>1, TableShape
<1>4. /\ mem' \in MemTypes /\ mem'.heap = mem'.chunks
      /\ Placed(mem', Space(mem, len))
      /\ \A b : Placed(mem, b) => Placed(mem', b) /\ Apart(b, Space(mem, len))
  BY <1>1, Sizes, Allocation DEF MemTypes, TypeOK, LockInv
<1>5. /\ e \in Attrs /\ e.handle = Nearest /\ e.kind = db[Nearest]
      /\ e.at = Space(mem, len) /\ e.val = NoBlock
  <2>1. mem \in MemTypes /\ NoBlock \in Blocks
    BY <1>1 DEF TypeOK, MemTypes, NoBlock, Blocks
  <2> QED
    BY <1>1, <1>2, <2>1, Entry
<1> HIDE DEF e, len
<1>6. /\ attrs' \in Seq(Attrs) /\ Len(attrs') = Len(attrs) + 1 /\ attrs' # <<>>
      /\ attrs'[Len(attrs) + 1] = e
      /\ \A i \in 1..Len(attrs) : attrs'[i] = attrs[i]
  <2>1. attrs \in Seq(Attrs) /\ attrs' = Append(attrs, e)
    BY <1>1 DEF TypeOK, e
  <2> QED
    BY <1>5, <2>1
<1>7. \A i \in 1..Len(attrs') : (i \in 1..Len(attrs) /\ attrs'[i] = attrs[i]) \/ (i = Len(attrs) + 1 /\ attrs'[i] = e)
  BY <1>3, <1>6
<1>8. /\ params' \in ParamTypes /\ params'.by_uuid = params.by_uuid /\ params'.type = "attribute"
      /\ params'.end_handle = EndHandle(first) /\ params'.start_handle = first + Len(attrs')
  <2>1. params \in ParamTypes /\ Nearest + 1 \in Nat
    BY <1>1, <1>2, <1>3 DEF TypeOK, ParamTypes
  <2>2. /\ params' \in ParamTypes /\ params'.by_uuid = params.by_uuid /\ params'.type = params.type
        /\ params'.end_handle = params.end_handle /\ params'.start_handle = Nearest + 1
    BY <2>1 DEF ParamTypes
  <2>3. Nearest + 1 = first + Len(attrs')
    BY <1>2, <1>3, <1>6
  <2> QED
    BY <1>1, <2>2, <2>3
<1>9. TypeOK'
  <2>1. Len(attrs') <= MaxAttrs
    BY <1>3, <1>6, DmConstants DEF TableFull
  <2> QED
    BY <1>1, <1>4, <1>6, <1>8, <2>1 DEF TypeOK, MemTypes, ParamTypes, peer, flags
<1>10. LockInv'
  BY <1>1, <1>4, <1>8 DEF LockInv, peer, flags
<1>11. BlocksInv'
  <2>1. ASSUME NEW i \in 1..Len(attrs')
        PROVE  /\ Placed(mem', attrs'[i].at)
               /\ attrs'[i].val # NoBlock => Placed(mem', attrs'[i].val)
    BY <1>1, <1>4, <1>5, <1>7 DEF BlocksInv
  <2>2. ASSUME NEW i \in 1..Len(attrs), NEW j \in 1..Len(attrs)
        PROVE  /\ i # j => Apart(attrs'[i].at, attrs'[j].at)
               /\ attrs'[j].val # NoBlock => Apart(attrs'[i].at, attrs'[j].val)
               /\ i # j /\ attrs'[i].val # NoBlock /\ attrs'[j].val # NoBlock
                    => Apart(attrs'[i].val, attrs'[j].val)
    BY <1>1, <1>6 DEF BlocksInv
  <2>3. ASSUME NEW i \in 1..Len(attrs)
        PROVE  /\ Apart(attrs[i].at, e.at) /\ Apart(e.at, attrs[i].at)
               /\ attrs[i].val # NoBlock => Apart(attrs[i].val, e.at) /\ Apart(e.at, attrs[i].val)
    BY <1>1, <1>4, <1>5 DEF BlocksInv, Apart
  <2> QED
    BY <1>5, <1>6, <1>7, <2>1, <2>2, <2>3 DEF BlocksInv
<1>12. first' = first /\ EndHandle(first)' = EndHandle(first) /\ Members(first)' = Members(first)
  <2>1. first' = first /\ db' = db
    BY <1>3, <1>6 DEF first, peer
  <2> QED
    BY <2>1 DEF Members, EndHandle
<1>13. TableInv'
  <2>1. db' = db
    BY DEF peer
  <2>2. \A i \in 1..Len(attrs') :
          /\ attrs'[i].handle = first + i - 1
          /\ attrs'[i].handle \in Members(first)
          /\ attrs'[i].kind = db[attrs'[i].handle]
    BY <1>1, <1>2, <1>3, <1>5, <1>7 DEF TableInv
  <2> QED
    BY <1>1, <1>8, <1>12, <2>1, <2>2 DEF TableInv
<1>14. PhaseInv'
  <2>1. params'.start_handle > first
    BY <1>3, <1>6, <1>8
  <2> QED
    BY <1>1, <1>6, <1>8, <1>12, <2>1 DEF PhaseInv, flags
<1>15. ErrorHasCause'
  BY <1>1, CauseStays DEF peer
<1> QED
  BY <1>9, <1>10, <1>11, <1>13, <1>14, <1>15 DEF IInv

\* The callback of an attribute, discovery_process_attribute.
LEMMA AttributeKeeps ==
  ASSUME IInv, discovery_process_attribute
  PROVE  IInv'
<1>1. /\ TypeOK /\ LockInv /\ PhaseInv /\ TableInv /\ BlocksInv /\ ErrorHasCause
      /\ running /\ ~halted /\ params.type = "attribute" /\ attrs # <<>>
      /\ params.end_handle = EndHandle(first)
      /\ ~work /\ ~pending /\ db' = db /\ up' = up
  BY DEF IInv, LockInv, PhaseInv, Reports, discovery_process_attribute, peer
<1>2. /\ Len(attrs) \in Nat \ {0} /\ first \in DOMAIN db /\ first \in Nat
      /\ \A i \in 1..Len(attrs) : attrs[i].handle = first + i - 1
  BY <1>1, TableShape
<1>3. CASE /\ NoAttr
           /\ running' = FALSE
           /\ IF Len(attrs) > 1
              THEN /\ params' = [params EXCEPT !.type = "characteristic",
                                               !.start_handle = attrs[1].handle + 1]
                   /\ work' = TRUE
                   /\ UNCHANGED <<flags, data, heard>>
              ELSE discovery_complete /\ UNCHANGED <<params, work>>
           /\ UNCHANGED halted
  <2>1. /\ broken' \in BOOLEAN /\ (broken => broken') /\ (~broken' => Whole)
        /\ attrs' = attrs /\ mem' = mem /\ locked' = locked
    BY <1>1, <1>3, NextAttribute DEF NoAttr, TypeOK, LockInv, discovery_complete, flags, data
  <2>2. params' \in ParamTypes /\ params'.by_uuid = params.by_uuid /\ params'.type # "primary"
    <3>1. params \in ParamTypes /\ "characteristic" \in Phases /\ first + 1 \in Nat
      BY <1>1, <1>2 DEF TypeOK, ParamTypes, Phases
    <3>2. params' = params \/ params' = [params EXCEPT !.type = "characteristic", !.start_handle = first + 1]
      BY <1>3 DEF first
    <3> QED
      BY <1>1, <3>1, <3>2 DEF ParamTypes
  <2>3. /\ TableInv' /\ first' = first /\ EndHandle(first)' = EndHandle(first)
        /\ Whole' <=> Whole
        /\ \A handle : Valued(handle)' <=> Valued(handle)
    BY <1>1, <2>1, <2>2, SameTable
  <2>4. attrs[1].kind \in ServiceKinds
    BY <1>1, <1>2 DEF TableInv, first
  <2>5. TypeOK' /\ BlocksInv'
    BY <1>1, <1>3, <2>1, <2>2 DEF TypeOK, ParamTypes, BlocksInv, discovery_complete, flags
  <2>6. LockInv'
    BY <1>1, <1>3, <2>1, <2>2 DEF LockInv, TypeOK, discovery_complete, flags
  <2>7. PhaseInv'
    <3>1. CASE Len(attrs) > 1
      <4>1. /\ params'.type = "characteristic" /\ params'.start_handle = first + 1
            /\ params'.end_handle = EndHandle(first)
        BY <1>1, <1>3, <3>1 DEF TypeOK, first
      <4>2. Valued(first + 1)
        BY <1>2, <2>4 DEF Valued, ServiceKinds
      <4>3. first + 1 > first /\ ~running' /\ ~pending'
        BY <1>1, <1>2, <1>3, <3>1 DEF flags
      <4> QED
        BY <1>1, <2>1, <2>3, <4>1, <4>2, <4>3 DEF PhaseInv
    <3>2. CASE ~(Len(attrs) > 1)
      <4>0. Len(attrs) \in Nat \ {0}
        BY <1>2
      <4>1. Len(attrs) = 1
        BY <3>2, <4>0
      <4>2. Valued(LastHandle + 1)
        BY <2>4, <4>1 DEF Valued, ServiceKinds
      <4>3. ~running' /\ ~work'
        BY <1>1, <1>3, <3>2
      <4> QED
        BY <1>1, <2>1, <2>3, <4>2, <4>3 DEF PhaseInv
    <3> QED
      BY <3>1, <3>2
  <2>8. ErrorHasCause'
    BY <1>1, <1>3, <2>1, CauseStays DEF discovery_complete
  <2> QED
    BY <2>3, <2>5, <2>6, <2>7, <2>8 DEF IInv
<1>4. CASE /\ Attr
           /\ TableFull \/ CallocFails(mem, StoredWords(db[Nearest]))
           /\ broken' = (broken \/ ~TableFull)
           /\ running' = FALSE
           /\ IF db[Nearest] = "chrc"
              THEN halted' = TRUE /\ UNCHANGED <<flags, data, heard>>
              ELSE CompleteWithout("error") /\ UNCHANGED halted
           /\ UNCHANGED <<params, work>>
  <2>1. /\ broken' \in BOOLEAN /\ (broken => broken') /\ params' = params /\ work' = FALSE
    BY <1>1, <1>4 DEF TypeOK
  <2>2. ~broken' => \E h \in DOMAIN db : db[h] \in ServiceKinds /\ Cardinality(Members(h)) > MaxAttrs
    BY <1>1, <1>4, NextAttribute, TooMany DEF Attr
  <2>3. ErrorHasCause'
    <3>1. \A h : Members(h)' = Members(h)
      BY <1>1, SameCamera
    <3> QED
      BY <1>1, <2>2, <3>1 DEF ErrorHasCause
  <2>4. CASE db[Nearest] = "chrc"
    <3>1. /\ halted' = TRUE /\ attrs' = attrs /\ mem' = mem /\ heard' = heard
          /\ locked' = locked /\ pending' = pending
      BY <1>4, <2>4 DEF flags, data
    <3>2. TableInv'
      BY <1>1, <2>1, <3>1, SameTable
    <3>3. TypeOK' /\ BlocksInv'
      BY <1>1, <1>4, <2>1, <3>1 DEF TypeOK, BlocksInv
    <3>4. LockInv' /\ PhaseInv'
      BY <1>1, <1>4, <2>1, <3>1 DEF LockInv, PhaseInv
    <3> QED
      BY <2>3, <3>2, <3>3, <3>4 DEF IInv
  <2>5. CASE db[Nearest] # "chrc"
    BY <1>1, <1>4, <2>1, <2>3, <2>5, GiveUpKeeps
  <2> QED
    BY <2>4, <2>5
<1>5. CASE /\ Attr
           /\ ~TableFull
           /\ attrs' = Append(attrs, attr_store(mem, Nearest, NoBlock))
           /\ mem' = user_data_alloc(mem, StoredWords(db[Nearest]))
           /\ params' = [params EXCEPT !.start_handle = Nearest + 1]
           /\ UNCHANGED <<running, work, flags, heard, broken, halted>>
  BY <1>1, <1>5, AppendKeeps DEF peer
<1> QED
  BY <1>3, <1>4, <1>5 DEF discovery_process_attribute

\* In the search for characteristics the ones behind those that have their values come
\* next, and without one all have them.
LEMMA NextCharacteristic ==
  ASSUME IInv, running, params.type = "characteristic"
  PROVE  /\ attrs # <<>>
         /\ Matching # {} =>
              /\ Nearest \in Members(first) /\ db[Nearest] = "chrc"
              /\ \A i \in 1..Len(attrs) :
                   attrs[i].kind = "chrc" /\ attrs[i].handle < Nearest =>
                     attrs[i].handle < params.start_handle
         /\ Matching = {} => Valued(LastHandle + 1)
<1>1. /\ attrs # <<>> /\ params.start_handle > first /\ params.start_handle \in Nat
      /\ params.end_handle = EndHandle(first) /\ db \in Databases
      /\ Valued(params.start_handle)
      /\ \A i \in 1..Len(attrs) :
           attrs[i].handle \in Members(first) /\ attrs[i].kind = db[attrs[i].handle]
  BY DEF IInv, PhaseInv, TableInv, TypeOK
<1>2. first \in DOMAIN db /\ first \in Nat /\ EndHandle(first) \in Nat
  BY <1>1, TableShape
<1>3. PICK n \in Nat : DOMAIN db = 1..n
  BY <1>1, DatabaseShape
<1>4. \A g \in DOMAIN db : g \in Members(first) <=> first <= g /\ g <= EndHandle(first)
  BY <1>1, <1>2, MembersOf
<1>5. \A g : g \in Matching <=> /\ g \in 1..n /\ db[g] = "chrc"
                                /\ params.start_handle <= g /\ g <= EndHandle(first)
  BY <1>1, <1>2, <1>3 DEF Matching, Matches
<1>6. ASSUME NEW i \in 1..Len(attrs), attrs[i].kind = "chrc"
      PROVE  /\ attrs[i].handle \in 1..n
             /\ attrs[i].handle < params.start_handle \/ attrs[i].handle \in Matching
  <2>1. attrs[i].handle \in 1..n /\ attrs[i].handle <= EndHandle(first) /\ db[attrs[i].handle] = "chrc"
    BY <1>1, <1>3, <1>4, <1>6 DEF Members
  <2>2. attrs[i].handle < params.start_handle \/ params.start_handle <= attrs[i].handle
    BY <1>1, <2>1
  <2> QED
    BY <1>5, <2>1, <2>2
<1>7. ASSUME Matching # {}
      PROVE  /\ Nearest \in Members(first) /\ db[Nearest] = "chrc"
             /\ \A i \in 1..Len(attrs) :
                  attrs[i].kind = "chrc" /\ attrs[i].handle < Nearest =>
                    attrs[i].handle < params.start_handle
  <2>1. Nearest \in Matching /\ \A g \in Matching : Nearest <= g
    BY <1>1, <1>7, NearestMatches
  <2>2. /\ Nearest \in 1..n /\ db[Nearest] = "chrc"
        /\ params.start_handle <= Nearest /\ Nearest <= EndHandle(first)
    BY <1>5, <2>1
  <2>3. first <= Nearest
    BY <1>1, <1>2, <2>2
  <2>4. Nearest \in Members(first)
    BY <1>3, <1>4, <2>2, <2>3
  <2>5. ASSUME NEW i \in 1..Len(attrs), attrs[i].kind = "chrc", attrs[i].handle < Nearest
        PROVE  attrs[i].handle < params.start_handle
    <3>1. attrs[i].handle \notin Matching
      BY <1>6, <2>1, <2>2, <2>5
    <3> QED
      BY <1>6, <2>5, <3>1
  <2> QED
    BY <2>2, <2>4, <2>5
<1>8. ASSUME Matching = {}
      PROVE  Valued(LastHandle + 1)
  BY <1>1, <1>6, <1>8 DEF Valued
<1> QED
  BY <1>1, <1>7, <1>8

\* The value of the characteristic in the table.
LEMMA ValueKeeps ==
  ASSUME IInv, running, params.type = "characteristic", Attr,
         NEW i, i = attr_find_by_handle(Nearest), i # 0,
         NEW len, len = get_uuid_size("val"),
         attrs' = [attrs EXCEPT ![i].uuid = Uuid(Nearest + 1), ![i].val = Space(mem, len)],
         mem' = uuid_store(mem, "val"),
         params' = [params EXCEPT !.start_handle = Nearest + 1],
         UNCHANGED <<peer, work, running, flags, heard, broken, halted>>
  PROVE  IInv'
<1>1. /\ TypeOK /\ LockInv /\ PhaseInv /\ TableInv /\ BlocksInv /\ ErrorHasCause
      /\ attrs # <<>> /\ params.end_handle = EndHandle(first)
      /\ Valued(params.start_handle) /\ (~broken => Whole)
      /\ ~work /\ ~pending /\ db \in Databases
  BY DEF IInv, LockInv, PhaseInv, TableInv
<1>2. /\ Nearest \in Members(first) /\ db[Nearest] = "chrc"
      /\ \A j \in 1..Len(attrs) :
           attrs[j].kind = "chrc" /\ attrs[j].handle < Nearest =>
             attrs[j].handle < params.start_handle
  BY NextCharacteristic DEF Attr
<1>3. /\ Len(attrs) \in Nat \ {0} /\ first \in DOMAIN db /\ first \in Nat /\ EndHandle(first) \in Nat
      /\ Sorted
      /\ \A j \in 1..Len(attrs) : attrs[j].handle = first + j - 1 /\ attrs[j] \in Attrs
  BY <1>1, TableShape
<1>4. /\ Nearest \in DOMAIN db /\ Nearest \in Nat /\ first <= Nearest
      /\ Nearest + 1 \in Nat /\ db[Nearest + 1] = "val" /\ Nearest + 1 \in DOMAIN db
  BY <1>1, <1>2, <1>3, DatabaseShape, MembersOf DEF Members
<1>5. i \in 1..Len(attrs) /\ attrs[i].handle = Nearest
  BY <1>3, <1>4, FindsByHandle
<1>6. /\ mem' \in MemTypes /\ mem'.heap = mem'.chunks
      /\ Placed(mem', Space(mem, len)) /\ Space(mem, len) # NoBlock
      /\ \A b : Placed(mem, b) => Placed(mem', b) /\ Apart(b, Space(mem, len))
  BY <1>1, Sizes, Allocation DEF MemTypes, TypeOK, LockInv, uuid_store
<1>7. Uuid(Nearest + 1) = <<"val", Nearest + 1>> /\ Uuid(Nearest + 1) \in Uuids
  BY <1>4 DEF Uuid, Uuids, Kinds
<1> DEFINE v == Space(mem, len)
           u == Uuid(Nearest + 1)
<1>8. /\ attrs' \in Seq(Attrs) /\ Len(attrs') = Len(attrs)
      /\ \A j \in 1..Len(attrs) : j # i => attrs'[j] = attrs[j]
      /\ attrs'[i].handle = attrs[i].handle /\ attrs'[i].kind = attrs[i].kind /\ attrs'[i].at = attrs[i].at
      /\ attrs'[i].uuid = u /\ attrs'[i].val = v
  <2>1. v \in Blocks /\ u \in Uuids /\ attrs \in Seq(Attrs)
    BY <1>1, <1>6, <1>7 DEF Placed, TypeOK
  <2> HIDE DEF v, u
  <2>2. attrs' = [attrs EXCEPT ![i] = [attrs[i] EXCEPT !.uuid = u, !.val = v]]
    BY <1>5, <2>1 DEF v, u
  <2>3. attrs[i] \in Attrs
    BY <1>3, <1>5
  <2> DEFINE x == [attrs[i] EXCEPT !.uuid = u, !.val = v]
  <2>4. /\ x \in Attrs
        /\ x.handle = attrs[i].handle /\ x.kind = attrs[i].kind /\ x.at = attrs[i].at
        /\ x.uuid = u /\ x.val = v
    BY <2>1, <2>3 DEF Attrs
  <2>5. attrs' = [attrs EXCEPT ![i] = x]
    BY <2>2
  <2> HIDE DEF x
  <2>6. Replaced(attrs, i, x, Attrs)
    BY <1>5, <2>1, <2>4, ReplaceOne
  <2>7. /\ attrs' \in Seq(Attrs) /\ Len(attrs') = Len(attrs) /\ attrs'[i] = x
        /\ \A j \in 1..Len(attrs) : j # i => attrs'[j] = attrs[j]
    BY <2>5, <2>6 DEF Replaced
  <2> QED
    BY <2>4, <2>7
<1> HIDE DEF v, u
<1>9. \A j \in 1..Len(attrs) : /\ attrs'[j].handle = attrs[j].handle /\ attrs'[j].kind = attrs[j].kind
                               /\ attrs'[j].at = attrs[j].at
                               /\ \/ j = i /\ attrs'[j].uuid = u /\ attrs'[j].val = v
                                  \/ j # i /\ attrs'[j].uuid = attrs[j].uuid /\ attrs'[j].val = attrs[j].val
  BY <1>5, <1>8
<1>10. /\ params' \in ParamTypes /\ params'.by_uuid = params.by_uuid /\ params'.type = "characteristic"
       /\ params'.end_handle = EndHandle(first) /\ params'.start_handle = Nearest + 1
  BY <1>1, <1>4 DEF ParamTypes, TypeOK
<1>11. TypeOK'
  BY <1>1, <1>6, <1>8, <1>10 DEF TypeOK, MemTypes, ParamTypes, peer, flags
<1>12. LockInv'
  BY <1>1, <1>6, <1>8, <1>10 DEF LockInv, peer, flags
<1>13. BlocksInv'
  <2>1. ASSUME NEW j \in 1..Len(attrs)
        PROVE  /\ Placed(mem', attrs'[j].at)
               /\ attrs'[j].val # NoBlock => Placed(mem', attrs'[j].val)
    BY <1>1, <1>6, <1>9 DEF BlocksInv, v
  <2>2. ASSUME NEW j \in 1..Len(attrs)
        PROVE  /\ Apart(attrs[j].at, v)
               /\ attrs[j].val # NoBlock => Apart(attrs[j].val, v) /\ Apart(v, attrs[j].val)
    BY <1>1, <1>6 DEF BlocksInv, v, Apart
  <2>3. ASSUME NEW j \in 1..Len(attrs), NEW k \in 1..Len(attrs)
        PROVE  /\ j # k => Apart(attrs'[j].at, attrs'[k].at)
               /\ attrs'[k].val # NoBlock => Apart(attrs'[j].at, attrs'[k].val)
               /\ j # k /\ attrs'[j].val # NoBlock /\ attrs'[k].val # NoBlock
                    => Apart(attrs'[j].val, attrs'[k].val)
    BY <1>1, <1>9, <2>2 DEF BlocksInv
  <2> QED
    BY <1>8, <2>1, <2>3 DEF BlocksInv
<1>14. first' = first /\ EndHandle(first)' = EndHandle(first) /\ Members(first)' = Members(first)
  <2>1. first' = first /\ db' = db
    BY <1>3, <1>9 DEF first, peer
  <2> QED
    BY <2>1 DEF Members, EndHandle
<1>15. attrs' # <<>>
  BY <1>3, <1>8
<1>16. TableInv'
  <2>1. db' = db
    BY DEF peer
  <2> QED
    BY <1>1, <1>8, <1>9, <1>10, <1>14, <2>1 DEF TableInv
<1>17. PhaseInv'
  <2>1. params'.start_handle > first
    BY <1>3, <1>4, <1>10
  <2>2. Valued(params.start_handle)'
    <3>1. ASSUME NEW j \in 1..Len(attrs), attrs'[j].kind = "chrc", attrs'[j].handle < Nearest + 1
          PROVE  attrs'[j].uuid = Uuid(attrs[j].handle + 1)
      <4>1. CASE j = i
        BY <1>5, <1>9, <4>1 DEF u
      <4>2. CASE j # i
        <5>1. attrs[j].handle # Nearest
          <6>1. attrs[j].handle = first + j - 1 /\ attrs[i].handle = first + i - 1 /\ first \in Nat
            BY <1>3, <1>5
          <6> QED
            BY <1>5, <4>2, <6>1
        <5>2. attrs[j].handle < Nearest
          BY <1>3, <1>4, <1>9, <3>1, <5>1
        <5> QED
          BY <1>1, <1>2, <1>9, <3>1, <4>2, <5>2 DEF Valued
      <4> QED
        BY <4>1, <4>2
    <3>2. \A h : Uuid(h)' = Uuid(h)
      BY SameCamera DEF peer
    <3> QED
      BY <1>8, <1>9, <1>10, <3>1, <3>2 DEF Valued
  <2>3. ~broken' => Whole'
    BY <1>1, <1>8, <1>9, <1>14 DEF Whole
  <2> QED
    BY <1>1, <1>10, <1>14, <1>15, <2>1, <2>2, <2>3 DEF PhaseInv, flags
<1>18. ErrorHasCause'
  BY <1>1, CauseStays DEF peer
<1> QED
  BY <1>11, <1>12, <1>13, <1>16, <1>17, <1>18 DEF IInv

\* The callback of a characteristic, discovery_process_characteristic.
LEMMA CharacteristicKeeps ==
  ASSUME IInv, discovery_process_characteristic
  PROVE  IInv'
<1>1. /\ TypeOK /\ LockInv /\ PhaseInv /\ TableInv /\ BlocksInv /\ ErrorHasCause
      /\ running /\ params.type = "characteristic" /\ attrs # <<>>
      /\ (~broken => Whole)
      /\ ~work /\ work' = work /\ ~pending /\ db' = db /\ up' = up /\ halted' = halted
  BY DEF IInv, LockInv, PhaseInv, Reports, discovery_process_characteristic, peer
<1>2. CASE /\ NoAttr
           /\ running' = FALSE
           /\ discovery_complete
           /\ UNCHANGED params
  <2>1. /\ broken' \in BOOLEAN /\ (broken => broken') /\ (~broken' => Valued(LastHandle + 1))
        /\ attrs' = attrs /\ mem' = mem /\ locked' = locked /\ pending' = TRUE /\ heard' = "completed"
    BY <1>1, <1>2, NextCharacteristic DEF NoAttr, TypeOK, LockInv, discovery_complete, data
  <2>2. /\ TableInv' /\ (Whole' <=> Whole)
        /\ \A handle : Valued(handle)' <=> Valued(handle)
    BY <1>1, <1>2, <2>1, SameTable
  <2>3. TypeOK' /\ BlocksInv'
    BY <1>1, <1>2, <2>1 DEF TypeOK, BlocksInv
  <2>4. LockInv'
    BY <1>1, <1>2, <2>1 DEF LockInv
  <2>5. PhaseInv'
    BY <1>1, <1>2, <2>1, <2>2 DEF PhaseInv
  <2>6. ErrorHasCause'
    BY <1>1, <2>1, CauseStays
  <2> QED
    BY <2>2, <2>3, <2>4, <2>5, <2>6 DEF IInv
<1>3. CASE /\ Attr
           /\ running' = FALSE
           /\ broken' = (broken \/ attr_find_by_handle(Nearest) # 0)
           /\ CompleteWithout("error")
           /\ UNCHANGED params
  <2>1. attr_find_by_handle(Nearest) = 0 => broken
    <3>1. Nearest \in Members(first)
      BY <1>1, <1>3, NextCharacteristic DEF Attr
    <3>2. Sorted /\ Nearest \in Nat
      BY <1>1, <3>1, TableShape, DatabaseShape DEF TableInv, Members
    <3> QED
      BY <1>1, <3>1, <3>2, FindsByHandle DEF Whole
  <2>2. broken' = TRUE /\ work' = FALSE
    BY <1>1, <1>3, <2>1 DEF TypeOK
  <2> QED
    BY <1>1, <1>3, <2>2, GiveUpKeeps
<1>4. CASE /\ Attr
           /\ LET i   == attr_find_by_handle(Nearest)
                  len == get_uuid_size("val")
              IN  /\ i # 0
                  /\ attrs' = [attrs EXCEPT ![i].uuid = Uuid(Nearest + 1), ![i].val = Space(mem, len)]
                  /\ mem' = uuid_store(mem, "val")
           /\ params' = [params EXCEPT !.start_handle = Nearest + 1]
           /\ UNCHANGED <<running, flags, heard, broken>>
  BY <1>1, <1>4, ValueKeeps DEF peer
<1> QED
  BY <1>2, <1>3, <1>4 DEF discovery_process_characteristic

-----------------------------------------------------------------------------
(* The invariant *)

\* The invariant holds at the start.
LEMMA InitHolds == Init => IInv
<1> SUFFICES ASSUME Init PROVE IInv
  OBVIOUS
<1>1. /\ attrs = <<>> /\ mem = [chunks |-> 0, used |-> 0, heap |-> 0] /\ db \in Databases
      /\ ~locked /\ ~running /\ ~work /\ ~pending /\ up /\ heard = "none" /\ ~halted
  BY DEF Init
<1>2. TypeOK
  <2>1. /\ attrs \in Seq(Attrs) /\ Len(attrs) <= MaxAttrs
        /\ mem \in [chunks : Nat, used : 0..ChunkWords, heap : Nat]
    BY <1>1, EmptyTypes DEF MemTypes
  <2>2. db \in Seq(Kinds)
    BY <1>1, DatabaseShape
  <2> QED
    BY <2>1, <2>2 DEF Init, TypeOK, Phases
<1>3. BlocksInv /\ TableInv
  BY <1>1 DEF BlocksInv, TableInv
<1>4. LockInv /\ PhaseInv /\ ErrorHasCause
  BY <1>1 DEF LockInv, PhaseInv, ErrorHasCause
<1> QED
  BY <1>2, <1>3, <1>4 DEF IInv

\* The invariant speaks of the variables only.
LEMMA StutterKeeps ==
  ASSUME IInv, UNCHANGED vars
  PROVE  IInv'
<1>1. /\ TypeOK /\ LockInv /\ PhaseInv /\ BlocksInv /\ ErrorHasCause
      /\ db' = db /\ up' = up /\ halted' = halted /\ params' = params /\ running' = running
      /\ work' = work /\ locked' = locked /\ pending' = pending /\ attrs' = attrs /\ mem' = mem
      /\ heard' = heard /\ broken' = broken
  BY DEF IInv, vars, peer, flags, data
<1>2. /\ TableInv' /\ first' = first /\ EndHandle(first)' = EndHandle(first)
      /\ Whole' <=> Whole
      /\ \A handle : Valued(handle)' <=> Valued(handle)
  BY <1>1, SameTable
<1>3. TypeOK' /\ BlocksInv' /\ LockInv'
  BY <1>1 DEF TypeOK, BlocksInv, LockInv
<1>4. PhaseInv'
  BY <1>1, <1>2 DEF PhaseInv
<1>5. ErrorHasCause'
  BY <1>1, CauseStays
<1> QED
  BY <1>2, <1>3, <1>4, <1>5 DEF IInv

\* The invariant of the discovery manager, for every table of attributes, size of the
\* manager's table and of a chunk, and set of failures.
THEOREM DiscoveryInvariant == Spec => []IInv
<1>1. IInv /\ [Next]_vars => IInv'
  BY StartKeeps, ContinueKeeps, ReleaseKeeps, ServiceKeeps, AttributeKeeps, CharacteristicKeeps,
     WorkKeeps, LinkKeeps, StutterKeeps DEF Next, discovery_callback
<1> QED
  BY InitHolds, <1>1, PTL DEF Spec

\* Every variable keeps its type; the table never outgrows CONFIG_BT_GATT_DM_MAX_ATTRS
\* (attr_store).
THEOREM TypeCorrect == Spec => []TypeOK
<1>1. IInv => TypeOK
  BY DEF IInv
<1> QED
  BY <1>1, DiscoveryInvariant, PTL

\* Without a failure of the link, the camera, the stack or the heap, a procedure ends with an error, or
\* the processor faults on a refused attr_store, only for a service larger than the table.
THEOREM ErrorsAreCaused == Spec => []ErrorHasCause
<1>1. IInv => ErrorHasCause
  BY DEF IInv
<1> QED
  BY <1>1, DiscoveryInvariant, PTL

-----------------------------------------------------------------------------
(* The memory of a procedure *)

\* Blocks apart from each other share no word.
LEMMA ApartShareNothing ==
  ASSUME NEW b \in Blocks, NEW c \in Blocks, Apart(b, c)
  PROVE  {<<b.chunk, w>> : w \in b.from..(b.from + b.len - 1)}
           \cap {<<c.chunk, w>> : w \in c.from..(c.from + c.len - 1)} = {}
BY DEF Blocks, Apart

\* Sharing no word is symmetric.
LEMMA ApartBothWays ==
  ASSUME NEW b, NEW c, Apart(b, c)
  PROVE  Apart(c, b)
BY DEF Apart

\* The data of a procedure lie in the chunks of the list, apart from each other, and the
\* heap has given out exactly those chunks; without its lock the manager holds none.
THEOREM ResourcesAreOwned == Spec => []ResourcesOwned
<1>1. ASSUME IInv
      PROVE  ResourcesOwned
  <2> DEFINE all == {<<"at", i, attrs[i].at>> : i \in 1..Len(attrs)}
             \cup {<<"val", i, attrs[i].val>> : i \in {j \in 1..Len(attrs) : attrs[j].val # NoBlock}}
             Words(b) == {<<b.chunk, w>> : w \in b.from..(b.from + b.len - 1)}
  <2>1. BlocksInv /\ LockInv
    BY <1>1 DEF IInv
  <2>2. mem.heap = mem.chunks /\ (~locked => mem.heap = 0 /\ ~running /\ ~work)
    BY <2>1 DEF LockInv
  <2>3. \A x \in all : Placed(mem, x[3])
    BY <2>1 DEF BlocksInv
  <2>4. \A x \in all : x[3] \in Blocks /\ x[3].chunk \in 1..mem.chunks /\ x[3].from + x[3].len <= ChunkWords
    BY <2>3 DEF Placed
  <2>5. ASSUME NEW x \in all, NEW y \in all, x # y
        PROVE  Apart(x[3], y[3])
    <3> DEFINE At(i) == <<"at", i, attrs[i].at>>
               Val(i) == <<"val", i, attrs[i].val>>
    <3>1. CASE \E i, j \in 1..Len(attrs) : x = At(i) /\ y = At(j)
      BY <2>1, <2>5, <3>1 DEF BlocksInv
    <3>2. CASE \E i, j \in 1..Len(attrs) : x = At(i) /\ y = Val(j) /\ attrs[j].val # NoBlock
      BY <2>1, <3>2 DEF BlocksInv
    <3>3. CASE \E i, j \in 1..Len(attrs) : x = Val(i) /\ y = At(j) /\ attrs[i].val # NoBlock
      BY <2>1, <3>3, ApartBothWays DEF BlocksInv
    <3>4. CASE \E i, j \in 1..Len(attrs) : /\ x = Val(i) /\ attrs[i].val # NoBlock
                                           /\ y = Val(j) /\ attrs[j].val # NoBlock
      BY <2>1, <2>5, <3>4 DEF BlocksInv
    <3> QED
      BY <3>1, <3>2, <3>3, <3>4
  <2>6. \A x, y \in all : x # y => Words(x[3]) \cap Words(y[3]) = {}
    <3> HIDE DEF all
    <3> QED
      BY <2>4, <2>5, ApartShareNothing
  <2> QED
    BY <2>2, <2>4, <2>6 DEF ResourcesOwned
<1> QED
  BY <1>1, DiscoveryInvariant, PTL

-----------------------------------------------------------------------------
(* The refinement *)

\* The state of the abstract discovery.
stage == CASE halted -> "dead"
           [] ~halted /\ ~locked -> "idle"
           [] ~halted /\ locked /\ ~pending -> "busy"
           [] ~halted /\ locked /\ pending -> "held"

\* The outcomes of a report: the procedure ends without data or with them, the processor
\* faults, or the procedure goes on.
Outcome ==
  \/ ~locked' /\ pending' = pending /\ halted' = halted /\ heard' \in {"not_found", "error"}
  \/ locked' = locked /\ pending' = TRUE /\ halted' = halted /\ heard' = "completed"
  \/ halted' = TRUE /\ heard' = heard
  \/ UNCHANGED <<locked, pending, halted, heard>>

\* Whatever the step of the stack, the procedure has one outcome.
LEMMA ReportOutcome ==
  ASSUME discovery_callback
  PROVE  running /\ ~halted /\ Outcome
<1>1. CASE discovery_process_service
  BY <1>1 DEF discovery_process_service, Reports, CompleteWithout, Outcome
<1>2. CASE discovery_process_attribute
  BY <1>2 DEF discovery_process_attribute, Reports, CompleteWithout, discovery_complete, flags, Outcome
<1>3. CASE discovery_process_characteristic
  BY <1>3 DEF discovery_process_characteristic, Reports, CompleteWithout, discovery_complete, flags, Outcome
<1> QED
  BY <1>1, <1>2, <1>3 DEF discovery_callback

\* A step of the code is a step of the abstract discovery or leaves it alone.
LEMMA DiscoveryStep ==
  ASSUME IInv, [Next]_vars
  PROVE  [Discovery!Next]_<<stage, heard>>
<1> USE DEF Discovery!Next, Discovery!Answer
<1>0. /\ (~locked => ~pending /\ ~work) /\ (running \/ work => ~pending /\ locked)
      /\ heard \in {"none", "completed", "not_found", "error"} /\ locked \in BOOLEAN /\ pending \in BOOLEAN
  BY DEF IInv, LockInv, TypeOK
<1>1. ASSUME NEW by_uuid \in BOOLEAN, bt_gatt_dm_start(by_uuid)
      PROVE  Discovery!Start \/ UNCHANGED <<stage, heard>>
  BY <1>0, <1>1 DEF bt_gatt_dm_start, Discovery!Start, stage
<1>2. CASE bt_gatt_dm_continue
  BY <1>0, <1>2 DEF bt_gatt_dm_continue, CompleteWithout, Discovery!Start, Discovery!Refused, stage
<1>3. CASE bt_gatt_dm_data_release
  BY <1>0, <1>3 DEF bt_gatt_dm_data_release, Discovery!Release, stage
<1>4. CASE discovery_callback
  <2>1. running /\ ~halted /\ ~pending /\ locked /\ Outcome
    BY <1>0, <1>4, ReportOutcome
  <2>2. CASE ~locked' /\ halted' = halted /\ heard' \in {"not_found", "error"}
    BY <2>1, <2>2 DEF Discovery!GaveUp, stage
  <2>3. CASE locked' = locked /\ pending' = TRUE /\ halted' = halted /\ heard' = "completed"
    BY <2>1, <2>3 DEF Discovery!Completed, stage
  <2>4. CASE halted' = TRUE /\ heard' = heard
    BY <2>1, <2>4 DEF Discovery!Died, stage
  <2>5. CASE UNCHANGED <<locked, pending, halted, heard>>
    BY <2>5 DEF stage
  <2> QED
    BY <2>1, <2>2, <2>3, <2>4, <2>5 DEF Outcome
<1>5. CASE gatt_discover_work
  <2>1. ~halted /\ halted' = halted /\ ~pending /\ locked
    BY <1>0, <1>5 DEF gatt_discover_work
  <2>2. \/ ~locked' /\ heard' \in {"not_found", "error"}
        \/ locked' = locked /\ pending' = pending /\ heard' = heard
    BY <1>5 DEF gatt_discover_work, flags, CompleteWithout
  <2>3. CASE ~locked' /\ heard' \in {"not_found", "error"}
    BY <2>1, <2>3 DEF Discovery!GaveUp, stage
  <2>4. CASE locked' = locked /\ pending' = pending /\ heard' = heard
    BY <2>1, <2>4 DEF stage
  <2> QED
    BY <2>2, <2>3, <2>4
<1>6. CASE LinkLost \/ LinkUp \/ UNCHANGED vars
  BY <1>6 DEF LinkLost, LinkUp, vars, flags, stage
<1> QED
  BY <1>1, <1>2, <1>3, <1>4, <1>5, <1>6 DEF Next

\* Each procedure is answered once, by its data or by the news that there are none, and the
\* data are released once: the safety of DiscoverySpec.
THEOREM DiscoveryIsOne == Spec => Discovery!Init /\ [][Discovery!Next]_<<stage, heard>>
<1>1. Init => Discovery!Init
  BY DEF Init, Discovery!Init
<1>2. IInv /\ [Next]_vars => [Discovery!Next]_<<stage, heard>>
  BY DiscoveryStep
<1> QED
  BY <1>1, <1>2, DiscoveryInvariant, PTL DEF Spec

-----------------------------------------------------------------------------
(* The lookups *)

\* The least element of a set of numbers is the one below all.
LEMMA LeastIs ==
  ASSUME NEW S, S \subseteq Nat, NEW i \in S, \A j \in S : i <= j
  PROVE  Least(S) = i
<1>1. \A j \in S : (\A k \in S : j <= k) => j = i
  OBVIOUS
<1>2. S # {}
  OBVIOUS
<1> QED
  BY <1>1, <1>2 DEF Least

\* Of an empty set it is 0, which stands for a null pointer.
LEMMA LeastOfNone ==
  ASSUME NEW S, S = {}
  PROVE  Least(S) = 0
BY DEF Least

\* The table of a service that has been found as a whole.
Complete == IInv /\ attrs # <<>> /\ Whole /\ Valued(LastHandle + 1)

\* The descriptors of a characteristic lie behind each other.
LEMMA DescNext ==
  ASSUME Len(attrs) \in Nat, NEW k \in 1..Len(attrs)
  PROVE  bt_gatt_dm_desc_next(k) =
           IF k < Len(attrs) /\ attrs[k + 1].kind # "chrc" THEN k + 1 ELSE 0
<1>1. k + 1 # 0
  OBVIOUS
<1> QED
  BY <1>1 DEF bt_gatt_dm_desc_next, bt_gatt_dm_attr_next

\* A characteristic of it has its value behind it.
LEMMA CharacteristicOf ==
  ASSUME Complete, NEW i \in 1..Len(attrs), attrs[i].kind = "chrc"
  PROVE  /\ i - 1 \in 1..Len(attrs) /\ i + 1 \in 1..Len(attrs)
         /\ attrs[i].handle \in Nat /\ attrs[i].handle + 1 \in DOMAIN db
         /\ db[attrs[i].handle] = "chrc" /\ db[attrs[i].handle + 1] = "val"
         /\ attrs[i + 1].handle = attrs[i].handle + 1 /\ attrs[i + 1].kind = "val"
         /\ attrs[i].uuid = <<"val", attrs[i].handle + 1>>
<1>1. /\ Len(attrs) \in Nat \ {0} /\ first \in DOMAIN db /\ first \in Nat
      /\ \A j \in 1..Len(attrs) : attrs[j].handle = first + j - 1
  BY TableShape DEF Complete
<1>2. /\ db \in Databases /\ db[first] \in ServiceKinds
      /\ \A j \in 1..Len(attrs) :
           attrs[j].handle \in Members(first) /\ attrs[j].kind = db[attrs[j].handle]
  BY DEF Complete, IInv, TableInv
<1>3. attrs[i].handle \in Members(first) /\ db[attrs[i].handle] = "chrc" /\ attrs[i].handle = first + i - 1
  BY <1>1, <1>2
<1>4. /\ attrs[i].handle + 1 \in Members(first) /\ db[attrs[i].handle + 1] = "val"
      /\ Members(first) \subseteq DOMAIN db
  BY <1>1, <1>2, <1>3, MembersOf
<1>5. PICK k \in 1..Len(attrs) : attrs[k].handle = attrs[i].handle + 1
  BY <1>4 DEF Complete, Whole
<1>6. k = i + 1
  BY <1>1, <1>3, <1>5
<1>7. i # 1
  <2>1. db[first] # "chrc"
    BY <1>2 DEF ServiceKinds
  <2> QED
    BY <1>1, <1>3, <2>1
<1>8. attrs[i].handle \in Nat /\ attrs[i].handle < LastHandle + 1
  <2>1. attrs[i].handle \in DOMAIN db
    BY <1>3, <1>4
  <2> QED
    BY <1>2, <2>1, DatabaseShape, DmConstants DEF LastHandle
<1>9. attrs[i].uuid = Uuid(attrs[i].handle + 1)
  BY <1>8 DEF Complete, Valued
<1>10. Uuid(attrs[i].handle + 1) = <<"val", attrs[i].handle + 1>>
  BY <1>4 DEF Uuid
<1>11. i - 1 \in 1..Len(attrs) /\ i + 1 \in 1..Len(attrs)
  BY <1>1, <1>6, <1>7
<1>12. attrs[i + 1].handle = attrs[i].handle + 1 /\ attrs[i + 1].kind = "val"
  BY <1>2, <1>4, <1>5, <1>6
<1>13. attrs[i].uuid = <<"val", attrs[i].handle + 1>>
  BY <1>9, <1>10
<1>14. attrs[i].handle + 1 \in DOMAIN db
  BY <1>4
<1> QED
  BY <1>3, <1>4, <1>8, <1>11, <1>12, <1>13, <1>14

\* bt_gatt_dm_char_next returns the least characteristic behind.
LEMMA CharNext ==
  ASSUME Len(attrs) \in Nat, NEW j \in 0..Len(attrs)
  PROVE  /\ bt_gatt_dm_char_next(j) = 0 \/
              (bt_gatt_dm_char_next(j) \in 1..Len(attrs) /\ attrs[bt_gatt_dm_char_next(j)].kind = "chrc")
         /\ j + 1 \in 1..Len(attrs) /\ attrs[j + 1].kind = "chrc" => bt_gatt_dm_char_next(j) = j + 1
<1> DEFINE S == {k \in (j + 1)..Len(attrs) : attrs[k].kind = "chrc"}
<1>1. bt_gatt_dm_char_next(j) = Least(S) /\ S \subseteq Nat
  BY DEF bt_gatt_dm_char_next
<1>2. ASSUME S # {}
      PROVE  Least(S) \in S
  <2>1. S \subseteq Nat
    BY <1>1
  <2> HIDE DEF S
  <2>2. PICK k \in S : \A x \in S : k <= x
    BY <1>2, <2>1, LeastNatural
  <2> QED
    BY <2>1, <2>2, LeastIs
<1>3. S = {} => Least(S) = 0
  BY DEF Least
<1>4. ASSUME j + 1 \in 1..Len(attrs), attrs[j + 1].kind = "chrc"
      PROVE  Least(S) = j + 1
  <2>1. j + 1 \in S /\ \A k \in S : j + 1 <= k
    BY <1>4
  <2> HIDE DEF S
  <2> QED
    BY <1>1, <2>1, LeastIs
<1>5. Least(S) = 0 \/ (Least(S) \in 1..Len(attrs) /\ attrs[Least(S)].kind = "chrc")
  BY <1>2, <1>3
<1> QED
  BY <1>1, <1>4, <1>5

\* Each characteristic is found by the UUID of its value.
LEMMA FindsCharacteristic ==
  ASSUME Complete, NEW i \in 1..Len(attrs), attrs[i].kind = "chrc"
  PROVE  bt_gatt_dm_char_by_uuid(<<"val", attrs[i].handle + 1>>) = i
<1> DEFINE C == {bt_gatt_dm_char_next(j) : j \in 1..Len(attrs)} \ {0}
           S == {k \in C : attrs[k].uuid = <<"val", attrs[i].handle + 1>>}
<1>1. /\ Len(attrs) \in Nat \ {0} /\ first \in Nat
      /\ \A j \in 1..Len(attrs) : attrs[j].handle = first + j - 1
  BY TableShape DEF Complete
<1>2. i - 1 \in 1..Len(attrs) /\ attrs[i].uuid = <<"val", attrs[i].handle + 1>>
  BY CharacteristicOf
<1>3. \A k \in C : k \in 1..Len(attrs) /\ attrs[k].kind = "chrc"
  BY <1>1, CharNext
<1>4. bt_gatt_dm_char_next(i - 1) = i
  <2>1. (i - 1) + 1 = i /\ i - 1 \in 0..Len(attrs)
    BY <1>1, <1>2
  <2> QED
    BY <1>1, <2>1, CharNext
<1>5. i \in C
  BY <1>1, <1>2, <1>4
<1>6. i \in S
  BY <1>2, <1>5
<1>7. ASSUME NEW k \in S
      PROVE  k = i
  <2>1. k \in 1..Len(attrs) /\ attrs[k].kind = "chrc" /\ attrs[k].uuid = <<"val", attrs[i].handle + 1>>
    BY <1>3
  <2>2. attrs[k].uuid = <<"val", attrs[k].handle + 1>> /\ attrs[k].handle \in Nat /\ attrs[i].handle \in Nat
    BY <2>1, CharacteristicOf
  <2>3. attrs[k].handle = attrs[i].handle
    BY <2>1, <2>2
  <2> QED
    BY <1>1, <2>1, <2>3
<1>8. S \subseteq Nat
  BY <1>3
<1>9. bt_gatt_dm_char_by_uuid(<<"val", attrs[i].handle + 1>>) = Least(S)
  BY DEF bt_gatt_dm_char_by_uuid
<1> HIDE DEF S
<1>10. \A k \in S : i <= k
  <2>1. i \in Nat /\ i <= i
    BY <1>1
  <2> QED
    BY <1>7, <2>1
<1> QED
  BY <1>6, <1>8, <1>9, <1>10, LeastIs

\* Under it its value is found.
LEMMA FindsValue ==
  ASSUME Complete, NEW i \in 1..Len(attrs), attrs[i].kind = "chrc"
  PROVE  bt_gatt_dm_desc_by_uuid(i, <<"val", attrs[i].handle + 1>>) = i + 1
<1> DEFINE u == <<"val", attrs[i].handle + 1>>
           D == {j \in (i + 1)..Len(attrs) :
                   /\ \A k \in i..(j - 1) : bt_gatt_dm_desc_next(k) = k + 1
                   /\ Uuid(attrs[j].handle) = u}
<1>1. /\ Len(attrs) \in Nat \ {0} /\ first \in Nat
      /\ \A j \in 1..Len(attrs) : attrs[j].handle = first + j - 1
  BY TableShape DEF Complete
<1>2. /\ i + 1 \in 1..Len(attrs) /\ attrs[i].handle \in Nat /\ db[attrs[i].handle + 1] = "val"
      /\ attrs[i + 1].handle = attrs[i].handle + 1 /\ attrs[i + 1].kind = "val"
  BY CharacteristicOf
<1>3. bt_gatt_dm_desc_next(i) = i + 1
  BY <1>1, <1>2 DEF bt_gatt_dm_desc_next, bt_gatt_dm_attr_next
<1>4. Uuid(attrs[i + 1].handle) = u
  BY <1>2 DEF Uuid
<1>5. i + 1 \in D
  BY <1>1, <1>2, <1>3, <1>4
<1>6. ASSUME NEW j \in D
      PROVE  i + 1 <= j
  BY <1>1
<1>7. D \subseteq Nat
  BY <1>1
<1>8. bt_gatt_dm_desc_by_uuid(i, u) = Least(D)
  BY DEF bt_gatt_dm_desc_by_uuid
<1> HIDE DEF D
<1> QED
  BY <1>5, <1>6, <1>7, <1>8, LeastIs

\* And its client configuration when it has one, never that of the next characteristic.
LEMMA FindsConfiguration ==
  ASSUME Complete, NEW i \in 1..Len(attrs), attrs[i].kind = "chrc"
  PROVE  bt_gatt_dm_desc_by_uuid(i, <<"ccc", 0>>) =
           IF attrs[i].handle + 2 \in DOMAIN db /\ db[attrs[i].handle + 2] = "ccc" THEN i + 2 ELSE 0
<1> DEFINE h == attrs[i].handle
           D == {j \in (i + 1)..Len(attrs) :
                   /\ \A k \in i..(j - 1) : bt_gatt_dm_desc_next(k) = k + 1
                   /\ Uuid(attrs[j].handle) = <<"ccc", 0>>}
<1>1. /\ Len(attrs) \in Nat \ {0} /\ first \in Nat /\ first \in DOMAIN db
      /\ \A j \in 1..Len(attrs) : attrs[j].handle = first + j - 1
  BY TableShape DEF Complete
<1>2. /\ db \in Databases
      /\ \A j \in 1..Len(attrs) :
           attrs[j].handle \in Members(first) /\ attrs[j].kind = db[attrs[j].handle]
  BY DEF Complete, IInv, TableInv
<1>3. /\ i + 1 \in 1..Len(attrs) /\ h = attrs[i].handle /\ h \in Nat /\ h + 1 \in DOMAIN db /\ db[h + 1] = "val"
      /\ attrs[i + 1].handle = h + 1 /\ attrs[i + 1].kind = "val"
  BY CharacteristicOf
<1>4. h + 1 \in Members(first)
  BY <1>2, <1>3
<1>5. bt_gatt_dm_desc_by_uuid(i, <<"ccc", 0>>) = Least(D)
  BY DEF bt_gatt_dm_desc_by_uuid
<1>6. \A j \in D : j \in (i + 1)..Len(attrs) /\ db[attrs[j].handle] = "ccc" /\ j # i + 1
  BY <1>2, <1>3 DEF Uuid
<1>7. D \subseteq Nat
  BY <1>1
<1>8. ASSUME NEW j \in (i + 1)..Len(attrs),
              \A k \in i..(j - 1) : bt_gatt_dm_desc_next(k) = k + 1,
              Uuid(attrs[j].handle) = <<"ccc", 0>>
       PROVE  j \in D
  BY <1>8
<1>9. \A j \in D : \A k \in i..(j - 1) : bt_gatt_dm_desc_next(k) = k + 1
  OBVIOUS
<1> HIDE DEF D, h
<1>10. CASE h + 2 \in DOMAIN db /\ db[h + 2] = "ccc"
  <2>1. (h + 1) + 1 \in Members(first)
    <3>1. (h + 1) + 1 = h + 2 /\ db[h + 2] \notin ServiceKinds
      BY <1>3, <1>10 DEF ServiceKinds
    <3> QED
      BY <1>1, <1>2, <1>4, <1>10, <3>1, MembersOf
  <2>2. PICK k \in 1..Len(attrs) : attrs[k].handle = h + 2
    <3>1. (h + 1) + 1 = h + 2
      BY <1>3
    <3> QED
      BY <2>1, <3>1 DEF Complete, Whole
  <2>3. k = i + 2
    <3>1. h + 1 = first + (i + 1) - 1 /\ h + 2 = first + k - 1
      BY <1>1, <1>3, <2>2
    <3>2. i \in Nat /\ k \in Nat /\ first \in Nat /\ h \in Nat
      BY <1>1, <1>3
    <3> QED
      BY <3>1, <3>2
  <2>4. attrs[i + 2].kind = "ccc" /\ i + 2 \in 1..Len(attrs) /\ Uuid(attrs[i + 2].handle) = <<"ccc", 0>>
    BY <1>2, <1>10, <2>2, <2>3 DEF Uuid
  <2>5. bt_gatt_dm_desc_next(i) = i + 1
    <3>1. i < Len(attrs) /\ attrs[i + 1].kind # "chrc"
      BY <1>1, <1>3
    <3> QED
      BY <1>1, <3>1, DescNext
  <2>6. bt_gatt_dm_desc_next(i + 1) = i + 2
    <3>1. i + 1 < Len(attrs) /\ (i + 1) + 1 = i + 2
      BY <1>1, <2>4
    <3>2. attrs[(i + 1) + 1].kind # "chrc"
      BY <2>4, <3>1
    <3> QED
      BY <1>1, <1>3, <3>1, <3>2, DescNext
  <2>7. i + 2 \in D
    <3>1. \A k2 \in i..((i + 2) - 1) : k2 = i \/ k2 = i + 1
      OBVIOUS
    <3>2. \A k2 \in i..((i + 2) - 1) : bt_gatt_dm_desc_next(k2) = k2 + 1
      <4>1. (i + 1) + 1 = i + 2
        OBVIOUS
      <4> QED
        BY <2>5, <2>6, <3>1, <4>1
    <3>3. i + 2 \in (i + 1)..Len(attrs)
      BY <1>1, <2>4
    <3> QED
      BY <1>8, <2>4, <3>2, <3>3
  <2>8. \A j \in D : i + 2 <= j
    BY <1>1, <1>6
  <2> QED
    BY <1>3, <1>5, <1>7, <1>10, <2>7, <2>8, LeastIs
<1>11. CASE ~(h + 2 \in DOMAIN db /\ db[h + 2] = "ccc")
  <2>1. ASSUME NEW j \in D
        PROVE  FALSE
    <3>1. j \in (i + 2)..Len(attrs) /\ i + 2 \in 1..Len(attrs)
      BY <1>1, <1>6
    <3>2. attrs[i + 2].handle = h + 2 /\ h + 2 \in Members(first) /\ attrs[i + 2].kind = db[h + 2]
      <4>1. attrs[i + 2].handle = first + (i + 2) - 1 /\ h + 1 = first + (i + 1) - 1
        BY <1>1, <1>3, <3>1
      <4>2. attrs[i + 2].handle = h + 2
        <5>1. i \in Nat /\ first \in Nat /\ h \in Nat
          BY <1>1, <1>3
        <5> QED
          BY <4>1, <5>1
      <4> QED
        BY <1>2, <3>1, <4>2
    <3>3. h + 2 \in DOMAIN db /\ db[h + 2] # "ccc"
      BY <1>11, <3>2 DEF Members
    <3>4. j # i + 2
      BY <1>6, <3>2, <3>3
    <3>5. db[h + 2] \notin ServiceKinds
      <4>1. first < h + 2 /\ h + 2 <= EndHandle(first)
        BY <1>1, <1>2, <3>1, <3>2, <3>3, MembersOf
      <4> QED
        BY <1>1, <1>2, <3>3, <4>1, EndHandleBounds
    <3>6. db[h + 2] = "chrc"
      <4>1. PICK n \in Nat \ {0} :
              /\ DOMAIN db = 1..n
              /\ \A g \in 1..(n - 1) : db[g] = "val" => db[g + 1] \in ServiceKinds \cup {"chrc", "ccc"}
        BY <1>2, DatabaseShape
      <4>2. h + 1 \in 1..(n - 1) /\ (h + 1) + 1 = h + 2
        BY <1>3, <3>3, <4>1
      <4>3. db[h + 2] \in ServiceKinds \cup {"chrc", "ccc"}
        BY <1>3, <4>1, <4>2
      <4> QED
        BY <3>3, <3>5, <4>3
    <3>7. bt_gatt_dm_desc_next(i + 1) = 0
      <4>1. (i + 1) + 1 = i + 2
        OBVIOUS
      <4>2. ~ (attrs[(i + 1) + 1].kind # "chrc")
        BY <3>2, <3>6, <4>1
      <4> QED
        BY <1>1, <1>3, <4>2, DescNext
    <3>8. i + 1 \in i..(j - 1)
      BY <1>1, <3>1, <3>4
    <3>9. bt_gatt_dm_desc_next(i + 1) = (i + 1) + 1
      BY <1>9, <3>8
    <3> QED
      BY <1>1, <3>7, <3>9
  <2>2. D = {}
    BY <2>1
  <2> QED
    BY <1>3, <1>5, <1>11, <2>2, LeastOfNone
<1> QED
  BY <1>3, <1>10, <1>11

\* The user's lookups find what the table of the service has.
LEMMA FindsAll ==
  ASSUME Complete
  PROVE  Found
<1>1. /\ Len(attrs) \in Nat \ {0} /\ first \in Nat /\ Sorted
      /\ \A j \in 1..Len(attrs) : attrs[j].handle = first + j - 1
  BY TableShape DEF Complete
<1>2. /\ db \in Databases /\ \A j \in 1..Len(attrs) : attrs[j].kind = db[attrs[j].handle]
  BY DEF Complete, IInv, TableInv
<1> SUFFICES ASSUME NEW h \in 0..LastHandle,
                    NEW i, i = Least({j \in 1..Len(attrs) : attrs[j].handle = h})
             PROVE  /\ attr_find_by_handle(h) = i
                    /\ i # 0 /\ db[h] = "chrc" =>
                         /\ bt_gatt_dm_char_by_uuid(Uuid(h + 1)) = i
                         /\ bt_gatt_dm_desc_by_uuid(i, Uuid(h + 1)) = i + 1
                         /\ bt_gatt_dm_desc_by_uuid(i, <<"ccc", 0>>) =
                              (IF h + 2 \in DOMAIN db /\ db[h + 2] = "ccc" THEN i + 2 ELSE 0)
  BY DEF Found
<1> DEFINE S == {j \in 1..Len(attrs) : attrs[j].handle = h}
           f == attr_find_by_handle(h)
<1>3. \/ f = 0 /\ S = {}
      \/ f \in S
  BY <1>1, FindsByHandle DEF LastHandle
<1>4. ASSUME NEW j \in S, NEW k \in S
      PROVE  j = k
  BY <1>1
<1>5. S \subseteq Nat
  OBVIOUS
<1>6. f = i
  <2>1. CASE f = 0 /\ S = {}
    BY <2>1, LeastOfNone
  <2>2. CASE f \in S
    <3>1. \A j \in S : f <= j
      BY <1>4, <1>5, <2>2
    <3>2. i = Least(S)
      OBVIOUS
    <3> HIDE DEF S, f
    <3> QED
      BY <1>5, <2>2, <3>1, <3>2, LeastIs
  <2> QED
    BY <1>3, <2>1, <2>2
<1>7. ASSUME i # 0, db[h] = "chrc"
      PROVE  /\ bt_gatt_dm_char_by_uuid(Uuid(h + 1)) = i
             /\ bt_gatt_dm_desc_by_uuid(i, Uuid(h + 1)) = i + 1
             /\ bt_gatt_dm_desc_by_uuid(i, <<"ccc", 0>>) =
                  (IF h + 2 \in DOMAIN db /\ db[h + 2] = "ccc" THEN i + 2 ELSE 0)
  <2>1. i \in 1..Len(attrs) /\ attrs[i].handle = h
    BY <1>3, <1>6, <1>7
  <2>2. attrs[i].kind = "chrc"
    BY <1>2, <1>7, <2>1
  <2>3. db[h + 1] = "val"
    BY <2>1, <2>2, CharacteristicOf
  <2>4. Uuid(h + 1) = <<"val", attrs[i].handle + 1>>
    BY <2>1, <2>3 DEF Uuid
  <2>5. bt_gatt_dm_char_by_uuid(Uuid(h + 1)) = i
    BY <2>1, <2>2, <2>4, FindsCharacteristic
  <2>6. bt_gatt_dm_desc_by_uuid(i, Uuid(h + 1)) = i + 1
    BY <2>1, <2>2, <2>4, FindsValue
  <2>7. bt_gatt_dm_desc_by_uuid(i, <<"ccc", 0>>) =
          (IF h + 2 \in DOMAIN db /\ db[h + 2] = "ccc" THEN i + 2 ELSE 0)
    BY <2>1, <2>2, FindsConfiguration
  <2> QED
    BY <2>5, <2>6, <2>7
<1> QED
  BY <1>6, <1>7

\* A procedure that met no failure and is reported as completed has the service that was
\* asked for, each of its attributes once and in order, and the lookups find them.
THEOREM CompletedAreWhole == Spec => []CompletedIsWhole
<1>1. ASSUME IInv, pending, ~broken
      PROVE  /\ {attrs[i].handle : i \in 1..Len(attrs)} = Members(first)
             /\ \A i, j \in 1..Len(attrs) : i < j => attrs[i].handle < attrs[j].handle
             /\ db[first] \in ServiceKinds /\ (params.by_uuid => db[first] = svc_uuid)
             /\ Found
  <2>1. attrs # <<>> /\ Whole /\ Valued(LastHandle + 1)
    BY <1>1 DEF IInv, PhaseInv
  <2>2. Sorted
    BY <1>1, <2>1, TableShape
  <2>3. /\ \A i \in 1..Len(attrs) : attrs[i].handle \in Members(first)
        /\ db[first] \in ServiceKinds /\ (params.by_uuid => db[first] = svc_uuid)
    BY <1>1, <2>1 DEF IInv, TableInv
  <2>4. Found
    BY <1>1, <2>1, FindsAll DEF Complete
  <2>5. {attrs[i].handle : i \in 1..Len(attrs)} = Members(first)
    BY <2>1, <2>3 DEF Whole
  <2> QED
    BY <2>2, <2>3, <2>4, <2>5 DEF Sorted
<1>2. IInv => CompletedIsWhole
  BY <1>1 DEF CompletedIsWhole, first
<1> QED
  BY <1>2, DiscoveryInvariant, PTL
=============================================================================
