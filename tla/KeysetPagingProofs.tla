------------------------- MODULE KeysetPagingProofs -------------------------
(***************************************************************************)
(* For any set of rows, any page sizes and any writes between the pages: a *)
(* walk descends, its pages are full, it skips no row that stays where it  *)
(* was, and delivers no campaign twice.                                    *)
(*                                                                         *)
(* The inductive invariant says what the cursor separates: everything      *)
(* delivered lies at or above it, and every still row not delivered yet    *)
(* below.  What LIMIT means to that argument is stated first: a row's rank *)
(* is a bijection of the matching rows to an interval, so that a page is   *)
(* full and has a last row (LimitFills) and leaves no row between its last *)
(* and the rest (PageIsPrefix).                                            *)
(***************************************************************************)
EXTENDS KeysetPaging, FiniteSetTheorems, FunctionTheorems, TLAPS

Delivered == seen \cup page

\* An id has one row, and the table is finite.
TableInv ==
    /\ IsFiniteSet(rows)
    /\ still \subseteq rows
    /\ \A k \in rows : k.id \in used
    /\ \A k, m \in rows : k.id = m.id => k = m

\* The cursor stands between what was delivered and what remains.
CursorInv ==
    pc # "ended" =>
        /\ cursor = Nil => Delivered = {}
        /\ cursor # Nil => \A k \in Delivered : k = cursor \/ Newer(k, cursor)
        /\ \A k \in still : k \in Delivered \/ Matches(k)

\* Campaigns keep their keys, so that a delivered key is the row's own.
CampaignInv ==
    list = "campaigns" =>
        /\ \A k \in Delivered : k.id \in used
        /\ \A k \in Delivered, m \in rows : k.id = m.id => k = m

KnownInv ==
    /\ list = "campaigns" => exists
    /\ pc = "exists" /\ exists => known
    /\ pc = "list" => known
    /\ UnknownCampaignIsReported

\* A request that is served asks for a row at least.
LimitInv == pc \in {"exists", "list"} => limit > 0

Inv ==
    /\ TypeOK /\ TableInv /\ CursorInv /\ CampaignInv /\ KnownInv /\ LimitInv
    /\ PagesDescend /\ PagesAreFull /\ NothingStillIsSkipped /\ NoCampaignTwice

-----------------------------------------------------------------------------
(* The order of the list *)

\* ORDER BY (time, id) is a strict total order on keys.
LEMMA NewerIsAnOrder ==
    /\ \A a, b, c \in Key : Newer(a, b) /\ Newer(b, c) => Newer(a, c)
    /\ \A a, b \in Key : a # b => Newer(a, b) \/ Newer(b, a)
    /\ \A a \in Key : ~ Newer(a, a)
<1>1. \A a \in Key : a.time \in Nat /\ a.id \in Nat
  BY KeyAssumption DEF Key
<1>2. \A a, b \in Key : a.time = b.time /\ a.id = b.id => a = b
  BY DEF Key
<1>3. ASSUME NEW a \in Key, NEW b \in Key, NEW c \in Key, Newer(a, b), Newer(b, c)
      PROVE  Newer(a, c)
  BY <1>1, <1>3 DEF Newer
<1>4. ASSUME NEW a \in Key, NEW b \in Key, a # b
      PROVE  Newer(a, b) \/ Newer(b, a)
  BY <1>1, <1>2, <1>4 DEF Newer
<1>5. ASSUME NEW a \in Key PROVE ~ Newer(a, a)
  BY <1>1 DEF Newer
<1> QED BY <1>3, <1>4, <1>5

\* The matching rows that come before k.
Above(k) == {m \in Matching : Newer(m, k)}

\* Every matching row that a LIMIT leaves out comes after every row it keeps.
LEMMA PageIsPrefix ==
    ASSUME rows \in SUBSET Key, IsFiniteSet(rows), NEW n \in Nat,
           NEW k \in Matching, k \notin Limited(n), NEW last \in Limited(n)
    PROVE  Newer(last, k)
<1>1. k \in Key /\ last \in Key /\ last # k /\ Matching \subseteq Key
  BY DEF Matching, Limited
<1>2. SUFFICES ASSUME Newer(k, last) PROVE FALSE
  BY <1>1, NewerIsAnOrder
<1>3. Above(k) \subseteq Above(last)
  BY <1>1, <1>2, NewerIsAnOrder DEF Above
<1>4. IsFiniteSet(Matching)
  BY FS_Subset DEF Matching
<1>5. IsFiniteSet(Above(last)) /\ IsFiniteSet(Above(k))
  BY <1>4, FS_Subset DEF Above
<1>6. Cardinality(Above(k)) <= Cardinality(Above(last))
  BY <1>3, <1>5, FS_Subset
<1>7. Cardinality(Above(k)) \in Nat /\ Cardinality(Above(last)) \in Nat
  BY <1>5, FS_CardinalityType
<1>8. Cardinality(Above(last)) < n
  BY DEF Limited, Above
<1>9. Cardinality(Above(k)) < n
  BY <1>6, <1>7, <1>8
<1> QED BY <1>9 DEF Above, Limited

\* A row's rank counts the rows before it, and tells the rows apart.
Rank == [k \in Matching |-> Cardinality(Above(k))]

LEMMA RanksAreABijection ==
    ASSUME rows \in SUBSET Key, IsFiniteSet(rows)
    PROVE  /\ IsFiniteSet(Matching) /\ Cardinality(Matching) \in Nat
           /\ \A a, b \in Matching : Newer(a, b) => Rank[a] < Rank[b]
           /\ Rank \in Injection(Matching, 0 .. Cardinality(Matching) - 1)
           /\ Rank \in Surjection(Matching, 0 .. Cardinality(Matching) - 1)
<1>1. /\ IsFiniteSet(Matching) /\ Matching \subseteq Key
      /\ Cardinality(Matching) \in Nat
  BY FS_Subset, FS_CardinalityType DEF Matching
<1>2. \A k \in Matching : IsFiniteSet(Above(k)) /\ Cardinality(Above(k)) \in Nat
  BY <1>1, FS_Subset, FS_CardinalityType DEF Above
<1>3. ASSUME NEW k \in Matching, NEW T \in SUBSET Matching, Above(k) \cup {k} \subseteq T
      PROVE  Cardinality(Above(k)) < Cardinality(T)
  <2>1. k \notin Above(k)
    BY <1>1, NewerIsAnOrder DEF Above
  <2>2. Cardinality(Above(k) \cup {k}) = Cardinality(Above(k)) + 1
    BY <1>2, <2>1, FS_AddElement
  <2>3. IsFiniteSet(T) /\ Cardinality(T) \in Nat
    BY <1>1, FS_Subset, FS_CardinalityType
  <2>4. Cardinality(Above(k) \cup {k}) <= Cardinality(T)
    BY <1>3, <2>3, FS_Subset
  <2> QED BY <1>2, <2>2, <2>3, <2>4
<1>4. ASSUME NEW a \in Matching, NEW b \in Matching, Newer(a, b)
      PROVE  Rank[a] < Rank[b]
  <2>1. Above(a) \cup {a} \subseteq Above(b) /\ Above(b) \in SUBSET Matching
    BY <1>1, <1>4, NewerIsAnOrder DEF Above
  <2> QED BY <1>3, <2>1 DEF Rank
<1>5. \A k \in Matching : Rank[k] \in 0 .. Cardinality(Matching) - 1
  <2> SUFFICES ASSUME NEW k \in Matching
               PROVE  Rank[k] \in 0 .. Cardinality(Matching) - 1
    OBVIOUS
  <2>1. Above(k) \cup {k} \subseteq Matching
    BY DEF Above
  <2>2. Cardinality(Above(k)) < Cardinality(Matching)
    BY <1>3, <2>1
  <2> QED BY <1>1, <1>2, <2>2 DEF Rank
<1>6. \A a, b \in Matching : Rank[a] = Rank[b] => a = b
  BY <1>1, <1>4, <1>5, NewerIsAnOrder
<1>7. Rank \in Injection(Matching, 0 .. Cardinality(Matching) - 1)
  BY <1>5, <1>6, Fun_IsInj DEF Rank
<1>8. /\ IsFiniteSet(0 .. Cardinality(Matching) - 1)
      /\ Cardinality(0 .. Cardinality(Matching) - 1) = Cardinality(Matching)
  BY <1>1, FS_Interval
<1>9. Rank \in Surjection(Matching, 0 .. Cardinality(Matching) - 1)
  BY <1>7, <1>8, FS_Injection
<1> QED BY <1>1, <1>4, <1>7, <1>9

\* LIMIT n keeps n rows when as many match, and one of them is the last.
LEMMA LimitFills ==
    ASSUME rows \in SUBSET Key, IsFiniteSet(rows), NEW n \in Nat
    PROVE  /\ IsFiniteSet(Limited(n)) /\ Cardinality(Limited(n)) <= n
           /\ n <= Cardinality(Matching) => Cardinality(Limited(n)) = n
           /\ 0 < n /\ n <= Cardinality(Matching) =>
                  \E last \in Limited(n) :
                     \A k \in Limited(n) : k = last \/ Newer(k, last)
<1> DEFINE ranks == 0 .. n - 1
           g == [k \in Limited(n) |-> Rank[k]]
<1>1. /\ \A a, b \in Matching : Newer(a, b) => Rank[a] < Rank[b]
      /\ Rank \in [Matching -> 0 .. Cardinality(Matching) - 1]
      /\ \A a, b \in Matching : Rank[a] = Rank[b] => a = b
      /\ \A i \in 0 .. Cardinality(Matching) - 1 : \E k \in Matching : Rank[k] = i
      /\ Cardinality(Matching) \in Nat
  <2>1. /\ Rank \in Injection(Matching, 0 .. Cardinality(Matching) - 1)
        /\ Rank \in Surjection(Matching, 0 .. Cardinality(Matching) - 1)
        /\ \A a, b \in Matching : Newer(a, b) => Rank[a] < Rank[b]
        /\ Cardinality(Matching) \in Nat
    BY RanksAreABijection
  <2>2. /\ Rank \in [Matching -> 0 .. Cardinality(Matching) - 1]
        /\ \A a, b \in Matching : Rank[a] = Rank[b] => a = b
    BY <2>1, Fun_InjectionProperties
  <2>3. \A i \in 0 .. Cardinality(Matching) - 1 : \E k \in Matching : Rank[k] = i
    BY <2>1 DEF Surjection
  <2> QED BY <2>1, <2>2, <2>3
<1>2. Limited(n) = {k \in Matching : Rank[k] < n}
  BY DEF Limited, Rank, Above
<1>3. g \in [Limited(n) -> ranks] /\ \A a, b \in Limited(n) : g[a] = g[b] => a = b
  BY <1>1, <1>2
<1>4. g \in Injection(Limited(n), ranks)
  BY <1>3, Fun_IsInj
<1>5. IsFiniteSet(ranks) /\ Cardinality(ranks) = n
  BY FS_Interval
<1>6. IsFiniteSet(Limited(n)) /\ Cardinality(Limited(n)) <= n
  BY <1>4, <1>5, FS_Injection
<1>7. ASSUME n <= Cardinality(Matching), NEW i \in ranks
      PROVE  \E k \in Limited(n) : Rank[k] = i
  BY <1>1, <1>2, <1>7
<1>8. ASSUME n <= Cardinality(Matching) PROVE Cardinality(Limited(n)) = n
  <2>1. \A i \in ranks : \E k \in Limited(n) : g[k] = i
    BY <1>7, <1>8
  <2>2. g \in Surjection(Limited(n), ranks)
    BY <1>3, <2>1, Fun_IsSurj
  <2> QED BY <1>4, <1>5, <2>2, FS_Injection
<1>9. ASSUME 0 < n, n <= Cardinality(Matching)
      PROVE  \E last \in Limited(n) : \A k \in Limited(n) : k = last \/ Newer(k, last)
  <2>1. PICK last \in Limited(n) : Rank[last] = n - 1
    BY <1>7, <1>9
  <2>2. ASSUME NEW k \in Limited(n), k # last, ~ Newer(k, last) PROVE FALSE
    <3>1. k \in Key /\ last \in Key /\ k \in Matching /\ last \in Matching
      BY DEF Limited, Matching
    <3>2. Rank[last] < Rank[k] /\ Rank[k] < n /\ Rank[k] \in Int
      BY <1>1, <1>2, <2>2, <3>1, NewerIsAnOrder
    <3> QED BY <2>1, <3>2
  <2> QED BY <2>2
<1> QED BY <1>6, <1>8, <1>9

-----------------------------------------------------------------------------

LEMMA InitInv == Init => Inv
<1> SUFFICES ASSUME Init PROVE Inv
  OBVIOUS
<1>1. TypeOK
  <2>1. 0 \in 0 .. MaxPageSize
    BY SizesAssumption
  <2>2. limit \in 0 .. MaxPageSize
    BY <2>1 DEF Init
  <2>3. page \in SUBSET Key /\ seen \in SUBSET Key /\ still \in SUBSET Key
    BY DEF Init
  <2> QED BY <2>2, <2>3 DEF Init, TypeOK
<1>2. TableInv /\ CursorInv /\ CampaignInv
  BY DEF Init, TableInv, CursorInv, CampaignInv, Delivered, Matches
<1>3. /\ KnownInv /\ LimitInv /\ PagesDescend /\ PagesAreFull /\ NothingStillIsSkipped
      /\ NoCampaignTwice
  BY NilAssumption DEF Init, KnownInv, UnknownCampaignIsReported, LimitInv, PagesDescend,
     PagesAreFull, NothingStillIsSkipped, Complete, NoCampaignTwice
<1> QED BY <1>1, <1>2, <1>3 DEF Inv

\* A request moves neither the cursor nor what was delivered.
LEMMA RequestInv ==
    ASSUME Inv, Request \/ CheckCampaign \/ RefuseCursor
    PROVE  Inv'
<1>1. /\ UNCHANGED <<list, mangles, table, cursor, page, seen>>
      /\ pc' = "ended" => answer' \in {"InvalidArgument", "NotFound", "Internal"}
      /\ pc \in {"ready", "exists", "list"}
  BY DEF Request, CheckCampaign, RefuseCursor, End
<1>2. TypeOK'
  <2>1. \A size \in Sizes : ClampPageSize(size) \in 0 .. MaxPageSize
    BY SizesAssumption DEF ClampPageSize
  <2>2. limit' \in 0 .. MaxPageSize
    BY <2>1 DEF Request, CheckCampaign, RefuseCursor, Inv, TypeOK
  <2> QED BY <1>1, <2>2 DEF Request, CheckCampaign, RefuseCursor, End, table, Inv, TypeOK
<1>3. TableInv' /\ CampaignInv' /\ PagesDescend' /\ NoCampaignTwice'
  BY <1>1 DEF table, Inv, TableInv, CampaignInv, Delivered, PagesDescend, NoCampaignTwice
<1>4. CursorInv' /\ NothingStillIsSkipped'
  BY <1>1 DEF table, Inv, CursorInv, Delivered, Matches, NothingStillIsSkipped, Complete
<1>5. KnownInv'
  BY <1>1 DEF Request, CheckCampaign, RefuseCursor, End, table, Inv, TypeOK, KnownInv,
     UnknownCampaignIsReported
<1>6. LimitInv'
  <2>1. \A size \in Sizes : ClampPageSize(size) > 0
    BY SizesAssumption DEF ClampPageSize
  <2> QED BY <2>1 DEF Request, CheckCampaign, RefuseCursor, End, Inv, LimitInv
<1>7. PagesAreFull'
  BY <1>1 DEF Request, CheckCampaign, RefuseCursor, End, PagesAreFull
<1> QED BY <1>2, <1>3, <1>4, <1>5, <1>6, <1>7 DEF Inv

\* The page comes from below the cursor; what it leaves comes after its last row.
LEMMA ListPageInv ==
    ASSUME Inv, ListPage
    PROVE  Inv'
<1>1. /\ pc = "list" /\ UNCHANGED <<list, mangles, table, limit, known>>
      /\ seen' = Delivered
      /\ page' \subseteq Matching
  BY DEF ListPage, Delivered, Limited
<1>2. /\ rows \in SUBSET Key /\ seen \in SUBSET Key /\ page \in SUBSET Key
      /\ Delivered \in SUBSET Key /\ Matching \in SUBSET Key /\ Matching \in SUBSET rows
      /\ limit \in Nat /\ still \subseteq rows
  BY SizesAssumption DEF Inv, TypeOK, TableInv, Delivered, Matching
<1>3. \A k \in Delivered, m \in Matching : Newer(k, m)
  <2> SUFFICES ASSUME NEW k \in Delivered, NEW m \in Matching PROVE Newer(k, m)
    OBVIOUS
  <2>1. cursor # Nil /\ cursor \in Key /\ (k = cursor \/ Newer(k, cursor))
    BY <1>1 DEF Inv, TypeOK, CursorInv
  <2>2. Newer(cursor, m)
    BY <2>1 DEF Matching, Matches
  <2> QED BY <1>2, <2>1, <2>2, NewerIsAnOrder
<1>4. PagesDescend'
  BY <1>1, <1>3 DEF PagesDescend
<1>5. ASSUME Cardinality(Matching) <= limit
      PROVE  TypeOK' /\ CursorInv' /\ NothingStillIsSkipped' /\ PagesAreFull'
  <2>1. page' = Matching /\ cursor' = cursor /\ pc' = "ended" /\ answer' = "OK"
    BY <1>5 DEF ListPage, End
  <2>2. TypeOK'
    BY <1>1, <1>2, <2>1 DEF table, Inv, TypeOK
  <2>3. CursorInv'
    BY <2>1 DEF CursorInv
  <2>4. NothingStillIsSkipped'
    <3>1. \A k \in still : k \in Delivered \/ k \in Matching
      BY <1>1, <1>2 DEF Inv, CursorInv, Matching
    <3> QED BY <1>1, <2>1, <3>1 DEF NothingStillIsSkipped, table
  <2>5. PagesAreFull'
    BY <1>1, <1>5, <2>1 DEF PagesAreFull
  <2> QED BY <2>2, <2>3, <2>4, <2>5
<1>6. ASSUME ~ Cardinality(Matching) <= limit
      PROVE  TypeOK' /\ CursorInv' /\ NothingStillIsSkipped' /\ PagesAreFull'
  <2>1. /\ page' = Limited(limit) /\ pc' = "ready" /\ answer' = "OK"
        /\ cursor' \in Limited(limit)
        /\ \A k \in Limited(limit) : k = cursor' \/ Newer(k, cursor')
    BY <1>6 DEF ListPage
  <2>2. cursor' \in Matching /\ cursor' \in Key /\ cursor' # Nil
    BY <1>2, <2>1, NilAssumption DEF Limited, Key
  <2>3. TypeOK'
    BY <1>1, <1>2, <2>1, <2>2 DEF table, Inv, TypeOK
  <2>4. CursorInv'
    <3>1. \A k \in Delivered' : k = cursor' \/ Newer(k, cursor')
      BY <1>1, <1>3, <2>1, <2>2 DEF Delivered
    <3>2. ASSUME NEW k \in still, k \notin Delivered' PROVE Newer(cursor', k)
      <4>1. k \in Matching /\ k \notin Limited(limit)
        BY <1>1, <1>2, <2>1, <3>2 DEF Inv, CursorInv, Delivered, Matching
      <4> QED BY <1>2, <2>1, <4>1, PageIsPrefix DEF Inv, TableInv
    <3> QED BY <1>1, <2>2, <3>1, <3>2 DEF CursorInv, Matches, table
  <2>5. NothingStillIsSkipped'
    BY <2>1 DEF NothingStillIsSkipped, Complete
  <2>6. PagesAreFull'
    <3>1. Cardinality(Limited(limit)) = limit
      BY <1>2, <1>6, RanksAreABijection, LimitFills DEF Inv, TableInv
    <3> QED BY <1>1, <1>2, <2>1, <3>1 DEF PagesAreFull
  <2> QED BY <2>3, <2>4, <2>5, <2>6
<1>7. TableInv'
  BY <1>1 DEF table, Inv, TableInv
<1>8. CampaignInv' /\ NoCampaignTwice'
  <2> SUFFICES ASSUME list = "campaigns"
               PROVE  CampaignInv' /\ NoCampaignTwice'
    BY <1>1 DEF CampaignInv, NoCampaignTwice
  <2>1. /\ \A k \in Delivered : k.id \in used
        /\ \A k \in Delivered, m \in rows : k.id = m.id => k = m
        /\ \A k, m \in Delivered : k.id = m.id => k = m
        /\ \A k \in rows : k.id \in used
        /\ \A k, m \in rows : k.id = m.id => k = m
    BY DEF Inv, CampaignInv, TableInv, NoCampaignTwice, Delivered
  <2>2. Delivered' = Delivered \cup page' /\ page' \subseteq rows
    BY <1>1, <1>2 DEF Delivered
  <2>3. CampaignInv'
    BY <1>1, <2>1, <2>2 DEF CampaignInv, table
  <2>4. \A k, m \in Delivered' : k.id = m.id => k = m
    BY <2>1, <2>2
  <2> QED BY <2>3, <2>4 DEF NoCampaignTwice, Delivered
<1>9. KnownInv'
  BY <1>1 DEF ListPage, End, table, Inv, KnownInv, UnknownCampaignIsReported
<1>10. LimitInv'
  BY DEF ListPage, End, LimitInv
<1> QED BY <1>4, <1>5, <1>6, <1>7, <1>8, <1>9, <1>10 DEF Inv

\* A write changes neither the cursor nor what was delivered, and no row becomes still.
LEMMA WritersInv ==
    ASSUME Inv, Writers
    PROVE  Inv'
<1>1. /\ UNCHANGED <<list, mangles, pc, limit, cursor, page, answer, seen, known>>
      /\ still' \subseteq still
      /\ exists' => exists
  BY DEF Writers, Insert, Delete, MoveEvent, DeleteParent, walk
<1>2. /\ CursorInv' /\ LimitInv' /\ PagesDescend' /\ PagesAreFull'
      /\ NothingStillIsSkipped' /\ NoCampaignTwice'
  BY <1>1 DEF Inv, CursorInv, LimitInv, Delivered, Matches, PagesDescend, PagesAreFull,
     NothingStillIsSkipped, Complete, NoCampaignTwice
<1>3. KnownInv'
  <2>1. list = "campaigns" => exists'
    BY DEF Writers, Insert, Delete, MoveEvent, DeleteParent, Inv, KnownInv
  <2> QED BY <1>1, <2>1 DEF Inv, KnownInv, UnknownCampaignIsReported
<1>4. CASE Insert
  <2>1. PICK i \in Id \ used, t \in Time :
          /\ rows' = rows \cup {[time |-> t, id |-> i]}
          /\ used' = used \cup {i}
    BY <1>4 DEF Insert
  <2> DEFINE new == [time |-> t, id |-> i]
  <2>2. new \in Key /\ new.id = i
    BY DEF Key
  <2>3. TypeOK'
    BY <1>1, <1>4, <2>1, <2>2 DEF Insert, Inv, TypeOK
  <2>4. IsFiniteSet(rows')
    BY <2>1, FS_AddElement DEF Inv, TableInv
  <2> HIDE DEF new
  <2>5. rows' = rows \cup {new}
    BY <2>1 DEF new
  <2>6. TableInv' /\ CampaignInv'
    BY <1>1, <1>4, <2>1, <2>2, <2>4, <2>5
       DEF Insert, Inv, TableInv, CampaignInv, Delivered
  <2> QED BY <1>2, <1>3, <2>3, <2>6 DEF Inv
<1>5. CASE Delete
  <2>1. PICK k \in rows : rows' = rows \ {k} /\ still' = still \ {k}
    BY <1>5 DEF Delete
  <2>2. TypeOK'
    BY <1>1, <1>5, <2>1 DEF Delete, Inv, TypeOK
  <2>3. IsFiniteSet(rows')
    BY <2>1, FS_RemoveElement DEF Inv, TableInv
  <2>4. TableInv' /\ CampaignInv'
    BY <1>1, <1>5, <2>1, <2>3 DEF Delete, Inv, TableInv, CampaignInv, Delivered
  <2> QED BY <1>2, <1>3, <2>2, <2>4 DEF Inv
<1>6. CASE MoveEvent
  <2>1. PICK k \in rows, t \in Time :
          /\ rows' = (rows \ {k}) \cup {[k EXCEPT !.time = t]}
          /\ still' = still \ {k}
    BY <1>6 DEF MoveEvent
  <2> DEFINE new == [k EXCEPT !.time = t]
  <2>2. new \in Key /\ new.id = k.id
    BY <2>1 DEF Inv, TypeOK, Key
  <2>3. TypeOK'
    BY <1>1, <1>6, <2>1, <2>2 DEF MoveEvent, Inv, TypeOK
  <2>4. IsFiniteSet(rows')
    BY <2>1, FS_AddElement, FS_RemoveElement DEF Inv, TableInv
  <2> HIDE DEF new
  <2>5. rows' = (rows \ {k}) \cup {new}
    BY <2>1 DEF new
  <2>6. TableInv'
    BY <1>1, <1>6, <2>1, <2>2, <2>4, <2>5 DEF MoveEvent, Inv, TableInv
  <2>7. CampaignInv'
    BY <1>1, <1>6 DEF MoveEvent, CampaignInv
  <2> QED BY <1>2, <1>3, <2>3, <2>6, <2>7 DEF Inv
<1>7. CASE DeleteParent
  <2>1. TypeOK'
    BY <1>1, <1>7 DEF DeleteParent, Inv, TypeOK
  <2>2. TableInv' /\ CampaignInv'
    BY <1>1, <1>7, FS_EmptySet DEF DeleteParent, TableInv, CampaignInv
  <2> QED BY <1>2, <1>3, <2>1, <2>2 DEF Inv
<1> QED BY <1>4, <1>5, <1>6, <1>7 DEF Writers

LEMMA StutterInv ==
    ASSUME Inv, UNCHANGED vars
    PROVE  Inv'
BY DEF vars, table, walk, Inv, TypeOK, TableInv, CursorInv, CampaignInv, KnownInv, LimitInv,
   Delivered, Matches, PagesDescend, PagesAreFull, NothingStillIsSkipped, Complete, NoCampaignTwice,
   UnknownCampaignIsReported

THEOREM Invariance == Spec => []Inv
<1>1. Inv /\ [Next]_vars => Inv'
  <2> SUFFICES ASSUME Inv, [Next]_vars PROVE Inv'
    OBVIOUS
  <2> QED BY RequestInv, ListPageInv, WritersInv, StutterInv DEF Next, Client
<1> QED BY InitInv, <1>1, PTL DEF Spec

-----------------------------------------------------------------------------

\* The state keeps its types, and no client makes a page larger than the cap
\* (campaign.Page, ClampPageSize).
THEOREM TypeCorrect == Spec => []TypeOK
<1>1. Inv => TypeOK
  BY DEF Inv
<1> QED BY Invariance, <1>1, PTL

\* Every page that comes with a token is full, none is larger than asked for, and each
\* is the answer to a request that came while the campaign was there.
THEOREM FittingPages == Spec => []PagesFitTheRequest
<1>1. Inv => PagesFitTheRequest
  BY DEF Inv, KnownInv, PagesFitTheRequest
<1> QED BY Invariance, <1>1, PTL

\* A page that is not the last has a last row to make the token of: what List indexes
\* with len(rows)-1 is there, and the existential of ListPage is never a guard.
THEOREM TokenHasItsRow ==
    Spec => [](pc = "list" /\ Cardinality(Matching) > limit =>
                  \E last \in Limited(limit) :
                     \A k \in Limited(limit) : k = last \/ Newer(k, last))
<1>1. Inv => (pc = "list" /\ Cardinality(Matching) > limit =>
                 \E last \in Limited(limit) :
                    \A k \in Limited(limit) : k = last \/ Newer(k, last))
  <2> SUFFICES ASSUME Inv, pc = "list", Cardinality(Matching) > limit
               PROVE  \E last \in Limited(limit) :
                         \A k \in Limited(limit) : k = last \/ Newer(k, last)
    OBVIOUS
  <2>1. rows \in SUBSET Key /\ IsFiniteSet(rows) /\ limit \in Nat /\ 0 < limit
    BY SizesAssumption DEF Inv, TypeOK, TableInv, LimitInv
  <2>2. Cardinality(Matching) \in Nat
    BY <2>1, RanksAreABijection
  <2> QED BY <2>1, <2>2, LimitFills
<1> QED BY Invariance, <1>1, PTL

\* Whatever is written between two pages, every row of the later one comes after every
\* row delivered before it.
THEOREM Descent == Spec => []PagesDescend
<1>1. Inv => PagesDescend
  BY DEF Inv
<1> QED BY Invariance, <1>1, PTL

\* A complete walk delivers every row that stayed in its place since the walk began.
THEOREM NoSkips == Spec => []NothingStillIsSkipped
<1>1. Inv => NothingStillIsSkipped
  BY DEF Inv
<1> QED BY Invariance, <1>1, PTL

\* No campaign is delivered twice, however many are inserted and deleted meanwhile.
THEOREM NoRepeats == Spec => []NoCampaignTwice
<1>1. Inv => NoCampaignTwice
  BY DEF Inv
<1> QED BY Invariance, <1>1, PTL
=============================================================================
