---- MODULE PolicyProofs ----
(***************************************************************************)
(* The list and the set of an AllowListPolicy agree, however it is built,  *)
(* because they agree after every iteration of the loop that builds it.    *)
(***************************************************************************)
EXTENDS Policy, FiniteSetTheorems, TLAPS

(* Every variable has its type, with any tools, states and iterators       *)
(* (AllowListPolicy::new and the other constructors).                      *)
THEOREM TypeCorrect == Spec => []TypeOK
  <1>1. Lists \subseteq Seq(Tools)
    BY PolicyAssumption DEF Lists
  <1>2. Init => TypeOK
    BY DEF Init, TypeOK
  <1>3. TypeOK /\ [Next]_vars => TypeOK'
    <2> SUFFICES ASSUME TypeOK, [Next]_vars PROVE TypeOK'
      OBVIOUS
    <2> USE DEF TypeOK
    <2>1. CASE NewAllowAll
      BY <2>1 DEF NewAllowAll
    <2>2. CASE \E tools \in SUBSET Tools : NewDenyList(tools)
      BY <2>2 DEF NewDenyList
    <2>3. CASE \E tools \in SUBSET Tools, order \in Lists : NewFromSet(tools, order)
      BY <2>3, <1>1 DEF NewFromSet
    <2>4. CASE \E t \in [States -> Lists] : NewTable(t)
      BY <2>4, <1>1 DEF NewTable
    <2>5. CASE \E iter \in Lists : Begin(iter)
      BY <2>5, <1>1 DEF Begin
    <2>6. CASE Insert
      BY <2>6 DEF Insert
    <2>7. CASE Built
      BY <2>7 DEF Built
    <2>8. CASE UNCHANGED vars
      BY <2>8 DEF vars
    <2> QED
      BY <2>1, <2>2, <2>3, <2>4, <2>5, <2>6, <2>7, <2>8 DEF Next
  <1> QED
    BY <1>2, <1>3, PTL DEF Spec

(* What the loop keeps: the list has the set's tools, each of them once. *)
Consistent ==
    kind \in {"none", "building", "allow_list"} => Listed(list) = set

LEMMA ListedAppend ==
    ASSUME NEW l \in Seq(Tools), NEW t \in Tools
    PROVE  Listed(Append(l, t)) = Listed(l) \union {t}
  <1>1. /\ DOMAIN Append(l, t) = DOMAIN l \union {Len(l) + 1}
        /\ Append(l, t)[Len(l) + 1] = t
        /\ \A i \in DOMAIN l : Append(l, t)[i] = l[i]
    OBVIOUS
  <1> QED
    BY <1>1, Zenon DEF Listed

(* What is allowed is what is listed, for any policy that lists its tools, *)
(* any input and any length of it (AllowListPolicy, Policy::check).        *)
THEOREM Agrees == Spec => []PlanAgreesWithCheck
  <1>1. Init => Consistent
    BY DEF Init, Consistent, Listed
  <1>2. TypeOK /\ Consistent /\ [Next]_vars => Consistent'
    <2> SUFFICES ASSUME TypeOK, Consistent, [Next]_vars PROVE Consistent'
      OBVIOUS
    <2> USE DEF Consistent
    <2>1. CASE NewAllowAll
      BY <2>1 DEF NewAllowAll
    <2>2. CASE \E tools \in SUBSET Tools : NewDenyList(tools)
      BY <2>2 DEF NewDenyList
    <2>3. CASE \E tools \in SUBSET Tools, order \in Lists : NewFromSet(tools, order)
      BY <2>3 DEF NewFromSet
    <2>4. CASE \E t \in [States -> Lists] : NewTable(t)
      BY <2>4 DEF NewTable
    <2>5. CASE \E iter \in Lists : Begin(iter)
      BY <2>5 DEF Begin
    <2>6. CASE Insert
      <3>1. Listed(list) = set /\ list \in Seq(Tools) /\ Head(rest) \in Tools
        BY <2>6 DEF Insert, TypeOK
      <3>2. CASE Head(rest) \in set
        BY <2>6, <3>1, <3>2 DEF Insert
      <3>3. CASE Head(rest) \notin set
        <4>1. list' = Append(list, Head(rest)) /\ set' = set \union {Head(rest)}
          BY <2>6, <3>3 DEF Insert
        <4> QED
          BY <3>1, <4>1, ListedAppend
      <3> QED
        BY <3>2, <3>3
    <2>7. CASE Built
      BY <2>7 DEF Built
    <2>8. CASE UNCHANGED vars
      BY <2>8 DEF vars
    <2> QED
      BY <2>1, <2>2, <2>3, <2>4, <2>5, <2>6, <2>7, <2>8 DEF Next
  <1>3. Consistent => PlanAgreesWithCheck
    BY DEF Consistent, PlanAgreesWithCheck, Check, Allowed
  <1> QED
    BY <1>1, <1>2, <1>3, TypeCorrect, PTL DEF Spec

-----------------------------------------------------------------------------
(* The places of the first n elements of s where a tool is first seen, and  *)
(* the list l when the loop has gone through these n.                      *)
Firsts(s, n) == {i \in 1..n : \A j \in 1..i-1 : s[j] # s[i]}
Place(s, n, i) == Cardinality({j \in Firsts(s, n) : j <= i})

Ordered(s, n, l) ==
    /\ Len(l) = Cardinality(Firsts(s, n))
    /\ \A i \in Firsts(s, n) : l[Place(s, n, i)] = s[i]

Taken == Len(given) - Len(rest)

InOrder ==
    /\ kind = "none" => given = <<>> /\ set = {} /\ list = <<>>
    /\ kind = "building" =>
          /\ Taken \in Nat
          /\ \A i \in 1..Len(rest) : rest[i] = given[Taken + i]
          /\ set = {given[i] : i \in 1..Taken}
          /\ Ordered(given, Taken, list)
    /\ kind = "allow_list" /\ given # <<>> => Ordered(given, Len(given), list)

LEMMA FirstsFinite ==
    ASSUME NEW s, NEW n \in Nat
    PROVE  /\ IsFiniteSet(Firsts(s, n)) /\ Cardinality(Firsts(s, n)) \in Nat
           /\ \A i \in Firsts(s, n) : Place(s, n, i) \in 1..Cardinality(Firsts(s, n))
  <1>1. IsFiniteSet(1..n)
    BY FS_Interval
  <1>2. IsFiniteSet(Firsts(s, n)) /\ Cardinality(Firsts(s, n)) \in Nat
    BY <1>1, FS_Subset, FS_CardinalityType DEF Firsts
  <1>3. ASSUME NEW i \in Firsts(s, n)
        PROVE  Place(s, n, i) \in 1..Cardinality(Firsts(s, n))
    <2> DEFINE Before == {j \in Firsts(s, n) : j <= i}
    <2>1. IsFiniteSet(Before) /\ Cardinality(Before) <= Cardinality(Firsts(s, n))
      BY <1>2, FS_Subset
    <2>2. i \in Before
      BY DEF Firsts
    <2>3. Cardinality(Before) \in Nat /\ Cardinality(Before) # 0
      BY <2>1, <2>2, FS_CardinalityType, FS_EmptySet
    <2> QED
      BY <1>2, <2>1, <2>3 DEF Place
  <1> QED
    BY <1>2, <1>3

(* An element that was seen before is no first, and moves no other. *)
LEMMA SeenStep ==
    ASSUME NEW s, NEW n \in Nat, \E j \in 1..n : s[j] = s[n + 1]
    PROVE  Firsts(s, n + 1) = Firsts(s, n)
  BY DEF Firsts

(* A new one is the last of the firsts. *)
LEMMA NewStep ==
    ASSUME NEW s, NEW n \in Nat, \A j \in 1..n : s[j] # s[n + 1]
    PROVE  /\ Firsts(s, n + 1) = Firsts(s, n) \union {n + 1}
           /\ Cardinality(Firsts(s, n + 1)) = Cardinality(Firsts(s, n)) + 1
           /\ \A i \in Firsts(s, n) : Place(s, n + 1, i) = Place(s, n, i)
           /\ Place(s, n + 1, n + 1) = Cardinality(Firsts(s, n)) + 1
  <1>1. Firsts(s, n + 1) = Firsts(s, n) \union {n + 1} /\ n + 1 \notin Firsts(s, n)
    BY DEF Firsts
  <1>2. Cardinality(Firsts(s, n + 1)) = Cardinality(Firsts(s, n)) + 1
    BY <1>1, FirstsFinite, FS_AddElement
  <1>3. ASSUME NEW i \in Firsts(s, n)
        PROVE  {j \in Firsts(s, n + 1) : j <= i} = {j \in Firsts(s, n) : j <= i}
    BY <1>1 DEF Firsts
  <1>4. {j \in Firsts(s, n + 1) : j <= n + 1} = Firsts(s, n + 1)
    BY DEF Firsts
  <1> QED
    BY <1>1, <1>2, <1>3, <1>4 DEF Place

(* One iteration of the loop of AllowListPolicy::new. *)
LEMMA InsertOrders ==
    ASSUME TypeOK, InOrder, Insert
    PROVE  InOrder'
  <1> DEFINE n == Taken
             tool == Head(rest)
  <1>1. /\ kind = "building" /\ kind' = "building" /\ given' = given
        /\ rest' = Tail(rest) /\ rest \in Seq(Tools) /\ rest # <<>>
        /\ given \in Seq(Tools) /\ list \in Seq(Tools) /\ n \in Nat
        /\ set = {given[i] : i \in 1..n} /\ Ordered(given, n, list)
        /\ \A i \in 1..Len(rest) : rest[i] = given[n + i]
    BY DEF Insert, TypeOK, InOrder
  <1> HIDE DEF n
  <1>2. /\ Len(rest) \in Nat \ {0} /\ Len(Tail(rest)) = Len(rest) - 1
        /\ \A i \in 1..Len(rest) - 1 : Tail(rest)[i] = rest[i + 1]
        /\ tool = rest[1] /\ tool = given[n + 1] /\ tool \in Tools
    BY <1>1
  <1>3. Taken' = n + 1
    BY <1>1, <1>2 DEF Taken, n
  <1>4. \A i \in 1..Len(rest') : rest'[i] = given[(n + 1) + i]
    BY <1>1, <1>2
  <1>5. set' = {given[i] : i \in 1..(n + 1)}
    <2>1. set' = set \union {given[n + 1]}
      BY <1>2 DEF Insert
    <2>2. 1..(n + 1) = 1..n \union {n + 1}
      BY <1>1
    <2> QED
      BY <1>1, <2>1, <2>2
  <1>6. Ordered(given, n + 1, list')
    <2>1. CASE tool \in set
      <3>1. list' = list
        BY <2>1 DEF Insert
      <3>2. Firsts(given, n + 1) = Firsts(given, n)
        BY <1>1, <1>2, <2>1, SeenStep
      <3> QED
        BY <1>1, <3>1, <3>2 DEF Ordered, Place
    <2>2. CASE tool \notin set
      <3>1. list' = Append(list, tool)
        BY <2>2 DEF Insert
      <3>2. /\ Len(list') = Len(list) + 1 /\ list'[Len(list) + 1] = tool
            /\ \A k \in 1..Len(list) : list'[k] = list[k]
        BY <1>1, <1>2, <3>1
      <3>3. \A j \in 1..n : given[j] # given[n + 1]
        BY <1>1, <1>2, <2>2
      <3>4. /\ Firsts(given, n + 1) = Firsts(given, n) \union {n + 1}
            /\ Cardinality(Firsts(given, n + 1)) = Len(list) + 1
            /\ \A i \in Firsts(given, n) :
                  Place(given, n + 1, i) = Place(given, n, i) /\ Place(given, n, i) \in 1..Len(list)
            /\ Place(given, n + 1, n + 1) = Len(list) + 1
        BY <1>1, <3>3, NewStep, FirstsFinite DEF Ordered
      <3>5. \A i \in Firsts(given, n) : list[Place(given, n, i)] = given[i]
        BY <1>1 DEF Ordered
      <3> QED
        BY <1>2, <3>2, <3>4, <3>5 DEF Ordered
    <2> QED
      BY <2>1, <2>2
  <1>7. /\ kind' = "building" /\ Taken' \in Nat
        /\ \A i \in 1..Len(rest') : rest'[i] = given'[Taken' + i]
        /\ set' = {given'[i] : i \in 1..Taken'}
        /\ Ordered(given', Taken', list')
    BY <1>1, <1>3, <1>4, <1>5, <1>6
  <1> QED
    BY <1>7 DEF InOrder

(* What is allowed is what was given, each tool where it was first seen, for *)
(* any tools and any iterator, however long (AllowListPolicy::new).        *)
THEOREM FirstSeenKept == Spec => []FirstSeen
  <1>1. Init => InOrder
    BY DEF Init, InOrder
  <1>2. TypeOK /\ InOrder /\ [Next]_vars => InOrder'
    <2> SUFFICES ASSUME TypeOK, InOrder, [Next]_vars PROVE InOrder'
      OBVIOUS
    <2> USE DEF InOrder
    <2>1. CASE NewAllowAll
      BY <2>1 DEF NewAllowAll
    <2>2. CASE \E tools \in SUBSET Tools : NewDenyList(tools)
      BY <2>2 DEF NewDenyList
    <2>3. CASE \E tools \in SUBSET Tools, order \in Lists : NewFromSet(tools, order)
      BY <2>3 DEF NewFromSet
    <2>4. CASE \E t \in [States -> Lists] : NewTable(t)
      BY <2>4 DEF NewTable
    <2>5. CASE \E iter \in Lists : Begin(iter)
      <3>1. PICK iter \in Lists : Begin(iter)
        BY <2>5
      <3>2. /\ kind' = "building" /\ given' = iter /\ rest' = iter
            /\ set' = {} /\ list' = <<>> /\ Len(iter) \in Nat
        BY <3>1, PolicyAssumption DEF Begin, Lists
      <3>3. Taken' = 0
        BY <3>2 DEF Taken
      <3>4. Firsts(iter, 0) = {}
        BY DEF Firsts
      <3>5. Ordered(iter, 0, <<>>)
        BY <3>4, FS_EmptySet DEF Ordered
      <3> QED
        BY <3>2, <3>3, <3>5
    <2>6. CASE Insert
      BY <2>6, InsertOrders
    <2>7. CASE Built
      <3>1. /\ kind = "building" /\ kind' = "allow_list" /\ rest = <<>>
            /\ UNCHANGED <<given, rest, set, list, table>>
        BY <2>7 DEF Built
      <3>2. Taken = Len(given)
        BY <3>1 DEF Taken, TypeOK
      <3> QED
        BY <3>1, <3>2
    <2>8. CASE UNCHANGED vars
      BY <2>8 DEF vars, Taken
    <2> QED
      BY <2>1, <2>2, <2>3, <2>4, <2>5, <2>6, <2>7, <2>8 DEF Next
  <1>3. TypeOK /\ InOrder => FirstSeen
    <2> SUFFICES ASSUME TypeOK, InOrder, kind = "allow_list", given # <<>>
                 PROVE  FirstSeen
      BY DEF FirstSeen
    <2>1. {i \in DOMAIN given : \A j \in 1..i-1 : given[j] # given[i]}
             = Firsts(given, Len(given))
      BY DEF TypeOK, Firsts
    <2>2. Ordered(given, Len(given), list)
      BY DEF InOrder
    <2> QED
      BY <2>1, <2>2 DEF FirstSeen, Ordered, Place
  <1> QED
    BY <1>1, <1>2, <1>3, TypeCorrect, PTL DEF Spec
====
