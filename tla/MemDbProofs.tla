----------------------------- MODULE MemDbProofs -----------------------------
(***************************************************************************)
(* Theorems about MemDb for any keys, hash function and size of a unit.    *)
(***************************************************************************)
EXTENDS MemDb, SequenceTheorems, FiniteSetTheorems, NaturalsInduction, WellFoundedInduction,
        TLAPS

(***************************************************************************)
(* The inductive invariant.  Rows become busy in the order of their ids,   *)
(* so idle rows are the last of the newest unit and all others are busy.   *)
(***************************************************************************)
\* The rows up to the t-th of unit u.
Upto(u, t) == {r \in Row : r[1] < u \/ (r[1] = u /\ r[2] <= t)}

Taken == MaxDataNum - Len(idle)

IdleInv ==
    /\ Len(idle) <= MaxDataNum
    /\ \A i \in 1 .. Len(idle) : idle[i] = <<units, Taken + i>>
    /\ DOMAIN key = Upto(units, Taken)

NumInv ==
    /\ units = 1 => num = Taken
    /\ units # 1 => num > MaxDataNum

ChainInv == \A p \in Pail : \A i \in 1 .. Len(pail[p]) : pail[p][i] \in DOMAIN key

IInv == TypeOK /\ IdleInv /\ NumInv /\ ChainInv
-----------------------------------------------------------------------------
LEMMA UnitIsIdle ==
    ASSUME NEW u \in 1 .. MaxUnits
    PROVE  /\ UnitRows(u) \in Seq(Row) /\ Len(UnitRows(u)) = MaxDataNum
           /\ \A i \in 1 .. MaxDataNum : UnitRows(u)[i] = <<u, i>>
  <1>1. \A i \in 1 .. MaxDataNum : <<u, i>> \in Row
    BY TableAssumption DEF Row
  <1>q. QED
    BY <1>1, TableAssumption DEF UnitRows

\* The next row of a unit ...
LEMMA NextOfUnit ==
    ASSUME NEW u \in 1 .. MaxUnits, NEW t \in 1 .. MaxDataNum
    PROVE  Upto(u, t) = Upto(u, t - 1) \cup {<<u, t>>}
  <1>1. <<u, t>> \in Row
    BY DEF Row
  <1>2. ASSUME NEW a \in 1 .. MaxUnits, NEW b \in 1 .. MaxDataNum
        PROVE  (a < u \/ (a = u /\ b <= t))
                 <=> (a < u \/ (a = u /\ b <= t - 1)) \/ (a = u /\ b = t)
    BY TableAssumption
  <1>3. \A r \in Row : r \in Upto(u, t) <=> r \in Upto(u, t - 1) \/ r = <<u, t>>
    <2> SUFFICES ASSUME NEW a \in 1 .. MaxUnits, NEW b \in 1 .. MaxDataNum
                 PROVE  <<a, b>> \in Upto(u, t)
                          <=> <<a, b>> \in Upto(u, t - 1) \/ <<a, b>> = <<u, t>>
      BY DEF Row
    <2>1. <<a, b>> \in Row /\ (<<a, b>> = <<u, t>> <=> a = u /\ b = t)
      BY DEF Row
    <2>q. QED
      BY <1>2, <2>1 DEF Upto
  <1>q. QED
    BY <1>1, <1>3 DEF Upto

\* ... or of the next unit.
LEMMA NextUnit ==
    ASSUME NEW u \in 1 .. MaxUnits
    PROVE  Upto(u, MaxDataNum) = Upto(u + 1, 0)
  <1>1. \A a \in 1 .. MaxUnits : \A b \in 1 .. MaxDataNum :
          (a < u \/ (a = u /\ b <= MaxDataNum)) <=> (a < u + 1 \/ (a = u + 1 /\ b <= 0))
    BY TableAssumption
  <1>2. \A r \in Row : r[1] \in 1 .. MaxUnits /\ r[2] \in 1 .. MaxDataNum
    BY DEF Row
  <1>q. QED
    BY <1>1, <1>2 DEF Upto

LEMMA InitInv == Init => IInv
  <1> SUFFICES ASSUME Init PROVE IInv
    OBVIOUS
  <1>1. 1 \in 1 .. MaxUnits
    BY TableAssumption
  <1>2. idle \in Seq(Row) /\ Len(idle) = MaxDataNum
        /\ \A i \in 1 .. MaxDataNum : idle[i] = <<1, i>>
    BY <1>1, UnitIsIdle DEF Init
  <1>3. Taken = 0
    BY <1>2, TableAssumption DEF Taken
  <1>4. DOMAIN key = {}
    BY DEF Init
  <1>5. TypeOK
    BY <1>1, <1>2, <1>4, TableAssumption DEF TypeOK, Init
  <1>6. IdleInv
    <2>1. Upto(1, 0) = {}
      BY TableAssumption DEF Row, Upto
    <2>q. QED
      BY <1>2, <1>3, <1>4, <2>1, TableAssumption DEF IdleInv, Init
  <1>7. NumInv /\ ChainInv
    BY <1>3 DEF NumInv, ChainInv, Init
  <1>q. QED
    BY <1>5, <1>6, <1>7 DEF IInv

\* What a creation takes its row from.
LEMMA SupplyFacts ==
    ASSUME IInv, idle = <<>> => units < MaxUnits
    PROVE  LET u == IF idle = <<>> THEN units + 1 ELSE units
           IN  /\ u \in 1 .. MaxUnits
               /\ Supply \in Seq(Row) /\ Len(Supply) \in 1 .. MaxDataNum
               /\ \A i \in 1 .. Len(Supply) :
                    Supply[i] = <<u, MaxDataNum - Len(Supply) + i>>
  <1>1. CASE idle = <<>>
    <2>1. units + 1 \in 1 .. MaxUnits
      BY <1>1, TableAssumption DEF IInv, TypeOK
    <2>q. QED
      BY <1>1, <2>1, UnitIsIdle, TableAssumption DEF Supply
  <1>2. CASE idle # <<>>
    <2>1. idle \in Seq(Row) /\ Len(idle) \in 1 .. MaxDataNum /\ Supply = idle
      BY <1>2, EmptySeq, TableAssumption DEF IInv, TypeOK, IdleInv, Supply
    <2>q. QED
      BY <1>2, <2>1, TableAssumption DEF IInv, TypeOK, IdleInv, Taken
  <1>q. QED
    BY <1>1, <1>2

\* The row a creation takes, and what it leaves.
LEMMA CreateRow ==
    ASSUME IInv, NEW k \in Key, CreateDataByKey(k)
    PROVE  /\ units' \in 1 .. MaxUnits
           /\ Head(Supply) = <<units', Taken'>> /\ Head(Supply) \in Row
           /\ idle' \in Seq(Row) /\ Len(idle') < MaxDataNum
           /\ \A i \in 1 .. Len(idle') : idle'[i] = <<units', Taken' + i>>
           /\ Taken' = IF idle = <<>> THEN 1 ELSE Taken + 1
  <1>1. idle = <<>> => units < MaxUnits
    BY DEF CreateDataByKey
  <1>2. /\ units' \in 1 .. MaxUnits
        /\ Supply \in Seq(Row) /\ Len(Supply) \in 1 .. MaxDataNum
        /\ \A i \in 1 .. Len(Supply) :
             Supply[i] = <<units', MaxDataNum - Len(Supply) + i>>
    BY <1>1, SupplyFacts DEF CreateDataByKey
  <1>3. Supply # <<>>
    BY <1>2
  <1>4. /\ idle' \in Seq(Row) /\ Len(idle') = Len(Supply) - 1
        /\ \A i \in 1 .. Len(idle') : idle'[i] = Supply[i + 1]
    BY <1>2, <1>3, HeadTailProperties DEF CreateDataByKey
  <1>5. Taken' = MaxDataNum - Len(Supply) + 1
    BY <1>2, <1>4, TableAssumption DEF Taken
  <1>6. Head(Supply) = Supply[1]
    BY <1>2
  <1>7. Head(Supply) = <<units', Taken'>> /\ Head(Supply) \in Row
    BY <1>2, <1>5, <1>6, TableAssumption DEF Row
  <1>8. \A i \in 1 .. Len(idle') : idle'[i] = <<units', Taken' + i>>
    <2> TAKE i \in 1 .. Len(idle')
    <2>1. i + 1 \in 1 .. Len(Supply) /\ idle'[i] = Supply[i + 1]
      BY <1>2, <1>4
    <2>2. Supply[i + 1] = <<units', MaxDataNum - Len(Supply) + (i + 1)>>
      BY <1>2, <2>1
    <2>3. MaxDataNum - Len(Supply) + (i + 1) = Taken' + i
      BY <1>2, <1>5, <2>1, TableAssumption
    <2>q. QED
      BY <2>1, <2>2, <2>3
  <1>9. Len(Supply) = IF idle = <<>> THEN MaxDataNum ELSE Len(idle)
    BY <1>1, UnitIsIdle, TableAssumption DEF Supply, IInv, TypeOK
  <1>10. Len(idle) \in Nat
    BY DEF IInv, TypeOK
  <1>11. Taken' = IF idle = <<>> THEN 1 ELSE Taken + 1
    BY <1>5, <1>9, <1>10, TableAssumption DEF Taken
  <1>12. Len(idle') < MaxDataNum
    BY <1>2, <1>4, TableAssumption
  <1>q. QED
    BY <1>2, <1>4, <1>7, <1>8, <1>11, <1>12

\* A chain and its first row of a key.
LEMMA OneFirst ==
    ASSUME TypeOK, NEW k \in Key, NEW i \in First(k), NEW j \in First(k)
    PROVE  i = j
  <1> PailOf[k] \in Pail /\ pail[PailOf[k]] \in Seq(Row)
    BY TableAssumption DEF TypeOK
  <1>1. i \in Nat /\ j \in Nat
    BY DEF First
  <1>2. ~(i < j) /\ ~(j < i)
    BY <1>1 DEF First
  <1>q. QED
    BY <1>1, <1>2

LEMMA LookupIsFirst ==
    ASSUME TypeOK, NEW k \in Key, NEW i \in First(k)
    PROVE  db_QueryInsidePail(k) = pail[PailOf[k]][i]
  <1>1. (CHOOSE j \in First(k) : TRUE) = i
    BY OneFirst
  <1>q. QED
    BY <1>1 DEF db_QueryInsidePail

LEMMA LookupIsRow ==
    ASSUME IInv, NEW k \in Key
    PROVE  db_QueryInsidePail(k) = NoRow \/ db_QueryInsidePail(k) \in DOMAIN key
  <1>1. CASE First(k) = {}
    BY <1>1 DEF db_QueryInsidePail
  <1>2. CASE First(k) # {}
    <2>1. PICK i \in First(k) : TRUE
      BY <1>2
    <2>2. db_QueryInsidePail(k) = pail[PailOf[k]][i]
      BY LookupIsFirst DEF IInv
    <2>3. PailOf[k] \in Pail /\ i \in 1 .. Len(pail[PailOf[k]])
      BY TableAssumption DEF First
    <2>q. QED
      BY <2>2, <2>3 DEF IInv, ChainInv
  <1>q. QED
    BY <1>1, <1>2

\* No row is handed out twice.
LEMMA CreateIsNew ==
    ASSUME IInv, NEW k \in Key, CreateDataByKey(k)
    PROVE  Head(Supply) \notin DOMAIN key
  <1>1. /\ Head(Supply) = <<units', Taken'>>
        /\ Taken' = IF idle = <<>> THEN 1 ELSE Taken + 1
        /\ units' = IF idle = <<>> THEN units + 1 ELSE units
    BY CreateRow DEF CreateDataByKey
  <1>2. units \in Nat /\ Taken \in Int
    BY TableAssumption DEF IInv, TypeOK, Taken
  <1>3. DOMAIN key = Upto(units, Taken)
    BY DEF IInv, IdleInv
  <1>4. <<units', Taken'>> \notin Upto(units, Taken)
    <2>1. <<units', Taken'>>[1] = units' /\ <<units', Taken'>>[2] = Taken'
      OBVIOUS
    <2>q. QED
      BY <1>1, <1>2, <2>1 DEF Upto
  <1>q. QED
    BY <1>1, <1>3, <1>4
-----------------------------------------------------------------------------
LEMMA QueryInv == ASSUME IInv, NEW k \in Key, QueryDataByKey(k) PROVE IInv'
  <1> DEFINE r == db_QueryInsidePail(k)
  <1>1. UNCHANGED <<units, idle, pail, key>> /\ ack' = r
    BY DEF QueryDataByKey
  <1>2. r = NoRow \/ r \in DOMAIN key
    BY LookupIsRow
  <1>3. UNCHANGED busy \/ MoveInner(r) \/ MoveHeader(r)
    BY DEF QueryDataByKey, db_MoveNode2BusyEnd
  <1>4. num' = num
    BY <1>3 DEF MoveInner, MoveHeader, busy
  <1>5. ack' \in Row \cup {NoRow}
    BY <1>1, <1>2 DEF IInv, TypeOK
  <1>6. /\ hdr' \in Row \cup {NoRow} /\ tail' \in Row \cup {NoRow}
        /\ nxt' \in [Row -> Row \cup {NoRow}]
        /\ pre' \in [Row -> Row \cup {NoRow}]
    <2>1. CASE UNCHANGED busy
      BY <2>1 DEF busy, IInv, TypeOK
    <2>2. CASE ~UNCHANGED busy
      <3>1. r \in Row
        BY <1>2, <2>2 DEF QueryDataByKey, IInv, TypeOK
      <3>2. nxt[r] \in Row \cup {NoRow} /\ pre[r] \in Row \cup {NoRow}
        BY <3>1 DEF IInv, TypeOK
      <3>3. /\ hdr \in Row \cup {NoRow} /\ tail \in Row \cup {NoRow}
            /\ nxt \in [Row -> Row \cup {NoRow}]
            /\ pre \in [Row -> Row \cup {NoRow}]
        BY DEF IInv, TypeOK
      <3>4. CASE MoveInner(r)
        <4>1. hdr' = hdr /\ tail' = r
              /\ nxt' = [nxt EXCEPT ![pre[r]] = nxt[r], ![r] = NoRow, ![tail] = r]
              /\ pre' = [pre EXCEPT ![nxt[r]] = pre[r], ![r] = tail]
          BY <3>4 DEF MoveInner
        <4> HIDE DEF r
        <4>2. nxt' \in [Row -> Row \cup {NoRow}]
          BY <3>1, <3>2, <3>3, <4>1
        <4>3. pre' \in [Row -> Row \cup {NoRow}]
          BY <3>1, <3>2, <3>3, <4>1
        <4>q. QED
          BY <3>1, <3>3, <4>1, <4>2, <4>3
      <3>5. CASE MoveHeader(r)
        <4>1. hdr' = nxt[r] /\ tail' = r
              /\ nxt' = [nxt EXCEPT ![tail] = r, ![r] = NoRow]
              /\ pre' = [pre EXCEPT ![nxt[r]] = NoRow, ![r] = tail]
          BY <3>5 DEF MoveHeader
        <4> HIDE DEF r
        <4>2. nxt' \in [Row -> Row \cup {NoRow}]
          BY <3>1, <3>3, <4>1
        <4>3. pre' \in [Row -> Row \cup {NoRow}]
          BY <3>1, <3>3, <4>1
        <4>q. QED
          BY <3>1, <3>2, <4>1, <4>2, <4>3
      <3>q. QED
        BY <1>3, <2>2, <3>4, <3>5
    <2>q. QED
      BY <2>1, <2>2
  <1>7. TypeOK'
    BY <1>1, <1>4, <1>5, <1>6 DEF IInv, TypeOK
  <1>8. IdleInv' /\ NumInv' /\ ChainInv'
    BY <1>1, <1>4 DEF IInv, IdleInv, NumInv, ChainInv, Taken
  <1>q. QED
    BY <1>7, <1>8 DEF IInv

LEMMA CreateInv == ASSUME IInv, NEW k \in Key, CreateDataByKey(k) PROVE IInv'
  <1> DEFINE r == Head(Supply)
  <1>1. /\ r = <<units', Taken'>> /\ r \in Row /\ units' \in 1 .. MaxUnits
        /\ idle' \in Seq(Row) /\ Len(idle') < MaxDataNum
        /\ \A i \in 1 .. Len(idle') : idle'[i] = <<units', Taken' + i>>
        /\ Taken' = IF idle = <<>> THEN 1 ELSE Taken + 1
    BY CreateRow
  <1>2. /\ key' = [x \in DOMAIN key \cup {r} |-> IF x = r THEN k ELSE key[x]]
        /\ pail' = [pail EXCEPT ![PailOf[k]] = <<r>> \o @] /\ ack' = r
        /\ units' = IF idle = <<>> THEN units + 1 ELSE units
        /\ num' = num + 1
    BY DEF CreateDataByKey, InsertNode2Pail, AppendBusy
  <1>3. DOMAIN key' = DOMAIN key \cup {r}
    BY <1>2
  <1>4. PailOf[k] \in Pail
    BY TableAssumption
  <1>5. /\ pail' \in [Pail -> Seq(Row)]
        /\ \A p \in Pail \ {PailOf[k]} : pail'[p] = pail[p]
        /\ Len(pail'[PailOf[k]]) = Len(pail[PailOf[k]]) + 1
        /\ \A i \in 1 .. Len(pail[PailOf[k]]) + 1 :
             pail'[PailOf[k]][i] = IF i = 1 THEN r ELSE pail[PailOf[k]][i - 1]
    <2>1. pail[PailOf[k]] \in Seq(Row) /\ <<r>> \in Seq(Row)
      BY <1>1, <1>4 DEF IInv, TypeOK
    <2>2. /\ <<r>> \o pail[PailOf[k]] \in Seq(Row)
          /\ Len(<<r>> \o pail[PailOf[k]]) = Len(pail[PailOf[k]]) + 1
          /\ \A i \in 1 .. Len(pail[PailOf[k]]) + 1 : (<<r>> \o pail[PailOf[k]])[i] =
                IF i = 1 THEN r ELSE pail[PailOf[k]][i - 1]
      BY <2>1, ConcatProperties
    <2>q. QED
      BY <1>2, <1>4, <2>2 DEF IInv, TypeOK
  <1>6. TypeOK'
    <2>1. /\ hdr' \in Row \cup {NoRow} /\ tail' \in Row \cup {NoRow} /\ num' \in Nat
          /\ nxt' \in [Row -> Row \cup {NoRow}]
          /\ pre' \in [Row -> Row \cup {NoRow}]
      <3>1. /\ hdr \in Row \cup {NoRow} /\ tail \in Row \cup {NoRow} /\ num \in Nat
            /\ nxt \in [Row -> Row \cup {NoRow}]
            /\ pre \in [Row -> Row \cup {NoRow}]
        BY DEF IInv, TypeOK
      <3>2. /\ hdr' = IF num = 0 THEN r ELSE hdr
            /\ tail' = r
            /\ nxt' = IF num = 0 THEN [nxt EXCEPT ![r] = NoRow]
                      ELSE [nxt EXCEPT ![r] = NoRow, ![tail] = r]
            /\ pre' = [pre EXCEPT ![r] = IF num = 0 THEN NoRow ELSE tail]
        BY DEF CreateDataByKey, AppendBusy
      <3> HIDE DEF r
      <3>3. nxt' \in [Row -> Row \cup {NoRow}]
        BY <1>1, <3>1, <3>2
      <3>4. pre' \in [Row -> Row \cup {NoRow}]
        BY <1>1, <3>1, <3>2
      <3>5. /\ hdr' \in Row \cup {NoRow} /\ tail' \in Row \cup {NoRow}
            /\ num' \in Nat
        <4> HIDE DEF IInv
        <4>q. QED
          BY <1>1, <1>2, <3>1, <3>2
      <3>q. QED
        BY <3>3, <3>4, <3>5
    <2>2. DOMAIN key' \subseteq Row /\ \A x \in DOMAIN key' : key'[x] \in Key
      BY <1>1, <1>2, <1>3 DEF IInv, TypeOK
    <2>q. QED
      BY <1>1, <1>2, <1>5, <2>1, <2>2 DEF TypeOK
  <1>7. IdleInv'
    <2>1. Len(idle) \in 0 .. MaxDataNum /\ units \in 1 .. MaxUnits
      BY TableAssumption DEF IInv, TypeOK, IdleInv
    <2>2. Taken' \in 1 .. MaxDataNum
      BY <1>1, TableAssumption DEF Taken
    <2>3. DOMAIN key = Upto(units, Taken)
      BY DEF IInv, IdleInv
    <2>4. DOMAIN key = Upto(units', Taken' - 1)
      <3>1. CASE idle = <<>>
        <4>1. Taken = MaxDataNum /\ units' = units + 1 /\ Taken' - 1 = 0
          BY <1>1, <1>2, <3>1, TableAssumption DEF Taken
        <4>q. QED
          BY <2>1, <2>3, <4>1, NextUnit
      <3>2. CASE idle # <<>>
        <4>1. units' = units /\ Taken' - 1 = Taken
          BY <1>1, <1>2, <2>1, <3>2, TableAssumption DEF Taken
        <4>q. QED
          BY <2>3, <4>1
      <3>q. QED
        BY <3>1, <3>2
    <2>5. DOMAIN key' = Upto(units', Taken')
      <3> DEFINE t == Taken'
      <3>1. units' \in 1 .. MaxUnits /\ t \in 1 .. MaxDataNum
        BY <1>1, <2>2
      <3> HIDE DEF t
      <3>2. Upto(units', t) = Upto(units', t - 1) \cup {<<units', t>>}
        BY <3>1, NextOfUnit
      <3> USE DEF t
      <3>q. QED
        BY <1>1, <1>3, <2>4, <3>2
    <2>q. QED
      BY <1>1, <2>5, TableAssumption DEF IdleInv
  <1>8. NumInv'
    <2> HIDE DEF r
    <2>1. /\ units = 1 => num = Taken
          /\ units # 1 => num > MaxDataNum
          /\ units \in 1 .. MaxUnits /\ num \in Nat /\ MaxDataNum \in Nat \ {0}
          /\ MaxUnits \in Nat
      BY TableAssumption DEF IInv, TypeOK, NumInv
    <2>2. CASE idle = <<>>
      <3>1. Taken = MaxDataNum /\ units' = units + 1 /\ num' = num + 1
        BY <1>2, <2>1, <2>2 DEF Taken
      <3>2. units' # 1 /\ num' > MaxDataNum
        BY <2>1, <3>1
      <3>q. QED
        BY <3>2 DEF NumInv
    <2>3. CASE idle # <<>>
      <3>1. Taken' = Taken + 1 /\ units' = units /\ num' = num + 1
        BY <1>1, <1>2, <2>3
      <3>2. units # 1 => num' > MaxDataNum
        BY <2>1, <3>1
      <3>q. QED
        BY <2>1, <3>1, <3>2 DEF NumInv
    <2>q. QED
      BY <2>2, <2>3
  <1>9. ChainInv'
    <2> SUFFICES ASSUME NEW p \in Pail, NEW i \in 1 .. Len(pail'[p])
                 PROVE  pail'[p][i] \in DOMAIN key'
      BY DEF ChainInv
    <2>1. CASE p # PailOf[k]
      BY <1>3, <1>5, <2>1 DEF IInv, ChainInv
    <2>2. CASE p = PailOf[k] /\ i # 1
      <3>1. pail'[p][i] = pail[p][i - 1] /\ i - 1 \in 1 .. Len(pail[p])
        BY <1>4, <1>5, <2>2 DEF IInv, TypeOK
      <3>q. QED
        BY <1>3, <3>1 DEF IInv, ChainInv
    <2>3. CASE p = PailOf[k] /\ i = 1
      BY <1>3, <1>5, <2>3
    <2>q. QED
      BY <2>1, <2>2, <2>3
  <1>q. QED
    BY <1>6, <1>7, <1>8, <1>9 DEF IInv

THEOREM TableInvariant == Spec => []IInv
  <1>1. IInv /\ [Next]_vars => IInv'
    <2> SUFFICES ASSUME IInv, [Next]_vars PROVE IInv'
      OBVIOUS
    <2>1. CASE UNCHANGED vars
      BY <2>1 DEF vars, busy, IInv, TypeOK, IdleInv, NumInv, ChainInv, Taken
    <2>q. QED
      BY <2>1, QueryInv, CreateInv DEF Next
  <1>q. QED
    BY <1>1, InitInv, PTL DEF Spec

\* Types of the table's variables.
THEOREM TableTypes == Spec => []TypeOK
  BY TableInvariant, PTL DEF IInv

\* In a table of at most one unit QueryDataByID finds for each id but the unit's
\* last the row that was created with it, and for that one, once there is such a
\* row, dereferences NULL.
THEOREM IdsReachEveryRow == Spec => []IdsEnumerate
  <1>1. IInv => IdsEnumerate
    <2> SUFFICES ASSUME IInv, num <= MaxDataNum PROVE
             /\ \A id \in 1 .. num :
                   IF id = MaxDataNum THEN QueryDataByID(id) = Fault
                   ELSE QueryDataByID(id) \in DOMAIN key /\ DataId(QueryDataByID(id)) = id
             /\ \A r \in DOMAIN key :
                   DataId(r) # MaxDataNum => \E id \in 1 .. num : QueryDataByID(id) = r
      BY DEF IdsEnumerate, QueryDataNum
    <2>1. num \in Nat /\ units \in 1 .. MaxUnits /\ Taken \in 0 .. MaxDataNum
      BY TableAssumption DEF IInv, TypeOK, IdleInv, Taken
    <2>2. units = 1 /\ num = Taken
      BY <2>1, TableAssumption DEF IInv, NumInv
    <2>3. DOMAIN key = Upto(1, num)
      BY <2>2 DEF IInv, IdleInv
    <2>4. ASSUME NEW id \in 1 .. num, id # MaxDataNum
          PROVE  QueryDataByID(id) = <<1, id>>
      <3>1. id \in Nat /\ id # 0 /\ id < MaxDataNum /\ ~(id > MaxDataNum)
        BY <2>1, <2>4, TableAssumption
      <3>2. id \div MaxDataNum = 0 /\ id % MaxDataNum = id
        BY <3>1, TableAssumption
      <3>q. QED
        BY <2>2, <3>1, <3>2 DEF QueryDataByID, db_ID2Node
    <2>5. ASSUME NEW id \in 1 .. num, id = MaxDataNum
          PROVE  QueryDataByID(id) = Fault
      <3>1. id # 0 /\ ~(id > MaxDataNum) /\ id \div MaxDataNum = 1
        BY <2>5, TableAssumption
      <3>q. QED
        BY <2>2, <3>1 DEF QueryDataByID, db_ID2Node
    <2>6. ASSUME NEW id \in 1 .. num
          PROVE  <<1, id>> \in DOMAIN key /\ DataId(<<1, id>>) = id
      <3>1. <<1, id>> \in Row /\ <<1, id>>[1] = 1 /\ <<1, id>>[2] = id
        BY <2>1, TableAssumption DEF Row
      <3>2. <<1, id>> \in Upto(1, num)
        BY <2>1, <3>1 DEF Upto
      <3>q. QED
        BY <2>1, <2>3, <3>1, <3>2, TableAssumption DEF DataId
    <2>7. ASSUME NEW r \in DOMAIN key, DataId(r) # MaxDataNum
          PROVE  \E id \in 1 .. num : QueryDataByID(id) = r
      <3>1. r \in Row /\ (r[1] < 1 \/ (r[1] = 1 /\ r[2] <= num))
        BY <2>3, <2>7 DEF Upto
      <3>2. PICK i \in 1 .. num : r = <<1, i>>
        BY <2>1, <3>1, TableAssumption DEF Row
      <3>q. QED
        BY <2>4, <2>6, <2>7, <3>2
    <2>q. QED
      BY <2>4, <2>5, <2>6, <2>7
  <1>q. QED
    BY <1>1, TableInvariant, PTL
-----------------------------------------------------------------------------
(***************************************************************************)
(* The pails implement a table from keys to rows.                          *)
(***************************************************************************)
\* What a creation does to the lookups: its key finds the new row ...
LEMMA CreatedIsFound ==
    ASSUME IInv, NEW k \in Key, CreateDataByKey(k)
    PROVE  db_QueryInsidePail(k)' = Head(Supply)
  <1>1. /\ key'[Head(Supply)] = k
        /\ pail'[PailOf[k]] = <<Head(Supply)>> \o pail[PailOf[k]]
        /\ pail[PailOf[k]] \in Seq(Row) /\ Head(Supply) \in Row
    BY CreateRow, TableAssumption DEF CreateDataByKey, InsertNode2Pail, IInv, TypeOK
  <1>2. /\ Len(pail'[PailOf[k]]) = Len(pail[PailOf[k]]) + 1
        /\ pail'[PailOf[k]][1] = Head(Supply)
    BY <1>1, ConcatProperties
  <1>3. 1 \in First(k)'
    BY <1>1, <1>2 DEF First
  <1>4. TypeOK'
    BY CreateInv DEF IInv
  <1>5. \A i \in First(k)' : i = 1
    BY <1>1, <1>2, <1>4 DEF First
  <1>6. First(k)' = {1}
    BY <1>3, <1>5
  <1>q. QED
    BY <1>2, <1>6 DEF db_QueryInsidePail

\* ... and another key what it found before.
LEMMA OthersAreFound ==
    ASSUME IInv, NEW k \in Key, CreateDataByKey(k), NEW o \in Key \ {k}
    PROVE  db_QueryInsidePail(o)' = db_QueryInsidePail(o)
  <1> DEFINE r == Head(Supply)  old == pail[PailOf[o]]  new == pail'[PailOf[o]]
  <1>1. /\ r \notin DOMAIN key
        /\ key'[r] = k /\ \A x \in DOMAIN key : key'[x] = key[x]
    BY CreateIsNew DEF CreateDataByKey
  <1>2. PailOf[o] \in Pail /\ PailOf[k] \in Pail /\ old \in Seq(Row) /\ r \in Row
    BY CreateRow, TableAssumption DEF IInv, TypeOK
  <1>3. \A i \in 1 .. Len(old) : key'[old[i]] = key[old[i]]
    BY <1>1, <1>2 DEF IInv, ChainInv
  <1>4. CASE PailOf[o] # PailOf[k]
    <2>1. new = old
      BY <1>2, <1>4 DEF CreateDataByKey, InsertNode2Pail, IInv, TypeOK
    <2>2. First(o)' = First(o)
      <3>1. /\ First(o) = {i \in 1 .. Len(old) :
                  key[old[i]] = o /\ \A j \in 1 .. i - 1 : key[old[j]] # o}
            /\ First(o)' = {i \in 1 .. Len(old) :
                  key'[old[i]] = o /\ \A j \in 1 .. i - 1 : key'[old[j]] # o}
        BY <2>1 DEF First
      <3>2. \A i \in 1 .. Len(old) : \A j \in 1 .. i - 1 : j \in 1 .. Len(old)
        BY <1>2
      <3>3. \A i \in 1 .. Len(old) : /\ key'[old[i]] = o <=> key[old[i]] = o
                                     /\ \A j \in 1 .. i - 1 : key'[old[j]] # o <=> key[old[j]] # o
        BY <1>3, <3>2
      <3> HIDE DEF old, new, r, CreateDataByKey, IInv
      <3>q. QED
        BY <3>1, <3>3, SMTT(30)
    <2>q. QED
      BY <2>1, <2>2 DEF db_QueryInsidePail
  <1>5. CASE PailOf[o] = PailOf[k]
    <2>1. /\ Len(new) = Len(old) + 1 /\ new[1] = r
          /\ \A i \in 1 .. Len(old) : new[i + 1] = old[i]
      <3>1. new = <<r>> \o old
        BY <1>2, <1>5 DEF CreateDataByKey, InsertNode2Pail, IInv, TypeOK
      <3>q. QED
        BY <1>2, <3>1, ConcatProperties
    <2>2. ASSUME NEW i \in First(o) PROVE i + 1 \in First(o)'
      <3>1. /\ i \in 1 .. Len(old) /\ key[old[i]] = o
            /\ \A j \in 1 .. i - 1 : key[old[j]] # o
        BY DEF First
      <3>2. i + 1 \in 1 .. Len(new) /\ key'[new[i + 1]] = o
        BY <1>2, <1>3, <2>1, <3>1
      <3>3. ASSUME NEW j \in 1 .. (i + 1) - 1 PROVE key'[new[j]] # o
        <4>1. CASE j = 1
          BY <1>1, <2>1, <4>1
        <4>2. CASE j # 1
          <5>1. j - 1 \in 1 .. i - 1 /\ j - 1 \in 1 .. Len(old) /\ (j - 1) + 1 = j
            BY <1>2, <3>1, <4>2
          <5>2. new[j] = old[j - 1]
            BY <2>1, <5>1
          <5>q. QED
            BY <1>3, <3>1, <5>1, <5>2
        <4>q. QED
          BY <4>1, <4>2
      <3>q. QED
        BY <3>2, <3>3 DEF First
    <2>3. ASSUME NEW i \in First(o)' PROVE i - 1 \in First(o)
      <3>1. /\ i \in 1 .. Len(new) /\ key'[new[i]] = o
            /\ \A j \in 1 .. i - 1 : key'[new[j]] # o
        BY DEF First
      <3>2. i # 1
        BY <1>1, <2>1, <3>1
      <3>3. i - 1 \in 1 .. Len(old) /\ (i - 1) + 1 = i
        BY <1>2, <2>1, <3>1, <3>2
      <3>4. new[i] = old[i - 1]
        BY <2>1, <3>3
      <3>5. key[old[i - 1]] = o
        BY <1>3, <3>1, <3>3, <3>4
      <3>6. ASSUME NEW j \in 1 .. (i - 1) - 1 PROVE key[old[j]] # o
        <4>1. j \in 1 .. Len(old) /\ j + 1 \in 1 .. i - 1
          BY <1>2, <3>3
        <4>q. QED
          BY <1>3, <2>1, <3>1, <4>1
      <3>q. QED
        BY <3>3, <3>5, <3>6 DEF First
    <2>4. CASE First(o) = {}
      <3>1. First(o)' = {}
        BY <2>3, <2>4
      <3>q. QED
        BY <2>4, <3>1 DEF db_QueryInsidePail
    <2>5. CASE First(o) # {}
      <3>1. PICK i \in First(o) : TRUE
        BY <2>5
      <3>2. db_QueryInsidePail(o) = old[i]
        BY <3>1, LookupIsFirst DEF IInv
      <3>3. i + 1 \in First(o)' /\ TypeOK'
        BY <2>2, <3>1, CreateInv DEF IInv
      <3>4. db_QueryInsidePail(o)' = new[i + 1]
        <4>1. ASSUME NEW j \in First(o)' PROVE j = i + 1
          <5>1. j - 1 \in First(o)
            BY <2>3
          <5>2. j - 1 = i
            BY <3>1, <5>1, OneFirst DEF IInv
          <5>3. j \in Nat
            BY DEF First
          <5>q. QED
            BY <5>2, <5>3
        <4>2. (CHOOSE j \in First(o)' : TRUE) = i + 1
          BY <3>3, <4>1
        <4>q. QED
          BY <3>3, <4>2 DEF db_QueryInsidePail
      <3>5. i \in 1 .. Len(old)
        BY <3>1 DEF First
      <3>q. QED
        BY <2>1, <3>2, <3>4, <3>5
    <2>q. QED
      BY <2>4, <2>5
  <1>q. QED
    BY <1>4, <1>5

\* A table of DbCore.c is a table from keys to the rows last created for them,
\* which hands no row out twice, however its keys collide and it grows.
THEOREM TableIsKeyTable == Spec => IsKeyTable
  <1>1. Init => Table!Init
    <2> SUFFICES ASSUME Init PROVE Table!Init
      OBVIOUS
    <2>1. ASSUME NEW k \in Key PROVE db_QueryInsidePail(k) = NoRow
      <3>1. pail[PailOf[k]] = <<>>
        BY TableAssumption DEF Init
      <3>2. First(k) = {}
        BY <3>1 DEF First
      <3>q. QED
        BY <3>2 DEF db_QueryInsidePail
    <2>q. QED
      BY <2>1 DEF Table!Init, Init
  <1>2. ASSUME IInv, NEW k \in Key, CreateDataByKey(k) PROVE Table!Create(k)
    <2>1. /\ Head(Supply) \in Row \ DOMAIN key /\ ack' = Head(Supply)
          /\ DOMAIN key' = DOMAIN key \cup {Head(Supply)}
      BY <1>2, CreateRow, CreateIsNew DEF CreateDataByKey
    <2>2. \A o \in Key : db_QueryInsidePail(o)'
                           = IF o = k THEN Head(Supply) ELSE db_QueryInsidePail(o)
      BY <1>2, CreatedIsFound, OthersAreFound
    <2>q. QED
      BY <2>1, <2>2 DEF Table!Create
  <1>3. ASSUME IInv, NEW k \in Key, QueryDataByKey(k) PROVE Table!Query(k)
    <2>1. ack' = db_QueryInsidePail(k) /\ UNCHANGED <<pail, key>>
      BY <1>3 DEF QueryDataByKey
    <2>q. QED
      BY <2>1 DEF Table!Query, db_QueryInsidePail, First
  <1>4. IInv /\ [Next]_vars =>
          [\E k \in Key : Table!Create(k) \/ Table!Query(k)]_<<
              [k \in Key |-> db_QueryInsidePail(k)], DOMAIN key, ack>>
    <2>1. UNCHANGED vars => UNCHANGED <<
              [k \in Key |-> db_QueryInsidePail(k)], DOMAIN key, ack>>
      BY DEF vars, db_QueryInsidePail, First
    <2>q. QED
      BY <1>2, <1>3, <2>1 DEF Next
  <1>q. QED
    BY <1>1, <1>4, TableInvariant, PTL DEF Spec, IsKeyTable, Table!Spec
-----------------------------------------------------------------------------
(***************************************************************************)
(* The list of busy rows.  The invariant names the sequence of rows the    *)
(* pointers make; a row that is found moves to its end.                    *)
(***************************************************************************)
IsBusyList(s) ==
    /\ s \in [1 .. num -> DOMAIN key]
    /\ \A i, j \in 1 .. num : s[i] = s[j] => i = j
    /\ \A r \in DOMAIN key : \E i \in 1 .. num : s[i] = r
    /\ \A i \in 1 .. num - 1 : nxt[s[i]] = s[i + 1] /\ pre[s[i + 1]] = s[i]
    /\ num > 0 => /\ s[1] = hdr /\ pre[hdr] = NoRow
                  /\ s[num] = tail /\ nxt[tail] = NoRow

LinkInv == \E s : IsBusyList(s)

LEMMA LeastMember ==
    ASSUME NEW S, S \subseteq Nat, S # {}
    PROVE  \E i \in S : \A j \in S : i <= j
  <1> DEFINE Less == {p \in Nat \X Nat : p[1] < p[2]}
  <1>1. OpToRel(<, Nat) = Less
    BY Zenon DEF OpToRel
  <1>2. IsWellFoundedOn(Less, Nat)
    BY <1>1, NatLessThanWellFounded
  <1>3. PICK i \in S : \A j \in S : <<j, i>> \notin Less
    <2> HIDE DEF Less
    <2>q. QED
      BY <1>2, WFMin
  <1>4. ASSUME NEW j \in S, ~(i <= j)
        PROVE  FALSE
    <2>1. <<j, i>> \in Nat \X Nat /\ j < i
      BY <1>4
    <2>2. <<j, i>> \in Less
      BY <2>1
    <2>q. QED
      BY <1>3, <2>2
  <1>q. QED
    BY <1>4

\* Steps along the list from its head go through that sequence.
LEMMA ListIsBusy == ASSUME IInv, LinkInv PROVE BusyIsList
  <1> SUFFICES ASSUME num > 0 PROVE BusyIsList
    BY DEF BusyIsList
  <1>1. PICK s : IsBusyList(s)
    BY DEF LinkInv
  <1> DEFINE at[i \in 1 .. num] == IF i = 1 THEN hdr ELSE nxt[at[i - 1]]
  <1>2. num \in Nat \ {0}
    BY DEF IInv, TypeOK
  <1>3. at = [i \in 1 .. num |-> IF i = 1 THEN hdr ELSE nxt[at[i - 1]]]
    <2>1. s = [i \in 1 .. num |-> IF i = 1 THEN hdr ELSE nxt[s[i - 1]]]
      <3>1. s = [i \in 1 .. num |-> s[i]]
        BY <1>1 DEF IsBusyList
      <3>2. ASSUME NEW i \in 1 .. num
            PROVE  s[i] = IF i = 1 THEN hdr ELSE nxt[s[i - 1]]
        <4>1. i # 1 => i - 1 \in 1 .. num - 1 /\ i - 1 + 1 = i
          BY <1>2
        <4>q. QED
          BY <1>1, <1>2, <4>1 DEF IsBusyList
      <3>q. QED
        BY <3>1, <3>2
    <2>q. QED
      BY <2>1
  <1> HIDE DEF at
  <1>4. \A i \in 1 .. num : at[i] = IF i = 1 THEN hdr ELSE nxt[at[i - 1]]
    BY <1>3
  <1>5. \A i \in 1 .. num : at[i] = s[i]
    <2> DEFINE D == {i \in 1 .. num : at[i] # s[i]}
    <2>1. SUFFICES ASSUME D # {} PROVE FALSE
      OBVIOUS
    <2>2. PICK m \in D : \A j \in D : m <= j
      <3>1. D \subseteq Nat
        BY <1>2
      <3> HIDE DEF D
      <3>q. QED
        BY <2>1, <3>1, LeastMember
    <2>3. m \in 1 .. num /\ at[m] # s[m]
      BY <2>2
    <2>4. CASE m = 1
      BY <1>1, <1>4, <2>3, <2>4 DEF IsBusyList
    <2>5. CASE m # 1
      <3>1. m - 1 \in 1 .. num - 1 /\ m - 1 \in 1 .. num /\ ~(m <= m - 1) /\ m - 1 + 1 = m
        BY <1>2, <2>3, <2>5
      <3>2. at[m - 1] = s[m - 1]
        BY <2>2, <3>1
      <3>3. nxt[s[m - 1]] = s[m]
        BY <1>1, <3>1 DEF IsBusyList
      <3>4. at[m] = nxt[at[m - 1]]
        BY <1>4, <2>3, <2>5
      <3>q. QED
        BY <2>3, <3>2, <3>3, <3>4
    <2>q. QED
      BY <2>4, <2>5
  <1>6. {at[i] : i \in 1 .. num} = DOMAIN key
    <2>1. \A i \in 1 .. num : at[i] \in DOMAIN key
      BY <1>1, <1>5 DEF IsBusyList
    <2>2. \A r \in DOMAIN key : \E i \in 1 .. num : at[i] = r
      BY <1>1, <1>5 DEF IsBusyList
    <2>q. QED
      BY <2>1, <2>2
  <1>7. num = Cardinality(DOMAIN key)
    <2>1. s \in Bijection(1 .. num, DOMAIN key)
      BY <1>1 DEF IsBusyList, Bijection, Injection, Surjection, IsInjective
    <2>q. QED
      <3>1. ExistsBijection(1 .. num, DOMAIN key)
        BY <2>1 DEF ExistsBijection
      <3>2. num \in Nat
        BY <1>2
      <3>q. QED
        BY <3>1, <3>2, FS_CountingElements, Zenon
  <1>8. \A i \in 2 .. num : pre[at[i]] = at[i - 1]
    <2> TAKE i \in 2 .. num
    <2>1. i - 1 \in 1 .. num - 1 /\ i \in 1 .. num /\ i - 1 \in 1 .. num /\ i - 1 + 1 = i
      BY <1>2
    <2>q. QED
      BY <1>1, <1>5, <2>1 DEF IsBusyList
  <1>9. at[num] = tail /\ nxt[tail] = NoRow /\ pre[hdr] = NoRow
    BY <1>1, <1>2, <1>5 DEF IsBusyList
  <1>q. QED
    BY <1>6, <1>7, <1>8, <1>9 DEF BusyIsList, at

\* A row that becomes busy is the new last one.
LEMMA CreateLinks == ASSUME IInv, LinkInv, NEW k \in Key, CreateDataByKey(k) PROVE LinkInv'
  <1> DEFINE r == Head(Supply)
  <1>1. PICK s : IsBusyList(s)
    BY DEF LinkInv
  <1>2. /\ hdr' = IF num = 0 THEN r ELSE hdr
        /\ tail' = r /\ num' = num + 1 /\ DOMAIN key' = DOMAIN key \cup {r}
        /\ nxt' = IF num = 0 THEN [nxt EXCEPT ![r] = NoRow]
                  ELSE [nxt EXCEPT ![r] = NoRow, ![tail] = r]
        /\ pre' = [pre EXCEPT ![r] = IF num = 0 THEN NoRow ELSE tail]
    BY DEF CreateDataByKey, AppendBusy
  <1>3. r \in Row /\ r \notin DOMAIN key
    BY CreateRow, CreateIsNew
  <1>4. /\ num \in Nat /\ DOMAIN key \subseteq Row
        /\ nxt \in [Row -> Row \cup {NoRow}] /\ pre \in [Row -> Row \cup {NoRow}]
    BY DEF IInv, TypeOK
  <1>5. /\ s \in [1 .. num -> DOMAIN key]
        /\ \A i, j \in 1 .. num : s[i] = s[j] => i = j
        /\ \A x \in DOMAIN key : \E i \in 1 .. num : s[i] = x
        /\ \A i \in 1 .. num - 1 : nxt[s[i]] = s[i + 1] /\ pre[s[i + 1]] = s[i]
        /\ num > 0 => /\ s[1] = hdr /\ pre[hdr] = NoRow
                      /\ s[num] = tail /\ nxt[tail] = NoRow
    BY <1>1 DEF IsBusyList
  <1> HIDE DEF r
  <1>z. PICK z : z = [i \in 1 .. num + 1 |-> IF i = num + 1 THEN r ELSE s[i]]
    OBVIOUS
  <1>6. /\ z[num + 1] = r /\ \A i \in 1 .. num : z[i] = s[i] /\ s[i] \in DOMAIN key /\ s[i] # r
        /\ \A i \in 1 .. num + 1 : i = num + 1 \/ i \in 1 .. num
        /\ z \in [1 .. num + 1 -> DOMAIN key']
    BY <1>2, <1>3, <1>4, <1>5, <1>z
  <1>7. /\ num > 0 => tail \in DOMAIN key /\ tail # r /\ nxt'[tail] = r
        /\ nxt'[r] = NoRow /\ pre'[r] = IF num = 0 THEN NoRow ELSE tail
        /\ \A x \in DOMAIN key : pre'[x] = pre[x]
        /\ \A x \in DOMAIN key \ {tail} : nxt'[x] = nxt[x]
    <2>1. num > 0 => tail \in DOMAIN key
      BY <1>4, <1>5
    <2>q. QED
      BY <1>2, <1>3, <1>4, <2>1
  <1>8. \A i, j \in 1 .. num + 1 : z[i] = z[j] => i = j
    BY <1>4, <1>5, <1>6
  <1>9. \A x \in DOMAIN key \cup {r} : \E i \in 1 .. num + 1 : z[i] = x
    BY <1>4, <1>5, <1>6
  <1>10. ASSUME NEW i \in 1 .. num
         PROVE  nxt'[z[i]] = z[i + 1] /\ pre'[z[i + 1]] = z[i]
    <2>1. CASE i = num
      <3>1. num > 0 /\ z[i] = tail /\ z[i + 1] = r /\ tail # r
        BY <1>4, <1>5, <1>6, <1>7, <2>1
      <3>q. QED
        BY <1>7, <3>1
    <2>2. CASE i # num
      <3>1. i \in 1 .. num - 1 /\ i + 1 \in 1 .. num /\ num \in 1 .. num
        BY <1>4, <2>2
      <3>2. s[i] # tail
        BY <1>5, <2>2, <3>1
      <3>q. QED
        BY <1>5, <1>6, <1>7, <3>1, <3>2
    <2>q. QED
      BY <2>1, <2>2
  <1>11. z[1] = hdr' /\ pre'[hdr'] = NoRow /\ z[num + 1] = tail' /\ nxt'[tail'] = NoRow
    <2>1. CASE num = 0
      BY <1>2, <1>6, <1>7, <2>1
    <2>2. CASE num # 0
      <3>1. num > 0 /\ 1 \in 1 .. num
        BY <1>4, <2>2
      <3>q. QED
        BY <1>2, <1>5, <1>6, <1>7, <2>2, <3>1
    <2>q. QED
      BY <2>1, <2>2
  <1>12. num' - 1 = num
    BY <1>2, <1>4
  <1>13. IsBusyList(z)'
    <2>1. /\ z \in [1 .. num' -> DOMAIN key']
          /\ \A i, j \in 1 .. num' : z[i] = z[j] => i = j
          /\ \A x \in DOMAIN key' : \E i \in 1 .. num' : z[i] = x
      BY <1>2, <1>6, <1>8, <1>9
    <2>2. \A i \in 1 .. num' - 1 : nxt'[z[i]] = z[i + 1] /\ pre'[z[i + 1]] = z[i]
      BY <1>10, <1>12
    <2>3. z[1] = hdr' /\ pre'[hdr'] = NoRow /\ z[num'] = tail' /\ nxt'[tail'] = NoRow
      BY <1>2, <1>11
    <2>q. QED
      BY <2>1, <2>2, <2>3 DEF IsBusyList
  <1>q. QED
    BY <1>13 DEF LinkInv

\* The row at m of the list goes to its end, and those behind it close up.
LEMMA MoveLinks ==
    ASSUME IInv, LinkInv, NEW r \in DOMAIN key, db_MoveNode2BusyEnd(r), UNCHANGED key
    PROVE  LinkInv'
  <1>1. PICK s : IsBusyList(s)
    BY DEF LinkInv
  <1>2. /\ num \in Nat /\ DOMAIN key \subseteq Row
        /\ nxt \in [Row -> Row \cup {NoRow}] /\ pre \in [Row -> Row \cup {NoRow}]
    BY DEF IInv, TypeOK
  <1>3. /\ s \in [1 .. num -> DOMAIN key]
        /\ \A i, j \in 1 .. num : s[i] = s[j] => i = j
        /\ \A x \in DOMAIN key : \E i \in 1 .. num : s[i] = x
        /\ \A i \in 1 .. num - 1 : nxt[s[i]] = s[i + 1] /\ pre[s[i + 1]] = s[i]
        /\ num > 0 => /\ s[1] = hdr /\ pre[hdr] = NoRow
                      /\ s[num] = tail /\ nxt[tail] = NoRow
    BY <1>1 DEF IsBusyList
  <1>4. PICK m \in 1 .. num : s[m] = r
    BY <1>3
  <1>5. CASE UNCHANGED busy
    <2>1. IsBusyList(s)'
      BY <1>1, <1>5 DEF IsBusyList, busy
    <2>q. QED
      BY <2>1 DEF LinkInv
  <1>6. CASE MoveInner(r) \/ MoveHeader(r)
    <2>1. m < num /\ m \in 1 .. num - 1 /\ m + 1 \in 1 .. num /\ num \in 1 .. num
          /\ num > 0 /\ 1 \in 1 .. num /\ s[num] = tail /\ s[1] = hdr
      <3>1. num > 0 /\ num \in 1 .. num /\ 1 \in 1 .. num
        BY <1>2, <1>4
      <3>2. s[num] = tail /\ s[1] = hdr
        BY <1>3, <3>1
      <3>3. m # num
        BY <1>3, <1>4, <1>6, <3>1, <3>2 DEF MoveInner, MoveHeader
      <3>q. QED
        BY <1>2, <3>1, <3>2, <3>3
    <2>2. nxt[r] = s[m + 1] /\ \A i \in 1 .. num : s[i] \in Row
      BY <1>2, <1>3, <1>4, <2>1
    <2>3. \A i, j \in 1 .. num : i # j => s[i] # s[j]
      BY <1>3
    <2>4. m > 1 => m - 1 \in 1 .. num - 1 /\ m - 1 \in 1 .. num /\ pre[r] = s[m - 1]
      <3> SUFFICES ASSUME m > 1 PROVE m - 1 \in 1 .. num - 1 /\ m - 1 \in 1 .. num /\ pre[r] = s[m - 1]
        OBVIOUS
      <3>1. m - 1 \in 1 .. num - 1 /\ m - 1 \in 1 .. num /\ m - 1 + 1 = m
        BY <1>2, <1>4
      <3>q. QED
        BY <1>3, <1>4, <3>1
    <2>5. /\ num' = num /\ tail' = r /\ DOMAIN key' = DOMAIN key
          /\ nxt'[r] = NoRow
          /\ nxt'[s[num]] = r
          /\ pre'[r] = s[num]
          /\ \A i \in 1 .. num : i \notin {m - 1, m, num} => nxt'[s[i]] = nxt[s[i]]
          /\ \A i \in 1 .. num : i \notin {m, m + 1} => pre'[s[i]] = pre[s[i]]
          /\ m > 1 => nxt'[s[m - 1]] = s[m + 1] /\ pre'[s[m + 1]] = s[m - 1] /\ hdr' = s[1]
          /\ m = 1 => pre'[s[2]] = NoRow /\ hdr' = s[2]
      <3>1. CASE MoveInner(r)
        <4>1. m > 1 /\ m - 1 \in 1 .. num /\ m - 1 < m
          BY <1>2, <1>4, <2>1, <3>1 DEF MoveInner
        <4>2. /\ nxt' = [nxt EXCEPT ![s[m - 1]] = s[m + 1], ![s[m]] = NoRow, ![s[num]] = s[m]]
              /\ pre' = [pre EXCEPT ![s[m + 1]] = s[m - 1], ![s[m]] = s[num]]
              /\ tail' = r /\ hdr' = hdr /\ num' = num
          BY <1>4, <2>1, <2>2, <2>4, <3>1, <4>1 DEF MoveInner
        <4>3. s[m] # s[num] /\ s[m - 1] # s[m] /\ s[m - 1] # s[num] /\ s[m + 1] # s[m]
          BY <2>1, <2>3, <4>1
        <4>4. s[m] \in Row /\ s[m - 1] \in Row /\ s[m + 1] \in Row /\ s[num] \in Row
          BY <2>1, <2>2, <4>1
        <4>5. \A i \in 1 .. num : i \notin {m - 1, m, num} => nxt'[s[i]] = nxt[s[i]]
          <5> TAKE i \in 1 .. num
          <5>1. ASSUME i \notin {m - 1, m, num} PROVE s[i] \notin {s[m - 1], s[m], s[num]}
            BY <2>1, <2>3, <4>1, <5>1
          <5>q. QED
            BY <1>2, <2>2, <4>2, <5>1
        <4>6. \A i \in 1 .. num : i \notin {m, m + 1} => pre'[s[i]] = pre[s[i]]
          <5> TAKE i \in 1 .. num
          <5>1. ASSUME i \notin {m, m + 1} PROVE s[i] \notin {s[m + 1], s[m]}
            BY <2>1, <2>3, <5>1
          <5>q. QED
            BY <1>2, <2>2, <4>2, <5>1
        <4>7. nxt'[s[m]] = NoRow /\ nxt'[s[num]] = s[m] /\ nxt'[s[m - 1]] = s[m + 1]
          BY <1>2, <4>2, <4>3, <4>4
        <4>8. pre'[s[m]] = s[num] /\ pre'[s[m + 1]] = s[m - 1]
          BY <1>2, <4>2, <4>3, <4>4
        <4>9. DOMAIN key' = DOMAIN key /\ hdr' = s[1] /\ m # 1
          BY <2>1, <4>1, <4>2
        <4>q. QED
          BY <1>4, <4>2, <4>5, <4>6, <4>7, <4>8, <4>9
      <3>2. CASE MoveHeader(r)
        <4>1. m = 1 /\ m + 1 = 2
          BY <1>3, <1>4, <2>1, <3>2 DEF MoveHeader
        <4>2. /\ nxt' = [nxt EXCEPT ![s[num]] = s[m], ![s[m]] = NoRow]
              /\ pre' = [pre EXCEPT ![s[m + 1]] = NoRow, ![s[m]] = s[num]]
              /\ tail' = r /\ hdr' = s[m + 1] /\ num' = num
          BY <1>4, <2>1, <2>2, <3>2 DEF MoveHeader
        <4>3. s[m] # s[num] /\ s[m + 1] # s[m]
          BY <2>1, <2>3
        <4>4. s[m] \in Row /\ s[m + 1] \in Row /\ s[num] \in Row
          BY <2>1, <2>2
        <4>5. \A i \in 1 .. num : i \notin {m, num} => nxt'[s[i]] = nxt[s[i]]
          <5> TAKE i \in 1 .. num
          <5>1. ASSUME i \notin {m, num} PROVE s[i] \notin {s[m], s[num]}
            BY <2>1, <2>3, <5>1
          <5>q. QED
            BY <1>2, <2>2, <4>2, <5>1
        <4>6. \A i \in 1 .. num : i \notin {m, m + 1} => pre'[s[i]] = pre[s[i]]
          <5> TAKE i \in 1 .. num
          <5>1. ASSUME i \notin {m, m + 1} PROVE s[i] \notin {s[m + 1], s[m]}
            BY <2>1, <2>3, <5>1
          <5>q. QED
            BY <1>2, <2>2, <4>2, <5>1
        <4>7. nxt'[s[m]] = NoRow /\ nxt'[s[num]] = s[m]
          BY <1>2, <4>2, <4>3, <4>4
        <4>8. pre'[s[m]] = s[num] /\ pre'[s[m + 1]] = NoRow
          BY <1>2, <4>2, <4>3, <4>4
        <4>9. DOMAIN key' = DOMAIN key /\ ~(m > 1)
          BY <4>1
        <4>q. QED
          BY <1>4, <4>1, <4>2, <4>5, <4>6, <4>7, <4>8, <4>9
      <3>q. QED
        BY <1>6, <3>1, <3>2
    <2>z. PICK z : z = [i \in 1 .. num |-> IF i < m THEN s[i]
                                           ELSE IF i < num THEN s[i + 1] ELSE r]
      OBVIOUS
    <2>6. /\ \A i \in 1 .. m - 1 : z[i] = s[i]
          /\ \A i \in m .. num - 1 : z[i] = s[i + 1]
          /\ z[num] = r
      BY <1>2, <1>4, <2>1, <2>z
    <2>7. z \in [1 .. num -> DOMAIN key]
      BY <1>2, <1>3, <1>4, <2>1, <2>z
    <2>8. \A i, j \in 1 .. num : z[i] = z[j] => i = j
      BY <1>2, <1>3, <1>4, <2>1, <2>z
    <2>9. \A x \in DOMAIN key : \E i \in 1 .. num : z[i] = x
      <3> TAKE x \in DOMAIN key
      <3>1. PICK i \in 1 .. num : s[i] = x
        BY <1>3
      <3>2. CASE i < m
        BY <1>2, <2>6, <3>1, <3>2
      <3>3. CASE i = m
        BY <1>4, <2>1, <2>6, <3>1, <3>3
      <3>4. CASE i > m
        <4>1. i - 1 \in m .. num - 1 /\ i - 1 \in 1 .. num /\ i - 1 + 1 = i
          BY <1>2, <3>1, <3>4
        <4>q. QED
          BY <2>6, <3>1, <4>1
      <3>q. QED
        BY <1>2, <3>2, <3>3, <3>4
    <2>10. ASSUME NEW i \in 1 .. num - 1
           PROVE  nxt'[z[i]] = z[i + 1] /\ pre'[z[i + 1]] = z[i]
      <3>1. CASE i < m - 1
        <4>1. i \in 1 .. m - 1 /\ i + 1 \in 1 .. m - 1 /\ i \in 1 .. num /\ i + 1 \in 1 .. num
              /\ i \notin {m - 1, m, num} /\ i + 1 \notin {m, m + 1}
          BY <1>2, <2>1, <3>1
        <4>q. QED
          BY <1>3, <2>5, <2>6, <4>1
      <3>2. CASE i = m - 1
        <4>1. m > 1 /\ i \in 1 .. m - 1 /\ i + 1 = m /\ m \in m .. num - 1
          BY <1>2, <2>1, <3>2
        <4>q. QED
          BY <2>5, <2>6, <3>2, <4>1
      <3>3. CASE i >= m /\ i < num - 1
        <4>1. /\ i \in m .. num - 1 /\ i + 1 \in m .. num - 1
              /\ i + 1 \in 1 .. num - 1 /\ i + 1 \in 1 .. num /\ i + 1 + 1 \in 1 .. num
              /\ i + 1 \notin {m - 1, m, num} /\ i + 1 + 1 \notin {m, m + 1}
          BY <1>2, <2>1, <3>3
        <4>2. nxt[s[i + 1]] = s[i + 1 + 1] /\ pre[s[i + 1 + 1]] = s[i + 1]
          BY <1>3, <4>1
        <4>3. nxt'[s[i + 1]] = nxt[s[i + 1]] /\ pre'[s[i + 1 + 1]] = pre[s[i + 1 + 1]]
          BY <2>5, <4>1
        <4>q. QED
          BY <2>6, <4>1, <4>2, <4>3
      <3>4. CASE i = num - 1
        <4>1. i \in m .. num - 1 /\ i + 1 = num
          BY <1>2, <2>1, <3>4
        <4>q. QED
          BY <2>5, <2>6, <4>1
      <3>q. QED
        BY <1>2, <1>4, <3>1, <3>2, <3>3, <3>4
    <2>11. z[1] = hdr' /\ pre'[hdr'] = NoRow /\ z[num] = tail' /\ nxt'[tail'] = NoRow
      <3>1. CASE m = 1
        <4>1. 1 \in m .. num - 1 /\ 1 + 1 = 2
          BY <1>2, <2>1, <3>1
        <4>q. QED
          BY <2>5, <2>6, <3>1, <4>1
      <3>2. CASE m # 1
        <4>1. m > 1 /\ 1 \in 1 .. m - 1 /\ 1 \notin {m, m + 1}
          BY <1>2, <1>4, <3>2
        <4>q. QED
          BY <1>3, <1>4, <2>1, <2>5, <2>6, <4>1
      <3>q. QED
        BY <3>1, <3>2
    <2>12. IsBusyList(z)'
      BY <2>5, <2>7, <2>8, <2>9, <2>10, <2>11 DEF IsBusyList
    <2>q. QED
      BY <2>12 DEF LinkInv
  <1>q. QED
    BY <1>5, <1>6 DEF db_MoveNode2BusyEnd

\* From the first row to the last and back, the busy rows stay one list of every
\* row created, however many of them the lookups move to its end: no row is lost
\* from it, none is in it twice, and QueryDataNum is its length.
THEOREM BusyListKept == Spec => []BusyIsList
  <1>1. Init => LinkInv
    <2> SUFFICES ASSUME Init PROVE LinkInv
      OBVIOUS
    <2>1. IsBusyList(<<>>)
      BY DEF Init, IsBusyList
    <2>q. QED
      BY <2>1 DEF LinkInv
  <1>2. IInv /\ LinkInv /\ [Next]_vars => LinkInv'
    <2> SUFFICES ASSUME IInv, LinkInv, [Next]_vars PROVE LinkInv'
      OBVIOUS
    <2>1. ASSUME NEW k \in Key, CreateDataByKey(k) PROVE LinkInv'
      BY <2>1, CreateLinks
    <2>2. ASSUME NEW k \in Key, QueryDataByKey(k) PROVE LinkInv'
      <3>1. CASE UNCHANGED busy
        BY <2>2, <3>1 DEF LinkInv, IsBusyList, QueryDataByKey, busy
      <3>2. CASE db_QueryInsidePail(k) # NoRow
        BY <2>2, <3>2, LookupIsRow, MoveLinks DEF QueryDataByKey
      <3>q. QED
        BY <2>2, <3>1, <3>2 DEF QueryDataByKey
    <2>3. CASE UNCHANGED vars
      BY <2>3 DEF LinkInv, IsBusyList, vars, busy
    <2>q. QED
      BY <2>1, <2>2, <2>3 DEF Next
  <1>q. QED
    BY <1>1, <1>2, ListIsBusy, TableInvariant, PTL DEF Spec
=============================================================================
