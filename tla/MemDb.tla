-------------------------------- MODULE MemDb --------------------------------
(***************************************************************************)
(* One table of the memory database (DbCore.c).  Its rows lie in units of  *)
(* MaxDataNum; a table grows by a unit when it has no idle row left, and   *)
(* a row is busy from its creation on.  A hash pail chains the rows of its *)
(* keys, newest first.                                                     *)
(*                                                                         *)
(* The engine is the only user, in one thread, and it deletes no row and   *)
(* creates none without a key.                                             *)
(***************************************************************************)
EXTENDS Naturals, Sequences, FiniteSets

CONSTANTS
    Key,         \* keys of the table
    Pail,        \* hash pails
    PailOf,      \* per key: db_HashKey modulo dwPailNum
    MaxDataNum,  \* rows of a unit
    MaxUnits,    \* bound: units of memory
    NoRow,
    Fault,       \* NULL is dereferenced
    Stray,       \* an address outside of the unit
    Abort        \* an assertion fails

Row == (1 .. MaxUnits) \X (1 .. MaxDataNum)

ASSUME TableAssumption ==
    /\ PailOf \in [Key -> Pail]
    /\ MaxDataNum \in Nat \ {0}
    /\ MaxUnits \in Nat \ {0}
    /\ NoRow \notin Row
    /\ {Fault, Stray, Abort} \cap Row = {}

VARIABLES
    units,           \* dwUnitNum
    idle,            \* tIdleDataTable
    hdr, tail, num,  \* tBusyDataTable, whose rows are linked both ways by
    nxt, pre,        \* pDataNxt and pDataPre
    pail,            \* per pail: its rows
    key,             \* per row: its key area, once it is busy
    ack              \* row of the last answer

busy == <<hdr, tail, num, nxt, pre>>
vars == <<units, idle, busy, pail, key, ack>>

(***************************************************************************)
(* Memory                                                                  *)
(***************************************************************************)
\* The rows of a unit in the order db_FormatDataNode links them, and the id
\* db_GetDataId gives them: those of older units come first.
UnitRows_FromZero(u) == [i \in 1 .. MaxDataNum |-> <<u, i - 1>>]
UnitRows_Backwards(u) == [i \in 1 .. MaxDataNum |-> <<u, MaxDataNum + 1 - i>>]
UnitRows(u) == [i \in 1 .. MaxDataNum |-> <<u, i>>]
DataId(r) == (r[1] - 1) * MaxDataNum + r[2]

\* MLHdr is the newest unit, and ids start at 1 but are divided as if at 0: the
\* last id of a unit leads before the first row of the one after it, or to NULL
\* when there is none.
db_ID2Node(id) ==
    LET seq   == id \div MaxDataNum
        inner == id % MaxDataNum
    IN  IF seq > units THEN Abort
        ELSE IF seq = units THEN Fault
        ELSE IF inner = 0 THEN Stray ELSE <<units - seq, inner>>

QueryDataByID(id) ==
    IF id = 0 \/ id > MaxDataNum THEN NoRow ELSE db_ID2Node(id)

QueryDataNum == num

\* db_ExtendDataMem when there is no idle row, which a bound keeps finite.
Supply == IF idle = <<>> THEN UnitRows(units + 1) ELSE idle
-----------------------------------------------------------------------------
(***************************************************************************)
(* The list of busy rows                                                   *)
(***************************************************************************)
\* db_GetIdleNode's second half: a row joins the list at its end.
AppendBusy(r) ==
    /\ hdr' = IF num = 0 THEN r ELSE hdr
    /\ tail' = r
    /\ num' = num + 1
    /\ nxt' = IF num = 0 THEN [nxt EXCEPT ![r] = NoRow]
              ELSE [nxt EXCEPT ![r] = NoRow, ![tail] = r]
    /\ pre' = [pre EXCEPT ![r] = IF num = 0 THEN NoRow ELSE tail]

\* The row found by a query moves to the end: from between two others ...
MoveInner(r) ==
    /\ r \notin {hdr, tail}
    /\ nxt' = [nxt EXCEPT ![pre[r]] = nxt[r], ![r] = NoRow, ![tail] = r]
    /\ pre' = [pre EXCEPT ![nxt[r]] = pre[r], ![r] = tail]
    /\ tail' = r
    /\ UNCHANGED <<hdr, num>>

MoveHeader_KeepPre(r) ==
    /\ r = hdr /\ num # 1
    /\ hdr' = nxt[r]
    /\ nxt' = [nxt EXCEPT ![tail] = r, ![r] = NoRow]
    /\ pre' = [pre EXCEPT ![r] = tail]
    /\ tail' = r
    /\ UNCHANGED num

\* ... or from the front.
MoveHeader(r) ==
    /\ r = hdr /\ num # 1
    /\ hdr' = nxt[r]
    /\ nxt' = [nxt EXCEPT ![tail] = r, ![r] = NoRow]
    /\ pre' = [pre EXCEPT ![nxt[r]] = NoRow, ![r] = tail]
    /\ tail' = r
    /\ UNCHANGED num

db_MoveNode2BusyEnd(r) ==
    \/ MoveInner(r)
    \/ MoveHeader(r)
    \/ (r = tail \/ num = 1) /\ UNCHANGED busy
-----------------------------------------------------------------------------
\* Where a chain has a row of key k for the first time.
First(k) ==
    LET chain == pail[PailOf[k]]
    IN  {i \in 1 .. Len(chain) : /\ key[chain[i]] = k
                                 /\ \A j \in 1 .. i - 1 : key[chain[j]] # k}

db_QueryInsidePail(k) ==
    IF First(k) = {} THEN NoRow ELSE pail[PailOf[k]][CHOOSE i \in First(k) : TRUE]

\* DbCreateTable
Init ==
    /\ units = 1 /\ idle = UnitRows(1)
    /\ hdr = NoRow /\ tail = NoRow /\ num = 0
    /\ nxt = [r \in Row |-> NoRow] /\ pre = [r \in Row |-> NoRow]
    /\ pail = [p \in Pail |-> <<>>]
    /\ key = <<>>
    /\ ack = NoRow

InsertNode2Pail_AtEnd(r, k) == pail' = [pail EXCEPT ![PailOf[k]] = Append(@, r)]

\* db_InsertNode2Pail: at the front of its chain.
InsertNode2Pail(r, k) == pail' = [pail EXCEPT ![PailOf[k]] = <<r>> \o @]

CreateDataByKey(k) ==
    LET r == Head(Supply)
    IN  /\ idle = <<>> => units < MaxUnits
        /\ units' = IF idle = <<>> THEN units + 1 ELSE units
        /\ idle' = Tail(Supply)
        /\ AppendBusy(r)
        /\ key' = [x \in DOMAIN key \cup {r} |-> IF x = r THEN k ELSE key[x]]
        /\ InsertNode2Pail(r, k)
        /\ ack' = r

QueryDataByKey(k) ==
    LET r == db_QueryInsidePail(k)
    IN  /\ IF r = NoRow THEN UNCHANGED busy ELSE db_MoveNode2BusyEnd(r)
        /\ ack' = r
        /\ UNCHANGED <<units, idle, pail, key>>

Next == \E k \in Key : CreateDataByKey(k) \/ QueryDataByKey(k)

Spec == Init /\ [][Next]_vars
-----------------------------------------------------------------------------
(***************************************************************************)
(* Properties                                                              *)
(***************************************************************************)
Members(s) == {s[i] : i \in 1 .. Len(s)}

TypeOK ==
    /\ units \in 1 .. MaxUnits
    /\ idle \in Seq(Row)
    /\ hdr \in Row \cup {NoRow} /\ tail \in Row \cup {NoRow} /\ num \in Nat
    /\ nxt \in [Row -> Row \cup {NoRow}]
    /\ pre \in [Row -> Row \cup {NoRow}]
    /\ pail \in [Pail -> Seq(Row)]
    /\ DOMAIN key \subseteq Row /\ \A r \in DOMAIN key : key[r] \in Key
    /\ ack \in Row \cup {NoRow}

Table == INSTANCE KeyTable WITH
    row <- [k \in Key |-> db_QueryInsidePail(k)], used <- DOMAIN key

\* Whatever the pails make of collisions, repeated creations and growth, the
\* table is one from keys to their last rows, and no row is handed out twice.
IsKeyTable == Table!Spec

\* The list of busy rows stays a list both ways, whatever is moved to its end:
\* QueryDataNum steps along it meet every row that was created.
BusyIsList ==
    LET at[i \in 1 .. num] == IF i = 1 THEN hdr ELSE nxt[at[i - 1]]
    IN  num > 0 =>
          /\ {at[i] : i \in 1 .. num} = DOMAIN key /\ num = Cardinality(DOMAIN key)
          /\ at[num] = tail /\ nxt[tail] = NoRow
          /\ pre[hdr] = NoRow /\ \A i \in 2 .. num : pre[at[i]] = at[i - 1]

\* VisitDifg and GraphViz go through a table by the ids from 1 to QueryDataNum.
\* As long as the table is not larger than a unit, each id but MaxDataNum has the
\* row created with it, so every other row is met, and once the unit is full its
\* last id dereferences NULL.
IdsEnumerate ==
    num <= MaxDataNum =>
      /\ \A id \in 1 .. QueryDataNum :
            IF id = MaxDataNum THEN QueryDataByID(id) = Fault
            ELSE QueryDataByID(id) \in DOMAIN key /\ DataId(QueryDataByID(id)) = id
      /\ \A r \in DOMAIN key :
            DataId(r) # MaxDataNum => \E id \in 1 .. QueryDataNum : QueryDataByID(id) = r
=============================================================================
