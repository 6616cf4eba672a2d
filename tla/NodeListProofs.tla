--------------------------- MODULE NodeListProofs ---------------------------
(***************************************************************************)
(* The theorems about the administrators' lists, for every number of       *)
(* administrators, nodes and names.                                        *)
(***************************************************************************)
EXTENDS NodeList, FiniteSetTheorems, SequenceTheorems, TLAPS

Rows == [number : Numbers, name : Names]

(* The rows of an answer are the stored nodes asked for, each of them once.    *)
LEMMA RowsAreStored ==
    ASSUME TypeOK, NEW S \in SUBSET Stored, NEW rows \in RowsOf(S)
    PROVE  /\ rows \in Seq(Rows)
           /\ \A i \in DOMAIN rows : rows[i] = Row(rows[i].number)
           /\ \A i, j \in DOMAIN rows : rows[i].number = rows[j].number => i = j
<1>1. IsFiniteSet(S)
  BY NodeListAssumption, FS_Subset DEF Stored
<1>2. Cardinality(S) \in Nat
  BY <1>1, FS_CardinalityType
<1>3. \A n \in S : Row(n) \in Rows /\ Row(n).number = n
  BY DEF TypeOK, Stored, Row, Rows
<1>4. rows \in [1..Cardinality(S) -> {Row(n) : n \in S}]
  BY DEF RowsOf
<1>5. rows \in [1..Cardinality(S) -> Rows]
  BY <1>3, <1>4
<1>6. rows \in Seq(Rows)
  BY <1>2, <1>5
<1>7. \A i \in DOMAIN rows : rows[i] = Row(rows[i].number)
  BY <1>3, <1>4
<1>8. \A i, j \in DOMAIN rows : rows[i].number = rows[j].number => i = j
  BY <1>7 DEF RowsOf
<1>9. QED
  BY <1>6, <1>7, <1>8

(* A selection answers stored nodes only.                                      *)
LEMMA SelectionIsStored ==
    ASSUME NEW a \in Admins, NEW filter PROVE selectDatabase(a, filter) \in SUBSET Stored
BY DEF selectDatabase

(* Removing a row keeps the others, in their order.                            *)
LEMMA RemovalKeepsRows ==
    ASSUME NEW S, NEW rows \in Seq(S), NEW k \in DOMAIN rows
    PROVE  /\ RowRemoved(rows, k) \in Seq(S)
           /\ Len(RowRemoved(rows, k)) = Len(rows) - 1
           /\ \A i \in DOMAIN RowRemoved(rows, k) :
                 /\ IF i < k THEN i \in DOMAIN rows ELSE i + 1 \in DOMAIN rows
                 /\ RowRemoved(rows, k)[i] = rows[IF i < k THEN i ELSE i + 1]
<1> DEFINE L == SubSeq(rows, 1, k - 1)
           R == SubSeq(rows, k + 1, Len(rows))
<1>1. k \in 1..Len(rows) /\ Len(rows) \in Nat
  OBVIOUS
<1>2. L \in Seq(S) /\ Len(L) = k - 1 /\ \A i \in 1..k - 1 : L[i] = rows[i]
  BY <1>1
<1>3. R \in Seq(S) /\ Len(R) = Len(rows) - k /\ \A i \in 1..Len(rows) - k : R[i] = rows[i + k]
  BY <1>1
<1> HIDE DEF L, R
<1>4. L \o R \in Seq(S) /\ Len(L \o R) = Len(rows) - 1
  BY <1>1, <1>2, <1>3
<1>5. ASSUME NEW i \in 1..Len(rows) - 1
      PROVE  (L \o R)[i] = rows[IF i < k THEN i ELSE i + 1]
  <2>1. CASE i < k
    BY <1>1, <1>2, <1>3, <2>1
  <2>2. CASE ~(i < k)
    <3>1. (L \o R)[i] = R[i - (k - 1)] /\ i - (k - 1) \in 1..Len(rows) - k
      BY <1>1, <1>2, <1>3, <2>2, ConcatProperties
    <3>2. R[i - (k - 1)] = rows[(i - (k - 1)) + k]
      BY <1>3, <3>1
    <3>3. (i - (k - 1)) + k = i + 1
      BY <1>1
    <3>4. QED
      BY <2>2, <3>1, <3>2, <3>3
  <2>3. QED
    BY <2>1, <2>2
<1>6. RowRemoved(rows, k) = L \o R
  BY DEF RowRemoved, L, R
<1>7. DOMAIN (L \o R) = 1..Len(rows) - 1
  BY <1>4
<1>8. \A i \in 1..Len(rows) - 1 : IF i < k THEN i \in DOMAIN rows ELSE i + 1 \in DOMAIN rows
  BY <1>1
<1>9. QED
  BY <1>4, <1>5, <1>6, <1>7, <1>8

-----------------------------------------------------------------------------
(* Rows as they are stored, none of them twice: what a creation and a deletion  *)
(* need to leave the rest of the list as right as it was.                      *)
RightRows(rows) == /\ \A i \in DOMAIN rows : rows[i] = Row(rows[i].number)
                   /\ \A i, j \in DOMAIN rows : rows[i].number = rows[j].number => i = j

ListInv == \A a \in Admins : synced[a] => RightRows(list[a])

(* A dialog nobody interfered with is about a stored node.                     *)
DialogInv == \A a \in Admins : pc[a] = "modify" /\ quiet[a] => asked[a] \in Stored

Inv == TypeOK /\ ListInv /\ DialogInv /\ ReportedUpdateIsStored

USE NodeListAssumption

(* What a change of the table by one administrator does to the others.         *)
LEMMA ChangeIsSeen ==
    ASSUME TypeOK, NEW a \in Admins, NEW new \in [Numbers -> Names \union {Nil}],
           Changes(a, new)
    PROVE  /\ secnode' = new
           /\ writes' \in 0..MaxWrites
           /\ synced' \in [Admins -> BOOLEAN] /\ quiet' \in [Admins -> BOOLEAN]
           /\ \A b \in Admins : /\ synced'[b] => synced[b]
                                /\ quiet'[b] => quiet[b]
                                /\ b # a /\ synced'[b] => secnode' = secnode
                                /\ b # a /\ quiet'[b] => secnode' = secnode
                                /\ synced'[b] /\ pc[a] = "modify" => secnode' = secnode
<1>1. CASE new = secnode
  BY <1>1 DEF Changes, TypeOK
<1>2. CASE new # secnode
  <2>1. /\ secnode' = new /\ writes < MaxWrites /\ writes' = writes + 1
        /\ quiet' = [b \in Admins |-> quiet[b] /\ b = a]
        /\ synced' = [b \in Admins |-> synced[b] /\ b = a /\ pc[a] # "modify"]
    BY <1>2 DEF Changes
  <2>2. writes' \in 0..MaxWrites
    BY <2>1 DEF TypeOK
  <2>3. synced \in [Admins -> BOOLEAN] /\ quiet \in [Admins -> BOOLEAN]
    BY DEF TypeOK
  <2>4. synced' \in [Admins -> BOOLEAN] /\ quiet' \in [Admins -> BOOLEAN]
    BY <2>1, <2>3, Zenon
  <2>5. \A b \in Admins : /\ synced'[b] => synced[b] /\ b = a /\ pc[a] # "modify"
                          /\ quiet'[b] => quiet[b] /\ b = a
    BY <2>1
  <2>6. QED
    BY <2>1, <2>2, <2>4, <2>5
<1>3. QED
  BY <1>1, <1>2

(* A right row is that of a stored node.                                       *)
LEMMA RightRowStored ==
    ASSUME NEW rows \in Seq(Rows), RightRows(rows), NEW i \in DOMAIN rows
    PROVE  rows[i].number \in Stored
<1>1. rows[i] \in Rows
  OBVIOUS
<1>2. rows[i].number \in Numbers /\ rows[i].name \in Names
  BY <1>1 DEF Rows
<1>3. rows[i].name = secnode[rows[i].number]
  BY DEF RightRows, Row
<1>4. QED
  BY <1>2, <1>3 DEF Stored

(* Rows stay right while the table stays the same.                             *)
LEMMA RightRowsKept ==
    ASSUME NEW b \in Admins, RightRows(list[b]), secnode' = secnode, list'[b] = list[b]
    PROVE  RightRows(list[b])'
BY DEF RightRows, Row

(* A program whose list is filled with the rows of an answer is in step with   *)
(* the table, whatever it showed before.                                       *)
LEMMA FillKeepsInv ==
    ASSUME Inv, NEW a \in Admins, NEW S \in SUBSET Stored, NEW rows \in RowsOf(S),
           list' = [list EXCEPT ![a] = rows], UNCHANGED secnode,
           synced' = [synced EXCEPT ![a] = TRUE]
    PROVE  ListInv' /\ \A b \in Admins : list'[b] \in Seq(Rows)
<1>1. /\ rows \in Seq(Rows)
      /\ RightRows(rows)
  BY RowsAreStored DEF Inv, RightRows
<1>2. /\ synced \in [Admins -> BOOLEAN]
      /\ \A b \in Admins : list[b] \in Seq(Rows)
      /\ DOMAIN list = Admins
  BY DEF Inv, TypeOK, Rows
<1>3. RightRows(rows)'
  BY <1>1 DEF RightRows, Row
<1>4. ASSUME NEW b \in Admins, synced'[b] PROVE RightRows(list[b])'
  <2>1. CASE b = a
    BY <1>1, <1>2, <1>3, <2>1 DEF RightRows, Row
  <2>2. CASE b # a
    BY <1>2, <1>4, <2>2, RightRowsKept DEF Inv, ListInv
  <2>3. QED
    BY <2>1, <2>2
<1>5. QED
  BY <1>1, <1>2, <1>4 DEF ListInv

-----------------------------------------------------------------------------
(* One lemma per action that touches lists or the table.                       *)

Same == UNCHANGED <<secnode, list, synced>>

(* Steps that leave the table and the lists alone.                             *)
LEMMA QuietStep ==
    ASSUME Inv, Same, UNCHANGED <<writes, quiet>>,
           config' \in [Admins -> BOOLEAN], conn' \in [Admins -> BOOLEAN],
           report' = NoReport, NEW a \in Admins,
           \/ UNCHANGED <<pc, asked>>
           \/ /\ pc' = [pc EXCEPT ![a] = "list"] \/ pc' = [pc EXCEPT ![a] = "crashed"]
              /\ asked' = asked \/ asked' = [asked EXCEPT ![a] = Nil]
    PROVE  Inv'
<1>1. TypeOK'
  BY DEF Inv, TypeOK, Same, NoReport
<1>2. ListInv'
  BY DEF Inv, ListInv, Same, RightRows, Row
<1>3. DialogInv'
  <2>1. ASSUME NEW b \in Admins, pc'[b] = "modify"
        PROVE  pc[b] = "modify" /\ asked'[b] = asked[b]
    BY <2>1 DEF Inv, TypeOK
  <2>2. UNCHANGED <<secnode, quiet>>
    BY DEF Same
  <2>3. QED
    BY <2>1, <2>2 DEF Inv, DialogInv, Stored
<1>4. ReportedUpdateIsStored'
  BY DEF ReportedUpdateIsStored, NoReport
<1>5. QED
  BY <1>1, <1>2, <1>3, <1>4 DEF Inv

(* Starting, and every search.                                                 *)
LEMMA FillStep ==
    ASSUME Inv, NEW a \in Admins, NEW S \in SUBSET Stored, NEW rows \in RowsOf(S),
           list' = [list EXCEPT ![a] = rows], synced' = [synced EXCEPT ![a] = TRUE],
           UNCHANGED <<secnode, writes, config, asked, quiet>>,
           conn' \in [Admins -> BOOLEAN], report' = NoReport,
           NEW l \in {"setup", "list"}, pc' = [pc EXCEPT ![a] = l]
    PROVE  Inv'
<1>1. ListInv' /\ \A b \in Admins : list'[b] \in Seq(Rows)
  BY FillKeepsInv
<1>2. TypeOK'
  <2>1. list' \in [Admins -> Seq([number : Numbers, name : Names])]
    BY <1>1 DEF Inv, TypeOK, Rows
  <2>2. synced' \in [Admins -> BOOLEAN]
    BY DEF Inv, TypeOK
  <2>3. QED
    BY <2>1, <2>2 DEF Inv, TypeOK, NoReport
<1>3. DialogInv'
  BY DEF Inv, TypeOK, DialogInv, Stored
<1>4. ReportedUpdateIsStored'
  BY DEF ReportedUpdateIsStored, NoReport
<1>5. QED
  BY <1>1, <1>2, <1>3, <1>4 DEF Inv

(* Creation: a new number, so that the rows there are stay right.              *)
LEMMA CreateStep ==
    ASSUME Inv, NEW a \in Admins, on_createNet_clicked(a)
    PROVE  Inv'
<1>1. PICK n \in Numbers, name \in Names : addNetSite(a, n, name)
  BY DEF on_createNet_clicked
<1>2. /\ pc[a] = "list" /\ report' = NoReport /\ UNCHANGED <<config, conn, pc, asked>>
  BY DEF on_createNet_clicked
<1>3. CASE ~InsertSucceeds(a, n)
  BY <1>1, <1>2, <1>3, QuietStep DEF addNetSite, Same, Inv, TypeOK
<1>4. CASE InsertSucceeds(a, n)
  <2> DEFINE row == [number |-> n, name |-> name]
  <2>1. /\ Changes(a, Inserted(n, name))
        /\ list' = [list EXCEPT ![a] = Append(@, row)]
        /\ n \notin Stored
    BY <1>1, <1>4 DEF addNetSite, InsertSucceeds
  <2>2. Inserted(n, name) \in [Numbers -> Names \union {Nil}]
    BY DEF Inserted, Inv, TypeOK
  <2>3. /\ secnode' = Inserted(n, name)
        /\ writes' \in 0..MaxWrites
        /\ synced' \in [Admins -> BOOLEAN] /\ quiet' \in [Admins -> BOOLEAN]
        /\ \A b \in Admins : /\ synced'[b] => synced[b]
                             /\ quiet'[b] => quiet[b]
                             /\ b # a /\ synced'[b] => secnode' = secnode
                             /\ b # a /\ quiet'[b] => secnode' = secnode
    BY <2>1, <2>2, ChangeIsSeen DEF Inv
  <2>4. list[a] \in Seq([number : Numbers, name : Names])
    BY DEF Inv, TypeOK
  <2>5. Append(list[a], row) \in Seq([number : Numbers, name : Names])
    BY <2>4
  <2>6. TypeOK'
    BY <1>2, <2>1, <2>2, <2>3, <2>5 DEF Inv, TypeOK, NoReport
  <2>7. ASSUME NEW b \in Admins, synced'[b] PROVE RightRows(list[b])'
    <3>1. RightRows(list[b])
      BY <2>3, <2>7 DEF Inv, ListInv
    <3>2. CASE b # a
      <4>1. list'[b] = list[b]
        BY <2>1, <3>2 DEF Inv, TypeOK
      <4>2. QED
        BY <2>3, <2>7, <3>1, <3>2, <4>1, RightRowsKept
    <3>3. CASE b = a
      <4>1. \A i \in DOMAIN list[a] : /\ list[a][i] = Row(list[a][i].number)
                                      /\ list[a][i].number \in Stored
        BY <2>4, <3>1, <3>3, RightRowStored DEF RightRows, Rows
      <4>2. list'[a] = Append(list[a], row)
        BY <2>1 DEF Inv, TypeOK
      <4>3. secnode'[n] = name /\ \A m \in Stored : secnode'[m] = secnode[m]
        BY <2>1, <2>3 DEF Inserted, Stored, Inv, TypeOK
      <4>4. /\ DOMAIN list'[a] = 1..Len(list[a]) + 1
            /\ \A i \in 1..Len(list[a]) : list'[a][i] = list[a][i]
            /\ list'[a][Len(list[a]) + 1] = row
            /\ DOMAIN list[a] = 1..Len(list[a]) /\ Len(list[a]) \in Nat
        BY <2>4, <4>2
      <4>5. \A i \in DOMAIN list'[a] : list'[a][i] = Row(list[a][i].number)'
        <5>1. ASSUME NEW i \in 1..Len(list[a]) PROVE list'[a][i] = Row(list[a][i].number)'
          <6>1. /\ list'[a][i] = list[a][i]
                /\ list[a][i] = [number |-> list[a][i].number,
                                 name |-> secnode[list[a][i].number]]
                /\ secnode'[list[a][i].number] = secnode[list[a][i].number]
            BY <4>1, <4>3, <4>4 DEF Row
          <6>2. QED
            BY <6>1 DEF Row
        <5>2. row = Row(n)'
          BY <4>3 DEF Row
        <5>3. QED
          BY <4>4, <5>1, <5>2 DEF Row
      <4>6. \A i, j \in DOMAIN list'[a] : list'[a][i].number = list'[a][j].number => i = j
        BY <2>1, <3>1, <3>3, <4>1, <4>4 DEF RightRows
      <4>7. QED
        BY <3>3, <4>5, <4>6 DEF RightRows
    <3>4. QED
      BY <3>2, <3>3
  <2>8. DialogInv'
    BY <1>2, <2>1, <2>3 DEF Inv, TypeOK, DialogInv, Stored
  <2>9. ReportedUpdateIsStored'
    BY <1>2 DEF ReportedUpdateIsStored, NoReport
  <2>10. QED
    BY <2>6, <2>7, <2>8, <2>9 DEF Inv, ListInv
<1>5. QED
  BY <1>3, <1>4

(* Deletion: of the one row with that number, so that the others stay right.   *)
LEMMA DeleteStep ==
    ASSUME Inv, NEW a \in Admins, DeletionAnswered(a)
    PROVE  Inv'
<1> DEFINE k == asked[a]
           gone == list[a][k].number
<1>1. /\ pc[a] = "delete" /\ pc' = [pc EXCEPT ![a] = "list"]
      /\ asked' = [asked EXCEPT ![a] = Nil]
      /\ report' = NoReport /\ UNCHANGED <<config, conn>>
  BY DEF DeletionAnswered, Goes
<1>2. CASE UNCHANGED <<secnode, writes, synced, quiet, list>>
  BY <1>1, <1>2, QuietStep DEF Same, Inv, TypeOK
<1>3. CASE Changes(a, Deleted(gone)) /\ list' = [list EXCEPT ![a] = RowRemoved(@, k)]
  <2>1. list[a] \in Seq(Rows) /\ k \in DOMAIN list[a]
    BY <1>1 DEF Inv, TypeOK, Rows
  <2>2. gone \in Numbers /\ Deleted(gone) \in [Numbers -> Names \union {Nil}]
    <3>1. list[a][k] \in Rows
      BY <2>1
    <3>2. QED
      BY <3>1 DEF Rows, Deleted, Inv, TypeOK
  <2> HIDE DEF k, gone
  <2>3. /\ secnode' = Deleted(gone)
        /\ writes' \in 0..MaxWrites
        /\ synced' \in [Admins -> BOOLEAN] /\ quiet' \in [Admins -> BOOLEAN]
        /\ \A b \in Admins : /\ synced'[b] => synced[b]
                             /\ quiet'[b] => quiet[b]
                             /\ b # a /\ synced'[b] => secnode' = secnode
                             /\ b # a /\ quiet'[b] => secnode' = secnode
    BY <1>3, <2>2, ChangeIsSeen DEF Inv
  <2> DEFINE rest == RowRemoved(list[a], k)
  <2>4. /\ rest \in Seq(Rows)
        /\ Len(rest) = Len(list[a]) - 1
        /\ \A i \in DOMAIN rest : /\ IF i < k THEN i \in DOMAIN list[a] ELSE i + 1 \in DOMAIN list[a]
                                  /\ rest[i] = list[a][IF i < k THEN i ELSE i + 1]
    BY <2>1, RemovalKeepsRows
  <2>5. list'[a] = rest /\ \A b \in Admins \ {a} : list'[b] = list[b]
    BY <1>3 DEF Inv, TypeOK
  <2> HIDE DEF rest
  <2>6. TypeOK'
    <3>1. list' \in [Admins -> Seq([number : Numbers, name : Names])]
      BY <1>3, <2>4, <2>5 DEF Inv, TypeOK, Rows
    <3>2. \A b \in Admins : pc'[b] # "delete" \/ (b # a /\ pc[b] = "delete")
      BY <1>1 DEF Inv, TypeOK
    <3>3. QED
      BY <1>1, <2>2, <2>3, <2>5, <3>1, <3>2 DEF Inv, TypeOK, NoReport
  <2>7. ASSUME NEW b \in Admins, synced'[b] PROVE RightRows(list[b])'
    <3>1. RightRows(list[b])
      BY <2>3, <2>7 DEF Inv, ListInv
    <3>2. CASE b # a
      BY <2>3, <2>5, <2>7, <3>1, <3>2, RightRowsKept
    <3>3. CASE b = a
      <4> DEFINE old(i) == IF i < k THEN i ELSE i + 1
      <4>1. k \in Nat /\ DOMAIN rest \subseteq Nat
        BY <2>1, <2>4
      <4>2. ASSUME NEW i \in DOMAIN rest
            PROVE  old(i) \in DOMAIN list[a] /\ old(i) # k /\ rest[i] = list[a][old(i)]
        BY <2>4, <4>1
      <4>3. ASSUME NEW i \in DOMAIN rest, NEW j \in DOMAIN rest, old(i) = old(j) PROVE i = j
        BY <4>1, <4>3
      <4> HIDE DEF old
      <4>4. ASSUME NEW i \in DOMAIN rest PROVE rest[i] = Row(list[a][i].number)'
        <5> DEFINE m == rest[i].number
        <5>1. rest[i] = [number |-> m, name |-> secnode[m]] /\ m \in Numbers
          <6>1. rest[i] \in Rows
            BY <2>4
          <6>2. rest[i] = Row(m)
            BY <3>1, <3>3, <4>2 DEF RightRows
          <6>3. QED
            BY <6>1, <6>2 DEF Row, Rows
        <5>2. m # gone
          BY <2>1, <3>1, <3>3, <4>2 DEF RightRows, gone
        <5>3. secnode'[m] = secnode[m]
          BY <2>3, <5>1, <5>2 DEF Deleted, Inv, TypeOK
        <5>4. QED
          BY <2>5, <5>1, <5>3 DEF Row
      <4>5. \A i, j \in DOMAIN rest : rest[i].number = rest[j].number => i = j
        BY <3>1, <3>3, <4>2, <4>3 DEF RightRows
      <4>6. QED
        BY <2>5, <3>3, <4>4, <4>5 DEF RightRows
    <3>4. QED
      BY <3>2, <3>3
  <2>8. DialogInv'
    BY <1>1, <2>3 DEF Inv, TypeOK, DialogInv, Stored
  <2>9. ReportedUpdateIsStored'
    BY <1>1 DEF ReportedUpdateIsStored, NoReport
  <2>10. QED
    BY <2>6, <2>7, <2>8, <2>9 DEF Inv, ListInv
<1>4. QED
  BY <1>2, <1>3 DEF DeletionAnswered

(* The dialog opens on a node that is stored at that moment.                   *)
LEMMA OpenStep ==
    ASSUME Inv, NEW a \in Admins, on_modifyNet_clicked(a)
    PROVE  Inv'
<1>1. PICK row \in DOMAIN list[a] :
         LET number == list[a][row].number
         IN IF selectDatabase(a, {number}) = {}
            THEN /\ Goes(a, "crashed")
                 /\ conn' = [conn EXCEPT ![a] = FALSE]
                 /\ UNCHANGED <<asked, quiet>>
            ELSE /\ Goes(a, "modify")
                 /\ asked' = [asked EXCEPT ![a] = number]
                 /\ quiet' = [quiet EXCEPT ![a] = TRUE]
                 /\ UNCHANGED conn
  BY DEF on_modifyNet_clicked
<1> DEFINE number == list[a][row].number
<1>2. report' = NoReport /\ UNCHANGED <<secnode, writes, config, list, synced>>
  BY DEF on_modifyNet_clicked
<1>3. CASE selectDatabase(a, {number}) = {}
  <2>1. conn' \in [Admins -> BOOLEAN] /\ config' \in [Admins -> BOOLEAN]
    BY <1>1, <1>2, <1>3 DEF Inv, TypeOK
  <2>2. QED
    BY <1>1, <1>2, <1>3, <2>1, QuietStep DEF Same, Goes
<1>4. CASE selectDatabase(a, {number}) # {}
  <2>1. number \in Stored /\ number \in Numbers
    BY <1>4 DEF selectDatabase, Stored
  <2>2. /\ pc' = [pc EXCEPT ![a] = "modify"] /\ asked' = [asked EXCEPT ![a] = number]
        /\ quiet' = [quiet EXCEPT ![a] = TRUE] /\ UNCHANGED conn
    BY <1>1, <1>4 DEF Goes
  <2> HIDE DEF number
  <2>3. TypeOK'
    BY <1>2, <2>1, <2>2 DEF Inv, TypeOK, NoReport
  <2>4. ListInv'
    BY <1>2 DEF Inv, ListInv, RightRows, Row
  <2>5. DialogInv'
    BY <1>2, <2>1, <2>2 DEF Inv, TypeOK, DialogInv, Stored
  <2>6. ReportedUpdateIsStored'
    BY <1>2 DEF ReportedUpdateIsStored, NoReport
  <2>7. QED
    BY <2>3, <2>4, <2>5, <2>6 DEF Inv
<1>5. QED
  BY <1>3, <1>4

(* The update: with a stored node behind the dialog it writes what it reports. *)
LEMMA UpdateStep ==
    ASSUME Inv, NEW a \in Admins, on_okBtn_clicked(a)
    PROVE  Inv'
<1> DEFINE m_id == asked[a]
<1>1. PICK n \in Numbers, name \in Names :
        IF UpdateSucceeds(a, m_id, n)
        THEN /\ Changes(a, Updated(m_id, n, name))
             /\ report' = [NoReport EXCEPT ![a] = [from |-> m_id, number |-> n, name |-> name]]
             /\ asked' = [asked EXCEPT ![a] = Nil]
             /\ Goes(a, "list")
        ELSE /\ report' = NoReport
             /\ UNCHANGED <<secnode, writes, synced, quiet, pc, asked>>
  BY DEF on_okBtn_clicked
<1>2. pc[a] = "modify" /\ UNCHANGED <<config, conn, list>>
  BY DEF on_okBtn_clicked
<1>3. m_id \in Numbers
  BY <1>2 DEF Inv, TypeOK
<1>4. CASE ~UpdateSucceeds(a, m_id, n)
  BY <1>1, <1>2, <1>4, QuietStep DEF Same, Inv, TypeOK
<1>5. CASE UpdateSucceeds(a, m_id, n)
  <2> DEFINE done == [from |-> m_id, number |-> n, name |-> name]
  <2>1. /\ Changes(a, Updated(m_id, n, name))
        /\ report' = [b \in Admins |-> IF b = a THEN done ELSE Nil]
        /\ asked' = [asked EXCEPT ![a] = Nil]
        /\ pc' = [pc EXCEPT ![a] = "list"]
    BY <1>1, <1>5 DEF NoReport, Goes
  <2>2. Updated(m_id, n, name) \in [Numbers -> Names \union {Nil}]
    BY DEF Updated, Inv, TypeOK
  <2>3. /\ secnode' = Updated(m_id, n, name)
        /\ writes' \in 0..MaxWrites
        /\ synced' \in [Admins -> BOOLEAN] /\ quiet' \in [Admins -> BOOLEAN]
        /\ \A b \in Admins : /\ synced'[b] => synced[b] /\ secnode' = secnode
                             /\ quiet'[b] => quiet[b]
                             /\ b # a /\ quiet'[b] => secnode' = secnode
    BY <1>2, <2>1, <2>2, ChangeIsSeen DEF Inv
  <2>4. TypeOK'
    BY <1>2, <1>3, <2>1, <2>2, <2>3 DEF Inv, TypeOK
  <2>5. ListInv'
    BY <1>2, <2>3, RightRowsKept DEF Inv, ListInv
  <2>6. DialogInv'
    BY <2>1, <2>3 DEF Inv, TypeOK, DialogInv, Stored
  <2>7. ASSUME NEW b \in Admins, report'[b] # Nil, quiet'[b]
        PROVE  /\ secnode'[report'[b].number] = report'[b].name
               /\ report'[b].from # report'[b].number => report'[b].from \notin Stored'
    <3>1. b = a /\ report'[b] = done
      BY <2>1, <2>7
    <3>2. m_id \in Stored
      BY <1>2, <2>3, <2>7, <3>1 DEF Inv, DialogInv
    <3>3. secnode' = [secnode EXCEPT ![m_id] = Nil, ![n] = name]
      BY <2>3, <3>2 DEF Updated
    <3>4. secnode'[n] = name /\ (m_id # n => secnode'[m_id] = Nil)
      BY <1>3, <3>3 DEF Inv, TypeOK
    <3>5. QED
      BY <3>1, <3>4 DEF Stored
  <2>8. QED
    BY <2>4, <2>5, <2>6, <2>7 DEF Inv, ReportedUpdateIsStored
<1>6. QED
  BY <1>4, <1>5

-----------------------------------------------------------------------------
(* The inductive invariant of the administration: types, right rows in lists   *)
(* in step with the table, stored nodes behind undisturbed dialogs, and true   *)
(* reports (mainwindow.cpp, modifynetsite.cpp, databaseop.cpp).                *)
THEOREM NodeListInvariant == Spec => []Inv
<1>1. Init => Inv
  <2> SUFFICES ASSUME Init PROVE Inv
    OBVIOUS
  <2>1. TypeOK
    BY DEF Init, TypeOK, NoReport
  <2>2. ListInv /\ DialogInv /\ ReportedUpdateIsStored
    BY DEF Init, ListInv, DialogInv, ReportedUpdateIsStored, NoReport, RightRows
  <2>3. QED
    BY <2>1, <2>2 DEF Inv
<1>2. Inv /\ [Next]_vars => Inv'
  <2> SUFFICES ASSUME Inv, [Next]_vars PROVE Inv'
    OBVIOUS
  <2>1. conn \in [Admins -> BOOLEAN] /\ config \in [Admins -> BOOLEAN]
    BY DEF Inv, TypeOK
  <2>2. ASSUME NEW a \in Admins, NEW right \in BOOLEAN, openDatabase(a, right)
        PROVE  conn' \in [Admins -> BOOLEAN]
    BY <2>1, <2>2 DEF openDatabase
  <2>3. ASSUME NEW a \in Admins, main(a) PROVE Inv'
    <3>1. conn' \in [Admins -> BOOLEAN]
      BY <2>1, <2>2, <2>3 DEF main, readJson
    <3>2. PICK rows \in RowsOf(selectDatabase(a, Numbers)) : list' = [list EXCEPT ![a] = rows]
      BY <2>3 DEF main, initNetInfo
    <3>3. PICK l \in {"setup", "list"} : pc' = [pc EXCEPT ![a] = l]
      BY <2>3 DEF main, Goes
    <3>4. QED
      BY <2>3, <3>1, <3>2, <3>3, SelectionIsStored, FillStep DEF main
  <2>4. ASSUME NEW a \in Admins,
               on_dbTest_clicked(a) \/ on_dbConnect_clicked(a) \/ on_dbArgSave_clicked(a)
        PROVE  Inv'
    <3>1. conn' \in [Admins -> BOOLEAN] /\ config' \in [Admins -> BOOLEAN]
      BY <2>1, <2>2, <2>4
         DEF on_dbTest_clicked, on_dbConnect_clicked, on_dbArgSave_clicked, writeJson
    <3>2. QED
      BY <2>4, <3>1, QuietStep DEF on_dbTest_clicked, on_dbConnect_clicked,
         on_dbArgSave_clicked, writeJson, Same, Goes
  <2>5. ASSUME NEW a \in Admins, Leave(a) PROVE Inv'
    <3>1. TypeOK'
      <4>1. list' \in [Admins -> Seq([number : Numbers, name : Names])]
        BY <2>5, EmptySeq DEF Leave, Inv, TypeOK
      <4>2. \A b \in Admins : pc'[b] \in {"modify", "delete"} => b # a
        BY <2>5 DEF Leave, Goes, Inv, TypeOK
      <4>3. \A b \in Admins \ {a} : list'[b] = list[b] /\ pc'[b] = pc[b]
        BY <2>5 DEF Leave, Goes, Inv, TypeOK
      <4>4. QED
        BY <2>5, <4>1, <4>2, <4>3 DEF Leave, Goes, Inv, TypeOK, NoReport
    <3>2. ASSUME NEW b \in Admins, synced'[b] PROVE RightRows(list[b])'
      <4>1. CASE b = a
        <5>1. list'[b] = <<>>
          BY <2>5, <4>1 DEF Leave, Inv, TypeOK
        <5>2. QED
          BY <5>1 DEF RightRows
      <4>2. CASE b # a
        <5>1. list'[b] = list[b] /\ secnode' = secnode /\ synced[b]
          BY <2>5, <3>2, <4>2 DEF Leave, Inv, TypeOK
        <5>2. QED
          BY <5>1, RightRowsKept DEF Inv, ListInv
      <4>3. QED
        BY <4>1, <4>2
    <3>3. DialogInv' /\ ReportedUpdateIsStored'
      BY <2>5 DEF Leave, Goes, Inv, TypeOK, DialogInv, Stored, ReportedUpdateIsStored, NoReport
    <3>4. QED
      BY <3>1, <3>2, <3>3 DEF Inv, ListInv
  <2>6. ASSUME NEW a \in Admins,
               ConnectionLost(a) \/ on_cancleBtn_clicked(a)
        PROVE  Inv'
    <3>1. conn' \in [Admins -> BOOLEAN] /\ config' \in [Admins -> BOOLEAN]
      BY <2>1, <2>6 DEF ConnectionLost, on_cancleBtn_clicked
    <3>2. QED
      BY <2>6, <3>1, QuietStep DEF ConnectionLost, on_cancleBtn_clicked, Same, Goes
  <2>7. ASSUME NEW a \in Admins, NEW S \in SUBSET Stored, pc[a] = "list", Fill(a, S) PROVE Inv'
    <3>1. pc' = [pc EXCEPT ![a] = "list"]
      BY <2>7 DEF Fill, Inv, TypeOK
    <3>2. PICK rows \in RowsOf(S) : list' = [list EXCEPT ![a] = rows]
      BY <2>7 DEF Fill
    <3>3. QED
      BY <2>1, <2>7, <3>1, <3>2, FillStep DEF Fill
  <2>8. ASSUME NEW a \in Admins, on_vagueSearch_clicked(a) PROVE Inv'
    BY <2>7, <2>8 DEF on_vagueSearch_clicked
  <2>9. ASSUME NEW a \in Admins, on_exactSearch_clicked(a) PROVE Inv'
    BY <2>7, <2>9, SelectionIsStored DEF on_exactSearch_clicked
  <2>10. ASSUME NEW a \in Admins, on_deleteNet_clicked(a) PROVE Inv'
    <3>1. PICK row \in DOMAIN list[a] : asked' = [asked EXCEPT ![a] = row]
      BY <2>10 DEF on_deleteNet_clicked
    <3>2. row \in Nat
      BY <3>1 DEF Inv, TypeOK
    <3>3. TypeOK'
      BY <2>10, <3>1, <3>2 DEF on_deleteNet_clicked, Goes, Inv, TypeOK, NoReport
    <3>4. ListInv' /\ DialogInv' /\ ReportedUpdateIsStored'
      BY <2>10, <3>1 DEF on_deleteNet_clicked, Goes, Inv, TypeOK, ListInv, RightRows, Row,
         DialogInv, Stored, ReportedUpdateIsStored, NoReport
    <3>5. QED
      BY <3>3, <3>4 DEF Inv
  <2>11. CASE UNCHANGED vars
    BY <2>11 DEF vars, Inv, TypeOK, ListInv, RightRows, Row, DialogInv, Stored,
       ReportedUpdateIsStored
  <2>12. QED
    BY <2>3, <2>4, <2>5, <2>6, <2>8, <2>9, <2>10, <2>11, CreateStep, OpenStep, UpdateStep,
       DeleteStep DEF Next
<1>3. QED
  BY <1>1, <1>2, PTL DEF Spec

(* A list nobody else wrote behind is right, row by row (mainwindow.cpp:116).  *)
THEOREM NodeListSynced == Spec => []SyncedListIsRight
<1>1. Inv => SyncedListIsRight
  BY DEF Inv, ListInv, RightRows, SyncedListIsRight
<1>2. QED
  BY <1>1, NodeListInvariant, PTL

(* A reported update is stored, unless somebody else wrote meanwhile           *)
(* (modifynetsite.cpp, databaseop.cpp:140).                                    *)
THEOREM NodeListReports == Spec => []ReportedUpdateIsStored
<1>1. Inv => ReportedUpdateIsStored
  BY DEF Inv
<1>2. QED
  BY <1>1, NodeListInvariant, PTL

(* list.at(0) of nothing (modifynetsite.cpp:18) needs a stale list or a lost   *)
(* connection.                                                                 *)
THEOREM NodeListCrash == Spec => CrashIsFromStaleRow
<1> DEFINE Excused == \A a \in Admins : pc[a] = "list" /\ pc'[a] = "crashed"
                                        => ~synced[a] \/ ~conn[a]
<1>1. Inv /\ [Next]_vars => [Excused]_vars
  <2> SUFFICES ASSUME Inv, Next, NEW b \in Admins, pc[b] = "list", pc'[b] = "crashed",
                      synced[b], conn[b]
               PROVE  FALSE
    BY DEF Excused
  <2>1. PICK a \in Admins : on_modifyNet_clicked(a)
    <3> DEFINE Calm == pc'[b] = pc[b] \/ pc'[b] \in {"off", "setup", "list", "modify", "delete"}
    <3>1. DOMAIN pc = Admins
      BY DEF Inv, TypeOK
    <3>2. ASSUME NEW a \in Admins, \/ main(a) \/ on_dbTest_clicked(a) \/ on_dbConnect_clicked(a)
                                   \/ Leave(a) \/ on_dbArgSave_clicked(a) \/ ConnectionLost(a)
          PROVE  Calm
      BY <3>1, <3>2 DEF main, on_dbTest_clicked, on_dbConnect_clicked, Leave,
                        on_dbArgSave_clicked, ConnectionLost, Goes
    <3>3. ASSUME NEW a \in Admins, \/ on_createNet_clicked(a) \/ on_vagueSearch_clicked(a)
                                   \/ on_exactSearch_clicked(a) \/ on_okBtn_clicked(a)
          PROVE  Calm
      BY <3>1, <3>3 DEF on_createNet_clicked, on_vagueSearch_clicked, on_exactSearch_clicked,
                        on_okBtn_clicked, Fill, Goes
    <3>4. ASSUME NEW a \in Admins, \/ on_cancleBtn_clicked(a) \/ on_deleteNet_clicked(a)
                                   \/ DeletionAnswered(a)
          PROVE  Calm
      BY <3>1, <3>4 DEF on_cancleBtn_clicked, on_deleteNet_clicked, DeletionAnswered, Goes
    <3>5. ~Calm
      OBVIOUS
    <3> HIDE DEF Calm
    <3>6. QED
      BY <3>2, <3>3, <3>4, <3>5 DEF Next
  <2>2. PICK row \in DOMAIN list[a] :
           LET number == list[a][row].number
           IN IF selectDatabase(a, {number}) = {}
              THEN Goes(a, "crashed") ELSE Goes(a, "modify")
    BY <2>1 DEF on_modifyNet_clicked
  <2>3. a = b /\ selectDatabase(b, {list[b][row].number}) = {}
    BY <2>2 DEF Goes, Inv, TypeOK
  <2>4. list[b][row].number \in Stored
    BY <2>2, <2>3, RightRowStored DEF Inv, ListInv, TypeOK, Rows
  <2>5. QED
    BY <2>3, <2>4 DEF selectDatabase
<1>2. QED
  BY <1>1, NodeListInvariant, PTL DEF Spec, CrashIsFromStaleRow

(* The administration's list, dialog and database rows keep their kinds.       *)
THEOREM NodeListTypes == Spec => []TypeOK
BY NodeListInvariant, PTL DEF Inv
=============================================================================
