------------------------------ MODULE NodeList ------------------------------
(***************************************************************************)
(* The administration program: several administrators, each with the list  *)
(* of nodes its window shows, edit table secnode of one MySQL server.  The *)
(* list is filled by a search and afterwards kept up by hand: a created    *)
(* node is appended, a deleted one removed, a modified one left as it was. *)
(*                                                                         *)
(* A node is a number with a name, which stands for its other columns too. *)
(* The number is secnode's primary key.                                    *)
(***************************************************************************)
EXTENDS Naturals, Sequences, FiniteSets

CONSTANTS Admins,    \* running or not, each is one program on a machine of its own
          Numbers,   \* the numbers of nodes
          Names,     \* what else a node can be
          Nil,       \* no node, no question, no report
          MaxRows,   \* a bound: rows of a list before a node may be created
          MaxWrites  \* a bound: changes of secnode

ASSUME NodeListAssumption ==
    /\ MaxRows \in Nat /\ MaxWrites \in Nat
    /\ Nil \notin Numbers \union Names
    /\ IsFiniteSet(Numbers)

VARIABLES secnode, \* the table: for each number, its name, or Nil
          writes,  \* how often it changed, for the bound
          config,  \* do the settings in each program's file lead to the database?
          conn,    \* is its default connection open?
          pc,      \* "off", "setup", "list", "modify", "delete" or "crashed"
          list,    \* the rows of its window
          asked,   \* m_id of the open dialog, or the row the question is about
          synced,  \* nothing the list does not show was done since it was last filled
          quiet,   \* nobody else changed secnode since the dialog opened
          report   \* the update just reported as done

vars == <<secnode, writes, config, conn, pc, list, asked, synced, quiet, report>>

Row(n)     == [number |-> n, name |-> secnode[n]]
Stored     == {n \in Numbers : secnode[n] # Nil}
Named(x)   == {n \in Numbers : secnode[n] = x}
NoReport   == [a \in Admins |-> Nil]
Goes(a, l) == pc' = [pc EXCEPT ![a] = l]

\* A statement of a that changes the table.
Changes(a, new) ==
    /\ IF new = secnode THEN UNCHANGED <<secnode, writes, synced, quiet>>
       ELSE /\ writes < MaxWrites /\ writes' = writes + 1
            /\ secnode' = new
            /\ quiet' = [b \in Admins |-> quiet[b] /\ b = a]
            /\ synced' = [b \in Admins |-> synced[b] /\ b = a /\ pc[a] # "modify"]
-----------------------------------------------------------------------------
(* Class DatabaseOP.  A statement fails without a connection. *)

\* The stored nodes among those the filter lets pass.  An error leaves no rows to fetch.
selectDatabase(a, filter) == IF conn[a] THEN Stored \intersect filter ELSE {}

\* Mutant: the rows are counted, but the second item of each is not set.
RowsUnset(S) == {s \in [1..Cardinality(S) -> {[number |-> n, name |-> Nil] : n \in S}] :
                    \A i, j \in DOMAIN s : s[i] = s[j] => i = j}

\* All orders in which the server may return the rows.
RowsOf(S) == {s \in [1..Cardinality(S) -> {Row(n) : n \in S}] :
                 \A i, j \in DOMAIN s : s[i] = s[j] => i = j}

\* Whether the statement can succeed, and what it makes of the table.
InsertSucceeds(a, n) == conn[a] /\ n \notin Stored
Inserted(n, name)    == [secnode EXCEPT ![n] = name]

\* Mutant: the filter has the number typed in, not the one the dialog was opened for.
UpdatedByNew(m_id, n, name) ==
    IF n \notin Stored THEN secnode ELSE [secnode EXCEPT ![n] = name]

\* The number itself may be updated, but not to a number that another node has.  Without
\* a row to update the statement succeeds all the same.
UpdateSucceeds(a, m_id, n) == conn[a] /\ (m_id \notin Stored \/ n = m_id \/ n \notin Stored)
Updated(m_id, n, name) ==
    IF m_id \notin Stored THEN secnode ELSE [secnode EXCEPT ![m_id] = Nil, ![n] = name]

DeleteSucceeds(a) == conn[a]
Deleted(n)        == [secnode EXCEPT ![n] = Nil]

\* openDatabase: an open connection is kept, whatever the parameters.  The server may be
\* out of reach.
openDatabase(a, right) ==
    \E reached \in BOOLEAN : conn' = [conn EXCEPT ![a] = @ \/ (right /\ reached)]
\* Class JsonParse: whether the settings in the file lead to the database, and new settings.
readJson(a)         == config[a]
writeJson(a, right) == config' = [config EXCEPT ![a] = right]
-----------------------------------------------------------------------------
Init ==
    /\ secnode \in [Numbers -> Names \union {Nil}]
    /\ writes = 0
    /\ config \in [Admins -> BOOLEAN]
    /\ conn = [a \in Admins |-> FALSE]
    /\ pc = [a \in Admins |-> "off"]
    /\ list = [a \in Admins |-> <<>>]
    /\ asked = [a \in Admins |-> Nil]
    /\ synced = [a \in Admins |-> TRUE]
    /\ quiet = [a \in Admins |-> TRUE]
    /\ report = NoReport

\* The constructor of the window fills the list.
initNetInfo(a) == \E rows \in RowsOf(selectDatabase(a, Numbers)) :
                     list' = [list EXCEPT ![a] = rows]

\* main makes the window before there is a connection, so that the list is empty whatever
\* secnode holds.  Then it opens the database from the file.
main(a) ==
    /\ pc[a] \in {"off", "crashed"}
    /\ openDatabase(a, readJson(a))
    /\ Goes(a, IF conn'[a] THEN "list" ELSE "setup")
    /\ initNetInfo(a)
    /\ synced' = [synced EXCEPT ![a] = TRUE]
    /\ report' = NoReport
    /\ UNCHANGED <<secnode, writes, config, asked, quiet>>

\* Dialog DBInfoSet: test the settings typed in ...
on_dbTest_clicked(a) ==
    /\ pc[a] = "setup"
    /\ \E right \in BOOLEAN : openDatabase(a, right)
    /\ report' = NoReport
    /\ UNCHANGED <<secnode, writes, config, pc, list, asked, synced, quiet>>

\* ... use them, even when the test failed, and write them to the file ...
on_dbConnect_clicked(a) ==
    /\ pc[a] = "setup"
    /\ \E right \in BOOLEAN : /\ openDatabase(a, right)
                              /\ writeJson(a, right)
    /\ Goes(a, "list")
    /\ report' = NoReport
    /\ UNCHANGED <<secnode, writes, list, asked, synced, quiet>>

\* ... or give up, which ends the program, as closing the window does.
Leave(a) ==
    /\ pc[a] \in {"setup", "list"}
    /\ Goes(a, "off")
    /\ conn' = [conn EXCEPT ![a] = FALSE]
    /\ list' = [list EXCEPT ![a] = <<>>]
    /\ report' = NoReport
    /\ UNCHANGED <<secnode, writes, config, asked, synced, quiet>>

\* The settings page writes the file and does not reconnect.
on_dbArgSave_clicked(a) ==
    /\ pc[a] = "list"
    /\ \E right \in BOOLEAN : writeJson(a, right)
    /\ report' = NoReport
    /\ UNCHANGED <<secnode, writes, conn, pc, list, asked, synced, quiet>>

\* The server ends a connection.
ConnectionLost(a) ==
    /\ conn[a]
    /\ conn' = [conn EXCEPT ![a] = FALSE]
    /\ report' = NoReport
    /\ UNCHANGED <<secnode, writes, config, pc, list, asked, synced, quiet>>
-----------------------------------------------------------------------------
(* The list. *)

\* Mutant: the result of the insertion is not looked at.
addNetSiteAnyway(a, n, name) ==
    /\ Changes(a, IF InsertSucceeds(a, n) THEN Inserted(n, name) ELSE secnode)
    /\ list' = [list EXCEPT ![a] = Append(@, [number |-> n, name |-> name])]

addNetSite(a, n, name) ==
    IF InsertSucceeds(a, n)
    THEN /\ Changes(a, Inserted(n, name))
         /\ list' = [list EXCEPT ![a] = Append(@, [number |-> n, name |-> name])]
    ELSE UNCHANGED <<secnode, writes, synced, quiet, list>>

\* The modal dialog AddNetSite is open only between two steps of the user; its OK button
\* emits createNet, which is connected to addNetSite.
on_createNet_clicked(a) ==
    /\ pc[a] = "list" /\ Len(list[a]) < MaxRows
    /\ \E n \in Numbers, name \in Names : addNetSite(a, n, name)
    /\ report' = NoReport
    /\ UNCHANGED <<config, conn, pc, asked>>

Fill(a, S) ==
    /\ \E rows \in RowsOf(S) : list' = [list EXCEPT ![a] = rows]
    /\ synced' = [synced EXCEPT ![a] = TRUE]
    /\ report' = NoReport
    /\ UNCHANGED <<secnode, writes, config, conn, pc, asked, quiet>>

\* By time of creation: to_date is a function MySQL does not have, so the statement fails.
on_vagueSearch_clicked(a) == pc[a] = "list" /\ Fill(a, {})

\* By name and number, by name, or by number.
on_exactSearch_clicked(a) ==
    /\ pc[a] = "list"
    /\ \/ \E number \in Numbers, name \in Names :
              Fill(a, selectDatabase(a, {number} \intersect Named(name)))
       \/ \E name \in Names : Fill(a, selectDatabase(a, Named(name)))
       \/ \E number \in Numbers : Fill(a, selectDatabase(a, {number}))

\* The dialog ModifyNetSite reads the node again; list.at(0) of no rows is a crash.
on_modifyNet_clicked(a) ==
    /\ pc[a] = "list"
    /\ \E row \in DOMAIN list[a] :
          LET number == list[a][row].number
          IN IF selectDatabase(a, {number}) = {}
             THEN /\ Goes(a, "crashed")
                  /\ conn' = [conn EXCEPT ![a] = FALSE]
                  /\ UNCHANGED <<asked, quiet>>
             ELSE /\ Goes(a, "modify")
                  /\ asked' = [asked EXCEPT ![a] = number]
                  /\ quiet' = [quiet EXCEPT ![a] = TRUE]
                  /\ UNCHANGED conn
    /\ report' = NoReport
    /\ UNCHANGED <<secnode, writes, config, list, synced>>

\* Its OK button: the dialog stays open when the update fails.  The list is not refreshed.
on_okBtn_clicked(a) ==
    /\ pc[a] = "modify"
    /\ \E n \in Numbers, name \in Names :
          IF UpdateSucceeds(a, asked[a], n)
          THEN /\ Changes(a, Updated(asked[a], n, name))
               /\ report' = [NoReport EXCEPT ![a] = [from |-> asked[a], number |-> n, name |-> name]]
               /\ asked' = [asked EXCEPT ![a] = Nil]
               /\ Goes(a, "list")
          ELSE /\ report' = NoReport
               /\ UNCHANGED <<secnode, writes, synced, quiet, pc, asked>>
    /\ UNCHANGED <<config, conn, list>>

on_cancleBtn_clicked(a) ==
    /\ pc[a] = "modify"
    /\ asked' = [asked EXCEPT ![a] = Nil]
    /\ Goes(a, "list")
    /\ report' = NoReport
    /\ UNCHANGED <<secnode, writes, config, conn, list, synced, quiet>>

\* Deletion: first the question ...
on_deleteNet_clicked(a) ==
    /\ pc[a] = "list"
    /\ \E row \in DOMAIN list[a] : asked' = [asked EXCEPT ![a] = row]
    /\ Goes(a, "delete")
    /\ report' = NoReport
    /\ UNCHANGED <<secnode, writes, config, conn, list, synced, quiet>>

\* Mutant: the row is not removed.
RowKept(rows, curRow) == rows

RowRemoved(rows, curRow) == SubSeq(rows, 1, curRow - 1) \o SubSeq(rows, curRow + 1, Len(rows))

\* ... then the deletion, if the user says yes: as good as done when there is no such node.
DeletionAnswered(a) ==
    /\ pc[a] = "delete"
    /\ \/ /\ DeleteSucceeds(a)
          /\ Changes(a, Deleted(list[a][asked[a]].number))
          /\ list' = [list EXCEPT ![a] = RowRemoved(@, asked[a])]
       \/ UNCHANGED <<secnode, writes, synced, quiet, list>>
    /\ asked' = [asked EXCEPT ![a] = Nil]
    /\ Goes(a, "list")
    /\ report' = NoReport
    /\ UNCHANGED <<config, conn>>

Next == \E a \in Admins :
    \/ main(a) \/ on_dbTest_clicked(a) \/ on_dbConnect_clicked(a) \/ Leave(a)
    \/ on_dbArgSave_clicked(a) \/ ConnectionLost(a)
    \/ on_createNet_clicked(a) \/ on_vagueSearch_clicked(a) \/ on_exactSearch_clicked(a)
    \/ on_modifyNet_clicked(a) \/ on_okBtn_clicked(a) \/ on_cancleBtn_clicked(a)
    \/ on_deleteNet_clicked(a) \/ DeletionAnswered(a)

Spec == Init /\ [][Next]_vars
-----------------------------------------------------------------------------
(* Properties. *)

\* A list has rows of nodes; a dialog or a question is about a node or a row of it.
TypeOK ==
    /\ secnode \in [Numbers -> Names \union {Nil}]
    /\ writes \in 0..MaxWrites
    /\ config \in [Admins -> BOOLEAN] /\ conn \in [Admins -> BOOLEAN]
    /\ synced \in [Admins -> BOOLEAN] /\ quiet \in [Admins -> BOOLEAN]
    /\ pc \in [Admins -> {"off", "setup", "list", "modify", "delete", "crashed"}]
    /\ list \in [Admins -> Seq([number : Numbers, name : Names])]
    /\ asked \in [Admins -> {Nil} \union Numbers \union Nat]
    /\ report \in [Admins -> {Nil} \union [from : Numbers, number : Numbers, name : Names]]
    /\ \A a \in Admins : /\ pc[a] = "modify" => asked[a] \in Numbers
                         /\ pc[a] = "delete" => asked[a] \in DOMAIN list[a]

\* As long as nobody else changed secnode and the program itself modified no node since
\* the list was filled, every row of the list is a node as it is stored: creating and
\* deleting, with all their failures, keep the list right.
SyncedListIsRight ==
    \A a \in Admins : synced[a] =>
        \A i \in DOMAIN list[a] : list[a][i] = Row(list[a][i].number)

\* The program ends in list.at(0) only on a stale list, or because the connection went.
CrashIsFromStaleRow == [][
    \A a \in Admins : pc[a] = "list" /\ pc'[a] = "crashed" => ~synced[a] \/ ~conn[a]]_vars

\* "Update done" is true, unless somebody else changed secnode behind the open dialog: the
\* node is stored as typed in, and no longer under its former number.
ReportedUpdateIsStored ==
    \A a \in Admins : report[a] # Nil /\ quiet[a] =>
        /\ secnode[report[a].number] = report[a].name
        /\ report[a].from # report[a].number => report[a].from \notin Stored
=============================================================================
