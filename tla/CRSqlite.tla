------------------------------ MODULE CRSqlite ------------------------------
(***************************************************************************)
(* The clock tables of the cr-sqlite extension, as this program relies on  *)
(* them.  The extension is a binary the repository loads (it is not under  *)
(* src/); migrations/0001_base.sql turns the shared tables into CRRs with  *)
(* crsql_as_crr, and memsync reads and writes the virtual table            *)
(* crsql_changes.                                                          *)
(*                                                                         *)
(* A clock table maps a cell to a record: cv is the column version, val    *)
(* the value (ordered as SQLite compares them), ver the database version   *)
(* the cell was last written at on this node.  A change set is a partial   *)
(* function of the same kind.                                              *)
(*                                                                         *)
(* A definition named Foo_Fault is Foo with one mistake in it: it is used  *)
(* by no specification, only to see that a property notices the mistake.   *)
(***************************************************************************)
EXTENDS Integers, FiniteSetsExt

\* Clock rows of a database that is at version v.
ClockRows(v) == [cv : Nat, val : Nat, ver : 0 .. v]

Absent == [cv |-> 0, val |-> 0, ver |-> 0]

Later(a, b) == IF a >= b THEN a ELSE b

\* An equal cell wins as well.
Newer_TieWins(r, c) == r.cv > c.cv \/ (r.cv = c.cv /\ r.val >= c.val)

\* Last-writer-wins: the larger column version, then the larger value; an
\* equal cell loses, which is what makes a redelivery a no-op.
Newer(r, c) == r.cv > c.cv \/ (r.cv = c.cv /\ r.val > c.val)

Won(table, rows) == {c \in DOMAIN rows : Newer(rows[c], table[c])}

\* Merging a row counts as writing it.
Stamped_Bumped(v, row) == [row EXCEPT !.ver = Later(v + 1, row.ver), !.cv = @ + 1]

\* A merged cell keeps the version it was sent with when that version is
\* ahead of this database, and gets the transaction's next version otherwise.
Stamped(v, row) == [row EXCEPT !.ver = Later(v + 1, row.ver)]

\* A row that loses still leaves its value behind.
Merge_LosersOverwrite(table, v, rows) ==
    [c \in DOMAIN table |->
        IF c \in Won(table, rows) THEN Stamped(v, rows[c])
        ELSE IF c \in DOMAIN rows THEN [rows[c] EXCEPT !.ver = table[c].ver] ELSE table[c]]

\* INSERT INTO crsql_changes, for every row of a change set in one transaction
\* of a database that is at version v.
Merge(table, v, rows) ==
    [c \in DOMAIN table |->
        IF c \in Won(table, rows) THEN Stamped(v, rows[c]) ELSE table[c]]

\* The database does not follow the versions it has received.
MergedVersion_NextOnly(table, v, rows) == IF Won(table, rows) = {} THEN v ELSE v + 1

\* crsql_db_version() after that transaction: a change set that wins nothing
\* leaves it where it was.
MergedVersion(table, v, rows) ==
    Max({v} \cup {Stamped(v, rows[c]).ver : c \in Won(table, rows)})

\* A local INSERT or UPDATE of the cells in DOMAIN vals; writing the value a
\* cell already has leaves its clock alone.
Write(table, v, vals) ==
    [c \in DOMAIN table |->
        IF c \in DOMAIN vals /\ vals[c] # table[c].val
        THEN [cv |-> table[c].cv + 1, val |-> vals[c], ver |-> v + 1]
        ELSE table[c]]
=============================================================================
