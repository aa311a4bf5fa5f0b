------------------------------- MODULE Datastore -------------------------------
(***************************************************************************)
(* The data store as a set of rows, and what one prepared statement does   *)
(* to it.  A statement that is refused aborts the transaction it is part   *)
(* of.  A row that meets another one with its key is merged with it or     *)
(* dropped, whatever the statement says; nobody is told.                   *)
(***************************************************************************)
EXTENDS Schema

\* Mutant: the key of a name of an address lacks the name.
KeyOfShort(row) == SubSeq(row, 1, IF row[1] = "raw_hostnames" THEN 3 ELSE 1 + Schema[row[1]].key)

KeyOf(row) == SubSeq(row, 1, 1 + Schema[row[1]].key)

Referenced(row, ref) == <<ref[1]>> \o [i \in DOMAIN ref[2] |-> row[ref[2][i] + 1]]
HasKey(db, table, key) == \E old \in db : old[1] = table /\ KeyOf(old) = key
HasParents(db, row)    == \A ref \in Schema[row[1]].refs : HasKey(db, ref[1], Referenced(row, ref))

SameKey(db, row) == {old \in db : old[1] = row[1] /\ KeyOf(old) = KeyOf(row)}

\* is_responding is the last column of the two tables whose conflicts are merged.
LOCAL GreatestOf(old, row) == [row EXCEPT ![Len(row)] = @ \/ old[Len(row)]]
LOCAL Merge(db, olds, row) == (db \ olds) \union {GreatestOf(old, row) : old \in olds}

\* Mutant: a statement without its ON CONFLICT clause
ExecuteStrict(db, call) ==
  LET row == RowOf(call)
      refused == Malformed(row) \/ SameKey(db, row) # {} \/ ~HasParents(db, row)
  IN  [db |-> IF refused THEN db ELSE db \union {row}, refused |-> refused]

\* The rows after a statement, and whether it was refused
Execute(db, call) ==
  LET row  == RowOf(call)
      olds == SameKey(db, row)
      onConflict == Statements[call[1]].onConflict
      Refused == [db |-> db, refused |-> TRUE]
      Gives(rows) == [db |-> rows, refused |-> FALSE]
  IN  CASE Malformed(row) -> Refused
        [] olds # {}      -> CASE onConflict = "error"    -> Refused
                               [] onConflict = "greatest" -> Gives(Merge(db, olds, row))
                               [] OTHER -> Gives(db)
        [] ~HasParents(db, row) -> Refused
        [] OTHER -> Gives(db \union {row})

\* Deleting a row deletes every row that refers to it.
RECURSIVE Cascade(_, _)
Cascade(db, gone) ==
  LET more == {row \in db \ gone : \E ref \in Schema[row[1]].refs :
                                      \E parent \in gone : KeyOf(parent) = Referenced(row, ref)}
  IN  IF more = {} THEN db \ gone ELSE Cascade(db, gone \union more)

\* A run is a table's first column, except in the three tables that belong to no run.
Global == {"device_colors", "device_extra_weights", "ip_nets_extra_weights"}
OfRun(row, run) == row[1] \notin Global /\ row[2] = run
================================================================================
