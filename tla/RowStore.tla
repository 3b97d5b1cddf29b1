------------------------------ MODULE RowStore ------------------------------
(***************************************************************************)
(* A row of a PostgreSQL table as the API's transactions see it.  No       *)
(* handler sets an isolation level, so every transaction runs at READ      *)
(* COMMITTED: a statement sees the committed version of a row, or the      *)
(* version its own transaction wrote, and a write keeps the row locked     *)
(* until its transaction ends.  A row is therefore a record of             *)
(*                                                                         *)
(*   at      the committed version,                                        *)
(*   draft   the version written by an open transaction (at, if none),     *)
(*   by      the request whose transaction wrote the draft, or None.       *)
(*                                                                         *)
(* The database is not part of the repository: these operators are what    *)
(* the handlers rely on.                                                   *)
(***************************************************************************)

CONSTANT None           \* the SQL NULL, and "nobody"

\* A row nobody is writing.
Row(v) == [at |-> v, draft |-> v, by |-> None]

\* The version a statement of request p reads.
Seen(row, p) == IF row.by = p THEN row.draft ELSE row.at

\* Request p may lock the row: nobody else holds it.
Free(row, p) == row.by \in {p, None}

\* The row after request p wrote version v.
Put(row, p, v) == [at |-> row.at, draft |-> v, by |-> p]

\* The row after request p committed, and after it rolled back.
Settle(row, p) == IF row.by = p THEN Row(row.draft) ELSE row
Undo(row, p)   == IF row.by = p THEN Row(row.at) ELSE row

\* The rows of a table whose versions come from Versions, written by Writers.
Rows(Versions, Writers) ==
  [at : Versions, draft : Versions, by : Writers \cup {None}]
=============================================================================
