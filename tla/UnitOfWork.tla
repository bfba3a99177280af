----------------------------- MODULE UnitOfWork -----------------------------
(***************************************************************************)
(* What the commit of an SQLAlchemy session does to a row.  The handlers   *)
(* of app/identity read a row, change attributes of the object it became,  *)
(* and commit.  SELECTs hold no lock (SQLite begins a transaction with the *)
(* first write), so that other sessions may write the row in between.  The *)
(* UPDATE names the columns whose value differs from the one that was      *)
(* read, and no others; it and the commit are one step.                    *)
(***************************************************************************)

\* row: in the table now; loaded: as the session read it; dirty: as the
\* handler left it.
Flush(row, loaded, dirty) ==
    [c \in DOMAIN row |-> IF dirty[c] = loaded[c] THEN row[c] ELSE dirty[c]]
=============================================================================
