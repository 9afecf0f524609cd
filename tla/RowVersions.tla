---------------------------- MODULE RowVersions ----------------------------
(***************************************************************************)
(* A PostgreSQL table as the requests of this service meet it.  Every      *)
(* request runs in one transaction opened with a plain BEGIN, that is at   *)
(* READ COMMITTED: a statement sees the rows committed when it starts plus *)
(* what its own transaction wrote, and a write holds its row until that    *)
(* transaction commits or rolls back.                                      *)
(*                                                                         *)
(* A table is a function from row keys to versions.  A version holds the   *)
(* committed row, the row its writer would commit, and the writer.  One    *)
(* writer per row is the row lock; a second writer's statement is not      *)
(* enabled until the first has finished, and it is evaluated on the row    *)
(* that is committed by then, as PostgreSQL re-evaluates a blocked UPDATE. *)
(***************************************************************************)
CONSTANT Nobody     \* the writer of a row no transaction has written

Settled(row) == [row |-> row, next |-> row, by |-> Nobody]

Versions(Rows, Txs) == [row : Rows, next : Rows, by : Txs \cup {Nobody}]

(* What the statements of transaction tx see, and what everyone else sees. *)
Seen(table, tx) ==
    [k \in DOMAIN table |->
        IF table[k].by = tx THEN table[k].next ELSE table[k].row]

Stored(table) == [k \in DOMAIN table |-> table[k].row]

(* The row is not held by another transaction. *)
FreeFor(table, k, tx) == table[k].by \in {Nobody, tx}

Put(table, k, tx, row) ==
    [table EXCEPT ![k] = [row |-> table[k].row, next |-> row, by |-> tx]]

Commit(table, tx) ==
    [k \in DOMAIN table |->
        IF table[k].by = tx THEN Settled(table[k].next) ELSE table[k]]

Rollback_Leaked(table, tx) == table     \* mutant: the client goes back to the pool mid-transaction
Rollback(table, tx) ==
    [k \in DOMAIN table |->
        IF table[k].by = tx THEN Settled(table[k].row) ELSE table[k]]
=============================================================================
