------------------------------ MODULE MCWorker ------------------------------
(***************************************************************************)
(* A small instance of Programs for TLC: a worker process in an            *)
(* environment without a database, with a limit that is not a positive     *)
(* integer, or with one it can use; a churn run; and a mixed run.          *)
(***************************************************************************)
EXTENDS Programs, TLC

MCTables == "sweeper" :> {"holds"} @@ "retention" :> {"idempotency", "outbox"}
MCEnvs == {[url |-> FALSE, limit |-> {}], [url |-> TRUE, limit |-> {0}],
           [url |-> TRUE, limit |-> {}], [url |-> TRUE, limit |-> {2}]}
=============================================================================
