---------------------------- MODULE MCNameClaims ----------------------------
(* The processes and batches of tool calls that the instances of NameClaims have. *)
EXTENDS NameClaims

\* A batch of a start, a close and a lookup of one name in one process; in another one a
\* fork and a worker of that name.
BatchProcesses == {"p", "q"}
BatchTasks == 1..5
BatchHome == <<"p", "p", "p", "q", "q">>
BatchOp == <<"start", "close", "lookup", "fork", "worker">>

\* Three processes, one of which may leave its claim behind.
TrioProcesses == {"p", "q", "r"}
TrioTasks == 1..3
TrioHome == <<"p", "q", "r">>
TrioOp == <<"worker", "worker", "start">>
=============================================================================
