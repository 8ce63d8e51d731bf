------------------------------- MODULE Requests -------------------------------
(***************************************************************************)
(* A request as the shell of the service handles it: a call in progress,   *)
(* one connection and one transaction, and what its sender is told.        *)
(*                                                                         *)
(* A step of a handler is what happens under one row lock, or between two  *)
(* statements that read without one.  cockpit_shell.with_connection opens  *)
(* a connection that is not in autocommit mode and closes it without a     *)
(* commit: an operation whose first statement is inside its transaction    *)
(* block is durable, one that reads before the block has only opened a     *)
(* savepoint in the transaction that its reading began.                    *)
(***************************************************************************)
EXTENDS Naturals, Sequences, FiniteSets

CONSTANTS
    Commands,   \* what clients may send; its record has "op" and "key"
    Calls,      \* requests handled at the same time
    Keys,       \* idempotency keys
    Autocommit, \* the mode of the connections
    None

VARIABLES
    call,  \* call[c]: the request being handled, with what its handler has read
    answer \* the command last answered with success, and what it was read with

requestVars == <<call, answer>>

Idle == [pc |-> "idle"]

Step(c, pc) == IF call[c] = Idle THEN FALSE ELSE call[c].pc = pc

Begin(c, slot) == call[c] = Idle /\ call' = [call EXCEPT ![c] = slot]

End(c) == call' = [call EXCEPT ![c] = Idle]

\* What a handler that read before its block leaves of a table.
Keeps(table, new) == table' = IF Autocommit THEN new ELSE table

Answers(m, v) == answer' = [command |-> m, expected |-> v]

\* The handler raised: its transaction is rolled back.
Refused(c) == call[c] # Idle /\ End(c) /\ UNCHANGED answer

RequestsInit == call = [c \in Calls |-> Idle] /\ answer = None

=============================================================================
