------------------------------- MODULE MCService -------------------------------
(***************************************************************************)
(* Both commands that pull, with and without an explicit start epoch; the  *)
(* API alone; a run that skips uploads; a pull loop without a beacon node; *)
(* and environments that do not start.                                     *)
(***************************************************************************)
EXTENDS Service

Environment(command, start) ==
  [command |-> command, start |-> start, known |-> TRUE, ipfs |-> TRUE,
   skipUpload |-> FALSE, beacon |-> TRUE, execution |-> FALSE]

SomeEnvironments ==
  {Environment(c, s) : c \in {"run", "servePull"}, s \in {Nothing, 0, 2}}
    \cup {[Environment("run", Nothing) EXCEPT !.known = FALSE, !.execution = TRUE],
          Environment("serve", Nothing),
          [Environment("run", Nothing) EXCEPT !.skipUpload = TRUE],
          [Environment("servePull", Nothing) EXCEPT !.beacon = FALSE, !.ipfs = FALSE,
                                                    !.skipUpload = TRUE],
          [Environment("run", Nothing) EXCEPT !.ipfs = FALSE],
          [Environment("run", Nothing) EXCEPT !.beacon = FALSE, !.execution = TRUE]}

=============================================================================
