--------------------------- MODULE Application ---------------------------
(***************************************************************************)
(* A node's application over its processes: every process builds the       *)
(* application again (AppWiring) and, once it is built, executes blocks on *)
(* the chain's state, or exports it and ends (BlockFlow).                  *)
(***************************************************************************)
EXTENDS AppWiring, BlockFlow

AppInit == Init /\ ChainInit

(* A statement of main, the root command or New.                           *)
Build == Next /\ UNCHANGED chainVars

(* `Neutaro start`: CometBFT has InitChain or the next block executed.     *)
Start == status = "running" /\ command = "start" /\ Blocks /\ UNCHANGED vars

(* Another process: nothing of the application outlives the one before.    *)
Relaunch ==
  /\ command' \in Commands
  /\ done' = {} /\ zero' = [p \in Parts |-> {}] /\ status' = "building"

(* `Neutaro export`, on the last state or on a height: the state becomes   *)
(* the genesis of another chain.                                           *)
ExportCommand ==
  /\ status = "running" /\ command \in {"export", "exportAt"}
  /\ Export
  /\ Relaunch

(* The process ended, on purpose or by an error, and another one starts.   *)
NewProcess ==
  /\ status \in {"running", "exited"}
  /\ Restart
  /\ Relaunch

AppNext == Build \/ Start \/ ExportCommand \/ NewProcess
AppSpec == AppInit /\ [][AppNext]_<<vars, chainVars>>
==========================================================================
