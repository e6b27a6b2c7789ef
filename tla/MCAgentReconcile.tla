-------------------------- MODULE MCAgentReconcile --------------------------
(***************************************************************************)
(* View for the passing run of AgentReconcile.                             *)
(***************************************************************************)
EXTENDS AgentReconcile

\* The fields of a ProcessInfo mean nothing once it has left the table.
View ==
    <<serverVars, known, file, todo, current, tableVars, stranded,
      [p \in Pipelines |->
          IF entry[p] = "absent" THEN <<>> ELSE <<label[p], running[p]>>]>>
=============================================================================
