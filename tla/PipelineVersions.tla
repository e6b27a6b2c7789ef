-------------------------- MODULE PipelineVersions --------------------------
(***************************************************************************)
(* The PipelineVersion rows of one pipeline                                *)
(* (src/server/services/pipeline-version.ts).                              *)
(*                                                                         *)
(* Rows are kept in the order of their insertion; the position of a row    *)
(* stands for its id.  Nothing in the schema makes the version numbers of  *)
(* a pipeline unique, and ORDER BY version does not say which of two rows  *)
(* with the same number comes first.                                       *)
(***************************************************************************)
EXTENDS Naturals, Sequences

NoRow == 0

\* The rows of ids with the highest version number.
Highest(rows, ids) ==
    {i \in ids : \A j \in ids : rows[j].version <= rows[i].version}

\* The row ORDER BY version DESC may put first.
Latest(rows) == Highest(rows, DOMAIN rows)

\* The rows it may put second, after row i.
RunnersUp(rows, i) == Highest(rows, DOMAIN rows \ {i})

\* Mutant of NextNumber: latest?.version ?? 0 + 1, where + binds tighter than ??.
NextNumberByPrecedence(rows) ==
    IF rows = <<>> THEN 1 ELSE rows[CHOOSE i \in Latest(rows) : TRUE].version

\* The number createVersion gives to the next row.
NextNumber(rows) ==
    IF rows = <<>> THEN 1 ELSE rows[CHOOSE i \in Latest(rows) : TRUE].version + 1
=============================================================================
