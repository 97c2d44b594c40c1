---------------------------- MODULE DraftHistory ----------------------------
(***************************************************************************)
(* What opsp_drafts promises of one plan (FR-26): a history that is only   *)
(* ever added to.  A row is either a first version or edits at most one    *)
(* cell of a row that was there before, under the number that follows a    *)
(* number already given out; a labelled row is a copy.  Two editors may    *)
(* still take the same number: nothing here says the history is a chain.   *)
(***************************************************************************)
EXTENDS Naturals, Sequences

CONSTANT Cells       \* the cells of the plan

VARIABLE rows        \* [version, label, cells], in order of insertion

Init == rows = <<>>

(* At most one cell of the old plan is different in the new one.           *)
OneCellApart(old, new) ==
  \E c \in Cells : \A d \in Cells \ {c} : new[d] = old[d]

First(row) == row.version = 1 /\ ~row.label

Builds(row, base) ==
  /\ base.version < row.version
  /\ OneCellApart(base.cells, row.cells)
  /\ row.label => row.cells = base.cells

Numbered(row, prev) == row.version = prev.version + 1

Follows(row) ==
  /\ \E i \in DOMAIN rows : Builds(row, rows[i])
  /\ \E i \in DOMAIN rows : Numbered(row, rows[i])

Next ==
  LET row == rows'[Len(rows')]
  IN  /\ Len(rows') = Len(rows) + 1
      /\ rows' = Append(rows, row)
      /\ First(row) \/ Follows(row)

Spec == Init /\ [][Next]_rows
=============================================================================
