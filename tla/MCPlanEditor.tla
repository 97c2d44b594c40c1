---------------------------- MODULE MCPlanEditor ----------------------------
(* One tab over one plain cell and two metrics cells.                     *)
EXTENDS PlanEditor

CONSTANTS a, text, year, quarter

MCTabs    == {a}
MCPlain   == {text}
MCMetrics == {year, quarter}
=============================================================================
