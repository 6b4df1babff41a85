---------------------------- MODULE MCAdminPanel ----------------------------
(* A small instance of AdminPanel: an odd value is one no form can show,   *)
(* such as a number out of range.                                          *)
EXTENDS AdminPanel

CONSTANTS v1, v2, odd, cleared

MCFirstRows == {[name |-> v1, detail |-> odd]}
MCKept      == [v \in {v1, v2, odd, cleared} |-> IF v = odd THEN v1 ELSE v]
=============================================================================
