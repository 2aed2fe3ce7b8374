-------------------------- MODULE MCPlaybookEngine --------------------------
(* A small playbook for TLC: contain, comment, contain.                    *)
EXTENDS PlaybookEngine

ContainTwice == {0, 2}
=============================================================================
