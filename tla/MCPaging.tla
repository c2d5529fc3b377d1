------------------------------ MODULE MCPaging ------------------------------
(* Paging of a short list, one or two rows at a time.                        *)
EXTENDS Paging

OneOrTwo == {1, 2}
=============================================================================
