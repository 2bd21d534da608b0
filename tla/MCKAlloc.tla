----------------------------- MODULE MCKAlloc -------------------------------
(* KAlloc for TLC: malloc has room below and above the page.              *)
EXTENDS KAlloc

Around == {-20, PageSize + 10}
=============================================================================
