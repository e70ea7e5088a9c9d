-------------------------- MODULE MCDocumentsPage --------------------------
(* Two uploads.                                                            *)
EXTENDS DocumentsPage

MCBalanceRoles == {"opening"}
MCCategories == {"balance", "ledger"}
=============================================================================
