--------------------------- MODULE MCTaxDocuments ---------------------------
(* TLC instances of TaxDocuments: see the .cfg files named after it.       *)
EXTENDS TaxDocuments, TLC

(* Identifiers are interchangeable wherever an instance treats them alike. *)
RequestsAndAccounts == Permutations(Requests) \cup Permutations(Accounts)
AllIdentifiers == RequestsAndAccounts \cup Permutations(Docs \ Historical)

(* Contents of the files of an instance.                                   *)
SomeFiles == [rows : SUBSET Accounts \ {{}}, valid : {TRUE}] \cup [rows : {{}}, valid : BOOLEAN]
GoodFiles == [rows : SUBSET Accounts \ {{}}, valid : {TRUE}]
=============================================================================
