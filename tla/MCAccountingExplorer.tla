----------------------- MODULE MCAccountingExplorer -----------------------
(* Three accounts, two versions of the closing balance and two ledgers.     *)
EXTENDS AccountingExplorer

D(n) == [debit |-> n, credit |-> 0]
C(n) == [debit |-> 0, credit |-> n]
Move(a, date, id, d, c) == [account |-> a, date |-> date, id |-> id, debit |-> d, credit |-> c]

MCBalances == {<<D(5), D(5), C(3)>>, <<D(9), None, C(3)>>}
MCLedgers == {{Move(1, 1, 1, 4, 0), Move(3, 2, 2, 1, 0), Move(3, 2, 3, 0, 3)},
              {Move(1, 2, 4, 5, 4), Move(1, 2, 5, 4, 0), Move(2, 1, 6, 5, 0), Move(3, 1, 7, 0, 3)}}
MCOpenings == {<<D(7), None, C(7)>>}
MCPreviousClosings ==
  {[status |-> "processed", entries |-> b] : b \in {<<D(8), None, C(7)>>, <<D(7), D(2), C(7)>>}}
  \cup {[status |-> "superseded", entries |-> <<D(7), D(2), C(7)>>]}

MCFilters ==
  {NoFilter}
  \cup [document : {None}, search : {Accounts}, status : {"all"}, sort : {"debit"},
        ascending : {FALSE}, page : {1, 2}]
  \cup {[NoFilter EXCEPT !.status = "reconciled", !.search = {1, 2}]}
  \cup {[NoFilter EXCEPT !.document = 1]}
=============================================================================
