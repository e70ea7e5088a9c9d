------------------------- MODULE MCSuggestionEngine -------------------------
(* A catalogue of a few accounts, imported twice: in the second import the  *)
(* code of the cash account is gone and that of the bank has its name. One   *)
(* word is an alias of both, two accounts to pay have one name, a name of     *)
(* costs has the word of the sales, and an obligation has only a generic word *)
(* in common with a loan.                                                    *)
EXTENDS SuggestionEngine, TLC

CONSTANTS caja, disponible, gastosDiferidos, arriendo, gastosArriendo, costoDeVentas, banco,
          cuentasPorPagar, cuentasPorPagarVarias, prestamoCorriente, obligacionCorriente

MCNames == {caja, disponible, gastosDiferidos, arriendo, gastosArriendo, costoDeVentas, banco,
            cuentasPorPagar, cuentasPorPagarVarias, prestamoCorriente, obligacionCorriente}

Plain == [section |-> "unknown", nature |-> "debit", term |-> "unknown",
          singularTerm |-> "unknown", family |-> "unknown",
          worded |-> "unknown", wordedResult |-> "unknown", tax |-> "none",
          direction |-> "unknown", subfamily |-> "unknown", rules |-> {}, tags |-> {},
          commonFamily |-> "other", basic |-> "other", basicDestination |-> "other", words |-> {}]

Cash == [Plain EXCEPT !.section = "asset", !.family = "cash", !.subfamily = "cash_and_bank",
                      !.commonFamily = "cash", !.basic = "cash_and_bank",
                      !.basicDestination = "cash_and_bank"]

Expense == [Plain EXCEPT !.section = "expense", !.commonFamily = "expenses",
                         !.basic = "expense", !.basicDestination = "expense"]

Payable == [Plain EXCEPT !.section = "liability", !.nature = "credit", !.direction = "payable",
                         !.subfamily = "trade_payables", !.commonFamily = "payables",
                         !.basic = "payables", !.basicDestination = "payables"]

Debt == [Plain EXCEPT !.section = "liability", !.nature = "credit", !.term = "current",
                      !.singularTerm = "current", !.commonFamily = "financial_liabilities",
                      !.basic = "payables", !.basicDestination = "payables"]

MCAbout ==
  caja :> [Cash EXCEPT !.words = {"caja"}] @@
  disponible :> [Cash EXCEPT !.words = {"disponible"}] @@
  gastosDiferidos :> [Expense EXCEPT !.worded = "expense", !.wordedResult = "expense",
                        !.basic = "deferred", !.basicDestination = "deferred",
                        !.words = {"gasto", "diferido"}, !.tags = {"deferred"}] @@
  arriendo :> [Expense EXCEPT !.words = {"arriendo"}, !.tags = {"rental", "rental_destination"}] @@
  gastosArriendo :> [Expense EXCEPT !.worded = "expense", !.wordedResult = "expense",
                       !.words = {"gasto", "arriendo"},
                       !.tags = {"rental", "rental_destination"}] @@
  costoDeVentas :> [Expense EXCEPT !.worded = "expense", !.wordedResult = "expense",
                      !.basic = "cost", !.basicDestination = "cost",
                      !.words = {"costo", "venta"}, !.tags = {"sales", "cost"}] @@
  banco :> [Cash EXCEPT !.words = {"banco"}, !.tags = {"bank", "bank_institution"}] @@
  cuentasPorPagar :> [Payable EXCEPT !.words = {"pagar"}, !.tags = {"payable"}] @@
  cuentasPorPagarVarias :> [Payable EXCEPT !.words = {"pagar", "varia"}, !.tags = {"payable"}] @@
  prestamoCorriente :> [Debt EXCEPT !.words = {"prestamo", "corriente"},
                          !.tags = {"current", "loan"}] @@
  obligacionCorriente :> [Debt EXCEPT !.direction = "payable",
                            !.words = {"obligacion", "corriente"}, !.tags = {"current"}]

Apart == [tokens |-> 0, lexical |-> 10, jaccard |-> 0, trigrams |-> 2, prefix |-> FALSE,
          shared |-> FALSE, generic |-> FALSE, onlyGeneric |-> FALSE]
Same == [Apart EXCEPT !.tokens = 100, !.lexical = 100, !.jaccard = 100, !.trigrams = 100,
                      !.shared = TRUE]
Near == {{arriendo, gastosArriendo}, {cuentasPorPagar, cuentasPorPagarVarias}}
MCLikeness ==
  [p \in MCNames \X MCNames |->
     IF p[1] = p[2] THEN Same
     ELSE IF {p[1], p[2]} = {gastosDiferidos, gastosArriendo}
     THEN [Apart EXCEPT !.tokens = 15, !.lexical = 50, !.jaccard = 33, !.trigrams = 25]
     ELSE IF {p[1], p[2]} = {prestamoCorriente, obligacionCorriente}
     THEN [Apart EXCEPT !.tokens = 33, !.lexical = 60, !.jaccard = 33, !.trigrams = 31,
                        !.generic = TRUE, !.onlyGeneric = TRUE]
     ELSE IF {p[1], p[2]} \in Near
     THEN [Apart EXCEPT !.tokens = 74, !.lexical = 53, !.jaccard = 50, !.trigrams = 40,
                        !.shared = arriendo \in {p[1], p[2]}]
     ELSE Apart]

MCChapter == 1 :> "asset" @@ 2 :> "asset" @@ 3 :> "asset" @@ 4 :> "liability"
             @@ 5 :> "liability" @@ 6 :> "result" @@ 7 :> "liability"

Entry(n) == [name |-> n, parent |-> Null, official |-> "unknown"]
MCCatalogues ==
  <<1 :> Entry(disponible) @@ 2 :> Entry(banco) @@ 3 :> Entry(gastosDiferidos) @@ 4 :> Entry(cuentasPorPagar)
      @@ 5 :> Entry(cuentasPorPagar) @@ 6 :> Entry(gastosArriendo)
      @@ 7 :> Entry(prestamoCorriente),
    2 :> Entry(disponible) @@ 3 :> Entry(gastosDiferidos) @@ 4 :> Entry(cuentasPorPagar)
      @@ 6 :> Entry(gastosArriendo)>>

MCKnowledge == {}

MCCurated == {[code |-> 1, name |-> caja, type |-> "alias", weight |-> 6000],
              [code |-> 2, name |-> caja, type |-> "alias", weight |-> 6000],
              [code |-> 6, name |-> arriendo, type |-> "alias", weight |-> 6000],
              [code |-> 1, name |-> cuentasPorPagar, type |-> "negative_term", weight |-> 3500]}
MCConcepts == {[code |-> 6, type |-> "statement_section", fits |-> {"expense"},
                within |-> {arriendo}]}
MCLearned == {[name |-> banco, code |-> 1, confidence |-> 60, experts |-> FALSE,
               industry |-> 0, industryExperts |-> FALSE]}
MCRules == {}

Amounts(columns) == [c \in BalanceSections \cup {"debit", "credit"} |->
                       IF c \in columns THEN 1 ELSE 0]
MCRows == {[name |-> caja, amounts |-> Amounts({"asset", "debit"})],
           [name |-> banco, amounts |-> Amounts({"liability", "credit"})],
           [name |-> gastosDiferidos, amounts |-> Amounts({"expense", "debit"})],
           [name |-> arriendo, amounts |-> Amounts({"expense", "debit"})],
           [name |-> costoDeVentas, amounts |-> Amounts({"expense", "debit"})],
           [name |-> cuentasPorPagarVarias, amounts |-> Amounts({"liability", "credit"})],
           [name |-> obligacionCorriente, amounts |-> Amounts({"liability", "credit"})]}

MCOrders == {<<1, 2, 3, 4, 5, 6, 7>>, <<7, 6, 5, 4, 3, 2, 1>>}
=============================================================================
