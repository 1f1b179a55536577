------------------------------- MODULE Ledger -------------------------------
(***************************************************************************)
(* What a trading account promises, with no averages and no profit split:  *)
(* buying pays cash and selling receives it, every trade pays its fee, and *)
(* a report is the value of the cash and the holdings at the marks.        *)
(***************************************************************************)
EXTENDS Decimal, Option, FiniteSetsExt, SequencesExt

CONSTANTS Symbols, InitialBalance, FeeRate, Slippage, Qtys, Prices

VARIABLES
  cash,      \* Decimal, negative while bought on credit
  holdings,  \* quantity held of every symbol
  reports    \* sequence of [marks, value], the account values reported

ledgerVars == <<cash, holdings, reports>>

LedgerInit ==
  /\ cash = InitialBalance
  /\ holdings = [s \in Symbols |-> 0]
  /\ reports = <<>>

\* The price after slippage, which always works against the trader.
Worse(price, diff) == price ** (Dec(1) ++ (Slippage ** Dec(Signum(diff))))

MoveTo(symbol, qty, price) ==
  LET diff == qty - holdings[symbol]
      paid == Worse(price, diff) ** Dec(diff)
      fee  == Worse(price, diff) ** Dec(Abs(diff)) ** FeeRate
  IN  /\ diff # 0
      /\ cash' = (cash -- paid) -- fee
      /\ holdings' = [holdings EXCEPT ![symbol] = qty]
      /\ UNCHANGED reports

Open == {s \in Symbols : holdings[s] # 0}

Value(marks) ==
  cash ++ SumOver([s \in Open |-> marks[s] ** Dec(holdings[s])], Open)

\* A report made without a mark for every open position promises nothing.
Report ==
  /\ Len(reports') = Len(reports) + 1
  /\ IsStrictPrefix(reports, reports')
  /\ LET report == Last(reports')
     IN  Open \subseteq DOMAIN report.marks => report.value = Value(report.marks)
  /\ UNCHANGED <<cash, holdings>>

LedgerNext ==
  \/ \E s \in Symbols, q \in Qtys, p \in Prices : MoveTo(s, q, p)
  \/ Report

Spec == LedgerInit /\ [][LedgerNext]_ledgerVars
=============================================================================
