------------------------------ MODULE Statements ------------------------------
(***************************************************************************)
(* From a closed snapshot to the archive a manager downloads               *)
(* (apps/exports): one statement per line of the payload, the summary and  *)
(* the manifest.  Labels, dates and layout are left out, except for the    *)
(* rows of the sheet that hold amounts: items from FirstRow to LastItemRow *)
(* (8 and 23 in the code) and the totals in the two rows below.            *)
(***************************************************************************)
EXTENDS Integers, Sequences, SequencesExt

CONSTANTS FirstRow, LastItemRow

ASSUME StatementsAssumption ==
  FirstRow \in Nat /\ LastItemRow \in Nat /\ FirstRow <= LastItemRow

Total(amounts) ==
  LET sum[i \in 0..Len(amounts)] == IF i = 0 THEN 0 ELSE sum[i - 1] + amounts[i]
  IN  sum[Len(amounts)]

\* statements_from_snapshot.
StatementsFromSnapshot(snapshot) ==
  [i \in DOMAIN snapshot.payload |->
     [employee |-> snapshot.payload[i].employee,
      earnings |-> snapshot.payload[i].earnings,
      deductions |-> snapshot.payload[i].deductions]]

TotalPay(data) == Total(data.earnings)
TotalDeduction(data) == Total(data.deductions)
NetPay(data) == TotalPay(data) - TotalDeduction(data)

-----------------------------------------------------------------------------
(* The sheets *)

\* build_statement raises ValueError.  Faulty variant: one row too many.
OneRowMore(data) == \E items \in {data.earnings, data.deductions} :
                      Len(items) > LastItemRow - FirstRow + 2
TooLong(data) == \E items \in {data.earnings, data.deductions} :
                   Len(items) > LastItemRow - FirstRow + 1

\* Its columns B and D.  The totals are written last.
Items(amounts) ==
  [row \in FirstRow..(FirstRow + Len(amounts) - 1) |-> amounts[row - FirstRow + 1]]
Column(items, totals) ==
  [row \in DOMAIN items \cup DOMAIN totals |->
     IF row \in DOMAIN totals THEN totals[row] ELSE items[row]]
Sheet(data) ==
  [B |-> Column(Items(data.earnings), [row \in {LastItemRow + 2} |-> TotalPay(data)]),
   D |-> Column(Items(data.deductions),
                [row \in {LastItemRow + 1, LastItemRow + 2} |->
                   IF row = LastItemRow + 1 THEN TotalDeduction(data) ELSE NetPay(data)])]

\* build_summary: a row per employee, and the totals over them.
SummaryRow(data) ==
  [employee |-> data.employee, pay |-> TotalPay(data), deduction |-> TotalDeduction(data),
   net |-> NetPay(data)]
Summary(statements) ==
  [rows |-> [i \in DOMAIN statements |-> SummaryRow(statements[i])],
   pay |-> Total([i \in DOMAIN statements |-> TotalPay(statements[i])]),
   deduction |-> Total([i \in DOMAIN statements |-> TotalDeduction(statements[i])]),
   net |-> Total([i \in DOMAIN statements |-> NetPay(statements[i])])]

\* build_export_zip.  A file is named for its employee; the month is the same.
Archive(snapshot) ==
  LET statements == StatementsFromSnapshot(snapshot)
  IN  [sheets |-> [i \in DOMAIN statements |-> Sheet(statements[i])],
       summary |-> Summary(statements),
       version |-> snapshot.version,
       manifest |-> [i \in DOMAIN statements |->
                       [employee |-> statements[i].employee, net |-> NetPay(statements[i])]]]
Exportable(snapshot) ==
  \A data \in ToSet(StatementsFromSnapshot(snapshot)) : ~TooLong(data)
=============================================================================
