---------------------------- MODULE MCNonIssuance ---------------------------
EXTENDS NonIssuance

MCClaim == [w |-> 4, c |-> 3]
MCBalance == [w |-> 1, c |-> 1]
MCWone == [w |-> 1, c |-> 0]
MCQualification == [w |-> 5, c |-> 3]

(* A row of the whole claim of w, which overstates the claim of c, and one *)
(* the program rejects.                                                    *)
MCListedRows == {[amount |-> 4, claim |-> 4], [amount |-> 2, claim |-> 1]}

(* Two audits list the first receipt; the second also has one with a debit *)
(* and another receipt of the same transaction. The third one has nothing. *)
MCReceipt(n, to, amount) == [id |-> n, to |-> to, amount |-> amount]
MCRow(receipt, class) == [receipt |-> receipt, key |-> <<"tx", receipt.id, "">>, classification |-> class]
MCAudits ==
  <<<<MCRow(MCReceipt(1, "w", 1), "rollback_leak")>>,
    <<MCRow(MCReceipt(3, "w", 5), "source_debit_present"), MCRow(MCReceipt(1, "w", 1), "source_debit_absent"),
      MCRow(MCReceipt(2, "c", 1), "rollback_leak")>>,
    <<MCRow(MCReceipt(4, "c", 0), "rollback_leak")>>>>
MCAuditLists == {<<1, 2>>, <<2, 1>>, <<1, 3>>}
=============================================================================
