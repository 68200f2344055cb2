--------------------------- MODULE SourceExecution ---------------------------
(***************************************************************************)
(* The execution of one source transaction by the Harmony EVM, external to *)
(* this repository, as toolkit/scripts/forensics/cx-source-audit.py reads  *)
(* it back from a call trace.  A call of the cross-shard precompile debits *)
(* its sender and emits a receipt.  When an enclosing frame fails, the     *)
(* debit is undone with it, the receipt is not: that is the leak the audit *)
(* looks for.                                                              *)
(***************************************************************************)
EXTENDS Naturals, Sequences, FiniteSets, Functions

CONSTANTS
    User,           \* the account that signed the transaction
    Contract,       \* contracts it may run
    CallType,       \* CALL, CALLCODE, DELEGATECALL (STATICCALL acts like CALL)
    Amount,         \* amounts a receipt may carry
    MaxFrames,      \* bound: frames of the transaction
    MaxReceipts     \* bound: receipts it emits

ASSUME ExecutionAssumption ==
    /\ User \notin Contract /\ Contract # {}
    /\ {"CALL"} \subseteq CallType /\ CallType \subseteq {"CALL", "CALLCODE", "DELEGATECALL"}
    /\ Amount \subseteq Nat /\ MaxFrames \in Nat \ {0} /\ MaxReceipts \in Nat

VARIABLES
    frames,     \* calls of the transaction in the order they were entered
    stack,      \* frames that are still open, innermost first
    debits,     \* precompile calls whose debit stands
    emitted     \* precompile calls that emitted a receipt, in order

execVars == <<frames, stack, debits, emitted>>

Account == Contract \cup {User}

(* What a call runs as: CALL has a context of its own, CALLCODE keeps the     *)
(* caller's account, DELEGATECALL the caller's account and sender too.        *)
Enter(type, target) ==
    LET top == frames[stack[1]]
    IN  [parent |-> stack[1], type |-> type, from |-> top.self, err |-> FALSE,
         pre |-> FALSE, amount |-> 0,
         self |-> IF type = "CALL" THEN target ELSE top.self,
         sender |-> IF type = "DELEGATECALL" THEN top.sender ELSE top.self]

Root(target) ==
    [parent |-> 0, type |-> "CALL", from |-> User, err |-> FALSE, pre |-> FALSE,
     amount |-> 0, self |-> target, sender |-> User]

ExecInit ==
    /\ \E target \in Contract : frames = <<Root(target)>>
    /\ stack = <<1>>
    /\ debits = {}
    /\ emitted = <<>>

Call(type, target) ==
    /\ stack # <<>> /\ Len(frames) < MaxFrames
    /\ frames' = Append(frames, Enter(type, target))
    /\ stack' = <<Len(frames) + 1>> \o stack
    /\ UNCHANGED <<debits, emitted>>

(* The call of the precompile is rejected, or it completes. *)
CallPrecompile(type, amount) ==
    LET n == Len(frames) + 1
        call == [Enter(type, User) EXCEPT !.pre = TRUE, !.amount = amount]
    IN  /\ stack # <<>> /\ n <= MaxFrames
        /\ \/ /\ frames' = Append(frames, [call EXCEPT !.err = TRUE])
              /\ UNCHANGED <<debits, emitted>>
           \/ /\ Len(emitted) < MaxReceipts
              /\ frames' = Append(frames, call)
              /\ debits' = debits \cup {n}
              /\ emitted' = Append(emitted, n)
        /\ UNCHANGED stack

Return ==
    /\ stack # <<>>
    /\ stack' = Tail(stack)
    /\ UNCHANGED <<frames, debits, emitted>>

(* A failing frame undoes every debit made since it was entered. *)
Revert ==
    /\ stack # <<>>
    /\ frames' = [frames EXCEPT ![stack[1]].err = TRUE]
    /\ debits' = {d \in debits : d < stack[1]}
    /\ stack' = Tail(stack)
    /\ UNCHANGED emitted

ExecNext ==
    \/ \E type \in CallType, target \in Contract : Call(type, target)
    \/ \E type \in CallType, amount \in Amount : CallPrecompile(type, amount)
    \/ Return
    \/ Revert

Executed == stack = <<>>
=============================================================================
