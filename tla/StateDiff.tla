------------------------------ MODULE StateDiff -----------------------------
(***************************************************************************)
(* The difference of two states and its checks: historical-state-diff      *)
(* compares the account tries of two roots, verify-state-diff-rpc.py       *)
(* compares every row with the RPC of an archive node, in batches, and     *)
(* verify-created-accounts.py searches, for all created accounts at once,  *)
(* the block in which each appeared.                                       *)
(***************************************************************************)
EXTENDS Integers, FiniteSets, Functions

CONSTANTS Accounts, Old, New, \* the blocks the checks are told
          Values              \* the account values: balance and nonce, 0 and 0 too

ASSUME DiffAssumption ==
  /\ Old \in Nat /\ New \in Nat /\ Old < New /\ IsFiniteSet(Accounts)
  /\ Values \subseteq [balance : Nat, nonce : Nat]

Absent == [balance |-> -1, nonce |-> -1]  \* no entry in the trie
Blocks == Old..New

VARIABLES history,   \* the account tries of the archive, by block
          roots,     \* the blocks whose roots historical-state-diff was given
          rows,      \* its table
          unchecked, \* verify-state-diff-rpc: rows it has not reached
          verdict,   \* no table, a table, or what the check said of it
          net,       \* its net_delta_atto
          bounds,    \* verify-created-accounts: low and high of every account
          created    \* its output: the transition block of every account

diffVars == <<history, roots, rows, unchecked, verdict, net, bounds, created>>

Zero == [balance |-> 0, nonce |-> 0]

(* What RPC answers, and decodeAccount too: an absent account is a zero one. *)
At(a, b) == IF history[a][b] = Absent THEN Zero ELSE history[a][b]

Change(a, type) ==
  [account |-> a, type |-> type, old |-> At(a, roots[1]), new |-> At(a, roots[2])]

(* Leaves of one trie that are not, or not the same, in the other.         *)
Leaves(from, to) ==
  {a \in Accounts : history[a][to] # Absent /\ history[a][to] # history[a][from]}

Forward ==
  {Change(a, IF history[a][roots[1]] = Absent THEN "created" ELSE "changed")
     : a \in Leaves(roots[1], roots[2])}

(* Mutant: the second pass is left out.                                    *)
NoReversePass == {}

Reverse ==
  {Change(a, "deleted")
     : a \in {x \in Leaves(roots[2], roots[1]) : history[x][roots[2]] = Absent}}

historical_state_diff ==
  /\ verdict = "none"
  /\ rows' = Forward \cup Reverse
  /\ unchecked' = rows'
  /\ verdict' = "written"
  /\ UNCHANGED <<history, roots, net, bounds, created>>

Delta(row) == row.new.balance - row.old.balance

RowAgrees(row) == row.old = At(row.account, Old) /\ row.new = At(row.account, New)

(* One batch of rows: any of them, since none depends on another.          *)
VerifyBatch(batch) ==
  /\ verdict = "written" /\ (batch = {} => unchecked = {})
  /\ IF \A row \in batch : RowAgrees(row)
     THEN /\ unchecked' = unchecked \ batch
          /\ net' = net + SumFunctionOnSet([row \in batch |-> Delta(row)], batch)
          /\ verdict' = IF unchecked' = {} THEN "passed" ELSE "written"
     ELSE /\ verdict' = "failed"
          /\ UNCHANGED <<unchecked, net>>
  /\ UNCHANGED <<history, roots, rows, bounds, created>>

Created == {row \in rows : row.type = "created"}

Exists(a, b) == At(a, b) # Zero

StartSearch ==
  /\ verdict # "none" /\ bounds = <<>>
  /\ Created # {}  \* an empty table ends the program at its field names
  /\ bounds' = [a \in {row.account : row \in Created} |-> <<Old + 1, New>>]
  /\ UNCHANGED <<history, roots, rows, unchecked, verdict, net, created>>

Active == {a \in DOMAIN bounds : bounds[a][1] < bounds[a][2]}

(* Mutant: the middle is rounded up.                                       *)
MiddleUp(a) == bounds[a][1] + (bounds[a][2] - bounds[a][1] + 1) \div 2

Middle(a) == bounds[a][1] + (bounds[a][2] - bounds[a][1]) \div 2

(* Mutant: the block where the account was seen is excluded.               *)
NarrowBelow(a) ==
  IF Exists(a, Middle(a)) THEN <<bounds[a][1], Middle(a) - 1>> ELSE <<Middle(a) + 1, bounds[a][2]>>

Narrow(a) ==
  IF Exists(a, Middle(a)) THEN <<bounds[a][1], Middle(a)>> ELSE <<Middle(a) + 1, bounds[a][2]>>

(* One batch of calls for all accounts whose search has not ended.         *)
SearchRound ==
  /\ Active # {}
  /\ bounds' = [a \in DOMAIN bounds |-> IF a \in Active THEN Narrow(a) ELSE bounds[a]]
  /\ UNCHANGED <<history, roots, rows, unchecked, verdict, net, created>>

PublishCreated ==
  /\ bounds # <<>> /\ Active = {} /\ created = <<>>
  /\ created' = [a \in DOMAIN bounds |-> bounds[a][1]]
  /\ UNCHANGED <<history, roots, rows, unchecked, verdict, net, bounds>>

(* A batch, or a call for the evidence of a row, that fails six times ends *)
(* the program.                                                            *)
SearchFails ==
  /\ bounds # <<>> /\ created = <<>>
  /\ bounds' = <<>>
  /\ UNCHANGED <<history, roots, rows, unchecked, verdict, net, created>>

VerifyFails ==
  /\ verdict = "written"
  /\ verdict' = "failed"
  /\ UNCHANGED <<history, roots, rows, unchecked, net, bounds, created>>

DiffInit ==
  /\ history \in [Accounts -> [Blocks -> Values \cup {Absent}]]
  /\ roots \in {<<Old, New>>, <<Old + 1, New>>}
  /\ rows = {} /\ unchecked = {} /\ verdict = "none" /\ net = 0
  /\ bounds = <<>> /\ created = <<>>

DiffNext ==
  \/ historical_state_diff
  \/ \E batch \in SUBSET unchecked : VerifyBatch(batch)
  \/ StartSearch \/ SearchRound \/ PublishCreated \/ SearchFails \/ VerifyFails

DiffSpec == DiffInit /\ [][DiffNext]_diffVars

(* A started program runs on until it ends.                                *)
FairDiffSpec == DiffSpec /\ WF_diffVars(SearchRound) /\ WF_diffVars(PublishCreated)
-----------------------------------------------------------------------------
Total(b) == SumFunctionOnSet([a \in Accounts |-> At(a, b).balance], Accounts)

(* The types; a search never leaves the interval, nor crosses its bounds.  *)
DiffTypeOK ==
  /\ unchecked \subseteq rows
  /\ verdict \in {"none", "written", "passed", "failed"} /\ net \in Int
  /\ \A a \in DOMAIN bounds : bounds[a] \in Blocks \X Blocks /\ bounds[a][1] <= bounds[a][2]
  /\ DOMAIN created \subseteq Accounts

(* A passed check of the difference of the two roots gives the change of   *)
(* the whole balance, deleted and re-created accounts included.            *)
(* The types hold as well.                                                 *)
NetDeltaExact ==
  /\ DiffTypeOK
  /\ verdict = "passed" /\ roots = <<Old, New>> => net = Total(New) - Total(Old)

(* Every transition block is one in which its account came into being,     *)
(* even if the account was emptied and funded again in between, provided   *)
(* the new state is not empty.                                             *)
TransitionExact ==
  \A a \in DOMAIN created :
    Exists(a, New) /\ ~Exists(a, Old)
      => Exists(a, created[a]) /\ ~Exists(a, created[a] - 1)

(* A search that was started ends, with its table or with an error.        *)
SearchEnds == bounds # <<>> ~> (created # <<>> \/ bounds = <<>>)

=============================================================================
