--------------------------- MODULE ExecutionLedger ---------------------------
(***************************************************************************)
(* What the GCEI pipeline promises the execution layer: one chain.  Blocks *)
(* are executed one after the other without a gap, each on top of the one  *)
(* executed before it, the epoch moving on exactly after the block that    *)
(* changed it; and a prefix of that chain, growing block by block, is      *)
(* committed.                                                              *)
(***************************************************************************)
EXTENDS Integers, Sequences

CONSTANT GenesisId

VARIABLES executed,     \* sequence of [epoch, num, id, parent, reconfig]
          committed     \* length of its committed prefix

ledgerVars == <<executed, committed>>

Init == executed = <<>> /\ committed = 0

(* May b be executed on top of the chain c? *)
Extends(b, c) ==
    /\ b.num = Len(c) + 1
    /\ IF c = <<>>
       THEN b.epoch = 1 /\ b.parent = GenesisId
       ELSE LET last == c[Len(c)]
            IN  /\ b.parent = last.id
                /\ b.epoch = IF last.reconfig THEN last.epoch + 1 ELSE last.epoch

Execute ==
    /\ Len(executed') = Len(executed) + 1
    /\ executed' = Append(executed, executed'[Len(executed')])
    /\ Extends(executed'[Len(executed')], executed)
    /\ UNCHANGED committed

Commit ==
    /\ committed < committed' /\ committed' <= Len(executed)
    /\ UNCHANGED executed

Next == Execute \/ Commit

Spec == Init /\ [][Next]_ledgerVars
=============================================================================
