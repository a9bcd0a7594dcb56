------------------------------ MODULE MCCodecs ------------------------------
(* What is written is what is read, for TLC, at three levels: the bytes of  *)
(* BufferedLink, the values of ValueCodecs and the blocks of BlockStream;   *)
(* one of them in each behaviour.  The widths are scaled down: groups of 2  *)
(* bits in words of 5 (7 in 64, of which the last is cut as well), quads of *)
(* 2 bits, keys of 1, 2, 4 and 8.                                           *)
EXTENDS MCBlockStream, MCBufferedLink, ValueCodecs

\* Varints up to one group longer than the longest number needs.
Groups(n) == {g \in [1..n -> 0..2 * Base - 1] :
                g[n] < Base /\ \A i \in 1..n - 1: g[i] >= Base}

AllInputs ==
  [varint  |-> 0..WordSize - 1,
   groups  |-> UNION {Groups(n) : n \in 1..4},
   int128  |-> -(Quad^2)..Quad^2,
   uint128 |-> -(Quad^2)..2 * Quad^2,
   int256  |-> -(Quad^4)..Quad^4,
   uint256 |-> -1..Quad^4,
   fixed   |-> {[items |-> list, length |-> 2] : list \in UpTo(2, UpTo(3, {0, 1, 9}))},
   frames  |-> UpTo(2, {<<1>>, <<1, 2>>, <<1, 2, 3>>})]

NoValue == /\ codec = "none" /\ value = 0 /\ stream = <<>> /\ got = <<>>
           /\ state = "given"

\* A table that was sent without rows.
NoBlock == /\ job = [schema |-> 1, slicer |-> "external", size |-> 1, data |-> <<>>]
           /\ todo = <<>> /\ stage = "sent" /\ wire = <<>> /\ sizes = <<0>> /\ inserted = 0
           /\ result = [rows |-> <<>>, columns |-> <<>>] /\ lost = FALSE

\* Which of the three it is.
VARIABLE level

allVars == <<vars, valueVars, blockVars, level>>

CodecsInit ==
  /\ LinkInit
  /\ \/ level = "bytes" /\ NoValue /\ NoBlock
     \/ level = "values" /\ ValueInit /\ NoBlock
     \/ level = "blocks" /\ BlockInit /\ NoValue

CodecsNext ==
  /\ \/ level = "bytes" /\ LinkNext /\ UNCHANGED <<valueVars, blockVars>>
     \/ level = "values" /\ ValueNext /\ UNCHANGED <<vars, blockVars>>
     \/ level = "blocks" /\ BlockNext /\ UNCHANGED <<vars, valueVars>>
  /\ UNCHANGED level

\* As in LinkFairSpec; a link that is not used has no call to go on with.
CodecsSpec ==
  /\ CodecsInit /\ [][CodecsNext]_allVars
  /\ WF_vars(ReaderProceeds /\ UNCHANGED <<writerVars, linkVars>>)
=============================================================================
