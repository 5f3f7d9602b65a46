--------------------------- MODULE MCSharedMutex ----------------------------
(* One thread locks exclusively, the others make up the casts below: readers *)
(* with and without a token, contending owners, an owner in upgrade mode.    *)
(* Every call is timed, which includes what blocking and try calls do.       *)
EXTENDS SharedMutex, TLC

CONSTANTS t1, t2, t3, t4

Others == {t2, t3, t4}
With1(f) == [t \in Threads |-> IF t = t1 THEN {"E"} ELSE f[t]]
ThreeOf(a, b) == {With1(f) : f \in {g \in [Others -> {{}, a, b}] : {g[t] : t \in Others} = {{}, a, b}}}
MCPrograms ==
    [readerPriority : BOOLEAN, kinds : ThreeOf({"S"}, {"T"})]
      \cup [readerPriority : {TRUE}, kinds : ThreeOf({"U"}, {"S"})]
      \cup [readerPriority : {FALSE}, kinds : ThreeOf({"E"}, {"U"}) \cup {With1([t \in Others |-> {"S"}])}]
TokenPrograms == [readerPriority : {FALSE}, kinds : {With1([t \in Others |-> {"T"}])}]
Symmetry == Permutations(Others)
=============================================================================
