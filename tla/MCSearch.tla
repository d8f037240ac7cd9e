------------------------------ MODULE MCSearch ------------------------------
(***************************************************************************)
(* The search for TLC, three subjects in one run: the trial of a nonce     *)
(* (PowTrial), dot products (FieldDot), and the split of a range over the  *)
(* devices (WorkSplit).  The subjects share no state; what is not the      *)
(* subject stays as it begins.                                             *)
(***************************************************************************)
EXTENDS MCPowTrial, FieldDot, WorkSplit

VARIABLE subject

MCSamples == {0, 1, Modulus \div 2, Modulus - 2, Modulus - 1}

Memory == {2, 5, 9, 14, 22, 37, 54}
FreeOf(f, g, h) == [d \in 0 .. 2 |-> CASE d = 0 -> f [] d = 1 -> g [] d = 2 -> h]
Rig(requested, forceCpu, freeAtStart, free, global, perDevice, epsilon, legacy) ==
    [usable |-> <<0, 1, 2>>, requested |-> requested, forceCpu |-> forceCpu,
     freeAtStart |-> freeAtStart, free |-> free,
     total |-> [d \in 0 .. 2 |-> IF d = 1 THEN "large" ELSE "small"],
     global |-> global, perDevice |-> perDevice, epsilon |-> epsilon,
     legacy |-> legacy]
\* Automatic batches for all devices, of which one loses memory to the pools.
AutoRigs ==
    {Rig(<<>>, FALSE, FreeOf(f, g, 37), FreeOf(f, h, 37), 0, <<>>, e, l) :
        f, g \in Memory, h \in {5, 22}, e \in {0, 1, 3}, l \in BOOLEAN}
\* Two devices in another order, one, one that is absent; requested batches,
\* the largest of which overflows the recommended chunk.
RequestedRigs ==
    {Rig(q, FALSE, FreeOf(20, f, 45), FreeOf(20, f, 45), s, p, 1, FALSE) :
        q \in {<<>>, <<2, 1>>, <<1>>, <<1, 7>>, <<7>>}, f \in {5, 14, 54},
        s \in {-1, 0, 3, 12}, p \in {<<>>, <<0>>, <<2, 0>>}}
CpuRig == Rig(<<>>, TRUE, FreeOf(2, 2, 2), FreeOf(2, 2, 2), 0, <<>>, 0, FALSE)
MCRigs ==
    {r \in AutoRigs \cup RequestedRigs : \A d \in 0 .. 2 : r.free[d] <= r.freeAtStart[d]}
    \cup {CpuRig}
MCCapOf == [small |-> 5, large |-> 9]
MostNonces == 9
MCRanges == [start : {3}, count : 1 .. MostNonces]
MCWinners == {3, 4, 5, 7, 8, 11}

NoTrial ==
    /\ \E t \in {CHOOSE t \in TestTrials : TRUE} : job = StratumJobToPowJob(t.job) /\ draw = t.draw
    /\ cpu = NotTried /\ gpu = NotTried
NoSplit ==
    /\ rig = CpuRig /\ range = [start |-> 3, count |-> 1]
    /\ workers = <<>> /\ merged = {}

MCInit ==
    \/ subject = "trial" /\ PowInit /\ DotInit /\ NoSplit
    \/ subject = "dot" /\ NoTrial /\ DotInit /\ NoSplit
    \/ subject = "split" /\ NoTrial /\ DotInit /\ SplitInit

\* Calls of the recommended size are dispatched, but not carried out.
CarriedOut == range.count <= MostNonces \/ workers = <<>>

MCNext ==
    \/ subject = "trial" /\ PowNext /\ UNCHANGED <<dotVars, splitVars, subject>>
    \/ subject = "dot" /\ Accumulate /\ UNCHANGED <<powVars, splitVars, subject>>
    \/ subject = "split" /\ CarriedOut /\ SplitNext /\ UNCHANGED <<powVars, dotVars, subject>>

MCSpec == MCInit /\ [][MCNext]_<<powVars, dotVars, splitVars, subject>>
=============================================================================
