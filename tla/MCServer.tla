------------------------------ MODULE MCServer ------------------------------
(* The network of each address; the length of a record.                    *)
EXTENDS Server, TLC

MCNetOf == [s \in Sources |-> Nets]

MCRecordBytes == [k \in Keys |-> 2]

\* No action reads the answer, and no invariant does: states that differ in it
\* alone are one.
MCView == <<now, gcAt, buckets, records, lists, peers>>

MCSymmetry == Permutations(Sources) \cup Permutations(Ids)
=============================================================================
