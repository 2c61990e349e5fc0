----------------------------- MODULE MCReaders ------------------------------
(* Small instances of Readers for TLC. *)
EXTENDS Readers

CONSTANTS t1, t2, c1, s1, s2, n1

(* One at a time: readers have only the saved offset in common, and that   *)
(* is a theorem's subject.                                                 *)
MCCrews == {{s1}, {s2}, {n1}}

MCTopicOf == [r \in Reader |-> t1]

MCConsumerOf == [r \in Reader |-> IF r = s1 THEN c1 ELSE NoConsumer]

=============================================================================
