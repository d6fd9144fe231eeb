---------------------------- MODULE MCFileBlocks ----------------------------
EXTENDS FileBlocks

(* A cache of two buffers with files that need no indirect block, and one  *)
(* that holds the whole disk with a file of any shape beside a short one.  *)
MCMachines ==
    {[nbuf |-> 2, magic |-> XV6_MAGIC, mkfs |-> 1,
      longest |-> <<NDIRECT, NDIRECT>>, count |-> {1}],
     [nbuf |-> FSSIZE, magic |-> XV6_MAGIC, mkfs |-> NDIRECT + NINDIRECT + 2,
      longest |-> <<NDIRECT + NINDIRECT + 2, NDIRECT + 1>>, count |-> {2}]}

(* A small cache and files that need indirect blocks.                      *)
SmallCache ==
    {[nbuf |-> 4, magic |-> XV6_MAGIC, mkfs |-> NDIRECT + 1,
      longest |-> [f \in Files |-> NDIRECT + NINDIRECT], count |-> {1}]}

(* A disk that looks the same but for the magic number.                    *)
ForeignDisk == {[nbuf |-> 4, magic |-> 2, mkfs |-> 1,
                 longest |-> [f \in Files |-> NDIRECT], count |-> {1}]}

(* Two states differ only if the code can tell: in a cache that holds the  *)
(* whole disk nothing is evicted, so the place of a buffer and a buffer    *)
(* that equals its block make no difference, and what a block holds that   *)
(* no usable file names is overwritten before it is read again.            *)
Cached ==
    IF NBUF < FSSIZE THEN <<pool, next>>
    ELSE {b \in Range(pool) : b.valid /\ (b.dirty \/ b.data # disk[b.blockno])}

LiveDisk ==
    LET live == (0 .. nmeta - 1) \union
                  {At(p) : p \in Refs({f \in Files : Usable(f)})}
    IN  [b \in Blocks |-> IF b \in live THEN disk[b] ELSE ZeroBlock]

(* TypeOK comes first because it makes TLC evaluate the functions whole.   *)
View == <<TypeOK, machine, mounted, LiveDisk, ip, valid, content, why, stops, Cached>>
=============================================================================
