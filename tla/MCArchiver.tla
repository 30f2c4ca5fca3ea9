----------------------------- MODULE MCArchiver ----------------------------
(***************************************************************************)
(* Instances of Archiver for TLC.                                          *)
(***************************************************************************)
EXTENDS Archiver

CONSTANTS id1, id2, garbage

TwoIDs == {id1, id2}
BothStores == {"mysql", "mongo"}
MySQLOnly == {"mysql"}
MongoOnly == {"mongo"}

IDSymmetry == Permutations(TwoIDs)
============================================================================
