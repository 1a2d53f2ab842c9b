------------------------------ MODULE MCTailer ------------------------------
(* One log.  Three inodes, so that an inode can be used again. *)
EXTENDS Tailer
=============================================================================
