--------------------------- MODULE MCFileShardMap ---------------------------
(* Paths of the shard map file, relative to the working directory. *)
EXTENDS FileShardMap

InDirectory == <<"shardmaps", "three.json">>
Bare == <<"three.json">>
=============================================================================
