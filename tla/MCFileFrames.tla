---------------------------- MODULE MCFileFrames ----------------------------
(***************************************************************************)
(* Small files for TLC.                                                    *)
(***************************************************************************)
EXTENDS FileFrames

(* Lines of two and of one byte, the last one unfinished; a line longer    *)
(* than a frame.                                                           *)
MCLineEnds == {{1, 3}, {0, 1, 2}, {2}}

(* A table without frames, with one, with two and with an empty one.       *)
MCTables == {<<>>, <<3>>, <<2, 4>>, <<2, 2, 3>>}
=============================================================================
