---------------------------- MODULE MCFileSystem ----------------------------
(* Three names, sectors of two bytes, and writes of one byte and three.      *)
EXTENDS FileSystem

CONSTANTS fa, fb, fc, byte

ShortAndLong == {<<byte>>, <<byte, byte, byte>>}
=============================================================================
