------------------------------ MODULE MCMemory ------------------------------
(***************************************************************************)
(* Two size classes of kore_malloc, each twice the one below it and with   *)
(* one element at the start, so that both pools and the C library serve.   *)
(***************************************************************************)
EXTENDS Memory

MCBlockSize == [c \in Class |-> 2 * 2 ^ c]
MCPrealloc == [c \in Class |-> 1]
=============================================================================
