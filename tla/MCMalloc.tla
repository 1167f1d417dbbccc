------------------------------ MODULE MCMalloc ------------------------------
(* Malloc on a heap with room for up to five blocks, and on one too small.  *)
EXTENDS Malloc

MCStackTop  == 64
(* 24 leaves no room for a header. *)
MCHeapSizes == {24, 224}
(* 0 is refused, 20 is rounded up, and 188 to 192, which with its header is *)
(* the whole heap; 193 never fits.                                          *)
MCRequests  == {0, 8, 20, 48, 188, 193}

=============================================================================
