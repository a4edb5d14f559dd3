------------------------------- MODULE MCGcHeap -------------------------------
(* The large blocks of a small heap.                                        *)
EXTENDS GcHeap

CONSTANTS big
=============================================================================
