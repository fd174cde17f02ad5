--------------------------- MODULE MCHeapAllocator ---------------------------
(* A heap of 208 bytes with the 24-byte headers of a 64-bit build.  A      *)
(* request of 0 bytes is legal and takes a header, 20 is rounded up, 57 is *)
(* split off some blocks and takes others whole, 250 never fits.           *)
EXTENDS HeapAllocator
=============================================================================
