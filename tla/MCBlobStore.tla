---------------------------- MODULE MCBlobStore ----------------------------
(* Two callers, two handles and two contents.  A lease granted at 0 is     *)
(* good at 0 and 1 and has run out at 2; one granted at 1 is good at 2.    *)
EXTENDS BlobStore

MCTTL     == 1
MCMaxTime == MCTTL + 2
=============================================================================
