---------------------------- MODULE MCUdpIpClient ----------------------------
(***************************************************************************)
(* One read and two writes.  The limits of the code (3 losses, a window of *)
(* 4, 2 timeouts) are lowered so that three requests exceed them.          *)
(***************************************************************************)
EXTENDS UdpIpClient

CONSTANTS read1, write1, write2

MCRequests == {read1, write1, write2}
=============================================================================
