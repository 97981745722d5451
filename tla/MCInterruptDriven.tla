------------------------- MODULE MCInterruptDriven -------------------------
(***************************************************************************)
(* Instances of InterruptDriven for TLC.  One request of each kind the     *)
(* handler tells apart: an answer that is stored and only read back, one   *)
(* that is not stored (READ_BUFFER_SIZE), and a recv, which is followed by *)
(* data.                                                                   *)
(***************************************************************************)
EXTENDS InterruptDriven

MCRequests ==
    { cc3000_req_socket, cc3000_general_req_buffer_size, cc3000_req_recv }

\* A recv whose answer announces no data is answered as a request that is only
\* read back.
MCTwoRequests == { cc3000_general_req_buffer_size, cc3000_req_recv }

MCNoEvents == { }
=============================================================================
