---------------------------- MODULE MCPolledLoop ----------------------------
(***************************************************************************)
(* Instances of PolledLoop for TLC.                                        *)
(***************************************************************************)
EXTENDS PolledLoop

MCRequests == { cc3000_req_socket, cc3000_req_recv }
MCAllRequests == MCRequests \cup { cc3000_general_req_buffer_size }
MCOtherEvents == { HCI_EVNT_BSD_TCP_CLOSE_WAIT, HCI_EVNT_SEND }
MCNoEvents == { }
=============================================================================
