--------------------------- MODULE MCReceivePath ---------------------------
(***************************************************************************)
(* The commands of every API function, over the lengths its arguments may  *)
(* have, and messages of the device around the boundaries of the receive   *)
(* buffer, for TLC.                                                        *)
(***************************************************************************)
EXTENDS ReceivePath

\* wlan.h: MAXIMAL_SSID_LENGTH; the keys of WEP have 5 or 13 bytes, the
\* passphrases of WPA 8 to 63.
SsidLengths == {1, 2, 31, 32}
WepKeyLengths == {5, 13}
PassPhraseLengths == {8, 9, 62, 63}

FixedCommands ==
    { cc3000_req_socket, cc3000_connect, cc3000_req_accept, cc3000_listen,
      cc3000_bind, cc3000_req_select, cc3000_req_recv, cc3000_socket_close,
      cc3000_netapp_dhcp, netapp_timeout_values, cc3000_wlan_disconnect,
      cc3000_wlan_get_status, cc3000_wlan_set_scan_params,
      cc3000_wlan_set_event_mask, cc3000_wlan_set_connection_policy,
      cc3000_wlan_req_scan_result, cc3000_wlan_del_profile }

\* The options of cc3000_setsockopt the function streams have 2 or 4 bytes.
MCCommands ==
    FixedCommands
    \cup { cc3000_setsockopt(n) : n \in {2, 4} }
    \cup { cc3000_socket_mdns_advertise(n) : n \in {1, 2, 31, 32} }
    \cup { cc3000_wlan_connect(s, k) :
             s \in SsidLengths, k \in {0} \cup WepKeyLengths
                                          \cup PassPhraseLengths }
    \cup { add_profile_unsec(s) : s \in SsidLengths }
    \cup { add_profile_wep(s, k) : s \in SsidLengths, k \in WepKeyLengths }
    \cup { add_profile_wpa(s, k) : s \in SsidLengths, k \in PassPhraseLengths }

MCSendLengths == {0, 1, 2, 255, 256, 257, 1459, 1460}

\* Answers that are collected, one that is not stored and an event.
MCEvents ==
    { EventMessage(HCI_CMND_BSD_SELECT, 16), EventMessage(HCI_CMND_ACCEPT, 20),
      EventMessage(HCI_CMND_SOCKET, 4), EventMessage(HCI_CMND_CLOSE_SOCKET, 0),
      EventMessage(HCI_CMND_READ_BUFFER_SIZE, 3),
      EventMessage(HCI_EVNT_BSD_TCP_CLOSE_WAIT, 4) }

\* With 16 bytes of arguments 216 are the most the copy has room for, and 229
\* fill the receive buffer.
MCRecvSizes == {0, 1, 100, 216, 217, 229}
MCRecvArgs == {3, 16}

MCShortRecv == {1, 229}
MCLongRecv == MCShortRecv \cup {230, 235, 240, 485, 1460}
MCOneLength == {16}
MCFewCommands == { cc3000_req_recv }
MCFewLengths == {1}
MCFewEvents == { EventMessage(HCI_CMND_SOCKET, 4) }
=============================================================================
