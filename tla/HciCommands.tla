---------------------------- MODULE HciCommands ----------------------------
(***************************************************************************)
(* The requests of the API (cc3000_general.c, cc3000_socket.c,             *)
(* cc3000_wlan.c, cc3000_netapp.c), one definition per function.  Every    *)
(* one of these functions does the same thing with different data: it      *)
(* increments cc3000_desired_state, announces a command with               *)
(* cc3000_hci_start_command, streams the arguments, ends the frame and     *)
(* calls cc3000_hci_expect.  The data is a record:                         *)
(*   cmd   the opcode of the command,                                      *)
(*   args  the argument length announced to the device (a uint8),          *)
(*   sent  the number of argument bytes streamed,                          *)
(*   evt   the opcode handed to cc3000_hci_expect.                         *)
(***************************************************************************)
EXTENDS HciOpcodes

-----------------------------------------------------------------------------
(* What the stream functions of cc3000_hci.c put on the wire, in bytes.    *)

cc3000_hci_send_uint32(n) == 4 * n      \* n calls
cc3000_hci_send_uint16(n) == 2 * n
cc3000_hci_send_uint8(n)  == n
cc3000_hci_send_stream(size) == size % 256

\* A command frame: args_length is a uint8 parameter.
cc3000_hci_command(opcode, args_length, sent, event) ==
    [cmd |-> opcode, args |-> args_length % 256, sent |-> sent, evt |-> event]

\* No command is outstanding.
NoRequest == cc3000_hci_command(0, 0, 0, 0)

-----------------------------------------------------------------------------
(* cc3000_general.c                                                        *)

\* The frame of cc3000_start, which the function clocks out byte by byte.
cc3000_start_command ==
    cc3000_hci_command(HCI_CMND_SIMPLE_LINK_START, 1, 1,
                       HCI_CMND_SIMPLE_LINK_START)

cc3000_general_req_buffer_size ==
    cc3000_hci_command(HCI_CMND_READ_BUFFER_SIZE, 0, 0,
                       HCI_CMND_READ_BUFFER_SIZE)

-----------------------------------------------------------------------------
(* cc3000_socket.c                                                         *)

cc3000_req_socket ==
    cc3000_hci_command(HCI_CMND_SOCKET, 3 * 4,
        cc3000_hci_send_uint32(3), HCI_CMND_SOCKET)

cc3000_connect ==
    cc3000_hci_command(HCI_CMND_CONNECT, 20,
        cc3000_hci_send_uint32(4) + cc3000_hci_send_uint16(2),
        HCI_CMND_CONNECT)

cc3000_req_accept ==
    cc3000_hci_command(HCI_CMND_ACCEPT, 4,
        cc3000_hci_send_uint32(1), HCI_CMND_ACCEPT)

cc3000_listen ==
    cc3000_hci_command(HCI_CMND_LISTEN, 8,
        cc3000_hci_send_uint32(2), HCI_CMND_LISTEN)

cc3000_bind ==
    cc3000_hci_command(HCI_CMND_BIND, 20,
        cc3000_hci_send_uint32(4) + cc3000_hci_send_uint16(2),
        HCI_CMND_BIND)

\* Only option values of two and of four bytes are streamed.
cc3000_setsockopt(optlen) ==
    cc3000_hci_command(HCI_CMND_SETSOCKOPT, 20 + optlen,
        cc3000_hci_send_uint32(5) +
            (IF optlen \in {2, 4} THEN optlen ELSE 0),
        HCI_CMND_SETSOCKOPT)

cc3000_req_select ==
    cc3000_hci_command(HCI_CMND_BSD_SELECT, 44,
        cc3000_hci_send_uint32(11), HCI_CMND_BSD_SELECT)

cc3000_req_recv ==
    cc3000_hci_command(HCI_CMND_RECV, 3 * 4,
        cc3000_hci_send_uint32(3), HCI_CMND_RECV)

\* The wait that cc3000_get_recv_bytes starts: it sends no command and
\* expects the data message.
RecvData == cc3000_hci_command(0, 0, 0, HCI_DATA_RECV)

cc3000_socket_close ==
    cc3000_hci_command(HCI_CMND_CLOSE_SOCKET, 4,
        cc3000_hci_send_uint32(1), HCI_CMND_CLOSE_SOCKET)

\* Refused with -1 when the name is longer than
\* MDNS_DEVICE_SERVICE_MAX_LENGTH: no frame is sent and nothing is expected.
\* The length is cut to a uint8 before it is compared.
MDNS_DEVICE_SERVICE_MAX_LENGTH == 32
cc3000_socket_mdns_advertise(name_length) ==
    LET service_name_length == name_length % 256
    IN  IF service_name_length > MDNS_DEVICE_SERVICE_MAX_LENGTH
        THEN NoRequest
        ELSE cc3000_hci_command(HCI_CMND_MDNS_ADVERTISE,
                 12 + service_name_length,
                 cc3000_hci_send_uint32(3)
                     + cc3000_hci_send_uint8(service_name_length),
                 HCI_CMND_MDNS_ADVERTISE)

-----------------------------------------------------------------------------
(* cc3000_netapp.c                                                         *)

cc3000_netapp_dhcp ==
    cc3000_hci_command(HCI_NETAPP_DHCP, 20,
        cc3000_hci_send_uint32(5), HCI_NETAPP_DHCP)

netapp_timeout_values ==
    cc3000_hci_command(HCI_NETAPP_SET_TIMERS, 16,
        cc3000_hci_send_uint32(4), HCI_NETAPP_SET_TIMERS)

-----------------------------------------------------------------------------
(* cc3000_wlan.c                                                           *)

cc3000_wlan_disconnect ==
    cc3000_hci_command(HCI_CMND_WLAN_DISCONNECT, 0, 0,
                       HCI_CMND_WLAN_DISCONNECT)

cc3000_wlan_get_status ==
    cc3000_hci_command(HCI_CMND_WLAN_IOCTL_STATUSGET, 0, 0,
                       HCI_CMND_WLAN_IOCTL_STATUSGET)

cc3000_wlan_set_scan_params ==
    cc3000_hci_command(HCI_CMND_WLAN_IOCTL_SET_SCANPARAM, 25 * 4,
        cc3000_hci_send_uint32(9) + 16 * cc3000_hci_send_uint32(1),
        HCI_CMND_WLAN_IOCTL_SET_SCANPARAM)

cc3000_wlan_connect(ssid_len, key_len) ==
    cc3000_hci_command(HCI_CMND_WLAN_CONNECT, 28 + ssid_len + key_len,
        cc3000_hci_send_uint32(5) + cc3000_hci_send_uint16(1)
            + 6 * cc3000_hci_send_uint8(1)
            + cc3000_hci_send_uint8(ssid_len) + cc3000_hci_send_uint8(key_len),
        HCI_CMND_WLAN_CONNECT)

cc3000_wlan_set_event_mask ==
    cc3000_hci_command(HCI_CMND_EVENT_MASK, 4,
        cc3000_hci_send_uint32(1), HCI_CMND_EVENT_MASK)

cc3000_wlan_set_connection_policy ==
    cc3000_hci_command(HCI_CMND_WLAN_IOCTL_SET_CONNECTION_POLICY, 3 * 4,
        cc3000_hci_send_uint32(3), HCI_CMND_WLAN_IOCTL_SET_CONNECTION_POLICY)

cc3000_wlan_req_scan_result ==
    cc3000_hci_command(HCI_CMND_WLAN_IOCTL_GET_SCAN_RESULTS, 4,
        cc3000_hci_send_uint32(1), HCI_CMND_WLAN_IOCTL_GET_SCAN_RESULTS)

\* cc3000_wlan_add_profile, one definition for each branch on the security
\* type.
ETH_ALEN == 6

add_profile_unsec(ulSsidLen) ==
    cc3000_hci_command(HCI_CMND_WLAN_IOCTL_ADD_PROFILE,
        14 + ETH_ALEN + ulSsidLen,
        cc3000_hci_send_uint32(3) + cc3000_hci_send_uint16(1)
            + cc3000_hci_send_stream(ETH_ALEN)
            + cc3000_hci_send_stream(ulSsidLen),
        HCI_CMND_WLAN_IOCTL_ADD_PROFILE)

add_profile_wep(ulSsidLen, ulTxKeyLen) ==
    cc3000_hci_command(HCI_CMND_WLAN_IOCTL_ADD_PROFILE,
        28 + ETH_ALEN + ulSsidLen + 4 * ulTxKeyLen,
        cc3000_hci_send_uint32(7) + cc3000_hci_send_stream(ETH_ALEN)
            + cc3000_hci_send_stream(ulSsidLen)
            + 4 * cc3000_hci_send_stream(ulTxKeyLen),
        HCI_CMND_WLAN_IOCTL_ADD_PROFILE)

add_profile_wpa(ulSsidLen, ulPassPhraseLen) ==
    cc3000_hci_command(HCI_CMND_WLAN_IOCTL_ADD_PROFILE,
        34 + ETH_ALEN + ulSsidLen + ulPassPhraseLen,
        cc3000_hci_send_uint32(8) + cc3000_hci_send_uint16(1)
            + cc3000_hci_send_stream(ETH_ALEN)
            + cc3000_hci_send_stream(ulSsidLen)
            + cc3000_hci_send_stream(ulPassPhraseLen),
        HCI_CMND_WLAN_IOCTL_ADD_PROFILE)

cc3000_wlan_del_profile ==
    cc3000_hci_command(HCI_CMND_WLAN_IOCTL_DEL_PROFILE, 4,
        cc3000_hci_send_uint32(1), HCI_CMND_WLAN_IOCTL_DEL_PROFILE)
=============================================================================
