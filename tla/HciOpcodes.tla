---------------------------- MODULE HciOpcodes ----------------------------
(***************************************************************************)
(* The message types and opcodes of cc3000_hci.h and                       *)
(* cc3000_event_handler.h that the host's code names, with their values:   *)
(* the event handler tells messages apart by two bits of the opcode, so    *)
(* the numbers matter.                                                     *)
(***************************************************************************)
EXTENDS Naturals

-----------------------------------------------------------------------------
(* Message types: the first byte of every message.                         *)

HCI_TYPE_DATA    == 2
HCI_TYPE_EVENT   == 4

-----------------------------------------------------------------------------
(* Commands of the host.  An event that answers a command has its opcode.  *)

HCI_CMND_WLAN_CONNECT                        == 1
HCI_CMND_WLAN_DISCONNECT                     == 2
HCI_CMND_WLAN_IOCTL_SET_SCANPARAM            == 3
HCI_CMND_WLAN_IOCTL_SET_CONNECTION_POLICY    == 4
HCI_CMND_WLAN_IOCTL_ADD_PROFILE              == 5
HCI_CMND_WLAN_IOCTL_DEL_PROFILE              == 6
HCI_CMND_WLAN_IOCTL_GET_SCAN_RESULTS         == 7
HCI_CMND_EVENT_MASK                          == 8
HCI_CMND_WLAN_IOCTL_STATUSGET                == 9
HCI_CMND_WLAN_IOCTL_SIMPLE_CONFIG_START      == 10
HCI_CMND_WLAN_IOCTL_SIMPLE_CONFIG_STOP       == 11
HCI_CMND_WLAN_IOCTL_SIMPLE_CONFIG_SET_PREFIX == 12
HCI_CMND_WLAN_CONFIGURE_PATCH                == 13

HCI_CMND_SOCKET_BASE    == 4096
HCI_CMND_SOCKET         == HCI_CMND_SOCKET_BASE + 1
HCI_CMND_BIND           == HCI_CMND_SOCKET_BASE + 2
HCI_CMND_RECV           == HCI_CMND_SOCKET_BASE + 4
HCI_CMND_ACCEPT         == HCI_CMND_SOCKET_BASE + 5
HCI_CMND_LISTEN         == HCI_CMND_SOCKET_BASE + 6
HCI_CMND_CONNECT        == HCI_CMND_SOCKET_BASE + 7
HCI_CMND_BSD_SELECT     == HCI_CMND_SOCKET_BASE + 8
HCI_CMND_SETSOCKOPT     == HCI_CMND_SOCKET_BASE + 9
HCI_CMND_GETSOCKOPT     == HCI_CMND_SOCKET_BASE + 10
HCI_CMND_CLOSE_SOCKET   == HCI_CMND_SOCKET_BASE + 11
HCI_CMND_RECVFROM       == HCI_CMND_SOCKET_BASE + 13
HCI_CMND_GETHOSTNAME    == HCI_CMND_SOCKET_BASE + 16
HCI_CMND_MDNS_ADVERTISE == HCI_CMND_SOCKET_BASE + 17

HCI_DATA_BASE == 128
HCI_DATA_RECV == HCI_DATA_BASE + 5

HCI_CMND_NVMEM_READ         == 513
HCI_EVNT_NVMEM_WRITE        == 514
HCI_CMND_NVMEM_CREATE_ENTRY == 515
HCI_CMND_NVMEM_WRITE_PATCH  == 516
HCI_CMND_READ_SP_VERSION    == 519

\* 0x400B and 0x4000: both have the bit HCI_EVNT_UNSOL_BASE.
HCI_CMND_READ_BUFFER_SIZE  == 16395
HCI_CMND_SIMPLE_LINK_START == 16384

HCI_CMND_NETAPP_BASE       == 8192
HCI_NETAPP_DHCP            == HCI_CMND_NETAPP_BASE + 1
HCI_NETAPP_PING_SEND       == HCI_CMND_NETAPP_BASE + 2
HCI_NETAPP_PING_REPORT     == HCI_CMND_NETAPP_BASE + 3
HCI_NETAPP_PING_STOP       == HCI_CMND_NETAPP_BASE + 4
HCI_NETAPP_IPCONFIG        == HCI_CMND_NETAPP_BASE + 5
HCI_NETAPP_ARP_FLUSH       == HCI_CMND_NETAPP_BASE + 6
HCI_NETAPP_SET_DEBUG_LEVEL == HCI_CMND_NETAPP_BASE + 8
HCI_NETAPP_SET_TIMERS      == HCI_CMND_NETAPP_BASE + 9

-----------------------------------------------------------------------------
(* Events the device raises on its own.                                    *)

HCI_EVNT_SEND   == HCI_CMND_SOCKET_BASE + 3
HCI_EVNT_SENDTO == HCI_CMND_SOCKET_BASE + 15

HCI_EVNT_UNSOL_BASE           == 16384
HCI_EVNT_DATA_UNSOL_FREE_BUFF == HCI_EVNT_UNSOL_BASE + 256

HCI_EVNT_WLAN_UNSOL_BASE       == 32768
HCI_EVNT_WLAN_UNSOL_CONNECT    == HCI_EVNT_WLAN_UNSOL_BASE + 1
HCI_EVNT_WLAN_UNSOL_DISCONNECT == HCI_EVNT_WLAN_UNSOL_BASE + 2
HCI_EVNT_WLAN_UNSOL_DHCP       == HCI_EVNT_WLAN_UNSOL_BASE + 16
HCI_EVNT_BSD_TCP_CLOSE_WAIT    == HCI_EVNT_WLAN_UNSOL_BASE + 2048

-----------------------------------------------------------------------------
(* How the event handler classifies the opcode of an event.                *)

\* opcode & bit, for a bit that is a power of two
HasBit(opcode, bit) == (opcode \div bit) % 2 = 1

IsUnsolicited(opcode) == HasBit(opcode, HCI_EVNT_UNSOL_BASE)

IsWlanEvent(opcode) ==
    ~ IsUnsolicited(opcode) /\ HasBit(opcode, HCI_EVNT_WLAN_UNSOL_BASE)

\* The case list of the branch of "normal events": what is copied into the
\* return buffer, if the branch is reached.
NormalEvents ==
    { HCI_CMND_READ_BUFFER_SIZE, HCI_CMND_WLAN_CONFIGURE_PATCH,
      HCI_NETAPP_DHCP, HCI_NETAPP_PING_SEND, HCI_NETAPP_PING_STOP,
      HCI_NETAPP_ARP_FLUSH, HCI_NETAPP_SET_DEBUG_LEVEL,
      HCI_NETAPP_SET_TIMERS, HCI_CMND_NVMEM_READ,
      HCI_CMND_NVMEM_CREATE_ENTRY, HCI_CMND_NVMEM_WRITE_PATCH,
      HCI_NETAPP_PING_REPORT, HCI_CMND_MDNS_ADVERTISE, HCI_CMND_SETSOCKOPT,
      HCI_CMND_WLAN_CONNECT, HCI_CMND_WLAN_IOCTL_STATUSGET,
      HCI_CMND_WLAN_IOCTL_ADD_PROFILE, HCI_CMND_WLAN_IOCTL_DEL_PROFILE,
      HCI_CMND_WLAN_IOCTL_SET_CONNECTION_POLICY,
      HCI_CMND_WLAN_IOCTL_SET_SCANPARAM,
      HCI_CMND_WLAN_IOCTL_SIMPLE_CONFIG_START,
      HCI_CMND_WLAN_IOCTL_SIMPLE_CONFIG_STOP,
      HCI_CMND_WLAN_IOCTL_SIMPLE_CONFIG_SET_PREFIX, HCI_CMND_EVENT_MASK,
      HCI_CMND_WLAN_DISCONNECT, HCI_CMND_SOCKET, HCI_CMND_BIND,
      HCI_CMND_LISTEN, HCI_CMND_CLOSE_SOCKET, HCI_CMND_CONNECT,
      HCI_EVNT_NVMEM_WRITE, HCI_CMND_READ_SP_VERSION, HCI_CMND_GETHOSTNAME,
      HCI_CMND_ACCEPT, HCI_CMND_RECV, HCI_CMND_RECVFROM, HCI_EVNT_SENDTO,
      HCI_CMND_BSD_SELECT, HCI_CMND_GETSOCKOPT,
      HCI_CMND_WLAN_IOCTL_GET_SCAN_RESULTS, HCI_CMND_SIMPLE_LINK_START,
      HCI_NETAPP_IPCONFIG }
=============================================================================
