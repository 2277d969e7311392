------------------------------- MODULE Startup -------------------------------
(***************************************************************************)
(* How the daemon comes up: main of src/daemon/owl.c, awdl_init of         *)
(* src/daemon/core.c, and what they call in src/daemon/io.c and, for       *)
(* Linux, src/daemon/netutils.c.  Every system call may fail; a failure    *)
(* that is reported ends the process without undoing the steps before.     *)
(***************************************************************************)
EXTENDS Integers

CONSTANT Options  \* ways to call the daemon

ASSUME OptionsAssumption == Options \subseteq [no_monitor: BOOLEAN, host: BOOLEAN]

VARIABLES
  options,    \* no_monitor: -N; host: a host device is wanted (-h is not empty)
  at,         \* the step that comes next, or "running" or "failed"
  netlink,    \* sockets that are open
  wlan,       \* the capture: "none", "file", "device", or "invalid" when wlan_fd < 0
  link,       \* the wireless interface was found and is up
  monitor,    \* the wireless interface was found and is in monitor mode
  address,    \* if_ether_addr is set
  host        \* host_fd: "unset" or "open"

startupVars == <<options, at, netlink, wlan, link, monitor, address, host>>

StartupInit ==
  /\ at = "main" /\ netlink = {} /\ wlan = "none"
  /\ options \in Options
  /\ link = FALSE /\ monitor = FALSE
  /\ address = FALSE /\ host = "unset"

Go(from, to) == at = from /\ at' = to

\* main gives up without an interface or with a channel other than 6, 44, 149.
Main ==
  /\ Go("main", "nlroute") \/ Go("main", "failed")
  /\ UNCHANGED <<options, netlink, wlan, link, monitor, address, host>>

\* nlroute_init and nl80211_init, which close their own socket if they fail
NetutilsInit ==
  \/ /\ Go("nlroute", "nl80211") /\ netlink' = netlink \cup {"route"}
     /\ UNCHANGED <<options, wlan, link, monitor, address, host>>
  \/ /\ Go("nl80211", "savefile") /\ netlink' = netlink \cup {"nl80211"}
     /\ UNCHANGED <<options, wlan, link, monitor, address, host>>
  \/ /\ at \in {"nlroute", "nl80211"} /\ at' = "failed"
     /\ UNCHANGED <<options, netlink, wlan, link, monitor, address, host>>

\* io_state_init_wlan_try_savefile: the name may be that of a recording.
TrySavefile ==
  \/ /\ Go("savefile", "host") /\ wlan' = "file"
     /\ UNCHANGED <<options, netlink, link, monitor, address, host>>
  \/ /\ Go("savefile", "ifindex")
     /\ UNCHANGED <<options, netlink, wlan, link, monitor, address, host>>

\* if_nametoindex finds the interface, in whatever state it is.
IfIndex ==
  \/ /\ Go("ifindex", "link_down") /\ link' \in BOOLEAN /\ monitor' \in BOOLEAN
     /\ UNCHANGED <<options, netlink, wlan, address, host>>
  \/ /\ Go("ifindex", "failed")
     /\ UNCHANGED <<options, netlink, wlan, link, monitor, address, host>>

\* link_updown: only a link that is not there is a failure.  Nobody looks at
\* the result of rtnl_link_change, so the link may stay as it is.
LinkUpDown(from, to, up) ==
  \/ /\ Go(from, to) /\ link' \in {link, up}
     /\ UNCHANGED <<options, netlink, wlan, monitor, address, host>>
  \/ /\ Go(from, "failed")
     /\ UNCHANGED <<options, netlink, wlan, link, monitor, address, host>>

\* set_monitor_mode is skipped with -N, without a look at the interface.
MutSetMonitorMode ==
  /\ Go("monitor", "link_up")
  /\ monitor' \in {monitor, TRUE}
  /\ UNCHANGED <<options, netlink, wlan, link, address, host>>

SetMonitorMode ==
  \/ /\ Go("monitor", "link_up") /\ monitor' = (monitor \/ ~options.no_monitor)
     /\ UNCHANGED <<options, netlink, wlan, link, address, host>>
  \/ /\ Go("monitor", "failed") /\ ~options.no_monitor
     /\ UNCHANGED <<options, netlink, wlan, link, monitor, address, host>>

\* open_nonblocking_device.  If it fails io_state_init_wlan returns the
\* result of link_up, which is no failure, without reading the address.
OpenDevice ==
  \/ /\ Go("open", "address") /\ wlan' = "device"
     /\ UNCHANGED <<options, netlink, link, monitor, address, host>>
  \/ /\ Go("open", "host") /\ wlan' = "invalid"
     /\ UNCHANGED <<options, netlink, link, monitor, address, host>>

\* link_ether_addr_get
EtherAddrGet ==
  \/ /\ Go("address", "host") /\ address' = TRUE
     /\ UNCHANGED <<options, netlink, wlan, link, monitor, host>>
  \/ /\ Go("address", "failed")
     /\ UNCHANGED <<options, netlink, wlan, link, monitor, address, host>>

\* open_tun: every step on the way may fail, and closes the device again.
OpenTun ==
  \/ /\ Go("host", "host_index") /\ options.host /\ host' = "open"
     /\ UNCHANGED <<options, netlink, wlan, link, monitor, address>>
  \/ /\ Go("host", "failed") /\ options.host
     /\ UNCHANGED <<options, netlink, wlan, link, monitor, address, host>>

\* io_state_init_host: no host device is wanted, or its index is looked up.
InitHost ==
  /\ \/ Go("host", "hostname") /\ ~options.host
     \/ Go("host_index", "hostname")
     \/ Go("host_index", "failed")
  /\ UNCHANGED <<options, netlink, wlan, link, monitor, address, host>>

\* get_hostname; then awdl_init_state does not fail, nor does awdl_schedule,
\* unless libev stops the process for a descriptor that is negative.
GetHostname ==
  /\ Go("hostname", "running") \/ Go("hostname", "failed")
  /\ UNCHANGED <<options, netlink, wlan, link, monitor, address, host>>

StartupNext ==
  \/ Main \/ NetutilsInit \/ TrySavefile \/ IfIndex
  \/ LinkUpDown("link_down", "monitor", FALSE)
  \/ SetMonitorMode
  \/ LinkUpDown("link_up", "open", TRUE)
  \/ OpenDevice \/ EtherAddrGet \/ OpenTun \/ InitHost \/ GetHostname

-----------------------------------------------------------------------------
(***************************************************************************)
(* A daemon that runs has its netlink sockets and the host device it was   *)
(* asked for.  On a device that it could open it knows the address, and    *)
(* has put the device in monitor mode unless -N said not to.  Three things *)
(* may be wrong all the same, as nothing reports them: the capture is not  *)
(* open, the link is not up, the device of -N is not in monitor mode.      *)
(***************************************************************************)
RunsOnlyPrepared ==
  at = "running" =>
    /\ netlink = {"route", "nl80211"}
    /\ wlan \in {"file", "device", "invalid"}
    /\ wlan = "device" => address /\ (options.no_monitor \/ monitor)
    /\ wlan # "device" => ~address
    /\ options.host <=> host = "open"

=============================================================================
