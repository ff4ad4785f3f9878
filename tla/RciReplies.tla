----------------------------- MODULE RciReplies -----------------------------
(***************************************************************************)
(* The replies of src/model/: every declaration as a table from its        *)
(* members, by their names on the wire, to their kinds.                    *)
(*                                                                         *)
(* A nested declaration is a reply of its own, "object" in its parent;     *)
(* flattened ones are merged.  Members no declaration names are ignored,   *)
(* save by Ipv6Routes, and left out.                                       *)
(***************************************************************************)
EXTENDS RciValues

Each(names, kind) == [name \in names |-> kind]

-----------------------------------------------------------------------------
(* src/model.rs *)

LinkState == Open({"up", "down"})
InterfaceState == Open({"up", "down"})
InterfaceLayerState == Open({"running", "pending", "disabled"})
InterfaceKind == Open({"Bridge", "Port", "GigabitEthernet", "Wifi", "UsbLte", "UsbQmi"})

InternetStatus ==
  Each({"enabled", "internet", "reliable", "gateway-accessible", "dns-accessible",
        "captive-accessible"}, Bool)
    @@ "checked" :> RouterDatetime

Interface ==
  Each({"id", "interface-name"}, Identifier)
    @@ "index" :> UInt(0, U64Max) @@ "type" :> InterfaceKind @@ "traits" :> TraitList
    @@ "link" :> LinkState @@ "admin-only" :> Bool @@ "summary" :> Struct
    @@ "description" :> Opt(Str) @@ "state" :> Opt(InterfaceState) @@ "mtu" :> Opt(Mtu)

Interfaces == "" :> MapOf                    \* "" is the reply itself
ShowInterfaceReply == "show" :> Struct
ShowInterfaceResult == "interface" :> Struct
InterfaceSummary == "layer" :> Struct
InterfaceLayerSummary ==
  "conf" :> InterfaceLayerState @@ Each({"link", "ctrl", "ipv4", "ipv6"}, Opt(InterfaceLayerState))

-----------------------------------------------------------------------------
(* src/model/mobile.rs *)

RadioAccessTechnology == Open({"2G", "3G", "4G", "4G+", "5G"})
MobileConnectionState == CaseBlind({"Initializing", "Connected"})
SimState == CaseBlind({"READY", "SIM PIN", "SIM PUK", "INVALID"})

MobileSignal ==
  "signal-level" :> Opt(SignalLevel)
    @@ Each({"rssi", "rsrp", "rsrq", "cinr"}, OptionalMeasurement(Finite))

ServingCellNarrow ==   \* Mutant: an eNodeB identifier of 16 bits
  "plmn" :> OptionalFromStr(Plmn)
    @@ Each({"sector-id", "enb-id"}, OptionalFromStr(TextUInt(65535)))
    @@ "tac" :> OptionalFromStr(TextUInt(U32Max))

ServingCell ==
  "plmn" :> OptionalFromStr(Plmn) @@ "sector-id" :> OptionalFromStr(TextUInt(65535))
    @@ Each({"enb-id", "tac"}, OptionalFromStr(TextUInt(U32Max)))

ComponentCarrier ==
  "active" :> Opt(Bool) @@ "mobile" :> OptionalFromStr(RadioAccessTechnology)
    @@ "band" :> OptionalFromStr(RadioBand)
    @@ Each({"earfcn", "dl-freq", "ul-freq"}, Opt(UInt(0, U64Max)))
    @@ "bandwidth" :> OptionalMeasurement(CarrierBandwidth)
    @@ "phy-cell-id" :> OptionalFromStr(TextUInt(65535))

MobileStatus ==
  Each({"plugged", "operator", "apn", "phone-number"}, Nonempty(Str))
    @@ "connection-state" :> OptionalFromStr(MobileConnectionState)
    @@ "sim" :> OptionalFromStr(SimState) @@ "pin-attempts" :> Opt(UInt(0, 255))
    @@ Each({"embedded", "roaming"}, Opt(Bool))
    @@ "imei" :> OptionalReported(Imei) @@ "imsi" :> OptionalReported(Imsi)
    @@ "iccid" :> OptionalReported(Iccid)
    @@ "temperature" :> OptionalMeasurement(Finite)
    @@ "carrier" :> Default(MapOf) @@ Each({"ati", "uim"}, Opt(LooseStruct))
    @@ MobileSignal @@ ServingCell @@ ComponentCarrier

LteModem == Each({"manufacturer", "model", "revision"}, Nonempty(Str))
LteSim == "spn" :> Nonempty(Str)

(* The flat declaration that is decoded in place of the two above it. *)
MobileInterfaceWire ==
  Each({"id", "interface-name"}, Identifier)
    @@ "index" :> UInt(0, U64Max) @@ "type" :> InterfaceKind @@ "traits" :> TraitList
    @@ "link" :> LinkState @@ "admin-only" :> Bool @@ "summary" :> Struct
    @@ "description" :> Opt(Str) @@ "state" :> Opt(InterfaceState) @@ "mtu" :> Opt(Mtu)
    @@ Each({"plugged", "operator", "apn", "phone-number"}, Nonempty(Str))
    @@ "connection-state" :> OptionalFromStr(MobileConnectionState)
    @@ "sim" :> OptionalFromStr(SimState) @@ "pin-attempts" :> Opt(UInt(0, 255))
    @@ Each({"embedded", "roaming", "active"}, Opt(Bool))
    @@ "imei" :> OptionalReported(Imei) @@ "imsi" :> OptionalReported(Imsi)
    @@ "iccid" :> OptionalReported(Iccid) @@ "signal-level" :> Opt(SignalLevel)
    @@ Each({"rssi", "rsrp", "rsrq", "cinr", "temperature"}, OptionalMeasurement(Finite))
    @@ "plmn" :> OptionalFromStr(Plmn)
    @@ Each({"enb-id", "tac"}, OptionalFromStr(TextUInt(U32Max)))
    @@ Each({"sector-id", "phy-cell-id"}, OptionalFromStr(TextUInt(65535)))
    @@ "mobile" :> OptionalFromStr(RadioAccessTechnology) @@ "band" :> OptionalFromStr(RadioBand)
    @@ Each({"earfcn", "dl-freq", "ul-freq"}, Opt(UInt(0, U64Max)))
    @@ "bandwidth" :> OptionalMeasurement(CarrierBandwidth)
    @@ "carrier" :> Default(MapOf) @@ Each({"ati", "uim"}, Opt(LooseStruct))

-----------------------------------------------------------------------------
(* src/model/system.rs, system_mode.rs, identification.rs, version.rs *)

System ==
  Each({"hostname", "domainname"}, Str) @@ "uptime" :> Uptime @@ "cpuload" :> CpuLoad
    @@ Each({"memtotal", "memfree"}, ByteCount) @@ Each({"conntotal", "connfree"}, UInt(0, U64Max))

SystemOperatingMode == Open({"router", "extender", "access-point", "adapter"})
SystemModeStatus ==
  Each({"active", "selected"}, SystemOperatingMode) @@ "supported" :> SupportedModes
    @@ Each({"hw_controlled", "hw_locked"}, Bool)

Identification ==
  Each({"servicetag", "serial", "cid"}, Identifier) @@ "mac" :> MacAddress @@ "hwid" :> HardwareId

Architecture == Open({"mips", "aarch64"})
FirmwareChannel == Open({"stable"})
HardwareType == Open({"router", "extender"})
Version ==
  Each({"title", "release", "manufacturer", "model"}, Str) @@ "arch" :> Architecture
    @@ "sandbox" :> Opt(FirmwareChannel) @@ "series" :> HardwareVendor
    @@ "hw_version" :> HardwareVersion @@ "hw_type" :> Opt(HardwareType)
    @@ "hw_id" :> HardwareId @@ "region" :> RegionCode @@ Each({"ndm", "ndw"}, Struct)
VersionBuild == Each({"exact", "cdate"}, Str)
VersionCapabilities == Each({"components", "features"}, Str)

-----------------------------------------------------------------------------
(* src/model/ip.rs, hotspot.rs, routing.rs *)

Whole(kind) == "" :> kind

IpArp == Whole(ListOf)
ArpState == Open({"INCOMPLETE", "REACHABLE", "STALE", "DELAY", "PROBE", "FAILED", "PERMANENT"})
ArpEntry ==
  "ip" :> IpAddr({4}) @@ "mac" :> MacAddress @@ "interface" :> Identifier
    @@ "name" :> Nonempty(Str) @@ "state" :> ArpState

IpDhcpBindings == "lease" :> ListOf
DhcpBindingMode == Open({"extender"})
DhcpBinding ==
  "ip" :> IpAddr({4}) @@ Each({"mac", "via"}, MacAddress)
    @@ Each({"hostname", "name"}, Nonempty(Str)) @@ "device" :> Opt(Identifier)
    @@ "mode" :> Opt(DhcpBindingMode) @@ "expires" :> LeaseExpiration

WifiMode == Open({"11b", "11g", "11n", "11ac", "11ax"})
WifiSecurity == Open({"open", "wpa2-psk", "wpa3-psk", "wpa2-wpa3-psk"})

(* The rates of deserialize_mbps and deserialize_kbps, and of the optional one *)
Kbps == DataRate(1000)
MbpsAsKbps == DataRate(1000)   \* Mutant
Mbps == DataRate(1000000)
OptionalMbps == Opt(DataRate(1000000))

IpHotspotHosts == "host" :> ListOf
HotspotAccess == Open({"permit", "deny"})
HotspotHost ==
  Each({"mac", "via"}, MacAddress) @@ "ip" :> UnspecifiedIsNone(4) @@ "ip6" :> Default(ListOf)
    @@ Each({"hostname", "name", "schedule", "policy", "ssid"}, Nonempty(Str))
    @@ Each({"interface", "dhcp"}, Opt(Struct)) @@ "registered" :> Bool
    @@ "access" :> HotspotAccess @@ "priority" :> UInt(0, 255) @@ "active" :> Default(Bool)
    @@ Each({"rxbytes", "txbytes"}, ByteCount) @@ "uptime" :> Uptime
    @@ Each({"first-seen", "last-seen"}, Opt(SecondsOf)) @@ "link" :> Opt(LinkState)
    @@ Each({"auto-negotiation", "duplex", "psm", "authenticated", "ebf"}, Opt(Bool))
    @@ "port" :> Opt(EitherUInt(255)) @@ Each({"speed", "txrate"}, OptionalMbps)
    @@ "ap" :> Opt(Identifier) @@ "ht" :> Opt(ChannelWidth) @@ "mode" :> Opt(WifiMode)
    @@ "gi" :> Opt(GuardInterval) @@ "rssi" :> OptionalMeasurement(Finite)
    @@ "mcs" :> Opt(McsIndex) @@ "txss" :> Opt(SpatialStreams)
    @@ "security" :> Opt(WifiSecurity) @@ "traffic-shape" :> Struct
InterfaceReference == "id" :> Identifier @@ Each({"name", "description"}, Str)
HotspotDhcp == "expires" :> LeaseExpiration
TrafficShapeMode == Open({"mac"})
TrafficShape ==
  Each({"rx", "tx"}, Kbps) @@ "mode" :> TrafficShapeMode @@ "schedule" :> Nonempty(Str)

IpRoutes == Whole(ListOf)
Ipv6Routes == "route6" :> Default(ListOf)
RouteProtocol == Open({"boot", "kernel", "static"})
RouteFlags == Str
Ipv4Route ==
  "destination" :> IpNet(4) @@ "gateway" :> UnspecifiedIsNone(4) @@ "interface" :> Identifier
    @@ "metric" :> UInt(0, U32Max) @@ "flags" :> RouteFlags @@ "proto" :> RouteProtocol
    @@ Each({"rejecting", "floating", "static"}, Bool)
Ipv6Route ==
  "destination" :> IpNet(6) @@ "gateway" :> UnspecifiedIsNone(6) @@ "interface" :> Identifier
    @@ "metric" :> UInt(0, U32Max) @@ "flags" :> RouteFlags @@ "proto" :> RouteProtocol
    @@ Each({"rejecting", "floating", "static"}, Bool)

-----------------------------------------------------------------------------
(* src/model/connectivity.rs *)

PingCheckProfiles == "pingcheck" :> Default(ListOf)
PingCheckMode == Open({"icmp", "connect"})
PingCheckStatus == Open({"pass", "fail", "not ready"})
PingCheckProfile ==
  "profile" :> Str @@ "host" :> Default(ListOf) @@ "port" :> Opt(UInt(1, 65535))
    @@ Each({"update-interval", "timeout"}, Opt(SecondsOf)) @@ "max-fails" :> Opt(UInt(0, U32Max))
    @@ "mode" :> Opt(PingCheckMode) @@ "interface" :> Default(MapOf)
PingCheckInterface ==
  "ignore-fail" :> Bool @@ Each({"successcount", "failcount"}, UInt(0, U64Max))
    @@ "status" :> PingCheckStatus @@ "ipcache" :> Default(ListOf)
PingCheckCacheEntry == "host" :> NetworkHost @@ "addresses" :> ListOf

OptionalIdentifier == Nonempty(Identifier)   \* optional_interface_id
IpNameServers == "server" :> Default(ListOf)
IpNameServer ==
  "address" :> IpAddr({4, 6}) @@ Each({"domain", "service"}, Nonempty(Str))
    @@ "global" :> OptionalNonzero @@ "interface" :> OptionalIdentifier
NtpStatus ==
  "elapsed" :> SecondsOf @@ "server" :> NetworkHost
    @@ Each({"accurate", "synchronized", "ndsstime", "usertime"}, Bool)

-----------------------------------------------------------------------------
(* src/model/wifi.rs, mesh.rs *)

Associations == "station" :> ListOf
WifiPeerLink ==
  "ap" :> Identifier @@ "authenticated" :> Bool @@ "txrate" :> Mbps @@ "uptime" :> Uptime
    @@ "ht" :> ChannelWidth @@ "mode" :> WifiMode @@ "gi" :> GuardInterval
    @@ "rssi" :> Measurement(Finite) @@ "mcs" :> McsIndex @@ "txss" :> SpatialStreams
    @@ "security" :> WifiSecurity
Association ==
  "mac" :> MacAddress @@ WifiPeerLink @@ Each({"txbytes", "rxbytes"}, ByteCount)
    @@ Each({"psm", "ebf", "dl-mu", "ul-mu", "dl-ofdma", "ul-ofdma"}, Opt(Bool))

MwsStatus == "auto-update" :> Bool @@ "controller" :> Struct
MwsControllerStatus == "update-pending" :> Bool
MwsMembers == Whole(Accepting({List, EmptyObject}, {List, EmptyObject}))
MwsMember ==
  Each({"cid", "model"}, Str) @@ "mac" :> MacAddress @@ "ip" :> IpAddr({4})
    @@ Each({"known-host", "fw", "fw-available", "fw-release", "fw-release-available"}, Nonempty(Str))
    @@ "port" :> Default(ListOf) @@ "wireless" :> Opt(LooseStruct) @@ "mode" :> SystemOperatingMode
    @@ "hw_type" :> Opt(HardwareType) @@ "hw_id" :> Opt(Reported(HardwareId))
    @@ "fw-update-sandbox" :> Opt(FirmwareChannel) @@ "region" :> Opt(Reported(RegionCode))
    @@ "associations" :> Opt(UInt(0, U32Max)) @@ "internet-available" :> Opt(Bool)
    @@ Each({"system", "backhaul", "rci"}, Opt(Struct))
MwsPort == "label" :> Str @@ "appearance" :> Nonempty(Str) @@ "link" :> LinkState
MwsWireless == "band" :> Default(ListOf)
MwsBand == "index" :> EitherUInt(255)
MwsMemberSystem == "cpuload" :> CpuLoad @@ "memory" :> MwsMemoryUsage @@ "uptime" :> Uptime
MwsBackhaul ==
  "uplink" :> Identifier @@ Each({"root", "bridge"}, Str) @@ "cost" :> UInt(0, U32Max)
    @@ WifiPeerLink @@ Each({"psm", "mld", "ebf", "dl-mu", "ul-mu", "dl-ofdma", "pmf"}, Bool)
MwsRciStatus == "errors" :> UInt(0, U64Max)

-----------------------------------------------------------------------------
(* src/model/storage.rs, interface_stat.rs *)

UsbSubsystem == Open({"network", "storage", "printer"})
UsbVersion == Open({"1.00", "1.10", "2.00", "2.01", "3.00", "3.10", "3.20"})
UsbPowerControl == Open({"yes", "no"})
UsbDevices == "device" :> Default(MapOf)
UsbDevice ==
  Each({"DEVICE", "DEVPATH", "alias"}, Opt(Str)) @@ "label" :> Nonempty(Str)
    @@ "no-led" :> Default(PresenceMarker) @@ "port" :> Opt(EitherUInt(255))
    @@ "power-control" :> Opt(UsbPowerControl) @@ "subsystem" :> UsbSubsystem
    @@ "usb-version" :> Opt(UsbVersion)

MediaBus == Open({"usb", "mtd"})
MediaState == Open({"ACTIVE", "MOUNTED", "UNMOUNTED", "ERROR"})
FileSystemType == Open({"ext4", "ntfs", "fat32", "exfat", "ubifs", "swap"})
VolumeId == Nonempty(Identifier)   \* deserialize_optional_volume_id
MediaInventory == Whole(MapOf)
MediaDevice ==
  "bus" :> Opt(MediaBus) @@ "port" :> Opt(EitherUInt(255))
    @@ Each({"ejectable", "removable"}, Opt(Bool)) @@ "state" :> MediaState
    @@ Each({"manufacturer", "product", "serial"}, Nonempty(Str))
    @@ "initialize-supported" :> Default(ListOf) @@ "size" :> EitherUInt(U64Max)
    @@ "partition" :> Default(MapOf)
MediaPartition ==
  "id" :> Opt(Identifier) @@ "uuid" :> VolumeId @@ "label" :> Nonempty(Str)
    @@ "fstype" :> FileSystemType @@ "check-supported" :> Opt(Bool)
    @@ Each({"format-supported", "used-by"}, Default(ListOf)) @@ "state" :> MediaState
    @@ Each({"total", "free"}, EitherUInt(U64Max))

InterfaceStat ==
  Each({"rxpackets", "rx-multicast-packets", "rx-broadcast-packets", "rxerrors", "rxdropped",
        "txpackets", "tx-multicast-packets", "tx-broadcast-packets", "txerrors", "txdropped"},
       UInt(0, U64Max))
    @@ Each({"rxbytes", "txbytes"}, ByteCount)
    @@ Each({"timestamp", "last-overflow"}, DecimalDuration)
    @@ Each({"rxspeed", "txspeed"}, Opt(DataRate(1)))

-----------------------------------------------------------------------------
(* The replies and the declarations nested in them *)

MobileInterface == MobileInterfaceWire

Declarations ==
  [InternetStatus |-> InternetStatus, Interfaces |-> Interfaces, Interface |-> Interface,
   ShowInterfaceReply |-> ShowInterfaceReply, ShowInterfaceResult |-> ShowInterfaceResult,
   InterfaceSummary |-> InterfaceSummary,
   InterfaceLayerSummary |-> InterfaceLayerSummary, MobileInterface |-> MobileInterface,
   MobileStatus |-> MobileStatus, MobileSignal |-> MobileSignal, ServingCell |-> ServingCell,
   ComponentCarrier |-> ComponentCarrier, LteModem |-> LteModem, LteSim |-> LteSim,
   System |-> System, SystemModeStatus |-> SystemModeStatus, Identification |-> Identification,
   Version |-> Version, VersionBuild |-> VersionBuild, VersionCapabilities |-> VersionCapabilities,
   IpArp |-> IpArp, ArpEntry |-> ArpEntry, IpDhcpBindings |-> IpDhcpBindings,
   DhcpBinding |-> DhcpBinding, IpHotspotHosts |-> IpHotspotHosts, HotspotHost |-> HotspotHost,
   InterfaceReference |-> InterfaceReference, HotspotDhcp |-> HotspotDhcp,
   TrafficShape |-> TrafficShape, IpRoutes |-> IpRoutes, Ipv6Routes |-> Ipv6Routes,
   Ipv4Route |-> Ipv4Route, Ipv6Route |-> Ipv6Route, PingCheckProfiles |-> PingCheckProfiles,
   PingCheckProfile |-> PingCheckProfile, PingCheckInterface |-> PingCheckInterface,
   PingCheckCacheEntry |-> PingCheckCacheEntry, IpNameServers |-> IpNameServers,
   IpNameServer |-> IpNameServer, NtpStatus |-> NtpStatus, Associations |-> Associations,
   Association |-> Association, MwsStatus |-> MwsStatus,
   MwsControllerStatus |-> MwsControllerStatus, MwsMembers |-> MwsMembers,
   MwsMember |-> MwsMember, MwsPort |-> MwsPort, MwsWireless |-> MwsWireless,
   MwsBand |-> MwsBand, MwsMemberSystem |-> MwsMemberSystem, MwsBackhaul |-> MwsBackhaul,
   MwsRciStatus |-> MwsRciStatus, UsbDevices |-> UsbDevices, UsbDevice |-> UsbDevice,
   MediaInventory |-> MediaInventory, MediaDevice |-> MediaDevice,
   MediaPartition |-> MediaPartition, InterfaceStat |-> InterfaceStat]
=============================================================================
