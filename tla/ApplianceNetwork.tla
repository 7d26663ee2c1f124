-------------------------- MODULE ApplianceNetwork --------------------------
(* The network settings each appliance leaves the factory with:            *)
(* appliance-network-config.js of the hardware packages, as the rules and  *)
(* the interfaces they hold.  The three Caswell boxes q8, q8w and w8 share *)
(* one file, so do the four cloud images; the two Linksys boxes differ in  *)
(* wireless channels and names only.  Qos, UPnP mappings, bypass rules and *)
(* the texts of the file are left out.                                     *)
EXTENDS Integers, Sequences, SequencesExt

-----------------------------------------------------------------------------
(* Access rules.  A rule without a condition on a field has the empty set  *)
(* there; `allow everything that...` is Allow, the last rule is BlockAll.  *)

Allow(ports, protocols, source) ==
  [ports |-> ports, protocols |-> protocols, source |-> source,
   enabled |-> TRUE, ipv6Enabled |-> TRUE, blocked |-> FALSE]

Off(rule) == [rule EXCEPT !.enabled = FALSE, !.ipv6Enabled = FALSE]
V4(rule)  == [rule EXCEPT !.ipv6Enabled = FALSE]

SSH       == Allow({22}, {"TCP"}, "any")
HTTPSWan  == Allow({443}, {"TCP"}, "wan")
HTTPS     == Allow({443}, {"TCP"}, "non_wan")
RADIUSWan == Allow({1812, 1813}, {"UDP"}, "wan")
RADIUS    == Allow({1812, 1813}, {"UDP"}, "non_wan")
PING      == Allow({}, {"ICMP"}, "any")
DNS       == Allow({53}, {"TCP", "UDP"}, "non_wan")
DHCP      == Allow({67}, {"UDP"}, "non_wan")
HTTP_any  == Allow({80}, {"TCP"}, "any")   \* a bug for a mutant
HTTP      == Allow({80}, {"TCP"}, "non_wan")
SNMP      == Allow({161}, {"UDP"}, "non_wan")
UPnP      == Allow({1900}, {"UDP"}, "non_wan")
UPnPTcp   == Allow({5000}, {"TCP"}, "non_wan")
UPnPPmp   == Allow({5351}, {"UDP"}, "non_wan")
BGP       == Allow({179}, {"TCP"}, "any")
OSPF      == Allow({}, {"OSPF"}, "any")
IPsec     == Allow({}, {"AH", "ESP"}, "any")
IKE       == Allow({500}, {"UDP"}, "any")
NATT      == Allow({4500}, {"UDP"}, "any")
L2TP      == Allow({1701}, {"UDP"}, "any")
OpenVPN   == Allow({1194}, {"UDP"}, "wan")
WireGuard == Allow({51820}, {"UDP"}, "wan")
BlockAll  == [Allow({}, {}, "any") EXCEPT !.blocked = TRUE]

CaswellRules ==
  <<Off(SSH), Off(HTTPSWan), HTTPS, Off(RADIUSWan), RADIUS, PING, DNS, DHCP,
    HTTP, SNMP, UPnP, UPnPTcp, UPnPPmp, BGP, OSPF, IPsec, IKE, NATT, L2TP,
    OpenVPN, WireGuard, BlockAll>>

CloudAdmin    == <<V4(SSH), V4(HTTPSWan), HTTPS, PING>>
CloudServices == <<DNS, DHCP, HTTP, SNMP>>
CloudUPnP     == <<UPnP, UPnPTcp, UPnPPmp, IPsec>>
CloudVpn      == <<IKE, NATT, L2TP, OpenVPN, WireGuard>>
CloudRules    == CloudAdmin \o CloudServices \o CloudUPnP \o CloudVpn
                   \o <<BlockAll>>

LinksysAdmin    == <<Off(SSH), Off(HTTPSWan), HTTPS, PING>>
LinksysServices == <<DNS, DHCP, HTTP, SNMP>>
LinksysVpn      == <<IPsec, IKE, NATT, L2TP, OpenVPN, BlockAll>>
LinksysRules    == LinksysAdmin \o LinksysServices \o LinksysVpn

TurrisAdmin    == <<V4(SSH), V4(HTTPSWan), HTTPS, PING>>
TurrisServices == <<DNS, DHCP, HTTP, SNMP>>
TurrisVpn      == <<IPsec, IKE, NATT, L2TP, OpenVPN, BlockAll>>
TurrisRules    == TurrisAdmin \o TurrisServices \o TurrisVpn

AsusAdmin    == <<Off(SSH), Off(HTTPSWan), HTTPS, PING>>
AsusServices == <<DNS, DHCP, HTTP, SNMP>>
AsusVpn      == <<IPsec, IKE, NATT, L2TP, OpenVPN>>
AsusLast     == <<WireGuard, BlockAll>>
AsusRules    == AsusAdmin \o AsusServices \o AsusVpn \o AsusLast

(* How the server reads the rules: the first enabled one whose conditions  *)
(* all hold decides.  A packet has a port (0 without one), a protocol, the *)
(* side it came from and an address family.                                *)
Matches(rule, p) ==
  /\ rule.enabled
  /\ p.v6 => rule.ipv6Enabled
  /\ rule.ports = {} \/ p.port \in rule.ports
  /\ rule.protocols = {} \/ p.protocol \in rule.protocols
  /\ rule.source \in {"any", p.source}

Admitted(rules, p) ==
  \E i \in DOMAIN rules : /\ Matches(rules[i], p) /\ ~rules[i].blocked
                          /\ \A j \in 1 .. i - 1 : ~Matches(rules[j], p)

-----------------------------------------------------------------------------
(* Interfaces.  All addresses of the files are in 192.168.0.0/16: Ip(a, b) *)
(* is 192.168.a.b.                                                         *)

Ip(a, b) == 256 * a + b
Nothing  == -1                            \* an address that is not given

Intf(id, device, bridge, type) ==
  [interfaceId |-> id, physicalDev |-> device, symbolicDev |-> bridge,
   configType |-> type, bridgedTo |-> 0,
   isWan |-> FALSE, isWirelessInterface |-> FALSE, isVlanInterface |-> FALSE,
   v4ConfigType |-> "STATIC", v4StaticAddress |-> Nothing, v4StaticPrefix |-> 0,
   dhcpType |-> "DISABLED",
   dhcpRangeStart |-> Nothing, dhcpRangeEnd |-> Nothing]

Wan(id, device, bridge) ==
  [Intf(id, device, bridge, "ADDRESSED")
     EXCEPT !.isWan = TRUE, !.v4ConfigType = "AUTO"]
Member(id, device, bridge, to) ==
  [Intf(id, device, bridge, "BRIDGED") EXCEPT !.bridgedTo = to]
Wireless(intf) == [intf EXCEPT !.isWirelessInterface = TRUE]
Vlan(intf)     == [intf EXCEPT !.isVlanInterface = TRUE]
Static(intf, address, prefix) ==
  [intf EXCEPT !.v4StaticAddress = address, !.v4StaticPrefix = prefix]
Serving(intf) ==
  LET net == 256 * (intf.v4StaticAddress \div 256)
  IN  [intf EXCEPT !.dhcpType = "SERVER", !.dhcpRangeStart = net + 100,
                   !.dhcpRangeEnd = net + 200]

CaswellInternet == Wan(1, "eth0", "eth0")
CaswellInternal ==
  Serving(Static([Intf(2, "eth1", "br.eth1", "ADDRESSED")
                    EXCEPT !.bridgedTo = 1], Ip(2, 1), 24))
CaswellPorts34 ==
  <<Member(3, "eth2", "br.eth1", 2), Member(4, "eth3", "br.eth1", 2)>>
CaswellPorts56 ==
  <<Member(5, "eth4", "br.eth1", 2), Member(6, "eth5", "br.eth1", 2)>>
CaswellPorts78 ==
  <<Member(7, "eth6", "br.eth1", 2), Member(8, "eth7", "br.eth1", 2)>>
CaswellInterfaces ==
  <<CaswellInternet, CaswellInternal>>
    \o CaswellPorts34 \o CaswellPorts56 \o CaswellPorts78

CloudInterfaces == <<Wan(1, "eth0", "eth0")>>

LinksysWired ==
  <<Wan(1, "eth0", "eth0"),
    Serving(Static(Intf(2, "eth1", "br.eth1", "ADDRESSED"), Ip(11, 1), 16))>>
LinksysWireless ==
  <<Wireless(Member(3, "wlan0", "br.eth1", 2)),
    Wireless(Member(4, "wlan1", "br.eth1", 2))>>
LinksysInterfaces == LinksysWired \o LinksysWireless

TurrisWired ==
  <<Wan(1, "eth1", "eth1"),
    Serving(Static(Intf(2, "eth0", "br.eth0", "ADDRESSED"), Ip(11, 1), 16)),
    [Intf(3, "eth2", "eth2", "DISABLED") EXCEPT !.bridgedTo = 2]>>
TurrisWireless ==
  <<Wireless(Member(4, "wlan0", "br.eth0", 2)),
    Wireless(Member(5, "wlan1", "br.eth0", 2))>>
TurrisInterfaces == TurrisWired \o TurrisWireless

AsusWired ==
  <<[Intf(1, "eth0", "eth0", "DISABLED") EXCEPT !.v4ConfigType = "AUTO"],
    Vlan(Wan(100, "eth0", "eth0.1")),
    Vlan(Serving(Static(Intf(101, "eth0", "br.eth0-2", "ADDRESSED"),
                        Ip(1, 1), 16)))>>
AsusWireless ==
  <<Wireless(Static(Member(102, "eth1", "eth1", 101), Ip(100, 1), 16)),
    Wireless(Serving(Static(Member(103, "eth2", "eth2", 101),
                            Ip(200, 1), 16)))>>
AsusInterfaces == AsusWired \o AsusWireless

-----------------------------------------------------------------------------
Boxes == {"caswell", "cloud", "linksys", "turris", "asus"}

Rules(box) == CASE box = "caswell" -> CaswellRules
                [] box = "cloud"   -> CloudRules
                [] box = "linksys" -> LinksysRules
                [] box = "turris"  -> TurrisRules
                [] box = "asus"    -> AsusRules

Factory(box) == CASE box = "caswell" -> CaswellInterfaces
                  [] box = "cloud"   -> CloudInterfaces
                  [] box = "linksys" -> LinksysInterfaces
                  [] box = "turris"  -> TurrisInterfaces
                  [] box = "asus"    -> AsusInterfaces
=============================================================================
