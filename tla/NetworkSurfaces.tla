-------------------------- MODULE NetworkSurfaces ---------------------------
(***************************************************************************)
(* The surfaces of networks and routing: for each resource its schema, the *)
(* fields its descriptor carries, and the two joined as its kit spec.  A   *)
(* wan is created or, where the controller already has one for its group,  *)
(* adopted, hence the mode "adopt".                                        *)
(***************************************************************************)
EXTENDS SurfaceKit

-----------------------------------------------------------------------------
(* unifi_network *)

NetworkSchemaFromAutoScale ==
  OptionalComputed("Bool", {"default"},
     {"auto_scale", "dhcp_server.conflict_checking", "dhcp_server.enabled"})
  \cup OptionalComputed("Object", {"stable"},
          {"dhcp_guarding", "dhcp_relay", "dhcp_server", "dhcp_server.boot"})
  \cup OptionalComputed("Bool", {"zeroDefault"},
          {"dhcp_guarding.enabled", "dhcp_relay.enabled", "dhcp_server.boot.enabled",
           "dhcp_server.dns_enabled", "dhcp_server.gateway_enabled"})
  \cup Optional("List", {},
          {"dhcp_guarding.servers", "dhcp_relay.servers", "dhcp_server.dns_servers"})
  \cup OptionalComputed("String", {"stable"},
          {"dhcp_server.boot.filename", "dhcp_server.boot.server"})
  \cup OptionalComputed("String", {"duration", "stable"}, {"dhcp_server.leasetime"})

NetworkSchemaFromDhcpServerNtpEnabled ==
  OptionalComputed("Bool", {"zeroDefault"},
     {"dhcp_server.ntp_enabled", "dhcp_server.time_offset_enabled", "dhcp_server.wins.enabled"})
  \cup Optional("List", {}, {"dhcp_server.ntp_servers", "dhcp_server.wins.addresses"})
  \cup OptionalComputed("String", {"refusesZero", "stable"},
          {"dhcp_server.start", "dhcp_server.stop"})
  \cup Optional("String", {}, {"dhcp_server.tftp_server", "dhcp_server.wpad_url"})
  \cup Optional("String", {"refusesZero"}, {"dhcp_server.unifi_controller"})
  \cup OptionalComputed("Object", {"default"}, {"dhcp_server.wins"})

NetworkSchemaFromDhcpV6Server ==
  OptionalComputed("Object", {"stable"}, {"dhcp_v6_server"})
  \cup OptionalComputed("Bool", {"stable"}, {"dhcp_v6_server.dns_auto"})
  \cup Optional("List", {}, {"dhcp_v6_server.dns_servers"})
  \cup OptionalComputed("Bool", {"zeroDefault"}, {"dhcp_v6_server.enabled", "igmp_snooping"})
  \cup Optional("Int64", {}, {"dhcp_v6_server.lease"})
  \cup OptionalComputed("String", {"stable"},
          {"dhcp_v6_server.start", "dhcp_v6_server.stop", "domain_name", "firewall_zone_id"})
  \cup OptionalComputed("Bool", {"default"}, {"enabled", "internet_access"})
  \cup OptionalComputed("String", {"refusesZero", "stable"}, {"gateway_type"})
  \cup Computed("String", {"stable"}, {"id"})
  \cup OptionalComputed("List", {"stable"}, {"ip_aliases", "ipv6_aliases"})

NetworkSchemaFromIpv6ClientAddressAssignment ==
  OptionalComputed("String", {"refusesZero", "stable"},
     {"ipv6_client_address_assignment", "ipv6_interface_type", "ipv6_ra_priority"})
  \cup OptionalComputed("Bool", {"stable"},
          {"ipv6_pd_auto_prefixid_enabled", "ipv6_ra", "lte_lan", "multicast_dns"})
  \cup Optional("String", {"refusesZero"}, {"ipv6_pd_interface"})
  \cup OptionalComputed("String", {"stable"},
          {"ipv6_pd_prefixid", "ipv6_pd_start", "ipv6_pd_stop", "ipv6_static_subnet"})
  \cup OptionalComputed("String", {"duration", "stable"},
          {"ipv6_ra_preferred_lifetime", "ipv6_ra_valid_lifetime"})

NetworkSchemaFromName ==
  Required("String", {"refusesZero"}, {"name"})
  \cup OptionalComputed("ObjectList", {"stable"}, {"nat_outbound_ip_addresses"})
  \cup Optional("String", {}, {"nat_outbound_ip_addresses.ip_address"})
  \cup Optional("List", {}, {"nat_outbound_ip_addresses.ip_address_pool"})
  \cup Optional("String", {"refusesZero"},
          {"nat_outbound_ip_addresses.mode", "nat_outbound_ip_addresses.wan_network_group"})
  \cup OptionalComputed("Bool", {"zeroDefault"}, {"network_isolation"})
  \cup OptionalComputed("String", {"refusesZero", "stable"}, {"purpose", "setting_preference"})
  \cup OptionalComputed("String", {"replace", "stable"}, {"site"})
  \cup Optional("String", {"refusesZero", "typed"}, {"subnet"})
  \cup OptionalComputed("Bool", {"stable"}, {"third_party_gateway"})
  \cup Optional("Int64", {"refusesZero"}, {"vlan"})

NetworkGenFields ==
  Fields("BoolField", {},
     {"auto_scale", "enabled", "igmp_snooping", "internet_access",
      "ipv6_pd_auto_prefixid_enabled", "ipv6_ra", "lte_lan", "network_isolation"})
  \cup Fields("StringListField", {}, {"ip_aliases", "ipv6_aliases"})
  \cup Fields("StringField", {}, {"ipv6_pd_prefixid"})

NetworkOverridesFromName ==
  Fields("StringLikePtrField", {},
     {"name", "subnet", "domain_name", "setting_preference", "firewall_zone_id", "gateway_type",
      "ipv6_interface_type", "ipv6_client_address_assignment", "ipv6_static_subnet",
      "ipv6_ra_priority", "ipv6_pd_interface", "ipv6_pd_start", "ipv6_pd_stop"})
  \cup Fields("DurationPtrField", {}, {"ipv6_ra_preferred_lifetime", "ipv6_ra_valid_lifetime"})
  \cup Fields("ScatteredObjectField", {}, {"dhcp_guarding"})

NetworkOverridesFromDhcpServer ==
  Fields("ScatteredObjectField", {}, {"dhcp_server", "dhcp_v6_server"})

NetworkOverridesFromDhcpRelay ==
  Fields("ScatteredObjectField", {}, {"dhcp_relay"})
  \cup Fields("ObjectListField", {}, {"nat_outbound_ip_addresses"})

NetworkDhcpGuardingMembers ==
  Fields("value", {"whole", "built"}, {"dhcp_guarding.enabled"})
  \cup Fields("value", {"null", "built"}, {"dhcp_guarding.servers"})

NetworkDhcpServerMembers ==
  Fields("value", {"whole", "built"},
     {"dhcp_server.enabled", "dhcp_server.gateway_enabled", "dhcp_server.conflict_checking",
      "dhcp_server.ntp_enabled", "dhcp_server.time_offset_enabled", "dhcp_server.dns_enabled"})
  \cup Fields("bare", {"whole", "built", "keepNull"}, {"dhcp_server.start", "dhcp_server.stop"})
  \cup Fields("pointer", {"whole", "built", "keepNull"}, {"dhcp_server.leasetime"})
  \cup Fields("emptied", {"whole", "built"},
          {"dhcp_server.wpad_url", "dhcp_server.tftp_server", "dhcp_server.unifi_controller"})

NetworkDhcpServerAddressMembers ==
  Fields("emptied", {"whole", "built"}, {"dhcp_server.dns_servers", "dhcp_server.ntp_servers"})

NetworkWinsMembers ==
  Fields("value", {"whole", "built"}, {"dhcp_server.wins.enabled"})
  \cup Fields("emptied", {"whole", "built"}, {"dhcp_server.wins.addresses"})

NetworkBootMembers ==
  Fields("value", {"whole", "built"}, {"dhcp_server.boot.enabled"})
  \cup Fields("emptied", {"whole", "built"}, {"dhcp_server.boot.server", "dhcp_server.boot.filename"})

NetworkDhcpV6ServerMembers ==
  Fields("value", {"whole", "built"}, {"dhcp_v6_server.enabled", "dhcp_v6_server.dns_auto"})
  \cup Fields("bare", {"whole", "built"},
          {"dhcp_v6_server.start", "dhcp_v6_server.stop", "dhcp_v6_server.lease"})

NetworkDhcpV6ServerAddressMembers ==
  Fields("emptied", {"whole", "built"}, {"dhcp_v6_server.dns_servers"})

NetworkDhcpRelayMembers ==
  Fields("value", {"whole", "built"}, {"dhcp_relay.enabled"})
  \cup Fields("value", {"null", "built"}, {"dhcp_relay.servers"})

NetworkNatOutboundMembers ==
  Fields("value", {}, {"nat_outbound_ip_addresses.ip_address"})
  \cup Fields("bare", {},
          {"nat_outbound_ip_addresses.mode", "nat_outbound_ip_addresses.wan_network_group"})
  \cup Fields("value", {"readOnly"}, {"nat_outbound_ip_addresses.ip_address_pool"})

NetworkMembers ==
  NetworkDhcpGuardingMembers \cup NetworkDhcpServerMembers \cup NetworkDhcpServerAddressMembers
  \cup NetworkWinsMembers \cup NetworkBootMembers \cup NetworkDhcpV6ServerMembers
  \cup NetworkDhcpV6ServerAddressMembers \cup NetworkDhcpRelayMembers
  \cup NetworkNatOutboundMembers

NetworkKitSpec ==
  Surface("network", "post",
    NetworkSchemaFromAutoScale \cup NetworkSchemaFromDhcpServerNtpEnabled \cup
    NetworkSchemaFromDhcpV6Server \cup NetworkSchemaFromIpv6ClientAddressAssignment \cup
    NetworkSchemaFromName,
    Override(NetworkGenFields, NetworkOverridesFromName \cup NetworkOverridesFromDhcpServer \cup
    NetworkOverridesFromDhcpRelay \cup NetworkMembers))

-----------------------------------------------------------------------------
(* unifi_wan *)

WanSchemaFromDhcp ==
  OptionalComputed("Object", {"stable"}, {"dhcp", "dhcpv6"})
  \cup OptionalComputed("Int64", {"stable"}, {"dhcp.cos", "dhcpv6.cos"})
  \cup Optional("ObjectList", {}, {"dhcp.options", "dhcpv6.options"})
  \cup Required("Int64", {"refusesZero"},
          {"dhcp.options.option_number", "dhcpv6.options.option_number"})
  \cup Required("String", {}, {"dhcp.options.value", "dhcpv6.options.value"})
  \cup OptionalComputed("Int64", {"refusesZero", "stable"}, {"dhcpv6.pd_size"})
  \cup OptionalComputed("Bool", {"stable"}, {"dhcpv6.pd_size_auto"})
  \cup OptionalComputed("String", {"refusesZero", "stable"}, {"dhcpv6.wan_delegation_type"})

WanSchemaFromDns ==
  OptionalComputed("Object", {"stable"}, {"dns", "egress_qos", "igmp_proxy"})
  \cup OptionalComputed("String", {"refusesZero", "stable"},
          {"dns.ipv6_preference", "dns.preference", "igmp_proxy.downstream"})
  \cup Optional("String", {}, {"dns.ipv6_primary", "dns.ipv6_secondary"})
  \cup Optional("String", {"refusesZero"}, {"dns.primary", "dns.secondary"})
  \cup OptionalComputed("Bool", {"zeroDefault"}, {"egress_qos.enabled"})
  \cup OptionalComputed("Int64", {"refusesZero", "zeroDefault"}, {"egress_qos.priority"})
  \cup OptionalComputed("Bool", {"default"}, {"enabled"})
  \cup Computed("String", {"stable"}, {"id"})
  \cup OptionalComputed("Bool", {"stable"}, {"igmp_proxy.upstream"})

WanSchemaFromIpAliases ==
  Optional("List", {}, {"ip_aliases"})
  \cup OptionalComputed("String", {"refusesZero", "stable"},
          {"ipv6_setting_preference", "load_balance.type", "networkgroup", "setting_preference"})
  \cup OptionalComputed("Object", {"stable"}, {"load_balance", "provider_capabilities"})
  \cup OptionalComputed("Int64", {"refusesZero", "stable"},
          {"load_balance.failover_priority", "load_balance.weight"})
  \cup OptionalComputed("Bool", {"stable"}, {"mac_override_enabled", "report_wan_event"})
  \cup Required("String", {"refusesZero"}, {"name"})
  \cup OptionalComputed("Int64", {"stable"},
          {"provider_capabilities.download_kilobits_per_second",
           "provider_capabilities.upload_kilobits_per_second"})

WanSchemaFromSingleNetworkLan ==
  OptionalComputed("String", {"stable"}, {"single_network_lan"})
  \cup OptionalComputed("String", {"replace", "stable"}, {"site"})
  \cup OptionalComputed("Object", {"stable"}, {"smartq", "upnp", "vlan"})
  \cup Optional("Int64", {}, {"smartq.down_rate", "smartq.up_rate"})
  \cup OptionalComputed("Bool", {"zeroDefault"}, {"smartq.enabled", "vlan.enabled"})
  \cup OptionalComputed("String", {"refusesZero", "stable"}, {"type", "type_v6"})
  \cup OptionalComputed("Bool", {"stable"},
          {"upnp.enabled", "upnp.nat_pmp_enabled", "upnp.secure_mode"})
  \cup Optional("String", {}, {"upnp.wan_interface"})
  \cup OptionalComputed("Int64", {"zeroDefault"}, {"vlan.id"})

WanSchemaFromWanDsliteRemoteHost ==
  OptionalComputed("String", {"stable"}, {"wan_dslite_remote_host"})
  \cup OptionalComputed("Bool", {"stable"}, {"wan_dslite_remote_host_auto"})

WanGenFields ==
  Fields("BoolField", {}, {"enabled", "report_wan_event", "wan_dslite_remote_host_auto"})
  \cup Fields("StringListField", {"null"}, {"ip_aliases"})

WanOverridesFromName ==
  Fields("StringLikePtrField", {},
     {"name", "type", "type_v6", "networkgroup", "setting_preference",
      "ipv6_setting_preference", "single_network_lan", "wan_dslite_remote_host"})
  \cup Fields("BoolField", {}, {"mac_override_enabled"})
  \cup Fields("ScatteredObjectField", {},
          {"vlan", "egress_qos", "dns", "dhcp", "dhcpv6", "smartq", "upnp", "load_balance"})

WanOverridesFromIgmpProxy ==
  Fields("ScatteredObjectField", {}, {"igmp_proxy", "provider_capabilities"})

\* Every wire of a block is in the mask only where its own member is known.
WanVlanMembers ==
  Fields("value", {"built"}, {"vlan.enabled"})
  \cup Fields("pointer", {"absentIsZero", "built"}, {"vlan.id"})

WanEgressQosMembers ==
  Fields("pointer", {"merged"}, {"egress_qos.enabled", "egress_qos.priority"})

WanDnsMembers ==
  Fields("pointer", {"null", "merged"},
     {"dns.primary", "dns.secondary", "dns.ipv6_primary", "dns.ipv6_secondary"})
  \cup Fields("pointer", {"merged"}, {"dns.preference", "dns.ipv6_preference"})

WanDhcpMembers ==
  Fields("pointer", {"merged"}, {"dhcp.cos"})
  \cup Fields("value", {"merged"}, {"dhcp.options"})
  \cup Fields("bare", {}, {"dhcp.options.option_number", "dhcp.options.value"})

WanDhcpv6Members ==
  Fields("pointer", {"merged"}, {"dhcpv6.cos", "dhcpv6.pd_size", "dhcpv6.wan_delegation_type"})
  \cup Fields("value", {"built"}, {"dhcpv6.pd_size_auto"})
  \cup Fields("value", {"merged"}, {"dhcpv6.options"})
  \cup Fields("bare", {}, {"dhcpv6.options.option_number", "dhcpv6.options.value"})

WanSmartqMembers ==
  Fields("pointer", {"merged"}, {"smartq.up_rate", "smartq.down_rate"})

WanUpnpMembers ==
  Fields("pointer", {"merged"},
     {"upnp.enabled", "upnp.wan_interface", "upnp.nat_pmp_enabled", "upnp.secure_mode"})

WanLoadBalanceMembers ==
  Fields("pointer", {"merged"},
     {"load_balance.type", "load_balance.weight", "load_balance.failover_priority"})

WanIgmpProxyMembers ==
  Fields("pointer", {"merged"}, {"igmp_proxy.downstream"})
  \cup Fields("value", {"built"}, {"igmp_proxy.upstream"})

WanProviderCapabilitiesMembers ==
  Fields("bare", {"whole", "mergedWhole"},
     {"provider_capabilities.download_kilobits_per_second",
      "provider_capabilities.upload_kilobits_per_second"})

WanMembers ==
  WanVlanMembers \cup WanEgressQosMembers \cup WanDnsMembers \cup WanDhcpMembers
  \cup WanDhcpv6Members \cup WanSmartqMembers \cup WanUpnpMembers \cup WanLoadBalanceMembers
  \cup WanIgmpProxyMembers \cup WanProviderCapabilitiesMembers

WanKitSpec ==
  Surface("wan", "adopt",
    WanSchemaFromDhcp \cup WanSchemaFromDns \cup WanSchemaFromIpAliases \cup
    WanSchemaFromSingleNetworkLan \cup WanSchemaFromWanDsliteRemoteHost,
    Override(WanGenFields, WanOverridesFromName \cup WanOverridesFromIgmpProxy \cup WanMembers))

-----------------------------------------------------------------------------
(* unifi_vpn_client *)

VpnClientSchema ==
  OptionalComputed("Bool", {"zeroDefault"},
     {"default_route", "pull_dns", "wireguard.preshared_key_enabled"})
  \cup OptionalComputed("Bool", {"default"}, {"enabled"})
  \cup Computed("String", {"stable"}, {"id"})
  \cup Required("String", {"refusesZero"}, {"name"})
  \cup OptionalComputed("String", {"replace", "stable"}, {"site"})
  \cup Required("String", {"refusesZero", "typed"}, {"subnet"})
  \cup Required("Object", {}, {"wireguard"})
  \cup Optional("Object", {}, {"wireguard.configuration", "wireguard.peer"})
  \cup Required("String", {},
          {"wireguard.configuration.content", "wireguard.configuration.filename",
           "wireguard.peer.ip", "wireguard.peer.public_key", "wireguard.private_key"})
  \cup Optional("List", {"refusesZero"}, {"wireguard.dns_servers"})
  \cup OptionalComputed("String", {"default", "refusesZero"}, {"wireguard.interface"})
  \cup Required("Int64", {"refusesZero"}, {"wireguard.peer.port"})
  \cup Optional("String", {}, {"wireguard.preshared_key"})

VpnClientGenFields ==
  Fields("BoolField", {}, {"enabled", "default_route", "pull_dns"})

VpnClientOverrides ==
  Fields("StringLikePtrField", {}, {"name", "subnet"})
  \cup Fields("ScatteredObjectField", {}, {"wireguard"})

\* The members a configuration file does not give.
VpnClientMembers ==
  Fields("bare", {"whole", "built"}, {"wireguard.interface"})
  \cup Fields("value", {"whole", "built"}, {"wireguard.preshared_key_enabled"})

VpnClientPeerMembers ==
  Fields("bare", {"null", "whole", "built"}, {"wireguard.peer.ip", "wireguard.peer.public_key"})
  \cup Fields("bare", {"whole", "built"}, {"wireguard.peer.port"})

VpnClientKitSpec ==
  Surface("vpn_client", "post",
    VpnClientSchema,
    Override(VpnClientGenFields, VpnClientOverrides \cup VpnClientMembers \cup VpnClientPeerMembers))

-----------------------------------------------------------------------------
(* unifi_vpn_server *)

VpnServerSchemaFromDns ==
  OptionalComputed("Object", {"stable"}, {"dns"})
  \cup OptionalComputed("Bool", {"stable"}, {"dns.enabled"})
  \cup Optional("List", {}, {"dns.servers"})
  \cup OptionalComputed("Bool", {"default"}, {"enabled"})
  \cup Computed("String", {"stable"}, {"id"})
  \cup Optional("Object", {}, {"l2tp"})
  \cup OptionalComputed("Bool", {"zeroDefault"}, {"l2tp.allow_weak_ciphers"})
  \cup Required("String", {"refusesZero"}, {"l2tp.pre_shared_key", "name"})

VpnServerSchemaFromOpenvpn ==
  Optional("Object", {}, {"openvpn"})
  \cup Computed("String", {"stable"},
          {"openvpn.auth_key", "openvpn.ca_crt", "openvpn.ca_key", "openvpn.dh_key",
           "openvpn.server_crt", "openvpn.server_key", "openvpn.shared_client_crt",
           "openvpn.shared_client_key"})
  \cup OptionalComputed("String", {"default", "refusesZero"},
          {"openvpn.encryption_cipher", "openvpn.mode"})
  \cup OptionalComputed("Int64", {"default", "refusesZero"}, {"openvpn.port"})
  \cup Optional("String", {}, {"radiusprofile_id"})
  \cup OptionalComputed("String", {"replace", "stable"}, {"site"})
  \cup Required("String", {"refusesZero", "typed"}, {"subnet"})

VpnServerSchemaFromWan ==
  OptionalComputed("Object", {"stable"}, {"wan"})
  \cup OptionalComputed("String", {"default", "refusesZero"}, {"wan.interface"})
  \cup OptionalComputed("String", {"default"}, {"wan.ip"})
  \cup Optional("Object", {}, {"wireguard"})
  \cup OptionalComputed("Int64", {"default", "refusesZero"}, {"wireguard.port"})
  \cup OptionalComputed("String", {"stable"}, {"wireguard.private_key"})
  \cup Computed("String", {"stable"}, {"wireguard.public_key"})

VpnServerGenFields ==
  Fields("BoolField", {}, {"enabled"})

VpnServerOverrides ==
  Fields("StringLikePtrField", {}, {"name", "subnet", "radiusprofile_id"})
  \cup Fields("ScatteredObjectField", {}, {"dns", "wan"})
  \cup Fields("ScatteredObjectField", {"null"}, {"wireguard", "l2tp", "openvpn"})

VpnServerWanMembers ==
  Fields("elided", {"whole", "built"}, {"wan.ip", "wan.interface"})

VpnServerWireguardMembers ==
  Fields("generated", {"whole", "carried"}, {"wireguard.private_key"})
  \cup Fields("pointer", {}, {"wireguard.port"})

VpnServerL2TPMembers ==
  Fields("value", {"whole"}, {"l2tp.allow_weak_ciphers"})
  \cup Fields("elided", {"carried"}, {"l2tp.pre_shared_key"})

VpnServerOpenVPNMembers ==
  Fields("pointer", {}, {"openvpn.port"})
  \cup Fields("elided", {},
          {"openvpn.mode", "openvpn.encryption_cipher", "openvpn.server_crt",
           "openvpn.server_key", "openvpn.dh_key", "openvpn.shared_client_key",
           "openvpn.shared_client_crt", "openvpn.auth_key", "openvpn.ca_crt", "openvpn.ca_key"})

VpnServerMembers ==
  VpnServerWanMembers \cup VpnServerWireguardMembers \cup VpnServerL2TPMembers
  \cup VpnServerOpenVPNMembers

VpnServerKitSpec ==
  Surface("vpn_server", "post",
    VpnServerSchemaFromDns \cup VpnServerSchemaFromOpenvpn \cup VpnServerSchemaFromWan,
    Override(VpnServerGenFields, VpnServerOverrides \cup VpnServerMembers))

-----------------------------------------------------------------------------
(* unifi_site_to_site_vpn *)

SiteToSiteVpnSchemaFromDynamicRouting ==
  OptionalComputed("Bool", {"stable"}, {"dynamic_routing"})
  \cup OptionalComputed("Bool", {"default"}, {"enabled"})
  \cup OptionalComputed("Int64", {"refusesZero", "stable"}, {"esp_dh_group", "ike_dh_group"})
  \cup OptionalComputed("String", {"refusesZero", "stable"},
          {"esp_encryption", "esp_hash", "ike_encryption", "ike_hash"})
  \cup OptionalComputed("String", {"duration", "refusesZero", "stable"},
          {"esp_lifetime", "ike_lifetime"})
  \cup Computed("String", {"stable"}, {"id"})
  \cup OptionalComputed("String", {"default", "refusesZero"}, {"interface", "key_exchange"})

SiteToSiteVpnSchemaFromLocalIp ==
  OptionalComputed("String", {"refusesZero", "stable", "typed"}, {"local_ip"})
  \cup Required("String", {"refusesZero"}, {"name"})
  \cup Required("String", {"refusesZero", "typed"}, {"peer_ip"})
  \cup OptionalComputed("Bool", {"stable"}, {"pfs"})
  \cup Optional("String", {"refusesZero"}, {"pre_shared_key"})
  \cup OptionalComputed("String", {"refusesZero", "stable"}, {"profile"})
  \cup Required("List", {}, {"remote_subnets"})
  \cup OptionalComputed("Int64", {"refusesZero", "stable"}, {"route_distance"})
  \cup OptionalComputed("String", {"replace", "stable"}, {"site"})

SiteToSiteVpnGenFields ==
  Fields("BoolField", {}, {"enabled", "dynamic_routing", "pfs"})
  \cup Fields("Int64PtrField", {"omit", "refused"}, {"ike_dh_group", "esp_dh_group", "route_distance"})
  \cup Fields("StringListField", {}, {"remote_subnets"})

SiteToSiteVpnOverrides ==
  Fields("StringLikePtrField", {},
     {"name", "interface", "peer_ip", "local_ip", "key_exchange", "profile", "ike_encryption",
      "ike_hash", "esp_encryption", "esp_hash"})
  \cup Fields("DurationPtrField", {}, {"ike_lifetime", "esp_lifetime"})

SiteToSiteVpnKitSpec ==
  Surface("site_to_site_vpn", "post",
    SiteToSiteVpnSchemaFromDynamicRouting \cup SiteToSiteVpnSchemaFromLocalIp,
    Override(SiteToSiteVpnGenFields, SiteToSiteVpnOverrides))

-----------------------------------------------------------------------------
(* unifi_wireguard_peer *)

WireguardPeerSchema ==
  OptionalComputed("List", {"zeroDefault"}, {"allowed_ips"})
  \cup Computed("String", {"stable"}, {"id"})
  \cup Required("String", {"refusesZero"}, {"interface_ip"})
  \cup Required("String", {}, {"name", "public_key"})
  \cup Required("String", {"replace"}, {"network_id"})
  \cup OptionalComputed("String", {"replace", "stable"}, {"site"})

WireguardPeerGenFields ==
  Fields("StringListField", {}, {"allowed_ips"})
  \cup Fields("StringField", {}, {"interface_ip", "name", "network_id", "public_key"})

WireguardPeerKitSpec ==
  Surface("wireguard_peer", "post",
    WireguardPeerSchema,
    WireguardPeerGenFields)

-----------------------------------------------------------------------------
(* unifi_bgp *)

BgpSchema ==
  Optional("Int64", {"refusesZero"}, {"asn"})
  \cup OptionalComputed("String", {}, {"config"})
  \cup OptionalComputed("String", {"default"}, {"description", "upload_file_name"})
  \cup OptionalComputed("Bool", {"zeroDefault"}, {"enabled"})
  \cup Computed("String", {"stable"}, {"id"})
  \cup Optional("ObjectList", {}, {"peers"})
  \cup Optional("String", {}, {"peers.description"})
  \cup Required("String", {}, {"peers.name"})
  \cup Optional("List", {}, {"peers.networks"})
  \cup Required("Int64", {"refusesZero"}, {"peers.remote_as"})
  \cup Optional("String", {"refusesZero"}, {"router_id"})
  \cup OptionalComputed("String", {"replace", "stable"}, {"site"})

BgpGenFields ==
  Fields("StringField", {}, {"description", "upload_file_name"})
  \cup Fields("BoolField", {}, {"enabled"})

BgpOverrides ==
  Fields("StringField", {}, {"config"})

BgpKitSpec ==
  Surface("bgp", "post",
    BgpSchema,
    Override(BgpGenFields, BgpOverrides))

-----------------------------------------------------------------------------
(* unifi_ospf_router *)

OspfRouterSchema ==
  OptionalComputed("Bool", {"zeroDefault"},
     {"announce_default_route", "interfaces.passive_interface", "redistribute_bgp_routes",
      "redistribute_connected_routes", "redistribute_static_routes"})
  \cup Required("ObjectList", {}, {"areas"})
  \cup Optional("String", {},
          {"areas.area_id", "areas.name", "interfaces.authentication_type", "interfaces.cost",
           "interfaces.dead_interval", "interfaces.hello_interval", "interfaces.network_id",
           "interfaces.priority", "redistribute_connected_routes_metric_type",
           "redistribute_static_routes_metric_type"})
  \cup Optional("String", {"refusesZero"}, {"areas.area_type"})
  \cup Required("List", {"refusesZero"}, {"areas.network_ids"})
  \cup OptionalComputed("Bool", {"default"}, {"enabled"})
  \cup Computed("String", {"stable"}, {"id"})
  \cup Optional("ObjectList", {}, {"interfaces"})
  \cup Required("String", {}, {"router_id"})
  \cup OptionalComputed("String", {"replace", "stable"}, {"site"})

OspfRouterGenFields ==
  Fields("BoolField", {},
     {"announce_default_route", "enabled", "redistribute_bgp_routes",
      "redistribute_connected_routes", "redistribute_static_routes"})
  \cup Fields("StringField", {"null"},
          {"redistribute_connected_routes_metric_type", "redistribute_static_routes_metric_type"})
  \cup Fields("StringField", {}, {"router_id"})

OspfRouterOverrides ==
  Fields("ObjectListField", {}, {"areas"})
  \cup Fields("ObjectListField", {"null"}, {"interfaces"})

OspfRouterAreaMembers ==
  Fields("value", {"null"}, {"areas.area_id", "areas.area_type", "areas.name"})
  \cup Fields("value", {"absentIsNull"}, {"areas.network_ids"})

OspfRouterInterfaceMembers ==
  Fields("value", {"null"},
     {"interfaces.authentication_type", "interfaces.cost", "interfaces.dead_interval",
      "interfaces.hello_interval", "interfaces.network_id", "interfaces.priority"})
  \cup Fields("value", {}, {"interfaces.passive_interface"})

OspfRouterKitSpec ==
  Surface("ospf_router", "post",
    OspfRouterSchema,
    Override(OspfRouterGenFields, OspfRouterOverrides \cup OspfRouterAreaMembers
             \cup OspfRouterInterfaceMembers))

-----------------------------------------------------------------------------
(* unifi_static_route *)

StaticRouteSchema ==
  Required("Int64", {"refusesZero"}, {"distance"})
  \cup OptionalComputed("Bool", {"default"}, {"enabled"})
  \cup Optional("String", {"refusesZero"}, {"gateway_device"})
  \cup OptionalComputed("String", {"default", "refusesZero"}, {"gateway_type"})
  \cup Computed("String", {"stable"}, {"id"})
  \cup Optional("String", {}, {"interface"})
  \cup Required("String", {"refusesZero"}, {"name", "network", "type"})
  \cup Optional("String", {"refusesZero", "typed"}, {"next_hop"})
  \cup OptionalComputed("String", {"replace", "stable"}, {"site"})

StaticRouteGenFields ==
  Fields("BoolField", {}, {"enabled"})
  \cup Fields("StringField", {"null"}, {"gateway_device"})
  \cup Fields("StringField", {}, {"name", "network", "type"})
  \cup Fields("Int64PtrField", {"refused", "pinned"}, {"distance"})

StaticRouteOverrides ==
  Fields("StringLikeField", {"gated", "null"}, {"next_hop"})
  \cup Fields("StringField", {"gated", "null"}, {"interface"})
  \cup Fields("StringField", {"readDefault"}, {"gateway_type"})

StaticRouteKitSpec ==
  Surface("static_route", "post",
    StaticRouteSchema,
    Override(StaticRouteGenFields, StaticRouteOverrides))

-----------------------------------------------------------------------------
(* unifi_traffic_route *)

TrafficRouteSchema ==
  Optional("String", {}, {"description"})
  \cup Optional("Object", {}, {"destination", "source"})
  \cup Optional("List", {}, {"destination.domain", "destination.ip.ports", "destination.region"})
  \cup Optional("ObjectList", {}, {"destination.ip", "source.clients", "source.networks"})
  \cup Required("String", {},
          {"destination.ip.address", "source.clients.mac", "source.networks.id"})
  \cup OptionalComputed("Bool", {"default"}, {"enabled"})
  \cup Computed("String", {"stable"}, {"id"})
  \cup OptionalComputed("Bool", {"zeroDefault"}, {"kill_switch_enabled"})
  \cup OptionalComputed("String", {"stable"}, {"network_id"})
  \cup Optional("String", {"refusesZero", "typed"}, {"next_hop"})
  \cup OptionalComputed("String", {"replace", "stable"}, {"site"})

TrafficRouteGenFields ==
  Fields("StringField", {"null"}, {"description"})
  \cup Fields("BoolField", {}, {"enabled", "kill_switch_enabled"})

TrafficRouteOverrides ==
  Fields("StringField", {}, {"network_id"})
  \cup Fields("StringLikeField", {"null"}, {"next_hop"})
  \cup Fields("ScatteredObjectField", {"null"}, {"destination", "source"})

TrafficRouteDestinationMembers ==
  Fields("value", {"null", "whole"}, {"destination.domain", "destination.region"})

TrafficRouteDestinationIPMembers ==
  Fields("value", {"null", "whole"}, {"destination.ip"})
  \cup Fields("value", {}, {"destination.ip.address"})
  \cup Fields("value", {"null"}, {"destination.ip.ports"})

TrafficRouteSourceMembers ==
  Fields("value", {"null", "whole"}, {"source.clients", "source.networks"})
  \cup Fields("value", {}, {"source.clients.mac", "source.networks.id"})

TrafficRouteKitSpec ==
  Surface("traffic_route", "post",
    TrafficRouteSchema,
    Override(TrafficRouteGenFields, TrafficRouteOverrides \cup TrafficRouteDestinationMembers
             \cup TrafficRouteDestinationIPMembers \cup TrafficRouteSourceMembers))

-----------------------------------------------------------------------------
(* unifi_nat *)

NatSchemaFromDescription ==
  OptionalComputed("String", {"zeroDefault"},
     {"description", "destination_filter.address", "destination_filter.network_conf_id",
      "in_interface", "ip_address"})
  \cup Required("Object", {}, {"destination_filter"})
  \cup OptionalComputed("String", {"default", "refusesZero"},
          {"destination_filter.filter_type", "ip_version"})
  \cup OptionalComputed("List", {"stable"}, {"destination_filter.firewall_group_ids"})
  \cup OptionalComputed("Bool", {"zeroDefault"},
          {"destination_filter.invert_address", "destination_filter.invert_port", "logging"})
  \cup Optional("Int64", {"refusesZero"}, {"destination_filter.port", "port"})
  \cup OptionalComputed("Bool", {"default"}, {"enabled"})
  \cup Computed("Bool", {"stable"}, {"exclude", "is_predefined"})
  \cup Computed("String", {"stable"}, {"id"})
  \cup Optional("String", {}, {"out_interface"})

NatSchemaFromPppoeUseBaseInterface ==
  Computed("Bool", {"stable"}, {"pppoe_use_base_interface"})
  \cup Required("String", {"refusesZero"}, {"protocol"})
  \cup Computed("Int64", {"stable"}, {"rule_index"})
  \cup OptionalComputed("String", {"default", "refusesZero"},
          {"setting_preference", "source_filter.filter_type"})
  \cup OptionalComputed("String", {"replace", "stable"}, {"site"})
  \cup Required("Object", {}, {"source_filter"})
  \cup OptionalComputed("String", {"zeroDefault"},
          {"source_filter.address", "source_filter.network_conf_id"})
  \cup OptionalComputed("List", {"stable"}, {"source_filter.firewall_group_ids"})
  \cup OptionalComputed("Bool", {"zeroDefault"},
          {"source_filter.invert_address", "source_filter.invert_port"})
  \cup Optional("Int64", {"refusesZero"}, {"source_filter.port"})
  \cup Optional("String", {"refusesZero"}, {"type"})

NatGenFields ==
  Fields("StringField", {}, {"description", "protocol"})
  \cup Fields("BoolField", {}, {"enabled", "logging"})
  \cup Fields("StringField", {"gated"}, {"in_interface", "ip_address"})
  \cup Fields("StringField", {"null"},
          {"ip_version", "out_interface", "setting_preference", "type"})
  \cup Fields("Int64PtrField", {"null", "omit", "refused"}, {"port"})

NatOverrides ==
  Fields("BoolField", {"readOnly"}, {"exclude", "is_predefined", "pppoe_use_base_interface"})
  \cup Fields("Int64PtrField", {"readOnly"}, {"rule_index"})
  \cup Fields("ObjectField", {}, {"source_filter", "destination_filter"})

NatFilterMembers(filter) ==
  Fields("value", {},
     { filter \o ".address", filter \o ".filter_type", filter \o ".invert_address",
       filter \o ".invert_port", filter \o ".network_conf_id" })
  \cup Fields("value", {"absentIsNull"}, { filter \o ".firewall_group_ids" })
  \cup Fields("bare", {"refused", "pinned"}, { filter \o ".port" })

NatKitSpec ==
  Surface("nat", "post",
    NatSchemaFromDescription \cup NatSchemaFromPppoeUseBaseInterface,
    Override(NatGenFields, NatOverrides \cup NatFilterMembers("source_filter")
             \cup NatFilterMembers("destination_filter")))

-----------------------------------------------------------------------------
(* unifi_port_forward *)

PortForwardSchemaFromDestinationIps ==
  Optional("ObjectList", {}, {"destination_ips"})
  \cup Optional("String", {"refusesZero"},
          {"destination_ips.destination_ip", "destination_ips.interface", "forward.ip",
           "forward.port", "name"})
  \cup OptionalComputed("Bool", {"default"}, {"enabled"})
  \cup Optional("Object", {}, {"forward", "source_limiting"})
  \cup Computed("String", {"stable"}, {"id"})
  \cup OptionalComputed("Bool", {"zeroDefault"}, {"logging", "source_limiting.enabled"})
  \cup OptionalComputed("String", {"default", "refusesZero"}, {"protocol", "source_limiting.ip"})
  \cup OptionalComputed("String", {"replace", "stable"}, {"site"})
  \cup Optional("String", {}, {"source_limiting.firewall_group_id"})
  \cup OptionalComputed("String", {"refusesZero"}, {"source_limiting.type"})

PortForwardSchemaFromWan ==
  Optional("Object", {}, {"wan"})
  \cup Optional("String", {"refusesZero"}, {"wan.interface", "wan.ip_address", "wan.port"})

PortForwardGenFields ==
  Fields("BoolField", {}, {"enabled", "logging"})
  \cup Fields("StringField", {"null"}, {"name", "protocol"})

PortForwardOverrides ==
  Fields("ScatteredObjectField", {"null"}, {"wan", "forward", "source_limiting"})
  \cup Fields("ObjectListField", {"null"}, {"destination_ips"})

PortForwardMembers ==
  Fields("value", {"null"},
     {"wan.interface", "wan.ip_address", "wan.port", "forward.ip", "forward.port"})

PortForwardSourceLimitingMembers ==
  Fields("value", {"null"}, {"source_limiting.ip", "source_limiting.firewall_group_id"})
  \cup Fields("value", {}, {"source_limiting.enabled"})
  \cup Fields("inferred", {"null", "whole"}, {"source_limiting.type"})

PortForwardDestinationMembers ==
  Fields("value", {"null"}, {"destination_ips.destination_ip", "destination_ips.interface"})

PortForwardKitSpec ==
  Surface("port_forward", "post",
    PortForwardSchemaFromDestinationIps \cup PortForwardSchemaFromWan,
    Override(PortForwardGenFields, PortForwardOverrides \cup PortForwardMembers
             \cup PortForwardSourceLimitingMembers \cup PortForwardDestinationMembers))

-----------------------------------------------------------------------------
(* unifi_dns_record *)

DnsRecordSchema ==
  OptionalComputed("Bool", {"default"}, {"enabled"})
  \cup Computed("String", {"stable"}, {"id"})
  \cup Required("String", {"refusesZero", "replace"}, {"name"})
  \cup Optional("Int64", {"refusesZero"}, {"port"})
  \cup Optional("Int64", {}, {"priority", "weight"})
  \cup Required("String", {"refusesZero"}, {"record_type", "value"})
  \cup OptionalComputed("String", {"replace", "stable"}, {"site"})
  \cup Optional("String", {"duration"}, {"ttl"})

DnsRecordGenFields ==
  Fields("BoolField", {}, {"enabled"})
  \cup Fields("StringField", {}, {"name", "record_type", "value"})
  \cup Fields("Int64Field", {"null"}, {"priority", "weight"})

DnsRecordOverrides ==
  Fields("Int64PtrField", {"null", "refused", "pinned"}, {"port"})
  \cup Fields("DurationField", {"null"}, {"ttl"})

DnsRecordKitSpec ==
  Surface("dns_record", "post",
    DnsRecordSchema,
    Override(DnsRecordGenFields, DnsRecordOverrides))

-----------------------------------------------------------------------------
(* unifi_dynamic_dns *)

DynamicDnsSchema ==
  Required("String", {"refusesZero"}, {"host_name"})
  \cup Computed("String", {"stable"}, {"id"})
  \cup OptionalComputed("String", {"default", "refusesZero", "replace"}, {"interface"})
  \cup Optional("String", {"refusesZero"}, {"login", "password"})
  \cup Optional("String", {}, {"server"})
  \cup Required("String", {"refusesZero", "replace"}, {"service"})
  \cup OptionalComputed("String", {"replace", "stableNonNull"}, {"site"})

DynamicDnsGenFields ==
  Fields("StringField", {}, {"host_name", "service"})
  \cup Fields("StringField", {"null"}, {"interface", "login", "server", "password"})

DynamicDnsKitSpec ==
  Surface("dynamic_dns", "post",
    DynamicDnsSchema,
    DynamicDnsGenFields)

-----------------------------------------------------------------------------
(* unifi_dhcp_option *)

DhcpOptionSchema ==
  Required("String", {"refusesZero"}, {"code", "name", "type"})
  \cup Computed("String", {"stable"}, {"id"})
  \cup OptionalComputed("Bool", {"zeroDefault"}, {"signed"})
  \cup OptionalComputed("String", {"replace", "stable"}, {"site"})
  \cup Optional("Int64", {"refusesZero"}, {"width"})

DhcpOptionGenFields ==
  Fields("StringField", {}, {"code", "name", "type"})
  \cup Fields("BoolField", {}, {"signed"})
  \cup Fields("Int64PtrField", {"null", "omit", "refused"}, {"width"})

DhcpOptionKitSpec ==
  Surface("dhcp_option", "post",
    DhcpOptionSchema,
    DhcpOptionGenFields)

-----------------------------------------------------------------------------
NetworkSpecs ==
  { NetworkKitSpec, WanKitSpec, VpnClientKitSpec, VpnServerKitSpec, SiteToSiteVpnKitSpec,
    WireguardPeerKitSpec, BgpKitSpec, OspfRouterKitSpec, StaticRouteKitSpec, TrafficRouteKitSpec,
    NatKitSpec, PortForwardKitSpec, DnsRecordKitSpec, DynamicDnsKitSpec, DhcpOptionKitSpec }
=============================================================================
