--------------------------- MODULE DeviceSurfaces ---------------------------
(***************************************************************************)
(* The surfaces of devices, ports, wireless networks and clients: for each *)
(* resource its schema, the fields its descriptor carries, and the two     *)
(* joined as its kit spec.  A device is never created, its create is an    *)
(* update of the fields the plan sets, hence the mode "masked".            *)
(***************************************************************************)
EXTENDS SurfaceKit

-----------------------------------------------------------------------------
(* unifi_device *)

DeviceSchemaFromAdopted ==
  Computed("Bool", {}, {"adopted"})
  \cup OptionalComputed("Bool", {"default", "stable"}, {"allow_adoption", "forget_on_destroy"})
  \cup OptionalComputed("String", {"refusesZero"},
          {"bandsteering_mode", "config_network.ip", "config_network.netmask",
           "config_network.type"})
  \cup OptionalComputed("Object", {}, {"config_network"})
  \cup OptionalComputed("Bool", {},
          {"config_network.bonding_enabled", "disabled", "flowctrl_enabled",
           "jumboframe_enabled", "lcm_brightness_override"})
  \cup OptionalComputed("String", {},
          {"config_network.dns1", "config_network.dns2", "config_network.dnssuffix",
           "config_network.gateway"})
  \cup Computed("String", {"stable"}, {"id"})
  \cup OptionalComputed("Int64", {"refusesZero"}, {"lcm_brightness"})

DeviceSchemaFromLcmIdleTimeout ==
  OptionalComputed("String", {"duration", "refusesZero"}, {"lcm_idle_timeout"})
  \cup OptionalComputed("Bool", {}, {"lcm_idle_timeout_override", "locked", "outlet_enabled"})
  \cup OptionalComputed("String", {}, {"lcm_night_mode_begins", "lcm_night_mode_ends", "name"})
  \cup OptionalComputed("String", {"refusesZero", "stable"},
          {"led_override", "led_override_color"})
  \cup OptionalComputed("Int64", {"stable"}, {"led_override_color_brightness"})
  \cup OptionalComputed("String", {"refusesZero", "replace", "stable", "typed"}, {"mac"})
  \cup OptionalComputed("Bool", {"stable"}, {"mesh_sta_vap_enabled"})
  \cup OptionalComputed("String", {"refusesZero"}, {"mgmt_network_id", "outdoor_mode_override"})
  \cup Computed("String", {}, {"model"})

DeviceSchemaFromOutletOverrides ==
  OptionalComputed("ObjectList", {"stable"}, {"outlet_overrides"})
  \cup OptionalComputed("Bool", {},
          {"outlet_overrides.cycle_enabled", "outlet_overrides.relay_state"})
  \cup Required("Int64", {}, {"outlet_overrides.index"})
  \cup OptionalComputed("String", {}, {"outlet_overrides.name"})
  \cup OptionalComputed("String", {"refusesZero"}, {"poe_mode"})

DeviceSchemaFromRadioTable ==
  OptionalComputed("ObjectList", {"stable"}, {"radio_table"})
  \cup OptionalComputed("Int64", {}, {"radio_table.antenna_gain", "radio_table.antenna_id"})
  \cup OptionalComputed("String", {"refusesZero"},
          {"radio_table.channel", "radio_table.radio", "radio_table.tx_power",
           "radio_table.tx_power_mode"})
  \cup OptionalComputed("Bool", {},
          {"radio_table.dfs", "radio_table.hard_noise_floor_enabled",
           "radio_table.loadbalance_enabled", "radio_table.min_rssi_enabled",
           "radio_table.sens_level_enabled", "radio_table.vwire_enabled"})
  \cup OptionalComputed("Int64", {"refusesZero"},
          {"radio_table.ht", "radio_table.maxsta", "radio_table.min_rssi",
           "radio_table.sens_level"})
  \cup OptionalComputed("String", {}, {"radio_table.name"})

DeviceSchemaFromSite ==
  OptionalComputed("String", {"replace", "stable"}, {"site"})
  \cup Computed("Int64", {}, {"state"})
  \cup OptionalComputed("Int64", {}, {"stp_priority", "volume"})
  \cup OptionalComputed("String", {"refusesZero"}, {"stp_version"})
  \cup OptionalComputed("Bool", {"stable"}, {"switch_vlan_enabled"})
  \cup Computed("String", {}, {"type"})
  \cup OptionalComputed("String", {}, {"x_baresip_password"})
  \cup Block("ObjectSet", {}, {"port_override"})
  \cup Optional("List", {}, {"port_override.aggregate_members"})
  \cup OptionalComputed("Bool", {},
          {"port_override.autoneg", "port_override.egress_rate_limit_kbps_enabled",
           "port_override.flow_control_enabled", "port_override.full_duplex"})
  \cup Optional("String", {"refusesZero"},
          {"port_override.dot1x_ctrl", "port_override.fec_mode", "port_override.forward"})
  \cup Optional("String", {"duration"}, {"port_override.dot1x_idle_timeout"})
  \cup Optional("Int64", {}, {"port_override.egress_rate_limit_kbps"})
  \cup Optional("Set", {}, {"port_override.excluded_networkconf_ids"})

DeviceSchemaFromPortOverrideIndex ==
  Required("Int64", {"refusesZero"}, {"port_override.index"})
  \cup OptionalComputed("Bool", {},
          {"port_override.isolation", "port_override.lldpmed_enabled",
           "port_override.lldpmed_notify_enabled", "port_override.port_keepalive_enabled",
           "port_override.port_security_enabled"})
  \cup Optional("Int64", {"refusesZero"},
          {"port_override.mirror_port_idx", "port_override.speed"})
  \cup Optional("Set", {}, {"port_override.multicast_router_networkconf_ids"})
  \cup Optional("String", {}, {"port_override.name", "port_override.native_networkconf_id"})
  \cup OptionalComputed("String", {"default", "refusesZero"}, {"port_override.op_mode"})
  \cup Optional("String", {"refusesZero"},
          {"port_override.poe_mode", "port_override.port_profile_id",
           "port_override.setting_preference"})
  \cup Optional("List", {}, {"port_override.port_security_mac_address"})
  \cup Optional("Int64", {},
          {"port_override.priority_queue1_level", "port_override.priority_queue2_level",
           "port_override.priority_queue3_level", "port_override.priority_queue4_level"})

DeviceSchemaFromPortOverrideStormctrlBcastEnabled ==
  OptionalComputed("Bool", {},
     {"port_override.stormctrl_bcast_enabled", "port_override.stormctrl_mcast_enabled",
      "port_override.stormctrl_ucast_enabled", "port_override.stp_port_mode"})
  \cup Optional("Int64", {},
          {"port_override.stormctrl_bcast_level", "port_override.stormctrl_bcast_rate",
           "port_override.stormctrl_mcast_level", "port_override.stormctrl_mcast_rate",
           "port_override.stormctrl_ucast_level", "port_override.stormctrl_ucast_rate"})
  \cup Optional("String", {"refusesZero"},
          {"port_override.stormctrl_type", "port_override.tagged_vlan_mgmt"})
  \cup Optional("Set", {}, {"port_override.tagged_networkconf_ids"})
  \cup Optional("String", {}, {"port_override.voice_networkconf_id"})

DeviceGenFields ==
  Fields("BoolField", {},
     {"adopted", "disabled", "flowctrl_enabled", "jumboframe_enabled",
      "lcm_brightness_override", "lcm_idle_timeout_override", "locked", "mesh_sta_vap_enabled",
      "outlet_enabled", "switch_vlan_enabled"})
  \cup Fields("StringField", {"null"},
          {"bandsteering_mode", "led_override", "led_override_color", "mgmt_network_id",
           "outdoor_mode_override", "poe_mode", "stp_version"})
  \cup Fields("Int64PtrField", {"omit", "refused"}, {"lcm_brightness"})
  \cup Fields("StringField", {},
          {"lcm_night_mode_begins", "lcm_night_mode_ends", "model", "name", "x_baresip_password"})
  \cup Fields("Int64PtrField", {}, {"led_override_color_brightness", "stp_priority", "volume"})

DeviceOverrides ==
  Fields("DurationPtrField", {}, {"lcm_idle_timeout"})
  \cup Fields("StringLikeField", {"null"}, {"mac"})
  \cup Fields("Int64Field", {}, {"state"})
  \cup Fields("StringField", {}, {"type"})
  \cup Fields("ObjectListField", {}, {"outlet_overrides"})
  \cup Fields("ObjectField", {}, {"config_network"})

DeviceConfigNetworkMembers ==
  Fields("value", {"null"},
     {"config_network.type", "config_network.ip", "config_network.netmask",
      "config_network.gateway", "config_network.dns1", "config_network.dns2",
      "config_network.dnssuffix"})
  \cup Fields("value", {}, {"config_network.bonding_enabled"})

DeviceOutletMembers ==
  Fields("bare", {}, {"outlet_overrides.index"})
  \cup Fields("value", {"null"}, {"outlet_overrides.name"})
  \cup Fields("value", {}, {"outlet_overrides.relay_state", "outlet_overrides.cycle_enabled"})

DeviceKitSpec ==
  Surface("device", "masked",
    DeviceSchemaFromAdopted \cup DeviceSchemaFromLcmIdleTimeout \cup
    DeviceSchemaFromOutletOverrides \cup DeviceSchemaFromRadioTable \cup DeviceSchemaFromSite \cup
    DeviceSchemaFromPortOverrideIndex \cup DeviceSchemaFromPortOverrideStormctrlBcastEnabled,
    Override(DeviceGenFields, DeviceOverrides \cup DeviceConfigNetworkMembers
             \cup DeviceOutletMembers))

-----------------------------------------------------------------------------
(* unifi_port_profile *)

PortProfileSchemaFromAutoneg ==
  OptionalComputed("Bool", {"default"}, {"autoneg", "lldpmed_enabled"})
  \cup OptionalComputed("String", {"default", "refusesZero"}, {"dot1x_ctrl", "op_mode"})
  \cup OptionalComputed("String", {"default", "duration"}, {"dot1x_idle_timeout"})
  \cup Optional("Int64", {"refusesZero"}, {"egress_rate_limit_kbps"})
  \cup OptionalComputed("Bool", {"zeroDefault"},
          {"egress_rate_limit_kbps_enabled", "full_duplex", "isolation",
           "port_keepalive_enabled"})
  \cup OptionalComputed("Set", {}, {"excluded_networkconf_ids"})
  \cup Optional("String", {"refusesZero"}, {"fec_mode", "poe_mode"})
  \cup OptionalComputed("String", {"refusesZero"}, {"forward"})
  \cup Computed("String", {"stable"}, {"id"})
  \cup Optional("Bool", {}, {"lldpmed_notify_enabled"})
  \cup Optional("Set", {}, {"multicast_router_networkconf_ids"})
  \cup Optional("String", {}, {"name"})
  \cup OptionalComputed("String", {"stable"}, {"native_networkconf_id"})

PortProfileSchemaFromPortSecurityEnabled ==
  OptionalComputed("Bool", {"zeroDefault"},
     {"port_security_enabled", "stormctrl_bcast_enabled", "stormctrl_mcast_enabled",
      "stormctrl_ucast_enabled"})
  \cup Optional("Set", {}, {"port_security_mac_address"})
  \cup Optional("Int64", {},
          {"priority_queue1_level", "priority_queue2_level", "priority_queue3_level",
           "priority_queue4_level", "stormctrl_bcast_level", "stormctrl_bcast_rate",
           "stormctrl_mcast_level", "stormctrl_mcast_rate", "stormctrl_ucast_level"})
  \cup OptionalComputed("String", {"refusesZero"}, {"setting_preference"})
  \cup OptionalComputed("String", {"replace", "stable"}, {"site"})
  \cup Optional("Int64", {"refusesZero"}, {"speed"})
  \cup Optional("String", {"refusesZero"}, {"stormctrl_type"})

PortProfileSchemaFromStormctrlUcastRate ==
  Optional("Int64", {}, {"stormctrl_ucast_rate"})
  \cup OptionalComputed("Bool", {"stable"}, {"stp_port_mode"})
  \cup OptionalComputed("Set", {}, {"tagged_networkconf_ids"})
  \cup OptionalComputed("String", {"refusesZero"}, {"tagged_vlan_mgmt"})
  \cup Optional("String", {}, {"voice_networkconf_id"})

PortProfileGenFieldsFromAutoneg ==
  Fields("BoolField", {},
     {"autoneg", "egress_rate_limit_kbps_enabled", "full_duplex", "isolation",
      "lldpmed_enabled", "lldpmed_notify_enabled", "port_keepalive_enabled",
      "port_security_enabled", "stormctrl_bcast_enabled", "stormctrl_mcast_enabled"})
  \cup Fields("Int64PtrField", {"null", "omit", "refused"}, {"egress_rate_limit_kbps", "speed"})
  \cup Fields("StringField", {"null"}, {"fec_mode", "name", "poe_mode", "setting_preference"})
  \cup Fields("StringSetField", {"null"},
          {"multicast_router_networkconf_ids", "port_security_mac_address"})
  \cup Fields("StringField", {}, {"native_networkconf_id"})
  \cup Fields("Int64PtrField", {"null"},
          {"priority_queue1_level", "priority_queue2_level", "priority_queue3_level",
           "priority_queue4_level", "stormctrl_bcast_level", "stormctrl_bcast_rate",
           "stormctrl_mcast_level"})

PortProfileGenFieldsFromStormctrlMcastRate ==
  Fields("Int64PtrField", {"null"},
     {"stormctrl_mcast_rate", "stormctrl_ucast_level", "stormctrl_ucast_rate"})
  \cup Fields("StringField", {"null"}, {"stormctrl_type", "voice_networkconf_id"})
  \cup Fields("BoolField", {}, {"stormctrl_ucast_enabled", "stp_port_mode"})

PortProfileOverrides ==
  Fields("StringField", {"readDefault"}, {"dot1x_ctrl", "forward", "op_mode"})
  \cup Fields("DurationPtrField", {}, {"dot1x_idle_timeout"})
  \cup Fields("StringField", {"null"}, {"tagged_vlan_mgmt"})

PortProfileKitSpec ==
  Surface("port_profile", "post",
    PortProfileSchemaFromAutoneg \cup PortProfileSchemaFromPortSecurityEnabled \cup
    PortProfileSchemaFromStormctrlUcastRate,
    Override(PortProfileGenFieldsFromAutoneg \cup PortProfileGenFieldsFromStormctrlMcastRate,
    PortProfileOverrides))

-----------------------------------------------------------------------------
(* unifi_power_supervisor *)

PowerSupervisorSchema ==
  Computed("Int64", {"stable"}, {"consecutive_failures"})
  \cup Required("String", {"refusesZero", "replace", "typed"}, {"device_mac"})
  \cup OptionalComputed("Bool", {"default"}, {"enabled"})
  \cup OptionalComputed("String", {"default", "duration"},
          {"heartbeat_interval", "power_off_duration", "silence_threshold"})
  \cup Computed("String", {"stable"}, {"id"})
  \cup Computed("ObjectList", {"stable"}, {"power_sources"})
  \cup Computed("Int64", {},
          {"power_sources.client_psu_index", "power_sources.power_source_index"})
  \cup Computed("String", {},
          {"power_sources.power_source_mac", "power_sources.power_source_type"})
  \cup OptionalComputed("String", {"replace", "stable"}, {"site"})

PowerSupervisorGenFields ==
  Fields("BoolField", {}, {"enabled"})

PowerSupervisorOverrides ==
  Fields("StringLikeField", {}, {"device_mac"})
  \cup Fields("ObjectListField", {"readOnly"}, {"power_sources"})

PowerSupervisorKitSpec ==
  Surface("power_supervisor", "post",
    PowerSupervisorSchema,
    Override(PowerSupervisorGenFields, PowerSupervisorOverrides))

-----------------------------------------------------------------------------
(* unifi_wlan *)

WlanSchemaFromApGroupIds ==
  OptionalComputed("Set", {"refusesZero", "stable"}, {"ap_group_ids"})
  \cup OptionalComputed("String", {"default", "refusesZero"}, {"ap_group_mode", "dtim_mode"})
  \cup OptionalComputed("Set", {"stable"}, {"bc_filter_list"})
  \cup OptionalComputed("Bool", {"zeroDefault"},
          {"bss_transition", "enhanced_iot", "fast_roaming_enabled", "hide_ssid",
           "hotspot2conf_enabled"})
  \cup OptionalComputed("Int64", {"refusesZero", "stable"}, {"dtim_6e", "dtim_na", "dtim_ng"})
  \cup OptionalComputed("Bool", {"default"}, {"enabled"})
  \cup OptionalComputed("Int64", {"default"}, {"group_rekey"})
  \cup OptionalComputed("Bool", {"stable"}, {"iapp_enabled"})
  \cup Computed("String", {"stable"}, {"id"})

WlanSchemaFromIsGuest ==
  OptionalComputed("Bool", {"zeroDefault"},
     {"is_guest", "l2_isolation", "mac_filter.enabled", "mlo_enabled", "multicast_enhance"})
  \cup OptionalComputed("Object", {"stable"}, {"mac_filter"})
  \cup Optional("Set", {}, {"mac_filter.list"})
  \cup OptionalComputed("String", {"default", "refusesZero"},
          {"mac_filter.policy", "nas_identifier_type"})
  \cup OptionalComputed("Int64", {"refusesZero", "sibling"},
          {"minimum_data_rate_2g_kbps", "minimum_data_rate_5g_kbps"})
  \cup OptionalComputed("String", {"refusesZero", "stable"}, {"minrate_setting_preference"})
  \cup Required("String", {"refusesZero"}, {"name"})
  \cup OptionalComputed("String", {"stable"}, {"network_id"})
  \cup OptionalComputed("Bool", {"default"}, {"no2ghz_oui"})
  \cup Optional("String", {"refusesZero"}, {"passphrase"})

WlanSchemaFromPmfMode ==
  OptionalComputed("String", {"default", "refusesZero"}, {"pmf_mode"})
  \cup Optional("ObjectList", {}, {"private_preshared_keys"})
  \cup OptionalComputed("String", {"zeroDefault"}, {"private_preshared_keys.network_id"})
  \cup Required("String", {"refusesZero"}, {"private_preshared_keys.password", "security"})
  \cup OptionalComputed("Bool", {"zeroDefault"},
          {"private_preshared_keys_enabled", "proxy_arp", "radius_mac_auth_enabled", "uapsd"})
  \cup OptionalComputed("String", {"stable"}, {"radius_profile_id"})
  \cup OptionalComputed("Bool", {"stable"},
          {"roaming_assistant_6e_enabled", "roaming_assistant_na_enabled"})
  \cup OptionalComputed("Int64", {"refusesZero", "stable"},
          {"roaming_assistant_6e_rssi", "roaming_assistant_na_rssi"})
  \cup OptionalComputed("String", {"replace", "stable"}, {"site"})
  \cup Required("String", {}, {"user_group_id"})
  \cup Optional("Int64", {"refusesZero"}, {"vlan"})

WlanSchemaFromVlanEnabled ==
  OptionalComputed("Bool", {"zeroDefault"},
     {"vlan_enabled", "wpa3_enhanced_192", "wpa3_fast_roaming", "wpa3_support",
      "wpa3_transition"})
  \cup OptionalComputed("String", {"default", "refusesZero"},
          {"wlan_band", "wpa_enc", "wpa_mode"})
  \cup OptionalComputed("Set", {"default"}, {"wlan_bands"})
  \cup Block("ObjectList", {}, {"schedule"})
  \cup Required("String", {"refusesZero"}, {"schedule.day_of_week"})
  \cup Required("String", {"duration", "refusesZero"}, {"schedule.duration"})
  \cup Optional("String", {}, {"schedule.name"})
  \cup Required("Int64", {}, {"schedule.start_hour"})
  \cup OptionalComputed("Int64", {"zeroDefault"}, {"schedule.start_minute"})

WlanGenFieldsFromApGroupIds ==
  Fields("StringSetField", {}, {"ap_group_ids", "bc_filter_list"})
  \cup Fields("StringField", {"null"},
          {"ap_group_mode", "dtim_mode", "minrate_setting_preference", "nas_identifier_type",
           "pmf_mode"})
  \cup Fields("BoolField", {},
          {"bss_transition", "enabled", "enhanced_iot", "fast_roaming_enabled", "hide_ssid",
           "hotspot2conf_enabled", "iapp_enabled", "is_guest", "l2_isolation",
           "multicast_enhance", "mlo_enabled", "no2ghz_oui", "private_preshared_keys_enabled"})
  \cup Fields("Int64PtrField", {"omit", "refused"}, {"dtim_6e", "dtim_na", "dtim_ng"})
  \cup Fields("Int64PtrField", {}, {"group_rekey"})
  \cup Fields("StringField", {}, {"name", "network_id"})

WlanGenFieldsFromProxyArp ==
  Fields("BoolField", {},
     {"proxy_arp", "radius_mac_auth_enabled", "roaming_assistant_6e_enabled",
      "roaming_assistant_na_enabled", "uapsd", "vlan_enabled", "wpa3_enhanced_192",
      "wpa3_fast_roaming", "wpa3_support", "wpa3_transition"})
  \cup Fields("StringField", {}, {"radius_profile_id", "security", "user_group_id"})
  \cup Fields("Int64PtrField", {"omit", "refused"},
          {"roaming_assistant_6e_rssi", "roaming_assistant_na_rssi"})
  \cup Fields("Int64PtrField", {"null", "omit", "refused"}, {"vlan"})
  \cup Fields("StringSetField", {}, {"wlan_bands"})
  \cup Fields("StringField", {"null"}, {"wpa_enc", "wpa_mode", "passphrase"})

WlanOverrides ==
  Fields("Int64PtrField", {"omit"}, {"minimum_data_rate_2g_kbps", "minimum_data_rate_5g_kbps"})
  \cup Fields("StringField", {"readDefault", "readOnly"}, {"wlan_band"})
  \cup Fields("ScatteredObjectField", {}, {"mac_filter"})
  \cup Fields("ObjectListField", {"null"}, {"private_preshared_keys"})

WlanMacFilterMembers ==
  Fields("value", {"whole", "built"}, {"mac_filter.enabled"})
  \cup Fields("value", {"null", "whole", "built"}, {"mac_filter.policy", "mac_filter.list"})

WlanPrivatePresharedKeysMembers ==
  Fields("value", {}, {"private_preshared_keys.network_id", "private_preshared_keys.password"})

WlanKitSpec ==
  Surface("wlan", "post",
    WlanSchemaFromApGroupIds \cup WlanSchemaFromIsGuest \cup WlanSchemaFromPmfMode \cup
    WlanSchemaFromVlanEnabled,
    Override(WlanGenFieldsFromApGroupIds \cup WlanGenFieldsFromProxyArp,
    WlanOverrides \cup WlanMacFilterMembers \cup WlanPrivatePresharedKeysMembers))

-----------------------------------------------------------------------------
(* unifi_wlan_group *)

WlanGroupSchema ==
  Computed("String", {"stable"}, {"id"})
  \cup Required("String", {"refusesZero"}, {"name"})
  \cup OptionalComputed("String", {"replace", "stable"}, {"site"})

WlanGroupGenFields ==
  Fields("StringField", {}, {"name"})

WlanGroupKitSpec ==
  Surface("wlan_group", "post",
    WlanGroupSchema,
    WlanGroupGenFields)

-----------------------------------------------------------------------------
(* unifi_ap_group *)

ApGroupSchema ==
  Required("Set", {"macs", "stable"}, {"device_macs"})
  \cup Computed("String", {"stable"}, {"id"})
  \cup Required("String", {"refusesZero"}, {"name"})
  \cup OptionalComputed("String", {"replace", "stable"}, {"site"})

ApGroupGenFields ==
  Fields("StringField", {}, {"name"})

ApGroupOverrides ==
  Fields("StringSetField", {"keepPrior"}, {"device_macs"})

ApGroupKitSpec ==
  Surface("ap_group", "post",
    ApGroupSchema,
    Override(ApGroupGenFields, ApGroupOverrides))

-----------------------------------------------------------------------------
(* unifi_client *)

ClientSchemaFromAllowExisting ==
  OptionalComputed("Bool", {"default", "stable"}, {"allow_existing"})
  \cup OptionalComputed("Bool", {"stable", "zeroDefault"}, {"blocked"})
  \cup OptionalComputed("String", {"stable"},
          {"display_name", "fixed_ip", "local_dns_record", "name", "network_id", "note"})
  \cup OptionalComputed("String", {"refusesZero", "stable", "typed"}, {"fixed_ap_mac"})
  \cup OptionalComputed("List", {"stable"}, {"groups"})
  \cup Computed("String", {"stable"}, {"hostname", "id", "last_ip"})
  \cup Required("String", {"refusesZero", "replace", "typed"}, {"mac"})

ClientSchemaFromQosRate ==
  OptionalComputed("Object", {"stable"}, {"qos_rate"})
  \cup OptionalComputed("String", {}, {"qos_rate.id", "qos_rate.name"})
  \cup OptionalComputed("Int64", {}, {"qos_rate.max_down", "qos_rate.max_up"})
  \cup OptionalComputed("String", {"replace", "stable"}, {"site"})
  \cup OptionalComputed("Bool", {"stable", "zeroDefault"}, {"skip_forget_on_destroy"})

ClientGenFields ==
  Fields("BoolPtrField", {}, {"blocked"})
  \cup Fields("StringField", {},
          {"display_name", "fixed_ip", "hostname", "last_ip", "local_dns_record", "name",
           "note", "network_id"})

ClientOverrides ==
  Fields("StringLikeField", {}, {"mac"})
  \cup Fields("StringLikeField", {"null"}, {"fixed_ap_mac"})

ClientKitSpec ==
  Surface("client", "post",
    ClientSchemaFromAllowExisting \cup ClientSchemaFromQosRate,
    Override(ClientGenFields, ClientOverrides))

-----------------------------------------------------------------------------
(* unifi_client_qos_rate *)

ClientQosRateSchema ==
  Computed("String", {"stable"}, {"id"})
  \cup Required("String", {"refusesZero"}, {"name"})
  \cup OptionalComputed("Int64", {"default", "refusesZero"},
          {"qos_rate_max_down", "qos_rate_max_up"})
  \cup OptionalComputed("String", {"replace", "stable"}, {"site"})

ClientQosRateGenFields ==
  Fields("StringField", {}, {"name"})
  \cup Fields("Int64PtrField", {"omit", "refused"}, {"qos_rate_max_down", "qos_rate_max_up"})

ClientQosRateKitSpec ==
  Surface("client_qos_rate", "post",
    ClientQosRateSchema,
    ClientQosRateGenFields)

-----------------------------------------------------------------------------
DeviceSpecs ==
  { DeviceKitSpec, PortProfileKitSpec, PowerSupervisorKitSpec, WlanKitSpec, WlanGroupKitSpec,
    ApGroupKitSpec, ClientKitSpec, ClientQosRateKitSpec }
=============================================================================
