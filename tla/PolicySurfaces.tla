--------------------------- MODULE PolicySurfaces ---------------------------
(***************************************************************************)
(* The surfaces of firewalling, filtering, accounts and schedules: for     *)
(* each resource its schema, the fields its descriptor carries, and the    *)
(* two joined as its kit spec.                                             *)
(***************************************************************************)
EXTENDS SurfaceKit

-----------------------------------------------------------------------------
(* unifi_firewall_group *)

FirewallGroupSchema ==
  Computed("String", {"stable"}, {"id"})
  \cup Required("Set", {}, {"members"})
  \cup Required("String", {"refusesZero"}, {"name", "type"})
  \cup OptionalComputed("String", {"replace", "stable"}, {"site"})

FirewallGroupGenFields ==
  Fields("StringSetField", {}, {"members"})
  \cup Fields("StringField", {}, {"type", "name"})

FirewallGroupKitSpec ==
  Surface("firewall_group", "post",
    FirewallGroupSchema,
    FirewallGroupGenFields)

-----------------------------------------------------------------------------
(* unifi_firewall_policy *)

FirewallPolicySchemaFromAction ==
  Required("String", {"refusesZero"}, {"action"})
  \cup OptionalComputed("String", {"refusesZero", "stable"}, {"connection_state_type"})
  \cup OptionalComputed("List", {"stable"}, {"connection_states"})
  \cup OptionalComputed("Bool", {"zeroDefault"}, {"create_allow_respond"})
  \cup OptionalComputed("String", {"zeroDefault"}, {"description"})

FirewallPolicySchemaFromDestination ==
  Required("Object", {}, {"destination"})
  \cup OptionalComputed("List", {"stable"},
          {"destination.client_macs", "destination.ips", "destination.network_ids",
           "destination.web_domains"})
  \cup OptionalComputed("String", {"zeroDefault"},
          {"destination.ip_group_id", "destination.port_group_id"})
  \cup OptionalComputed("Bool", {"stable"},
          {"destination.match_mac", "destination.match_opposite_ips",
           "destination.match_opposite_networks", "destination.match_opposite_ports"})
  \cup Required("String", {"refusesZero"}, {"destination.matching_target"})
  \cup Computed("String", {"refusesZero", "stable"}, {"destination.matching_target_type"})
  \cup OptionalComputed("String", {"refusesZero", "stable"}, {"destination.port"})
  \cup OptionalComputed("String", {"default", "refusesZero"}, {"destination.port_matching_type"})
  \cup Required("String", {}, {"destination.zone_id"})
  \cup OptionalComputed("Bool", {"default"}, {"enabled"})

FirewallPolicySchemaFromIcmpTypename ==
  Computed("String", {"refusesZero", "stable"}, {"icmp_typename", "icmp_v6_typename"})
  \cup Computed("String", {"stable"}, {"id"})
  \cup Computed("Int64", {"stable"}, {"index"})
  \cup OptionalComputed("String", {"default", "refusesZero"}, {"ip_version", "protocol"})
  \cup OptionalComputed("Bool", {"zeroDefault"}, {"logging"})
  \cup Required("String", {}, {"name"})

FirewallPolicySchemaFromSchedule ==
  OptionalComputed("Object", {"stable"}, {"schedule"})
  \cup OptionalComputed("String", {"stable"},
          {"schedule.date", "schedule.date_end", "schedule.date_start",
           "schedule.time_range_end", "schedule.time_range_start", "site"})
  \cup OptionalComputed("String", {"refusesZero", "stable"}, {"schedule.mode"})
  \cup OptionalComputed("List", {"stable"}, {"schedule.repeat_on_days"})
  \cup OptionalComputed("Bool", {"stable"}, {"schedule.time_all_day"})

FirewallPolicySchemaFromSource ==
  Required("Object", {}, {"source"})
  \cup OptionalComputed("List", {"stable"},
          {"source.client_macs", "source.ips", "source.network_ids", "source.web_domains"})
  \cup OptionalComputed("String", {"zeroDefault"}, {"source.ip_group_id", "source.port_group_id"})
  \cup OptionalComputed("Bool", {"stable"},
          {"source.match_mac", "source.match_opposite_ips", "source.match_opposite_networks",
           "source.match_opposite_ports"})
  \cup Required("String", {"refusesZero"}, {"source.matching_target"})
  \cup Computed("String", {"refusesZero", "stable"}, {"source.matching_target_type"})
  \cup OptionalComputed("String", {"refusesZero", "stable"}, {"source.port"})
  \cup OptionalComputed("String", {"default", "refusesZero"}, {"source.port_matching_type"})
  \cup Required("String", {}, {"source.zone_id"})

FirewallPolicyGenFields ==
  Fields("StringField", {},
     {"action", "description", "icmp_typename", "icmp_v6_typename", "name"})
  \cup Fields("StringField", {"null"}, {"connection_state_type", "ip_version", "protocol"})
  \cup Fields("StringListField", {}, {"connection_states"})
  \cup Fields("BoolField", {}, {"create_allow_respond", "enabled", "logging"})

FirewallPolicyOverrides ==
  Fields("Int64PtrField", {"readOnly"}, {"index"})
  \cup Fields("ObjectField", {}, {"schedule", "source", "destination"})

\* matching_target_type is derived from two other members of the endpoint.
FirewallPolicyEndpointMembers(endpoint) ==
  Fields("value", {},
     { endpoint \o "." \o m :
         m \in {"zone_id", "matching_target", "port_group_id", "ip_group_id",
                "port_matching_type", "match_mac", "match_opposite_ips",
                "match_opposite_networks", "match_opposite_ports"} })
  \cup Fields("value", {"null"}, { endpoint \o ".port" })
  \cup Fields("value", {"absentIsNull"},
          { endpoint \o "." \o m : m \in {"network_ids", "client_macs", "ips", "web_domains"} })

FirewallPolicyScheduleMembers ==
  Fields("value", {},
     {"schedule.date", "schedule.date_start", "schedule.date_end", "schedule.time_range_start",
      "schedule.time_range_end"})
  \cup Fields("inferred", {}, {"schedule.mode"})
  \cup Fields("bare", {}, {"schedule.time_all_day"})
  \cup Fields("value", {"absentIsNull"}, {"schedule.repeat_on_days"})

FirewallPolicyKitSpec ==
  Surface("firewall_policy", "post",
    FirewallPolicySchemaFromAction \cup FirewallPolicySchemaFromDestination \cup
    FirewallPolicySchemaFromIcmpTypename \cup FirewallPolicySchemaFromSchedule \cup
    FirewallPolicySchemaFromSource,
    Override(FirewallPolicyGenFields, FirewallPolicyOverrides
             \cup FirewallPolicyEndpointMembers("source")
             \cup FirewallPolicyEndpointMembers("destination") \cup FirewallPolicyScheduleMembers))

-----------------------------------------------------------------------------
(* unifi_firewall_rule *)

FirewallRuleSchemaFromAction ==
  Required("String", {"refusesZero"}, {"action", "name", "ruleset"})
  \cup Optional("String", {},
          {"dst_address", "dst_address_ipv6", "dst_network_id", "dst_port", "icmp_typename",
           "icmp_v6_typename", "protocol", "protocol_v6"})
  \cup Optional("Set", {}, {"dst_firewall_group_ids"})
  \cup OptionalComputed("String", {"default", "refusesZero"}, {"dst_network_type"})
  \cup OptionalComputed("Bool", {"default"}, {"enabled"})
  \cup Computed("String", {"stable"}, {"id"})
  \cup Optional("String", {"refusesZero"}, {"ip_sec"})
  \cup OptionalComputed("Bool", {"zeroDefault"}, {"logging", "protocol_match_excepted"})
  \cup Required("Int64", {"refusesZero"}, {"rule_index"})

FirewallRuleSchemaFromSettingPreference ==
  OptionalComputed("String", {"refusesZero"}, {"setting_preference"})
  \cup OptionalComputed("String", {"replace", "stable"}, {"site"})
  \cup Optional("String", {}, {"src_address", "src_address_ipv6", "src_network_id", "src_port"})
  \cup Optional("Set", {}, {"src_firewall_group_ids"})
  \cup Optional("String", {"refusesZero", "typed"}, {"src_mac"})
  \cup OptionalComputed("String", {"default", "refusesZero"}, {"src_network_type"})
  \cup OptionalComputed("Bool", {"zeroDefault"},
          {"state_established", "state_invalid", "state_new", "state_related"})

FirewallRuleGenFieldsFromAction ==
  Fields("StringField", {}, {"action", "name", "ruleset"})
  \cup Fields("StringField", {"null"},
          {"dst_address", "dst_address_ipv6", "dst_network_id", "dst_port", "icmp_typename",
           "icmp_v6_typename", "ip_sec", "protocol", "protocol_v6", "setting_preference",
           "src_address", "src_address_ipv6", "src_network_id", "src_port"})
  \cup Fields("StringSetField", {"null"}, {"dst_firewall_group_ids", "src_firewall_group_ids"})
  \cup Fields("BoolField", {},
          {"enabled", "logging", "protocol_match_excepted", "state_established",
           "state_invalid", "state_new"})
  \cup Fields("Int64PtrField", {"refused", "pinned"}, {"rule_index"})

FirewallRuleGenFieldsFromStateRelated ==
  Fields("BoolField", {}, {"state_related"})

FirewallRuleOverrides ==
  Fields("StringField", {"readDefault"}, {"src_network_type", "dst_network_type"})
  \cup Fields("StringLikeField", {"null"}, {"src_mac"})

FirewallRuleKitSpec ==
  Surface("firewall_rule", "post",
    FirewallRuleSchemaFromAction \cup FirewallRuleSchemaFromSettingPreference,
    Override(FirewallRuleGenFieldsFromAction \cup FirewallRuleGenFieldsFromStateRelated,
    FirewallRuleOverrides))

-----------------------------------------------------------------------------
(* unifi_firewall_zone *)

FirewallZoneSchema ==
  Computed("Bool", {}, {"default_zone"})
  \cup Computed("String", {"stable"}, {"id", "zone_key"})
  \cup Required("String", {}, {"name"})
  \cup OptionalComputed("List", {}, {"network_ids"})
  \cup OptionalComputed("String", {"replace", "stable"}, {"site"})

FirewallZoneGenFields ==
  Fields("StringField", {}, {"name"})
  \cup Fields("StringListField", {}, {"network_ids"})

FirewallZoneOverrides ==
  Fields("StringField", {"readOnly"}, {"zone_key"})
  \cup Fields("BoolPtrField", {"readOnly"}, {"default_zone"})

FirewallZoneKitSpec ==
  Surface("firewall_zone", "post",
    FirewallZoneSchema,
    Override(FirewallZoneGenFields, FirewallZoneOverrides))

-----------------------------------------------------------------------------
(* unifi_content_filtering *)

ContentFilteringSchema ==
  Optional("List", {}, {"allow_list", "block_list", "client_macs", "network_ids", "safe_search"})
  \cup Required("List", {}, {"categories"})
  \cup OptionalComputed("Bool", {"default"}, {"enabled"})
  \cup Computed("String", {"stable"}, {"id"})
  \cup Required("String", {}, {"name"})
  \cup Required("Object", {}, {"schedule"})
  \cup Optional("String", {}, {"schedule.mode"})
  \cup OptionalComputed("String", {"replace", "stable"}, {"site"})

ContentFilteringGenFields ==
  Fields("StringListField", {"null"},
     {"allow_list", "block_list", "client_macs", "network_ids", "safe_search"})
  \cup Fields("StringListField", {}, {"categories"})
  \cup Fields("BoolField", {}, {"enabled"})
  \cup Fields("StringField", {}, {"name"})

ContentFilteringOverrides ==
  Fields("ObjectField", {}, {"schedule"})

ContentFilteringScheduleMembers ==
  Fields("value", {"null"}, {"schedule.mode"})

ContentFilteringKitSpec ==
  Surface("content_filtering", "post",
    ContentFilteringSchema,
    Override(ContentFilteringGenFields,
             ContentFilteringOverrides \cup ContentFilteringScheduleMembers))

-----------------------------------------------------------------------------
(* unifi_dpi_app *)

DpiAppSchema ==
  Optional("List", {}, {"apps", "cats"})
  \cup OptionalComputed("Bool", {"zeroDefault"}, {"blocked", "log"})
  \cup OptionalComputed("Bool", {"default"}, {"enabled"})
  \cup Computed("String", {"stable"}, {"id"})
  \cup Required("String", {"refusesZero"}, {"name"})
  \cup Optional("Int64", {}, {"qos_rate_max_down", "qos_rate_max_up"})
  \cup OptionalComputed("String", {"replace", "stable"}, {"site"})

DpiAppGenFields ==
  Fields("Int64ListField", {"null"}, {"apps", "cats"})
  \cup Fields("BoolField", {}, {"blocked", "enabled", "log"})
  \cup Fields("StringField", {}, {"name"})
  \cup Fields("Int64PtrField", {"null", "omit", "refused"}, {"qos_rate_max_down", "qos_rate_max_up"})

DpiAppKitSpec ==
  Surface("dpi_app", "post",
    DpiAppSchema,
    DpiAppGenFields)

-----------------------------------------------------------------------------
(* unifi_dpi_group *)

DpiGroupSchema ==
  Optional("List", {}, {"dpiapp_ids"})
  \cup OptionalComputed("Bool", {"default"}, {"enabled"})
  \cup Computed("String", {"stable"}, {"id"})
  \cup Required("String", {"refusesZero"}, {"name"})
  \cup OptionalComputed("String", {"replace", "stable"}, {"site"})

DpiGroupGenFields ==
  Fields("StringListField", {"null"}, {"dpiapp_ids"})
  \cup Fields("BoolField", {}, {"enabled"})
  \cup Fields("StringField", {}, {"name"})

DpiGroupKitSpec ==
  Surface("dpi_group", "post",
    DpiGroupSchema,
    DpiGroupGenFields)

-----------------------------------------------------------------------------
(* unifi_radius_profile *)

RadiusProfileSchemaFromAccountingEnabled ==
  OptionalComputed("Bool", {"zeroDefault"},
     {"accounting_enabled", "interim_update_enabled", "use_usg_acct_server", "vlan_enabled"})
  \cup Computed("String", {"stable"}, {"id"})
  \cup OptionalComputed("String", {"default", "duration"}, {"interim_update_interval"})
  \cup Required("String", {"refusesZero"}, {"name"})
  \cup OptionalComputed("String", {"replace", "stable"}, {"site"})
  \cup OptionalComputed("Bool", {"stable"}, {"use_usg_auth_server"})
  \cup OptionalComputed("String", {"refusesZero", "stable"}, {"vlan_wlan_mode"})
  \cup Block("ObjectList", {}, {"acct_server"})
  \cup Optional("String", {"refusesZero"}, {"acct_server.ip"})
  \cup OptionalComputed("Int64", {"default", "refusesZero"}, {"acct_server.port"})
  \cup Required("String", {}, {"acct_server.secret"})

RadiusProfileSchemaFromAuthServer ==
  Block("ObjectList", {}, {"auth_server"})
  \cup Optional("String", {"refusesZero"}, {"auth_server.ip"})
  \cup OptionalComputed("Int64", {"default", "refusesZero"}, {"auth_server.port"})
  \cup Required("String", {}, {"auth_server.secret"})

RadiusProfileGenFields ==
  Fields("BoolField", {},
     {"accounting_enabled", "interim_update_enabled", "use_usg_acct_server",
      "use_usg_auth_server", "vlan_enabled"})
  \cup Fields("StringField", {}, {"name"})
  \cup Fields("StringField", {"null"}, {"vlan_wlan_mode"})

RadiusProfileOverrides ==
  Fields("DurationPtrField", {}, {"interim_update_interval"})
  \cup Fields("ObjectListField", {"null"}, {"acct_server", "auth_server"})

RadiusServerMembers(server) ==
  Fields("value", {}, { server \o ".ip", server \o ".secret" })
  \cup Fields("pointer", {"omit", "refused", "pinned"}, { server \o ".port" })

RadiusProfileKitSpec ==
  Surface("radius_profile", "post",
    RadiusProfileSchemaFromAccountingEnabled \cup RadiusProfileSchemaFromAuthServer,
    Override(RadiusProfileGenFields, RadiusProfileOverrides
             \cup RadiusServerMembers("acct_server") \cup RadiusServerMembers("auth_server")))

-----------------------------------------------------------------------------
(* unifi_radius_user *)

RadiusUserSchema ==
  Computed("String", {"stable"}, {"id"})
  \cup Required("String", {"refusesZero"}, {"name"})
  \cup Optional("String", {}, {"network_id"})
  \cup Required("String", {}, {"password"})
  \cup OptionalComputed("String", {"replace", "stable"}, {"site"})
  \cup Optional("String", {"refusesZero"}, {"tunnel_config_type"})
  \cup OptionalComputed("Int64", {"default", "refusesZero"},
          {"tunnel_medium_type", "tunnel_type"})
  \cup OptionalComputed("Int64", {"refusesZero", "stable"}, {"vlan"})

RadiusUserGenFields ==
  Fields("StringField", {}, {"name", "password"})
  \cup Fields("StringField", {"null"}, {"network_id", "tunnel_config_type"})
  \cup Fields("Int64PtrField", {"omit", "refused"}, {"tunnel_medium_type", "tunnel_type"})

RadiusUserOverrides ==
  Fields("Int64PtrField", {"omit", "refused"}, {"vlan"})

RadiusUserKitSpec ==
  Surface("radius_user", "post",
    RadiusUserSchema,
    Override(RadiusUserGenFields, RadiusUserOverrides))

-----------------------------------------------------------------------------
(* unifi_hotspot_op *)

HotspotOpSchema ==
  Computed("String", {"stable"}, {"id"})
  \cup Required("String", {"refusesZero"}, {"name", "password"})
  \cup Optional("String", {}, {"note"})
  \cup OptionalComputed("String", {"replace", "stable"}, {"site"})

HotspotOpGenFields ==
  Fields("StringField", {}, {"name", "password"})
  \cup Fields("StringField", {"null"}, {"note"})

HotspotOpKitSpec ==
  Surface("hotspot_op", "post",
    HotspotOpSchema,
    HotspotOpGenFields)

-----------------------------------------------------------------------------
(* unifi_hotspot_package *)

HotspotPackageSchemaFromAmount ==
  Optional("Float64", {}, {"amount"})
  \cup Optional("String", {}, {"charged_as"})
  \cup Optional("String", {"refusesZero"}, {"currency"})
  \cup OptionalComputed("Bool", {"stable"},
          {"custom_payment_fields_enabled", "limit_overwrite", "payment_fields_address_enabled",
           "payment_fields_address_required", "payment_fields_city_enabled",
           "payment_fields_city_required", "payment_fields_country_enabled",
           "payment_fields_country_required", "payment_fields_email_enabled",
           "payment_fields_email_required"})
  \cup Optional("Int64", {}, {"hours", "index", "limit_down", "limit_quota", "limit_up"})
  \cup Computed("String", {"stable"}, {"id"})
  \cup Required("String", {}, {"name"})

HotspotPackageSchemaFromPaymentFieldsFirstNameEnabled ==
  OptionalComputed("Bool", {"stable"},
     {"payment_fields_first_name_enabled", "payment_fields_first_name_required",
      "payment_fields_last_name_enabled", "payment_fields_last_name_required",
      "payment_fields_state_enabled", "payment_fields_state_required",
      "payment_fields_zip_enabled", "payment_fields_zip_required"})
  \cup OptionalComputed("String", {"replace", "stable"}, {"site"})
  \cup Required("Int64", {}, {"trial_duration_minutes"})
  \cup Optional("Float64", {}, {"trial_reset"})

HotspotPackageGenFields ==
  Fields("StringField", {"null"}, {"charged_as", "currency"})
  \cup Fields("BoolField", {},
          {"custom_payment_fields_enabled", "limit_overwrite", "payment_fields_address_enabled",
           "payment_fields_address_required", "payment_fields_city_enabled",
           "payment_fields_city_required", "payment_fields_country_enabled",
           "payment_fields_country_required", "payment_fields_email_enabled",
           "payment_fields_email_required", "payment_fields_first_name_enabled",
           "payment_fields_first_name_required", "payment_fields_last_name_enabled",
           "payment_fields_last_name_required", "payment_fields_state_enabled",
           "payment_fields_state_required", "payment_fields_zip_enabled",
           "payment_fields_zip_required"})
  \cup Fields("Int64PtrField", {"null"},
          {"hours", "index", "limit_down", "limit_quota", "limit_up"})
  \cup Fields("StringField", {}, {"name"})
  \cup Fields("Int64PtrField", {}, {"trial_duration_minutes"})

HotspotPackageOverrides ==
  Fields("Float64Field", {"null"}, {"amount", "trial_reset"})

HotspotPackageKitSpec ==
  Surface("hotspot_package", "post",
    HotspotPackageSchemaFromAmount \cup HotspotPackageSchemaFromPaymentFieldsFirstNameEnabled,
    Override(HotspotPackageGenFields, HotspotPackageOverrides))

-----------------------------------------------------------------------------
(* unifi_schedule_task *)

ScheduleTaskSchema ==
  OptionalComputed("String", {"default", "refusesZero"}, {"action"})
  \cup Required("String", {}, {"cron_expr", "name"})
  \cup Required("Bool", {}, {"execute_only_once"})
  \cup Computed("String", {"stable"}, {"id"})
  \cup OptionalComputed("String", {"replace", "stable"}, {"site"})
  \cup Required("ObjectList", {}, {"upgrade_targets"})
  \cup Required("String", {"refusesZero"}, {"upgrade_targets.mac"})

ScheduleTaskGenFields ==
  Fields("StringField", {"null"}, {"action"})
  \cup Fields("StringField", {}, {"cron_expr", "name"})
  \cup Fields("BoolField", {}, {"execute_only_once"})

ScheduleTaskOverrides ==
  Fields("ObjectListField", {}, {"upgrade_targets"})

ScheduleTaskTargetMembers ==
  Fields("value", {}, {"upgrade_targets.mac"})

ScheduleTaskKitSpec ==
  Surface("schedule_task", "post",
    ScheduleTaskSchema,
    Override(ScheduleTaskGenFields, ScheduleTaskOverrides \cup ScheduleTaskTargetMembers))

-----------------------------------------------------------------------------
(* unifi_site *)

SiteSchema ==
  Required("String", {}, {"description"})
  \cup Computed("String", {"stable"}, {"id", "name"})

SiteGenFields ==
  Fields("StringField", {}, {"description"})

SiteOverrides ==
  Fields("StringField", {"readOnly"}, {"name"})

SiteKitSpec ==
  Surface("site", "post",
    SiteSchema,
    Override(SiteGenFields, SiteOverrides))

-----------------------------------------------------------------------------
PolicySpecs ==
  { FirewallGroupKitSpec, FirewallPolicyKitSpec, FirewallRuleKitSpec, FirewallZoneKitSpec,
    ContentFilteringKitSpec, DpiAppKitSpec, DpiGroupKitSpec, RadiusProfileKitSpec,
    RadiusUserKitSpec, HotspotOpKitSpec, HotspotPackageKitSpec, ScheduleTaskKitSpec, SiteKitSpec }
=============================================================================
