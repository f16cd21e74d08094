-------------------------- MODULE SettingSurfaces ---------------------------
(***************************************************************************)
(* The sections of unifi_setting: for each one its schema, the fields its  *)
(* descriptor carries, and the two joined as the section's kit spec.  A    *)
(* section is saved by read-merge-write of one settings document and state *)
(* is what the document then reads back as, hence the mode "composite".    *)
(***************************************************************************)
EXTENDS SurfaceKit

-----------------------------------------------------------------------------
(* unifi_setting.auto_speedtest *)

SettingAutoSpeedtestSchema ==
  OptionalComputed("String", {}, {"cron_expr"})
  \cup OptionalComputed("Bool", {"zeroDefault"}, {"enabled"})

SettingAutoSpeedtestGenFields ==
  Fields("StringField", {}, {"cron_expr"})
  \cup Fields("BoolField", {}, {"enabled"})

SettingAutoSpeedtestKitSpec ==
  Surface("setting_auto_speedtest", "composite",
    SettingAutoSpeedtestSchema,
    SettingAutoSpeedtestGenFields)

-----------------------------------------------------------------------------
(* unifi_setting.connectivity *)

SettingConnectivitySchema ==
  OptionalComputed("Bool", {}, {"enable_isolated_wlan", "enabled", "mlo_mesh_enabled"})
  \cup OptionalComputed("String", {}, {"uplink_host", "uplink_type"})

SettingConnectivityGenFields ==
  Fields("BoolField", {}, {"enable_isolated_wlan", "enabled", "mlo_mesh_enabled"})
  \cup Fields("StringField", {}, {"uplink_host", "uplink_type"})

SettingConnectivityKitSpec ==
  Surface("setting_connectivity", "composite",
    SettingConnectivitySchema,
    SettingConnectivityGenFields)

-----------------------------------------------------------------------------
(* unifi_setting.country *)

SettingCountrySchema ==
  Required("Int64", {}, {"code"})

SettingCountryGenFields ==
  Fields("Int64PtrField", {}, {"code"})

SettingCountryKitSpec ==
  Surface("setting_country", "composite",
    SettingCountrySchema,
    SettingCountryGenFields)

-----------------------------------------------------------------------------
(* unifi_setting.dashboard *)

SettingDashboardSchema ==
  OptionalComputed("String", {"refusesZero"}, {"layout_preference"})
  \cup OptionalComputed("ObjectList", {}, {"widgets"})
  \cup Required("Bool", {}, {"widgets.enabled"})
  \cup Required("String", {"refusesZero"}, {"widgets.name"})

SettingDashboardGenFields ==
  Fields("StringField", {"null"}, {"layout_preference"})

SettingDashboardOverrides ==
  Fields("ObjectListField", {}, {"widgets"})

DashboardWidgetMembers ==
  Fields("value", {}, {"widgets.enabled", "widgets.name"})

SettingDashboardKitSpec ==
  Surface("setting_dashboard", "composite",
    SettingDashboardSchema,
    Override(SettingDashboardGenFields, SettingDashboardOverrides \cup DashboardWidgetMembers))

-----------------------------------------------------------------------------
(* unifi_setting.device_supervision *)

SettingDeviceSupervisionSchema ==
  OptionalComputed("Bool", {}, {"global_supervision_enabled"})
  \cup OptionalComputed("Int64", {"refusesZero"},
          {"heartbeat_interval_seconds", "power_off_duration_seconds",
           "silence_threshold_seconds"})

SettingDeviceSupervisionGenFields ==
  Fields("BoolField", {}, {"global_supervision_enabled"})
  \cup Fields("Int64PtrField", {"omit", "refused"},
          {"heartbeat_interval_seconds", "power_off_duration_seconds",
           "silence_threshold_seconds"})

SettingDeviceSupervisionKitSpec ==
  Surface("setting_device_supervision", "composite",
    SettingDeviceSupervisionSchema,
    SettingDeviceSupervisionGenFields)

-----------------------------------------------------------------------------
(* unifi_setting.doh *)

SettingDohSchema ==
  OptionalComputed("ObjectList", {}, {"custom_servers"})
  \cup OptionalComputed("Bool", {"default"}, {"custom_servers.enabled"})
  \cup Required("String", {}, {"custom_servers.sdns_stamp", "custom_servers.server_name"})
  \cup OptionalComputed("List", {"stable"}, {"server_names"})
  \cup OptionalComputed("String", {"refusesZero"}, {"state"})

SettingDohGenFields ==
  Fields("StringListField", {}, {"server_names"})
  \cup Fields("StringField", {"null"}, {"state"})

SettingDohOverrides ==
  Fields("ObjectListField", {}, {"custom_servers"})

DohCustomServerMembers ==
  Fields("inferred", {}, {"custom_servers.enabled"})
  \cup Fields("value", {}, {"custom_servers.sdns_stamp", "custom_servers.server_name"})

SettingDohKitSpec ==
  Surface("setting_doh", "composite",
    SettingDohSchema,
    Override(SettingDohGenFields, SettingDohOverrides \cup DohCustomServerMembers))

-----------------------------------------------------------------------------
(* unifi_setting.dpi *)

SettingDpiSchema ==
  OptionalComputed("Bool", {"zeroDefault"}, {"enabled", "fingerprinting_enabled"})

SettingDpiGenFields ==
  Fields("BoolField", {}, {"enabled", "fingerprinting_enabled"})

SettingDpiKitSpec ==
  Surface("setting_dpi", "composite",
    SettingDpiSchema,
    SettingDpiGenFields)

-----------------------------------------------------------------------------
(* unifi_setting.ether_lighting *)

SettingEtherLightingSchema ==
  OptionalComputed("ObjectList", {}, {"network_overrides", "speed_overrides"})
  \cup Required("String", {}, {"network_overrides.key"})
  \cup Required("String", {"refusesZero"},
          {"network_overrides.raw_color_hex", "speed_overrides.key",
           "speed_overrides.raw_color_hex"})

SettingEtherLightingOverrides ==
  Fields("ObjectListField", {}, {"network_overrides", "speed_overrides"})

EtherLightingOverrideMembers ==
  Fields("value", {},
     {"network_overrides.key", "network_overrides.raw_color_hex", "speed_overrides.key",
      "speed_overrides.raw_color_hex"})

SettingEtherLightingKitSpec ==
  Surface("setting_ether_lighting", "composite",
    SettingEtherLightingSchema,
    SettingEtherLightingOverrides \cup EtherLightingOverrideMembers)

-----------------------------------------------------------------------------
(* unifi_setting.global_ap *)

SettingGlobalApSchema ==
  OptionalComputed("List", {"stable"}, {"ap_exclusions"})
  \cup OptionalComputed("Int64", {"refusesZero"}, {"na_channel_size", "ng_channel_size"})
  \cup OptionalComputed("Int64", {}, {"na_tx_power", "ng_tx_power"})
  \cup OptionalComputed("String", {"refusesZero"}, {"na_tx_power_mode", "ng_tx_power_mode"})

SettingGlobalApGenFields ==
  Fields("StringListField", {}, {"ap_exclusions"})
  \cup Fields("Int64PtrField", {"omit", "refused"}, {"na_channel_size", "ng_channel_size"})
  \cup Fields("Int64PtrField", {}, {"na_tx_power", "ng_tx_power"})
  \cup Fields("StringField", {"null"}, {"na_tx_power_mode", "ng_tx_power_mode"})

SettingGlobalApKitSpec ==
  Surface("setting_global_ap", "composite",
    SettingGlobalApSchema,
    SettingGlobalApGenFields)

-----------------------------------------------------------------------------
(* unifi_setting.global_nat *)

SettingGlobalNatSchema ==
  OptionalComputed("List", {"stable"}, {"excluded_network_ids"})
  \cup OptionalComputed("String", {"refusesZero"}, {"mode"})

SettingGlobalNatGenFields ==
  Fields("StringListField", {}, {"excluded_network_ids"})
  \cup Fields("StringField", {"null"}, {"mode"})

SettingGlobalNatKitSpec ==
  Surface("setting_global_nat", "composite",
    SettingGlobalNatSchema,
    SettingGlobalNatGenFields)

-----------------------------------------------------------------------------
(* unifi_setting.global_network *)

SettingGlobalNetworkSchema ==
  OptionalComputed("String", {}, {"default_security_posture"})

SettingGlobalNetworkGenFields ==
  Fields("StringField", {}, {"default_security_posture"})

SettingGlobalNetworkKitSpec ==
  Surface("setting_global_network", "composite",
    SettingGlobalNetworkSchema,
    SettingGlobalNetworkGenFields)

-----------------------------------------------------------------------------
(* unifi_setting.global_switch *)

SettingGlobalSwitchSchema ==
  OptionalComputed("ObjectList", {}, {"acl_l3_isolation"})
  \cup Required("List", {}, {"acl_l3_isolation.destination_networks"})
  \cup Required("String", {}, {"acl_l3_isolation.source_network"})
  \cup OptionalComputed("Bool", {},
          {"auto_stp_edge_detection_enabled", "dhcp_snoop", "dot1x_portctrl_enabled",
           "flood_known_protocols", "flowctrl_enabled", "forward_unknown_mcast_router_ports",
           "jumboframe_enabled"})
  \cup OptionalComputed("String", {}, {"dot1x_fallback_networkconf_id", "radiusprofile_id"})
  \cup OptionalComputed("Int64", {}, {"link_debounce", "poe_staging_delay_msec"})
  \cup OptionalComputed("String", {"refusesZero"}, {"stp_version"})
  \cup OptionalComputed("List", {}, {"switch_exclusions"})

SettingGlobalSwitchGenFields ==
  Fields("BoolField", {},
     {"auto_stp_edge_detection_enabled", "dhcp_snoop", "dot1x_portctrl_enabled",
      "flood_known_protocols", "flowctrl_enabled", "forward_unknown_mcast_router_ports",
      "jumboframe_enabled"})
  \cup Fields("StringField", {}, {"dot1x_fallback_networkconf_id", "radiusprofile_id"})
  \cup Fields("Int64PtrField", {}, {"link_debounce", "poe_staging_delay_msec"})
  \cup Fields("StringField", {"null"}, {"stp_version"})
  \cup Fields("StringListField", {}, {"switch_exclusions"})

SettingGlobalSwitchOverrides ==
  Fields("ObjectListField", {}, {"acl_l3_isolation"})

GlobalSwitchAclMembers ==
  Fields("value", {}, {"acl_l3_isolation.destination_networks", "acl_l3_isolation.source_network"})

SettingGlobalSwitchKitSpec ==
  Surface("setting_global_switch", "composite",
    SettingGlobalSwitchSchema,
    Override(SettingGlobalSwitchGenFields, SettingGlobalSwitchOverrides \cup GlobalSwitchAclMembers))

-----------------------------------------------------------------------------
(* unifi_setting.guest_access *)

SettingGuestAccessSchemaFromAuth ==
  OptionalComputed("String", {"refusesZero"}, {"auth", "expire", "gateway"})
  \cup OptionalComputed("String", {},
          {"auth_url", "authorize_loginid", "authorize_transactionkey", "custom_ip",
           "facebook_app_id", "facebook_app_secret", "google_client_id", "google_client_secret",
           "google_domain", "ippay_terminalid"})
  \cup OptionalComputed("Bool", {},
          {"authorize_use_sandbox", "ec_enabled", "facebook_enabled", "facebook_scope_email",
           "google_enabled", "google_scope_email"})
  \cup OptionalComputed("Int64", {}, {"expire_number"})
  \cup OptionalComputed("Int64", {"refusesZero"}, {"expire_unit"})

SettingGuestAccessSchemaFromIppayUseSandbox ==
  OptionalComputed("Bool", {},
     {"ippay_use_sandbox", "merchantwarrior_use_sandbox", "password_enabled", "payment_enabled",
      "paypal_use_sandbox", "portal_customized", "portal_customized_bg_image_enabled",
      "portal_customized_bg_image_tile"})
  \cup OptionalComputed("String", {},
          {"merchantwarrior_apikey", "merchantwarrior_apipassphrase",
           "merchantwarrior_merchantuuid", "password", "paypal_password", "paypal_signature",
           "paypal_username", "portal_customized_authentication_text",
           "portal_customized_bg_color", "portal_customized_bg_image_filename",
           "portal_customized_box_color", "portal_customized_box_link_color"})
  \cup OptionalComputed("String", {"refusesZero"}, {"portal_customized_bg_type"})

SettingGuestAccessSchemaFromPortalCustomizedBoxOpacity ==
  OptionalComputed("Int64", {"refusesZero"},
     {"portal_customized_box_opacity", "portal_customized_logo_size"})
  \cup OptionalComputed("Int64", {}, {"portal_customized_box_radius"})
  \cup OptionalComputed("String", {},
          {"portal_customized_box_text_color", "portal_customized_button_color",
           "portal_customized_button_text", "portal_customized_button_text_color",
           "portal_customized_link_color", "portal_customized_logo_filename",
           "portal_customized_success_text", "portal_customized_text_color",
           "portal_customized_title", "portal_customized_tos",
           "portal_customized_unsplash_author_name",
           "portal_customized_unsplash_author_username"})
  \cup OptionalComputed("List", {"stable"}, {"portal_customized_languages"})
  \cup OptionalComputed("Bool", {},
          {"portal_customized_logo_enabled", "portal_customized_tos_enabled"})
  \cup OptionalComputed("String", {"refusesZero"}, {"portal_customized_logo_position"})

SettingGuestAccessSchemaFromPortalCustomizedWelcomeText ==
  OptionalComputed("String", {},
     {"portal_customized_welcome_text", "portal_hostname", "quickpay_agreementid",
      "quickpay_apikey", "quickpay_merchantid", "radiusprofile_id", "redirect_url"})
  \cup OptionalComputed("Bool", {},
          {"portal_customized_welcome_text_enabled", "portal_enabled", "portal_use_hostname",
           "quickpay_testmode", "radius_disconnect_enabled", "radius_enabled",
           "redirect_enabled", "redirect_https", "redirect_to_https", "restricted_dns_enabled"})
  \cup OptionalComputed("String", {"refusesZero"},
          {"portal_customized_welcome_text_position", "radius_auth_type"})
  \cup OptionalComputed("Int64", {"refusesZero"}, {"radius_disconnect_port"})
  \cup OptionalComputed("List", {"stable"}, {"restricted_dns_servers"})

SettingGuestAccessSchemaFromStripeApiKey ==
  OptionalComputed("String", {},
     {"stripe_api_key", "wechat_app_id", "wechat_app_secret", "wechat_secret_key",
      "wechat_shop_id"})
  \cup OptionalComputed("Bool", {}, {"voucher_customized", "voucher_enabled", "wechat_enabled"})

SettingGuestAccessGenFieldsFromAuth ==
  Fields("StringField", {"null"}, {"auth", "expire", "radius_auth_type", "gateway"})
  \cup Fields("BoolField", {},
          {"portal_enabled", "portal_use_hostname", "redirect_enabled", "redirect_https",
           "redirect_to_https", "radius_enabled", "radius_disconnect_enabled",
           "password_enabled", "voucher_enabled", "payment_enabled", "ec_enabled"})
  \cup Fields("StringField", {},
          {"portal_hostname", "redirect_url", "radiusprofile_id", "password",
           "facebook_app_secret", "google_client_secret", "wechat_app_secret",
           "wechat_secret_key"})
  \cup Fields("Int64PtrField", {"omit"},
          {"expire_number", "expire_unit", "radius_disconnect_port"})

SettingGuestAccessGenFieldsFromAuthorizeLoginid ==
  Fields("StringField", {},
     {"authorize_loginid", "authorize_transactionkey", "paypal_username", "paypal_password",
      "paypal_signature", "quickpay_agreementid", "quickpay_merchantid", "quickpay_apikey",
      "merchantwarrior_merchantuuid", "merchantwarrior_apikey", "merchantwarrior_apipassphrase",
      "ippay_terminalid", "stripe_api_key", "facebook_app_id", "google_client_id",
      "google_domain", "wechat_app_id", "wechat_shop_id"})
  \cup Fields("BoolField", {},
          {"restricted_dns_enabled", "facebook_enabled", "facebook_scope_email",
           "google_enabled", "google_scope_email", "wechat_enabled", "authorize_use_sandbox"})
  \cup Fields("StringListField", {}, {"restricted_dns_servers"})

SettingGuestAccessGenFieldsFromIppayUseSandbox ==
  Fields("BoolField", {},
     {"ippay_use_sandbox", "merchantwarrior_use_sandbox", "paypal_use_sandbox",
      "quickpay_testmode", "voucher_customized", "portal_customized",
      "portal_customized_bg_image_enabled", "portal_customized_bg_image_tile",
      "portal_customized_logo_enabled"})
  \cup Fields("StringField", {},
          {"auth_url", "custom_ip", "portal_customized_authentication_text",
           "portal_customized_bg_color", "portal_customized_bg_image_filename",
           "portal_customized_box_color", "portal_customized_box_link_color",
           "portal_customized_box_text_color", "portal_customized_button_color",
           "portal_customized_button_text", "portal_customized_button_text_color",
           "portal_customized_link_color", "portal_customized_logo_filename"})
  \cup Fields("StringField", {"null"}, {"portal_customized_bg_type"})
  \cup Fields("Int64PtrField", {"omit"}, {"portal_customized_box_opacity"})
  \cup Fields("Int64PtrField", {}, {"portal_customized_box_radius"})
  \cup Fields("StringListField", {}, {"portal_customized_languages"})

SettingGuestAccessGenFieldsFromPortalCustomizedLogoPosition ==
  Fields("StringField", {"null"},
     {"portal_customized_logo_position", "portal_customized_welcome_text_position"})
  \cup Fields("Int64PtrField", {"omit"}, {"portal_customized_logo_size"})
  \cup Fields("StringField", {},
          {"portal_customized_success_text", "portal_customized_text_color",
           "portal_customized_title", "portal_customized_tos",
           "portal_customized_unsplash_author_name",
           "portal_customized_unsplash_author_username", "portal_customized_welcome_text"})
  \cup Fields("BoolField", {},
          {"portal_customized_tos_enabled", "portal_customized_welcome_text_enabled"})

SettingGuestAccessKitSpec ==
  Surface("setting_guest_access", "composite",
    SettingGuestAccessSchemaFromAuth \cup SettingGuestAccessSchemaFromIppayUseSandbox \cup
    SettingGuestAccessSchemaFromPortalCustomizedBoxOpacity \cup
    SettingGuestAccessSchemaFromPortalCustomizedWelcomeText \cup
    SettingGuestAccessSchemaFromStripeApiKey,
    SettingGuestAccessGenFieldsFromAuth \cup SettingGuestAccessGenFieldsFromAuthorizeLoginid \cup
    SettingGuestAccessGenFieldsFromIppayUseSandbox \cup
    SettingGuestAccessGenFieldsFromPortalCustomizedLogoPosition)

-----------------------------------------------------------------------------
(* unifi_setting.igmp_snooping *)

SettingIgmpSnoopingSchema ==
  OptionalComputed("Bool", {}, {"enabled"})
  \cup OptionalComputed("List", {"stable"}, {"network_ids"})

SettingIgmpSnoopingGenFields ==
  Fields("BoolField", {}, {"enabled"})
  \cup Fields("StringListField", {}, {"network_ids"})

SettingIgmpSnoopingKitSpec ==
  Surface("setting_igmp_snooping", "composite",
    SettingIgmpSnoopingSchema,
    SettingIgmpSnoopingGenFields)

-----------------------------------------------------------------------------
(* unifi_setting.ips *)

SettingIpsSchemaFromAdvancedFilteringPreference ==
  OptionalComputed("String", {"refusesZero"}, {"advanced_filtering_preference", "ips_mode"})
  \cup OptionalComputed("Bool", {},
          {"content_filtering_blocking_page_enabled", "honeypot_enabled", "memory_optimized",
           "restrict_torrents"})
  \cup OptionalComputed("List", {"stable"}, {"enabled_categories", "enabled_networks"})
  \cup OptionalComputed("ObjectList", {}, {"honeypot"})
  \cup Required("String", {}, {"honeypot.ip_address", "honeypot.network_id"})
  \cup Required("String", {"refusesZero"}, {"honeypot.version"})

SettingIpsSchemaFromSuppressionAlerts ==
  OptionalComputed("ObjectList", {},
     {"suppression_alerts", "suppression_alerts.tracking", "suppression_whitelist"})
  \cup OptionalComputed("String", {},
          {"suppression_alerts.category", "suppression_alerts.signature"})
  \cup OptionalComputed("Int64", {}, {"suppression_alerts.gid", "suppression_alerts.id"})
  \cup Required("String", {"refusesZero"},
          {"suppression_alerts.tracking.direction", "suppression_alerts.tracking.mode",
           "suppression_whitelist.direction", "suppression_whitelist.mode"})
  \cup Required("String", {},
          {"suppression_alerts.tracking.value", "suppression_whitelist.value"})
  \cup OptionalComputed("String", {"refusesZero"}, {"suppression_alerts.type"})

SettingIpsGenFields ==
  Fields("StringField", {"null"}, {"advanced_filtering_preference", "ips_mode"})
  \cup Fields("BoolField", {},
          {"content_filtering_blocking_page_enabled", "honeypot_enabled", "memory_optimized",
           "restrict_torrents"})
  \cup Fields("StringListField", {}, {"enabled_categories", "enabled_networks"})

SettingIpsOverrides ==
  Fields("ObjectListField", {}, {"honeypot"})

IpsSuppressionKitSpecFields ==
  Fields("ObjectListField", {}, {"suppression_alerts", "suppression_whitelist"})

IpsMembers ==
  Fields("value", {},
     {"honeypot.ip_address", "honeypot.network_id", "honeypot.version",
      "suppression_whitelist.direction", "suppression_whitelist.mode",
      "suppression_whitelist.value", "suppression_alerts.tracking.direction",
      "suppression_alerts.tracking.mode", "suppression_alerts.tracking.value"})

IpsAlertMembers ==
  Fields("value", {"null"},
     {"suppression_alerts.category", "suppression_alerts.signature", "suppression_alerts.type"})
  \cup Fields("pointer", {}, {"suppression_alerts.gid", "suppression_alerts.id"})
  \cup Fields("value", {}, {"suppression_alerts.tracking"})

SettingIpsKitSpec ==
  Surface("setting_ips", "composite",
    SettingIpsSchemaFromAdvancedFilteringPreference \cup SettingIpsSchemaFromSuppressionAlerts,
    Override(SettingIpsGenFields, SettingIpsOverrides \cup IpsMembers \cup IpsAlertMembers
             \cup IpsSuppressionKitSpecFields))

-----------------------------------------------------------------------------
(* unifi_setting.ipsec *)

SettingIpsecSchema ==
  OptionalComputed("String", {}, {"ikev2_reauthentication_method"})

SettingIpsecGenFields ==
  Fields("StringField", {}, {"ikev2_reauthentication_method"})

SettingIpsecKitSpec ==
  Surface("setting_ipsec", "composite",
    SettingIpsecSchema,
    SettingIpsecGenFields)

-----------------------------------------------------------------------------
(* unifi_setting.lcm *)

SettingLcmSchema ==
  OptionalComputed("Int64", {"refusesZero"}, {"brightness", "idle_timeout"})
  \cup OptionalComputed("Bool", {"default"}, {"enabled", "touch_event"})
  \cup OptionalComputed("Bool", {"zeroDefault"}, {"sync"})

SettingLcmGenFields ==
  Fields("Int64PtrField", {"omit"}, {"brightness", "idle_timeout"})
  \cup Fields("BoolField", {}, {"enabled", "sync", "touch_event"})

SettingLcmKitSpec ==
  Surface("setting_lcm", "composite",
    SettingLcmSchema,
    SettingLcmGenFields)

-----------------------------------------------------------------------------
(* unifi_setting.locale *)

SettingLocaleSchema ==
  OptionalComputed("String", {}, {"timezone"})

SettingLocaleGenFields ==
  Fields("StringField", {}, {"timezone"})

SettingLocaleKitSpec ==
  Surface("setting_locale", "composite",
    SettingLocaleSchema,
    SettingLocaleGenFields)

-----------------------------------------------------------------------------
(* unifi_setting.magic_site_to_site_vpn *)

SettingMagicSiteToSiteVpnSchema ==
  OptionalComputed("Bool", {}, {"enabled"})

SettingMagicSiteToSiteVpnGenFields ==
  Fields("BoolField", {}, {"enabled"})

SettingMagicSiteToSiteVpnKitSpec ==
  Surface("setting_magic_site_to_site_vpn", "composite",
    SettingMagicSiteToSiteVpnSchema,
    SettingMagicSiteToSiteVpnGenFields)

-----------------------------------------------------------------------------
(* unifi_setting.mdns *)

SettingMdnsSchema ==
  OptionalComputed("ObjectList", {}, {"custom_services", "predefined_services"})
  \cup Required("String", {"refusesZero"},
          {"custom_services.address", "predefined_services.code"})
  \cup Required("String", {}, {"custom_services.name"})
  \cup OptionalComputed("String", {"refusesZero"}, {"mode"})

SettingMdnsGenFields ==
  Fields("StringField", {"null"}, {"mode"})

SettingMdnsOverrides ==
  Fields("ObjectListField", {}, {"custom_services", "predefined_services"})

MdnsServiceMembers ==
  Fields("value", {},
     {"custom_services.address", "custom_services.name", "predefined_services.code"})

SettingMdnsKitSpec ==
  Surface("setting_mdns", "composite",
    SettingMdnsSchema,
    Override(SettingMdnsGenFields, SettingMdnsOverrides \cup MdnsServiceMembers))

-----------------------------------------------------------------------------
(* unifi_setting.mgmt *)

SettingMgmtSchema ==
  OptionalComputed("Bool", {},
     {"advanced_feature_enabled", "auto_upgrade", "debug_tools_enabled",
      "direct_connect_enabled", "ssh_auth_password_enabled", "ssh_enabled", "unifi_idp_enabled",
      "wifiman_enabled"})
  \cup OptionalComputed("Int64", {}, {"auto_upgrade_hour"})
  \cup OptionalComputed("ObjectList", {}, {"ssh_keys"})
  \cup OptionalComputed("String", {}, {"ssh_keys.comment", "ssh_keys.key"})
  \cup Required("String", {}, {"ssh_keys.name", "ssh_keys.type"})
  \cup Optional("String", {"refusesZero"}, {"ssh_password"})
  \cup OptionalComputed("String", {"refusesZero"}, {"ssh_username"})

SettingMgmtGenFields ==
  Fields("BoolField", {},
     {"advanced_feature_enabled", "auto_upgrade", "debug_tools_enabled",
      "direct_connect_enabled", "ssh_auth_password_enabled", "ssh_enabled", "unifi_idp_enabled",
      "wifiman_enabled"})
  \cup Fields("Int64PtrField", {}, {"auto_upgrade_hour"})
  \cup Fields("StringField", {"null"}, {"ssh_password", "ssh_username"})

SettingMgmtOverrides ==
  Fields("ObjectListField", {}, {"ssh_keys"})

MgmtSSHKeyMembers ==
  Fields("value", {}, {"ssh_keys.name", "ssh_keys.type", "ssh_keys.key", "ssh_keys.comment"})

SettingMgmtKitSpec ==
  Surface("setting_mgmt", "composite",
    SettingMgmtSchema,
    Override(SettingMgmtGenFields, SettingMgmtOverrides \cup MgmtSSHKeyMembers))

-----------------------------------------------------------------------------
(* unifi_setting.netflow *)

SettingNetflowSchema ==
  OptionalComputed("Bool", {}, {"auto_engine_id_enabled", "enabled"})
  \cup OptionalComputed("Int64", {}, {"engine_id", "export_frequency", "refresh_rate"})
  \cup OptionalComputed("List", {"stable"}, {"network_ids"})
  \cup OptionalComputed("Int64", {"refusesZero"}, {"port", "sampling_rate", "version"})
  \cup OptionalComputed("String", {"refusesZero"}, {"sampling_mode", "server"})

SettingNetflowGenFields ==
  Fields("BoolField", {}, {"auto_engine_id_enabled", "enabled"})
  \cup Fields("Int64PtrField", {"omit", "refused"}, {"engine_id", "port", "sampling_rate", "version"})
  \cup Fields("Int64PtrField", {}, {"export_frequency", "refresh_rate"})
  \cup Fields("StringListField", {}, {"network_ids"})
  \cup Fields("StringField", {"null"}, {"sampling_mode", "server"})

SettingNetflowKitSpec ==
  Surface("setting_netflow", "composite",
    SettingNetflowSchema,
    SettingNetflowGenFields)

-----------------------------------------------------------------------------
(* unifi_setting.network_optimization *)

SettingNetworkOptimizationSchema ==
  OptionalComputed("Bool", {"zeroDefault"}, {"enabled"})

SettingNetworkOptimizationGenFields ==
  Fields("BoolField", {}, {"enabled"})

SettingNetworkOptimizationKitSpec ==
  Surface("setting_network_optimization", "composite",
    SettingNetworkOptimizationSchema,
    SettingNetworkOptimizationGenFields)

-----------------------------------------------------------------------------
(* unifi_setting.ntp *)

SettingNtpSchema ==
  OptionalComputed("String", {"stable"},
     {"ntp_server_1", "ntp_server_2", "ntp_server_3", "ntp_server_4"})
  \cup OptionalComputed("String", {"refusesZero"}, {"setting_preference"})

SettingNtpGenFields ==
  Fields("StringField", {}, {"ntp_server_1", "ntp_server_2", "ntp_server_3", "ntp_server_4"})
  \cup Fields("StringField", {"null"}, {"setting_preference"})

SettingNtpKitSpec ==
  Surface("setting_ntp", "composite",
    SettingNtpSchema,
    SettingNtpGenFields)

-----------------------------------------------------------------------------
(* unifi_setting.radio_ai *)

SettingRadioAiSchemaFromAutoAdjustChannelsToCountry ==
  OptionalComputed("Bool", {}, {"auto_adjust_channels_to_country", "enabled"})
  \cup OptionalComputed("String", {"refusesZero"},
          {"auto_channel_presets_type", "channels_blacklist.radio"})
  \cup OptionalComputed("List", {},
          {"channels_6e", "channels_na", "channels_ng", "exclude_devices",
           "high_priority_devices", "ht_modes_na", "ht_modes_ng", "optimize", "radios"})
  \cup OptionalComputed("ObjectList", {}, {"channels_blacklist"})
  \cup OptionalComputed("Int64", {}, {"channels_blacklist.channel"})
  \cup OptionalComputed("Int64", {"refusesZero"}, {"channels_blacklist.channel_width"})
  \cup OptionalComputed("String", {}, {"cron_expr"})

SettingRadioAiSchemaFromRadiosConfiguration ==
  OptionalComputed("ObjectList", {}, {"radios_configuration"})
  \cup OptionalComputed("Int64", {"refusesZero"}, {"radios_configuration.channel_width"})
  \cup OptionalComputed("Bool", {}, {"radios_configuration.dfs"})
  \cup OptionalComputed("String", {"refusesZero"},
          {"radios_configuration.radio", "setting_preference"})

SettingRadioAiGenFields ==
  Fields("BoolField", {}, {"auto_adjust_channels_to_country", "enabled"})
  \cup Fields("StringField", {"null"}, {"auto_channel_presets_type", "setting_preference"})
  \cup Fields("Int64ListField", {},
          {"channels_6e", "channels_na", "channels_ng", "ht_modes_na", "ht_modes_ng"})
  \cup Fields("StringField", {}, {"cron_expr"})
  \cup Fields("StringListField", {},
          {"exclude_devices", "high_priority_devices", "optimize", "radios"})

SettingRadioAiOverrides ==
  Fields("ObjectListField", {}, {"channels_blacklist", "radios_configuration"})

RadioAiMembers ==
  Fields("pointer", {"omit"},
     {"channels_blacklist.channel", "channels_blacklist.channel_width",
      "radios_configuration.channel_width"})
  \cup Fields("value", {},
          {"channels_blacklist.radio", "radios_configuration.radio", "radios_configuration.dfs"})

SettingRadioAiKitSpec ==
  Surface("setting_radio_ai", "composite",
    SettingRadioAiSchemaFromAutoAdjustChannelsToCountry \cup
    SettingRadioAiSchemaFromRadiosConfiguration,
    Override(SettingRadioAiGenFields, SettingRadioAiOverrides \cup RadioAiMembers))

-----------------------------------------------------------------------------
(* unifi_setting.radius *)

SettingRadiusSchema ==
  OptionalComputed("Bool", {}, {"accounting_enabled", "enabled"})
  \cup OptionalComputed("Int64", {"refusesZero"}, {"acct_port", "auth_port"})
  \cup OptionalComputed("String", {"duration"}, {"interim_update_interval"})
  \cup OptionalComputed("String", {"refusesZero"}, {"secret"})

SettingRadiusGenFields ==
  Fields("BoolField", {}, {"accounting_enabled", "enabled"})
  \cup Fields("StringField", {"null"}, {"secret"})

SettingRadiusOverrides ==
  Fields("Int64PtrField", {"omit", "refused"}, {"acct_port", "auth_port"})
  \cup Fields("DurationPtrField", {}, {"interim_update_interval"})

SettingRadiusKitSpec ==
  Surface("setting_radius", "composite",
    SettingRadiusSchema,
    Override(SettingRadiusGenFields, SettingRadiusOverrides))

-----------------------------------------------------------------------------
(* unifi_setting.snmp *)

SettingSnmpSchema ==
  OptionalComputed("String", {"refusesZero"}, {"community", "password", "username"})
  \cup OptionalComputed("Bool", {}, {"enabled", "enabled_v3"})

SettingSnmpGenFields ==
  Fields("StringField", {"null"}, {"community", "username", "password"})
  \cup Fields("BoolField", {}, {"enabled", "enabled_v3"})

SettingSnmpKitSpec ==
  Surface("setting_snmp", "composite",
    SettingSnmpSchema,
    SettingSnmpGenFields)

-----------------------------------------------------------------------------
(* unifi_setting.ssl_inspection *)

SettingSslInspectionSchema ==
  OptionalComputed("String", {"refusesZero"}, {"state"})

SettingSslInspectionGenFields ==
  Fields("StringField", {"null"}, {"state"})

SettingSslInspectionKitSpec ==
  Surface("setting_ssl_inspection", "composite",
    SettingSslInspectionSchema,
    SettingSslInspectionGenFields)

-----------------------------------------------------------------------------
(* unifi_setting.syslog *)

SettingSyslogSchema ==
  OptionalComputed("List", {"stable"}, {"contents"})
  \cup OptionalComputed("Bool", {"zeroDefault"},
          {"debug", "enabled", "log_all_contents", "netconsole_enabled", "this_controller",
           "this_controller_encrypted_only"})
  \cup OptionalComputed("String", {}, {"ip", "netconsole_host"})
  \cup OptionalComputed("Int64", {"refusesZero"}, {"netconsole_port", "port"})

SettingSyslogGenFields ==
  Fields("StringListField", {}, {"contents"})
  \cup Fields("BoolField", {},
          {"debug", "enabled", "log_all_contents", "netconsole_enabled", "this_controller",
           "this_controller_encrypted_only"})
  \cup Fields("StringField", {}, {"ip", "netconsole_host"})
  \cup Fields("Int64PtrField", {"omit"}, {"netconsole_port", "port"})

SettingSyslogKitSpec ==
  Surface("setting_syslog", "composite",
    SettingSyslogSchema,
    SettingSyslogGenFields)

-----------------------------------------------------------------------------
(* unifi_setting.teleport *)

SettingTeleportSchema ==
  OptionalComputed("Bool", {}, {"enabled"})
  \cup OptionalComputed("String", {}, {"subnet_cidr"})

SettingTeleportGenFields ==
  Fields("BoolField", {}, {"enabled"})
  \cup Fields("StringField", {}, {"subnet_cidr"})

SettingTeleportKitSpec ==
  Surface("setting_teleport", "composite",
    SettingTeleportSchema,
    SettingTeleportGenFields)

-----------------------------------------------------------------------------
(* unifi_setting.traffic_flow *)

SettingTrafficFlowSchema ==
  OptionalComputed("Bool", {},
     {"enabled_allowed_traffic", "gateway_dns_enabled", "unifi_device_management_enabled",
      "unifi_services_enabled"})

SettingTrafficFlowGenFields ==
  Fields("BoolField", {},
     {"enabled_allowed_traffic", "gateway_dns_enabled", "unifi_device_management_enabled",
      "unifi_services_enabled"})

SettingTrafficFlowKitSpec ==
  Surface("setting_traffic_flow", "composite",
    SettingTrafficFlowSchema,
    SettingTrafficFlowGenFields)

-----------------------------------------------------------------------------
(* unifi_setting.usg *)

SettingUsgSchemaFromBroadcastPing ==
  OptionalComputed("Bool", {},
     {"broadcast_ping", "ftp_module", "geo_ip_filtering_enabled", "gre_module", "h323_module",
      "offload_accounting", "offload_l2_blocking", "offload_sch", "pptp_module",
      "receive_redirects"})
  \cup OptionalComputed("Object", {}, {"dns_verification"})
  \cup OptionalComputed("String", {},
          {"dns_verification.domain", "dns_verification.primary_dns_server",
           "dns_verification.secondary_dns_server", "geo_ip_filtering_countries"})
  \cup OptionalComputed("String", {"refusesZero"},
          {"dns_verification.setting_preference", "geo_ip_filtering_block",
           "geo_ip_filtering_traffic_direction", "mss_clamp"})
  \cup OptionalComputed("String", {"duration"}, {"icmp_timeout", "other_timeout"})

SettingUsgSchemaFromSendRedirects ==
  OptionalComputed("Bool", {},
     {"send_redirects", "sip_module", "syn_cookies", "tftp_module", "unbind_wan_monitors",
      "upnp_enabled", "upnp_nat_pmp_enabled", "upnp_secure_mode"})
  \cup OptionalComputed("String", {"duration"},
          {"tcp_close_timeout", "tcp_close_wait_timeout", "tcp_established_timeout",
           "tcp_fin_wait_timeout", "tcp_last_ack_timeout", "tcp_syn_recv_timeout",
           "tcp_syn_sent_timeout", "tcp_time_wait_timeout", "udp_other_timeout",
           "udp_stream_timeout"})
  \cup OptionalComputed("String", {"refusesZero"},
          {"timeout_setting_preference", "upnp_wan_interface"})

SettingUsgGenFields ==
  Fields("BoolField", {},
     {"broadcast_ping", "ftp_module", "gre_module", "h323_module", "offload_accounting",
      "offload_l2_blocking", "offload_sch", "pptp_module", "receive_redirects",
      "send_redirects", "sip_module", "syn_cookies", "tftp_module", "unbind_wan_monitors",
      "upnp_enabled", "upnp_nat_pmp_enabled", "upnp_secure_mode"})
  \cup Fields("StringField", {"null"},
          {"mss_clamp", "timeout_setting_preference", "upnp_wan_interface"})

SettingUsgOverrides ==
  Fields("ObjectField", {}, {"dns_verification"})
  \cup Fields("DurationField", {},
          {"icmp_timeout", "other_timeout", "tcp_close_timeout", "tcp_close_wait_timeout",
           "tcp_established_timeout", "tcp_fin_wait_timeout", "tcp_last_ack_timeout",
           "tcp_syn_recv_timeout", "tcp_syn_sent_timeout", "tcp_time_wait_timeout",
           "udp_other_timeout", "udp_stream_timeout"})

UsgGeoKitSpecFields ==
  Fields("StringField", {"null"},
     {"geo_ip_filtering_block", "geo_ip_filtering_traffic_direction"})
  \cup Fields("StringField", {}, {"geo_ip_filtering_countries"})
  \cup Fields("BoolField", {}, {"geo_ip_filtering_enabled"})

UsgDnsVerificationMembers ==
  Fields("value", {},
     {"dns_verification.domain", "dns_verification.primary_dns_server",
      "dns_verification.secondary_dns_server", "dns_verification.setting_preference"})

SettingUsgKitSpec ==
  Surface("setting_usg", "composite",
    SettingUsgSchemaFromBroadcastPing \cup SettingUsgSchemaFromSendRedirects,
    Override(SettingUsgGenFields, SettingUsgOverrides \cup UsgDnsVerificationMembers
             \cup UsgGeoKitSpecFields))

-----------------------------------------------------------------------------
(* unifi_setting.usw *)

SettingUswSchema ==
  OptionalComputed("Bool", {}, {"dhcp_snoop"})

SettingUswGenFields ==
  Fields("BoolField", {}, {"dhcp_snoop"})

SettingUswKitSpec ==
  Surface("setting_usw", "composite",
    SettingUswSchema,
    SettingUswGenFields)

-----------------------------------------------------------------------------
(* The sections as attributes of unifi_setting itself. *)

SettingSections ==
  OptionalComputed("Object", {"stable"},
     {"auto_speedtest", "connectivity", "country", "dashboard", "device_supervision", "doh",
      "dpi", "ether_lighting", "global_ap", "global_nat", "global_network", "global_switch",
      "guest_access", "ips", "ipsec", "lcm", "locale", "magic_site_to_site_vpn", "mdns", "mgmt",
      "netflow", "network_optimization", "ntp", "radio_ai", "snmp", "ssl_inspection", "syslog",
      "teleport", "traffic_flow", "usw"})
  \cup Optional("Object", {}, {"igmp_snooping"})
  \cup OptionalComputed("Object", {}, {"radius", "usg"})

SettingSpecs ==
  { SettingAutoSpeedtestKitSpec, SettingConnectivityKitSpec, SettingCountryKitSpec,
    SettingDashboardKitSpec, SettingDeviceSupervisionKitSpec, SettingDohKitSpec,
    SettingDpiKitSpec, SettingEtherLightingKitSpec, SettingGlobalApKitSpec,
    SettingGlobalNatKitSpec, SettingGlobalNetworkKitSpec, SettingGlobalSwitchKitSpec,
    SettingGuestAccessKitSpec, SettingIgmpSnoopingKitSpec, SettingIpsKitSpec, SettingIpsecKitSpec,
    SettingLcmKitSpec, SettingLocaleKitSpec, SettingMagicSiteToSiteVpnKitSpec, SettingMdnsKitSpec,
    SettingMgmtKitSpec, SettingNetflowKitSpec, SettingNetworkOptimizationKitSpec,
    SettingNtpKitSpec, SettingRadioAiKitSpec, SettingRadiusKitSpec, SettingSnmpKitSpec,
    SettingSslInspectionKitSpec, SettingSyslogKitSpec, SettingTeleportKitSpec,
    SettingTrafficFlowKitSpec, SettingUsgKitSpec, SettingUswKitSpec }
=============================================================================
