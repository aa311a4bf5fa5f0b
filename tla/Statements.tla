------------------------------ MODULE Statements ------------------------------
(***************************************************************************)
(* The prepared statements of QueriesCommon.cpp: the table each inserts    *)
(* into, what it does to its parameters on the way, and what it does when  *)
(* the key is there already.  The parameters are the columns the module    *)
(* Schema keeps, in the order of the statement.                            *)
(***************************************************************************)
EXTENDS IpNet, Text, TLC

LOCAL Into(table, n)    == [table |-> table, onConflict |-> "nothing", columns |-> [i \in 1..n |-> <<"as is", i>>]]
LOCAL Cast(how, i, s)   == [s EXCEPT !.columns[i] = <<how, i>>]
LOCAL Host(i, s)        == Cast("host", i, s)        \* host(($i)::INET)::INET
LOCAL Net(i, s)         == Cast("network", i, s)     \* network(($i)::INET)
LOCAL Inet(i, s)        == Cast("inet", i, s)        \* ($i)::INET, where a host's address is wanted
LOCAL Number(i, s)      == Cast("number", i, s)      \* ($i)::PortNumber, of a text
LOCAL Lowered(i, s)     == Cast("lower", i, s)
LOCAL SourceOrNull(i, s) == Cast("source", i, s)     \* (nullif($i, '0.0.0.0/255'))::INET
LOCAL ObserverOrNull(i, s) == Cast("observer", i, s) \* (nullif($i, '0.0.0.0/0'))::INET
LOCAL Both(i, s)        == [Host(i, s) EXCEPT !.columns = Append(@, <<"network", i>>)]
LOCAL Greatest(s)       == [s EXCEPT !.onConflict = "greatest"]   \* of is_responding
LOCAL Strict(s)         == [s EXCEPT !.onConflict = "error"]      \* there is no ON CONFLICT clause

AwsHostStatements ==
  [ insert_raw_aws_cidr_block                   |-> Into("raw_aws_cidr_blocks", 2),
    insert_raw_aws_cidr_block_detail            |-> Into("raw_aws_cidr_block_details", 3),
    insert_raw_aws_cidr_block_fqdn              |-> Into("raw_aws_cidr_block_fqdns", 3),
    insert_raw_aws_instance                     |-> Into("raw_aws_instances", 2),
    insert_raw_aws_instance_detail              |-> Into("raw_aws_instance_details", 3),
    insert_raw_aws_network_interface            |-> Into("raw_aws_network_interfaces", 2),
    insert_raw_aws_network_interface_detail     |-> Into("raw_aws_network_interface_details", 4),
    insert_raw_aws_network_interface_attachment |-> Into("raw_aws_network_interface_attachments", 3),
    insert_raw_aws_network_interface_mac        |-> Into("raw_aws_network_interface_macs", 3),
    insert_raw_aws_network_interface_ip         |-> Inet(3, Into("raw_aws_network_interface_ips", 3)),
    insert_raw_aws_vpc                          |-> Into("raw_aws_vpcs", 2),
    insert_raw_aws_vpc_owner                    |-> Into("raw_aws_vpc_owners", 3),
    insert_raw_aws_vpc_detail                   |-> Into("raw_aws_vpc_details", 3),
    insert_raw_aws_vpc_cidr_block               |-> Into("raw_aws_vpc_cidr_blocks", 4) ]

AwsNetworkStatements ==
  [ insert_raw_aws_vpc_peering_connection      |-> Into("raw_aws_vpc_peering_connections", 2),
    insert_raw_aws_vpc_peering_connection_peer |-> Into("raw_aws_vpc_peering_connection_peers", 6),
    insert_raw_aws_vpc_peering_connection_status |->
      Into("raw_aws_vpc_peering_connection_statuses", 3),
    insert_raw_aws_security_group              |-> Into("raw_aws_security_groups", 2),
    insert_raw_aws_security_group_detail       |-> Into("raw_aws_security_group_details", 3),
    insert_raw_aws_security_group_rules_port   |-> Into("raw_aws_security_group_rules_ports", 6),
    insert_raw_aws_security_group_rules_type_code |->
      Into("raw_aws_security_group_rules_type_codes", 6),
    insert_raw_aws_security_group_rules_non_ip_detail |->
      Into("raw_aws_security_group_rules_non_ip_details", 6),
    insert_raw_aws_security_group_rules_non_ip_port |->
      Into("raw_aws_security_group_rules_non_ip_ports", 6),
    insert_raw_aws_security_group_rules_non_ip_type_code |->
      Into("raw_aws_security_group_rules_non_ip_type_codes", 6),
    insert_raw_aws_network_acl                 |-> Into("raw_aws_network_acls", 2) ]

AwsFilterStatements ==
  [ insert_raw_aws_network_acl_rule            |-> Into("raw_aws_network_acl_rules", 7),
    insert_raw_aws_network_acl_rules_port      |-> Into("raw_aws_network_acl_rules_ports", 5),
    insert_raw_aws_network_acl_rules_type_code |-> Into("raw_aws_network_acl_rules_type_codes", 5),
    insert_raw_aws_subnet                      |-> Into("raw_aws_subnets", 2),
    insert_raw_aws_subnet_detail               |-> Into("raw_aws_subnet_details", 3),
    insert_raw_aws_subnet_cidr_block           |-> Into("raw_aws_subnet_cidr_blocks", 3),
    insert_raw_aws_route_table                 |-> Into("raw_aws_route_tables", 2),
    insert_raw_aws_route_table_association     |-> Into("raw_aws_route_table_associations", 3),
    insert_raw_aws_route_table_route_cidr      |-> Into("raw_aws_route_table_routes_cidr", 5),
    insert_raw_aws_route_table_route_non_cidr  |-> Into("raw_aws_route_table_routes_non_cidr", 5),
    insert_raw_aws_transit_gateway             |-> Into("raw_aws_transit_gateways", 2) ]

AwsTieStatements ==
  [ insert_raw_aws_transit_gateway_owner        |-> Into("raw_aws_transit_gateway_owners", 3),
    insert_raw_aws_transit_gateway_attachment   |-> Into("raw_aws_transit_gateway_attachments", 4),
    insert_raw_aws_transit_gateway_attachment_detail |->
      Into("raw_aws_transit_gateway_attachment_details", 4),
    insert_raw_aws_instance_network_interface   |-> Into("raw_aws_instance_network_interfaces", 3),
    insert_raw_aws_network_interface_vpc_subnet |-> Into("raw_aws_network_interface_vpc_subnet", 4),
    insert_raw_aws_network_interface_security_group |->
      Into("raw_aws_network_interface_security_groups", 3),
    insert_raw_aws_vpc_subnet                   |-> Into("raw_aws_vpc_subnets", 3),
    insert_raw_aws_vpc_security_group           |-> Into("raw_aws_vpc_security_groups", 3),
    insert_raw_aws_vpc_network_acl              |-> Into("raw_aws_vpc_network_acls", 3),
    insert_raw_aws_vpc_route_table              |-> Into("raw_aws_vpc_route_tables", 4),
    insert_raw_aws_network_acl_subnet           |-> Into("raw_aws_network_acl_subnets", 3) ]

ToolRunStatements ==
  [ insert_tool_run                        |-> Into("tool_runs", 1),
    insert_tool_run_interface              |-> Into("tool_run_interfaces", 4),
    insert_tool_run_mac_addr               |-> Into("tool_run_mac_addrs", 3),
    insert_tool_run_ip_addr                |-> Into("tool_run_ip_addrs", 3),
    insert_tool_run_ip_route               |-> Net(3, Host(4, Into("tool_run_ip_routes", 4))),
    insert_raw_device                      |-> Into("raw_devices", 2),
    insert_raw_device_aaa                  |-> Into("raw_devices_aaa", 3),
    insert_device_extra_weight             |-> Into("device_extra_weights", 2),
    insert_raw_device_virtualization       |-> Into("raw_device_virtualizations", 3),
    insert_device_color                    |-> Into("device_colors", 2),
    insert_raw_device_hardware_information |-> Into("raw_device_hardware_information", 3),
    insert_raw_device_interface            |-> Into("raw_device_interfaces", 6) ]

DeviceStatements ==
  [ insert_raw_device_mac_addr          |-> Into("raw_device_mac_addrs", 4),
    insert_raw_device_ip_addr           |-> Both(4, Into("raw_device_ip_addrs", 4)),
    insert_raw_device_vrf               |-> Into("raw_device_vrfs", 3),
    insert_raw_device_vrf_interface     |-> Into("raw_device_vrfs_interfaces", 4),
    insert_raw_device_ip_route          |-> Net(4, Host(7, Into("raw_device_ip_routes", 8))),
    insert_raw_device_link_connection   |-> Into("raw_device_link_connections", 4),
    insert_raw_device_ip_server         |-> Host(5, Number(6, Into("raw_device_ip_servers", 7))),
    insert_raw_device_dns_resolver      |-> Strict(SourceOrNull(3, Into("raw_device_dns_resolvers", 4))),
    insert_raw_device_dns_search_domain |-> Lowered(3, Into("raw_device_dns_search_domains", 3)),
    insert_raw_device_dns_reference     |-> Lowered(3, Into("raw_device_dns_references", 3)) ]

AddressStatements ==
  [ insert_raw_mac_addr           |-> Greatest(Into("raw_mac_addrs", 3)),
    insert_raw_ip_addr            |-> Greatest(Host(2, Into("raw_ip_addrs", 3))),
    insert_raw_mac_addr_ip_addr   |-> Host(3, Into("raw_mac_addrs_ip_addrs", 3)),
    insert_raw_hostname           |-> Host(2, Into("raw_hostnames", 4)),
    insert_raw_dns_lookup         |-> Host(2, Into("raw_dns_lookups", 4)),
    insert_raw_operating_system   |-> Host(2, Into("raw_operating_systems", 3)),
    insert_raw_vlan               |-> Into("raw_vlans", 3),
    insert_raw_device_vlan        |-> Into("raw_device_vlans", 4),
    insert_raw_vlan_ip_net        |-> Net(3, Into("raw_vlans_ip_nets", 3)),
    insert_raw_device_vlan_ip_net |-> Net(4, Into("raw_device_vlans_ip_nets", 4)),
    insert_raw_ip_net             |-> Net(2, Into("raw_ip_nets", 3)),
    insert_ip_net_extra_weight    |-> Net(1, Into("ip_nets_extra_weights", 2)) ]

HostStatements ==
  [ insert_raw_ip_traceroute                   |-> Host(3, Host(4, Into("raw_ip_traceroutes", 4))),
    insert_raw_packages                        |-> Into("raw_packages", 3),
    insert_raw_port                            |-> Host(2, Into("raw_ports", 6)),
    insert_raw_network_service |->
      Host(2, Number(4, ObserverOrNull(8, Into("raw_network_services", 8)))),
    insert_raw_nessus_result                   |-> Host(2, Into("raw_nessus_results", 8)),
    insert_raw_nessus_result_cve               |-> Host(2, Into("raw_nessus_results_cves", 6)),
    insert_raw_nessus_result_metasploit_module |->
      Host(2, Into("raw_nessus_results_metasploit_modules", 6)),
    insert_raw_nse_result                      |-> Host(2, Into("raw_nse_results", 6)),
    insert_raw_ssh_host_public_key             |-> Host(2, Into("raw_ssh_host_public_keys", 6)),
    insert_raw_ssh_host_algorithm              |-> Host(2, Into("raw_ssh_host_algorithms", 5)) ]

InterfaceStatements ==
  [ insert_raw_device_interfaces_cdp           |-> Into("raw_device_interfaces_cdp", 4),
    insert_raw_device_interfaces_bpdu          |-> Into("raw_device_interfaces_bpdu", 5),
    insert_raw_device_interfaces_portfast      |-> Into("raw_device_interfaces_portfast", 4),
    insert_raw_device_interfaces_mode          |-> Into("raw_device_interfaces_mode", 4),
    insert_raw_device_interfaces_port_security |-> Into("raw_device_interfaces_port_security", 7),
    insert_raw_device_interfaces_port_security_mac_addr |->
      Into("raw_device_interfaces_port_security_mac_addrs", 4),
    insert_raw_device_interfaces_vlan          |-> Into("raw_device_interfaces_vlans", 4),
    insert_raw_device_interface_hierarchy      |-> Into("raw_device_interface_hierarchies", 4),
    insert_raw_device_ac_net                   |-> Into("raw_device_ac_nets", 5),
    insert_raw_device_ac_service               |-> Into("raw_device_ac_services", 4) ]

AclSetStatements ==
  [ insert_raw_device_ac_rule              |-> Into("raw_device_ac_rules", 13),
    insert_raw_device_acl_zone_base        |-> Into("raw_device_acl_zones_bases", 3),
    insert_raw_device_acl_zone_interface   |-> Into("raw_device_acl_zones_interfaces", 4),
    insert_raw_device_acl_zone_include     |-> Into("raw_device_acl_zones_includes", 4),
    insert_raw_device_acl_ip_net_base      |-> Into("raw_device_acl_ip_nets_bases", 4),
    insert_raw_device_acl_ip_net_ip_net    |-> Net(5, Into("raw_device_acl_ip_nets_ip_nets", 5)),
    insert_raw_device_acl_ip_net_hostname |->
      Lowered(5, Into("raw_device_acl_ip_nets_hostnames", 5)),
    insert_raw_device_acl_ip_net_include   |-> Into("raw_device_acl_ip_nets_includes", 6),
    insert_raw_device_acl_port_base        |-> Into("raw_device_acl_ports_bases", 3),
    insert_raw_device_acl_port_port        |-> Into("raw_device_acl_ports_ports", 4),
    insert_raw_device_acl_port_include     |-> Into("raw_device_acl_ports_includes", 4),
    insert_raw_device_acl_service_base     |-> Into("raw_device_acl_services_bases", 3),
    insert_raw_device_acl_service_protocol |-> Into("raw_device_acl_services_protocols", 4),
    insert_raw_device_acl_service_port     |-> Into("raw_device_acl_services_ports", 6) ]

AclRuleStatements ==
  [ insert_raw_device_acl_service_include |-> Into("raw_device_acl_services_includes", 4),
    insert_raw_device_acl_rule_port       |-> Into("raw_device_acl_rules_ports", 14),
    insert_raw_device_acl_rule_service    |-> Into("raw_device_acl_rules_services", 12),
    insert_raw_tool_observation           |-> Into("raw_tool_observations", 3),
    insert_raw_prowler_v2_check           |-> Into("raw_prowler_v2_checks", 2),
    insert_raw_prowler_v3_check           |-> Into("raw_prowler_v3_checks", 2) ]

Statements == AwsHostStatements @@ AwsNetworkStatements @@ AwsFilterStatements @@ AwsTieStatements
              @@ ToolRunStatements @@ DeviceStatements @@ AddressStatements @@ HostStatements
              @@ InterfaceStatements @@ AclSetStatements @@ AclRuleStatements

\* A port is text in some parameters: the sequence of its numbers, one for a port,
\* two for a range, none for nullptr.
NullPort == -2
NoNumber == -3

LOCAL Column(how, v) ==
  CASE how = "as is"   -> v
    [] how = "host"    -> IF v = <<>> THEN v ELSE v[1]
    [] how = "inet"    -> IF v[2] = Width(v[1]) THEN v[1] ELSE v
    [] how = "network" -> NetText([NoIp EXCEPT !.addr = v[1], !.prefix = v[2]])
    [] how = "lower"   -> Lower(v)
    [] how = "source"  -> IF v = <<Any4, UNSET>> THEN <<>> ELSE v
    [] how = "observer" -> IF v = <<Any4, 0>> THEN <<>> ELSE v
    [] how = "number"  -> CASE v = <<>> -> NullPort [] Len(v) = 1 -> v[1] [] OTHER -> NoNumber

\* A call is the statement's name and its parameters; this is the row it inserts.
RowOf(call) ==
  LET s == Statements[call[1]]
  IN  <<s.table>> \o [c \in DOMAIN s.columns |-> Column(s.columns[c][1], call[s.columns[c][2] + 1])]
================================================================================
