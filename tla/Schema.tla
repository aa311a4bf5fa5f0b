-------------------------------- MODULE Schema --------------------------------
(***************************************************************************)
(* The tables of the data store, as far as constraints go: how many of the *)
(* leading columns identify a row, and which columns refer to a row of     *)
(* another table.  A row is the sequence of its table's name and columns:  *)
(* those that identify it and those that do not, which are named in a      *)
(* comment; texts that belong together are one column.  Left out are the   *)
(* columns every importer gives the same value (local_service, the         *)
(* description of an AWS block) and all but the id of a tool run.  Column  *)
(* 1 is the tool run wherever a table has one.  Every foreign key of the   *)
(* schema is ON DELETE CASCADE.                                            *)
(***************************************************************************)
EXTENDS Statements

LOCAL Table(key, refs) == [key |-> key, refs |-> refs]

LOCAL ToRun     == <<"tool_runs", <<1>>>>
LOCAL ToDevice  == <<"raw_devices", <<1, 2>>>>
LOCAL ToIface   == <<"raw_device_interfaces", <<1, 2, 3>>>>
LOCAL ToPort    == <<"raw_ports", <<1, 2, 3, 4>>>>
LOCAL ToPlugin  == <<"raw_nessus_results", <<1, 2, 3, 4, 5>>>>
LOCAL ToCidr(c) == <<"raw_aws_cidr_blocks", <<1, c>>>>

ToolRunTables ==
  [ tool_runs           |-> Table(1, {}),
    tool_run_interfaces |-> Table(2, {ToRun}),      \* run, interface, media, up
    tool_run_mac_addrs  |-> Table(3, {ToRun}),
    tool_run_ip_addrs   |-> Table(3, {ToRun}),
    tool_run_ip_routes  |-> Table(4, {ToRun}) ]     \* run, interface, net, next hop

AddressTables ==
  [ raw_mac_addrs          |-> Table(2, {ToRun}),   \* run, mac, responding
    raw_ip_addrs           |-> Table(2, {ToRun}),   \* run, ip, responding
    raw_mac_addrs_ip_addrs |-> Table(3, {<<"raw_mac_addrs", <<1, 2>>>>, <<"raw_ip_addrs", <<1, 3>>>>}),
    raw_hostnames          |-> Table(4, {<<"raw_ip_addrs", <<1, 2>>>>}),
    raw_dns_lookups        |-> Table(4, {ToRun}),   \* run, resolver, section, answer
    raw_vlans              |-> Table(2, {ToRun}),   \* run, vlan, description
    raw_ip_nets            |-> Table(2, {ToRun}),   \* run, net, description
    ip_nets_extra_weights  |-> Table(1, {}),        \* net, weight: of no tool run
    raw_vlans_ip_nets      |-> Table(3, {<<"raw_vlans", <<1, 2>>>>, <<"raw_ip_nets", <<1, 3>>>>}),
    raw_ip_traceroutes     |-> Table(4, {<<"raw_ip_addrs", <<1, 3>>>>, <<"raw_ip_addrs", <<1, 4>>>>}),
    raw_packages           |-> Table(3, {ToRun}) ]  \* run, state, package

HostTables ==
  [ raw_ports            |-> Table(4, {<<"raw_ip_addrs", <<1, 2>>>>}),   \* run, ip, protocol, port, state, reason
    raw_network_services |-> Table(4, {ToPort}),    \* ..., name, description, reason, observer
    raw_nessus_results   |-> Table(5, {ToPort}),    \* ..., plugin, its output, severity, its solution
    raw_nessus_results_cves               |-> Table(6, {ToPlugin}),
    raw_nessus_results_metasploit_modules |-> Table(6, {ToPlugin}),
    raw_nse_results          |-> Table(5, {ToPort}),        \* ..., script, its output
    raw_ssh_host_public_keys |-> Table(5, {ToPort}),        \* ..., what identifies the key, the key
    raw_ssh_host_algorithms  |-> Table(5, {ToPort}),
    raw_operating_systems    |-> Table(3, {<<"raw_ip_addrs", <<1, 2>>>>}),
    raw_tool_observations    |-> Table(3, {ToRun}),
    raw_prowler_v2_checks    |-> Table(2, {ToRun}),
    raw_prowler_v3_checks    |-> Table(2, {ToRun}) ]

DeviceTables ==
  [ raw_devices                     |-> Table(2, {ToRun}),
    raw_device_virtualizations      |-> Table(3, {ToDevice, <<"raw_devices", <<1, 3>>>>}),
    raw_device_hardware_information |-> Table(3, {ToDevice}),
    device_colors                   |-> Table(1, {}),
    device_extra_weights            |-> Table(1, {}),
    raw_device_interfaces |-> Table(3, {ToDevice}), \* ..., media, up, description
    raw_device_interface_hierarchies |-> Table(4, {ToIface, <<"raw_device_interfaces", <<1, 2, 4>>>>}),
    raw_device_mac_addrs  |-> Table(4, {ToIface, <<"raw_mac_addrs", <<1, 4>>>>}),
    raw_device_ip_addrs   |-> Table(5, {ToIface, <<"raw_ip_addrs", <<1, 4>>>>}),
    raw_device_vrfs       |-> Table(3, {ToDevice}),
    raw_device_vrfs_interfaces |->
      Table(4, {<<"raw_device_vrfs", <<1, 2, 3>>>>, <<"raw_device_interfaces", <<1, 2, 4>>>>}),
    raw_device_ip_routes  |-> Table(8, {ToDevice}), \* ..., vrf, net, next vrf, next table, hop, interface
    raw_device_ip_servers |-> Table(5, {ToDevice}), \* ..., interface, service, ip, port, description
    raw_device_dns_resolvers      |-> Table(4, {ToDevice}),   \* ..., source, destination
    raw_device_dns_search_domains |-> Table(3, {ToDevice}),
    raw_device_dns_references     |-> Table(3, {ToDevice}) ]

InterfaceTables ==
  [ raw_device_phys_connections |-> Table(5, {ToIface, <<"raw_devices", <<1, 4>>>>}),
    raw_device_link_connections |-> Table(4, {ToIface, <<"raw_mac_addrs", <<1, 4>>>>}),
    raw_devices_aaa             |-> Table(3, {ToDevice}),
    raw_device_interfaces_mode  |-> Table(3, {ToIface}),
    raw_device_interfaces_bpdu  |-> Table(3, {ToIface}),
    raw_device_interfaces_cdp   |-> Table(3, {ToIface}),
    raw_device_interfaces_portfast      |-> Table(3, {ToIface}),
    raw_device_interfaces_port_security |-> Table(3, {ToIface}),
    raw_device_interfaces_port_security_mac_addrs |->
      Table(4, {ToIface, <<"raw_mac_addrs", <<1, 4>>>>}),
    raw_device_vlans            |-> Table(3, {ToDevice}),     \* ..., vlan, description
    raw_device_vlans_ip_nets    |->
      Table(4, {<<"raw_device_vlans", <<1, 2, 3>>>>, <<"raw_ip_nets", <<1, 4>>>>}),
    raw_device_interfaces_vlans |-> Table(4, {ToIface}) ]

LOCAL ToZone(c)    == <<"raw_device_acl_zones_bases", <<1, 2, c>>>>
LOCAL ToNetSet(c)  == <<"raw_device_acl_ip_nets_bases", <<1, 2, c, c + 1>>>>
LOCAL ToPortSet(c) == <<"raw_device_acl_ports_bases", <<1, 2, c>>>>
LOCAL ToService(c) == <<"raw_device_acl_services_bases", <<1, 2, c>>>>

AccessTables ==
  [ raw_device_ac_nets     |-> Table(5, {ToDevice}),   \* ..., zone, name, entry
    raw_device_ac_services |-> Table(4, {ToDevice}),   \* ..., name, entry
    raw_device_ac_rules    |-> Table(13, {ToDevice}),  \* ..., enabled, id, twice zone, set, interface, then service, action, description
    raw_device_acl_zones_bases      |-> Table(3, {ToDevice}),
    raw_device_acl_zones_interfaces |-> Table(4, {ToZone(3)}),
    raw_device_acl_zones_includes   |-> Table(4, {ToZone(3)}),
    raw_device_acl_ip_nets_bases     |-> Table(4, {ToDevice}),   \* ..., namespace, id
    raw_device_acl_ip_nets_ip_nets   |-> Table(5, {ToNetSet(3)}),
    raw_device_acl_ip_nets_hostnames |->
      Table(5, {ToNetSet(3), <<"raw_device_dns_references", <<1, 2, 5>>>>}),
    raw_device_acl_ip_nets_includes  |-> Table(6, {ToNetSet(3)}),
    raw_device_acl_ports_bases    |-> Table(3, {ToDevice}),
    raw_device_acl_ports_ports    |-> Table(4, {ToPortSet(3)}),
    raw_device_acl_ports_includes |-> Table(4, {ToPortSet(3)}),
    raw_device_acl_services_bases     |-> Table(3, {ToDevice}),
    raw_device_acl_services_protocols |-> Table(4, {ToService(3)}),
    raw_device_acl_services_ports     |->
      Table(6, {<<"raw_device_acl_services_protocols", <<1, 2, 3, 4>>>>}),
    raw_device_acl_services_includes  |-> Table(4, {ToService(3)}),
    \* run, device, priority, action, zones, source set, target set, then protocol and ports or service; description
    raw_device_acl_rules_ports    |->
      Table(13, {ToZone(5), ToZone(6), ToNetSet(7), ToNetSet(9), ToPortSet(12), ToPortSet(13)}),
    raw_device_acl_rules_services |->
      Table(11, {ToZone(5), ToZone(6), ToNetSet(7), ToNetSet(9), ToService(11)}) ]

LOCAL ToNic(c)    == <<"raw_aws_network_interfaces", <<1, c>>>>
LOCAL ToVpc(c)    == <<"raw_aws_vpcs", <<1, c>>>>
LOCAL ToPeering   == <<"raw_aws_vpc_peering_connections", <<1, 2>>>>
LOCAL ToGroup(c)  == <<"raw_aws_security_groups", <<1, c>>>>
LOCAL ToAcl(c)    == <<"raw_aws_network_acls", <<1, c>>>>
LOCAL ToAclRule   == <<"raw_aws_network_acl_rules", <<1, 2, 3, 4>>>>
LOCAL ToSubnet(c) == <<"raw_aws_subnets", <<1, c>>>>
LOCAL ToRoutes    == <<"raw_aws_route_tables", <<1, 2>>>>
LOCAL ToGateway   == <<"raw_aws_transit_gateways", <<1, 2>>>>
LOCAL ToInstance  == <<"raw_aws_instances", <<1, 2>>>>

AwsHostTables ==
  [ raw_aws_cidr_blocks        |-> Table(2, {ToRun}),
    raw_aws_cidr_block_details |-> Table(3, {ToCidr(2)}),      \* ..., state
    raw_aws_cidr_block_fqdns   |-> Table(3, {ToCidr(2)}),
    raw_aws_instances          |-> Table(2, {ToRun}),
    raw_aws_instance_details   |-> Table(3, {ToInstance}),
    raw_aws_network_interfaces            |-> Table(2, {ToRun}),
    raw_aws_network_interface_details     |-> Table(3, {ToNic(2)}),  \* ..., description
    raw_aws_network_interface_attachments |-> Table(3, {ToNic(2)}),
    raw_aws_network_interface_macs        |-> Table(3, {ToNic(2)}),
    raw_aws_network_interface_ips         |-> Table(3, {ToNic(2), <<"raw_ip_addrs", <<1, 3>>>>}),
    raw_aws_instance_network_interfaces   |-> Table(3, {ToInstance, ToNic(3)}),
    raw_aws_network_interface_vpc_subnet  |-> Table(4, {ToNic(2), ToVpc(3), ToSubnet(4)}),
    raw_aws_network_interface_security_groups |-> Table(3, {ToNic(2), ToGroup(3)}) ]

AwsNetworkTables ==
  [ raw_aws_vpcs            |-> Table(2, {ToRun}),
    raw_aws_vpc_owners      |-> Table(3, {ToVpc(2)}),
    raw_aws_vpc_details     |-> Table(3, {ToVpc(2)}),
    raw_aws_vpc_cidr_blocks |-> Table(3, {ToVpc(2), ToCidr(3)}),   \* ..., state
    raw_aws_vpc_peering_connections         |-> Table(2, {ToRun}),
    raw_aws_vpc_peering_connection_peers    |-> Table(6, {ToPeering}),
    raw_aws_vpc_peering_connection_statuses |-> Table(3, {ToPeering}),
    raw_aws_subnets            |-> Table(2, {ToRun}),
    raw_aws_subnet_details     |-> Table(3, {ToSubnet(2)}),
    raw_aws_subnet_cidr_blocks |-> Table(3, {ToSubnet(2), ToCidr(3)}),
    raw_aws_route_tables              |-> Table(2, {ToRun}),
    raw_aws_route_table_associations  |-> Table(3, {ToRoutes}),
    raw_aws_route_table_routes_cidr     |-> Table(5, {ToRoutes, ToCidr(5)}),
    raw_aws_route_table_routes_non_cidr |-> Table(5, {ToRoutes}),
    raw_aws_transit_gateways            |-> Table(2, {ToRun}),
    raw_aws_transit_gateway_owners      |-> Table(3, {ToGateway}),
    raw_aws_transit_gateway_attachments |-> Table(3, {ToGateway}),  \* ..., state
    raw_aws_transit_gateway_attachment_details |->
      Table(4, {<<"raw_aws_transit_gateway_attachments", <<1, 2, 3>>>>}),
    raw_aws_vpc_subnets         |-> Table(3, {ToVpc(2), ToSubnet(3)}),
    raw_aws_vpc_security_groups |-> Table(3, {ToVpc(2), ToGroup(3)}),
    raw_aws_vpc_network_acls    |-> Table(3, {ToVpc(2), ToAcl(3)}),
    raw_aws_vpc_route_tables    |-> Table(4, {ToRun}),      \* neither the VPC nor the table need exist
    raw_aws_network_acl_subnets |-> Table(3, {ToAcl(2), ToSubnet(3)}) ]

AwsFilterTables ==
  [ raw_aws_security_groups        |-> Table(2, {ToRun}),
    raw_aws_security_group_details |-> Table(3, {ToGroup(2)}),
    \* ..., egress, protocol, range, then a cidr block or the target's name
    raw_aws_security_group_rules_ports               |-> Table(6, {ToGroup(2), ToCidr(6)}),
    raw_aws_security_group_rules_type_codes          |-> Table(6, {ToGroup(2), ToCidr(6)}),
    raw_aws_security_group_rules_non_ip_details      |-> Table(6, {ToGroup(2)}),
    raw_aws_security_group_rules_non_ip_ports        |-> Table(6, {ToGroup(2)}),
    raw_aws_security_group_rules_non_ip_type_codes   |-> Table(6, {ToGroup(2)}),
    raw_aws_network_acls                  |-> Table(2, {ToRun}),
    raw_aws_network_acl_rules             |-> Table(4, {ToAcl(2), ToCidr(7)}),   \* ..., egress, number, action, protocol, cidr
    raw_aws_network_acl_rules_ports       |-> Table(5, {ToAclRule}),
    raw_aws_network_acl_rules_type_codes  |-> Table(5, {ToAclRule}) ]

Schema == ToolRunTables @@ AddressTables @@ HostTables @@ DeviceTables @@ InterfaceTables
          @@ AccessTables @@ AwsHostTables @@ AwsNetworkTables @@ AwsFilterTables

LOCAL VlanNumber == 0..4095
LOCAL PortNumber == -1..65535

\* The text of a check is <<what tells it from others, its severity>>.
ProwlerSeverity == {"critical", "high", "medium", "low", "informational"}

\* Rows a column's type, domain or CHECK refuses.  <<>> is an INET that is not there.
Malformed(row) ==
  \/ row[1] \in {"raw_vlans", "raw_vlans_ip_nets"} /\ row[3] \notin VlanNumber
  \/ row[1] \in {"raw_device_vlans", "raw_device_vlans_ip_nets"} /\ row[4] \notin VlanNumber
  \/ row[1] = "raw_device_interfaces_vlans" /\ row[5] \notin VlanNumber
  \/ row[1] \in {"raw_ports", "raw_network_services", "raw_nessus_results"} /\ row[5] \notin PortNumber
  \/ row[1] = "raw_nessus_results" /\ row[8] \notin 0..4
  \/ row[1] = "raw_ip_traceroutes" /\ row[3] \notin 0..255
  \/ row[1] \in {"raw_prowler_v2_checks", "raw_prowler_v3_checks"} /\ row[3][2] \notin ProwlerSeverity
  \/ row[1] = "tool_run_ip_routes" /\ row[5] = <<>>
  \/ row[1] = "raw_device_ip_servers" /\ row[7] # NullPort /\ row[7] \notin PortNumber
  \/ /\ row[1] = "raw_device_dns_resolvers"
     /\ \/ row[4] # <<>> /\ row[4][2] # Width(row[4][1])
        \/ row[5][2] # Width(row[5][1])
  \/ /\ row[1] = "raw_device_ip_routes"
     /\ LET net == row[5]  nextVrf == row[6]  nextTable == row[7]  hop == row[8]
        IN  \/ hop # <<>> /\ Len(hop) # Len(net[1])
            \/ hop = <<>> /\ (nextVrf = "") # (nextTable = "")
================================================================================
