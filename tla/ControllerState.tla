-------------------------- MODULE ControllerState --------------------------
(***************************************************************************)
(* nova/controller.sls with nova/db and nova/_ssl, on Debian and for Ocata *)
(* or later, as a graph for Highstate.  States that a loop repeats, or     *)
(* that always come together, are one.                                     *)
(***************************************************************************)
EXTENDS Highstate

ControllerFeature == {"log_appender", "vencrypt", "tls", "policy"}

OfflineSync == {"apidb", "cell0", "cell1", "syncdb"}

\* nova.db.offline_sync comes first and pulls nova.conf with all that it requires;
\* nova.db.online_sync pulls the services with what they watch; the rest follows,
\* also the keys and certificates that no service watches.
ControllerOrder(f) ==
  <<"debconf", "user", "packages", "ssl", "conf">>
  \o When("log_appender", f, <<"logging">>)
  \o <<"apidb", "cell0", "cell1", "syncdb", "paste", "default">>
  \o When("log_appender", f, <<"service_logging">>)
  \o When("vencrypt", f, <<"vencrypt_ca">>)
  \o When("tls", f, <<"vnc_cert">>)
  \o <<"services", "online_sync">>
  \o When("vencrypt", f, <<"vencrypt_keys">>)
  \o When("tls", f, <<"vnc_key">>)
  \o When("policy", f, <<"policy">>)
  \o <<"placement_mask", "placement_package", "placement_conf", "placement_site",
       "discover_hosts", "map_instances", "apache">>

\* Mutated: the services do not wait for the migration.
ControllerRequire_early ==
  UNION {{"conf", "paste", "default", "logging", "service_logging", "policy",
          "placement_conf", "map_instances"} \X {"packages"},
         {"conf", "apache", "services"} \X {"ssl"},
         {<<"cell0", "apidb">>, <<"cell1", "cell0">>},
         {<<"placement_package", "placement_mask">>, <<"placement_conf", "placement_package">>,
          <<"placement_site", "placement_conf">>},
         {"discover_hosts", "apache"} \X OfflineSync,
         {<<"map_instances", "discover_hosts">>}}
\* Mutated: the services require the logging configuration, which not every node has.
ControllerRequire_logging == UNION {ControllerRequire_early, {"services"} \X {"logging"},
                                    {"services"} \X OfflineSync}
ControllerRequire ==
  UNION {{"conf", "paste", "default", "logging", "service_logging", "policy",
          "placement_conf", "map_instances"} \X {"packages"},
         {"conf", "apache", "services"} \X {"ssl"},
         {<<"cell0", "apidb">>, <<"cell1", "cell0">>},
         {<<"placement_package", "placement_mask">>, <<"placement_conf", "placement_package">>,
          <<"placement_site", "placement_conf">>},
         {"discover_hosts", "apache", "services"} \X OfflineSync,
         {<<"map_instances", "discover_hosts">>}}

\* Mutated: nova.conf and the logging configuration do not name nova.db.offline_sync.
ControllerRequireIn_late ==
  UNION {{<<"packages", "debconf">>},
         {"packages", "ssl", "placement_package"} \X {"user"},
         {<<"online_sync", "conf">>, <<"syncdb", "apidb">>, <<"syncdb", "cell1">>,
          <<"online_sync", "services">>}}
ControllerRequireIn ==
  UNION {{<<"packages", "debconf">>},
         {"packages", "ssl", "placement_package"} \X {"user"},
         OfflineSync \X {"conf", "logging"},
         {<<"online_sync", "conf">>, <<"syncdb", "apidb">>, <<"syncdb", "cell1">>,
          <<"online_sync", "services">>}}

ControllerWatch ==
  UNION {{"apache", "services"} \X {"conf", "paste"},
         {"apache"} \X {"placement_conf", "placement_site"}}

ControllerWatchIn ==
  UNION {{"services"} \X {"default", "logging", "service_logging", "vencrypt_ca", "vnc_cert"},
         {<<"apache", "service_logging">>}}

ControllerFiles ==
  {"ssl", "conf", "logging", "paste", "default", "vencrypt_ca", "vnc_cert", "vencrypt_keys",
   "vnc_key", "service_logging", "policy", "placement_conf"}

Controller(f) ==
  SLSGraph(ControllerOrder(f), ControllerRequire, ControllerRequireIn, ControllerWatch,
           ControllerWatchIn, ControllerFiles, {"apache", "services"}, {"user"}, OfflineSync)

=============================================================================
