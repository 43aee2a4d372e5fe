---------------------------- MODULE ComputeState ----------------------------
(***************************************************************************)
(* nova/compute.sls with nova/_ssl/rabbitmq.sls, on Debian, for a node     *)
(* without a controller and with the libvirt driver, as a graph for        *)
(* Highstate.  States that a loop repeats, or that always come together,   *)
(* are one.                                                                *)
(***************************************************************************)
EXTENDS Highstate

ComputeFeature == {"user", "log_appender", "libvirt_tls", "qemu_tls", "ceph", "virtlog"}

\* nova._ssl.rabbitmq comes first and pulls the user; the rest is in the order of
\* the file.
ComputeOrder(f) ==
  <<"user_nova_compute", "ssl", "packages", "log_dir">>
  \o When("user", f, <<"user_nova_bash", "user_libvirt_qemu", "id_rsa", "ssh_config">>)
  \o <<"conf", "default">>
  \o When("log_appender", f, <<"service_logging">>)
  \o When("libvirt_tls", f, <<"libvirt_tls">>)
  \o When("qemu_tls", f, <<"qemu_tls">>)
  \o <<"services", "aggregates">>
  \o When("ceph", f, <<"secret", "secret_define", "secret_set_value">>)
  \o <<"libvirt_bin", "libvirt_reload", "qemu_conf", "libvirtd_conf">>
  \o When("virtlog", f, <<"virtlogd_conf", "virtlogd">>)
  \o <<"net_undefine", "libvirt">>

ComputeRequire ==
  UNION {{"log_dir", "id_rsa", "ssh_config", "conf", "default", "service_logging",
          "libvirt_bin", "qemu_conf", "libvirtd_conf", "virtlogd_conf", "net_undefine",
          "libvirt"} \X {"packages"},
         {"conf", "services"} \X {"ssl"},
         {<<"secret_define", "secret">>, <<"secret_set_value", "secret_define">>,
          <<"libvirt", "net_undefine">>},
         {<<"libvirt_tls", "user_nova_bash">>, <<"qemu_tls", "user_libvirt_qemu">>}}

\* Mutated: the packages do not wait for the user.
ComputeRequireIn_packages ==
  {<<"ssl", "user_nova_compute">>, <<"services", "log_dir">>, <<"libvirt", "libvirt_reload">>}
ComputeRequireIn ==
  UNION {{"packages", "ssl", "id_rsa"} \X {"user_nova_compute"},
         {<<"services", "log_dir">>, <<"libvirt", "libvirt_reload">>}}

ComputeWatch ==
  UNION {{<<"services", "conf">>, <<"libvirt_reload", "libvirt_bin">>,
          <<"virtlogd", "virtlogd_conf">>},
         {"libvirt"} \X {"libvirtd_conf", "qemu_conf"}}

ComputeWatchIn ==
  UNION {{"services"} \X {"default", "service_logging"},
         {<<"libvirt", "libvirt_bin">>}}

ComputeFiles ==
  {"ssl", "id_rsa", "ssh_config", "conf", "default", "service_logging", "libvirt_tls",
   "qemu_tls", "secret", "libvirt_bin", "qemu_conf", "libvirtd_conf", "virtlogd_conf"}

Compute(f) ==
  SLSGraph(ComputeOrder(f), ComputeRequire, ComputeRequireIn, ComputeWatch, ComputeWatchIn,
           ComputeFiles, {"services", "libvirt", "virtlogd"}, {"user_nova_compute"}, {})

=============================================================================
