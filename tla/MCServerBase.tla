---------------------------- MODULE MCServerBase ----------------------------
(***************************************************************************)
(* Definitions that instantiate ServerBase for TLC.                        *)
(***************************************************************************)
EXTENDS ServerBase

\* One address, one wildcard, one port 0, and two addresses of which one
\* asks for an ephemeral port.
MCRpcConfigs ==
  {<<<<"127.0.0.1", 7100>>>>, <<<<"0.0.0.0", 7100>>>>, <<<<"127.0.0.1", 0>>>>,
   <<<<"127.0.0.1", 7100>>, <<"127.0.0.2", 0>>>>}

\* The default webserver_interface binds every interface.
MCWebConfig == <<"0.0.0.0", 9000>>

=============================================================================
