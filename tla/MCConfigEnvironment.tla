------------------------- MODULE MCConfigEnvironment -------------------------
(***************************************************************************)
(* Setups in every combination of: AAS_API_URL unset, without and with    *)
(* its trailing slash; TRUSTAGENT_LOG_LEVEL unset, valid or unparsable;   *)
(* CMS_TLS_CERT_SHA384 unset, valid, of the wrong length or not hex; the  *)
(* TLS common name and SAN list unset or set; TA_SERVICE_MODE unset, http, *)
(* outbound or unknown; NAT_SERVERS unset or two servers; TA_HOST_ID      *)
(* unset or set.  HVS_URL and CMS_BASE_URL are set throughout.            *)
(***************************************************************************)
EXTENDS ConfigEnvironment

MCEnvs ==
    [hvs : {"hvs"}, aas : {<<>>, <<"a", "a">>, <<"a", "a", "/">>},
     cms : {"cms"}, logLevel : {"", "debug", "verbose"},
     digest : {"", "sha384", "short", "nonhex"}, cn : {"", "cn"},
     san : {"", "san"}, mode : {"", "http", "outbound", "bogus"},
     nats : {<<>>, <<"n1", "n2">>}, hostId : {"", "host"}]
=============================================================================
