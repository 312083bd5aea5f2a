-------------------------- MODULE ConfigEnvironment --------------------------
(***************************************************************************)
(* TrustAgentConfiguration.LoadEnvironmentVariables (config/config.go)     *)
(* over repeated setups: each loads config.yml (NewConfigFromYaml), loads  *)
(* the environment into it and, when that succeeds, saves it.  A failing   *)
(* load ends the setup before any task, as spec.md 7 has ConfigInvalid     *)
(* surface pre-flight; the setup runner is not under src/.  Kills between  *)
(* truncation and write are the subject of TrustAgentSetup.                *)
(*                                                                         *)
(* setup.Context.GetenvString returns the variable's value, or "" with an  *)
(* error when it is unset; every caller treats "" and unset alike, so ""   *)
(* stands for both.  URLs are sequences of characters where their last     *)
(* character matters; NAT_SERVERS is the list strings.Split makes of it.   *)
(***************************************************************************)
EXTENDS Naturals, Sequences, SequencesExt

CONSTANTS Envs     \* the environments a setup may run in

Absent == [absent |-> TRUE]  \* no config.yml

\* NewConfigFromYaml: the decoded file, or for a missing file a blank
\* configuration with LogLevel "info".
NewConfigFromYaml(file) ==
    IF file = Absent
    THEN [hvsUrl |-> "", aasUrl |-> <<>>, cmsUrl |-> "", logLevel |-> "info",
          cmsDigest |-> "", certCN |-> "", certSAN |-> "", mode |-> "",
          natsServers |-> <<>>, hostId |-> ""]
    ELSE file

\* logrus.ParseLevel on the levels the environment may name.
LogLevels == {"panic", "fatal", "error", "warning", "info", "debug", "trace"}

\* Mutant of LoadIfSet: the value is taken even when the variable is unset.
LoadIfSetAlways(current, value) == value

\* HVS_URL, CMS_BASE_URL, CMS_TLS_CERT_SHA384: a non-empty value replaces
\* the field (the code compares first; the result is the same).
LoadIfSet(current, value) == IF value # "" THEN value ELSE current

\* AAS_API_URL: as above, with a "/" appended unless the value ends in one.
LoadAasUrlAlwaysAppending(c, e) ==
    IF e.aas # <<>> /\ c.aasUrl # e.aas THEN Append(e.aas, "/") ELSE c.aasUrl

LoadAasUrl(c, e) ==
    IF e.aas # <<>> /\ c.aasUrl # e.aas
    THEN IF Last(e.aas) = "/" THEN e.aas ELSE Append(e.aas, "/")
    ELSE c.aasUrl

\* TRUSTAGENT_LOG_LEVEL if it parses, then "info" if still empty.
LoadLogLevel(c, e) ==
    LET ll == IF e.logLevel \in LogLevels THEN e.logLevel ELSE c.logLevel
    IN IF ll = "" THEN "info" ELSE ll

\* CMS_TLS_CERT_SHA384: a value that is not 96 characters, or not hex,
\* makes LoadEnvironmentVariables return an error at once.
DigestAccepted(e) == e.digest \in {"", "sha384"}

\* TA_TLS_CERT_CN and SAN_LIST: the value, else a default when blank.
LoadOrDefault(current, value, default) ==
    IF value # "" THEN value ELSE IF current = "" THEN default ELSE current

\* Mutant of LoadServiceMode: NAT_SERVERS appended to the servers already
\* configured instead of replacing them.
LoadServiceModeAppendingNats(c, e) ==
    IF e.mode \in {"http", "outbound"}
    THEN [c EXCEPT !.mode = e.mode,
                   !.natsServers = IF e.mode = "outbound" /\ e.nats # <<>>
                                   THEN @ \o e.nats ELSE @,
                   !.hostId = IF e.mode = "outbound" /\ e.hostId # ""
                              THEN e.hostId ELSE @]
    ELSE [c EXCEPT !.mode = "http"]

\* TA_SERVICE_MODE "http" or "outbound" is taken, and in outbound mode
\* NAT_SERVERS and TA_HOST_ID when set; any other value, or none, sets
\* "http" and leaves the NATS settings alone.
LoadServiceMode(c, e) ==
    IF e.mode \in {"http", "outbound"}
    THEN [c EXCEPT !.mode = e.mode,
                   !.natsServers = IF e.mode = "outbound" /\ e.nats # <<>>
                                   THEN e.nats ELSE @,
                   !.hostId = IF e.mode = "outbound" /\ e.hostId # ""
                              THEN e.hostId ELSE @]
    ELSE [c EXCEPT !.mode = "http"]

\* LoadEnvironmentVariables on configuration c in environment e: the
\* fields before the digest are changed even when the digest check fails.
LoadEnvironmentVariables(c, e) ==
    LET early == [c EXCEPT !.hvsUrl = LoadIfSet(@, e.hvs),
                           !.aasUrl = LoadAasUrl(c, e),
                           !.cmsUrl = LoadIfSet(@, e.cms),
                           !.logLevel = LoadLogLevel(c, e)]
        late == [early EXCEPT !.cmsDigest = LoadIfSet(@, e.digest),
                              !.certCN = LoadOrDefault(@, e.cn, "default"),
                              !.certSAN = LoadOrDefault(@, e.san, "default")]
    IN IF DigestAccepted(e)
       THEN [ok |-> TRUE, cfg |-> LoadServiceMode(late, e)]
       ELSE [ok |-> FALSE, cfg |-> early]

\* fnGetJwtCerts (service/webservice.go): the URL it requests is the saved
\* AAS base URL with "jwt-certificates" appended, no separator added.
JwtCertsUrl(c) == c.aasUrl \o <<"jwt-certificates">>

-----------------------------------------------------------------------------
VARIABLES
    configFile, \* config.yml: Absent or the configuration saved
    aasGiven    \* history: the last AAS_API_URL a successful setup was given

vars == <<configFile, aasGiven>>

\* One setup in environment e: load, load the environment, save on success.
Setup(e) ==
    LET r == LoadEnvironmentVariables(NewConfigFromYaml(configFile), e)
    IN \/ /\ r.ok
          /\ configFile' = r.cfg
          /\ aasGiven' = IF e.aas # <<>> THEN e.aas ELSE aasGiven
       \/ ~r.ok /\ UNCHANGED vars

Init == configFile = Absent /\ aasGiven = <<>>

Next == \E e \in Envs : Setup(e)

Spec == Init /\ [][Next]_vars

-----------------------------------------------------------------------------
(* Properties *)

\* A setup run again in the environment that produced the saved
\* configuration saves the same configuration: LoadEnvironmentVariables is
\* idempotent on what it wrote (the AAS slash normalisation, the defaults
\* and the NATS list included).
RerunIsFixpoint ==
    configFile # Absent =>
        \A e \in Envs :
            LET r == LoadEnvironmentVariables(configFile, e)
            IN r.ok => LoadEnvironmentVariables(r.cfg, e).cfg = r.cfg

\* A later setup in which a variable is unset keeps what earlier setups
\* saved for it: URLs, log level, digest, certificate names, NATS servers
\* and host id.  (TA_SERVICE_MODE is the exception the code makes on
\* purpose: unset, it resets the mode to http.)
KeepsUnset(c, d, e) ==
    /\ e.hvs = "" => d.hvsUrl = c.hvsUrl
    /\ e.aas = <<>> => d.aasUrl = c.aasUrl
    /\ e.cms = "" => d.cmsUrl = c.cmsUrl
    /\ e.logLevel = "" => d.logLevel = c.logLevel
    /\ e.digest = "" => d.cmsDigest = c.cmsDigest
    /\ e.cn = "" => d.certCN = c.certCN
    /\ e.san = "" => d.certSAN = c.certSAN
    /\ e.nats = <<>> => d.natsServers = c.natsServers
    /\ e.hostId = "" => d.hostId = c.hostId

SettingsSurviveRerun ==
    configFile # Absent =>
        \A e \in Envs :
            LET r == LoadEnvironmentVariables(configFile, e)
            IN r.ok => KeepsUnset(configFile, r.cfg, e)

\* The URL fnGetJwtCerts requests from the saved configuration is the
\* AAS_API_URL the last setup that set it was given, without its trailing
\* slash, joined to jwt-certificates by exactly one "/", whichever
\* AAS_API_URL earlier setups had, with or without the slash.
StripSlash(u) == IF u # <<>> /\ Last(u) = "/" THEN Front(u) ELSE u

JwtCertsUrlFromAasApiUrl ==
    aasGiven # <<>> =>
        JwtCertsUrl(configFile) = StripSlash(aasGiven) \o <<"/", "jwt-certificates">>
=============================================================================
