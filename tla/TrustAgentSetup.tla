--------------------------- MODULE TrustAgentSetup ---------------------------
(***************************************************************************)
(* A host running trust-agent setup, over and over: each setup process     *)
(* loads the configuration (config.NewConfigFromYaml), runs the            *)
(* take-ownership task, then the provision-aik task, each Run followed by  *)
(* Validate, and saves the configuration (TrustAgentConfiguration.Save),   *)
(* The configuration (TrustAgentConfiguration) has no field for the AIK    *)
(* secret, so what Save writes does not depend on it: the secret a setup   *)
(* starts with is the optional AIK_SECRET of spec.md 6, or "".            *)
(* The first failing task ends the process without saving.  The process    *)
(* may be killed at any step, and between processes an operator may clear  *)
(* the TPM.  The TPM, the configuration file and aik.cer outlive the       *)
(* process; the task fields do not.                                        *)
(*                                                                         *)
(* The setup runner that sequences the tasks and calls Save is not under   *)
(* src/; its order is the one spec.md 4.5 describes.                       *)
(***************************************************************************)
EXTENDS TpmProvider

CONSTANTS NoCert

VARIABLES
    tpmOwner, tpmAik, aikKeys, ekCert,      \* the TPM
    ownerSecret, aikSecret, usedAikSecrets, \* task inputs, AIK secrets
    certFile,                               \* aik.cer
    toState,                                \* the take-ownership task
    paState, paError,                       \* the provision-aik task
    cfgFile,    \* config.yml: "absent", "empty" or "yaml"
    setupPc,    \* "idle" (no setup process), "tasks", "save_write"
    suppliedAikSecret   \* the AIK secret the current setup started with

vars == <<tpmOwner, tpmAik, aikKeys, ekCert, ownerSecret, aikSecret,
          usedAikSecrets, certFile, toState, paState, paError, cfgFile,
          setupPc, suppliedAikSecret>>

TO == INSTANCE TakeOwnership
PA == INSTANCE ProvisionAik

TypeOK ==
    /\ PA!TypeOK
    /\ TO!TypeOK
    /\ cfgFile \in {"absent", "empty", "yaml"}
    /\ setupPc \in {"idle", "tasks", "save_write"}
    /\ suppliedAikSecret \in AikSecrets \cup {Empty}

\* config.NewConfigFromYaml: a missing file gives a blank configuration;
\* an empty file makes the YAML decoder return io.EOF, so loading fails.
Loadable == cfgFile # "empty"

\* Bounds: a fresh AIK secret and a fresh AIK key remain for the next run.
WithinBounds ==
    /\ usedAikSecrets # AikSecrets
    /\ aikKeys < MaxAik

-----------------------------------------------------------------------------
\* A setup process with TPM_OWNER_SECRET s and AIK_SECRET a ("" if unset).
StartSetup(s, a) ==
    /\ setupPc = "idle"
    /\ WithinBounds
    /\ Loadable
    /\ setupPc' = "tasks"
    /\ ownerSecret' = s
    /\ aikSecret' = a
    /\ suppliedAikSecret' = a
    /\ usedAikSecrets' = usedAikSecrets \cup ({a} \ {Empty})
    /\ toState' = "run"
    /\ UNCHANGED <<tpmOwner, tpmAik, aikKeys, ekCert, certFile, paState,
                   paError, cfgFile>>

TakeOwnershipRun ==
    /\ setupPc = "tasks"
    /\ TO!Run
    /\ UNCHANGED <<tpmAik, aikKeys, ekCert, aikSecret, usedAikSecrets,
                   certFile, paState, paError, cfgFile, setupPc,
                   suppliedAikSecret>>

TakeOwnershipValidate ==
    /\ setupPc = "tasks"
    /\ TO!Validate
    /\ UNCHANGED <<tpmAik, aikKeys, ekCert, aikSecret, usedAikSecrets,
                   certFile, paState, paError, cfgFile, setupPc,
                   suppliedAikSecret>>

StartProvisionAik ==
    /\ setupPc = "tasks"
    /\ toState = "validated"
    /\ paState = "idle"
    /\ paState' = "run"
    /\ UNCHANGED <<tpmOwner, tpmAik, aikKeys, ekCert, ownerSecret, aikSecret,
                   usedAikSecrets, certFile, toState, paError, cfgFile,
                   setupPc, suppliedAikSecret>>

ProvisionAikRun ==
    /\ setupPc = "tasks"
    /\ PA!Run
    /\ UNCHANGED <<toState, cfgFile, setupPc, suppliedAikSecret>>

ProvisionAikValidate ==
    /\ setupPc = "tasks"
    /\ PA!Validate
    /\ UNCHANGED <<toState, cfgFile, setupPc, suppliedAikSecret>>

\* The process ends: task fields are gone.
EndProcess ==
    /\ setupPc' = "idle"
    /\ toState' = "idle"
    /\ paState' = "idle"
    /\ paError' = "none"

\* Save(): os.OpenFile(O_RDWR|O_TRUNC), or, when the file does not exist,
\* OpenFile(O_CREATE|O_TRUNC|O_WRONLY) and Chmod; either empties the file
\* before the YAML encoder writes it.  An open or create error returns
\* before that; a Chmod error returns after the create left an empty file.
SaveOpen ==
    /\ setupPc = "tasks"
    /\ paState = "validated"
    /\ \/ /\ MayFail
          /\ EndProcess
          /\ UNCHANGED cfgFile
       \/ /\ MayFail
          /\ cfgFile = "absent"
          /\ cfgFile' = "empty"
          /\ EndProcess
       \/ /\ cfgFile' = "empty"
          /\ setupPc' = "save_write"
          /\ UNCHANGED <<toState, paState, paError>>
    /\ UNCHANGED <<tpmOwner, tpmAik, aikKeys, ekCert, ownerSecret, aikSecret,
                   usedAikSecrets, certFile, suppliedAikSecret>>

\* Save(): yaml.NewEncoder(file).Encode(cfg); the configuration holds no
\* AIK secret.  A failed write leaves the file empty.
SaveEncode ==
    /\ setupPc = "save_write"
    /\ \/ /\ MayFail
          /\ UNCHANGED cfgFile
       \/ cfgFile' = "yaml"
    /\ EndProcess
    /\ UNCHANGED <<tpmOwner, tpmAik, aikKeys, ekCert, ownerSecret, aikSecret,
                   usedAikSecrets, certFile, suppliedAikSecret>>

\* A task's Run or Validate failed (or panicked): setup stops, no Save.
SetupFailed ==
    /\ setupPc = "tasks"
    /\ \/ toState \in {"run_failed", "validate_failed"}
       \/ paState \in {"run_failed", "validate_failed", "panicked"}
    /\ EndProcess
    /\ UNCHANGED <<tpmOwner, tpmAik, aikKeys, ekCert, ownerSecret, aikSecret,
                   usedAikSecrets, certFile, cfgFile, suppliedAikSecret>>

\* The setup process is killed (signal, power loss) at any step.
Crash ==
    /\ setupPc # "idle"
    /\ EndProcess
    /\ UNCHANGED <<tpmOwner, tpmAik, aikKeys, ekCert, ownerSecret, aikSecret,
                   usedAikSecrets, certFile, cfgFile, suppliedAikSecret>>

\* Between setup processes an operator clears the TPM (owner password
\* back to "", persistent AIK evicted).
OperatorClear ==
    /\ setupPc = "idle"
    /\ tpmOwner' = Empty
    /\ tpmAik' = NoAik
    /\ UNCHANGED <<aikKeys, ekCert, ownerSecret, aikSecret, usedAikSecrets,
                   certFile, toState, paState, paError, cfgFile, setupPc,
                   suppliedAikSecret>>

-----------------------------------------------------------------------------
\* A host never set up, and a host set up earlier: aik.cer issued by HVS
\* for the AIK in the TPM, a saved configuration.
FreshHost ==
    /\ tpmOwner \in OwnerAuths
    /\ tpmAik = NoAik
    /\ aikKeys = 0
    /\ usedAikSecrets = {}
    /\ cfgFile = "absent"
    /\ certFile = NoCert

ProvisionedHost ==
    \E o \in OwnerSecrets, a \in AikSecrets :
        /\ tpmOwner = o
        /\ tpmAik = [secret |-> a, key |-> 1]
        /\ aikKeys = 1
        /\ usedAikSecrets = {a}
        /\ cfgFile = "yaml"
        /\ certFile = 1

Init ==
    /\ FreshHost \/ ProvisionedHost
    /\ ekCert \in PA!EkCerts
    /\ ownerSecret = Empty
    /\ aikSecret = Empty
    /\ suppliedAikSecret = Empty
    /\ toState = "idle"
    /\ paState = "idle"
    /\ paError = "none"
    /\ setupPc = "idle"

Next ==
    \/ \E s \in OwnerAuths, a \in AikSecrets \cup {Empty} : StartSetup(s, a)
    \/ TakeOwnershipRun
    \/ TakeOwnershipValidate
    \/ StartProvisionAik
    \/ ProvisionAikRun
    \/ ProvisionAikValidate
    \/ SaveOpen
    \/ SaveEncode
    \/ SetupFailed
    \/ Crash
    \/ OperatorClear

Spec == Init /\ [][Next]_vars

-----------------------------------------------------------------------------
(* Properties *)

\* Take-ownership, as run by setup processes that may be killed and between
\* which the TPM may be cleared, implements the decision table of spec.md
\* 4.4 (TakeOwnership.Run in take_ownership.go).
OwnershipRefinement == TO!OwnershipRefinement

\* spec.md 3, 6 and E2: the AIK secret is retained in the configuration, so
\* a setup that is given no AIK_SECRET reuses the AIK an earlier setup
\* created and never fails with AikExists; only a supplied secret other
\* than the AIK's may.  (createAik generates a new secret whenever
\* *aikSecretKey is "".)
RerunReusesAik ==
    paError = "aik_exists" => suppliedAikSecret # Empty

\* spec.md 3 and E2: when provision-aik validates, aik.cer is the
\* certificate of the AIK now in the TPM.
ValidatedCertCertifiesAik ==
    paState = "validated" => tpmAik # NoAik /\ certFile = tpmAik.key

\* Whenever no setup runs, config.NewConfigFromYaml can load the
\* configuration file, so that the next setup (and the service) can start.
ConfigLoadableWhenIdle ==
    setupPc = "idle" => Loadable
=============================================================================
