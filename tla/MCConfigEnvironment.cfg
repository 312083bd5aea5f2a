\* Setups run one after another without end; a setup is always possible.
CONSTANTS
    Envs <- MCEnvs
SPECIFICATION Spec
INVARIANT RerunIsFixpoint
INVARIANT SettingsSurviveRerun
INVARIANT JwtCertsUrlFromAasApiUrl
