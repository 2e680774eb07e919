------------------------------- MODULE MCCaps -------------------------------
EXTENDS Caps, TLC

MCProcOf == "night" :> "gateway" @@ "shell" :> "cli"
MCTreeOf == "root" :> "night" @@ "other" :> "shell"
MCTaskOf == "night" :> "daily" @@ "shell" :> "none"
=============================================================================
