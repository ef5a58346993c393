---------------------------- MODULE MCDeployment ----------------------------
(* The installed copy and one in the administrator's home, two releases,   *)
(* two accounts, and a configuration with a chat id that is no number.     *)
EXTENDS Deployment, TLC

CONSTANTS usr, home, new, old, vibegram, admin, good, bad

MCPaths == {usr, home}
MCVersions == {old, new}
MCUsers == {vibegram, admin}
MCConfigs == {good, bad}
MCValid == {good}

(* Copies, releases and accounts are interchangeable.                      *)
Same == Permutations(MCPaths) \cup Permutations(MCVersions) \cup Permutations(MCUsers)
=============================================================================
