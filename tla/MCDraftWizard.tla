---------------------------- MODULE MCDraftWizard ----------------------------
(* One user, two agents, and a home directory with two folders and a third *)
(* inside one of them.                                                     *)
EXTENDS DraftWizard, TLC

CONSTANTS slash, home, apps, api, docs

MCFolders == {slash, home, apps, api, docs}
MCParent == slash :> slash @@ home :> slash @@ apps :> home @@ docs :> home @@ api :> apps
MCSorted == [S \in SUBSET MCFolders |->
              SelectSeq(<<api, apps, docs, home, slash>>, LAMBDA f : f \in S)]
=============================================================================
