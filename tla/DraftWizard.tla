----------------------------- MODULE DraftWizard -----------------------------
(***************************************************************************)
(* The /new wizard in the General topic (internal/app/runtime_setup.go):   *)
(* a draft session per user, filled in by buttons and texts, until a task  *)
(* launches it.                                                            *)
(*                                                                         *)
(* Every card the wizard posts stays in the topic with its buttons, and a  *)
(* button carries only a word or an index: whoever presses it, however     *)
(* late, acts on the draft that user has now.  The main loop handles one   *)
(* update at a time, so each action is a whole handler.  An error of       *)
(* Telegram in one ends the daemon (Restart), which forgets all drafts; an *)
(* update delivered again after that is an update like any other here.     *)
(***************************************************************************)
EXTENDS Naturals, Sequences, FiniteSets

CONSTANTS
  Users,        \* those CanSendCommand lets in
  Providers,    \* agents with a runner
  NoProvider,
  Folders,      \* the directory tree, without hidden directories
  Parent,       \* the directory each one is in
  Sorted,       \* each set of them, as listings sort it
  Slash, Home,  \* the file system's root, and the home directory
  NoFolder,
  Fleeting,     \* bound: the directories that come and go
  BrowseLimit   \* browseButtonLimit, 6 in the code

ASSUME FoldersAreATree ==
  /\ {Slash, Home} \subseteq Folders /\ NoFolder \notin Folders
  /\ Parent \in [Folders -> Folders] /\ Parent[Slash] = Slash
ASSUME SortedListsEach ==
  \A S \in SUBSET Folders :
    /\ Sorted[S] \in Seq(Folders) /\ Len(Sorted[S]) = Cardinality(S)
    /\ \A f \in Folders : f \in S <=> \E i \in DOMAIN Sorted[S] : Sorted[S][i] = f
ASSUME FleetingAreFolders == Fleeting \subseteq Folders \ {Slash, Home}
ASSUME NoProviderIsNone == NoProvider \notin Providers
ASSUME BrowseLimitIsNatural == BrowseLimit \in Nat

VARIABLES
  dirs,     \* the directories that exist now
  drafts,   \* draftsByUser
  buttons,  \* the buttons on all cards ever posted
  last,     \* the work root of each user's last session on disk that has one
  prompted, \* history: agent and folder in the last task prompt for each draft
  listed,   \* history: the folders on the last browse card for each draft
  started   \* history: sessions each user started since the last /new, counted to 2

vars == <<dirs, drafts, buttons, last, prompted, listed, started>>

(* cur is CurrentPath, choices BrowseChoices and starts StartChoices.      *)
Draft == [step : {"provider", "start", "browse", "task"},
          provider : Providers \cup {NoProvider},
          root : Folders \cup {NoFolder}, cur : Folders \cup {NoFolder},
          workRoot : Folders \cup {NoFolder},
          choices : Seq(Folders), starts : Seq([path : Folders, root : Folders])]

NewDraft == [step |-> "provider", provider |-> NoProvider, root |-> NoFolder, cur |-> NoFolder,
             workRoot |-> NoFolder, choices |-> <<>>, starts |-> <<>>]
NoDraft == [step |-> "none"]

Drafting(u) == drafts[u] # NoDraft

-----------------------------------------------------------------------------
(* Paths.                                                                  *)

(* The least set of folders that has f and all they are in.                *)
Above(f) ==
  {g \in Folders : \A S \in SUBSET Folders :
                     f \in S /\ (\A h \in S : Parent[h] \in S) => g \in S}

(* pathWithinRoot.                                                         *)
Within(root, f) == root \in Above(f)

(* Mutant: Go Up does not stop at the root.                                *)
ParentPastRoot(root, cur) == Parent[cur]

(* browseParentPath.                                                       *)
ParentPath(root, cur) ==
  IF cur = root THEN cur
  ELSE IF Within(root, Parent[cur]) THEN Parent[cur] ELSE root

Inside(f) == {g \in dirs \ {f} : Parent[g] = f}
Children(f) == Sorted[Inside(f)]

(* Mutant: one entry too many.                                             *)
AtMostPlusOne(n, list) == IF Len(list) > n THEN SubSeq(list, 1, n + 1) ELSE list

AtMost(n, list) == IF Len(list) > n THEN SubSeq(list, 1, n) ELSE list

(* buildStartChoices: the last work root and its siblings, or Home.        *)
StartChoices(u) ==
  LET recent   == last[u]
      root     == IF Parent[recent] = Slash THEN recent ELSE Parent[recent]
      siblings == Sorted[Inside(root) \ {recent}]
      paths    == <<recent>> \o AtMost(3, siblings)
  IN  IF recent = NoFolder \/ recent \notin dirs
        THEN <<[path |-> Home, root |-> Home]>>
        ELSE [i \in DOMAIN paths |-> [path |-> paths[i], root |-> root]]

-----------------------------------------------------------------------------
(* Prompts.                                                                *)

NoPrompt == [provider |-> NoProvider, folder |-> NoFolder]

Init ==
  /\ dirs = Folders
  /\ drafts = [u \in Users |-> NoDraft]
  /\ buttons = {}
  /\ last = [u \in Users |-> NoFolder]
  /\ prompted = [u \in Users |-> NoPrompt]
  /\ listed = [u \in Users |-> <<>>]
  /\ started = [u \in Users |-> 0]

Keep(u, d) == drafts' = [drafts EXCEPT ![u] = d]

(* The draft is gone, or replaced by a new one.                            *)
Reset(u, d) ==
  /\ Keep(u, d)
  /\ prompted' = [prompted EXCEPT ![u] = NoPrompt]
  /\ listed' = [listed EXCEPT ![u] = <<>>]

Post(new) == buttons' = buttons \cup new \cup {<<"cancel">>}

(* The wizard answers with a message and leaves the draft alone.           *)
Refuse == UNCHANGED <<drafts, buttons, prompted, listed>>

(* Mutant: a listing the draft already has is not replaced.                *)
PromptKeepsChoices(u, d) ==
  LET entries == AtMost(BrowseLimit, Children(d.cur)) IN
  /\ Keep(u, [d EXCEPT !.choices = IF @ = <<>> THEN entries ELSE @])
  /\ listed' = [listed EXCEPT ![u] = entries]
  /\ Post({<<"open", i>> : i \in DOMAIN entries} \cup {<<"choose">>, <<"up">>})
  /\ UNCHANGED prompted

(* sendBrowsePrompt: the card's buttons open the folders listed by index.  *)
BrowsePrompt(u, d) ==
  LET entries == AtMost(BrowseLimit, Children(d.cur)) IN
  /\ Keep(u, [d EXCEPT !.choices = entries])
  /\ listed' = [listed EXCEPT ![u] = entries]
  /\ Post({<<"open", i>> : i \in DOMAIN entries} \cup {<<"choose">>}
          \cup (IF d.cur # d.root THEN {<<"up">>} ELSE {}))
  /\ UNCHANGED prompted

(* sendTaskPrompt: "Agent: ... Folder: ... Send the task now".             *)
TaskPrompt(u, d) ==
  /\ Keep(u, d)
  /\ prompted' = [prompted EXCEPT ![u] = [provider |-> d.provider, folder |-> d.workRoot]]
  /\ UNCHANGED <<buttons, listed>>

-----------------------------------------------------------------------------
(* /new and the buttons (handleGeneralDraftCallback).                      *)

StartDraft(u) ==
  /\ Reset(u, NewDraft)
  /\ Post({<<"provider", p>> : p \in Providers})
  /\ started' = [started EXCEPT ![u] = 0]
  /\ UNCHANGED <<dirs, last>>

Pressed(u, b) == b \in buttons /\ Drafting(u)
Untouched == UNCHANGED <<dirs, last, started>>

Cancel(u) ==
  /\ Pressed(u, <<"cancel">>)
  /\ Reset(u, NoDraft)
  /\ UNCHANGED buttons
  /\ Untouched

(* Mutant: choosing another agent leaves the wizard where it is.           *)
ChooseProviderInPlace(u, p) ==
  /\ Pressed(u, <<"provider", p>>)
  /\ Keep(u, [drafts[u] EXCEPT !.provider = p, !.starts = StartChoices(u)])
  /\ Post({<<"start", i>> : i \in DOMAIN StartChoices(u)})
  /\ UNCHANGED <<prompted, listed>>
  /\ Untouched

ChooseProvider(u, p) ==
  /\ Pressed(u, <<"provider", p>>)
  /\ LET starts == StartChoices(u) IN
       /\ Keep(u, [drafts[u] EXCEPT !.provider = p, !.starts = starts, !.step = "start"])
       /\ Post({<<"start", i>> : i \in DOMAIN starts}
               \cup (IF last[u] \in dirs THEN {<<"more">>} ELSE {}))
  /\ UNCHANGED <<prompted, listed>>
  /\ Untouched

BrowseFrom(u, root, cur) ==
  BrowsePrompt(u, [drafts[u] EXCEPT !.root = root, !.cur = cur, !.workRoot = NoFolder,
                                    !.step = "browse"])

StartMore(u) ==
  /\ Pressed(u, <<"more">>)
  /\ BrowseFrom(u, Home, Home)
  /\ Untouched

Start(u, i) ==
  /\ Pressed(u, <<"start", i>>)
  /\ LET starts == drafts[u].starts IN
       IF i \in DOMAIN starts THEN BrowseFrom(u, starts[i].root, starts[i].path) ELSE Refuse
  /\ Untouched

ChooseHere(u) ==
  /\ Pressed(u, <<"choose">>)
  /\ IF drafts[u].cur \in dirs
       THEN TaskPrompt(u, [drafts[u] EXCEPT !.workRoot = drafts[u].cur, !.choices = <<>>,
                                            !.step = "task"])
       ELSE Refuse
  /\ Untouched

GoUp(u) ==
  /\ Pressed(u, <<"up">>)
  /\ LET d == drafts[u] IN
       IF d.root = NoFolder \/ d.cur = NoFolder THEN Refuse
       ELSE BrowsePrompt(u, [d EXCEPT !.cur = ParentPath(d.root, d.cur)])
  /\ Untouched

Open(u, i) ==
  /\ Pressed(u, <<"open", i>>)
  /\ LET d == drafts[u] IN
       IF i \in DOMAIN d.choices /\ d.choices[i] \in dirs /\ Within(d.root, d.choices[i])
         THEN BrowsePrompt(u, [d EXCEPT !.cur = d.choices[i], !.workRoot = NoFolder])
         ELSE Refuse
  /\ Untouched

-----------------------------------------------------------------------------
(* Texts (handleGeneralDraftText and handleBrowseText).                    *)

Browsing(u) == Drafting(u) /\ drafts[u].step = "browse"

(* ".": unlike the button, without asking whether the folder still exists. *)
TypeHere(u) ==
  /\ Browsing(u)
  /\ TaskPrompt(u, [drafts[u] EXCEPT !.workRoot = drafts[u].cur, !.step = "task"])
  /\ Untouched

(* "..".                                                                   *)
TypeUp(u) ==
  /\ Browsing(u)
  /\ BrowsePrompt(u, [drafts[u] EXCEPT !.cur = ParentPath(drafts[u].root, @)])
  /\ Untouched

(* The name of a folder, of one that is not here, or no name at all.       *)
TypeName(u, f) ==
  /\ Browsing(u)
  /\ LET d == drafts[u] IN
       IF f \in dirs /\ Parent[f] = d.cur /\ Within(d.root, f)
         THEN BrowsePrompt(u, [d EXCEPT !.cur = f])
         ELSE BrowsePrompt(u, d)
  /\ Untouched

AtTask(u) == Drafting(u) /\ drafts[u].step = "task"
Counted(n) == IF n < 2 THEN n + 1 ELSE n

(* The session's record is on disk, so its folder is the recent one.       *)
Recorded(u) ==
  IF drafts[u].workRoot = NoFolder THEN last ELSE [last EXCEPT ![u] = drafts[u].workRoot]

(* Mutant: the draft stays after its launch.                               *)
LaunchKeepsDraft(u) ==
  /\ AtTask(u)
  /\ started' = [started EXCEPT ![u] = Counted(@)]
  /\ last' = Recorded(u)
  /\ UNCHANGED <<dirs, drafts, buttons, prompted, listed>>

(* Any text at the task step is the task, and launches the session.        *)
Launch(u) ==
  /\ AtTask(u)
  /\ Reset(u, NoDraft)
  /\ started' = [started EXCEPT ![u] = Counted(@)]
  /\ last' = Recorded(u)
  /\ UNCHANGED <<dirs, buttons>>

(* "launch failed": before or after the session was saved.  The draft is   *)
(* kept, and the next text tries again.                                    *)
LaunchFails(u) ==
  /\ AtTask(u)
  /\ last' \in {last, Recorded(u)}
  /\ UNCHANGED <<dirs, drafts, buttons, prompted, listed, started>>

(* /cleanup deletes the user's last session: an older one, started in any  *)
(* folder, is the last one now, or none is.                                *)
Cleanup(u) ==
  /\ last[u] # NoFolder
  /\ \E f \in Folders \cup {NoFolder} : last' = [last EXCEPT ![u] = f]
  /\ UNCHANGED <<dirs, drafts, buttons, prompted, listed, started>>

-----------------------------------------------------------------------------
Restart ==
  /\ drafts' = [u \in Users |-> NoDraft]
  /\ prompted' = [u \in Users |-> NoPrompt]
  /\ listed' = [u \in Users |-> <<>>]
  /\ UNCHANGED <<dirs, buttons, last, started>>

(* Directories without children come and go.                               *)
RemoveFolder(f) ==
  /\ f \in Fleeting \cap dirs
  /\ \A g \in dirs \ {f} : Parent[g] # f
  /\ dirs' = dirs \ {f}
  /\ UNCHANGED <<drafts, buttons, last, prompted, listed, started>>

MakeFolder(f) ==
  /\ f \in Fleeting \ dirs /\ Parent[f] \in dirs
  /\ dirs' = dirs \cup {f}
  /\ UNCHANGED <<drafts, buttons, last, prompted, listed, started>>

Indices == 1 .. Cardinality(Folders)

Next ==
  \/ \E u \in Users : StartDraft(u)
  \/ \E u \in Users : Cancel(u)
  \/ \E u \in Users, p \in Providers : ChooseProvider(u, p)
  \/ \E u \in Users : StartMore(u)
  \/ \E u \in Users, i \in Indices : Start(u, i)
  \/ \E u \in Users : ChooseHere(u)
  \/ \E u \in Users : GoUp(u)
  \/ \E u \in Users, i \in Indices : Open(u, i)
  \/ \E u \in Users : TypeHere(u)
  \/ \E u \in Users : TypeUp(u)
  \/ \E u \in Users, f \in Folders : TypeName(u, f)
  \/ \E u \in Users : Launch(u)
  \/ \E u \in Users : LaunchFails(u)
  \/ \E f \in Folders : RemoveFolder(f)
  \/ \E f \in Folders : MakeFolder(f)
  \/ \E u \in Users : Cleanup(u)
  \/ Restart

Spec == Init /\ [][Next]_vars

-----------------------------------------------------------------------------
Prompt == [provider : Providers \cup {NoProvider}, folder : Folders \cup {NoFolder}]
Listing == {list \in Seq(Folders) : Len(list) <= BrowseLimit}

TypeOK ==
  /\ dirs \subseteq Folders
  /\ drafts \in [Users -> Draft \cup {NoDraft}]
  /\ last \in [Users -> Folders \cup {NoFolder}]
  /\ prompted \in [Users -> Prompt]
  /\ listed \in [Users -> Listing]
  /\ started \in [Users -> 0 .. 2]

(* Wherever stale and fresh buttons, names and directories that come and   *)
(* go lead, the folder a draft is in, and the one it would launch in, lie  *)
(* under a starting place the wizard offered this user.                    *)
StaysUnderStart ==
  \A u \in Users :
    Drafting(u) =>
      LET d == drafts[u] IN
        /\ d.cur # NoFolder => Within(d.root, d.cur)
        /\ d.workRoot # NoFolder => Within(d.root, d.workRoot)

(* When a text would launch, it launches the agent the last task prompt    *)
(* named, in the folder it named or in none: no button pressed since then  *)
(* has changed them unseen.                                                *)
LaunchesAsPrompted ==
  \A u \in Users :
    AtTask(u) =>
      /\ drafts[u].provider = prompted[u].provider
      /\ drafts[u].workRoot \in {prompted[u].folder, NoFolder}

(* The indices a draft accepts are those of the last card it posted: only  *)
(* the buttons of older cards can open a folder other than the one they    *)
(* name.                                                                   *)
LastCardOpensWhatItNames ==
  \A u \in Users :
    Drafting(u) /\ drafts[u].choices # <<>> => drafts[u].choices = listed[u]

(* A draft starts at most one session, failed attempts and restarts        *)
(* included.                                                               *)
OneSessionPerDraft == \A u \in Users : started[u] <= 1

(* "Once provider, folder, and task are set, the next task message creates *)
(* the session topic" (docs/decisions.md): a draft that takes a task has a *)
(* provider and a folder.                                                  *)
TaskStepIsComplete ==
  \A u \in Users :
    AtTask(u) => drafts[u].provider # NoProvider /\ drafts[u].workRoot # NoFolder
=============================================================================
