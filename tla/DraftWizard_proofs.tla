------------------------- MODULE DraftWizard_proofs -------------------------
(* Theorems on the /new wizard, for any users, agents and directory tree,  *)
(* and any number of cards, texts, restarts and directories that come and  *)
(* go.                                                                     *)
EXTENDS DraftWizard, SequenceTheorems, TLAPS

-----------------------------------------------------------------------------
(* The inductive invariant.                                                *)

(* A draft that is somewhere has a root, and is under it; so is the folder *)
(* it would launch in, and each start it offers is under its own root.     *)
Rooted(d) ==
  /\ (d.root = NoFolder) = (d.cur = NoFolder)
  /\ d.step = "browse" => d.cur # NoFolder
  /\ d.cur # NoFolder => Within(d.root, d.cur)
  /\ d.workRoot # NoFolder => Within(d.root, d.workRoot)
  /\ \A i \in DOMAIN d.starts : Within(d.starts[i].root, d.starts[i].path)

(* What a draft would launch was prompted, and what it opens was listed.   *)
AsShown(d, prompt, list) ==
  /\ d.step = "task" =>
       /\ d.provider = prompt.provider
       /\ d.workRoot \in {prompt.folder, NoFolder}
  /\ d.choices # <<>> => d.choices = list

(* A draft that is still there has launched nothing.                       *)
DraftIsSound(u) ==
  Drafting(u) =>
    /\ Rooted(drafts[u])
    /\ AsShown(drafts[u], prompted[u], listed[u])
    /\ started[u] = 0

IInv == TypeOK /\ (\A u \in Users : DraftIsSound(u)) /\ OneSessionPerDraft

-----------------------------------------------------------------------------
(* Paths.                                                                  *)

(* A folder is within itself.                                              *)
LEMMA WithinItself == ASSUME NEW f \in Folders PROVE Within(f, f)
BY DEF Within, Above

(* What a folder's directory is within, the folder is within too.          *)
LEMMA WithinDeeper ==
  ASSUME NEW r, NEW f \in Folders, Within(r, Parent[f])
  PROVE  Within(r, f)
<1>1. r \in Folders
  BY DEF Within, Above
<1>2. ASSUME NEW S \in SUBSET Folders, f \in S, \A h \in S : Parent[h] \in S
      PROVE  r \in S
  <2>1. Parent[f] \in S
    BY <1>2
  <2> QED
    BY <1>2, <2>1 DEF Within, Above
<1> QED
  BY <1>1, <1>2 DEF Within, Above

(* A folder's subfolders are within it.                                    *)
LEMMA InsideIsWithin ==
  ASSUME dirs \subseteq Folders, NEW f \in Folders, NEW g \in Inside(f)
  PROVE  g \in Folders /\ Within(f, g)
<1>1. g \in Folders /\ Parent[g] = f
  BY DEF Inside
<1> QED
  BY <1>1, WithinItself, WithinDeeper

(* Going up stays within the root.                                         *)
LEMMA ParentPathStays ==
  ASSUME NEW root \in Folders, NEW cur \in Folders, Within(root, cur)
  PROVE  ParentPath(root, cur) \in Folders /\ Within(root, ParentPath(root, cur))
BY FoldersAreATree, WithinItself DEF ParentPath

(* A listing cut to the first few is a listing of no more than that.       *)
LEMMA AtMostLists ==
  ASSUME NEW S \in SUBSET Folders, NEW n \in Nat
  PROVE  LET list == AtMost(n, Sorted[S]) IN
           /\ list \in Seq(Folders) /\ Len(list) <= n
           /\ \A i \in DOMAIN list : list[i] \in S
<1> DEFINE all == Sorted[S]
<1>1. all \in Seq(Folders) /\ \A i \in DOMAIN all : all[i] \in S
  BY SortedListsEach, ElementOfSeq, LenProperties
<1>2. Len(all) \in Nat /\ DOMAIN all = 1 .. Len(all)
  BY <1>1, LenProperties
<1>3. CASE Len(all) > n
  <2> DEFINE cut == SubSeq(all, 1, n)
  <2>1. \A i \in 1 .. n : all[i] \in Folders
    BY <1>1, <1>2, <1>3
  <2>2. cut \in Seq(Folders) /\ Len(cut) = (IF 1 <= n THEN n - 1 + 1 ELSE 0)
    BY <2>1, SubSeqProperties
  <2>3. \A i \in 1 .. n - 1 + 1 : cut[i] = all[1 + i - 1]
    BY <2>1, SubSeqProperties
  <2>4. Len(cut) = n /\ DOMAIN cut = 1 .. n
    BY <2>2, LenProperties
  <2>5. \A i \in DOMAIN cut : cut[i] \in S
    BY <1>1, <1>2, <1>3, <2>3, <2>4
  <2> QED
    BY <1>3, <2>2, <2>4, <2>5 DEF AtMost
<1>4. CASE ~(Len(all) > n)
  BY <1>1, <1>2, <1>4 DEF AtMost
<1> QED
  BY <1>3, <1>4

(* What a browse card lists.                                               *)
LEMMA ChildrenAreListed ==
  ASSUME dirs \subseteq Folders, NEW f
  PROVE  AtMost(BrowseLimit, Children(f)) \in Listing
BY AtMostLists, BrowseLimitIsNatural DEF Children, Inside, Listing

(* Each start is under its own root: the last work root and its siblings   *)
(* under the directory they are in, or Home under itself                   *)
(* (buildStartChoices).                                                    *)
LEMMA StartsAreRooted ==
  ASSUME TypeOK, NEW u \in Users
  PROVE  /\ StartChoices(u) \in Seq([path : Folders, root : Folders])
         /\ \A i \in DOMAIN StartChoices(u) :
              Within(StartChoices(u)[i].root, StartChoices(u)[i].path)
<1> DEFINE recent   == last[u]
           root     == IF Parent[recent] = Slash THEN recent ELSE Parent[recent]
           siblings == AtMost(3, Sorted[Inside(root) \ {recent}])
           paths    == <<recent>> \o siblings
<1>1. CASE recent = NoFolder \/ recent \notin dirs
  <2>1. StartChoices(u) = <<[path |-> Home, root |-> Home]>>
    BY <1>1 DEF StartChoices
  <2>2. Home \in Folders /\ Within(Home, Home)
    BY FoldersAreATree, WithinItself
  <2> QED
    BY <2>1, <2>2
<1>2. CASE ~(recent = NoFolder \/ recent \notin dirs)
  <2>1. recent \in Folders /\ dirs \subseteq Folders
    BY <1>2 DEF TypeOK
  <2>2. root \in Folders /\ Within(root, recent)
    <3>1. Parent[recent] \in Folders
      BY <2>1, FoldersAreATree
    <3> QED
      BY <2>1, <3>1, WithinItself, WithinDeeper
  <2>3. Inside(root) \ {recent} \in SUBSET Folders
    BY <2>1 DEF Inside
  <2>4. /\ siblings \in Seq(Folders)
        /\ \A i \in DOMAIN siblings : siblings[i] \in Inside(root)
    <3> HIDE DEF root
    <3> QED
      BY <2>3, AtMostLists
  <2>5. \A i \in DOMAIN siblings : Within(root, siblings[i])
    <3> HIDE DEF root, siblings
    <3> QED
      BY <2>1, <2>2, <2>4, InsideIsWithin
  <2>6. /\ paths \in Seq(Folders)
        /\ \A i \in DOMAIN paths : Within(root, paths[i])
    <3> HIDE DEF root, siblings
    <3>1. <<recent>> \in Seq(Folders) /\ Len(<<recent>>) = 1 /\ <<recent>>[1] = recent
      BY <2>1
    <3>2. /\ paths \in Seq(Folders) /\ Len(paths) = 1 + Len(siblings)
          /\ \A i \in 1 .. 1 + Len(siblings) :
               paths[i] = IF i <= 1 THEN <<recent>>[i] ELSE siblings[i - 1]
      BY <2>4, <3>1, ConcatProperties
    <3>3. Len(siblings) \in Nat /\ DOMAIN siblings = 1 .. Len(siblings)
      BY <2>4, LenProperties
    <3>4. DOMAIN paths = 1 .. 1 + Len(siblings)
      BY <3>2, LenProperties
    <3>5. ASSUME NEW i \in DOMAIN paths PROVE Within(root, paths[i])
      <4>1. CASE i = 1
        BY <2>2, <3>1, <3>2, <3>3, <3>4, <4>1
      <4>2. CASE i # 1
        <5>1. i - 1 \in DOMAIN siblings /\ paths[i] = siblings[i - 1]
          BY <3>2, <3>3, <3>4, <3>5, <4>2
        <5> QED
          BY <2>5, <5>1
      <4> QED
        BY <4>1, <4>2
    <3> QED
      BY <3>2, <3>5
  <2> DEFINE starts == [i \in DOMAIN paths |-> [path |-> paths[i], root |-> root]]
  <2>7. StartChoices(u) = starts
    BY <1>2 DEF StartChoices
  <2>8. starts \in Seq([path : Folders, root : Folders])
    <3> HIDE DEF root, paths
    <3>1. Len(paths) \in Nat /\ DOMAIN paths = 1 .. Len(paths)
      BY <2>6, LenProperties
    <3>2. \A i \in DOMAIN paths : paths[i] \in Folders
      BY <2>6, <3>1, ElementOfSeq
    <3> QED
      BY <2>2, <3>1, <3>2
  <2> HIDE DEF root, paths
  <2> QED
    BY <2>6, <2>7, <2>8
<1> QED
  BY <1>1, <1>2

-----------------------------------------------------------------------------
(* The invariant: initially, and after each handler.                       *)

(* Initially there are no drafts.                                          *)
LEMMA InitIInv == Init => IInv
<1> SUFFICES ASSUME Init PROVE IInv
  OBVIOUS
<1>1. NoPrompt \in Prompt /\ <<>> \in Listing
  BY BrowseLimitIsNatural DEF NoPrompt, Prompt, Listing
<1>2. TypeOK
  BY <1>1 DEF Init, TypeOK
<1>3. ASSUME NEW u \in Users PROVE DraftIsSound(u) /\ started[u] <= 1
  BY DEF Init, DraftIsSound, Drafting
<1> QED
  BY <1>2, <1>3 DEF IInv, OneSessionPerDraft

(* A step leaves this user this draft, and all it is judged by.            *)
Leaves(u, d, p, l, n) ==
  /\ Keep(u, d) /\ d \in Draft \cup {NoDraft}
  /\ prompted' = [prompted EXCEPT ![u] = p] /\ p \in Prompt
  /\ listed' = [listed EXCEPT ![u] = l] /\ l \in Listing
  /\ started' = [started EXCEPT ![u] = n] /\ n \in 0 .. 1
  /\ d # NoDraft => Rooted(d) /\ AsShown(d, p, l) /\ n = 0
  /\ dirs' \subseteq Folders /\ last' \in [Users -> Folders \cup {NoFolder}]

(* A handler that changes the draft of one user keeps the invariant if     *)
(* what it leaves that user is sound.                                      *)
LEMMA OthersAreLeftAlone ==
  ASSUME IInv, NEW u \in Users, NEW d, NEW p, NEW l, NEW n, Leaves(u, d, p, l, n)
  PROVE  IInv'
<1> USE DEF Leaves
<1>1. /\ drafts \in [Users -> Draft \cup {NoDraft}]
      /\ listed \in [Users -> Listing] /\ prompted \in [Users -> Prompt]
      /\ started \in [Users -> 0 .. 2]
  BY DEF IInv, TypeOK
<1>2. TypeOK'
  BY <1>1 DEF TypeOK, Keep
<1>3. ASSUME NEW v \in Users PROVE DraftIsSound(v)' /\ started'[v] <= 1
  <2>1. CASE v = u
    <3>1. /\ drafts'[v] = d /\ prompted'[v] = p /\ listed'[v] = l /\ started'[v] = n
      BY <1>1, <2>1 DEF Keep
    <3> QED
      BY <3>1 DEF DraftIsSound, Drafting, Rooted, AsShown, NoDraft
  <2>2. CASE v # u
    <3>1. /\ drafts'[v] = drafts[v] /\ prompted'[v] = prompted[v]
          /\ listed'[v] = listed[v] /\ started'[v] = started[v]
      BY <1>1, <2>2 DEF Keep
    <3>2. DraftIsSound(v) /\ started[v] <= 1
      BY DEF IInv, OneSessionPerDraft
    <3> QED
      BY <3>1, <3>2 DEF DraftIsSound, Drafting, Rooted, AsShown, NoDraft
  <2> QED
    BY <2>1, <2>2
<1> QED
  BY <1>2, <1>3 DEF IInv, OneSessionPerDraft

(* A browse card leaves a sound draft: what it lists is what it opens.     *)
LEMMA BrowsePromptKeeps ==
  ASSUME IInv, NEW u \in Users, Drafting(u), NEW d \in Draft, BrowsePrompt(u, d), Untouched,
         Rooted(d),
         d.step = "task" => /\ d.provider = prompted[u].provider
                            /\ d.workRoot \in {prompted[u].folder, NoFolder}
  PROVE  IInv'
<1> DEFINE entries == AtMost(BrowseLimit, Children(d.cur))
           d2 == [d EXCEPT !.choices = entries]
<1>1. TypeOK /\ started[u] = 0
  BY DEF IInv, DraftIsSound
<1>2. entries \in Listing
  BY <1>1, ChildrenAreListed DEF TypeOK
<1>3. Keep(u, d2) /\ listed' = [listed EXCEPT ![u] = entries]
  BY DEF BrowsePrompt
<1>4. /\ prompted' = [prompted EXCEPT ![u] = prompted[u]]
      /\ started' = [started EXCEPT ![u] = 0]
      /\ dirs' = dirs /\ last' = last
  BY <1>1 DEF BrowsePrompt, Untouched, TypeOK
<1> HIDE DEF entries
<1>5. d2 \in Draft
  BY <1>2 DEF Draft, NoDraft, Listing
<1>6. Rooted(d2) /\ AsShown(d2, prompted[u], entries)
  BY DEF Rooted, AsShown, Draft
<1>7. /\ prompted[u] \in Prompt
      /\ dirs' \subseteq Folders /\ last' \in [Users -> Folders \cup {NoFolder}]
  BY <1>1, <1>4 DEF TypeOK
<1> HIDE DEF d2
<1>8. Leaves(u, d2, prompted[u], entries, 0)
  BY <1>2, <1>3, <1>4, <1>5, <1>6, <1>7 DEF Leaves
<1> QED
  BY <1>8, OthersAreLeftAlone

(* A task prompt leaves a sound draft: it names what will be launched.     *)
LEMMA TaskPromptKeeps ==
  ASSUME IInv, NEW u \in Users, Drafting(u), NEW d \in Draft, TaskPrompt(u, d), Untouched,
         Rooted(d), d.choices \in {<<>>, drafts[u].choices}
  PROVE  IInv'
<1> DEFINE p == [provider |-> d.provider, folder |-> d.workRoot]
<1>1. TypeOK /\ started[u] = 0 /\ AsShown(drafts[u], prompted[u], listed[u])
  BY DEF IInv, DraftIsSound
<1>2. Keep(u, d) /\ prompted' = [prompted EXCEPT ![u] = p]
  BY DEF TaskPrompt
<1>3. /\ listed' = [listed EXCEPT ![u] = listed[u]]
      /\ started' = [started EXCEPT ![u] = 0]
      /\ dirs' = dirs /\ last' = last
  BY <1>1 DEF TaskPrompt, Untouched, TypeOK
<1>4. p \in Prompt
  BY DEF Draft, Prompt
<1>5. AsShown(d, p, listed[u])
  BY <1>1 DEF AsShown
<1>6. /\ listed[u] \in Listing
      /\ dirs' \subseteq Folders /\ last' \in [Users -> Folders \cup {NoFolder}]
  BY <1>1, <1>3 DEF TypeOK
<1> HIDE DEF p
<1>7. Leaves(u, d, p, listed[u], 0)
  BY <1>2, <1>3, <1>4, <1>5, <1>6 DEF Leaves
<1> QED
  BY <1>7, OthersAreLeftAlone

(* A handler that changes no draft, prompt, card or count keeps it.        *)
LEMMA RefusalKeeps ==
  ASSUME IInv, UNCHANGED <<drafts, prompted, listed, started>>,
         dirs' \subseteq Folders, last' \in [Users -> Folders \cup {NoFolder}]
  PROVE  IInv'
<1>1. TypeOK'
  BY DEF IInv, TypeOK
<1>2. ASSUME NEW v \in Users PROVE DraftIsSound(v)'
  BY DEF IInv, DraftIsSound, Drafting, Rooted, AsShown, Within, Above, NoDraft
<1> QED
  BY <1>1, <1>2 DEF IInv, OneSessionPerDraft

(* Every step.                                                             *)
LEMMA StepIInv == IInv /\ [Next]_vars => IInv'
<1> SUFFICES ASSUME IInv, [Next]_vars PROVE IInv'
  OBVIOUS
<1> USE DEF Untouched
<1>1. TypeOK /\ \A u \in Users : DraftIsSound(u)
  BY DEF IInv
<1>2. ASSUME NEW u \in Users, Drafting(u)
      PROVE  /\ drafts[u] \in Draft /\ Rooted(drafts[u])
             /\ AsShown(drafts[u], prompted[u], listed[u]) /\ started[u] = 0
  BY <1>1, <1>2 DEF TypeOK, DraftIsSound, Drafting
<1>3. dirs \subseteq Folders /\ last \in [Users -> Folders \cup {NoFolder}]
  BY <1>1 DEF TypeOK
<1> DEFINE WorkRoots == [Users -> Folders \cup {NoFolder}]
<1>4. ASSUME NEW u \in Users, StartDraft(u) PROVE IInv'
  <2>1. NewDraft \in Draft \cup {NoDraft} /\ Rooted(NewDraft) /\ AsShown(NewDraft, NoPrompt, <<>>)
    BY FoldersAreATree DEF NewDraft, Draft, Rooted, AsShown
  <2>2. NoPrompt \in Prompt /\ <<>> \in Listing
    BY BrowseLimitIsNatural DEF NoPrompt, Prompt, Listing
  <2>3. /\ Keep(u, NewDraft) /\ prompted' = [prompted EXCEPT ![u] = NoPrompt]
        /\ listed' = [listed EXCEPT ![u] = <<>>] /\ started' = [started EXCEPT ![u] = 0]
        /\ dirs' \subseteq Folders /\ last' \in WorkRoots
    BY <1>3, <1>4 DEF StartDraft, Reset
  <2>4. Leaves(u, NewDraft, NoPrompt, <<>>, 0)
    BY <2>1, <2>2, <2>3 DEF Leaves
  <2> QED
    BY <2>4, OthersAreLeftAlone
<1>5. ASSUME NEW u \in Users, Cancel(u) PROVE IInv'
  <2>1. NoPrompt \in Prompt /\ <<>> \in Listing
    BY BrowseLimitIsNatural DEF NoPrompt, Prompt, Listing
  <2>2. started[u] = 0 /\ started \in [Users -> 0 .. 2]
    BY <1>1, <1>2, <1>5 DEF Cancel, Pressed, TypeOK
  <2>3. /\ Keep(u, NoDraft) /\ prompted' = [prompted EXCEPT ![u] = NoPrompt]
        /\ listed' = [listed EXCEPT ![u] = <<>>] /\ started' = [started EXCEPT ![u] = 0]
        /\ dirs' \subseteq Folders /\ last' \in WorkRoots
    BY <1>3, <1>5, <2>2 DEF Cancel, Reset
  <2>4. Leaves(u, NoDraft, NoPrompt, <<>>, 0)
    BY <2>1, <2>3 DEF Leaves
  <2> QED
    BY <2>4, OthersAreLeftAlone
<1>6. ASSUME NEW u \in Users, NEW p \in Providers, ChooseProvider(u, p) PROVE IInv'
  <2> DEFINE starts == StartChoices(u)
             d == [drafts[u] EXCEPT !.provider = p, !.starts = starts, !.step = "start"]
  <2>1. /\ drafts[u] \in Draft /\ Rooted(drafts[u])
        /\ AsShown(drafts[u], prompted[u], listed[u]) /\ started[u] = 0
    BY <1>2, <1>6 DEF ChooseProvider, Pressed
  <2>2. /\ starts \in Seq([path : Folders, root : Folders])
        /\ \A i \in DOMAIN starts : Within(starts[i].root, starts[i].path)
    BY <1>1, StartsAreRooted
  <2>3. Keep(u, d)
    BY <1>6 DEF ChooseProvider
  <2> HIDE DEF starts
  <2>4. d \in Draft
    BY <2>1, <2>2 DEF Draft
  <2>5. Rooted(d) /\ AsShown(d, prompted[u], listed[u])
    BY <2>1, <2>2 DEF Rooted, AsShown, Draft
  <2>6. /\ prompted' = [prompted EXCEPT ![u] = prompted[u]] /\ prompted[u] \in Prompt
        /\ listed' = [listed EXCEPT ![u] = listed[u]] /\ listed[u] \in Listing
        /\ started' = [started EXCEPT ![u] = 0]
        /\ dirs' \subseteq Folders /\ last' \in WorkRoots
    BY <1>1, <1>3, <1>6, <2>1 DEF ChooseProvider, TypeOK
  <2> HIDE DEF d
  <2>7. Leaves(u, d, prompted[u], listed[u], 0)
    BY <2>3, <2>4, <2>5, <2>6 DEF Leaves
  <2> QED
    BY <2>7, OthersAreLeftAlone
\* A start leads to a card of its folder.
<1>from. ASSUME NEW u \in Users, Drafting(u), NEW root \in Folders, NEW cur \in Folders,
             Within(root, cur), BrowseFrom(u, root, cur), Untouched
      PROVE  IInv'
  <2> DEFINE d == [drafts[u] EXCEPT !.root = root, !.cur = cur, !.workRoot = NoFolder,
                                    !.step = "browse"]
  <2>1. drafts[u] \in Draft /\ Rooted(drafts[u])
    BY <1>2, <1>from
  <2>2. d \in Draft /\ Rooted(d) /\ d.step # "task"
    BY <1>from, <2>1, FoldersAreATree DEF Draft, Rooted
  <2>3. BrowsePrompt(u, d)
    BY <1>from DEF BrowseFrom
  <2> HIDE DEF d
  <2> QED
    BY <1>from, <2>2, <2>3, BrowsePromptKeeps
<1>7. ASSUME NEW u \in Users, StartMore(u) PROVE IInv'
  <2>1. Home \in Folders /\ Within(Home, Home)
    BY FoldersAreATree, WithinItself
  <2> QED
    BY <1>7, <1>from, <2>1 DEF StartMore, Pressed
<1>8. ASSUME NEW u \in Users, NEW i \in Indices, Start(u, i) PROVE IInv'
  <2> DEFINE starts == drafts[u].starts
  <2>1. Drafting(u) /\ Untouched
    BY <1>8 DEF Start, Pressed
  <2>2. CASE i \in DOMAIN starts
    <3>1. starts \in Seq([path : Folders, root : Folders]) /\ Within(starts[i].root, starts[i].path)
      BY <1>2, <2>1, <2>2 DEF Draft, Rooted
    <3>2. starts[i] \in [path : Folders, root : Folders]
      BY <2>2, <3>1, ElementOfSeq, LenProperties
    <3> QED
      BY <1>8, <1>from, <2>1, <2>2, <3>1, <3>2 DEF Start
  <2>3. CASE i \notin DOMAIN starts
    BY <1>3, <1>8, <2>3, RefusalKeeps DEF Start, Refuse
  <2> QED
    BY <2>2, <2>3
<1>9. ASSUME NEW u \in Users, ChooseHere(u) PROVE IInv'
  <2> DEFINE d == [drafts[u] EXCEPT !.workRoot = drafts[u].cur, !.choices = <<>>, !.step = "task"]
  <2>1. Drafting(u) /\ Untouched
    BY <1>9 DEF ChooseHere, Pressed
  <2>2. CASE drafts[u].cur \in dirs
    <3>1. drafts[u] \in Draft /\ Rooted(drafts[u]) /\ drafts[u].cur \in Folders
      BY <1>2, <1>3, <2>1, <2>2
    <3>none. <<>> \in Seq(Folders)
      OBVIOUS
    <3>2. d \in Draft /\ d.choices = <<>>
      BY <3>1, <3>none DEF Draft
    <3>3. Rooted(d)
      BY <3>1, FoldersAreATree DEF Draft, Rooted
    <3>4. TaskPrompt(u, d)
      BY <1>9, <2>2 DEF ChooseHere
    <3> HIDE DEF d
    <3> QED
      BY <2>1, <3>2, <3>3, <3>4, TaskPromptKeeps
  <2>3. CASE drafts[u].cur \notin dirs
    BY <1>3, <1>9, <2>3, RefusalKeeps DEF ChooseHere, Refuse
  <2> QED
    BY <2>2, <2>3
\* So does a move to another folder within the root.
<1>goes. ASSUME NEW u \in Users, Drafting(u), NEW cur \in Folders,
                NEW wr \in {drafts[u].workRoot, NoFolder}, Within(drafts[u].root, cur),
                BrowsePrompt(u, [drafts[u] EXCEPT !.cur = cur, !.workRoot = wr]), Untouched
      PROVE  IInv'
  <2> DEFINE d == [drafts[u] EXCEPT !.cur = cur, !.workRoot = wr]
  <2>1. /\ drafts[u] \in Draft /\ Rooted(drafts[u])
        /\ AsShown(drafts[u], prompted[u], listed[u])
    BY <1>2, <1>goes
  <2>2. drafts[u].root \in Folders
    BY <1>goes DEF Within, Above
  <2>3. d \in Draft
    BY <2>1 DEF Draft
  <2>4. Rooted(d)
    BY <1>goes, <2>1, <2>2, FoldersAreATree DEF Draft, Rooted
  <2>5. d.step = "task" => /\ d.provider = prompted[u].provider
                           /\ d.workRoot \in {prompted[u].folder, NoFolder}
    BY <2>1 DEF Draft, AsShown
  <2> HIDE DEF d
  <2> QED
    BY <1>goes, <2>3, <2>4, <2>5, BrowsePromptKeeps DEF d
\* Up is such a move.
<1>up. ASSUME NEW u \in Users, Drafting(u), drafts[u].root # NoFolder, drafts[u].cur # NoFolder
      PROVE  /\ ParentPath(drafts[u].root, drafts[u].cur) \in Folders
             /\ Within(drafts[u].root, ParentPath(drafts[u].root, drafts[u].cur))
  BY <1>2, <1>up, ParentPathStays DEF Draft, Rooted
\* A move that says nothing of the work root keeps it.
<1>same. ASSUME NEW d \in Draft, NEW cur
      PROVE  [d EXCEPT !.cur = cur] = [d EXCEPT !.cur = cur, !.workRoot = d.workRoot]
  BY DEF Draft
<1>10. ASSUME NEW u \in Users, GoUp(u) PROVE IInv'
  <2> DEFINE d == drafts[u]
             above == ParentPath(d.root, d.cur)
  <2>1. Drafting(u) /\ Untouched /\ d \in Draft
    BY <1>2, <1>10 DEF GoUp, Pressed
  <2>2. CASE d.root = NoFolder \/ d.cur = NoFolder
    BY <1>3, <1>10, <2>2, RefusalKeeps DEF GoUp, Refuse
  <2>3. CASE ~(d.root = NoFolder \/ d.cur = NoFolder)
    <3>1. above \in Folders /\ Within(d.root, above)
      BY <1>up, <2>1, <2>3
    <3>2. BrowsePrompt(u, [d EXCEPT !.cur = above])
      BY <1>10, <2>3 DEF GoUp
    <3> HIDE DEF above
    <3> QED
      BY <1>goes, <1>same, <2>1, <3>1, <3>2
  <2> QED
    BY <2>2, <2>3
<1>11. ASSUME NEW u \in Users, NEW i \in Indices, Open(u, i) PROVE IInv'
  <2> DEFINE d == drafts[u]
  <2>1. Drafting(u) /\ Untouched
    BY <1>11 DEF Open, Pressed
  <2>2. CASE i \in DOMAIN d.choices /\ d.choices[i] \in dirs /\ Within(d.root, d.choices[i])
    <3>1. d.choices[i] \in Folders
      BY <1>3, <2>2
    <3>2. BrowsePrompt(u, [d EXCEPT !.cur = d.choices[i], !.workRoot = NoFolder])
      BY <1>11, <2>2 DEF Open
    <3> QED
      BY <1>goes, <2>1, <2>2, <3>1, <3>2
  <2>3. CASE ~(i \in DOMAIN d.choices /\ d.choices[i] \in dirs /\ Within(d.root, d.choices[i]))
    BY <1>3, <1>11, <2>3, RefusalKeeps DEF Open, Refuse
  <2> QED
    BY <2>2, <2>3
<1>12. ASSUME NEW u \in Users, TypeHere(u) PROVE IInv'
  <2> DEFINE d == [drafts[u] EXCEPT !.workRoot = drafts[u].cur, !.step = "task"]
  <2>1. Drafting(u) /\ Untouched /\ TaskPrompt(u, d)
    BY <1>12 DEF TypeHere, Browsing
  <2>2. drafts[u] \in Draft /\ Rooted(drafts[u])
    BY <1>2, <2>1
  <2>3. d \in Draft /\ d.choices = drafts[u].choices
    BY <2>2 DEF Draft
  <2>4. Rooted(d)
    BY <2>2 DEF Draft, Rooted
  <2> HIDE DEF d
  <2> QED
    BY <2>1, <2>3, <2>4, TaskPromptKeeps
\* Names are read only while browsing.
<1>browsing. ASSUME NEW u \in Users, Browsing(u)
      PROVE  /\ Drafting(u) /\ drafts[u] \in Draft
             /\ drafts[u].root # NoFolder /\ drafts[u].cur # NoFolder
  BY <1>2, <1>browsing DEF Browsing, Rooted
<1>13. ASSUME NEW u \in Users, TypeUp(u) PROVE IInv'
  <2> DEFINE d == drafts[u]
             above == ParentPath(d.root, d.cur)
  <2>1. Browsing(u) /\ Untouched /\ BrowsePrompt(u, [d EXCEPT !.cur = above])
    BY <1>13 DEF TypeUp
  <2>2. above \in Folders /\ Within(d.root, above)
    BY <1>up, <1>browsing, <2>1
  <2> HIDE DEF above
  <2> QED
    BY <1>goes, <1>same, <1>browsing, <2>1, <2>2
<1>14. ASSUME NEW u \in Users, NEW f \in Folders, TypeName(u, f) PROVE IInv'
  <2> DEFINE d == drafts[u]
  <2>1. Browsing(u) /\ Untouched
    BY <1>14 DEF TypeName
  <2>2. CASE f \in dirs /\ Parent[f] = d.cur /\ Within(d.root, f)
    <3>1. BrowsePrompt(u, [d EXCEPT !.cur = f])
      BY <1>14, <2>2 DEF TypeName
    <3> QED
      BY <1>goes, <1>same, <1>browsing, <2>1, <2>2, <3>1
  <2>3. CASE ~(f \in dirs /\ Parent[f] = d.cur /\ Within(d.root, f))
    <3>1. BrowsePrompt(u, d)
      BY <1>14, <2>3 DEF TypeName
    <3>2. /\ Rooted(d)
          /\ d.step = "task" => /\ d.provider = prompted[u].provider
                                /\ d.workRoot \in {prompted[u].folder, NoFolder}
      BY <1>2, <1>browsing, <2>1 DEF AsShown
    <3> QED
      BY <1>browsing, <2>1, <3>1, <3>2, BrowsePromptKeeps
  <2> QED
    BY <2>2, <2>3
\* A launch records a folder or none.
<1>record. ASSUME NEW u \in Users, AtTask(u)
      PROVE  Drafting(u) /\ Recorded(u) \in WorkRoots
  <2>1. Drafting(u) /\ drafts[u] \in Draft
    BY <1>2, <1>record DEF AtTask
  <2> QED
    BY <1>3, <2>1 DEF Recorded, Draft
<1>15. ASSUME NEW u \in Users, Launch(u) PROVE IInv'
  <2>1. NoPrompt \in Prompt /\ <<>> \in Listing
    BY BrowseLimitIsNatural DEF NoPrompt, Prompt, Listing
  <2>2. Drafting(u) /\ Recorded(u) \in WorkRoots
    BY <1>record, <1>15 DEF Launch
  <2>3. started[u] = 0 /\ Counted(started[u]) = 1
    BY <1>2, <2>2 DEF Counted
  <2>4. started' = [started EXCEPT ![u] = 1]
    BY <1>15, <2>3 DEF Launch
  <2>5. /\ Keep(u, NoDraft) /\ prompted' = [prompted EXCEPT ![u] = NoPrompt]
        /\ listed' = [listed EXCEPT ![u] = <<>>]
        /\ dirs' \subseteq Folders /\ last' \in WorkRoots
    BY <1>3, <1>15, <2>2 DEF Launch, Reset
  <2>6. Leaves(u, NoDraft, NoPrompt, <<>>, 1)
    BY <2>1, <2>4, <2>5 DEF Leaves
  <2> QED
    BY <2>6, OthersAreLeftAlone
<1>16. ASSUME NEW u \in Users, LaunchFails(u) PROVE IInv'
  BY <1>3, <1>record, <1>16, RefusalKeeps DEF LaunchFails
<1>17. ASSUME NEW f \in Folders, RemoveFolder(f) PROVE IInv'
  BY <1>3, <1>17, RefusalKeeps DEF RemoveFolder
<1>18. ASSUME NEW f \in Folders, MakeFolder(f) PROVE IInv'
  BY <1>3, <1>18, RefusalKeeps DEF MakeFolder
<1>19. ASSUME NEW u \in Users, Cleanup(u) PROVE IInv'
  BY <1>3, <1>19, RefusalKeeps DEF Cleanup
<1>20. ASSUME Restart PROVE IInv'
  <2>1. NoPrompt \in Prompt /\ <<>> \in Listing
    BY BrowseLimitIsNatural DEF NoPrompt, Prompt, Listing
  <2>2. TypeOK'
    BY <1>1, <1>20, <2>1 DEF Restart, TypeOK
  <2>3. ASSUME NEW u \in Users PROVE DraftIsSound(u)'
    BY <1>20 DEF Restart, DraftIsSound, Drafting
  <2>4. OneSessionPerDraft'
    BY <1>20 DEF Restart, IInv, OneSessionPerDraft
  <2> QED
    BY <2>2, <2>3, <2>4 DEF IInv
<1>21. CASE UNCHANGED vars
  BY <1>3, <1>21, RefusalKeeps DEF vars
<1> QED
  BY <1>4, <1>5, <1>6, <1>7, <1>8, <1>9, <1>10, <1>11, <1>12, <1>13, <1>14, <1>15, <1>16,
     <1>17, <1>18, <1>19, <1>20, <1>21 DEF Next

(* So it holds of every reachable state.                                   *)
LEMMA Invariance == Spec => []IInv
BY InitIInv, StepIInv, PTL DEF Spec

-----------------------------------------------------------------------------
(* Drafts, prompts, listings and counts are of their types; in particular  *)
(* no card lists more folders than the limit (browseChildren).             *)
THEOREM TypeCorrect == Spec => []TypeOK
BY Invariance, PTL DEF IInv

(* Wherever buttons of any age, names and directories that come and go     *)
(* lead, a draft stays under a start that was offered                      *)
(* (handleGeneralDraftCallback, handleBrowseText).                         *)
THEOREM DraftsStayUnderStart == Spec => []StaysUnderStart
<1>1. IInv => StaysUnderStart
  BY DEF IInv, DraftIsSound, Rooted, StaysUnderStart
<1> QED
  BY <1>1, Invariance, PTL

(* A text that launches, launches what the last task prompt said, or in no *)
(* folder at all (handleGeneralDraftText, sendTaskPrompt).                 *)
THEOREM LaunchesWhatWasPrompted == Spec => []LaunchesAsPrompted
<1>1. IInv => LaunchesAsPrompted
  BY DEF IInv, DraftIsSound, AsShown, LaunchesAsPrompted, AtTask
<1> QED
  BY <1>1, Invariance, PTL

(* The buttons of the last browse card open the folders they name          *)
(* (sendBrowsePrompt).                                                     *)
THEOREM LastCardIsHonest == Spec => []LastCardOpensWhatItNames
<1>1. IInv => LastCardOpensWhatItNames
  BY DEF IInv, DraftIsSound, AsShown, LastCardOpensWhatItNames
<1> QED
  BY <1>1, Invariance, PTL

(* A draft starts at most one session, however often its launch fails      *)
(* (handleGeneralDraftText).                                               *)
THEOREM StartsOneSession == Spec => []OneSessionPerDraft
BY Invariance, PTL DEF IInv
=============================================================================
