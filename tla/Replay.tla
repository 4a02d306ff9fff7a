------------------------------- MODULE Replay -------------------------------
(***************************************************************************)
(* Replaying the playbooks of a container's images.  nsboxd resolves the   *)
(* chain of images when the container starts (Image.ResolveChain); every   *)
(* session that enters compares the files of each image with the digest    *)
(* saved when its playbook was last run, and runs the playbooks from the   *)
(* first image that changed (nsbox-enter-setup.sh).  The sessions of a     *)
(* container share the directory of digests, and take no lock.             *)
(*                                                                         *)
(* The files of an image have a revision, a number which grows with every  *)
(* update; a line of a digest is a file as it is in one or more revisions. *)
(***************************************************************************)
EXTENDS Integers, Sequences, SequencesExt, FiniteSets

CONSTANTS
    Images,      \* names of images
    Main,        \* Config.Image
    NoImage,     \* the parent of an image that has none
    Line,        \* lines of digests: a file's path and its checksum
    Layouts,     \* where the images are, and the lines of each revision
    Sessions,    \* processes that enter the container
    MaxUpdates,  \* bound: updates of image files
    MaxFaults    \* bound: sessions killed, playbooks failed, restarts

ASSUME ReplayAssumption ==
    /\ Main \in Images
    /\ NoImage \notin Images
    /\ Layouts \subseteq [parent : [Images -> Images \cup {NoImage}],
                          custom : [Images -> {"none", "bad", "good"}],
                          system : [Images -> {"none", "bad", "good"}],
                          lines : [Images -> [0..MaxUpdates ->
                                                  (SUBSET Line) \ {{}}]]]
    /\ MaxUpdates \in Nat
    /\ MaxFaults \in Nat

VARIABLES
    layout,    \* the image directories
    content,   \* the revision of each image's files
    phase,     \* the container: down, resolving its chain, or up
    next,      \* the image that ResolveChain opens next
    chain,     \* NSBOX_IMAGE_CHAIN, and what ResolveChain has of it
    saved,     \* IMAGE.sha256
    tmp,       \* IMAGE.sha256.tmp
    session,   \* what each session is doing
    ran,       \* the newest revision that each playbook has run with
    stale,     \* images to be played since they, or a base, were
    mixed,     \* digests saved by a session other than the one that played
    faults

images == <<layout, content>>
boot == <<phase, next, chain>>
ghosts == <<ran, stale, mixed>>
vars == <<images, boot, saved, tmp, session, ghosts, faults>>

None == -1
Lines(i, n) == layout.lines[i][n]

\* A digest lists files as they were in a revision, all of them or not.
Digests == [of : {None} \cup 0..MaxUpdates, lines : SUBSET Line]
NoDigest == [of |-> None, lines |-> {}]

\* todo: images to check, then images to play; with: the revision that the
\* playbook was started with.  For the properties: by, the files by which the
\* session was let past an image; over, whether the digest of the image that
\* is playing was taken again by another session; changed, whether an image
\* was updated since the session began.
Session == [pc : {"out", "check", "digest", "play", "playing", "move", "in"},
            todo : Seq(Images), replay : BOOLEAN, with : 0..MaxUpdates,
            by : [Images -> SUBSET Line], over : BOOLEAN, changed : BOOLEAN]
Out == [pc |-> "out", todo |-> <<>>, replay |-> FALSE, with |-> 0,
        by |-> [i \in Images |-> {}], over |-> FALSE, changed |-> FALSE]
InChain == ToSet(chain)

TypeOK ==
    /\ layout \in Layouts
    /\ content \in [Images -> 0..MaxUpdates]
    /\ phase \in {"down", "resolve", "up"}
    /\ next \in Images \cup {NoImage}
    /\ chain \in Seq(Images)
    /\ saved \in [Images -> Digests]
    /\ tmp \in [Images -> Digests]
    /\ session \in [Sessions -> Session]
    /\ ran \in [Images -> {None} \cup 0..MaxUpdates]
    /\ stale \in SUBSET Images
    /\ mixed \in SUBSET Images
    /\ faults \in 0..MaxFaults

Init ==
    /\ layout \in Layouts
    /\ content = [i \in Images |-> 0]
    /\ phase = "down"
    /\ next = NoImage
    /\ chain = <<>>
    /\ saved = [i \in Images |-> NoDigest]
    /\ tmp = [i \in Images |-> NoDigest]
    /\ session = [s \in Sessions |-> Out]
    /\ ran = [i \in Images |-> None]
    /\ stale = Images
    /\ mixed = {}
    /\ faults = 0

-----------------------------------------------------------------------------
(***************************************************************************)
(* The chain, in nsboxd                                                    *)
(***************************************************************************)
\* image.Open: a custom directory hides the one of the system, even a bad one.
Opens(i) == IF layout.custom[i] = "none" THEN layout.system[i] = "good"
                                         ELSE layout.custom[i] = "good"

Start ==
    /\ phase = "down"
    /\ phase' = "resolve"
    /\ next' = Main
    /\ chain' = <<>>
    /\ UNCHANGED <<images, saved, tmp, session, ghosts, faults>>

\* Mutant of Linked: the parent goes after the image.
LinkedLast(i) == Append(chain, i)

\* append(parent chain, img)
Linked(i) == <<i>> \o chain

\* One call of ResolveChain.  Nothing stops parents that lead back to an
\* image: the recursion then ends nsboxd.
ResolveParent ==
    /\ phase = "resolve"
    /\ Len(chain) <= Cardinality(Images)
    /\ IF ~Opens(next)
       THEN phase' = "down" /\ UNCHANGED <<next, chain>>
       ELSE /\ chain' = Linked(next)
            /\ next' = layout.parent[next]
            /\ phase' = IF next' = NoImage THEN "up" ELSE "resolve"
    /\ UNCHANGED <<images, saved, tmp, session, ghosts, faults>>

ChainLoops ==
    /\ phase = "resolve"
    /\ Len(chain) > Cardinality(Images)
    /\ phase' = "down"
    /\ UNCHANGED <<images, next, chain, saved, tmp, session, ghosts, faults>>

\* The container stops, and all sessions with it.
Stop ==
    /\ phase = "up"
    /\ faults < MaxFaults
    /\ faults' = faults + 1
    /\ phase' = "down"
    /\ session' = [s \in Sessions |-> Out]
    /\ UNCHANGED <<images, next, chain, saved, tmp, ghosts>>

-----------------------------------------------------------------------------
(***************************************************************************)
(* nsbox-enter-setup.sh                                                    *)
(***************************************************************************)
In(s, pc) == session[s].pc = pc
Top(s) == Head(session[s].todo)
Goto(s, pc) == session' = [session EXCEPT ![s].pc = pc]
Past(s, lines) == [session[s] EXCEPT !.todo = Tail(@), !.by[Top(s)] = lines]

Begin(s) ==
    /\ phase = "up"
    /\ In(s, "out")
    /\ \/ session' = [session EXCEPT ![s] =
                         [Out EXCEPT !.pc = "check", !.todo = chain,
                                     !.replay = TRUE]]
       \/ session' = [session EXCEPT ![s].pc = "in"]    \* -no-replay
    /\ UNCHANGED <<images, boot, saved, tmp, ghosts, faults>>

\* Mutant of Unchanged: that there is a digest will do.
UnchangedExists(i) == saved[i] # NoDigest

\* Mutant of Unchanged: the files are not where sha256sum -c looks.
UnchangedNever(i) == FALSE

\* There is a digest, and sha256sum -c agrees with it: it lists some files,
\* and each is there as it is listed.  Other files do not matter.
Unchanged(i) == /\ saved[i] # NoDigest
                /\ saved[i].lines # {}
                /\ saved[i].lines \subseteq Lines(i, content[i])

\* get_images_to_update: the first image that changed and all after it.
CheckImage(s) ==
    /\ In(s, "check")
    /\ session[s].todo # <<>>
    /\ IF Unchanged(Top(s))
       THEN session' = [session EXCEPT ![s] = Past(s, saved[Top(s)].lines)]
       ELSE Goto(s, "digest")
    /\ UNCHANGED <<images, boot, saved, tmp, ghosts, faults>>

\* The temporary digest of an image is made anew, by s, which goes on to new.
WriteDigest(s, lines, new) ==
    /\ tmp' = [tmp EXCEPT ![Top(s)] =
                  [of |-> content[Top(s)], lines |-> lines]]
    /\ session' = [r \in Sessions |->
          IF r = s THEN new
          ELSE IF session[r].pc \in {"playing", "move"} /\ Top(r) = Top(s)
          THEN [session[r] EXCEPT !.over = TRUE]
          ELSE session[r]]

\* The new digest of that image; those of its dependents are not made.  In
\* the substitution set -e does not hold: when find, a checksum or a write
\* fails, the session goes on with the lines there are, and when the file
\* cannot be opened, with the one that is there.
TakeDigest(s) ==
    /\ In(s, "digest")
    /\ LET play == [session[s] EXCEPT !.pc = "play"]
           all == Lines(Top(s), content[Top(s)])
       IN  \/ WriteDigest(s, all, play) /\ UNCHANGED faults
           \/ /\ faults < MaxFaults
              /\ faults' = faults + 1
              /\ \/ \E lines \in (SUBSET all) \ {all} : WriteDigest(s, lines, play)
                 \/ Goto(s, "play") /\ UNCHANGED tmp
    /\ UNCHANGED <<images, boot, saved, ghosts>>

Play(s) ==
    /\ In(s, "play")
    /\ session[s].todo # <<>>
    /\ session' = [session EXCEPT ![s].pc = "playing", ![s].over = FALSE,
                                  ![s].with = content[Top(s)]]
    /\ UNCHANGED <<images, boot, saved, tmp, ghosts, faults>>

\* The playbook has run to its end; what is built on the image is to follow.
PlayEnds(s) ==
    /\ In(s, "playing")
    /\ LET i == Top(s)
           after == {chain[n] : n \in {m \in 1..Len(chain) :
                                          \E k \in 1..(m - 1) : chain[k] = i}}
       IN  /\ ran' = [ran EXCEPT ![i] = IF @ < session[s].with
                                        THEN session[s].with ELSE @]
           /\ stale' = (IF session[s].with = content[i]
                        THEN stale \ {i} ELSE stale) \cup after
    /\ Goto(s, "move")
    /\ UNCHANGED <<images, boot, saved, tmp, mixed, faults>>

\* mv: set -e ends a session that finds no digest to rename.
MoveDigest(s) ==
    /\ In(s, "move")
    /\ LET i == Top(s)
       IN  IF tmp[i] = NoDigest
           THEN /\ session' = [session EXCEPT ![s] = Out]
                /\ UNCHANGED <<saved, tmp, mixed>>
           ELSE /\ saved' = [saved EXCEPT ![i] = tmp[i]]
                /\ tmp' = [tmp EXCEPT ![i] = NoDigest]
                /\ mixed' = IF session[s].over THEN mixed \cup {i}
                                               ELSE mixed \ {i}
                /\ session' = [session EXCEPT ![s] =
                      [Past(s, Lines(i, session[s].with)) EXCEPT !.pc = "play"]]
    /\ UNCHANGED <<images, boot, ran, stale, faults>>

\* exec runuser: the session has got in.
Enter(s) ==
    /\ session[s].pc \in {"check", "play"}
    /\ session[s].todo = <<>>
    /\ Goto(s, "in")
    /\ UNCHANGED <<images, boot, saved, tmp, ghosts, faults>>

Leave(s) ==
    /\ In(s, "in")
    /\ session' = [session EXCEPT ![s] = Out]
    /\ UNCHANGED <<images, boot, saved, tmp, ghosts, faults>>

\* The session is killed, or its playbook fails; the digest it was making
\* may have been cut off.
SessionFails(s) ==
    /\ session[s].pc \notin {"out", "in"}
    /\ faults < MaxFaults
    /\ faults' = faults + 1
    /\ \/ session' = [session EXCEPT ![s] = Out] /\ UNCHANGED tmp
       \/ /\ In(s, "digest")
          /\ \E lines \in SUBSET Lines(Top(s), content[Top(s)]) :
                 WriteDigest(s, lines, Out)
    /\ UNCHANGED <<images, boot, saved, ghosts>>

\* Mutant of Setup: the digest is saved before the playbook has run.
SetupMovesFirst(s) ==
    \/ CheckImage(s) \/ TakeDigest(s) \/ Play(s) \/ PlayEnds(s) \/ Enter(s)
    \/ MoveDigest(s)
    \/ /\ In(s, "playing")
       /\ tmp[Top(s)] # NoDigest
       /\ saved' = [saved EXCEPT ![Top(s)] = tmp[Top(s)]]
       /\ UNCHANGED <<images, boot, tmp, session, ghosts, faults>>

Setup(s) == CheckImage(s) \/ TakeDigest(s) \/ Play(s) \/ PlayEnds(s)
            \/ MoveDigest(s) \/ Enter(s)

\* The files of an image are updated on the host.
UpdateImage(i) ==
    /\ \A j \in Images : content[j] < MaxUpdates
    /\ content' = [content EXCEPT ![i] = @ + 1]
    /\ stale' = stale \cup {i}
    /\ session' = [s \in Sessions |-> [session[s] EXCEPT
                      !.changed = session[s].pc # "out"]]
    /\ UNCHANGED <<layout, boot, saved, tmp, ran, mixed, faults>>

Next ==
    \/ Start \/ ResolveParent \/ ChainLoops \/ Stop
    \/ \E s \in Sessions : Begin(s) \/ Setup(s) \/ Leave(s) \/ SessionFails(s)
    \/ \E i \in Images : UpdateImage(i)

\* The container is started again when it has stopped, and a session that
\* has ended, or that failed, is begun again; a playbook comes to an end.
Fairness ==
    /\ WF_vars(Start) /\ WF_vars(ResolveParent)
    /\ \A s \in Sessions : WF_vars(Begin(s)) /\ WF_vars(Setup(s))
                           /\ WF_vars(Leave(s))

Spec == Init /\ [][Next]_vars
FairSpec == Spec /\ Fairness

-----------------------------------------------------------------------------
(***************************************************************************)
(* Properties                                                              *)
(***************************************************************************)
\* A digest is not taken of newer files than the playbook has run with,
\* whichever sessions and digests failed on the way, unless two sessions
\* worked on the image at once (nsbox-enter-setup.sh:24-25, 59).
SavedWasPlayed == \A i \in Images \ mixed : saved[i].of <= ran[i]

\* Images with a file that has become again what it was once before.
Returned == {i \in Images :
    \E n \in 0..content[i] : \E m \in n..content[i] :
        ~(Lines(i, n) \cap Lines(i, content[i]) \subseteq Lines(i, m))}

\* Who gets in, with no image updated since it began, was let past every
\* image of the chain by some of its files: all of them if it has run the
\* playbook, else those that the saved digest lists; and the last time the
\* playbook has run with new files, these were as they are now.  Of files
\* that were added since, and of files that a failed digest leaves out,
\* nothing is said: sha256sum -c does not look at them.
EntryUpToDate ==
    \A s \in Sessions :
        In(s, "in") /\ session[s].replay /\ ~session[s].changed =>
            \A i \in InChain \ (mixed \cup Returned) :
                /\ session[s].by[i] # {}
                /\ session[s].by[i] \subseteq Lines(i, content[i])
                /\ ran[i] # None
                /\ session[s].by[i] \subseteq Lines(i, ran[i])

\* A playbook is started only on a container in which those of all images
\* that its own is derived from have run.
BasesFirst ==
    \A s \in Sessions :
        In(s, "playing") =>
            LET p == layout.parent[Top(s)]
            IN  p # NoImage => ran[p] # None

\* With a chain that can be resolved, whoever tries again gets in, though
\* each time all but the first playbook may fail to save its digest.
Resolvable == \A i \in Images : layout.parent[i] # i /\ Opens(i)
GetsIn == Resolvable => \A s \in Sessions : []<>In(s, "in")

\* nsbox-enter-setup.sh:20: if any have changed "then this image and all its
\* dependents will have their playbooks re-run."
DependentsReplayed ==
    \A s \in Sessions :
        In(s, "in") /\ session[s].replay /\ ~session[s].changed
            => InChain \cap stale = {}
=============================================================================
